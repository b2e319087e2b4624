---------------------------- MODULE MCKubeWatcher ----------------------------
(* Model-checking instance of KubeWatcher: two resources, two revisions.   *)
EXTENDS KubeWatcher, TLC

CONSTANTS n1, n2

MCNames == {n1, n2}
MCRevs == {"a", "b"}

\* The watcher of Istio Gateways, with "rev-crds" listing gateways, or unset.
MCSchema == K8SNetworkingIstioIoV1Alpha3Gateways
MCRevCrds == <<"gateways", "virtualservices">>
MCUnsetCrds == <<"">>

\* n1 and n2 are interchangeable resources of one schema.
MCSymmetry == Permutations(MCNames)
=============================================================================
