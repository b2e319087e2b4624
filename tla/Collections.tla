----------------------------- MODULE Collections -----------------------------
(***************************************************************************)
(* The generated schema tables of pkg/config/schema/collections            *)
(* (collections.gen.go, mock.go) and the registry of validation functions  *)
(* of pkg/config/validation, as they stand after package initialisation.   *)
(*                                                                         *)
(* A collection is a record of the fields a property or the watcher tells  *)
(* apart: its name, and its resource's group, kind, plural and scope; the  *)
(* validation function is named. Version, proto and proto package are     *)
(* left out, and Disabled is false for every generated collection. A       *)
(* schema set is the sequence of its MustAdd calls.                        *)
(***************************************************************************)
EXTENDS Naturals, Sequences, SequencesExt

-----------------------------------------------------------------------------
(* pkg/config/validation.                                                 *)

\* A message, abstracted to the key of a MockConfig ("" or not).
Messages == {"", "key"}

\* EmptyValidate does nothing and returns no error.
EmptyValidate(msg) == "ok"

\* validateFuncs after package init: registerValidateFunc registered
\* EmptyValidate under its name, and nothing else registers a function.
validateFuncs == [n \in {"EmptyValidate"} |-> "EmptyValidate"]

\* GetValidateFunc: the function registered under name, or nil.
GetValidateFunc(name) ==
    IF name \in DOMAIN validateFuncs THEN validateFuncs[name] ELSE "nil"

IsValidateFunc(name) == GetValidateFunc(name) # "nil"

-----------------------------------------------------------------------------
(* The collections of collections.gen.go.                                 *)

Coll(name, group, kind, plural, clusterScoped) ==
    [name |-> name, group |-> group, kind |-> kind, plural |-> plural,
     clusterScoped |-> clusterScoped, validate |-> "EmptyValidate"]

IstioConfigV1Alpha2Adapters ==
    Coll("istio/config/v1alpha2/adapters", "config.istio.io", "adapter", "adapters", FALSE)
IstioConfigV1Alpha2Templates ==
    Coll("istio/config/v1alpha2/templates", "config.istio.io", "template", "templates", FALSE)
IstioMeshV1Alpha1MeshConfig ==
    Coll("istio/mesh/v1alpha1/MeshConfig", "", "MeshConfig", "meshconfigs", FALSE)
IstioMeshV1Alpha1MeshNetworks ==
    Coll("istio/mesh/v1alpha1/MeshNetworks", "", "MeshNetworks", "meshnetworks", FALSE)
IstioNetworkingV1Alpha3Destinationrules ==
    Coll("istio/networking/v1alpha3/destinationrules", "networking.istio.io", "DestinationRule", "destinationrules", FALSE)
IstioNetworkingV1Alpha3Envoyfilters ==
    Coll("istio/networking/v1alpha3/envoyfilters", "networking.istio.io", "EnvoyFilter", "envoyfilters", FALSE)
IstioNetworkingV1Alpha3Gateways ==
    Coll("istio/networking/v1alpha3/gateways", "networking.istio.io", "Gateway", "gateways", FALSE)
IstioNetworkingV1Alpha3Serviceentries ==
    Coll("istio/networking/v1alpha3/serviceentries", "networking.istio.io", "ServiceEntry", "serviceentries", FALSE)
IstioNetworkingV1Alpha3Sidecars ==
    Coll("istio/networking/v1alpha3/sidecars", "networking.istio.io", "Sidecar", "sidecars", FALSE)
IstioNetworkingV1Alpha3Virtualservices ==
    Coll("istio/networking/v1alpha3/virtualservices", "networking.istio.io", "VirtualService", "virtualservices", FALSE)
IstioNetworkingV1Alpha3Workloadentries ==
    Coll("istio/networking/v1alpha3/workloadentries", "networking.istio.io", "WorkloadEntry", "workloadentries", FALSE)
IstioSecurityV1Beta1Authorizationpolicies ==
    Coll("istio/security/v1beta1/authorizationpolicies", "security.istio.io", "AuthorizationPolicy", "authorizationpolicies", FALSE)
IstioSecurityV1Beta1Peerauthentications ==
    Coll("istio/security/v1beta1/peerauthentications", "security.istio.io", "PeerAuthentication", "peerauthentications", FALSE)
IstioSecurityV1Beta1Requestauthentications ==
    Coll("istio/security/v1beta1/requestauthentications", "security.istio.io", "RequestAuthentication", "requestauthentications", FALSE)
K8SApiextensionsK8SIoV1Beta1Customresourcedefinitions ==
    Coll("k8s/apiextensions.k8s.io/v1beta1/customresourcedefinitions", "apiextensions.k8s.io", "CustomResourceDefinition", "CustomResourceDefinitions", FALSE)
K8SAppsV1Deployments ==
    Coll("k8s/apps/v1/deployments", "apps", "Deployment", "Deployments", FALSE)
K8SConfigIstioIoV1Alpha2Adapters ==
    Coll("k8s/config.istio.io/v1alpha2/adapters", "config.istio.io", "adapter", "adapters", FALSE)
K8SConfigIstioIoV1Alpha2Templates ==
    Coll("k8s/config.istio.io/v1alpha2/templates", "config.istio.io", "template", "templates", FALSE)
K8SCoreV1Configmaps ==
    Coll("k8s/core/v1/configmaps", "", "ConfigMap", "configmaps", FALSE)
K8SCoreV1Endpoints ==
    Coll("k8s/core/v1/endpoints", "", "Endpoints", "endpoints", FALSE)
K8SCoreV1Namespaces ==
    Coll("k8s/core/v1/namespaces", "", "Namespace", "namespaces", TRUE)
K8SCoreV1Nodes ==
    Coll("k8s/core/v1/nodes", "", "Node", "nodes", TRUE)
K8SCoreV1Pods ==
    Coll("k8s/core/v1/pods", "", "Pod", "pods", FALSE)
K8SCoreV1Secrets ==
    Coll("k8s/core/v1/secrets", "", "Secret", "secrets", FALSE)
K8SCoreV1Services ==
    Coll("k8s/core/v1/services", "", "Service", "services", FALSE)
K8SExtensionsV1Beta1Ingresses ==
    Coll("k8s/extensions/v1beta1/ingresses", "extensions", "Ingress", "ingresses", FALSE)
K8SNetworkingIstioIoV1Alpha3Destinationrules ==
    Coll("k8s/networking.istio.io/v1alpha3/destinationrules", "networking.istio.io", "DestinationRule", "destinationrules", FALSE)
K8SNetworkingIstioIoV1Alpha3Envoyfilters ==
    Coll("k8s/networking.istio.io/v1alpha3/envoyfilters", "networking.istio.io", "EnvoyFilter", "envoyfilters", FALSE)
K8SNetworkingIstioIoV1Alpha3Gateways ==
    Coll("k8s/networking.istio.io/v1alpha3/gateways", "networking.istio.io", "Gateway", "gateways", FALSE)
K8SNetworkingIstioIoV1Alpha3Serviceentries ==
    Coll("k8s/networking.istio.io/v1alpha3/serviceentries", "networking.istio.io", "ServiceEntry", "serviceentries", FALSE)
K8SNetworkingIstioIoV1Alpha3Sidecars ==
    Coll("k8s/networking.istio.io/v1alpha3/sidecars", "networking.istio.io", "Sidecar", "sidecars", FALSE)
K8SNetworkingIstioIoV1Alpha3Virtualservices ==
    Coll("k8s/networking.istio.io/v1alpha3/virtualservices", "networking.istio.io", "VirtualService", "virtualservices", FALSE)
K8SNetworkingIstioIoV1Alpha3Workloadentries ==
    Coll("k8s/networking.istio.io/v1alpha3/workloadentries", "networking.istio.io", "WorkloadEntry", "workloadentries", FALSE)
K8SSecurityIstioIoV1Beta1Authorizationpolicies ==
    Coll("k8s/security.istio.io/v1beta1/authorizationpolicies", "security.istio.io", "AuthorizationPolicy", "authorizationpolicies", FALSE)
K8SSecurityIstioIoV1Beta1Peerauthentications ==
    Coll("k8s/security.istio.io/v1beta1/peerauthentications", "security.istio.io", "PeerAuthentication", "peerauthentications", FALSE)
K8SSecurityIstioIoV1Beta1Requestauthentications ==
    Coll("k8s/security.istio.io/v1beta1/requestauthentications", "security.istio.io", "RequestAuthentication", "requestauthentications", FALSE)
K8SServiceApisV1Alpha1Gatewayclasses ==
    Coll("k8s/service_apis/v1alpha1/gatewayclasses", "networking.x.k8s.io", "GatewayClass", "gatewayclasses", TRUE)
K8SServiceApisV1Alpha1Gateways ==
    Coll("k8s/service_apis/v1alpha1/gateways", "networking.x.k8s.io", "Gateway", "gateways", FALSE)
K8SServiceApisV1Alpha1Httproutes ==
    Coll("k8s/service_apis/v1alpha1/httproutes", "networking.x.k8s.io", "HTTPRoute", "httproutes", FALSE)
K8SServiceApisV1Alpha1Tcproutes ==
    Coll("k8s/service_apis/v1alpha1/tcproutes", "networking.x.k8s.io", "TcpRoute", "tcproutes", FALSE)
K8SServiceApisV1Alpha1Trafficsplits ==
    Coll("k8s/service_apis/v1alpha1/trafficsplits", "networking.x.k8s.io", "TrafficSplit", "trafficsplits", FALSE)

-----------------------------------------------------------------------------
(* mock.go.                                                                *)

\* Mock's ValidateProto: a MockConfig with an empty key is rejected.
MockValidate(msg) == IF msg = "" THEN "empty key" ELSE "ok"

Mock ==
    [Coll("mock", "test.istio.io", "MockConfig", "mockconfigs", FALSE)
        EXCEPT !.validate = "MockValidate"]

\* Mocks is a Schemas containing the Mock Schema.
Mocks == <<Mock>>

-----------------------------------------------------------------------------
(* The schema sets.                                                       *)

\* All contains all collections in the system.
All ==
    <<IstioConfigV1Alpha2Adapters, IstioConfigV1Alpha2Templates,
      IstioMeshV1Alpha1MeshConfig, IstioMeshV1Alpha1MeshNetworks,
      IstioNetworkingV1Alpha3Destinationrules,
      IstioNetworkingV1Alpha3Envoyfilters,
      IstioNetworkingV1Alpha3Gateways,
      IstioNetworkingV1Alpha3Serviceentries,
      IstioNetworkingV1Alpha3Sidecars,
      IstioNetworkingV1Alpha3Virtualservices,
      IstioNetworkingV1Alpha3Workloadentries,
      IstioSecurityV1Beta1Authorizationpolicies,
      IstioSecurityV1Beta1Peerauthentications,
      IstioSecurityV1Beta1Requestauthentications,
      K8SApiextensionsK8SIoV1Beta1Customresourcedefinitions,
      K8SAppsV1Deployments, K8SConfigIstioIoV1Alpha2Adapters,
      K8SConfigIstioIoV1Alpha2Templates, K8SCoreV1Configmaps,
      K8SCoreV1Endpoints, K8SCoreV1Namespaces, K8SCoreV1Nodes,
      K8SCoreV1Pods, K8SCoreV1Secrets, K8SCoreV1Services,
      K8SExtensionsV1Beta1Ingresses,
      K8SNetworkingIstioIoV1Alpha3Destinationrules,
      K8SNetworkingIstioIoV1Alpha3Envoyfilters,
      K8SNetworkingIstioIoV1Alpha3Gateways,
      K8SNetworkingIstioIoV1Alpha3Serviceentries,
      K8SNetworkingIstioIoV1Alpha3Sidecars,
      K8SNetworkingIstioIoV1Alpha3Virtualservices,
      K8SNetworkingIstioIoV1Alpha3Workloadentries,
      K8SSecurityIstioIoV1Beta1Authorizationpolicies,
      K8SSecurityIstioIoV1Beta1Peerauthentications,
      K8SSecurityIstioIoV1Beta1Requestauthentications,
      K8SServiceApisV1Alpha1Gatewayclasses,
      K8SServiceApisV1Alpha1Gateways, K8SServiceApisV1Alpha1Httproutes,
      K8SServiceApisV1Alpha1Tcproutes, K8SServiceApisV1Alpha1Trafficsplits>>

\* Istio contains only Istio collections.
Istio ==
    <<IstioConfigV1Alpha2Adapters, IstioConfigV1Alpha2Templates,
      IstioMeshV1Alpha1MeshConfig, IstioMeshV1Alpha1MeshNetworks,
      IstioNetworkingV1Alpha3Destinationrules,
      IstioNetworkingV1Alpha3Envoyfilters,
      IstioNetworkingV1Alpha3Gateways,
      IstioNetworkingV1Alpha3Serviceentries,
      IstioNetworkingV1Alpha3Sidecars,
      IstioNetworkingV1Alpha3Virtualservices,
      IstioNetworkingV1Alpha3Workloadentries,
      IstioSecurityV1Beta1Authorizationpolicies,
      IstioSecurityV1Beta1Peerauthentications,
      IstioSecurityV1Beta1Requestauthentications>>

\* Kube contains only kubernetes collections.
Kube ==
    <<K8SApiextensionsK8SIoV1Beta1Customresourcedefinitions,
      K8SAppsV1Deployments, K8SConfigIstioIoV1Alpha2Adapters,
      K8SConfigIstioIoV1Alpha2Templates, K8SCoreV1Configmaps,
      K8SCoreV1Endpoints, K8SCoreV1Namespaces, K8SCoreV1Nodes,
      K8SCoreV1Pods, K8SCoreV1Secrets, K8SCoreV1Services,
      K8SExtensionsV1Beta1Ingresses,
      K8SNetworkingIstioIoV1Alpha3Destinationrules,
      K8SNetworkingIstioIoV1Alpha3Envoyfilters,
      K8SNetworkingIstioIoV1Alpha3Gateways,
      K8SNetworkingIstioIoV1Alpha3Serviceentries,
      K8SNetworkingIstioIoV1Alpha3Sidecars,
      K8SNetworkingIstioIoV1Alpha3Virtualservices,
      K8SNetworkingIstioIoV1Alpha3Workloadentries,
      K8SSecurityIstioIoV1Beta1Authorizationpolicies,
      K8SSecurityIstioIoV1Beta1Peerauthentications,
      K8SSecurityIstioIoV1Beta1Requestauthentications,
      K8SServiceApisV1Alpha1Gatewayclasses,
      K8SServiceApisV1Alpha1Gateways, K8SServiceApisV1Alpha1Httproutes,
      K8SServiceApisV1Alpha1Tcproutes, K8SServiceApisV1Alpha1Trafficsplits>>

\* Pilot contains only collections used by Pilot.
Pilot ==
    <<IstioNetworkingV1Alpha3Destinationrules,
      IstioNetworkingV1Alpha3Envoyfilters,
      IstioNetworkingV1Alpha3Gateways,
      IstioNetworkingV1Alpha3Serviceentries,
      IstioNetworkingV1Alpha3Sidecars,
      IstioNetworkingV1Alpha3Virtualservices,
      IstioNetworkingV1Alpha3Workloadentries,
      IstioSecurityV1Beta1Authorizationpolicies,
      IstioSecurityV1Beta1Peerauthentications,
      IstioSecurityV1Beta1Requestauthentications>>

\* PilotServiceApi contains only collections used by Pilot, including experimental Service Api.
PilotServiceApi ==
    <<IstioNetworkingV1Alpha3Destinationrules,
      IstioNetworkingV1Alpha3Envoyfilters,
      IstioNetworkingV1Alpha3Gateways,
      IstioNetworkingV1Alpha3Serviceentries,
      IstioNetworkingV1Alpha3Sidecars,
      IstioNetworkingV1Alpha3Virtualservices,
      IstioNetworkingV1Alpha3Workloadentries,
      IstioSecurityV1Beta1Authorizationpolicies,
      IstioSecurityV1Beta1Peerauthentications,
      IstioSecurityV1Beta1Requestauthentications,
      K8SServiceApisV1Alpha1Gatewayclasses,
      K8SServiceApisV1Alpha1Gateways, K8SServiceApisV1Alpha1Httproutes,
      K8SServiceApisV1Alpha1Tcproutes, K8SServiceApisV1Alpha1Trafficsplits>>

-----------------------------------------------------------------------------
(* collection.NewSchemasBuilder().MustAdd(...)...Build(): MustAdd panics   *)
(* when a collection of the same name was already added.                  *)

RECURSIVE BuildSchemas(_, _)
BuildSchemas(seq, added) ==
    IF seq = <<>> THEN [panic |-> FALSE, schemas |-> added]
    ELSE IF \E s \in added : s.name = Head(seq).name
         THEN [panic |-> TRUE, schemas |-> added]
    ELSE BuildSchemas(Tail(seq), added \cup {Head(seq)})

Build(seq) == BuildSchemas(seq, {})

SchemaSets == {All, Istio, Kube, Pilot, PilotServiceApi, Mocks}

=============================================================================
