----------------------------- MODULE MCMeshConfig -----------------------------
(* Inputs for MeshConfig: every document over the modelled fields with    *)
(* values unset, 0 or 1, plus one that does not parse.                    *)
EXTENDS MeshConfig

FieldValues == {Unset, 0, 1}

ProxyDocs == [ProxyFields -> FieldValues]

AllYamls ==
    {Invalid} \cup
    [proxyListenPort : FieldValues, dnsRefreshRate : FieldValues,
     defaultConfig : ProxyDocs \cup {Unset}]

\* Documents that never set a scalar proxy field to zero explicitly.
NonZeroYamls ==
    {y \in AllYamls :
        y = Invalid \/ y.defaultConfig = Unset
        \/ \A f \in ScalarFields : y.defaultConfig[f] # 0}

\* The defaults ApplyMeshConfigDefaults passes.
StandardDefaults == {DefaultMeshConfig}

\* Also a caller default whose proxy statusPort differs from DefaultProxyConfig.
CustomDefaults ==
    {DefaultMeshConfig,
     [DefaultMeshConfig EXCEPT !.defaultConfig.statusPort = 1]}
=============================================================================
