------------------------------ MODULE MeshConfig ------------------------------
(***************************************************************************)
(* The YAML merging of pkg/config/mesh/mesh.go: ApplyMeshConfig,           *)
(* ApplyMeshConfigDefaults and ApplyProxyConfig, on a few fields.          *)
(*                                                                         *)
(* A message is a function from field names to values. A YAML document is  *)
(* a function from field names to values or Unset (field omitted);         *)
(* "defaultConfig" maps to a nested document or Unset. Unmarshalling       *)
(* (gogoprotomarshal.ApplyYAML, jsonpb) overwrites the fields the document *)
(* sets and allocates a fresh message for a nested message it sets.        *)
(* Marshalling (ToYAML, jsonpb) omits scalar fields holding zero and       *)
(* wrapper fields holding nil.                                             *)
(***************************************************************************)
EXTENDS Naturals

CONSTANTS
    Yamls,      \* YAML documents given to ApplyMeshConfig
    Defaults,   \* default MeshConfigs given to ApplyMeshConfig
    Unset,      \* model value: a field the document omits
    Nil,        \* model value: a nil wrapper or message
    Invalid     \* model value: a document that does not parse, or an error

\* ProxyConfig fields: two scalars and the Int32Value wrapper Concurrency.
ScalarFields == {"proxyAdminPort", "statusPort"}
WrapperFields == {"concurrency"}
ProxyFields == ScalarFields \cup WrapperFields
\* MeshConfig scalar fields besides defaultConfig.
MeshFields == {"proxyListenPort", "dnsRefreshRate"}

\* DefaultProxyConfig (the fields modelled).
DefaultProxyConfig ==
    [f \in ProxyFields |-> CASE f = "proxyAdminPort" -> 15000
                             [] f = "statusPort"     -> 15020
                             [] f = "concurrency"    -> 2]

\* DefaultMeshConfig (the fields modelled).
DefaultMeshConfig ==
    [proxyListenPort |-> 15001, dnsRefreshRate |-> 5,
     defaultConfig |-> DefaultProxyConfig]

ZeroOf(f) == IF f \in WrapperFields THEN Nil ELSE 0

\* jsonpb into an existing ProxyConfig: set fields overwrite.
ApplyProxyYAML(y, m) == [f \in ProxyFields |-> IF y[f] # Unset THEN y[f] ELSE m[f]]

\* jsonpb into a freshly allocated ProxyConfig.
NewProxy(y) == ApplyProxyYAML(y, [f \in ProxyFields |-> ZeroOf(f)])

\* gogoprotomarshal.ToYAML of a ProxyConfig: zero scalars, nil wrappers omitted.
ProxyToYAML(m) ==
    [f \in ProxyFields |-> IF m[f] = ZeroOf(f) THEN Unset ELSE m[f]]

\* gogoprotomarshal.ApplyYAML(yaml, &defaultConfig) on a MeshConfig.
ApplyMeshYAML(y, mc) ==
    [proxyListenPort |-> IF y.proxyListenPort # Unset THEN y.proxyListenPort
                         ELSE mc.proxyListenPort,
     dnsRefreshRate  |-> IF y.dnsRefreshRate # Unset THEN y.dnsRefreshRate
                         ELSE mc.dnsRefreshRate,
     defaultConfig   |-> IF y.defaultConfig # Unset THEN NewProxy(y.defaultConfig)
                         ELSE mc.defaultConfig]

\* Mutant: no reset-and-reapply of DefaultConfig after unmarshalling.
ApplyMeshConfigNoReapply(y, dflt) ==
    IF y = Invalid THEN Invalid ELSE ApplyMeshYAML(y, dflt)

\* ApplyMeshConfig: unmarshal, then reset DefaultConfig to
\* DefaultProxyConfig() and re-apply the previous one through YAML.
ApplyMeshConfig(y, dflt) ==
    IF y = Invalid THEN Invalid
    ELSE LET mc   == ApplyMeshYAML(y, dflt)
             prev == mc.defaultConfig
         IN [mc EXCEPT !.defaultConfig =
                IF prev = Nil THEN DefaultProxyConfig
                ELSE ApplyProxyYAML(ProxyToYAML(prev), DefaultProxyConfig)]

ApplyMeshConfigDefaults(y) == ApplyMeshConfig(y, DefaultMeshConfig)

\* ApplyProxyConfig: unmarshal into a clone's DefaultConfig.
ApplyProxyConfig(y, mc) ==
    IF y = Invalid THEN Invalid
    ELSE [mc EXCEPT !.defaultConfig = ApplyProxyYAML(y, mc.defaultConfig)]

-----------------------------------------------------------------------------
(* Each step is one call; the state records its arguments and its result.  *)
VARIABLES yaml, dflt, out, proxyOut

vars == <<yaml, dflt, out, proxyOut>>

Result(y, d) == ApplyMeshConfig(y, d)
ProxyResult(y, d) == IF y = Invalid THEN Invalid
                     ELSE IF y.defaultConfig = Unset THEN Invalid
                     ELSE ApplyProxyConfig(y.defaultConfig, d)

\* The first call.
Init ==
    \E y \in Yamls, d \in Defaults :
        /\ yaml = y /\ dflt = d
        /\ out = Result(y, d) /\ proxyOut = ProxyResult(y, d)

\* A call of ApplyMeshConfig(y, d), and of ApplyProxyConfig with y's
\* defaultConfig when it has one.
Call ==
    \E y \in Yamls, d \in Defaults :
        /\ yaml' = y /\ dflt' = d
        /\ out' = Result(y, d) /\ proxyOut' = ProxyResult(y, d)

Next == Call
Spec == Init /\ [][Next]_vars

-----------------------------------------------------------------------------
(* Properties.                                                            *)

ProxyValues == Nat \cup {Nil}
ProxyConfigs == [ProxyFields -> ProxyValues]
MeshConfigs == [proxyListenPort : Nat, dnsRefreshRate : Nat,
                defaultConfig : ProxyConfigs]

TypeOK ==
    /\ out \in MeshConfigs \cup {Invalid}
    /\ proxyOut \in MeshConfigs \cup {Invalid}

\* The documented contract: the YAML's values, with the provided defaults
\* for omitted values, field by field inside defaultConfig too.
Expected(y, d) ==
    IF y = Invalid THEN Invalid
    ELSE [proxyListenPort |-> IF y.proxyListenPort # Unset THEN y.proxyListenPort
                              ELSE d.proxyListenPort,
          dnsRefreshRate  |-> IF y.dnsRefreshRate # Unset THEN y.dnsRefreshRate
                              ELSE d.dnsRefreshRate,
          defaultConfig   |->
            [f \in ProxyFields |->
               IF y.defaultConfig # Unset /\ y.defaultConfig[f] # Unset
               THEN y.defaultConfig[f] ELSE d.defaultConfig[f]]]

\* ApplyMeshConfig returns the YAML's values with the provided defaults for
\* omitted ones: a partial defaultConfig in the YAML keeps the default
\* proxy fields it omits (the reason for the reset-and-reapply step).
MergesDefaults == out = Expected(yaml, dflt)
=============================================================================
