----------------------------- MODULE MeshNetworks -----------------------------
(***************************************************************************)
(* The mesh networks half of pkg/config/mesh/mesh.go: ReadMeshNetworks and *)
(* ParseMeshNetworks, and ResolveHostsInNetworksConfig, which rewrites the *)
(* gateway addresses of a parsed config in place.                          *)
(*                                                                         *)
(* A MeshNetworks is a function from network names to the sequence of the *)
(* network's gateways. A gateway is either a registry service gateway      *)
(* (GetAddress returns "") or an address gateway whose address is an IP,  *)
(* a hostname or "". The networks file and the DNS answers are the        *)
(* environment: they change between calls. One call of Resolve reads one  *)
(* DNS answer per hostname.                                               *)
(***************************************************************************)
EXTENDS Naturals, Sequences

CONSTANTS
    IPs,        \* addresses net.ParseIP accepts
    Hosts,      \* hostnames (net.ParseIP returns nil)
    Docs,       \* networks files that parse: functions network -> gateways
    Answers,    \* possible results of net.LookupHost: Fail or non-empty IP sequences
    Invalid,    \* model value: a file that does not parse
    Missing,    \* model value: a file that cannot be read
    Fail,       \* model value: LookupHost returned an error
    Nil         \* model value: a nil *MeshNetworks

Gateway(registry, addr) == [registry |-> registry, addr |-> addr]

\* gw.GetAddress(): the address of an address gateway, "" otherwise.
GetAddress(gw) == IF gw.registry THEN "" ELSE gw.addr

\* EmptyMeshNetworks: no networks.
EmptyMeshNetworks == [n \in {} |-> <<>>]

\* ParseMeshNetworks: ApplyYAML into EmptyMeshNetworks(); nil on an error.
ParseMeshNetworks(y) == IF y = Invalid THEN Nil ELSE y

\* ReadMeshNetworks: nil when the file cannot be read, else the parse.
ReadMeshNetworks(f) == IF f = Missing THEN Nil ELSE ParseMeshNetworks(f)

\* One gateway of the loop: an address that is neither an IP nor empty is
\* looked up; on success it is replaced by the first address returned, on
\* an error it is kept.
ResolveGateway(gw, dns) ==
    LET a == GetAddress(gw) IN
    IF a \notin IPs /\ a # "" /\ dns[a] # Fail
    THEN Gateway(FALSE, Head(dns[a]))
    ELSE gw

\* ResolveHostsInNetworksConfig: nothing for a nil config, else every
\* gateway of every network.
ResolveHostsInNetworksConfig(cfg, dns) ==
    IF cfg = Nil THEN Nil
    ELSE [n \in DOMAIN cfg |->
            [i \in DOMAIN cfg[n] |-> ResolveGateway(cfg[n][i], dns)]]

-----------------------------------------------------------------------------
VARIABLES
    file,      \* the networks file
    dns,       \* what LookupHost answers for each hostname now
    config     \* the *MeshNetworks the caller holds

vars == <<file, dns, config>>

Init ==
    /\ file \in Docs \cup {Invalid, Missing}
    /\ dns \in [Hosts -> Answers]
    /\ config = ReadMeshNetworks(file)

(* The environment.                                                       *)
WriteFile(f) ==
    /\ file' = f
    /\ UNCHANGED <<dns, config>>

SetAnswer(h, a) ==
    /\ dns' = [dns EXCEPT ![h] = a]
    /\ UNCHANGED <<file, config>>

(* The calls.                                                             *)
Read ==
    /\ config' = ReadMeshNetworks(file)
    /\ UNCHANGED <<file, dns>>

Resolve ==
    /\ config' = ResolveHostsInNetworksConfig(config, dns)
    /\ UNCHANGED <<file, dns>>

Next ==
    \/ \E f \in Docs \cup {Invalid, Missing} : WriteFile(f)
    \/ \E h \in Hosts, a \in Answers : SetAnswer(h, a)
    \/ Read
    \/ Resolve

Spec == Init /\ [][Next]_vars

=============================================================================
