------------------------------ MODULE MCMeshFiles ------------------------------
(* The two readers of mesh.go side by side: ApplyMeshConfig calls (as in  *)
(* MCMeshConfig) interleaved with reads and host resolution of a mesh     *)
(* networks file, over two networks, two gateway hostnames and two IPs.   *)
EXTENDS MCMeshConfig, TLC

CONSTANTS Missing, Fail

VARIABLES file, dns, config

netVars == <<file, dns, config>>

MCIPs == {"10.0.0.1", "10.0.0.2"}
MCHosts == {"a.example", "b.example"}

\* A file with two networks: address gateways by hostname (one hostname in
\* both networks), by IP and empty, and a registry gateway; and a file
\* that omits networks.
MCDocs ==
    {("net1" :> <<[registry |-> FALSE, addr |-> "a.example"],
                  [registry |-> FALSE, addr |-> "10.0.0.1"]>>)
     @@ ("net2" :> <<[registry |-> TRUE, addr |-> ""],
                     [registry |-> FALSE, addr |-> "b.example"],
                     [registry |-> FALSE, addr |-> "a.example"],
                     [registry |-> FALSE, addr |-> ""]>>),
     [n \in {} |-> <<>>]}

\* A lookup fails, or returns two addresses of which the first is taken.
MCAnswers == {Fail, <<"10.0.0.2", "10.0.0.1">>}


Net == INSTANCE MeshNetworks
    WITH IPs <- MCIPs, Hosts <- MCHosts, Docs <- MCDocs, Answers <- MCAnswers

FilesInit == Init /\ Net!Init

\* Each step is a call of one of the two readers, or a change of the
\* networks file or of DNS.
FilesNext == (Next /\ UNCHANGED netVars) \/ (Net!Next /\ UNCHANGED vars)

FilesSpec == FilesInit /\ [][FilesNext]_<<vars, netVars>>
=============================================================================
