--------------------------- MODULE ResourceStream ---------------------------
(***************************************************************************)
(* What a source promises the handler about the resources of one schema:  *)
(* the events of a resource carry the versions the backend produced, in   *)
(* the order it produced them. The handler holds, per resource, the last  *)
(* object put, or nothing after a removal; seen is the latest version an  *)
(* event of that resource carried. An event may repeat the version seen   *)
(* (a relist after a restart), never go back to an earlier one.           *)
(***************************************************************************)
EXTENDS Naturals

CONSTANTS
    Names,    \* the resources of the schema
    Obj,      \* resource objects; o.rv is the version of o
    NoObj     \* "no resource"

VARIABLES view, seen

vars == <<view, seen>>

Versions == {o.rv : o \in Obj} \cup {0}

Init ==
    /\ view = [n \in Names |-> NoObj]
    /\ seen = [n \in Names |-> 0]

\* An Added or Updated event.
Put(n, o) ==
    /\ o.rv >= seen[n]
    /\ view' = [view EXCEPT ![n] = o]
    /\ seen' = [seen EXCEPT ![n] = o.rv]

\* A Deleted event carrying version v.
Remove(n, v) ==
    /\ v >= seen[n]
    /\ view' = [view EXCEPT ![n] = NoObj]
    /\ seen' = [seen EXCEPT ![n] = v]

Next == \E n \in Names : (\E o \in Obj : Put(n, o)) \/ (\E v \in Versions : Remove(n, v))

Spec == Init /\ [][Next]_vars
=============================================================================
