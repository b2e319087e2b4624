---------------------------- MODULE MeshCallback ----------------------------
(***************************************************************************)
(* What addFileWatcher of pkg/config/mesh/mesh.go promises its caller: the *)
(* callback is executed on changes of the file, and reads it as it is at   *)
(* that moment. Nothing is said about how often it runs; it must not miss  *)
(* the last change.                                                        *)
(***************************************************************************)
EXTENDS Naturals

CONSTANT MaxWrites

VARIABLES
    version,   \* the file's content, as the number of writes so far
    seen       \* the content the callback read last

vars == <<version, seen>>

Init == version = 0 /\ seen = 0

Write == version < MaxWrites /\ version' = version + 1 /\ UNCHANGED seen

\* The callback runs and reads the file.
Callback == seen' = version /\ UNCHANGED version

Next == Write \/ Callback

\* A callback that would read something new is not postponed forever.
Spec == Init /\ [][Next]_vars /\ WF_vars(Callback)
=============================================================================
