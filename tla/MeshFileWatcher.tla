--------------------------- MODULE MeshFileWatcher ---------------------------
(***************************************************************************)
(* addFileWatcher of pkg/config/mesh/mesh.go: a goroutine that selects on  *)
(* the file watcher's event channel and on a 100ms timer, arming the timer *)
(* on an event when none is armed and running the callback (which reads    *)
(* the file) when it fires. Writers of the file are the environment.       *)
(***************************************************************************)
EXTENDS Naturals

CONSTANTS
    MaxWrites,   \* bound on writes of the watched file
    MaxEvents    \* bound on change events queued on the watcher's channel

VARIABLES
    version,   \* the file's content, as the number of writes so far
    events,    \* change events queued on fileWatcher.Events(file)
    timer,     \* timerC: "nil", "armed" (time.After pending) or "fired"
    seen       \* the content the callback read last

vars == <<version, events, timer, seen>>

Init ==
    /\ version = 0
    /\ events = 0
    /\ timer = "nil"
    /\ seen = 0

\* A write of the file; the watcher queues a change event for it.
WriteFile ==
    /\ version < MaxWrites
    /\ events < MaxEvents
    /\ version' = version + 1
    /\ events' = events + 1
    /\ UNCHANGED <<timer, seen>>

\* Mutant: an event never arms the timer.
RecvEventNoArm ==
    /\ events > 0
    /\ events' = events - 1
    /\ UNCHANGED <<version, timer, seen>>

\* The select receives an event: arm the timer unless one is armed.
RecvEvent ==
    /\ events > 0
    /\ events' = events - 1
    /\ timer' = IF timer = "nil" THEN "armed" ELSE timer
    /\ UNCHANGED <<version, seen>>

\* 100ms pass: the timer's channel becomes ready.
Fire ==
    /\ timer = "armed"
    /\ timer' = "fired"
    /\ UNCHANGED <<version, events, seen>>

\* The select receives from the timer: disarm it and run the callback.
RecvTimer ==
    /\ timer = "fired"
    /\ timer' = "nil"
    /\ seen' = version
    /\ UNCHANGED <<version, events>>

Next == WriteFile \/ RecvEvent \/ Fire \/ RecvTimer

\* The goroutine runs and time passes; writes need not happen.
Spec == Init /\ [][Next]_vars
        /\ WF_vars(RecvEvent) /\ WF_vars(Fire) /\ WF_vars(RecvTimer)

TypeOK ==
    /\ version \in 0..MaxWrites /\ events \in 0..MaxEvents
    /\ timer \in {"nil", "armed", "fired"} /\ seen \in 0..MaxWrites

\* The debounce implements the callback addFileWatcher promises: the file
\* version and what the callback read change only as a write and a callback
\* reading the current file, and a change is never left unread, however
\* events, timer arming and firing interleave. The event channel and the
\* timer are hidden.
Promise == INSTANCE MeshCallback
ImplementsPromise == Promise!Spec
=============================================================================
