----------------------------- MODULE KubeWatcher -----------------------------
(***************************************************************************)
(* The per-schema Kubernetes watcher of                                    *)
(* galley/pkg/config/source/kube/apiserver/watcher.go.                     *)
(*                                                                         *)
(* Actors: the API server (backend), the shared informer the watcher       *)
(* starts (list, watch, relist, periodic resync, and the listener goroutine*)
(* that invokes the add/update/delete callbacks one at a time), the caller *)
(* of start()/stop(), the goroutine that start() spawns to deliver         *)
(* FullSync, and the consumer handler that receives the canonical events.  *)
(*                                                                         *)
(* A resource object is abstracted to its resourceVersion and its          *)
(* istio.io/rev label; rv = 0 stands for "no object".                      *)
(***************************************************************************)
EXTENDS Naturals, Sequences, FiniteSets, SequencesExt, Collections

CONSTANTS
    Names,        \* full names of the resources of this schema
    Revs,         \* non-empty values of the istio.io/rev label
    Schema,       \* the collection the watcher is for
    WatcherRev,   \* w.rev, read from the "istio-revision" env var
    RevCrds,      \* the comma-separated items of the "rev-crds" env var
    CrdStates,    \* possible answers of adapter.NewInformer: TRUE = CRD installed
    ReachStates,  \* TRUE = the informer's initial list completes
    AllowRelist,  \* a watch may expire, so a missed delete is seen on relist
    MaxRV,        \* bound on the API server's resourceVersion clock
    MaxStarts,    \* bound on calls of start()
    MaxNotes      \* bound on the informer's pending notifications

Labels == Revs \cup {""}

\* The watcher exists only if package init built Kube without a MustAdd
\* panic, and it watches one of Kube's collections.
ASSUME ~Build(Kube).panic /\ Schema \in Build(Kube).schemas
ASSUME WatcherRev \in Labels /\ AllowRelist \in BOOLEAN
ASSUME CrdStates \subseteq BOOLEAN /\ ReachStates \subseteq BOOLEAN
ASSUME MaxNotes >= Cardinality(Names)

NoObj == [rv |-> 0, rev |-> ""]
Obj == [rv : 1..MaxRV, rev : Labels]
Present(o) == o.rv > 0

Note == [kind : {"add", "update", "delete"}, name : Names,
         old : Obj \cup {NoObj}, obj : Obj, tomb : BOOLEAN, initial : BOOLEAN]
Event == [kind : {"None", "Added", "Updated", "Deleted", "FullSync"},
          name : Names \cup {"none"}, obj : Obj \cup {NoObj}]

VARIABLES
    backend, rvClock,       \* API server: objects and resourceVersion clock
    crd, reachable,         \* environment facts fixed for the run
    lock, startPc, done,    \* w.mu holder, start()'s program counter, w.done
    starts, stopPending,    \* calls of start(); a stop() call waiting on w.mu
    informer, cache, notes, \* informer phase, its indexer, listener queue
    orphan,                 \* per start(): notifications buffered for the
                            \* listener of an informer stop() has closed
    fsPending,              \* FullSync goroutines spawned but not yet run
    view, synced,           \* the consumer: resources it holds, FullSync seen
    lastEvent, handled,     \* last event handled; flips on every Handle call
    delivered,              \* history: the version the latest event of n carried
    stale                   \* history: held at a relist that did not show them

envVars == <<backend, rvClock, crd, reachable>>
watcherVars == <<lock, startPc, done, starts, stopPending>>
informerVars == <<informer, cache, notes, orphan>>
consumerVars == <<view, synced, lastEvent, handled, delivered, stale>>
vars == <<envVars, watcherVars, informerVars, fsPending, consumerVars>>

EmptyStore == [n \in Names |-> NoObj]

Gens == 1..MaxStarts

-----------------------------------------------------------------------------
(* The event pipeline of handleEvent and the consumer's Handle.           *)

\* newWatcher: w.crds has the items of strings.Split(rev-crds, ",") as keys
\* (an unset variable gives the one item "").
existCrds == ToSet(RevCrds)

\* handleEvent: the schema's plural is a key of w.crds.
RevAware == Schema.plural \in existCrds

\* The revision check of handleEvent: a resource of a revision-aware schema
\* whose non-empty label differs from a non-empty watcher revision.
Skip(o) ==
    /\ RevAware
    /\ WatcherRev # ""
    /\ o.rev # ""
    /\ o.rev # WatcherRev

\* The kind delivered for a callback of kind k, or "Drop".
FilteredKind(k, o) ==
    IF ~Skip(o) THEN k
    ELSE CASE k = "Updated" -> "Deleted"
           [] k = "Deleted" -> "Deleted"
           [] OTHER         -> "Drop"

\* adapter.IsEqual: two versions of an object are equal iff their
\* resourceVersions are.
IsEqual(old, new) == old.rv = new.rv

\* What the consumer should hold for an informer store: the objects whose
\* revision the watcher accepts.
Visible(store) == [n \in Names |-> IF Skip(store[n]) THEN NoObj ELSE store[n]]

\* The consumer handler: Added/Updated store the object, Deleted removes it.
Handle(e) ==
    /\ view' = IF e.kind = "FullSync" THEN view
               ELSE [view EXCEPT ![e.name] =
                        IF e.kind = "Deleted" THEN NoObj ELSE e.obj]
    /\ synced' = (synced \/ e.kind = "FullSync")
    /\ lastEvent' = e
    /\ handled' = 1 - handled
    /\ delivered' = IF e.kind = "FullSync" THEN delivered
                    ELSE [delivered EXCEPT ![e.name] = e.obj.rv]
    /\ stale' = stale \ {e.name}

FullSyncEvent == [kind |-> "FullSync", name |-> "none", obj |-> NoObj]

\* handleEvent(c, obj). A tombstone is not recovered: the recovered object
\* is discarded, obj becomes nil and ExtractResource fails, so the event is
\* dropped. Otherwise the revision filter decides.
handleEvent(k, nt) ==
    LET c == FilteredKind(k, nt.obj) IN
    IF nt.tomb \/ c = "Drop"
    THEN UNCHANGED consumerVars
    ELSE Handle([kind |-> c, name |-> nt.name, obj |-> nt.obj])

-----------------------------------------------------------------------------
Init ==
    /\ backend = EmptyStore
    /\ rvClock = 0
    /\ crd \in CrdStates
    /\ reachable \in ReachStates
    /\ lock = "free"
    /\ startPc = "idle"
    /\ done = 0
    /\ starts = 0
    /\ stopPending = FALSE
    /\ informer = "none"
    /\ cache = EmptyStore
    /\ notes = <<>>
    /\ orphan = [g \in Gens |-> <<>>]
    /\ fsPending = 0
    /\ view = EmptyStore
    /\ synced = FALSE
    /\ lastEvent = [kind |-> "None", name |-> "none", obj |-> NoObj]
    /\ handled = 0
    /\ delivered = [n \in Names |-> 0]
    /\ stale = {}

(* API server: create, modify (spec or label) and delete a resource.      *)
Write(n, o) ==
    /\ rvClock < MaxRV
    /\ rvClock' = rvClock + 1
    /\ backend' = [backend EXCEPT ![n] = o]
    /\ UNCHANGED <<crd, reachable, watcherVars, informerVars, fsPending,
                   consumerVars>>

Create(n, l) == ~Present(backend[n]) /\ Write(n, [rv |-> rvClock + 1, rev |-> l])
Modify(n, l) == Present(backend[n]) /\ Write(n, [rv |-> rvClock + 1, rev |-> l])
Delete(n) == Present(backend[n]) /\ Write(n, NoObj)

(* start(): the caller never starts a running watcher (that panics).      *)
Start ==
    /\ lock = "free"
    /\ startPc = "idle"
    /\ done = 0
    /\ starts < MaxStarts
    /\ starts' = starts + 1
    /\ IF ~crd
       THEN \* NewInformer failed: FullSync under the lock, w.done stays nil
            /\ Handle(FullSyncEvent)
            /\ UNCHANGED <<lock, startPc, done, informerVars>>
       ELSE /\ lock' = "start"
            /\ startPc' = "waitSync"
            /\ done' = starts + 1
            /\ informer' = "listing"
            /\ cache' = EmptyStore
            /\ notes' = <<>>
            /\ synced' = FALSE
            /\ UNCHANGED <<orphan, view, lastEvent, handled, delivered, stale>>
    /\ UNCHANGED <<envVars, stopPending, fsPending>>

\* Mutant: no FullSync goroutine after the cache synced.
StartSyncedNoFullSync ==
    /\ startPc = "waitSync"
    /\ informer = "running"
    /\ startPc' = "idle"
    /\ lock' = "free"
    /\ UNCHANGED <<envVars, done, starts, stopPending, informerVars,
                   fsPending, consumerVars>>

\* Mutant: start() returns without releasing w.mu.
StartSyncedKeepsLock ==
    /\ startPc = "waitSync"
    /\ informer = "running"
    /\ fsPending' = fsPending + 1
    /\ startPc' = "idle"
    /\ UNCHANGED <<envVars, lock, done, starts, stopPending, informerVars,
                   consumerVars>>

\* WaitForCacheSync returned true: spawn the FullSync goroutine, unlock.
StartSynced ==
    /\ startPc = "waitSync"
    /\ informer = "running"
    /\ fsPending' = fsPending + 1
    /\ startPc' = "idle"
    /\ lock' = "free"
    /\ UNCHANGED <<envVars, done, starts, stopPending, informerVars,
                   consumerVars>>

DeliverFullSync ==
    /\ fsPending > 0
    /\ fsPending' = fsPending - 1
    /\ Handle(FullSyncEvent)
    /\ UNCHANGED <<envVars, watcherVars, informerVars>>

(* stop(): called at any time; it runs once it holds w.mu.                *)
StopCall ==
    /\ ~stopPending
    /\ stopPending' = TRUE
    /\ UNCHANGED <<envVars, lock, startPc, done, starts, informerVars,
                   fsPending, consumerVars>>

\* close(w.done) ends informer.Run; stop() does not wait for the informer's
\* listener, which keeps the notifications buffered for it (a callback may
\* be running). The watcher no longer reads this informer's store.
StopRun ==
    /\ stopPending
    /\ lock = "free"
    /\ stopPending' = FALSE
    /\ IF done # 0
       THEN /\ done' = 0
            /\ informer' = "none"
            /\ cache' = EmptyStore
            /\ notes' = <<>>
            /\ orphan' = [orphan EXCEPT ![done] = notes]
       ELSE UNCHANGED <<done, informerVars>>
    /\ UNCHANGED <<envVars, lock, startPc, starts, fsPending, consumerVars>>

-----------------------------------------------------------------------------
(* The informer.                                                          *)
MkNote(k, n, old, o, tomb, init) ==
    [kind |-> k, name |-> n, old |-> old, obj |-> o, tomb |-> tomb,
     initial |-> init]

\* Initial list: the indexer takes the API server's state, one add
\* notification per object is queued, and HasSynced becomes true.
List ==
    /\ informer = "listing"
    /\ reachable
    /\ LET ns == SetToSeq({n \in Names : Present(backend[n])}) IN
       notes' = [i \in 1..Len(ns) |->
                    MkNote("add", ns[i], NoObj, backend[ns[i]], FALSE, TRUE)]
    /\ cache' = backend
    /\ informer' = "running"
    /\ stale' = {n \in Names : Present(view[n]) /\ ~Present(Visible(backend)[n])}
    /\ UNCHANGED <<envVars, watcherVars, orphan, fsPending, view, synced, lastEvent,
                   handled, delivered>>

Enqueue(nt, n, o) ==
    /\ informer = "running"
    /\ Len(notes) < MaxNotes
    /\ notes' = Append(notes, nt)
    /\ cache' = [cache EXCEPT ![n] = o]
    /\ UNCHANGED <<envVars, watcherVars, informer, orphan, fsPending,
                   consumerVars>>

\* A watch event brings the indexer's copy of n up to the API server's.
Watch(n) ==
    /\ cache[n] # backend[n]
    /\ Enqueue(CASE ~Present(cache[n]) ->
                        MkNote("add", n, NoObj, backend[n], FALSE, FALSE)
                 [] ~Present(backend[n]) ->
                        MkNote("delete", n, NoObj, cache[n], FALSE, FALSE)
                 [] OTHER ->
                        MkNote("update", n, cache[n], backend[n], FALSE, FALSE),
               n, backend[n])

\* A delete missed by an expired watch, seen on relist: a tombstone.
RelistDelete(n) ==
    /\ AllowRelist
    /\ Present(cache[n])
    /\ ~Present(backend[n])
    /\ Enqueue(MkNote("delete", n, NoObj, cache[n], TRUE, FALSE), n, NoObj)

\* Periodic resync: an update notification with old = new.
Resync(n) ==
    /\ Present(cache[n])
    /\ Enqueue(MkNote("update", n, cache[n], cache[n], FALSE, FALSE),
               n, cache[n])

\* The callbacks start() registered, for one notification.
Callback(nt) ==
    CASE nt.kind = "add"    -> handleEvent("Added", nt)
      [] nt.kind = "delete" -> handleEvent("Deleted", nt)
      [] OTHER              -> IF IsEqual(nt.old, nt.obj)
                               THEN UNCHANGED consumerVars
                               ELSE handleEvent("Updated", nt)

\* The listener goroutine runs one of the callbacks registered by start().
Deliver ==
    /\ informer = "running"
    /\ notes # <<>>
    /\ notes' = Tail(notes)
    /\ Callback(Head(notes))
    /\ UNCHANGED <<envVars, watcherVars, informer, cache, orphan, fsPending>>

\* The listener of the informer of start() g, after stop(): it finishes the
\* callback it is in or passes on the next buffered notification...
DeliverStopped(g) ==
    /\ orphan[g] # <<>>
    /\ orphan' = [orphan EXCEPT ![g] = Tail(orphan[g])]
    /\ Callback(Head(orphan[g]))
    /\ UNCHANGED <<envVars, watcherVars, informer, cache, notes, fsPending>>

\* ... or sees its stop channel closed and drops the rest.
StoppedListenerExits(g) ==
    /\ orphan[g] # <<>>
    /\ orphan' = [orphan EXCEPT ![g] = <<>>]
    /\ UNCHANGED <<envVars, watcherVars, informer, cache, notes, fsPending,
                   consumerVars>>

-----------------------------------------------------------------------------
Next ==
    \/ \E n \in Names, l \in Labels : Create(n, l) \/ Modify(n, l)
    \/ \E n \in Names : Delete(n)
    \/ Start \/ StartSynced \/ DeliverFullSync \/ StopCall \/ StopRun
    \/ List \/ Deliver
    \/ \E g \in Gens : DeliverStopped(g) \/ StoppedListenerExits(g)
    \/ \E n \in Names : Watch(n) \/ RelistDelete(n) \/ Resync(n)

\* The informer, its listener, start()'s wait and stop() make progress;
\* the API server and the caller need not.
Fairness ==
    /\ WF_vars(List)
    /\ WF_vars(Deliver)
    /\ WF_vars(StartSynced)
    /\ WF_vars(DeliverFullSync)
    /\ WF_vars(StopRun)
    /\ \A n \in Names : WF_vars(Watch(n))

Spec == Init /\ [][Next]_vars /\ Fairness

-----------------------------------------------------------------------------
(* Properties.                                                            *)

TypeOK ==
    /\ backend \in [Names -> Obj \cup {NoObj}]
    /\ rvClock \in 0..MaxRV
    /\ lock \in {"free", "start"} /\ startPc \in {"idle", "waitSync"}
    /\ done \in 0..MaxStarts /\ starts \in 0..MaxStarts
    /\ informer \in {"none", "listing", "running"}
    /\ cache \in [Names -> Obj \cup {NoObj}]
    /\ notes \in Seq(Note) /\ Len(notes) <= MaxNotes
    /\ orphan \in [Gens -> Seq(Note)]
    /\ fsPending \in 0..MaxStarts
    /\ view \in [Names -> Obj \cup {NoObj}]
    /\ lastEvent \in Event
    /\ delivered \in [Names -> 0..MaxRV]
    /\ stale \subseteq Names

\* Once the listener has drained every notification of a running informer,
\* the consumer holds every accepted object of the informer's store at its
\* cached version: adds of foreign revisions were dropped, an update to a
\* foreign revision arrived as a delete, deletes (also of foreign
\* revisions) arrived. Anything else it holds is stale from a restart:
\* start() sends no Deleted for what was removed while the watcher was
\* stopped, so an object the consumer held that the new informer's initial
\* list did not show as accepted stays until an event for it arrives.
ViewMatchesCache ==
    (informer = "running" /\ notes = <<>>) =>
        \A n \in Names :
            /\ Present(Visible(cache)[n]) => view[n] = cache[n]
            /\ Present(view[n]) /\ ~Present(Visible(cache)[n]) => n \in stale

\* The consumer's view, with the history variable as the versions seen.
Stream == INSTANCE ResourceStream WITH seen <- delivered

\* The watcher implements the per-resource ordering promise (spec sections
\* 5 and 8): every event of a resource carries a version no older than the
\* latest one delivered for it, even after a Deleted emptied the view,
\* through watch, resync, the revision rekind and restarts; Added/Updated
\* store the object and Deleted removes it.
ImplementsStream == Stream!Spec

\* FullSync means the latest start()'s informer listed and every object of
\* its initial list reached the consumer: when the consumer has FullSync
\* since that start(), its informer is not still listing and no initial
\* add is queued.
FullSyncAfterInitialAdds ==
    synced =>
        /\ informer # "listing"
        /\ \A i \in DOMAIN notes : ~notes[i].initial

\* Every start() eventually leads to FullSync at the consumer, with or
\* without the CRD installed.
EventuallyFullSync == (starts > 0 /\ ~synced) ~> synced

\* A stop() call eventually returns.
StopCompletes == stopPending ~> ~stopPending
=============================================================================
