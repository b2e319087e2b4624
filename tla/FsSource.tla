------------------------------- MODULE FsSource -------------------------------
(***************************************************************************)
(* The filesystem source of galley/pkg/config/source/kube/fs/source.go.    *)
(*                                                                         *)
(* Actors: the caller of Start()/Stop(); one goroutine per Start() that    *)
(* does the initial reload, starts the in-memory KubeSource and then loops *)
(* on its signal channel and its done channel; whoever writes files under  *)
(* the root; the file trigger and operators sending SIGUSR1, which reach   *)
(* every channel registered with appsignals.Watch.                         *)
(*                                                                         *)
(* A goroutine is named by the number of the Start() that spawned it.      *)
(* Its done channel is closed exactly when s.done no longer refers to it.  *)
(* File content is abstracted to a model value: "c1", "c2" (valid),        *)
(* "bad" (does not parse) and "corrupt" (not gzip data).                   *)
(***************************************************************************)
EXTENDS Naturals, Sequences, FiniteSets, SequencesExt

CONSTANTS
    YamlPaths,    \* files ending in .yaml or .yml
    GzPaths,      \* files ending in .gz
    OtherPaths,   \* other files (other extension, or not a regular file)
    PathOrder,    \* all paths in the lexical order filepath.Walk visits them
    Contents,     \* contents a file may be written with
    MaxWrites,    \* bound on file writes
    MaxStarts     \* bound on calls of Start()

Paths == YamlPaths \cup GzPaths \cup OtherPaths
Absent == "absent"
None == "none"
Valid == {"c1", "c2"}

ASSUME Contents \subseteq Valid \cup {"bad", "corrupt"}
ASSUME ToSet(PathOrder) = Paths /\ Len(PathOrder) = Cardinality(Paths)

Gens == 1..MaxStarts
PcStates == {"none", "reload0", "start", "loop", "reload", "exit"}

VARIABLES
    disk,       \* the files under the root
    writes,     \* number of file writes so far
    lock,       \* s.mu: 0, or the goroutine in reload() holding it
    done,       \* s.done: 0 (nil), or the goroutine it was made for
    gens,       \* number of Start() calls that spawned a goroutine
    gpc,        \* each goroutine's program counter
    sig,        \* each goroutine's signal channel (capacity 1) is full
    names,      \* reload(): names not yet seen in this walk
    walkQ,      \* reload(): entries filepath.Walk has still to visit
    store,      \* inmemory.KubeSource: the content applied for each path
    mem,        \* inmemory.KubeSource: "idle", "started" or "stopped"
    stale,      \* a file was written since the last walk listed the root
    triggered,  \* a trigger was sent after the last file write
    fresh       \* the last completed reload saw no write and Stop() has
                \* not cleared the store since

vars == <<disk, writes, lock, done, gens, gpc, sig, names, walkQ, store, mem,
          stale, triggered, fresh>>

Supported(p) == p \in YamlPaths \cup GzPaths

\* What ApplyContent receives for a file's bytes: .gz files are gunzipped
\* (failing on "corrupt"); other files are passed as they are, and corrupt
\* bytes in a .yaml file are simply content that does not parse.
Decode(p, c) ==
    IF p \in GzPaths THEN (IF c = "corrupt" THEN "error" ELSE c)
    ELSE (IF c = "corrupt" THEN "bad" ELSE c)

\* Mutant: content that does not parse is stored as it is.
ApplyContentUnchecked(p, c) == [store EXCEPT ![p] = c]

\* inmemory.KubeSource.ApplyContent: parses the content and replaces the
\* resources of that path; content that does not parse is skipped and
\* reported as an error.
ApplyContent(p, c) ==
    IF c = "bad" THEN store ELSE [store EXCEPT ![p] = c]

\* inmemory.KubeSource.ContentNames: the paths the store holds content of.
ContentNames == {p \in Paths : store[p] # None}

EmptyStore == [p \in Paths |-> None]

\* What a file may hold: the content of a file the source ignores does not
\* matter, only whether it is there.
FileContents(p) == IF p \in OtherPaths THEN {"c1"} ELSE Contents

DiskStates == {d \in [Paths -> Contents \cup {Absent}] :
                  \A p \in Paths : d[p] \in FileContents(p) \cup {Absent}}

Init ==
    /\ disk \in DiskStates
    /\ writes = 0
    /\ lock = 0
    /\ done = 0
    /\ gens = 0
    /\ gpc = [g \in Gens |-> "none"]
    /\ sig = [g \in Gens |-> FALSE]
    /\ names = {}
    /\ walkQ = <<>>
    /\ store = EmptyStore
    /\ mem = "idle"
    /\ stale = TRUE
    /\ triggered = FALSE
    /\ fresh = FALSE

-----------------------------------------------------------------------------
(* The environment.                                                        *)

WriteFile(p, c) ==
    /\ writes < MaxWrites
    /\ disk[p] # c
    /\ disk' = [disk EXCEPT ![p] = c]
    /\ writes' = writes + 1
    /\ stale' = TRUE
    /\ triggered' = FALSE
    /\ fresh' = FALSE
    /\ UNCHANGED <<lock, done, gens, gpc, sig, names, walkQ, store, mem>>

\* appsignals.Notify(SIGUSR1): a non-blocking send to every channel ever
\* registered by Start(); a full channel drops the signal.
Trigger ==
    /\ sig' = [g \in Gens |-> sig[g] \/ g <= gens]
    /\ triggered' = TRUE
    /\ UNCHANGED <<disk, writes, lock, done, gens, gpc, names, walkQ, store,
                   mem, stale, fresh>>

-----------------------------------------------------------------------------
(* Start() and Stop().                                                     *)

\* Start(): a no-op while s.done is set; otherwise a new done channel, a
\* new registered signal channel and a new goroutine.
Start ==
    /\ lock = 0
    /\ done = 0
    /\ gens < MaxStarts
    /\ gens' = gens + 1
    /\ done' = gens + 1
    /\ gpc' = [gpc EXCEPT ![gens + 1] = "reload0"]
    /\ UNCHANGED <<disk, writes, lock, sig, names, walkQ, store, mem, stale,
                   triggered, fresh>>

\* Stop(): a no-op while s.done is nil; otherwise close(done), stop and
\* clear the in-memory source.
Stop ==
    /\ lock = 0
    /\ done # 0
    /\ done' = 0
    /\ mem' = "stopped"
    /\ store' = EmptyStore
    /\ fresh' = FALSE
    /\ UNCHANGED <<disk, writes, lock, gens, gpc, sig, names, walkQ, stale,
                   triggered>>

-----------------------------------------------------------------------------
(* The goroutine of Start() and reload().                                  *)

AfterReload(g) == IF gpc[g] = "reload0" THEN "start" ELSE "loop"

\* reload() takes s.mu, snapshots ContentNames and lists the root.
ReloadBegin(g) ==
    /\ gpc[g] \in {"reload0", "reload"}
    /\ lock = 0
    /\ lock' = g
    /\ names' = ContentNames
    /\ walkQ' = SelectSeq(PathOrder, LAMBDA p : disk[p] # Absent)
    /\ stale' = FALSE
    /\ UNCHANGED <<disk, writes, done, gens, gpc, sig, store, mem, triggered,
                   fresh>>

\* The walk function returned an error (lstat or read of a file removed
\* since the listing, or gzip of a corrupt file): reload() logs it and
\* returns without removing anything.
WalkAbort ==
    /\ lock' = 0
    /\ gpc' = [gpc EXCEPT ![lock] = AfterReload(lock)]
    /\ names' = {}
    /\ walkQ' = <<>>
    /\ UNCHANGED <<disk, writes, done, gens, sig, store, mem, stale,
                   triggered, fresh>>

\* The walk function on the next entry.
WalkStep ==
    /\ lock # 0
    /\ walkQ # <<>>
    /\ LET p == Head(walkQ) IN
       IF disk[p] = Absent \/ (Supported(p) /\ Decode(p, disk[p]) = "error")
       THEN WalkAbort
       ELSE /\ walkQ' = Tail(walkQ)
            /\ IF Supported(p)
               THEN /\ store' = ApplyContent(p, Decode(p, disk[p]))
                    /\ names' = names \ {p}
               ELSE UNCHANGED <<store, names>>
            /\ UNCHANGED <<disk, writes, lock, done, gens, gpc, sig, mem,
                           stale, triggered, fresh>>

\* Mutant: the walk's end forgets to remove the names not seen.
WalkEndNoRetract ==
    /\ lock # 0
    /\ walkQ = <<>>
    /\ names' = {}
    /\ lock' = 0
    /\ gpc' = [gpc EXCEPT ![lock] = AfterReload(lock)]
    /\ fresh' = ~stale
    /\ UNCHANGED <<disk, writes, done, gens, sig, walkQ, store, mem, stale,
                   triggered>>

\* The walk completed: the content of every name not seen is removed.
WalkEnd ==
    /\ lock # 0
    /\ walkQ = <<>>
    /\ store' = [p \in Paths |-> IF p \in names THEN None ELSE store[p]]
    /\ names' = {}
    /\ lock' = 0
    /\ gpc' = [gpc EXCEPT ![lock] = AfterReload(lock)]
    /\ fresh' = ~stale
    /\ UNCHANGED <<disk, writes, done, gens, sig, walkQ, mem, stale,
                   triggered>>

\* s.s.Start() after the initial reload.
MemStart(g) ==
    /\ gpc[g] = "start"
    /\ mem' = "started"
    /\ gpc' = [gpc EXCEPT ![g] = "loop"]
    /\ UNCHANGED <<disk, writes, lock, done, gens, sig, names, walkQ, store,
                   stale, triggered, fresh>>

\* The select of the loop: a SIGUSR1 from the channel leads to reload().
LoopSignal(g) ==
    /\ gpc[g] = "loop"
    /\ sig[g]
    /\ sig' = [sig EXCEPT ![g] = FALSE]
    /\ gpc' = [gpc EXCEPT ![g] = "reload"]
    /\ UNCHANGED <<disk, writes, lock, done, gens, names, walkQ, store, mem,
                   stale, triggered, fresh>>

\* Mutant: the loop ends although its done channel is open.
LoopDoneAlways(g) ==
    /\ gpc[g] = "loop"
    /\ gpc' = [gpc EXCEPT ![g] = "exit"]
    /\ UNCHANGED <<disk, writes, lock, done, gens, sig, names, walkQ, store,
                   mem, stale, triggered, fresh>>

\* The select of the loop: the done channel is closed, the goroutine ends.
LoopDone(g) ==
    /\ gpc[g] = "loop"
    /\ done # g
    /\ gpc' = [gpc EXCEPT ![g] = "exit"]
    /\ UNCHANGED <<disk, writes, lock, done, gens, sig, names, walkQ, store,
                   mem, stale, triggered, fresh>>

-----------------------------------------------------------------------------
Goroutine(g) ==
    ReloadBegin(g) \/ MemStart(g) \/ LoopSignal(g) \/ LoopDone(g)

Next ==
    \/ \E p \in Paths : \E c \in FileContents(p) \cup {Absent} : WriteFile(p, c)
    \/ Trigger \/ Start \/ Stop
    \/ WalkStep \/ WalkEnd
    \/ \E g \in Gens : Goroutine(g)

\* Goroutines run; file writes, signals and the caller need not happen.
Fairness ==
    /\ \A g \in Gens : WF_vars(Goroutine(g))
    /\ WF_vars(WalkStep) /\ WF_vars(WalkEnd)

Spec == Init /\ [][Next]_vars /\ Fairness

-----------------------------------------------------------------------------
(* Properties.                                                            *)

TypeOK ==
    /\ disk \in DiskStates
    /\ lock \in 0..MaxStarts /\ done \in 0..MaxStarts /\ gens \in 0..MaxStarts
    /\ gpc \in [Gens -> PcStates] /\ sig \in [Gens -> BOOLEAN]
    /\ names \subseteq Paths /\ walkQ \in Seq(Paths)
    /\ store \in [Paths -> Valid \cup {None}]
    /\ mem \in {"idle", "started", "stopped"}

\* The store reflects the directory: a supported file with valid content
\* holds that content; a removed or unsupported file holds nothing. (A
\* file whose content does not parse is not constrained.)
Mirrors ==
    \A p \in Paths :
        /\ (disk[p] = Absent \/ ~Supported(p)) => store[p] = None
        /\ (Supported(p) /\ disk[p] \in Valid) => store[p] = disk[p]

\* A reload that saw no concurrent file write leaves the store mirroring
\* the directory: every visited file was applied and every path whose
\* file disappeared was retracted, including across restarts of Start().
ReloadMirrorsDisk == fresh => Mirrors

\* After a file change followed by a trigger, a running source eventually
\* mirrors the directory, unless a further write or Stop() intervenes:
\* the one-slot signal channel never loses the last trigger.
TriggerConverges ==
    (triggered /\ done # 0) ~> (fresh \/ done = 0 \/ ~triggered)

\* What the spec (4.3) says a reload leaves for a path: the content of a
\* supported file that decodes and parses, and nothing for every other
\* path, since unparseable content is skipped without leaving "previous
\* names" and is retracted with the paths that disappeared.
SpecContent(p) ==
    IF Supported(p) /\ disk[p] # Absent /\ Decode(p, disk[p]) \in Valid
    THEN disk[p] ELSE None

\* A reload that no file write overlapped, whether the walk completed or
\* returned an error, leaves every path with what the spec says: valid
\* files applied, malformed files (unparseable, or a .gz that is not gzip
\* data) skipped and retracted, without aborting the rest of the walk.
ReloadSkipsMalformed ==
    [][(lock # 0 /\ lock' = 0 /\ ~stale) =>
          \A p \in Paths : store'[p] = SpecContent(p)]_vars

\* Once stopped, the source holds nothing and the in-memory source is not
\* running again.
StopClears ==
    (gens > 0 /\ done = 0) => (store = EmptyStore /\ mem # "started")

=============================================================================
