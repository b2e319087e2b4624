# TLA+ models of libistio's configuration sources

This directory holds TLA+ models of the concurrent and merging parts of
libistio. Each model is checked with TLC. Every module is translated from the
Go code under `src/`. `PROJECT.json` maps each definition to the lines it models.

## The system and its parts

| Part | Code | Module | Status |
|---|---|---|---|
| Kubernetes watcher: one per schema, bridges an informer into canonical events | `galley/pkg/config/source/kube/apiserver/watcher.go` | `KubeWatcher` | partly (no `dispatch`) |
| Filesystem source: reloads a directory into an in-memory source on a signal | `galley/pkg/config/source/kube/fs/source.go` | `FsSource` | partly (no `Dispatch`) |
| MCP sink server: admits streams with a rate limiter and an auth check | `pkg/mcp/sink/server_sink.go` | `SinkServer` | modelled |
| Mesh config merge: YAML over defaults | `pkg/config/mesh/mesh.go` (lines 39-154) | `MeshConfig` | partly (no `ReadMeshConfig`) |
| Mesh networks: read, parse, resolve gateway hostnames | `pkg/config/mesh/mesh.go` (lines 156-215) | `MeshNetworks` | modelled |
| Mesh file watcher: debounced callback on file change | `pkg/config/mesh/mesh.go` (lines 217-238) | `MeshFileWatcher` | modelled |
| Schema tables and the validation registry, as they stand after init | `collections/collections.gen.go`, `collections/mock.go`, `validation/validation.go` | `Collections` | partly (no `legacy.go`) |
| Kube scheme, feature flags | `kube/client.go`, `features/pilot.go` | none | static data filled at init |

How the parts interact. The watcher and the filesystem source are both event
sources of Galley's processing pipeline. Both deliver to a consumer
`event.Handler`. The consumer is modelled only as the state it ends up holding
(`view` in `KubeWatcher`). The mesh config and the mesh file watcher are used
together by the code that reads the mesh config file, but they share no state.
They are checked separately.

The schema tables feed the watcher. `newWatcher` parses the `rev-crds`
environment variable into the set of revision-aware plurals, and
`handleEvent` looks the watched schema's plural up in it. `KubeWatcher`
EXTENDS `Collections`, and the MC module picks the watched schema
(`K8SNetworkingIstioIoV1Alpha3Gateways`) and the `rev-crds` list from it.

## Modules

### KubeWatcher (watcher.go)

Actors:
- the API server (`Create`, `Modify`, `Delete` bump a resourceVersion clock);
- the shared informer: `List`, and `Watch`, `RelistDelete` and `Resync`, which
  queue notifications;
- the informer's listener goroutine (`Deliver` runs the callbacks that `start()`
  registers, lines 81-93, through `Callback`);
- the listeners of informers that `stop()` has closed (`DeliverStopped(g)`,
  `StoppedListenerExits(g)`).
- the caller of `start()` and `stop()`;
- the goroutine `start()` spawns to send FullSync (`DeliverFullSync`).

How the code maps to the model:
- `start()` is split at the blocking `WaitForCacheSync`. `Start` covers lines 63-99
  and takes `w.mu`. `StartSynced` covers lines 100-104 and releases it.
- A missing CRD (`crd = FALSE`) is the error branch at lines 73-78. It sends
  FullSync synchronously.
- `stop()` is split into `StopCall` (the call) and `StopRun` (it holds `w.mu`).
  `stop()` closes `done` and returns; it does not wait for the informer's
  goroutines. client-go's listener keeps the notifications it had buffered
  and may still run the callbacks for them. `StopRun` moves the queued
  notifications to `orphan[g]`, where `g` numbers the `start()` whose
  informer they belong to. `DeliverStopped(g)` runs the callback for the
  head of that queue, in order, and `StoppedListenerExits(g)` drops the rest.
  Neither gets fairness: the listener may deliver any prefix of its buffer,
  at any time, also after the next `start()`.
- `handleEvent` keeps the tombstone branch as the code has it: the recovered
  object is discarded, so the event is dropped. It also keeps the revision
  filter, where Updated becomes Deleted and other kinds are dropped.
- An object is abstracted to `[rv, rev]`, its resourceVersion and its
  `istio.io/rev` label.
- `existCrds` is `newWatcher`'s split of `rev-crds`. An unset variable splits
  to `{""}`, which is what the live run uses. `RevAware` is the plural lookup
  at lines 138-139.
- `synced` is a ghost variable: the consumer has seen FullSync since the latest
  `start()`.
- `delivered` and `stale` are history variables:
  - `delivered` is the version the latest event of each resource carried;
  - `stale` is the set of resources the consumer held when an informer's
    initial list did not show them as accepted.
  Neither affects any action.

The abstract specification `ResourceStream` is the spec's ordering promise
(spec.md lines 112 and 141). The consumer holds a view per resource, and
`seen` is the latest version an event carried. An event may repeat that
version, as a relist after a restart does, but never carry an older one.
`KubeWatcher` instantiates it `WITH seen <- delivered` and checks
`Stream!Spec` as the property `ImplementsStream`.

### FsSource (source.go)

Actors:
- the caller of `Start`/`Stop`;
- one goroutine per `Start` (`Goroutine(g)`);
- file writers (`WriteFile`);
- SIGUSR1 senders (`Trigger`, which is `appsignals.Notify`: a non-blocking send
  to every registered one-slot channel).

How the code maps to the model:
- `reload()` is broken into the steps of `filepath.Walk`. `ReloadBegin` takes
  the lock and snapshots `ContentNames`. `WalkStep` handles one entry in lexical
  order. `WalkAbort` is the walk function returning an error. `WalkEnd` is the
  retraction of the names not seen.
- Files can change between steps, which is the interleaving the code is exposed to.
- File contents are model values: `c1` and `c2` (valid), `bad` (does not parse)
  and `corrupt` (not gzip data).
- The in-memory source (`ApplyContent`, `ContentNames`) is outside `src/`. It is
  modelled from the spec.

### SinkServer (server_sink.go)

The model covers several streams at once through `EstablishResourceStream`:
- a token-bucket limiter with refills;
- cancellation;
- the auth check, including nil authInfo for a peer without peer info;
- `ProcessStream` with each possible outcome, and the code's mapping of
  Canceled and EOF to nil.

Only the type invariant is checked: the bucket stays within 0 and its
burst, and each stream is in one of the handler's states. The handler's
other guarantees are one-line guards (return on `Wait`'s error, on the auth
error) and the limiter and the sink are outside `src/`, so a property of
them would restate the guard or the model's own limiter.

### MeshConfig (mesh.go)

This module models two proxy scalar fields, the `concurrency` wrapper, and two
mesh fields. Messages are functions from fields to values. `ApplyYAML`, jsonpb's
allocation of a fresh nested message, and `ToYAML` (which drops zero scalars and
nil wrappers) are modelled by what they do. Each step is one call of
`ApplyMeshConfig` and `ApplyProxyConfig` on an enumerated document. The
documents are 253 in all; the defaults run uses the 118 without explicit zeros.

### MeshFileWatcher (mesh.go, addFileWatcher) and MeshCallback

This module models the goroutine's select on the file-event channel and the
`time.After` timer. File versions are counted.

`MeshCallback` is the abstract promise of the debounce: writes bump a version,
and a callback eventually reads the latest one (weak fairness on `Callback`).
`MeshFileWatcher` instantiates it with the identity mapping on `version` and
`seen`. The run checks `Promise!Spec` as a PROPERTY, so every step of the
goroutine is a `Write`, a `Callback` or a stutter of the abstract spec, and
the implementation's fairness delivers the abstract liveness.

### MeshNetworks (mesh.go, lines 156-215) and MCMeshFiles

A `MeshNetworks` is a function from network names to sequences of gateways.
A gateway is a registry gateway or an address gateway. An address is an IP,
a hostname or "". The networks file and the DNS answers are environment
variables that change between calls:
- `Read` is `ReadMeshNetworks`: an unreadable or unparsable file gives nil.
- `Resolve` is `ResolveHostsInNetworksConfig`. Each hostname address is
  replaced in place by the first address of a successful lookup.

One call reads one DNS answer per hostname; DNS changing in the middle of a
call is not modelled. `MCMeshFiles` interleaves this module with
`MeshConfig`'s calls in one specification. The two share no state; they are
the two readers of mesh.go. No property is stated of the networks part: the
loop keeps a hostname on a failed lookup and takes the first address
otherwise, and a property of it would restate those two lines.

### Collections (collections.gen.go, mock.go, validation.go)

Each generated collection is a record of its name, group, kind, plural, scope
and the name of its validation function. Version, proto and proto package are
left out. A schema set is the sequence of its `MustAdd` calls. `BuildSchemas`
is `MustAdd`'s duplicate-name panic, as a recursive operator. `validateFuncs`
is the registry after init, with `EmptyValidate` registered. `Mock` keeps its
own `ValidateProto`, which rejects an empty key.

## Runs

| Run | Expect | What it shows |
|---|---|---|
| `kube_restart_order` | violation | `ImplementsStream` fails across a restart (watcher.go:110). The stopped informer's listener delivers an Added it had buffered (rv 1) after the new informer's list has delivered rv 2, so the consumer goes back to the older version and keeps it. Spec sections 5 and 8 say the events of one resource arrive in the backend's order. |
| `kube_live` | pass | With the CRD present or missing, and with relist tombstones, every `start()` leads to FullSync and every `stop()` returns, also while stopped listeners still deliver. |
| `kube_tombstone` | violation | With one `start()`, a delete seen only on relist never reaches the consumer (code bug, watcher.go:122). |
| `kube_fullsync_order` | violation | FullSync can reach the consumer before the latest `start()`'s initial list (watcher.go:102). It overtakes the queued initial adds. With `MaxRV = 0`, the same property also fails: an earlier `start()`'s FullSync goroutine delivers after a restart. |
| `kube_stop_deadlock` | violation | An informer that never syncs blocks `stop()` forever (watcher.go:64/101/107). |
| `fs_reload` | pass | A reload with no concurrent write leaves the store mirroring the directory, across removals and restarts. A trigger after a change always leads to such a reload, even though one-slot channels drop signals. |
| `fs_malformed` | violation | Spec 4.3 says malformed content is skipped and retracted, and never aborts a reload (`ReloadSkipsMalformed`, checked on every reload that no write overlapped). A corrupt `.gz` aborts the walk, so a removed file keeps its resources (source.go:165); this is TLC's trace. Whether an unparseable file also keeps its old resources (source.go:177) depends on `ApplyContent`, which is outside `src/`, so it is not claimed. |
| `fs_stop_race` | violation | `Stop()` before the goroutine's first step is undone by that step (source.go:98-99). |
| `sink_admission` | pass | Streams race for the limiter's tokens, with cancellation, the auth check and every sink outcome; the bucket stays within its bounds and every stream in a handler state (`TypeOK`). |
| `mesh_defaults` | pass | For documents without explicit zeros and the standard defaults, the merge is field by field, also inside `defaultConfig`. The networks reader and resolver run interleaved with it (`MCMeshFiles`), without a property of their own. |
| `mesh_explicit_zero` | violation | With the standard defaults, a document with `defaultConfig: {proxyAdminPort: 0}` yields 15000: an explicit zero is lost (mesh.go:132-145). With custom defaults, the caller's proxy defaults are also replaced by the built-in ones. |
| `mesh_debounce` | pass | The debounce goroutine refines `MeshCallback`: the callback always ends up reading the latest write. |

Each property of a passing run has a mutant in `PROJECT.json`. A mutant is a
plausible bug in the modelled code that TLC shows breaks the property. Examples:
a synced `start()` that sends no FullSync, not releasing `w.mu`, not
retracting unseen names, ending the loop with `done` still open, a `Wait`
that admits without a token, a merge that does not re-apply the previous
`defaultConfig`, and a debounce that does not re-arm its timer.

## Bounds

- **KubeWatcher.** Two names, under symmetry, and two revisions: one is the
  watcher's, one is foreign. The resourceVersion clock is bounded by `MaxRV`
  (3 for safety, 2 for liveness). These bounds allow a create, a label change
  and a delete of one object, or a create each of two. The model allows 2
  starts, so a restart happens. The queue holds at most 3 notifications.
- **FsSource.** One `.yaml`, one `.gz` and one unsupported file, visited in the
  walk's lexical order. There are 2 writes and 2 starts, enough for a write
  during a walk and a write after it, and for a restart.
- **SinkServer.** Three streams: two trusted and one without peer info. The
  burst is 2, with one refill, so more streams arrive than are admitted.
- **MeshFileWatcher.** Six writes, and at most three events queued at once.
- **MeshNetworks.** One file has two networks. Between them they hold:
  - two hostnames, one of them in both networks;
  - an IP, an empty address and a registry gateway.

  There is also a file without networks, an unparsable one and an
  unreadable one. Each of the two hostnames resolves or fails. A successful
  answer has two addresses, so taking the first one matters.

## Fairness

Weak fairness is assumed only for the steps the code runs on its own:
- the informer's list and watch, and the listener goroutine;
- `start()` returning once synced, the FullSync goroutine, and `stop()` once it
  holds the lock;
- the filesystem goroutines and the walk;
- the debounce goroutine, and time firing the timer;
- not the listeners of stopped informers: client-go may deliver their
  buffer or not.

The sink server run checks only a safety invariant, so it assumes no fairness.

The API server, file writers, signal senders and callers get no fairness. They
may stop at any point.

## Not modelled

- `dispatch`'s unsynchronized write of `w.handler`. This is a data race; the
  model fixes one handler. Also, a `dispatch` after `start()` would miss that start's FullSync,
  because `go w.handler.Handle(...)` binds the handler chain when `start()` runs.
- The shared Sink behind concurrent streams. Its code is outside `src/`.
- `ReadMeshConfig`: a file read in front of `ApplyMeshConfigDefaults`.
- A failed `fileWatcher.Add` in `addFileWatcher`. Its error is discarded,
  and the model assumes the watch is set up. It is listed as a hazard.
- Properties dropped after review: the kube filter invariant
  (`ViewMatchesCache`) is checked only in `kube_tombstone`, which fails on the
  tombstone first; a passing run for it alone has no run slot. The resync
  suppression (`IsEqual`) is not stated: with restarts, a stopped listener's
  late Updated can repeat a version, the race `kube_restart_order` shows. The
  limiter's admission promise and the sink's result mapping restate single
  guards of the handler.
- A resolved gateway address going stale when DNS changes. The comment asks
  for in-place replacement, so no property claims freshness. It is listed as
  a hazard.
- `collections/legacy.go`. It names identifiers (`MeshConfig`,
  `DestinationRule`, ...) that no file under `src/` defines.
- `kube/client.go` and `features/pilot.go`. They register types into a scheme
  and read environment variables at init.
- Two Kube schemas share the plural `gateways`, so a revision filter keyed by
  plural covers both. The spec keys it this way, so no property claims
  otherwise. It is listed as a hazard.

## Plan for later work

1. `dispatch` as an action, racing delivery. It has no caller under `src/`.
   The spec says the handler chain changes only under the watcher's lock,
   but the code takes no lock.
2. The in-memory source's diffing, if its code becomes available.
3. FullSync in `ResourceStream`. It needs a way to state which `start()` a
   FullSync answers, and the code has no such tag (see `kube_fullsync_order`).
