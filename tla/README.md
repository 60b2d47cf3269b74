# Peraviz verification project

TLA+ models of Peraviz from a show file and a DMX packet to what the renderer
shows: the path of a packet from the network thread through mailbox, runtime
core and presentation; the loading of a show from archive and XML to an installed
scene; the exchange of shows between stations; worker pool and technical monitor.
The modules are model-checked with TLC. The mailbox and the playback path around
it, the asynchronous session, the evaluation plan's caches and the phases the
runtime holds, the exchange, the worker pool, the sequence tracker, the technical
monitor and the coordination of a load are proved with TLAPS for every value of
their constants.

Paths below are relative to the repository (`src/`); `PROJECT.json` maps every
definition to the lines it stands for.

## 1. Inventory

### The path of a packet

```
 RX thread                       main thread (one process_dmx per frame)         coordinator thread
 ArtNetReceiver::run             dmx_controller / dmx_fixture_runtime            AsyncPresentationPipeline::run
   udp, parser, sequence           configure, pump, poll                           (only while a session exists)
      |                                |                                              |
      v  publish                       v  consume_dirty_frames                        v
 RealtimeUniverseMailbox  ------>  PeravizDmxReceiver::pump_visual_runtime
 (slots + ring, one mutex)             |  submit_native_frame
                                       +--> serial: core, consume, apply
                                       +--> session: latest -> input banks ------> core, physical state
                                                     renderer <- output banks <---- snapshot (changed rows)
```

### The path of a show

```
 main thread (one step of the coordinator per frame)        worker (std::async)
 scene_import_coordinator.load_scene
   clear the scene, begin_load_mvr  ------------------->  load_mvr: archive, XML, geometry, models
   is_load_mvr_ready, frame by frame                      compile for the offset of that moment
   finish_load_mvr: take model, prepared scene  <-------  (or an exception)
   build nodes, dmx_fixture_runtime.rebuild
     reuse the prepared scene, or compile again for another offset
     pack, unpack, install in PeravizVisualRuntime
   publish
```

### Components

| Component | State | Operations | What is hard | What makes it correct |
|---|---|---|---|---|
| Realtime universe mailbox (`native/src/dmx/realtime_universe_mailbox.cpp`) | subscription and generation, a slot per universe (held bytes, initialized, dirty, queued, token), ring of tokens | `set_subscription`, `reset_session`, `publish`, `consume_dirty_frames`, `held_states` | the drain unlocks between two tokens; comparison is masked, so held bytes may be stale elsewhere; the ring has a fixed size and is silent when full | ring and dirty flags describe the same set; held state is what the wire carried wherever someone reads it; a drain returns current input or nothing |
| Receiver thread (`artnet_receiver.cpp`) | `running_`, the datagram in hand | start, stop, run | stop joins and then resets; a packet in hand may be published after `running_` is false | a stopped session leaves nothing to rehydrate |
| Realtime playback (`dmx_controller.gd`, `dmx_fixture_runtime.gd`, `peraviz_dmx_receiver.cpp`, `peraviz_visual_runtime.cpp`) | compiled interests, generations, rehydration count, latest and pending frames, last values | toggle, rebuild, configure, rehydrate, pump, submit, consume | two locks in one configure; tokens retired under pending input; frames without submissions skip evaluation | once nothing is pending the values are the wire's; every proven state reaches them |
| Asynchronous presentation session (`async_presentation_pipeline.cpp`, `presentation_async_godot.cpp`) | three input and two output banks with atomic statuses, `queued_input`, `ready_output`, `latest`, `consumed_sequences` | submit, flush, acquire, release, start, stop, reclaim, run | lock-free hand-off; results are deltas; a stop meets the coordinator anywhere; evaluation may throw | one holder per bank, no delta skipped or reordered, a retirement loses no input |
| Dense presentation state, groups (`dense_presentation_state.cpp`, `render_group_projection.cpp`, `control_groups.cpp`, `render_emitter_groups.cpp`) | outputs, masks, dirty membership, sums per renderer row, control and emitter groups | apply changes, invalidate, finish snapshot, rebind | a mask that hides a change; sums kept by differences; replay on a new renderer; one beam standing for others | what is applied in sum is the state; beams drawn together hold the same values |
| Visual runtime and compiled evaluation plan (`peraviz_visual_runtime.cpp`, `visual_runtime_install.cpp`, `visual_runtime_plan.cpp`, `compiled_evaluation_plan.cpp`) | programs, owners and indexes of a scene; source caches, dirty consumers, held physical state | install, clear, submit, consume | a cache that is not invalidated, an index that misses a source, a value remembered but not emitted | the same values and rows as a full evaluation |
| Worker pool, prefetch (`native_worker_pool.cpp`, `parallel_evaluation_prefetch.cpp`) | epoch, counts of the batch, results per worker | `run`, `worker`, constructor, destructor | lost wake-up, late worker, retry over partial results | ranges are exclusive, nobody passes the barrier before everybody left the batch, the call ends with every item computed |
| Art-Net sequence tracker (`artnet_sequence_tracker.cpp`) | endpoint, last sequence and ordered mark per universe | `accept`, `reset` | numbers 1..255 that wrap, 0 disables; loss, duplicates, reordering, restarted consoles | age decides within the window; a restarted console is rejected a bounded number of times |
| Technical monitor (`monitor_capture_budget.cpp`, `dmx_universe_cache.cpp`, `dmx_network_metadata_cache.cpp`, `dmx_monitor_window.gd`) | capture session and generation, slots that outlive captures, allowance per drain, packet counts, what the window saw last | open, close, write a frame, read it, refresh | session replaced under a write; short packets over long ones; a read skipped when a count is equal | the window shows what this capture heard and nothing else |
| MVR-xchange (`mvr_xchange_transfer.cpp`, `..._local_station.cpp`, `..._discovery.cpp`, `mvr_xchange_controller.gd`) | thread handles, busy flag, commits per station, events, files | start, stop, join, request, publish, poll | rename after remove, joins of blocked threads, busy flag cleared early, commits under two kinds of keys | no partial file becomes current, stop ends, an update is answered |
| Scene loading (`load_scene.gd`, `scene_import_coordinator.gd`, `peraviz_loader.cpp`, `scene_setup_preparation.cpp`) | phase, last model, prepared scene, installed scene, offset | load, restore, rebuild, change the offset | what runs while the worker compiles; exceptions; a prepared scene for another offset | a published scene is the one the runtime plays, and every load ends |
| Import and compilation (`mvr_scene_loader.cpp`, `gdtf_scene_builder.cpp`, `gdtf_runtime/*`) | none that lasts | parse patches, expand geometry, compile a mode, compile a scene | three readers of one description; ids assigned by use; conditions resolved before expansion | importer, compiler and runtime agree on beams, addresses, activation |
| Archives and assets (`zip_archive.cpp`, `asset_cache.cpp`, `runtime_storage.cpp`, `gdtf_gobo_catalog.cpp`) | directories by content, leases, extracted files | index, resolve, extract, acquire, release | spelling twins, sanitized names, leases dropped at different times | the files a shown scene names are there and are the right ones |
| Shutter, gobo and temporal domains (`visual_runtime_shutter.cpp`, `gobo_motion_evaluator.cpp`, `shutter_playback.h`) | commands, activation times, phases, authorities of the presentation | command, sample, advance | phase kept over changes of rate; two writers of a beam's intensity | no jump; every beam is lit as its shutters ask |
| Renderer bindings, UI | renderer resources, layout | apply | Godot calls | visual |

### Interactions

* RX thread and main thread share the mailbox and nothing else of this path;
  every mailbox operation takes `state_mutex_`.
* The main thread moves ownership of the core and the physical state to the
  coordinator for a session's life and gets it back in `reclaim` after the join.
* During a session both threads touch only bank statuses, `queued_input`,
  `ready_output`, `stopping` and `failed`, all atomics.
* The worker of a load shares nothing with the main thread until its future is
  ready; archives and directories are shared through the session's cache, found
  by content under a lock and removed with the last lease.
* A compiled scene reaches the runtime through the codec, and the runtime's rows
  reach the presentation through generation-checked bindings of that scene.
* MVR-xchange's threads talk to the main thread through an event queue that the
  window polls once a frame.
* User commands (DMX switch, scene rebuild, renderer change) run on the main
  thread between two frames, or between the slices of a load.

The hazards this code has, each at its line and with the property that covers
it, are listed in `PROJECT.json`.

## 2. Modules

| Module | Role |
|---|---|
| `RealtimeMailbox` | the mailbox under its most general client |
| `RealtimePlayback` | RX thread, mailbox, main thread and core together (EXTENDS `RealtimeMailbox`) |
| `RealtimePlaybackProofs` | the inductive invariants of mailbox and playback, the theorems, and the refinement |
| `LatestState` | abstract specification: "latest state, no queue"; `RealtimePlayback` implements it |
| `AsyncPresentation` | the session: main thread, coordinator, banks, retirement, failure |
| `AsyncPresentationProofs` | its inductive invariant and the theorems |
| `NativeWorkerPool` | the pool: coordinator, workers, barrier, retry, destructor |
| `BatchExecutor` | abstract specification: a synchronous call; `NativeWorkerPool` implements it |
| `NativeWorkerPoolProofs` | its inductive invariant, the theorems, and the refinement |
| `ArtNetSequenceTracker` | which datagrams are accepted, under consoles and a network that does anything UDP may do |
| `ArtNetSequenceTrackerProofs` | arithmetic of the cycle, the inductive invariant and the theorems |
| `TechnicalMonitor` | drain loop of the RX thread, capture budget, universe cache and monitor window |
| `TechnicalMonitorProofs` | its inductive invariant and the theorems |
| `SceneEvaluation` | operators: what programs compute from DMX values (channels, activation, colours, gobos, shutters) |
| `SceneInstall` | operators: what of a scene is accepted, who owns it, which address reaches which consumer |
| `SceneUpdate` | operators: what one update of a universe does, domain by domain |
| `VisualRuntime` | the core: newest frames, caches, dirty consumers, held state, rows |
| `FullEvaluation` | abstract specification: the same without caches; `ScenePlayback` implements it |
| `RenderGroups` | operators: control groups, emitter groups, renderer rows, routes |
| `DensePresentation` | outputs, incremental sums and written rows (EXTENDS `VisualRuntime`, `RenderGroups`) |
| `ShutterPlayback` | shutters at the presentation (EXTENDS `DensePresentation`) |
| `ScenePlayback` | all of these composed, and their properties |
| `ScenePlaybackProofs` | the inductive invariants of the evaluation plan, of what is held over time and of what was evaluated, the refinement of `FullEvaluation`, and the theorems |
| `MvrXchangeProtocol` | operators: names, packages, messages and commits as the client reads them |
| `MvrXchangeTransfer` | the transfer worker, the event queue and the files |
| `MvrXchange` | discovery, local station, client and window with it |
| `MvrXchangeProofs` | its inductive invariant and the theorems |
| `FixtureType` | operators: a GDTF mode to channel programs per geometry instance |
| `SceneCompiler` | operators: fixtures to the record the runtime installs, and its transport |
| `MvrScene` | operators: an MVR to nodes, patches and beams |
| `SceneImport` | coordinator, worker, rebuild and offset changes |
| `SceneImportProofs` | inductive invariants of `SceneImport` and `SceneAssets`, and the theorems |
| `AssetArchive` | operators: resolution and extraction of what is in an archive |
| `SceneAssets` | directories, leases and paths, step by step with a load (EXTENDS `SceneImport`) |
| `ImportedScene` | a session of loads with what each file becomes; what importer, compiler and runtime must agree on |
| `MC*` | instances for TLC |

Definitions named `Mut...` are plausible bugs of the definition that follows
them. No specification uses them; each is put in place of its original to see
that a property notices.

### RealtimeMailbox

| TLA+ | Code |
|---|---|
| `subscription`, `generation`, `slots`, `dirtyTokens`, `nextToken` | `subscription_`, `subscription_generation_`, `slots_`, ring from `dirty_head_`, `next_token_id_` |
| `Publish` = `PublishIgnored`, `PublishUnchanged`, `PublishCoalesced`, `PublishDirty` | the four ways out of `publish` |
| `SetSubscription`, `ResetSession` | the functions of those names |
| `BeginDrain`, `DrainToken`, `EndDrain` | `consume_dirty_frames`, one lock per step |
| `HeldUniverses` | `held_states` |
| `wire`, `now` | history: last payload per universe in the session; packets so far |

A payload is a function from offsets to bytes; bytes past the end of a short
packet are zero, as `publish` compares them. Names, addresses, statistics and
the receive clock's unit are left out.

### RealtimePlayback

`phase` is the main thread's program counter. `Toggle` and `Join` are
`_set_dmx_enabled` with `stop()`; `Refresh` is a scene rebuild that does not
suspend; `Configure` and `Rehydrate` are the two critical sections of
`configure_visual_runtime`; `Pump`, `Drain`, `Submit` are `pump_visual_runtime`;
`Consume` is `consume_latest_visual_frame` down to the core's relevant values.
`RxTake` and `RxPublish` are one turn of `ArtNetReceiver::run`, split where
`running_` may change.

`LatestState` says what a user may rely on: packets may be skipped, whatever is
fetched is the latest, is shown after everything fetched before it, and stale
universes are fetched again. The refinement mapping reads `transit` from the
drained frames and the core's pending frames.

### AsyncPresentation

The main thread's steps are `Deliver` (`submit_native_frame`), the poll
(`ClaimInput`, `NoFlush`, `PublishInput`, `RecycleInput`, `AcquireNothing`,
`Acquire`, `Apply`, `Release`; `SerialConsume` or `StartSession` without a
session) and retirement (`Stop`, `Retire`). The coordinator's are `TakeInput`,
`StartInitialBatch`, `ReadInput`, `ClaimOutput`, `Evaluate`, `Fail`,
`PublishOutput`, `ObserveStop`. A packet is its delivery number. Evaluation
copies the latest frame of a pending universe to its row; a snapshot carries the
rows that changed or that are to be replayed.

### NativeWorkerPool

Every critical section of `mutex` is a step. `state` and `caller` say where the
workers and the coordinator are; "waiting" is blocked on a condition variable,
"check" is about to evaluate the predicate, so a notification that nobody waits
for is lost as it is in the code, and either waiter may wake for no reason.
`RunSerial` and `RunParallel` are `run` up to the call of the function or the
wait, with the decision of `worthwhile` (which depends on timing) and the number
of participants as choices. `Barrier` is the way out of the wait with the count of
failures. `TakeJob` copies the batch under the lock; `Compute` and `CatchFailure`
are the function on one item. `Destroy` and `Joined` are the destructor;
`Init` includes a constructor that could not start all threads. Traces and
timings are left out.

`BatchExecutor` is what the only caller sees: a call that computes its items,
returns when all have a result of this call or throws, and ends. The refinement
mapping hides workers, epochs, the barrier and the retry.

### ArtNetSequenceTracker

`Receive` is `accept`, with `Accept` and `Refuse` for its two answers, and
`Reset` is `reset`. `Forward` is the distance on the cycle. The environment is
external: `Send` numbers datagrams without a bound and wraps only the byte they
carry, `StartOver` counts again from anywhere, and `network` keeps every datagram
ever sent, so that any of them may arrive next, again, or never. `newest` and
`refused` are history. The properties compare the numbers the tracker cannot
see.

### TechnicalMonitor

The RX thread takes a step for each object it touches with a datagram: `Observe`
(metadata), `Acquire` or `Skip` (session and budget), `WriteFrame` (cache);
`Wake`, `Loop`, `EndDrain` and `LeaveLoop` are the two loops of `run`. The main
thread's `Press` and `Publish` are `_on_dmx_monitor_pressed` with
`set_monitor_capture_enabled`, which stores the session after it has begun it;
`Refresh` and `Fetch` are the window's `refresh` before and after it asks for the
data. Time is `cooling`, which `Elapse` ends at any moment. Which universes were
active in the last two seconds is a choice. The datagrams are those
`ArtNetSequenceTracker` accepts. `heard` is history: what was captured last on
each channel, and in which capture.

### SceneEvaluation, SceneInstall, SceneUpdate

Pure operators, one for each kernel of the code, and the place where data is
abstracted: a byte is a digit below `Radix`; normalized values, lights and physical
values are integers in `1/Unit`; a light is its three absolute linear components,
which is what the code's colour and gain encode together. `Core(scene)` is what
`install_compiled_scene` keeps: the programs whose bytes lie in one universe,
what each consumer is owned by, the shutters with their authority and the plan
of each universe (sources, consumers, addresses). `UpdateUniverse` runs the domains
in the order of `consume_latest_visual_frame`: shutters, gobos, motions, properties,
colours and wheels, transforms. An update carries the held state and the rows emitted
so far.

Left out: CIE, colour temperature and tint inputs, `zoom_normalized`, the wheel
rows that are metadata, duty cycle, offset and random waves of shutters,
statistics, masters that no consumer reads, and the index of activation results
within one update, which returns what the same frame would yield.

### VisualRuntime and FullEvaluation

`Submit` is `submit_universe_frame`, `BeginConsume`, `ConsumeUniverse` and
`EndConsume` are `consume_latest_visual_frame` with one step per pending universe,
in any order, as the code iterates an unordered map. `ChangedAddresses`, `Decoded`
and `DirtyConsumers` are the plan's three indexes; `cache` keeps the values
decoded last. `prepared` says whether the workers' prefetch ran, a choice here
because the decision depends on timing. `FullEvaluation` decodes every source and
evaluates every consumer at each consume; it has no cache, no dirty set and no
prefetch, and holds and emits the same. What one evaluation computes is a parameter
of it (`FullUpdate`), instantiated with the update of every consumer.

The two agree only for scenes that are `Separate` (`SceneInstall`): property ids are
unique, a fixture has one channel of pan and one of tilt, what a layer or a wheel
is made of comes in one universe, and every source has a byte in it.
`install_compiled_scene` does not ask for that. With two pan channels of one fixture,
which share one transform, TLC finds a frame after which the transform shows the
channel that changed and not the one that comes last; with a gobo rotation controlled
from two universes, the one that changed last decides. The shows of
`scene` and `import` are `Separate` (`SeparateShows` in their MC modules,
which TLC evaluates), those of the importer as it compiles and installs them.

### RenderGroups, DensePresentation, ShutterPlayback, ScenePlayback

`ControlSignature` collects what decides a beam's controls, as
`control_groups.cpp` does, and `ControlGroups` are the beams of equal signature.
`Aggregates` are those that may be drawn as one row: compatible, parallel, compact
and not too few. `outputs`, `contributed` and `rows` are the dense state and the
projection's sums; `screen` is what the renderer was last given, `lit` the
intensity of its beams. One power stands for beam, spot and material energies,
which are proportional, and one target for what a section is routed to.
`ShutterPlayback` adopts the newest command per authority (`Ingest`), samples the
active ones (`Sampled`) and modulates the beams that are nominated (`Advance`);
`Published` is the reset of a beam to its unmodulated intensity when a row is
written. `ScenePlayback` puts them together in the order of
`presentation_state_godot.cpp` and `dense_presentation_adapter.gd`: `Load`,
`Unload`, `Receive`, a consume and its `Show`, `Elapse`, and the replays
`ReplaceRenderer` and `SwitchMode`.

A row is modulated by the envelope of the first of its outputs that changed. That is
right for all of them only if the scene is `ShutteredAsOne`: the outputs of a row have the
same authorities, in either mode of the renderer. `RenderGroupProjection::install`
checks that every output has one row; that the members of an aggregate share their
shutters is a condition of `compile_render_emitter_groups` (`Compatible`), and nothing
looks at it again when the rows are bound. The shows of `scene` are `ShutteredAsOne` (`ShutteredShows`, which TLC evaluates).

### MvrXchange

`MvrXchangeTransfer` is the worker of `mvr_xchange_transfer.cpp` between the calls
that other threads can observe: connect, receive, commit, open, close, remove,
rename, report, clear `busy_`, exit. `commits` keeps the two kinds of keys the code
uses. `MvrXchange` adds discovery, the TCP and mDNS threads of the local station,
the main thread's handlers (`Start`, `Stop` with one step per join, `PickStation`,
`RequestUpdate`, `Poll`) and the other stations, which may answer, lie, say nothing or
hang up. A thread assigned to a handle that was not joined is `std::terminate`:
`alive` becomes false.

### FixtureType, SceneCompiler, MvrScene

The import and the compiler as operators over parsed XML. `CompiledType` is
`compile_gdtf_fixture_type`: channel functions with their ranges and sets,
ModeMaster conditions, expansion over geometry references with their breaks.
`CompiledFixtures` and `SceneOf` are `compile_runtime_scene`. `uses` lists the ids
that a fixture takes, in their order: all are source programs but the modes of a
StrobeFrequency, which are activation ids only. So `NextMasters`
(`append_activation_master_sources`) starts from the source programs alone: a
StrobeMode function that one frequency merely chooses stays out, one that a condition
names is appended, and what a mode itself depends on is not followed. `Transported` is
what remains after `encode_compiled_runtime_scene` and its decoder. `LoadedModel`
is `load_mvr`: lists, symbols, fixtures, patches, node ids and the geometry that
`gdtf_scene_builder.cpp` walks by itself. Transforms, tables, mesh files, letter
case of XML and diagnostics are left out.

### SceneImport, AssetArchive, SceneAssets, ImportedScene

`loadPhase` is where the coordinator waits: `Load`, `Begin` or `NoFile` or
`LoadNow`, the worker's `Prepare1` with its progress, `Finish`, `Bind` or
`BindRefused`, `Publish` or `NotRendered`. `RestoreOffset` is a project restore, which
sets the offset and loads; `SetOffset` is the user's change at any moment,
which rebuilds without looking at the load. Cancellation by closing the window
is left out; the renderer refuses a model by choice only when it is not shown.

`SceneAssets` refines these steps with the files. `live` are the cache
directories with their contents, `held` who leases which and which paths it was
handed: the worker, the scene it compiles, the model, the prepared and the
installed scene and the bindings. A directory is gone in the step that drops its
last lease. Which GDTF files a show is compiled from and bound to are constants
here, so that the module can be proved about; `ImportedScene` computes them from
the shows and assumes (TLC evaluates it) that the constants are what it computes. `AssetArchive` says which entry a reference resolves to and where it
is extracted: exact names before case folds, refusals of ambiguous ones, model
tiers and folders, companions beside a model, gobo media by candidates and by stem.
Failures of the file system are left out; an entry that cannot be read stands for
them.

`ImportedScene` states what the three readers of one description have to agree
on, against `Masters` and `ActiveFunctions`, a definition of ModeMaster over the
fixture type itself, without programs or ids.

## 3. Runs

| Run | Specification, bounds | What it shows |
|---|---|---|
| `playback` | `RealtimePlayback!Spec`; 2 universes, 2 offsets, 2 bytes, 2 packets, 3 generations | tokens and dirty flags agree, so the ring never overflows and no dirty slot is without a token; held bytes are the wire's on all subscribed offsets; a drain never resurrects retired input; with nothing pending, the core's values are the wire's; a stopped session holds nothing; `ViewCatchesUp`; `RealtimePlayback` implements `LatestState` with its liveness |
| `async` | `AsyncPresentation!FairSpec`; 3 input, 2 output banks, 2 universes, 3 packets, 2 sessions, 1 failure | one holder per bank, a flush always finds a free bank, deltas in order, settled display is latest, retirement loses nothing that was taken, and the display catches up through any number of retirements |
| `async_failure` | 2 packets, 1 session, 1 failure | input is lost after a failure (finding 1) |
| `pool` | `NativeWorkerPool!Spec`; 3 threads, 4 items, 2 batches, 2 exceptions | outside the wait of `run` no worker is in a batch or has one to join; ranges are exclusive; the pool implements `BatchExecutor`: every call ends, with results of this call; the destructor ends |
| `sequence` | `ArtNetSequenceTracker!Spec`; 1 universe, 2 consoles, cycle 5, half 2, 5 datagrams, 1 restart | age decides within the window, across wraps; rejections in a row are bounded |
| `monitor` | `TechnicalMonitor!Spec`; 2 universes, 2 channels, 3 payloads, 2 packets each, 2 captures, 1 capture per drain | what can be read is what this capture heard last; opening hides the rest at once |
| `monitor_reopen` | same | a reopened window may show an earlier capture (finding 2) |
| `exchange` | `MvrXchange!FairSpec`; one station besides our own, 1 revision, 2 starts | a file under its final name was closed before, and a failed transfer puts no other in its place; a client that is not busy has no worker that can touch anything; no handle is overwritten; stop returns; an update the user asks for is answered |
| `exchange_latest` | both stations, 2 revisions, 1 start | the update may ask for an older revision (finding 3) |
| `scene` | `ScenePlayback!Spec`; two scenes, 4 addresses, 3 frames, clock 0..2, epsilon 0 | caches are current; the runtime implements `FullEvaluation`; the renderer shows the held state; every beam is lit as its shutters ask; control groups agree; phases do not jump |
| `scene_drift` | same, epsilon 1 | a slow fade never reaches the outputs (finding 4) |
| `import` | `SceneAssets!AssetSpec`; 7 files, 5 addresses, offsets -1 and 0, 243 frames | a published scene is installed at the panel's offset; its files are there and are the right ones; activation is the fixture type's ModeMaster; routes end at beams; what is compiled for a fixture of one universe is accepted, with the masters of its functions; every load ends |

### Bounds and why they are enough

* `MaxPackets` bounds the packets received. Two for playback: one to set a state,
  one to change, repeat or coalesce with it; the mailbox's theorems hold for any
  number. Three for a session: one in `latest` or being read, one queued, one more
  for a replaced bank or a second session.
* `MaxGeneration` bounds subscriptions and resets. Three let a mask be set,
  changed or reset, and changed again (gain after loss).
* Two universes and two offsets: tokens of two universes share the ring; a mask
  can gain one offset and lose the other. A universe only interacts with others
  through the ring and its capacity, for which the mailbox proof is general.
* The banks are the code's own numbers. `MaxSessions` two: a session that starts
  from what an earlier one left. `MaxFailures` one.
* The pool has at most four threads. Three are two participants and one thread
  that only joins the barrier, or three with ranges of different
  length (four items); two batches let a worker be late for the second; two
  exceptions fail a range and the retry.
* The tracker's cycle keeps the proportions of 255 and 127 (2 * 2 + 1 = 5). Five
  datagrams go once round the cycle, and make one old stream and a row of
  rejections longer than the bound if one were possible. The streams of two
  universes share nothing but the map. The theorems hold for every cycle.
* Two captures of a monitor are an earlier and a current one, two packets let a
  short payload follow a long one, one capture per drain instead of four makes the
  budget bite with few packets. The theorems need none of these bounds.
* The scene's numbers: `Radix` 3 and `Unit` 8 give channels of one and two bytes
  with a middle value, and a turn that three steps divide. One scene (wash) has four
  cells with additive colour, a zoom of two exclusive ranges, shutters of two
  authorities and an aggregate; the other (spot) subtractive colour with a filter, a
  colour wheel, gobos and a motion that a ModeMaster switches, in two universes.
  Three frames change, restore and change a universe around a load, a replay or a
  clock step; 81,932 states.
* The seven files of `import`: bars with a cell in two references whose functions
  depend on the control channel of their own cell, the second bar beyond the end of
  its universe; a spot with wheels, gobos, a CTO function that names a colour wheel
  (a colour, but no wheel binding, because its name has no "color" in it) and an address
  in the scalar form; a strobe in two universes, one without an address for its second
  break and one in a single universe, each with a frequency whose ModeMaster is a whole
  mode channel and one whose ModeMaster is a single StrobeMode function; a truss by a
  symbol; a show without nodes; a file that is missing and one whose preparation
  throws. Their archives hold case twins, a model that two entries claim, an
  unreadable entry and media that only the stem finds. 243 frames are all
  values of five addresses; 28,674 states.
* One other station in `exchange`, so that joins, requests, announcements and lies
  come from one peer while the other role is ours; two starts let a thread of the
  first run meet the second.
* Symmetry is used in `sequence` only, over consoles.
* `CHECK_DEADLOCK FALSE` where the user need not do anything more: playback with
  DMX off and its bounds used up, serial playback with nothing to show, a destroyed
  pool, an exchange that is stopped or whose process was ended. The runs of
  tracker, monitor, scene and import do look for deadlocks.

### Fairness

* `RealtimePlayback`: weak fairness of publishing a datagram already taken and of
  the main thread's steps. Godot calls `_process` every frame, and the operating
  system runs the RX thread. No packet has to arrive and no command be given.
* `AsyncPresentation`: weak fairness of the poll and of the coordinator. The poll
  is called every frame while the receiver runs: `process_dmx` returns early when
  DMX is off, so the liveness result is for DMX that stays on. The waits of
  `run` have time-outs, so a missed notification only delays the coordinator.
  `Fail`, `Stop` and `Deliver` are never forced.
* `NativeWorkerPool`: weak fairness of each worker and of the coordinator inside a
  call: the operating system runs threads that can run. Spurious wake-ups, calls
  of `run` and exceptions are never forced; the function itself ends.
* `MvrXchange`: weak fairness of each thread, of the poll and of the main thread
  inside a stop: threads run and the window's timer fires. `StopReturns` and
  `UpdateAnswered` also need somebody on the network that goes on connecting and
  sending (`Join`, mDNS): a thread blocked in `accept` or `recvfrom` is not assumed
  to be woken by closing its socket, which the code relies on and POSIX does
  not promise. A peer need not answer.
* `SceneImport`, `SceneAssets`: weak fairness of the coordinator's steps, which
  Godot resumes every frame, and of the worker, which runs to its end or throws. No
  user command is forced.
* `ScenePlayback` is checked for safety and refinement without liveness.

## 4. Proofs

`RealtimePlaybackProofs` holds for every finite set of universes, every set of
offsets and bytes and every bound. Assumed: `MailboxAssumption` (universes
finite, `ZeroByte` a byte, bounds natural) and `NoPayloadAssumption`. Its first
part is about the mailbox under any client (`MailboxSpec`), its second about the
playback path (`Spec`).

`MailboxInv`, the inductive invariant of the mailbox, is the conjunction of

* `MailboxTypeOK`, in which generations and token numbers of slots never exceed
  the mailbox's counters: a fresh token differs from every one handed out;
* `SlotsCurrent`: an allocated slot is of the current generation, since both
  retiring operations stamp all of them; an unallocated one was never written;
* `DirtyIsHeld`: a dirty slot is initialized and subscribed; without it a drain
  could return a frame about which `HeldProvesSubscribedOffsets` says nothing;
* `TokensOwnDirtySlots` and `HeldProvesSubscribedOffsets`, which `playback` checks.

Neither of the last two is inductive alone: that the ring has room needs the
tokens in it to be of different universes (`RingHasRoom`, a cardinality
argument), and that held state stays proven needs `SlotsCurrent` to know which
slots a packet can touch. `DrainsNeverResurrect` is an action property that
follows from the invariant in the state before the step.

`PlaybackInv` adds to `MailboxInv` what the callers keep up:

* `SessionInv`: the RX thread lives from a start to the join of a stop, and a frame
  gets past "idle" only in a configured session, whose subscription is the scene's;
* `FrameInv`: drained or submitted frames are never left over by the frame of the
  main thread that produced them, except those a rehydration submitted, which the
  next frame consumes;
* `HeldOnItsWay`: a universe with proven state is dirty, or what has left the
  mailbox last (drained, submitted or shown, `Newest`) agrees with what is held;
* `StoppedSessionHoldsNothing`, and `PlaybackTypeOK`.

`SettledViewMatchesWire` is `HeldOnItsWay` with nothing dirty and nothing on its
way, and `HeldProvesSubscribedOffsets` from held to wire. It could not be carried
through the steps by itself: a packet between the two locks of `configure`, or a
drain, makes the view differ for a while, and only `HeldOnItsWay` says that the
difference is still under way.

Theorems: `MailboxTypeCorrect`, `MailboxInvariant`, `TokensAlwaysOwnDirtySlots`,
`HeldAlwaysProven`, `DrainsNeverResurrect` of the mailbox; `PlaybackInvariant`,
`SettledViewAlwaysMatchesWire`, `StoppedSessionAlwaysHoldsNothing`,
`PlaybackTokensOwnDirtySlots`, `PlaybackHeldIsProven`, `PlaybackNeverResurrects`
of the composition; and `PlaybackKeepsLatestState`: every step of RX thread, main
thread and user is a step of `LatestState!SafetySpec` or a stutter. The drain is
where that is not obvious: with one lock per token, each token is a `Fetch` of its
own universe, and what it returns is the latest payload by `HeldProvesSubscribedOffsets`.
That a stale state is fetched again is checked by `playback`.

`ScenePlaybackProofs` holds for any scenes, frames and clocks that satisfy the
constants' assumptions: `NumberAssumption`, `NoneAssumption` and `SlotsAssumption`
(the number systems), `FramesAssumption` (a frame is bytes and no longer than a
universe: `submit_universe_frame` cuts it), `ScenesAssumption` (the numeric fields
of programs, motions and shutters are numbers, as `visual_runtime_types.h`
declares them), `BeamsAssumption` (ids of beams are positive numbers:
`DensePresentationState::install` refuses others) and `ConsumeAssumption` (no set of
universes is `None`). Nothing is assumed about how a scene was compiled: that sources,
owners and indexes fit together is proved of `SceneInstall` (`CorePlans`).

`RuntimeInv`, for the caches of the evaluation plan, is the conjunction of

* types of frames and indexes, pending universes are those with a plan, and a
  consume works only on pending ones while a scene is installed;
* `CacheFits`: valid cached values are of sources of the universe's plan, and the
  relevant values last seen are there for exactly the plan's addresses, zero
  beyond the end of the universe (`SeenFits`);
* `CachedValuesCurrent`, which `scene` checks.

The step that matters is `ConsumeUniverse`: a source that is not decoded again has
no changed address (`KeptIsCurrent`, from the index of the plan), so decoding it
from the new frame gives the cached value (`AssembledSame`). An address beyond the
universe reads as zero in the code whatever the frame holds, and is the reason
for `SeenFits`.

`HeldInv`, for what is held over time, says that rotations and shutters are made of
numbers, that a held shutter was commanded, and (`RotationFits`) that a gobo that is
only positioned has no speed and stands where its position asks for within
`Epsilon`. The last is what `PhaseContinuity` needs beyond itself: a gobo whose
position stays the same is set to that position again, so it continues only if it
already stood there. `PhaseAlwaysContinues` follows the domains of an
update (`ShutterUpdated`, `RotatedGoesOn`): a change takes the phase of the old law
at that moment as the start of the new one (`ShutterPhaseNumber`, `UnitModulo`).

`ComputesFullEvaluation` is the refinement: for scenes that are `Separate`, each step
of the runtime is a step of `FullEvaluation` or a stutter. The step that is not
obvious is `ConsumeUniverse`, which evaluates the dirty consumers only, with the
remembered values of clean sources and perhaps prefetched inputs. That a full
evaluation gives the same needs `EvaluatedInv`: with the bytes a universe was last
evaluated for, another evaluation, at whatever time, would leave what it holds as it
is (`AtRest`). The argument goes

* `UpdateSame`: if all that is not dirty rests, updating the dirty consumers and
  updating all of them give the same held state and the same rows, domain by domain
  (`PropertiesSame`, `InputsSame` and their like; a row is emitted for what changes,
  and what rests does not). The colours are the delicate part: a dirty target keeps
  the inputs whose source is clean, and dirties the wheels over it;
* `RestsCarry`: a consumer none of whose sources was decoded again reads the same
  values in the new frame, through ranges, activation chains, masters and the cascade
  from gobos to motions (`CascadeReads`, `LayerReads`, `InputReads`), so it still rests;
  a consumer of a new scene has every source changed (`FirstFrame`);
* `UpdateRests`: after an evaluation its universe rests. Shutters, rotations and wheels
  compare the new command with the held one and not with the old input
  (`UpdatedShutterRests`, `RotatedRests`, `NextWheelRests`), so doing it again changes
  nothing; another universe keeps resting because their keys are apart
  (`KeysApart`, `InputsApart`, from `Separate`);
* a universe whose relevant bytes did not change is skipped, and a full evaluation
  of it changes nothing either (`NothingDirty`).

The invariant quantifies over all times; TLC checked it up to one past the clock's
bound.

`AlwaysLitByShutter` is about the presentation: it holds for scenes that are
`ShutteredAsOne`, if no row of values is `None` (`NoRowIsNone`: `held_renderer_valid_` is a
flag of its own). `LitByShutter` says nothing about a consume that is under way, a
playback that has outputs to look at or a beam before its row is written, so the
inductive invariant `PlaybackInv` is the conjunction of

* `ToldInv`: the parameters that the playback has of an authority are the held ones, or the
  visual frame has a row with the held ones, and a newer revision, for it. That every change
  is announced goes through all domains of an update (`UpdateRows`): only the shutters emit
  shutter rows, and a renewed shutter has the next revision (`RenewedShutter`), so that
  `ingest`, which compares revisions, takes it (`IngestedKnows`);
* `LayoutInv`: the rows of the renderer, of those it could be replaced by too, are those of the
  outputs, and after the first snapshot every row that has a member was written;
* `EnvelopeInv`: outside a consume the value of an authority is its envelope at this moment,
  within one that of a shutter that does not move; the envelope of an output is the product over
  its authorities. `tick` samples the changed and the strobing authorities only; the others have
  the same envelope at all times (`UnmovingStays`);
* `LightInv`: the beam of a row has the intensity of each member's envelope, unless the member
  is forced. A row that is written is open until its members are advanced, so `Published` forces
  those with a shutter (`PublishedLights`); of those without, the product is one (`NoShutters`).
  `Advance` turns each row by one of its changed outputs, and the members of a row have
  the same product (`AdvanceLights`).

What a product is stays abstract in all this: only that outputs with the same
authorities and values have the same one, and that the empty product is one.

Theorems: `RuntimeInvariant`, `CachedValuesAlwaysCurrent`, `HeldInvariant`,
`PhaseAlwaysContinues`, `EvaluatedInvariant`, `ComputesFullEvaluation`, `PlaybackInvariant`,
`AlwaysLitByShutter`.

`MvrXchangeProofs` holds for all stations, paths, keys and number of revisions
(`RevisionsAssumption`: a natural number), any number of starts and any answers.
`XchangeInv` is the conjunction of

* `TypeOK` and `ShapeOK`, which also gives types to worker, threads and window;
* `JobFits`: a worker that is not about to return has a job it can do;
* `TransferStage`: where the target and its .part file are at each point of a
  transfer: the target is the one found when the job was given until it is
  removed, and is absent until a closed .part file takes its name. `FinalFilesSafe`
  speaks of complete and of failed transfers only; this is what leads there;
* `IdleMeansQuiet` and `FinalFilesSafe`, which `exchange` checks;
* `StoppedMeansJoined`: a service that does not run has no thread, or its stop is at
  that very join, or discovery gave up. With it no handle is assigned while it
  holds a thread (`alive`); the exception is the one of the code, a discovery that
  could not open its socket, which `HandlesJoinedBeforeReuse` names.

Theorems: `XchangeInvariant`, `XchangeTypeCorrect`, `FinalFilesAlwaysSafe`,
`IdleAlwaysQuiet`, `HandlesAlwaysJoined`.

`AsyncPresentationProofs` holds for every set of universes, every finite set of
at least three input and at least two output banks, and every bound, from
`BanksAssumption`. All safety properties of the `async` run are theorems. Their
inductive invariant `AsyncInv` adds to `TypeOK`

* `PhasesAgree`: when there is a session, what a stop and a failure imply;
* `InputBanksOwned`, `OutputBanksOwned`: one holder per bank in every state;
  `BanksHaveOneHolder` speaks of running sessions only, and is not inductive,
  because a coordinator that ends keeps the bank it was filling;
* `CompletionsInOrder`: the completions acquired, ready and held by the
  coordinator are numbered one after the other. Evaluation writes a bank while
  others are read, so this rests on ownership;
* `InputAccounted`, `InputReachesCore`: the newest input between the producer and
  the core is `latest` or still has to be flushed; `consumed` is what the core has;
* `DeltasReachDisplay`: the display, with the deltas in flight applied in order
  (`ShownNext`), is the physical state except for rows to be published again.

`FlushAlwaysFindsFreeBank` is a count: when a poll starts, only the queue and the
reader can hold an input bank. `SettledDisplayAlwaysLatest` puts the last three
together. Theorems: `AsyncInvariant`, `AsyncTypeCorrect`,
`BanksAlwaysHaveOneHolder`, `FlushAlwaysFindsFreeBank`, `DeltasAlwaysInOrder`,
`RetirementAlwaysKeepsInput`, `SettledDisplayAlwaysLatest`.


`NativeWorkerPoolProofs` holds for any number of threads, items and batches;
`PoolAssumption` only says that these are natural numbers. `PoolInv` is the
conjunction of

* `TypeOK`;
* `WorkersInBatch`: a worker in a batch has the current epoch and a copy of the
  current batch, and the coordinator waits. This is what "a late worker" comes
  down to: `run` cannot start a batch while a worker is in the last one;
* `CompletedCounts`: `completed` is the number of workers that joined, so that
  `completed == threads.size()` means all of them (a cardinality argument);
* `BarrierJoinsAll`, which the runs check;
* `ToDoUntouched` and `WorksInRange`: what is still to do, in a range taken or
  not yet taken, has no result of this call. A worker can preserve this for the
  others only because the ranges are disjoint (`RangesInOrder`, from
  monotonicity of integer division).

`ResultInv` adds what a return needs: an item of a range is to do, lost to a
failure or computed (`RangesComputed`), a serial pass leaves nothing behind, and
`total` is the batch waited for. That every item is in some range
(`RangesCover`) has an explicit witness, the worker
`(used * (i + 1) - 1) \div count`.

Theorems: `PoolInvariant`, `PoolTypeCorrect`, `BarrierAlwaysJoinsAll`,
`RangesAlwaysExclusive`, and `PoolImplementsCall`: the pool refines
`BatchExecutor!SafetySpec`. That calls and the destructor end is checked by
`pool`.

`ArtNetSequenceTrackerProofs` holds for every `0 < HalfCycle < Cycle`, all universes
and endpoints and a network of any size (`SequenceAssumption`; `NoneAssumption`
keeps `None` apart from datagrams and streams). The invariant is

* `TypeOK`;
* `NetworkIsWrapped`: an ordered datagram carries its number wrapped;
* `StreamIsNewest`: the tracked stream is exactly what the datagram taken last
  says, so that the byte the tracker keeps stands for a number;
* `RefusedRows`: the last datagram of a row of rejections lies at least as many
  steps into the rejecting part of the cycle as the row is long, or its sequence
  is the tracked one and the row may have its full length.

`WindowDecides` is the arithmetic of `DecidesByAge`: `Forward` of two wrapped
numbers is their difference modulo the cycle (`ForwardIsDifference`), and within
the window that remainder tells older from newer. `ForwardNext` says that the
next number is one step further or wraps; so a row of rejections walks through
the rejecting half once, and it has `Cycle - HalfCycle` places.

Theorems: `SequenceInvariant`, `SequenceTypeCorrect`, `AlwaysDecidesByAge`,
`RestartAlwaysBounded`.

`TechnicalMonitorProofs` holds for all universes and payloads no longer than the
grid (`MonitorAssumption`; `NoneAssumption` keeps `None` apart from slots and
universes). Slots are never cleared, so what the monitor reads is right only
because captures grow in one order:

* `HeardInSlot`: nothing was heard in a later capture than its slot's, and the slot
  shows exactly the channels heard in its own, with their values;
* `Carried`: the capture an RX write carries is at least that of every slot and
  at most the active one. This is what makes a session read before the write
  harmless: a write of a capture that was closed meanwhile cannot replace a
  newer slot, and its frame stays hidden;
* `TypeOK` (an open session is the newest capture), `HeardTyped`, and
  `FetchesSelected` (the window reads only a universe it has selected).

`MonitorShowsCaptured` follows by comparing a slot's capture with the active one;
a write is the case that needs the overlay of a short payload (`OverlayShows`).

Theorems: `MonitorInvariant`, `MonitorTypeCorrect`, `MonitorAlwaysShowsCaptured`,
`OpeningAlwaysHidesEarlier`.

`SceneImportProofs` holds for every set of files, offsets and failures. `ImportInv`
is the conjunction of

* `ImportTypeOK`;
* `PreparedIsLast`: a prepared scene belongs to the model loaded last, so that a
  rebuild that takes it cannot install another show;
* `ShownIsLast`: a load shows nothing before its model is there, and that model, the
  last one, from then on;
* `BoundIsInstalled`: from the binding on, the runtime has the shown model at the
  offset of the panel, whatever the offset was when it was prepared;
* `FailureIsEmpty`: what is loading or shown has not failed.

`ShownIsInstalled` is only about published scenes and not inductive: an offset
change during the load is what the other parts are needed for.

For the files (`SceneAssets`, any archives, any leases) it adds `AssetInv`:

* `DirectoriesOK`: an archive content has one directory, and each file in it is that of
  an entry which no other entry of the archive is extracted to;
* `LiveIsLeased`: what is there is what somebody leases;
* `ModelsKept`: the paths of the model and of the worker lie in directories they lease,
  and for every GDTF among them they lease the directory of its content too;
* `ScenesKept`: a compiled scene leases nothing, so its images have to lie in
  directories of the model (or of the worker) it was compiled from. This holds because
  a compilation opens a GDTF again by its content and finds the directory the load
  has leased;
* `IdleWorker`, `ThrownFirst`: a worker that has not loaded, or has thrown, holds
  nothing that its successor could mistake for its own.

The lemmas below it say what the archive operators return (`FoundIsExtractable`: every
way of naming an entry ends in one that can be extracted) and what opening a set of
caches does (`OpenedIsRight`), so that each step only adds who holds what. Assumed
of the constants: GDTF contents are archives, what is compiled or bound is among
them, and a GDTF holds no GDTF. `AssetsFollowLoads` is a refinement with fairness:
`SceneAssets!AssetSpec` implements `SceneImport!Spec`, so that the theorems and
`LoadEnds` of the one hold of the other.
Theorems: `ImportInvariant`, `ImportTypeCorrect`, `PublishedIsInstalled`,
`AssetsFollowLoads`, `AssetInvariant`, `FilesAreAvailable`.

The type invariants of mailbox, playback, session, pool, tracker, monitor and
import are theorems and not part of a run. Each inductive invariant was checked by
TLC on the instance of its run before it was proved.

Model-checked only, and why:

* liveness (`ViewCatchesUp`, `DisplayCatchesUp`, `UpdateAnswered`, `StopReturns`, the
  end of calls of the pool, of its destructor and of a load), which the proof system
  does not treat; so `LatestState` and `BatchExecutor` are proved for their
  `SafetySpec` and checked with their fairness;
* `SceneTypeOK`, `ScreenShowsHeldState`: values composed by folds over the members of an
  aggregate and the shutters over a beam. What a fold computes for every input is an
  induction over data, which no installed prover can instantiate;
* `ControlGroupsAgree`: that beams of one signature are bound alike is what
  the compiler of the groups computes over the whole scene;
* `ActivationIsModeMaster`, `RoutesReachBeams`, `NothingCompiledIsRefused`: compiler
  and importer are recursive operators (`FixtureType`, `MvrScene`), and the provers lose arithmetic in every module that
  reaches one.

## 5. Findings

1. **Input after a coordinator failure** (`async_failure`). `submit` refuses a
   frame of a failed session, `submit_native_frame` does not look, and the
   mailbox has given the state away. The retirement that follows goes on from
   older values, whereas `docs/release-notes-draft.md:42` promises that a
   retirement preserves held values.
2. **Reopened monitor** (`monitor_reopen`). `refresh` asks for a payload only when
   the packet count of its universe has changed, and nothing resets the count it
   remembers. A window that is closed and opened again before the next packet
   shows the values of the earlier capture, although the cache withholds them
   (`MonitorShowsCaptured`); `docs/realtime-dmx-runtime.md:23` says that they
   become unavailable immediately.
3. **Latest revision of a station** (`exchange_latest`). Commits announced to our
   station are kept under the sender's UUID, `request_latest_mvr` looks under the
   service name: an update asks for what the last join reported, although
   `mvr_xchange_transfer.cpp:180` speaks of the most recent known MVR.
4. **Slow fades** (`scene_drift`). `merge_property_state` stores a value that differs
   by less than its epsilon without emitting it, and compares the next one with the
   stored value. A fade in small steps never reaches the outputs;
   `docs/rendering-performance-architecture.md:559` says that they stay exact.

### Observations

Met while modelling, without a run of their own. Each is in the model as the code
has it.

* `publish` makes a waiting update younger when a packet repeats it
  (`held.last_rx_us` is set first); `docs/realtime-dmx-runtime.md:31` says the
  latency uses the oldest relevant receive timestamp,
  `docs/live-render-latency-diagnostics.md:63` describes the code.
* The codec carries no physical emitter and filter resources
  (`compiled_runtime_scene_codec.cpp:73` to 146), which `runtime_scene_compiler.cpp:882`
  compiles and `docs/gdtf-support-matrix.md:23` describes: additive colours fall
  back to nominal light.
* `normalize_beam_type` turns an explicit "Spot" into "Wash"
  (`runtime_scene_compiler.cpp:128`), whereas `control_groups.cpp:67`,
  `render_emitter_groups.cpp:114` and `docs/gdtf-support-matrix.md:29` know "Spot".
* Functions of one channel that depend on different modes and start at the same
  value above 0 lose all but the last (`compiled_gdtf_fixture.cpp:595`).
* Fixture ids with "/" lose their beams; the importer takes the last of two
  top-level geometries of one name while the router refuses both; the importer does
  not look for cycles of geometry references.
* An offset change after a failed load installs the previous show's model.
* A change of the offset during a load refills the cache of compatibility offsets
  with leases of the show before, which live until the next load
  (`docs/gdtf-support-matrix.md:159`). After an empty show the runtime keeps a scene
  whose image files are gone; nothing shows it (`AssetsAvailable` is about shown
  scenes).
* A rebuild and a worker that extract the same file of a shared directory at the
  same time: `is_regular_file` sees a file that is partly written. When no cache
  directory can be created, files are extracted relative to the working directory.
* Pan (or tilt) channels of two yokes of one fixture share its transform: it shows
  the channel that changed last (`peraviz_visual_runtime.cpp:312`; `Separate` above).
* `PeravizDmxUniverseDecoder` is used by no script.

## 6. Not modelled, and the plan

In this order:

1. Proofs: that emitted rows do not depend on the order of universes.
2. Rebuilds of a scene inside an asynchronous session (`clear` and
   `install_compiled_scene` stop a session that the presentation still holds), and
   rebuilds that suspend for a load budget.
3. Random shutter waves, duty cycles and wheel spin; lenses, materials and
   footprints, which are written from the same rows as beams.
4. The older offset tables per attribute (`gdtf_control_offsets_resolver.cpp`,
   `fixture_dmx_binding.cpp`): only whether a fixture has them, and the leases they
   keep, are modelled.

Left out for good: mesh files (`mesh_3ds_loader.cpp`), colour science, XML parsing,
socket errors and statistics, visual settings, beam shading and the user interface.
They are numeric, input and output, or calls of Godot.
