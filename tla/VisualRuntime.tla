---------------------------- MODULE VisualRuntime ----------------------------
(***************************************************************************)
(* The visual runtime core (native/src/runtime/peraviz_visual_runtime.cpp, *)
(* compiled_evaluation_plan.cpp, parallel_evaluation_prefetch.cpp): it     *)
(* keeps the newest frame of each universe, decodes only the sources whose *)
(* bytes changed, evaluates only the consumers that those reach and emits  *)
(* the rows that differ.                                                   *)
(*                                                                         *)
(* The core has one user at a time: its calls do not interleave. A         *)
(* consume is a step for each pending universe, in any order (the map of   *)
(* the universes is unordered), and visual is the frame it fills.          *)
(* The workers' prefetch reads frames, colour inputs and resources that    *)
(* nothing writes before the universe is processed, so its results belong  *)
(* to that universe's step; prepared says that they are there.             *)
(***************************************************************************)
EXTENDS SceneUpdate

CONSTANTS
  Scenes,      \* compiled scenes by name
  Frames,      \* Frames[u]: byte sequences that arrive for universe u
  MaxFrames,   \* bound: submitted frames
  MaxNow       \* bound: runtime_now_seconds

Universes == DOMAIN Frames
ASSUME RuntimeAssumption == MaxFrames \in Nat /\ MaxNow \in Nat
\* No consume is not the last of one.
ASSUME ConsumeAssumption == \A universes \in SUBSET Universes : universes # None
\* submit_universe_frame cuts a frame at the end of the universe.
ASSUME FramesAssumption ==
  \A u \in Universes : \A bytes \in Frames[u] : bytes \in Seq(0..(Radix - 1)) /\ Len(bytes) <= Slots

\* What moves with time is made of numbers: the ranges of programs, motions and
\* shutters and the ids they name each other by (visual_runtime_types.h). What
\* can depend on a cascade has a place for it.
Numbers(x, fields) == fields \subseteq DOMAIN x /\ \A f \in fields : x[f] \in Int
ASSUME ScenesAssumption ==
  \A s \in DOMAIN Scenes :
    /\ Scenes[s].programs \in Seq(Range(Scenes[s].programs))
    /\ Scenes[s].properties \in Seq(Range(Scenes[s].properties))
    /\ Scenes[s].colors \in Seq(Range(Scenes[s].colors))
    /\ Scenes[s].gobos \in Seq(Range(Scenes[s].gobos))
    /\ Scenes[s].motions \in Seq(Range(Scenes[s].motions))
    /\ Scenes[s].shutters \in Seq(Range(Scenes[s].shutters))
    /\ \A p \in Range(Scenes[s].programs) : Numbers(p, {"id", "from", "to"})
    /\ \A b \in Range(Scenes[s].gobos) \cup Range(Scenes[s].motions) \cup Range(Scenes[s].shutters) :
         "chain" \in DOMAIN b
    /\ \A b \in Range(Scenes[s].motions) : Numbers(b, {"id", "source", "pfrom", "pto"})
    /\ \A b \in Range(Scenes[s].shutters) : Numbers(b, {"source", "from", "to", "pfrom", "pto"})

\* What the runtime installs of each scene.
Cores == Tabulated([s \in DOMAIN Scenes |-> Core(Scenes[s])])

VARIABLES
  installed,       \* the installed scene, None after clear
  frame,       \* latest_frame by universe
  pending,     \* universes with has_pending_frame
  seen,        \* last_relevant_values by universe, None before the first
  cache,       \* valid values of the evaluation plan by universe
  held,        \* physical state
  todo,        \* universes the consume has to process, None outside
  prepared,    \* the workers prepared this consume
  visual,      \* rows of the visual frame
  now,         \* runtime_now_seconds
  submitted    \* history: frames submitted

coreVars == <<installed, frame, pending, seen, cache, held, todo, prepared, visual, now, submitted>>

core == Cores[installed]
Plans == IF installed = None THEN <<>> ELSE core.plans
Idle == todo = None

Cleared ==
  /\ frame' = [u \in Universes |-> <<>>]
  /\ pending' = {}
  /\ seen' = [u \in Universes |-> None]
  /\ cache' = [u \in Universes |-> <<>>]
  /\ held' = NothingHeld
  /\ now' = 0

RuntimeInit ==
  /\ installed = None /\ frame = [u \in Universes |-> <<>>] /\ pending = {}
  /\ seen = [u \in Universes |-> None] /\ cache = [u \in Universes |-> <<>>]
  /\ held = NothingHeld /\ todo = None /\ prepared = FALSE /\ visual = <<>>
  /\ now = 0 /\ submitted = 0

---------------------------------------------------------------------------
Install(s) ==
  /\ Idle
  /\ installed' = s
  /\ Cleared
  /\ UNCHANGED <<todo, prepared, visual, submitted>>

Clear ==
  /\ Idle /\ installed # None
  /\ installed' = None
  /\ Cleared
  /\ UNCHANGED <<todo, prepared, visual, submitted>>

\* Latest wins; a universe nothing is installed for, or an empty frame, is
\* ignored.
Submit(u, bytes) ==
  /\ Idle /\ submitted < MaxFrames
  /\ submitted' = submitted + 1
  /\ IF u \in DOMAIN Plans /\ bytes # <<>>
     THEN frame' = [frame EXCEPT ![u] = bytes] /\ pending' = pending \cup {u}
     ELSE UNCHANGED <<frame, pending>>
  /\ UNCHANGED <<installed, seen, cache, held, todo, prepared, visual, now>>

Tick ==
  /\ now < MaxNow
  /\ now' = now + 1
  /\ UNCHANGED <<installed, frame, pending, seen, cache, held, todo, prepared, visual, submitted>>

---------------------------------------------------------------------------
(* Consuming.                                                              *)

\* prepare: the workers take a consume when it is large enough, unless it is
\* a probe or they were too slow lately.
PrepareInputs == prepared' \in BOOLEAN

BeginConsume ==
  /\ Idle /\ installed # None
  /\ todo' = pending /\ visual' = <<>>
  /\ PrepareInputs
  /\ UNCHANGED <<installed, frame, pending, seen, cache, held, now, submitted>>

\* The relevant bytes of universe u, and those that differ from the last ones.
Relevant(u) == [a \in core.plans[u].interest |-> ByteAt(frame[u], a)]
ChangedAddresses(u) ==
  {a \in core.plans[u].interest : IF seen[u] = None THEN TRUE ELSE seen[u][a] # ByteAt(frame[u], a)}

\* begin_update invalidates the changed sources; a source without a value is
\* decoded when a consumer asks for it, all from one frame.
Decoded(u, sources) ==
  [s \in core.plans[u].sources |->
     IF s \in sources \/ s \notin DOMAIN cache[u] THEN ReadRaw(frame[u], core.programs[s]) ELSE cache[u][s]]
\* As DirtyConsumers, for consumers all of whose sources changed.
MutDirtyConsumers(plan, sources) == {c \in plan.consumers : c.sources \subseteq sources}
DirtyConsumers(plan, sources) == {c \in plan.consumers : c.sources \cap sources # {}}

Adopted(u, sources, dirty, raw, next) ==
  /\ cache' = [cache EXCEPT ![u] = [s \in (DOMAIN @ \ sources) \cup SourcesOf(dirty) |-> raw[s]]]
  /\ held' = next.held
  /\ visual' = next.rows
Evaluated(u, sources, dirty, raw) ==
  Adopted(u, sources, dirty, raw,
          UpdateUniverse(core, u, dirty, sources, raw, prepared, now, Update(held, visual)))
Updated(u, sources) ==
  Evaluated(u, sources, DirtyConsumers(core.plans[u], sources), Tabulated(Decoded(u, sources)))
Process(u, addresses) == Updated(u, ChangedSources(core, core.plans[u], addresses))

ConsumeUniverse(u) ==
  /\ ~Idle /\ u \in todo
  /\ todo' = todo \ {u}
  /\ pending' = pending \ {u}
  /\ seen' = [seen EXCEPT ![u] = Relevant(u)]
  /\ IF ChangedAddresses(u) = {} THEN UNCHANGED <<cache, held, visual>> ELSE Process(u, ChangedAddresses(u))
  /\ UNCHANGED <<installed, frame, prepared, now, submitted>>

EndConsume ==
  /\ todo = {}
  /\ todo' = None
  /\ prepared' = FALSE
  /\ UNCHANGED <<installed, frame, pending, seen, cache, held, visual, now, submitted>>

---------------------------------------------------------------------------
\* A value the evaluation plan holds is the one its bytes have in the frame
\* that was last processed: no invalidation is missed, whichever sources share
\* bytes, are masters of others or were read by some consumers only.
CachedValuesCurrent ==
  \A u \in Universes : \A s \in DOMAIN cache[u] :
    cache[u][s] = Assembled(core.programs[s], seen[u])
=============================================================================
