------------------------ MODULE ScenePlaybackProofs ------------------------
(* Proofs about ScenePlayback, for any compiled scenes, any frames of       *)
(* bytes, any renderer bindings and every bound. That the runtime computes  *)
(* what a full evaluation would holds of the scenes whose universes do not  *)
(* depend on one another (ScenesSeparate), that every beam is lit as its    *)
(* shutters ask for of those whose rows are shuttered as one                *)
(* (ScenesShuttered); nothing else puts a condition on what a scene holds.  *)
EXTENDS ScenePlayback, TLAPS, SequenceTheorems, FiniteSetTheorems, WellFoundedInduction

-----------------------------------------------------------------------------
(* Tables and plans *)

(* A table is the function it was made from.                                *)
LEMMA TabulatedIs ==
  ASSUME NEW f
  PROVE  Tabulated(f) = f
BY DEF Tabulated

LEMMA OverlaidIs ==
  ASSUME NEW f, NEW g
  PROVE  /\ DOMAIN Overlaid(f, g) = DOMAIN f \cup DOMAIN g
         /\ \A x \in DOMAIN f : Overlaid(f, g)[x] = f[x]
         /\ \A x \in DOMAIN g \ DOMAIN f : Overlaid(f, g)[x] = g[x]
BY TabulatedIs DEF Overlaid

(* The plan of a universe knows the sources of its consumers and listens to *)
(* every byte of them.                                                      *)
PlanFits(c, plan) ==
  /\ plan.sources = SourcesOf(plan.consumers)
  /\ plan.interest = Addresses(c, plan.sources)

LEMMA WithPlansIs ==
  ASSUME NEW c
  PROVE  /\ \A k \in DOMAIN c \ {"plans"} : WithPlans(c)[k] = c[k]
         /\ \A u \in DOMAIN WithPlans(c).plans : WithPlans(c).plans[u] = Plan(c, u)
<1> DEFINE owners == {c.owner[s] : s \in ReadSources(c)}
           plans == [u \in owners |-> Plan(c, u)]
<1>1. WithPlans(c) = Overlaid([plans |-> plans], c)
  BY TabulatedIs DEF WithPlans
<1> HIDE DEF plans
<1>2. PICK r : r = [plans |-> plans]
  OBVIOUS
<1>3. DOMAIN r = {"plans"} /\ r["plans"] = plans
  BY <1>2
<1>4. PICK w : w = WithPlans(c)
  OBVIOUS
<1>5. w = [x \in DOMAIN r \cup DOMAIN c |-> IF x \in DOMAIN r THEN r[x] ELSE c[x]]
  <2>1. w = Overlaid(r, c)
    BY <1>1, <1>2, <1>4
  <2> QED
    BY <2>1, TabulatedIs DEF Overlaid
<1>6. w["plans"] = plans /\ \A k \in DOMAIN c \ {"plans"} : w[k] = c[k]
  BY ONLY <1>3, <1>5
<1>7. \A u \in DOMAIN plans : plans[u] = Plan(c, u)
  BY DEF plans
<1> QED
  BY <1>4, <1>6, <1>7

(* What is accepted of a scene.                                             *)
ShuttersIn(s) == AcceptedShutters(Programs(Scenes[s]), Chained(Programs(Scenes[s]), Scenes[s].shutters))
AcceptedOf(s) == Accepted(Scenes[s], Programs(Scenes[s]), ShuttersIn(s), Representatives(ShuttersIn(s)))

LEMMA CoreIs ==
  ASSUME NEW s \in DOMAIN Scenes
  PROVE  /\ Cores[s].programs = Programs(Scenes[s]) /\ AcceptedOf(s).programs = Programs(Scenes[s])
         /\ Cores[s].owner = AcceptedOf(s).owner
         /\ Cores[s].motions = AcceptedOf(s).motions
         /\ Cores[s].shutters = AcceptedOf(s).shutters
         /\ \A u \in DOMAIN Cores[s].plans : Cores[s].plans[u] = Plan(AcceptedOf(s), u)
<1>1. Cores[s] = Core(Scenes[s])
  BY TabulatedIs DEF Cores
<1>2. Core(Scenes[s]) = WithPlans(AcceptedOf(s))
  BY TabulatedIs DEF Core, AcceptedOf, ShuttersIn
<1>3. {"programs", "owner", "motions", "shutters"} \subseteq DOMAIN AcceptedOf(s) \ {"plans"}
  BY DEF AcceptedOf, Accepted
<1>4. AcceptedOf(s).programs = Programs(Scenes[s])
  BY DEF AcceptedOf, Accepted
<1> QED
  BY <1>1, <1>2, <1>3, <1>4, WithPlansIs

LEMMA CorePlans ==
  ASSUME NEW s \in DOMAIN Scenes, NEW u \in DOMAIN Cores[s].plans
  PROVE  PlanFits(Cores[s], Cores[s].plans[u])
<1>1. Cores[s].plans[u] = PlanOf(AcceptedOf(s), ConsumersOf(AcceptedOf(s), u))
  BY CoreIs DEF Plan
<1>2. \A S : Addresses(Cores[s], S) = Addresses(AcceptedOf(s), S)
  BY CoreIs DEF Addresses
<1> QED
  BY <1>1, <1>2 DEF PlanOf, PlanFits

-----------------------------------------------------------------------------
(* The inductive invariant of the evaluation plan *)

(* What was last processed of a universe: its relevant bytes, zero beyond   *)
(* the end of a universe, which no address of the plan's index reaches.     *)
SeenFits(u) ==
  /\ seen[u] = [a \in core.plans[u].interest |-> seen[u][a]]
  /\ \A a \in core.plans[u].interest \ (0..(Slots - 1)) : seen[u][a] = 0

CacheFits(u) ==
  DOMAIN cache[u] # {} => /\ u \in DOMAIN Plans
                          /\ DOMAIN cache[u] \subseteq Plans[u].sources
                          /\ SeenFits(u)

RuntimeInv ==
  /\ installed \in DOMAIN Scenes \cup {None}
  /\ DOMAIN frame = Universes /\ DOMAIN seen = Universes /\ DOMAIN cache = Universes
  /\ \A u \in Universes : frame[u] \in Seq(0..(Radix - 1)) /\ Len(frame[u]) <= Slots
  /\ pending \subseteq Universes \cap DOMAIN Plans
  /\ Idle \/ (todo \subseteq pending /\ installed # None)
  /\ \A u \in Universes : CacheFits(u)
  /\ CachedValuesCurrent

(* What the core does in a step of the scene.                               *)
CoreNext ==
  \/ \E s \in DOMAIN Scenes : Install(s)
  \/ Clear
  \/ \E u \in Universes : \E bytes \in Frames[u] : Submit(u, bytes)
  \/ BeginConsume
  \/ \E u \in Universes : ConsumeUniverse(u)
  \/ EndConsume
  \/ Tick

LEMMA CoreSteps == [Next]_vars => [CoreNext]_coreVars
<1> SUFFICES ASSUME [Next]_vars PROVE [CoreNext]_coreVars
  OBVIOUS
<1>1. CASE UNCHANGED vars
  BY <1>1 DEF vars
<1>2. CASE \/ \E s \in DOMAIN Scenes : Load(s)
           \/ Unload
           \/ \E u \in Universes : \E bytes \in Frames[u] : Receive(u, bytes)
           \/ Begin
           \/ \E u \in Universes : Consume(u)
           \/ Show
           \/ Elapse
  BY <1>2 DEF Load, LoadBound, Unload, Receive, Begin, Consume, Show, Elapse, CoreNext
<1>3. CASE (\E aggregating \in BOOLEAN : ReplaceRenderer(aggregating)) \/ SwitchMode
  BY <1>3 DEF ReplaceRenderer, SwitchMode, Replay
<1> QED
  BY <1>1, <1>2, <1>3 DEF Next

(* Bytes that agree where a program reads them assemble to the same value.  *)
LEMMA AssembledSame ==
  ASSUME NEW p, NEW a, NEW b, \A x \in AddressesOf(p) : a[x] = b[x]
  PROVE  Assembled(p, a) = Assembled(p, b)
<1>1. CASE Len(p.bytes) \notin 1..4
  BY <1>1 DEF Assembled
<1>2. CASE Len(p.bytes) \in 1..4
  <2>1. ASSUME NEW i \in DOMAIN p.bytes PROVE a[p.bytes[i].address] = b[p.bytes[i].address]
    BY DEF AddressesOf
  <2> QED
    BY <1>2, <2>1 DEF Assembled
<1> QED
  BY <1>1, <1>2

(* A decoded value is that of the bytes that are remembered.                *)
LEMMA DecodedIsCurrent ==
  ASSUME RuntimeInv, installed # None,
         NEW u \in Universes, u \in DOMAIN Plans,
         NEW s \in core.plans[u].sources
  PROVE  ReadRaw(frame[u], core.programs[s]) = Assembled(core.programs[s], Relevant(u))
<1>1. PlanFits(core, core.plans[u])
  BY CorePlans DEF RuntimeInv, Plans, core
<1>2. AddressesOf(core.programs[s]) \subseteq core.plans[u].interest
  BY <1>1 DEF PlanFits, Addresses
<1> QED
  BY <1>2, AssembledSame DEF ReadRaw, Relevant

LEMMA InitRuntimeInv == Init => RuntimeInv
BY SlotsAssumption DEF Init, RuntimeInit, RuntimeInv, CacheFits, CachedValuesCurrent, Idle, Plans

(* An installed scene starts with nothing.                                  *)
LEMMA ClearedKeepsInv ==
  ASSUME RuntimeInv, Idle, Cleared, UNCHANGED todo, installed' \in DOMAIN Scenes \cup {None}
  PROVE  RuntimeInv'
BY SlotsAssumption DEF RuntimeInv, Cleared, CacheFits, CachedValuesCurrent, Idle

LEMMA OtherCoreSteps ==
  ASSUME RuntimeInv,
         \/ \E u \in Universes : \E bytes \in Frames[u] : Submit(u, bytes)
         \/ BeginConsume
         \/ EndConsume
         \/ Tick
         \/ UNCHANGED coreVars
  PROVE  RuntimeInv'
<1>1. UNCHANGED <<installed, seen, cache>>
  BY DEF Submit, BeginConsume, EndConsume, Tick, coreVars
<1>2. /\ DOMAIN frame' = Universes
      /\ \A u \in Universes : frame'[u] \in Seq(0..(Radix - 1)) /\ Len(frame'[u]) <= Slots
      /\ pending' \subseteq Universes \cap DOMAIN Plans
  <2>1. CASE \E u \in Universes : \E bytes \in Frames[u] : Submit(u, bytes)
    <3>0. PICK u \in Universes : \E bytes \in Frames[u] : Submit(u, bytes)
      BY <2>1
    <3>1. PICK bytes \in Frames[u] : Submit(u, bytes)
      BY <3>0
    <3>2. bytes \in Seq(0..(Radix - 1)) /\ Len(bytes) <= Slots
      BY FramesAssumption
    <3> QED
      BY <3>1, <3>2 DEF Submit, RuntimeInv
  <2>2. CASE UNCHANGED <<frame, pending>>
    BY <2>2 DEF RuntimeInv
  <2> QED
    BY <2>1, <2>2 DEF BeginConsume, EndConsume, Tick, coreVars
<1>3. Idle' \/ (todo' \subseteq pending' /\ installed' # None)
  BY DEF Submit, BeginConsume, EndConsume, Tick, coreVars, Idle, RuntimeInv
<1>4. (\A u \in Universes : CacheFits(u))' /\ CachedValuesCurrent'
  BY <1>1 DEF RuntimeInv, CacheFits, SeenFits, CachedValuesCurrent, Plans, core
<1> QED
  BY <1>1, <1>2, <1>3, <1>4 DEF RuntimeInv, Plans, core

-----------------------------------------------------------------------------
(* A universe of a consume *)

(* Nothing lies beyond the end of a universe.                               *)
LEMMA NothingBeyond ==
  ASSUME NEW bytes \in Seq(0..(Radix - 1)), Len(bytes) <= Slots, NEW a, a \notin 0..(Slots - 1)
  PROVE  ByteAt(bytes, a) = 0
BY SlotsAssumption, LenProperties DEF ByteAt

(* A value that begin_update leaves alone is the one its bytes have now.    *)
LEMMA KeptIsCurrent ==
  ASSUME RuntimeInv, installed # None, NEW u \in Universes, u \in DOMAIN Plans,
         NEW s \in DOMAIN cache[u],
         s \notin ChangedSources(core, core.plans[u], ChangedAddresses(u))
  PROVE  cache[u][s] = Assembled(core.programs[s], Relevant(u))
<1>1. PlanFits(core, core.plans[u])
  BY CorePlans DEF RuntimeInv, Plans, core
<1>2. s \in core.plans[u].sources /\ SeenFits(u)
  BY DEF RuntimeInv, CacheFits, Plans
<1>3. AddressesOf(core.programs[s]) \subseteq core.plans[u].interest
  BY <1>1, <1>2 DEF PlanFits, Addresses
<1>4. ASSUME NEW a \in AddressesOf(core.programs[s])
      PROVE  seen[u][a] = Relevant(u)[a]
  <2>1. a \in core.plans[u].interest /\ Relevant(u)[a] = ByteAt(frame[u], a)
    BY <1>3, <1>4 DEF Relevant
  <2>2. CASE a \in 0..(Slots - 1)
    <3>1. Addresses(core, {s}) = AddressesOf(core.programs[s])
      BY DEF Addresses
    <3>2. a \notin ChangedAddresses(u)
      BY <1>2, <1>4, <2>2, <3>1 DEF ChangedSources
    <3> QED
      BY <2>1, <3>2 DEF ChangedAddresses
  <2>3. CASE a \notin 0..(Slots - 1)
    <3>1. ByteAt(frame[u], a) = 0
      BY <2>3, NothingBeyond DEF RuntimeInv
    <3> QED
      BY <1>2, <2>1, <2>3, <3>1 DEF SeenFits
  <2> QED
    BY <2>2, <2>3
<1>5. Assembled(core.programs[s], seen[u]) = Assembled(core.programs[s], Relevant(u))
  BY <1>4, AssembledSame
<1> QED
  BY <1>5 DEF RuntimeInv, CachedValuesCurrent

(* What is left of a universe: values of its sources, each the one its bytes *)
(* have now.                                                                 *)
LEMMA ConsumedValues ==
  ASSUME RuntimeInv, installed # None, NEW u \in Universes, u \in DOMAIN Plans, ConsumeUniverse(u)
  PROVE  /\ DOMAIN cache' = Universes
         /\ \A v \in Universes \ {u} : cache'[v] = cache[v]
         /\ DOMAIN cache'[u] \subseteq core.plans[u].sources
         /\ \A s \in DOMAIN cache'[u] : cache'[u][s] = Assembled(core.programs[s], Relevant(u))
<1>1. DOMAIN cache[u] \subseteq core.plans[u].sources
  BY DEF RuntimeInv, CacheFits, Plans
<1>2. CASE ChangedAddresses(u) = {}
  <2>1. cache' = cache
    BY <1>2 DEF ConsumeUniverse
  <2>2. \A s : s \notin ChangedSources(core, core.plans[u], ChangedAddresses(u))
    BY <1>2 DEF ChangedSources
  <2> QED
    BY <1>1, <2>1, <2>2, KeptIsCurrent DEF RuntimeInv
<1>3. CASE ChangedAddresses(u) # {}
  <2> DEFINE plan == core.plans[u]
             sources == ChangedSources(core, plan, ChangedAddresses(u))
             dirty == DirtyConsumers(plan, sources)
             raw == Tabulated(Decoded(u, sources))
             kept == (DOMAIN cache[u] \ sources) \cup SourcesOf(dirty)
  <2>1. cache' = [cache EXCEPT ![u] = [s \in kept |-> raw[s]]]
    BY <1>3 DEF ConsumeUniverse, Process, Updated, Evaluated, Adopted
  <2>2. cache'[u] = [s \in kept |-> raw[s]]
    BY <2>1 DEF RuntimeInv
  <2>3. PlanFits(core, plan)
    BY CorePlans DEF RuntimeInv, Plans, core
  <2>4. kept \subseteq plan.sources
    BY <1>1, <2>3 DEF PlanFits, SourcesOf, DirtyConsumers
  <2>5. ASSUME NEW s \in kept
        PROVE  raw[s] = Assembled(core.programs[s], Relevant(u))
    <3>1. raw[s] = IF s \in sources \/ s \notin DOMAIN cache[u]
                   THEN ReadRaw(frame[u], core.programs[s]) ELSE cache[u][s]
      BY <2>4, <2>5, TabulatedIs DEF Decoded
    <3>2. ReadRaw(frame[u], core.programs[s]) = Assembled(core.programs[s], Relevant(u))
      BY <2>4, <2>5, DecodedIsCurrent
    <3>3. s \in DOMAIN cache[u] /\ s \notin sources =>
            cache[u][s] = Assembled(core.programs[s], Relevant(u))
      BY KeptIsCurrent
    <3> HIDE DEF raw, sources
    <3> QED
      BY <3>1, <3>2, <3>3
  <2> HIDE DEF kept, raw
  <2> QED
    BY <2>1, <2>2, <2>4, <2>5 DEF RuntimeInv
<1> QED
  BY <1>2, <1>3

LEMMA ConsumeKeepsInv ==
  ASSUME RuntimeInv, NEW u \in Universes, ConsumeUniverse(u)
  PROVE  RuntimeInv'
<1>1. installed # None /\ u \in DOMAIN Plans
  BY DEF ConsumeUniverse, RuntimeInv, Idle
<1>2. UNCHANGED <<installed, frame, core, Plans>>
  BY DEF ConsumeUniverse, core, Plans
<1>3. /\ DOMAIN seen' = Universes /\ seen'[u] = Relevant(u)
      /\ \A v \in Universes \ {u} : seen'[v] = seen[v]
  BY DEF ConsumeUniverse, RuntimeInv
<1>4. SeenFits(u)'
  <2>1. \A a \in core.plans[u].interest : Relevant(u)[a] = ByteAt(frame[u], a)
    BY DEF Relevant
  <2>2. \A a \in core.plans[u].interest \ (0..(Slots - 1)) : Relevant(u)[a] = 0
    BY <2>1, NothingBeyond DEF RuntimeInv
  <2>3. Relevant(u) = [a \in core.plans[u].interest |-> Relevant(u)[a]]
    BY DEF Relevant
  <2> QED
    BY <1>2, <1>3, <2>2, <2>3 DEF SeenFits
<1>5. /\ DOMAIN cache' = Universes
      /\ \A v \in Universes \ {u} : cache'[v] = cache[v]
      /\ DOMAIN cache'[u] \subseteq core.plans[u].sources
      /\ \A s \in DOMAIN cache'[u] : cache'[u][s] = Assembled(core.programs[s], Relevant(u))
  BY <1>1, ConsumedValues
<1>6. (\A v \in Universes : CacheFits(v))'
  <2>1. CacheFits(u)'
    BY <1>1, <1>2, <1>4, <1>5 DEF CacheFits, Plans
  <2>2. ASSUME NEW v \in Universes \ {u} PROVE CacheFits(v)'
    BY <1>2, <1>3, <1>5 DEF CacheFits, SeenFits, RuntimeInv
  <2> QED
    BY <2>1, <2>2
<1>7. CachedValuesCurrent'
  BY <1>2, <1>3, <1>5 DEF CachedValuesCurrent, RuntimeInv
<1>8. (pending \subseteq Universes \cap DOMAIN Plans)' /\ (Idle \/ (todo \subseteq pending /\ installed # None))'
  BY <1>1, <1>2 DEF ConsumeUniverse, RuntimeInv, Idle
<1> QED
  BY <1>2, <1>3, <1>5, <1>6, <1>7, <1>8 DEF RuntimeInv

-----------------------------------------------------------------------------
(* The theorems *)

LEMMA RuntimeNextInv == RuntimeInv /\ [Next]_vars => RuntimeInv'
<1> SUFFICES ASSUME RuntimeInv, [CoreNext]_coreVars PROVE RuntimeInv'
  BY CoreSteps
<1>1. CASE \E s \in DOMAIN Scenes : Install(s)
  BY <1>1, ClearedKeepsInv DEF Install
<1>2. CASE Clear
  BY <1>2, ClearedKeepsInv DEF Clear
<1>3. CASE \E u \in Universes : ConsumeUniverse(u)
  BY <1>3, ConsumeKeepsInv
<1> QED
  BY <1>1, <1>2, <1>3, OtherCoreSteps DEF CoreNext

(* The frames, the plan's values and the bytes they were decoded from stay  *)
(* in step, across loads, unloads, short frames and frames that replace one *)
(* another before they are consumed.                                        *)
THEOREM RuntimeInvariant == Spec => []RuntimeInv
<1> QED
  BY InitRuntimeInv, RuntimeNextInv, PTL DEF Spec

(* A value that the evaluation plan holds is the one its bytes have in the  *)
(* frame last processed: begin_update misses no invalidation, whichever     *)
(* sources share bytes, are masters of others or were read by some          *)
(* consumers only.                                                          *)
THEOREM CachedValuesAlwaysCurrent == Spec => []CachedValuesCurrent
<1>1. RuntimeInv => CachedValuesCurrent
  BY DEF RuntimeInv
<1> QED
  BY <1>1, RuntimeInvariant, PTL

-----------------------------------------------------------------------------
(* Choosing from what is installed *)

(* A set of places has a first one, by the well-foundedness of the sets     *)
(* 0 .. k under inclusion, and a last one.                                  *)
LEMMA FirstPlace ==
  ASSUME NEW S \in SUBSET Nat, S # {}
  PROVE  Min(S) \in S /\ \A m \in S : Min(S) <= m
<1> DEFINE T == {0 .. k : k \in S}
<1>1. T \subseteq FiniteSubsetsOf(Nat) /\ T # {}
  <2>1. \A k \in S : 0 .. k \in SUBSET Nat /\ IsFiniteSet(0 .. k)
    BY FS_Interval
  <2> QED
    BY <2>1 DEF FiniteSubsetsOf
<1>2. IsWellFoundedOn(StrictSubsetOrdering(Nat), FiniteSubsetsOf(Nat))
  BY FS_StrictSubsetOrderingWellFounded
<1> HIDE DEF T
<1>3. PICK x \in T : \A y \in T : ~(<<y, x>> \in StrictSubsetOrdering(Nat))
  BY <1>1, <1>2, WFMin
<1>4. PICK k \in S : x = 0 .. k
  BY DEF T
<1>5. ASSUME NEW m \in S, m < k PROVE FALSE
  <2>1. 0 .. m \in T
    BY DEF T
  <2>2. 0 .. m \subseteq 0 .. k /\ 0 .. m # 0 .. k
    BY <1>5
  <2>3. <<0 .. m, 0 .. k>> \in StrictSubsetOrdering(Nat)
    BY <2>2 DEF StrictSubsetOrdering
  <2> QED
    BY <1>3, <1>4, <2>1, <2>3
<1>6. \A m \in S : k <= m
  BY <1>5
<1> QED
  BY <1>6 DEF Min

LEMMA LastPlace ==
  ASSUME NEW n \in Nat, NEW S \in SUBSET (1..n), S # {}
  PROVE  Max(S) \in S
<1> DEFINE T == {n - k : k \in S}
<1>1. T \in SUBSET Nat /\ T # {}
  <2>1. \A k \in S : n - k \in Nat
    OBVIOUS
  <2> QED
    BY <2>1
<1> HIDE DEF T
<1>2. Min(T) \in T /\ \A t \in T : Min(T) <= t
  BY <1>1, FirstPlace
<1>3. PICK k \in S : Min(T) = n - k
  BY <1>2 DEF T
<1>4. ASSUME NEW m \in S PROVE k >= m
  <2>1. n - k <= n - m
    BY <1>2, <1>3 DEF T
  <2> QED
    BY <2>1
<1> QED
  BY <1>4 DEF Max

(* A first one of those that pass a test is one of them.                    *)
LEMMA FirstChosen ==
  ASSUME NEW s, DOMAIN s \subseteq Nat, NEW hits \in SUBSET DOMAIN s
  PROVE  (IF hits = {} THEN None ELSE s[Min(hits)]) \in {None} \cup {s[i] : i \in hits}
BY FirstPlace

-----------------------------------------------------------------------------
(* The numbers of what is installed *)

LEMMA ProgramNumbers ==
  ASSUME NEW s \in DOMAIN Scenes, NEW id \in DOMAIN Programs(Scenes[s])
  PROVE  Programs(Scenes[s])[id].from \in Int /\ Programs(Scenes[s])[id].to \in Int
<1> DEFINE all == Scenes[s].programs
           hits == {i \in DOMAIN all : all[i].id = id}
           first == IF hits = {} THEN None ELSE all[Min(hits)]
<1>1. DOMAIN all \subseteq Nat
  BY ScenesAssumption, LenProperties
<1>2. \A i \in DOMAIN all : Numbers(all[i], {"id", "from", "to"})
  BY ScenesAssumption DEF Range
<1>3. hits # {}
  BY DEF Programs, Range
<1>4. Min(hits) \in hits
  BY <1>1, <1>3, FirstPlace
<1>5. Programs(Scenes[s])[id] = [first EXCEPT !.bytes = Ordered(@)]
  BY DEF Programs, FirstOf
<1>6. PICK p : p = first
  OBVIOUS
<1>7. Numbers(p, {"id", "from", "to"})
  BY <1>2, <1>3, <1>4, <1>6
<1> HIDE DEF first
<1>8. PICK b : b = Ordered(p.bytes)
  OBVIOUS
<1>9. Programs(Scenes[s])[id] = [p EXCEPT !.bytes = b]
  BY <1>5, <1>6, <1>8
<1> QED
  BY <1>7, <1>9 DEF Numbers

(* The motions and the shutters of a universe's layer.                      *)
MotionNumbers(b) == b.pfrom \in Int /\ b.pto \in Int /\ b.id \in Int
ShutterNumbers(b) == b.from \in Int /\ b.to \in Int /\ b.pfrom \in Int /\ b.pto \in Int

LEMMA MotionsInstalled ==
  ASSUME NEW s \in DOMAIN Scenes, NEW i \in DOMAIN Cores[s].motions
  PROVE  /\ MotionNumbers(Cores[s].motions[i])
         /\ Cores[s].motions[i].source \in DOMAIN Cores[s].programs
         /\ i \in 1..Len(Scenes[s].motions)
<1> DEFINE P == Programs(Scenes[s])
           all == Scenes[s].motions
           chained == Chained(P, all)
<1>1. i \in DOMAIN all /\ Cores[s].motions[i] = chained[i] /\ ValidMotion(P, chained[i])
  BY CoreIs DEF AcceptedOf, Accepted, Where, Chained
<1>2. PICK b, c : b = all[i] /\ c = Chain(P, all[i].source)
  OBVIOUS
<1>3. chained[i] = [b EXCEPT !.chain = c]
  BY <1>1, <1>2 DEF Chained
<1>4. Numbers(b, {"id", "source", "pfrom", "pto"})
  BY <1>1, <1>2, ScenesAssumption DEF Range
<1>5. MotionNumbers(chained[i])
  BY <1>3, <1>4 DEF Numbers, MotionNumbers
<1>6. chained[i].source \in DOMAIN Cores[s].programs
  BY <1>1, CoreIs DEF ValidMotion
<1>7. i \in 1..Len(all)
  BY <1>1, ScenesAssumption
<1> QED
  BY <1>1, <1>5, <1>6, <1>7

LEMMA ShuttersInstalled ==
  ASSUME NEW s \in DOMAIN Scenes, NEW i \in DOMAIN Cores[s].shutters
  PROVE  ShutterNumbers(Cores[s].shutters[i]) /\ i \in 1..Len(Scenes[s].shutters)
<1> DEFINE P == Programs(Scenes[s])
           all == Scenes[s].shutters
           chained == Chained(P, all)
<1>1. i \in DOMAIN ShuttersIn(s) /\ Cores[s].shutters[i] = ShuttersIn(s)[i]
  BY CoreIs DEF AcceptedOf, Accepted, Where
<1>2. i \in DOMAIN all /\ ShuttersIn(s)[i] = chained[i]
  BY <1>1 DEF ShuttersIn, AcceptedShutters, Where, Chained
<1>3. PICK b, c : b = all[i] /\ c = Chain(P, all[i].source)
  OBVIOUS
<1>4. chained[i] = [b EXCEPT !.chain = c]
  BY <1>2, <1>3 DEF Chained
<1>5. Numbers(b, {"source", "from", "to", "pfrom", "pto"})
  BY <1>2, <1>3, ScenesAssumption DEF Range
<1>6. ShutterNumbers(chained[i])
  BY <1>4, <1>5 DEF Numbers, ShutterNumbers
<1>7. i \in 1..Len(all)
  BY <1>2, ScenesAssumption
<1> QED
  BY <1>1, <1>2, <1>6, <1>7

(* A dirty layer reads sources of the plan only.                            *)
LEMMA MotionConsumer ==
  ASSUME NEW c, NEW u, NEW x \in ConsumersOf(c, u), x.domain = "motion"
  PROVE  Sources(MotionsOf(c, u, x.key)) \subseteq x.sources
<1>1. PICK l : x = Consumer("motion", l, Cascade(c, Sources(MotionsOf(c, u, l))))
  BY DEF ConsumersOf, Consumer
<1> QED
  BY <1>1 DEF Consumer, Cascade

LEMMA ShutterConsumer ==
  ASSUME NEW c, NEW u, NEW x \in ConsumersOf(c, u), x.domain = "shutter"
  PROVE  Sources(ShuttersOf(c, x.key)) \subseteq x.sources
<1>1. PICK l : x = Consumer("shutter", l, Cascade(c, Sources(ShuttersOf(c, l))))
  BY DEF ConsumersOf, Consumer
<1> QED
  BY <1>1 DEF Consumer, Cascade

LEMMA LayerSources ==
  ASSUME NEW s \in DOMAIN Scenes, NEW u \in DOMAIN Cores[s].plans,
         NEW dirty \in SUBSET Cores[s].plans[u].consumers, NEW l
  PROVE  /\ l \in Keys(dirty, "motion") => Sources(MotionsOf(Cores[s], u, l)) \subseteq Cores[s].plans[u].sources
         /\ l \in Keys(dirty, "shutter") => Sources(ShuttersOf(Cores[s], l)) \subseteq Cores[s].plans[u].sources
<1>1. /\ Cores[s].plans[u].consumers = ConsumersOf(AcceptedOf(s), u)
      /\ Cores[s].plans[u].sources = SourcesOf(Cores[s].plans[u].consumers)
  <2>1. Cores[s].plans[u] = PlanOf(AcceptedOf(s), ConsumersOf(AcceptedOf(s), u))
    BY CoreIs DEF Plan
  <2>2. PICK a, consumers : a = AcceptedOf(s) /\ consumers = ConsumersOf(AcceptedOf(s), u)
    OBVIOUS
  <2>3. Cores[s].plans[u] = PlanOf(a, consumers)
    BY <2>1, <2>2
  <2> QED
    BY <2>2, <2>3 DEF PlanOf
<1>2. ASSUME l \in Keys(dirty, "motion")
      PROVE  Sources(MotionsOf(Cores[s], u, l)) \subseteq Cores[s].plans[u].sources
  <2>1. PICK x \in dirty : x.domain = "motion" /\ x.key = l
    BY <1>2 DEF Keys
  <2>2. Sources(MotionsOf(AcceptedOf(s), u, l)) \subseteq x.sources
    BY <1>1, <2>1, MotionConsumer
  <2>3. MotionsOf(AcceptedOf(s), u, l) = MotionsOf(Cores[s], u, l)
    BY CoreIs DEF MotionsOf, InUniverse, Where
  <2> QED
    BY <1>1, <2>2, <2>3 DEF SourcesOf
<1>3. ASSUME l \in Keys(dirty, "shutter")
      PROVE  Sources(ShuttersOf(Cores[s], l)) \subseteq Cores[s].plans[u].sources
  <2>1. PICK x \in dirty : x.domain = "shutter" /\ x.key = l
    BY <1>3 DEF Keys
  <2>2. Sources(ShuttersOf(AcceptedOf(s), l)) \subseteq x.sources
    BY <1>1, <2>1, ShutterConsumer
  <2>3. ShuttersOf(AcceptedOf(s), l) = ShuttersOf(Cores[s], l)
    BY CoreIs DEF ShuttersOf
  <2> QED
    BY <1>1, <2>2, <2>3 DEF SourcesOf
<1> QED
  BY <1>2, <1>3

(* Every value that an update reads is a number.                            *)
LEMMA AssembledNumber ==
  ASSUME NEW p, NEW a, \A x \in AddressesOf(p) : a[x] \in Int
  PROVE  Assembled(p, a) \in Int
<1> DEFINE n == Len(p.bytes)
           Digit(k) == IF n - k \in DOMAIN p.bytes THEN a[p.bytes[n - k].address] ELSE 0
<1>1. \A k : Digit(k) \in Int
  BY DEF AddressesOf
<1>2. Assembled(p, a) = IF n \notin 1..4 THEN 0
                        ELSE Digit(0) + (Radix * (Digit(1) + (Radix * (Digit(2) + (Radix * Digit(3))))))
  BY DEF Assembled
<1>3. PICK d0, d1, d2, d3 : d0 = Digit(0) /\ d1 = Digit(1) /\ d2 = Digit(2) /\ d3 = Digit(3)
  OBVIOUS
<1>4. d0 \in Int /\ d1 \in Int /\ d2 \in Int /\ d3 \in Int
  BY <1>1, <1>3
<1> HIDE DEF Digit, n
<1>5. d0 + (Radix * (d1 + (Radix * (d2 + (Radix * d3))))) \in Int
  BY <1>4, NumberAssumption
<1> QED
  BY <1>2, <1>3, <1>5

LEMMA RawNumbers ==
  ASSUME RuntimeInv, installed # None, NEW u \in Universes, u \in DOMAIN Plans,
         NEW s \in core.plans[u].sources
  PROVE  Decoded(u, ChangedSources(core, core.plans[u], ChangedAddresses(u)))[s] \in Int
<1> DEFINE sources == ChangedSources(core, core.plans[u], ChangedAddresses(u))
<1>1. Decoded(u, sources)[s] = IF s \in sources \/ s \notin DOMAIN cache[u]
                               THEN ReadRaw(frame[u], core.programs[s]) ELSE cache[u][s]
  BY DEF Decoded
<1>2. s \in DOMAIN cache[u] /\ s \notin sources => cache[u][s] = Assembled(core.programs[s], Relevant(u))
  BY KeptIsCurrent
<1> HIDE DEF sources
<1>3. Decoded(u, sources)[s] = Assembled(core.programs[s], Relevant(u))
  BY <1>1, <1>2, DecodedIsCurrent
<1>4. \A a : ByteAt(frame[u], a) \in Int
  BY NumberAssumption DEF ByteAt, RuntimeInv
<1>5. AddressesOf(core.programs[s]) \subseteq core.plans[u].interest
  BY CorePlans DEF RuntimeInv, Plans, core, PlanFits, Addresses
<1>6. \A a \in AddressesOf(core.programs[s]) : Relevant(u)[a] \in Int
  BY <1>4, <1>5 DEF Relevant
<1>7. Assembled(core.programs[s], Relevant(u)) \in Int
  BY <1>6, AssembledNumber
<1> QED
  BY <1>3, <1>7 DEF sources

-----------------------------------------------------------------------------
(* Rotations and phases go on *)

LEMMA Elapsed ==
  ASSUME NEW x \in Int
  PROVE  Max({x, 0}) \in Int /\ Max({x - x, 0}) = 0
<1>1. \E y \in {x, 0} : \A z \in {x, 0} : y >= z
  OBVIOUS
<1>2. Max({x, 0}) \in {x, 0}
  BY <1>1 DEF Max
<1>3. x - x = 0
  OBVIOUS
<1>4. Max({0, 0}) \in {0, 0}
  BY DEF Max
<1> QED
  BY <1>2, <1>3, <1>4

LEMMA BetweenNumber ==
  ASSUME NEW low \in Int, NEW high \in Int, NEW part \in Int
  PROVE  Between(low, high, part) \in Int
<1>1. (high - low) * part \in Int
  OBVIOUS
<1> QED
  BY <1>1, NumberAssumption DEF Between

LEMMA MotionValueNumber ==
  ASSUME NEW programs, NEW b, NEW raw, MotionNumbers(b), raw[b.source] \in Int,
         programs[b.source].from \in Int, programs[b.source].to \in Int
  PROVE  MotionValue(programs, b, raw) \in Int
<1> DEFINE p == programs[b.source]
           part == IF p.to <= p.from THEN 0
                   ELSE Clamp(((raw[b.source] - p.from) * Unit) \div (p.to - p.from), 0, Unit)
<1>1. part \in Int
  <2>1. CASE p.to <= p.from
    BY <2>1
  <2>2. CASE p.to > p.from
    <3>1. PICK width \in Nat \ {0} : width = p.to - p.from
      BY <2>2
    <3>2. PICK amount \in Int : amount = (raw[b.source] - p.from) * Unit
      BY NumberAssumption
    <3>3. amount \div width \in Int
      OBVIOUS
    <3>4. part = Clamp(amount \div width, 0, Unit)
      BY <2>2, <3>1, <3>2
    <3> HIDE DEF part
    <3> QED
      BY <3>3, <3>4, NumberAssumption DEF Clamp
  <2> QED
    BY <2>1, <2>2
<1>2. MotionValue(programs, b, raw) = Between(b.pfrom, b.pto, part)
  BY DEF MotionValue
<1> HIDE DEF part
<1>3. b.pfrom \in Int /\ b.pto \in Int
  BY DEF MotionNumbers
<1>4. Between(b.pfrom, b.pto, part) \in Int
  BY <1>1, <1>3, BetweenNumber
<1> QED
  BY <1>2, <1>4

(* A rotation is made of numbers; a gobo that is only positioned stands     *)
(* where its position asks for, within Epsilon.                             *)
RotationFits(r) ==
  /\ DOMAIN r = DOMAIN NoRotation
  /\ r.phase \in Int /\ r.velocity \in Int /\ r.reference \in Int /\ r.posDegrees \in Int /\ r.rotateDps \in Int
  /\ r.mode = "indexed" => r.rotate = None /\ r.velocity = 0 /\ NearlyEqual(r.phase, r.posDegrees)

(* A shutter that is held was commanded.                                    *)
ShutterFits(h) ==
  h.revision \in Nat \ {0} /\ h.phase \in Int /\ h.reference \in Int /\ h.command.frequency \in Int

(* As RotationContinues and ShutterContinues, for a change at a time.       *)
RotationGoesOn(old, new, at) ==
  \/ RotationAt(old, at) = RotationAt(new, at)
  \/ new.pos # None /\ (new.pos # old.pos \/ new.posDegrees # old.posDegrees \/ new.mode # old.mode)
ShutterGoesOn(old, new, at) ==
  \/ new.command.function # old.command.function \/ new.command.wave # old.command.wave
  \/ /\ new.activation = old.activation
     /\ ShutterPhase(old, at) % Unit = ShutterPhase(new, at) % Unit

LEMMA NearlyEqualSelf == \A x \in Int : NearlyEqual(x, x)
BY NumberAssumption DEF NearlyEqual

LEMMA RotationAtNumber ==
  ASSUME NEW r, r.phase \in Int, r.velocity \in Int, r.reference \in Int, NEW at \in Int
  PROVE  RotationAt(r, at) \in Int /\ (r.reference = at => RotationAt(r, at) = r.phase)
<1>1. PICK e \in Int : e = Max({at - r.reference, 0})
  BY Elapsed
<1>2. RotationAt(r, at) = r.phase + (r.velocity * e)
  BY <1>1 DEF RotationAt
<1>3. r.velocity * e \in Int
  OBVIOUS
<1>4. r.reference = at => e = 0
  BY <1>1, Elapsed
<1>5. e = 0 => r.velocity * e = 0
  OBVIOUS
<1> QED
  BY <1>2, <1>3, <1>4, <1>5

(* A new position, a new speed, or neither: the rotation goes on, and fits. *)
LEMMA RotatedGoesOn ==
  ASSUME NEW programs, NEW pos, NEW rotate, NEW raw, NEW now0 \in Int, NEW old, RotationFits(old),
         pos # None => pos.id # None /\ MotionValue(programs, pos, raw) \in Int,
         rotate # None => MotionValue(programs, rotate, raw) \in Int
  PROVE  /\ RotationFits(Rotated(programs, pos, rotate, raw, old, now0))
         /\ RotationGoesOn(old, Rotated(programs, pos, rotate, raw, old, now0), now0)
<1> DEFINE degrees == MotionValue(programs, pos, raw)
           speed == MotionValue(programs, rotate, raw)
           posId == IF pos = None THEN None ELSE pos.id
           rotateId == IF rotate = None THEN None ELSE rotate.id
           posChanged == old.pos # posId \/ (pos # None /\ ~NearlyEqual(old.posDegrees, degrees))
           rotateChanged == old.rotate # rotateId \/ (rotate # None /\ ~NearlyEqual(old.rotateDps, speed))
           posDegrees == IF pos = None THEN old.posDegrees ELSE degrees
           rotateDps == IF rotate = None THEN old.rotateDps ELSE speed
           commands == [old EXCEPT !.pos = posId, !.rotate = rotateId,
                                   !.posDegrees = IF pos = None THEN @ ELSE degrees,
                                   !.rotateDps = IF rotate = None THEN @ ELSE speed]
           mode == IF rotate # None THEN "continuous" ELSE IF pos # None THEN "indexed" ELSE "hold"
           velocity == IF rotate = None THEN 0 ELSE speed
           phase == IF pos # None /\ (rotate = None \/ posChanged) THEN degrees ELSE RotationAt(old, now0)
           same == /\ old.mode = mode /\ ~posChanged /\ ~rotateChanged
                   /\ NearlyEqual(old.velocity, velocity)
                   /\ mode = "indexed" => NearlyEqual(old.phase, phase)
           turned == [commands EXCEPT !.mode = mode, !.phase = phase, !.velocity = velocity, !.reference = now0]
           new == Rotated(programs, pos, rotate, raw, old, now0)
<1>1. new = IF old.mode = None /\ pos = None /\ rotate = None THEN old ELSE IF same THEN commands ELSE turned
  BY DEF Rotated
<1>2. /\ DOMAIN commands = DOMAIN NoRotation
      /\ commands.mode = old.mode /\ commands.phase = old.phase
      /\ commands.velocity = old.velocity /\ commands.reference = old.reference
      /\ commands.pos = posId /\ commands.rotate = rotateId
      /\ commands.posDegrees = posDegrees /\ commands.rotateDps = rotateDps
  <2> HIDE DEF posId, rotateId, degrees, speed
  <2> QED
    BY DEF RotationFits, NoRotation
<1>3. /\ DOMAIN turned = DOMAIN NoRotation
      /\ turned.mode = mode /\ turned.phase = phase
      /\ turned.velocity = velocity /\ turned.reference = now0
      /\ turned.pos = posId /\ turned.rotate = rotateId
      /\ turned.posDegrees = posDegrees /\ turned.rotateDps = rotateDps
  <2> HIDE DEF posId, rotateId, degrees, speed, commands, mode, phase, velocity
  <2> QED
    BY <1>2 DEF RotationFits, NoRotation
<1>4. posDegrees \in Int /\ rotateDps \in Int /\ velocity \in Int /\ phase \in Int
  BY RotationAtNumber DEF RotationFits
<1>5. CASE new = old
  BY <1>5 DEF RotationGoesOn
<1>6. CASE new = commands /\ same
  <2>1. RotationAt(commands, now0) = RotationAt(old, now0)
    BY <1>2 DEF RotationAt
  <2>2. RotationGoesOn(old, commands, now0)
    BY <2>1 DEF RotationGoesOn
  <2>3. mode = "indexed" =>
          posDegrees = phase /\ rotateId = None /\ old.velocity = 0
    BY <1>6 DEF RotationFits
  <2>4. old.mode = "indexed" => rotateId = None /\ old.velocity = 0 /\ NearlyEqual(old.phase, posDegrees)
    BY <1>6, <2>3
  <2> HIDE DEF posId, rotateId, posDegrees, rotateDps, commands, same
  <2> QED
    BY <1>2, <1>4, <1>6, <2>2, <2>4 DEF RotationFits
<1>7. CASE new = turned /\ ~same
  <2>1. RotationFits(turned)
    <3>1. mode = "indexed" => rotateId = None /\ velocity = 0 /\ phase = posDegrees
      OBVIOUS
    <3>2. phase = posDegrees => NearlyEqual(phase, posDegrees)
      BY <1>4, NearlyEqualSelf
    <3> HIDE DEF posId, rotateId, posDegrees, rotateDps, turned, mode, phase, velocity
    <3> QED
      BY <1>3, <1>4, <3>1, <3>2 DEF RotationFits
  <2>2. RotationAt(turned, now0) = phase
    <3> HIDE DEF posId, rotateId, posDegrees, rotateDps, turned, mode, phase, velocity
    <3> QED
      BY <1>3, <1>4, RotationAtNumber
  <2>3. phase # RotationAt(old, now0) =>
          posId # None /\ (old.pos # posId \/ old.posDegrees # posDegrees \/ old.mode # mode)
    <3> SUFFICES ASSUME phase # RotationAt(old, now0)
                 PROVE  posId # None /\ (old.pos # posId \/ old.posDegrees # degrees \/ old.mode # mode)
      OBVIOUS
    <3>1. pos # None /\ (rotate = None \/ posChanged) /\ posId # None
      OBVIOUS
    <3>2. CASE posChanged
      <4>1. old.posDegrees = degrees => NearlyEqual(old.posDegrees, degrees)
        BY NearlyEqualSelf DEF RotationFits
      <4> QED
        BY <3>1, <3>2, <4>1
    <3>3. CASE ~posChanged
      <4> SUFFICES ASSUME old.mode = mode, old.posDegrees = degrees PROVE FALSE
        BY <3>1
      <4>1. rotate = None /\ mode = "indexed" /\ velocity = 0 /\ phase = degrees
        BY <3>1, <3>3
      <4>2. old.rotate = None /\ old.velocity = 0 /\ NearlyEqual(old.phase, degrees)
        BY <4>1 DEF RotationFits
      <4>3. ~rotateChanged
        BY <4>1, <4>2
      <4>4. NearlyEqual(old.velocity, velocity)
        BY <4>1, <4>2, NearlyEqualSelf
      <4> QED
        BY <1>7, <3>3, <4>1, <4>2, <4>3, <4>4
    <3> QED
      BY <3>2, <3>3
  <2>4. RotationGoesOn(old, turned, now0)
    <3> HIDE DEF posId, rotateId, posDegrees, rotateDps, turned, mode, phase, velocity
    <3> QED
      BY <1>3, <2>2, <2>3 DEF RotationGoesOn
  <2> HIDE DEF turned
  <2> QED
    BY <1>7, <2>1, <2>4
<1> HIDE DEF commands, turned, same, new
<1>8. new = old \/ (new = commands /\ same) \/ (new = turned /\ ~same)
  BY <1>1
<1> QED
  BY <1>5, <1>6, <1>7, <1>8 DEF new

(* The motions of a layer whose values are numbers.                         *)
MotionsReadable(c, bindings, raw) ==
  /\ DOMAIN bindings \subseteq Nat
  /\ \A i \in DOMAIN bindings : /\ MotionNumbers(bindings[i]) /\ raw[bindings[i].source] \in Int
                                /\ c.programs[bindings[i].source].from \in Int
                                /\ c.programs[bindings[i].source].to \in Int

LEMMA ActiveMotionValue ==
  ASSUME NEW c, NEW bindings, NEW raw, NEW kind, MotionsReadable(c, bindings, raw),
         ActiveMotion(c, bindings, kind, raw) # None
  PROVE  /\ ActiveMotion(c, bindings, kind, raw).id # None
         /\ MotionValue(c.programs, ActiveMotion(c, bindings, kind, raw), raw) \in Int
<1> DEFINE hits == {i \in DOMAIN bindings : bindings[i].kind = kind /\ Active(c.programs, bindings[i].chain, raw)}
<1>1. ActiveMotion(c, bindings, kind, raw) = IF hits = {} THEN None ELSE bindings[Min(hits)]
  BY DEF ActiveMotion, FirstOf
<1>2. hits \in SUBSET DOMAIN bindings
  OBVIOUS
<1> HIDE DEF hits
<1>3. PICK i \in DOMAIN bindings : ActiveMotion(c, bindings, kind, raw) = bindings[i]
  <2>1. DOMAIN bindings \subseteq Nat
    BY DEF MotionsReadable
  <2>2. (IF hits = {} THEN None ELSE bindings[Min(hits)]) \in {None} \cup {bindings[i] : i \in hits}
    BY <1>2, <2>1, FirstChosen
  <2> QED
    BY <1>1, <1>2, <2>2
<1>4. PICK b : b = bindings[i]
  OBVIOUS
<1>5. MotionNumbers(b) /\ raw[b.source] \in Int /\ c.programs[b.source].from \in Int /\ c.programs[b.source].to \in Int
  BY <1>3, <1>4 DEF MotionsReadable
<1>6. b.id # None
  BY <1>5, NoneAssumption DEF MotionNumbers
<1>7. MotionValue(c.programs, b, raw) \in Int
  BY <1>5, MotionValueNumber
<1> QED
  BY <1>3, <1>4, <1>6, <1>7

LEMMA NextRotationGoesOn ==
  ASSUME NEW c, NEW bindings, NEW raw, MotionsReadable(c, bindings, raw),
         NEW old, RotationFits(old), NEW now0 \in Int
  PROVE  /\ RotationFits(NextRotation(c, bindings, raw, old, now0))
         /\ RotationGoesOn(old, NextRotation(c, bindings, raw, old, now0), now0)
<1>1. PICK pos, rotate : /\ pos = ActiveMotion(c, bindings, "pos", raw)
                         /\ rotate = ActiveMotion(c, bindings, "rotate", raw)
  OBVIOUS
<1>2. pos # None => pos.id # None /\ MotionValue(c.programs, pos, raw) \in Int
  BY <1>1, ActiveMotionValue
<1>3. rotate # None => MotionValue(c.programs, rotate, raw) \in Int
  BY <1>1, ActiveMotionValue
<1>4. NextRotation(c, bindings, raw, old, now0) = Rotated(c.programs, pos, rotate, raw, old, now0)
  BY <1>1 DEF NextRotation
<1>5. PICK programs : programs = c.programs
  OBVIOUS
<1> QED
  BY <1>2, <1>3, <1>4, <1>5, RotatedGoesOn

(* The shutters of a layer whose values are numbers.                        *)
ShuttersReadable(bindings, raw) ==
  /\ \E n \in Nat : DOMAIN bindings \subseteq 1..n
  /\ \A i \in DOMAIN bindings : ShutterNumbers(bindings[i]) /\ raw[bindings[i].source] \in Int

LEMMA ShutterValueNumber ==
  ASSUME NEW b, NEW raw, ShutterNumbers(b), raw[b.source] \in Int
  PROVE  ShutterValue(b, raw) \in Int
<1> DEFINE part == IF b.to > b.from THEN ((raw[b.source] - b.from) * Unit) \div (b.to - b.from) ELSE 0
<1>1. part \in Int
  <2>1. CASE ~(b.to > b.from)
    BY <2>1
  <2>2. CASE b.to > b.from
    <3>1. PICK width \in Nat \ {0} : width = b.to - b.from
      BY <2>2 DEF ShutterNumbers
    <3>2. PICK amount \in Int : amount = (raw[b.source] - b.from) * Unit
      BY NumberAssumption DEF ShutterNumbers
    <3>3. amount \div width \in Int
      OBVIOUS
    <3> QED
      BY <2>2, <3>1, <3>2, <3>3
  <2> QED
    BY <2>1, <2>2
<1>2. ShutterValue(b, raw) = Between(b.pfrom, b.pto, part)
  BY DEF ShutterValue
<1> HIDE DEF part
<1>3. b.pfrom \in Int /\ b.pto \in Int
  BY DEF ShutterNumbers
<1>4. Between(b.pfrom, b.pto, part) \in Int
  BY <1>1, <1>3, BetweenNumber
<1> QED
  BY <1>2, <1>4

LEMMA CommandNumber ==
  ASSUME NEW c, NEW bindings, NEW raw, ShuttersReadable(bindings, raw)
  PROVE  CommandedShutter(c, bindings, raw).frequency \in Int
<1>1. \E waves, durations, ambiguous :
        /\ CommandedShutter(c, bindings, raw) = Commanded(ambiguous, Wanted(waves, durations, raw))
        /\ DOMAIN waves \subseteq DOMAIN bindings
        /\ \A i \in DOMAIN waves : waves[i] = bindings[i]
  <2> DEFINE active == Where(bindings, LAMBDA b : /\ Active(c.programs, b.chain, raw)
                                                  /\ Within(raw[b.source], b)
                                                  /\ ModeFits(b, raw))
             durations == Where(active, LAMBDA b : b.wave = "duration")
             waves == Where(active, LAMBDA b : b.wave # "duration")
             Several(s) == Cardinality(DOMAIN s) > 1
  <2>1. CommandedShutter(c, bindings, raw)
          = Commanded(Several(waves) \/ Several(durations), Wanted(waves, durations, raw))
    BY DEF CommandedShutter
  <2>2. DOMAIN active \subseteq DOMAIN bindings /\ \A i \in DOMAIN active : active[i] = bindings[i]
    BY DEF Where
  <2>3. DOMAIN waves \subseteq DOMAIN active /\ \A i \in DOMAIN waves : waves[i] = active[i]
    <3> HIDE DEF active
    <3> QED
      BY DEF Where
  <2> HIDE DEF waves, durations, active, Several
  <2> QED
    BY <2>1, <2>2, <2>3
<1>2. PICK waves, durations, ambiguous :
        /\ CommandedShutter(c, bindings, raw) = Commanded(ambiguous, Wanted(waves, durations, raw))
        /\ DOMAIN waves \subseteq DOMAIN bindings
        /\ \A i \in DOMAIN waves : waves[i] = bindings[i]
  BY <1>1
<1>3. Wanted(waves, durations, raw).frequency \in Int
  <2> DEFINE b == Latest(waves)
             frequency == IF Periodic(b.wave) THEN ShutterValue(b, raw) ELSE 0
             wanted == IF DOMAIN waves = {} THEN OpenShutter
                       ELSE [wave |-> b.wave, function |-> IF b.function # 0 THEN b.function ELSE b.source,
                             duration |-> b.duration, frequency |-> frequency]
  <2>1. Wanted(waves, durations, raw)
          = IF DOMAIN durations = {} THEN wanted
            ELSE [wanted EXCEPT !.duration = ShutterValue(Latest(durations), raw)]
    BY DEF Wanted
  <2>2. DOMAIN waves # {} => frequency \in Int
    <3> SUFFICES ASSUME DOMAIN waves # {} PROVE frequency \in Int
      OBVIOUS
    <3>1. PICK i \in DOMAIN bindings : b = bindings[i]
      <4>1. Max(DOMAIN waves) \in DOMAIN waves
        BY <1>2, LastPlace DEF ShuttersReadable
      <4> QED
        BY <1>2, <4>1 DEF Latest
    <3>2. PICK binding : binding = bindings[i]
      OBVIOUS
    <3>3. ShutterNumbers(binding) /\ raw[binding.source] \in Int
      BY <3>2 DEF ShuttersReadable
    <3>4. ShutterValue(binding, raw) \in Int
      BY <3>3, ShutterValueNumber
    <3> QED
      BY <3>1, <3>2, <3>4
  <2>3. wanted.frequency \in Int /\ {"duration", "frequency"} \subseteq DOMAIN wanted
    <3> HIDE DEF b, frequency
    <3> QED
      BY <2>2 DEF OpenShutter
  <2> HIDE DEF wanted
  <2>4. [wanted EXCEPT !.duration = ShutterValue(Latest(durations), raw)].frequency = wanted.frequency
    BY <2>3
  <2> QED
    BY <2>1, <2>3, <2>4
<1>4. PICK next : next = Wanted(waves, durations, raw)
  OBVIOUS
<1>5. [Unsupported EXCEPT !.function = next.function].frequency = 0
  BY DEF Unsupported, OpenShutter
<1>6. CommandedShutter(c, bindings, raw)
        = IF ambiguous \/ next.duration < 0 \/ (Periodic(next.wave) /\ next.frequency < 0)
          THEN [Unsupported EXCEPT !.function = next.function] ELSE next
  BY <1>2, <1>4 DEF Commanded
<1> QED
  BY <1>3, <1>4, <1>5, <1>6

LEMMA UnitModulo ==
  ASSUME NEW x \in Int
  PROVE  x % Unit \in Int /\ (x % Unit) % Unit = x % Unit
<1>1. PICK U \in Nat \ {0} : U = Unit
  BY NumberAssumption
<1>2. x % U \in 0..(U - 1)
  OBVIOUS
<1>3. \A y \in 0..(U - 1) : y % U = y
  OBVIOUS
<1> QED
  BY <1>1, <1>2, <1>3

LEMMA ShutterPhaseNumber ==
  ASSUME NEW h, h.phase \in Int, h.command.frequency \in Int, h.reference \in Int, NEW at \in Int
  PROVE  ShutterPhase(h, at) \in Int /\ (h.reference = at => ShutterPhase(h, at) = h.phase)
<1>1. PICK e \in Int : e = Max({at - h.reference, 0})
  BY Elapsed
<1>2. ShutterPhase(h, at) = h.phase + (h.command.frequency * e)
  BY <1>1 DEF ShutterPhase
<1>3. h.command.frequency * e \in Int
  OBVIOUS
<1>4. h.reference = at => e = 0
  BY <1>1, Elapsed
<1>5. e = 0 => h.command.frequency * e = 0
  OBVIOUS
<1> QED
  BY <1>2, <1>3, <1>4, <1>5

LEMMA ShutterUpdated ==
  ASSUME NEW old, old = NoShutter \/ ShutterFits(old),
         NEW command, command.frequency \in Int, NEW now0 \in Int
  PROVE  /\ ShutterFits(UpdateShutter(old, command, now0))
         /\ ShutterFits(old) => ShutterGoesOn(old, UpdateShutter(old, command, now0), now0)
<1> DEFINE continuing == /\ old.revision > 0
                         /\ old.command.function = command.function
                         /\ old.command.wave = command.wave
           activation == IF continuing THEN old.activation ELSE old.revision + 1
           phase == IF continuing THEN ShutterPhase(old, now0) % Unit ELSE 0
           fresh == [command |-> command, revision |-> old.revision + 1, activation |-> activation,
                     phase |-> phase, reference |-> now0]
<1>1. UpdateShutter(old, command, now0) = IF old.revision > 0 /\ old.command = command THEN old ELSE fresh
  BY DEF UpdateShutter
<1>2. old.revision \in Nat /\ old.phase \in Int /\ old.reference \in Int /\ old.command.frequency \in Int
  BY DEF NoShutter, OpenShutter, ShutterFits
<1>3. ShutterPhase(old, now0) \in Int
  BY <1>2, ShutterPhaseNumber
<1>4. phase \in Int
  BY <1>3, UnitModulo
<1>5. ShutterFits(fresh)
  <2> HIDE DEF activation, phase
  <2> QED
    BY <1>2, <1>4 DEF ShutterFits
<1>6. ShutterPhase(fresh, now0) = phase
  <2> HIDE DEF activation, phase
  <2>1. fresh.phase = phase /\ fresh.command.frequency \in Int /\ fresh.reference = now0
    OBVIOUS
  <2> HIDE DEF fresh
  <2> QED
    BY <1>4, <2>1, ShutterPhaseNumber
<1>7. ShutterFits(old) => ShutterGoesOn(old, fresh, now0)
  <2> SUFFICES ASSUME ShutterFits(old) PROVE ShutterGoesOn(old, fresh, now0)
    OBVIOUS
  <2>1. fresh.command = command /\ fresh.activation = activation
    OBVIOUS
  <2>2. CASE continuing
    <3>1. activation = old.activation /\ phase = ShutterPhase(old, now0) % Unit
      BY <2>2
    <3>2. phase % Unit = ShutterPhase(old, now0) % Unit
      BY <1>3, <3>1, UnitModulo
    <3> HIDE DEF fresh, activation, phase
    <3> QED
      BY <1>6, <2>1, <3>1, <3>2 DEF ShutterGoesOn
  <2>3. CASE ~continuing
    <3>1. old.revision > 0
      BY DEF ShutterFits
    <3>2. old.command.function # command.function \/ old.command.wave # command.wave
      BY <2>3, <3>1
    <3> HIDE DEF fresh
    <3> QED
      BY <2>1, <3>2 DEF ShutterGoesOn
  <2> QED
    BY <2>2, <2>3
<1>8. ShutterFits(old) => ShutterGoesOn(old, old, now0)
  BY DEF ShutterGoesOn
<1>9. old = NoShutter => old.revision = 0
  BY DEF NoShutter
<1> HIDE DEF fresh
<1> QED
  BY <1>1, <1>2, <1>5, <1>7, <1>8, <1>9

-----------------------------------------------------------------------------
(* What an update changes of the rotations and shutters that are held *)

(* What is held but some parts stays as it was.                             *)
Keeps(held0, held1, parts) ==
  /\ DOMAIN held1 = DOMAIN held0
  /\ \A part \in DOMAIN held0 \ parts : held1[part] = held0[part]

LEMMA ExceptKeeps ==
  ASSUME NEW h, NEW part, NEW x
  PROVE  Keeps(h, [h EXCEPT ![part] = x], {part})
BY DEF Keeps

LEMMA AdoptKeeps ==
  ASSUME NEW update, NEW domain, NEW next, NEW kept, NEW shown
  PROVE  Keeps(update.held, Adopt(update, domain, next, kept, shown).held, {domain})
<1>1. PICK h, x : h = update.held /\ x = Overlaid([k \in kept |-> next[k]], h[domain])
  OBVIOUS
<1>2. Adopt(update, domain, next, kept, shown).held = [h EXCEPT ![domain] = x]
  BY <1>1 DEF Adopt, Update
<1>3. Keeps(h, [h EXCEPT ![domain] = x], {domain})
  BY ExceptKeeps
<1> QED
  BY <1>1, <1>2, <1>3

(* Each domain changes its own parts only.                                  *)
LEMMA ShutterKeeps ==
  ASSUME NEW c, NEW dirty, NEW raw, NEW now0, NEW update
  PROVE  Keeps(update.held, ShutterDomain(c, dirty, raw, now0, update).held, {"shutter"})
BY AdoptKeeps DEF ShutterDomain, Shutters, AdoptRenewed

LEMMA GoboKeeps ==
  ASSUME NEW c, NEW u, NEW dirty, NEW raw, NEW update
  PROVE  Keeps(update.held, GoboDomain(c, u, dirty, raw, update).held, {"gobo"})
BY AdoptKeeps DEF GoboDomain, Gobos, AdoptRenewed

LEMMA MotionKeeps ==
  ASSUME NEW c, NEW u, NEW dirty, NEW raw, NEW now0, NEW update
  PROVE  Keeps(update.held, MotionDomain(c, u, dirty, raw, now0, update).held, {"motion"})
BY AdoptKeeps DEF MotionDomain, Motions

LEMMA PropertyKeeps ==
  ASSUME NEW c, NEW readings, NEW update
  PROVE  Keeps(update.held, PropertyDomain(c, readings, update).held, {"property"})
<1>1. PICK next : PropertyDomain(c, readings, update) = Properties(c, next, update)
  BY DEF PropertyDomain
<1>2. PICK h : h = update.held
  OBVIOUS
<1>3. PICK x : Properties(c, next, update).held = [h EXCEPT !["property"] = x]
  BY <1>2 DEF Properties, Update
<1>4. Keeps(h, [h EXCEPT !["property"] = x], {"property"})
  BY ExceptKeeps
<1> QED
  BY <1>1, <1>2, <1>3, <1>4

LEMMA ColorKeeps ==
  ASSUME NEW c, NEW dirty, NEW sources, NEW raw, NEW ready, NEW held0
  PROVE  Keeps(held0, ColorDomain(c, dirty, sources, raw, ready, held0).held, {"input", "base"})
<1>1. PICK next : ColorDomain(c, dirty, sources, raw, ready, held0) = Inputs(c, next, held0)
  BY DEF ColorDomain
<1>2. PICK changed : Inputs(c, next, held0) = Repaint(c, next, changed, held0)
  BY DEF Inputs
<1>3. PICK x, y : Repaint(c, next, changed, held0).held = [held0 EXCEPT !["input"] = x, !["base"] = y]
  BY DEF Repaint
<1>4. Keeps(held0, [held0 EXCEPT !["input"] = x, !["base"] = y], {"input", "base"})
  BY DEF Keeps
<1> QED
  BY <1>1, <1>2, <1>3, <1>4

LEMMA WheelKeeps ==
  ASSUME NEW c, NEW u, NEW dirty, NEW raw, NEW targets, NEW held0
  PROVE  Keeps(held0, WheelDomain(c, u, dirty, raw, targets, held0).held, {"wheel"})
<1>1. PICK next : WheelDomain(c, u, dirty, raw, targets, held0) = Wheels(next, targets, held0)
  BY DEF WheelDomain
<1>2. PICK x : Wheels(next, targets, held0).held = [held0 EXCEPT !["wheel"] = x]
  BY DEF Wheels
<1>3. Keeps(held0, [held0 EXCEPT !["wheel"] = x], {"wheel"})
  BY ExceptKeeps
<1> QED
  BY <1>1, <1>2, <1>3

LEMMA ComposeKeeps ==
  ASSUME NEW targets, NEW update
  PROVE  Keeps(update.held, ComposeTargets(targets, update).held, {"color"})
<1>1. PICK light : ComposeTargets(targets, update) = Lit(update, light)
  BY DEF ComposeTargets
<1>2. PICK h : h = update.held
  OBVIOUS
<1>3. PICK x : Lit(update, light).held = [h EXCEPT !["color"] = x]
  BY <1>2 DEF Lit, Update
<1>4. Keeps(h, [h EXCEPT !["color"] = x], {"color"})
  BY ExceptKeeps
<1> QED
  BY <1>1, <1>2, <1>3, <1>4

LEMMA ColorsAndWheelsKeep ==
  ASSUME NEW c, NEW u, NEW dirty, NEW sources, NEW raw, NEW ready, NEW update
  PROVE  Keeps(update.held, ColorsAndWheels(c, u, dirty, sources, raw, ready, update).held,
               {"input", "base", "wheel", "color"})
<1>1. PICK colors : colors = ColorDomain(c, dirty, sources, raw, ready, update.held)
  OBVIOUS
<1>2. PICK wheels : wheels = WheelDomain(c, u, dirty, raw, colors.targets, colors.held)
  OBVIOUS
<1>3. PICK layered : layered = Update(wheels.held, update.rows)
  OBVIOUS
<1>4. ColorsAndWheels(c, u, dirty, sources, raw, ready, update) = ComposeTargets(wheels.targets, layered)
  BY <1>1, <1>2, <1>3 DEF ColorsAndWheels, Coloured, Layered
<1>5. /\ Keeps(update.held, colors.held, {"input", "base"})
      /\ Keeps(colors.held, wheels.held, {"wheel"})
      /\ Keeps(wheels.held, ComposeTargets(wheels.targets, layered).held, {"color"})
  <2>1. layered.held = wheels.held
    BY <1>3 DEF Update
  <2> QED
    BY <1>1, <1>2, <2>1, ColorKeeps, WheelKeeps, ComposeKeeps
<1> QED
  BY <1>4, <1>5 DEF Keeps

LEMMA TransformKeeps ==
  ASSUME NEW c, NEW readings, NEW update
  PROVE  Keeps(update.held, TransformDomain(c, readings, update).held, {"transform"})
<1>1. \E next : TransformDomain(c, readings, update) = Transforms(update, next)
  BY DEF TransformDomain
<1> QED
  BY <1>1, AdoptKeeps DEF Transforms

(* A shutter that is held is the earlier one or its next one, and so is a   *)
(* rotation.                                                                *)
LEMMA ShutterDomainHeld ==
  ASSUME NEW c, NEW dirty, NEW raw, NEW now0, NEW update, DOMAIN update.held = DOMAIN NothingHeld,
         NEW after, after = ShutterDomain(c, dirty, raw, now0, update).held
  PROVE  /\ DOMAIN after = DOMAIN NothingHeld /\ after.motion = update.held.motion
         /\ \A l \in DOMAIN after.shutter :
              \/ l \in DOMAIN update.held.shutter /\ after.shutter[l] = update.held.shutter[l]
              \/ /\ l \in Keys(dirty, "shutter")
                 /\ after.shutter[l] = UpdateShutter(Held(update.held.shutter, l, NoShutter),
                                                     CommandedShutter(c, ShuttersOf(c, l), raw), now0)
<1>1. PICK h : h = update.held
  OBVIOUS
<1> DEFINE next == [l \in Keys(dirty, "shutter") |->
                      UpdateShutter(Held(h.shutter, l, NoShutter), CommandedShutter(c, ShuttersOf(c, l), raw), now0)]
           kept == Renewed(h.shutter, next, NoShutter)
<1>2. after = [h EXCEPT !["shutter"] = Overlaid([k \in kept |-> next[k]], h["shutter"])]
  BY <1>1, TabulatedIs DEF ShutterDomain, Shutters, AdoptRenewed, Adopt, Update
<1>3. kept \subseteq Keys(dirty, "shutter")
  BY DEF Renewed
<1> HIDE DEF kept
<1>4. PICK f : f = [k \in kept |-> next[k]]
  OBVIOUS
<1>5. DOMAIN f = kept /\ \A k \in kept : f[k] = next[k]
  BY <1>4
<1>6. \A k \in kept : next[k] = UpdateShutter(Held(h.shutter, k, NoShutter),
                                              CommandedShutter(c, ShuttersOf(c, k), raw), now0)
  BY <1>3
<1> HIDE DEF next
<1>7. PICK g, o : g = h.shutter /\ o = Overlaid(f, g)
  OBVIOUS
<1>8. o = [x \in DOMAIN f \cup DOMAIN g |-> IF x \in DOMAIN f THEN f[x] ELSE g[x]]
  BY <1>7, TabulatedIs DEF Overlaid
<1>9. DOMAIN h = DOMAIN NothingHeld /\ after = [h EXCEPT !["shutter"] = o]
  BY <1>1, <1>2, <1>4, <1>7
<1>10. DOMAIN after = DOMAIN NothingHeld /\ after.motion = h.motion /\ after.shutter = o
  BY <1>9 DEF NothingHeld
<1>11. \A l \in DOMAIN o : (l \in kept /\ o[l] = next[l]) \/ (l \in DOMAIN g /\ o[l] = g[l])
  BY <1>5, <1>8
<1> QED
  BY <1>1, <1>3, <1>6, <1>7, <1>10, <1>11

LEMMA MotionDomainHeld ==
  ASSUME NEW c, NEW u, NEW dirty, NEW raw, NEW now0, NEW update, DOMAIN update.held = DOMAIN NothingHeld,
         NEW after, after = MotionDomain(c, u, dirty, raw, now0, update).held
  PROVE  /\ DOMAIN after = DOMAIN NothingHeld /\ after.shutter = update.held.shutter
         /\ \A l \in DOMAIN after.motion :
              \/ l \in DOMAIN update.held.motion /\ after.motion[l] = update.held.motion[l]
              \/ /\ l \in Keys(dirty, "motion")
                 /\ after.motion[l] = NextRotation(c, MotionsOf(c, u, l), raw,
                                                   Held(update.held.motion, l, NoRotation), now0)
<1>1. PICK h : h = update.held
  OBVIOUS
<1> DEFINE next == [l \in Keys(dirty, "motion") |->
                      NextRotation(c, MotionsOf(c, u, l), raw, Held(h.motion, l, NoRotation), now0)]
           kept == Renewed(h.motion, next, NoRotation)
<1>2. after = [h EXCEPT !["motion"] = Overlaid([k \in kept |-> next[k]], h["motion"])]
  BY <1>1, TabulatedIs DEF MotionDomain, Motions, Adopt, Update
<1>3. kept \subseteq Keys(dirty, "motion")
  BY DEF Renewed
<1> HIDE DEF kept
<1>4. PICK f : f = [k \in kept |-> next[k]]
  OBVIOUS
<1>5. DOMAIN f = kept /\ \A k \in kept : f[k] = next[k]
  BY <1>4
<1>6. \A k \in kept : next[k] = NextRotation(c, MotionsOf(c, u, k), raw, Held(h.motion, k, NoRotation), now0)
  BY <1>3
<1> HIDE DEF next
<1>7. PICK g, o : g = h.motion /\ o = Overlaid(f, g)
  OBVIOUS
<1>8. o = [x \in DOMAIN f \cup DOMAIN g |-> IF x \in DOMAIN f THEN f[x] ELSE g[x]]
  BY <1>7, TabulatedIs DEF Overlaid
<1>9. DOMAIN h = DOMAIN NothingHeld /\ after = [h EXCEPT !["motion"] = o]
  BY <1>1, <1>2, <1>4, <1>7
<1>10. DOMAIN after = DOMAIN NothingHeld /\ after.shutter = h.shutter /\ after.motion = o
  BY <1>9 DEF NothingHeld
<1>11. \A l \in DOMAIN o : (l \in kept /\ o[l] = next[l]) \/ (l \in DOMAIN g /\ o[l] = g[l])
  BY <1>5, <1>8
<1> QED
  BY <1>1, <1>3, <1>6, <1>7, <1>10, <1>11

(* What the runtime holds of time is made of numbers, and every entry of it *)
(* fits.                                                                    *)
HeldInv ==
  /\ now \in Nat
  /\ DOMAIN held = DOMAIN NothingHeld
  /\ \A l \in DOMAIN held.motion : RotationFits(held.motion[l])
  /\ \A l \in DOMAIN held.shutter : ShutterFits(held.shutter[l])

(* What is held before and after a step belongs together.                   *)
HeldGoesOn ==
  /\ \A l \in DOMAIN held.motion \cap DOMAIN held'.motion : RotationContinues(l)
  /\ \A l \in DOMAIN held.shutter \cap DOMAIN held'.shutter : ShutterContinues(l)

LEMMA MotionsAreReadable ==
  ASSUME NEW s \in DOMAIN Scenes, NEW u \in DOMAIN Cores[s].plans,
         NEW dirty \in SUBSET Cores[s].plans[u].consumers, NEW raw,
         \A x \in Cores[s].plans[u].sources : raw[x] \in Int,
         NEW l \in Keys(dirty, "motion")
  PROVE  MotionsReadable(Cores[s], MotionsOf(Cores[s], u, l), raw)
<1> DEFINE bindings == MotionsOf(Cores[s], u, l)
<1>1. \A i \in DOMAIN bindings : i \in DOMAIN Cores[s].motions /\ bindings[i] = Cores[s].motions[i]
  BY DEF MotionsOf, Where
<1> HIDE DEF bindings
<1>2. ASSUME NEW i \in DOMAIN bindings
      PROVE  /\ i \in Nat /\ MotionNumbers(bindings[i]) /\ raw[bindings[i].source] \in Int
             /\ Cores[s].programs[bindings[i].source].from \in Int
             /\ Cores[s].programs[bindings[i].source].to \in Int
  <2>1. PICK b : b = bindings[i]
    OBVIOUS
  <2>2. MotionNumbers(b) /\ b.source \in DOMAIN Cores[s].programs
    BY <1>1, <2>1, MotionsInstalled
  <2>3. i \in Nat
    BY <1>1, MotionsInstalled
  <2>4. b.source \in Sources(bindings)
    BY <2>1 DEF Sources, Range
  <2>5. raw[b.source] \in Int
    BY <2>4, LayerSources DEF bindings
  <2>6. Cores[s].programs[b.source].from \in Int /\ Cores[s].programs[b.source].to \in Int
    BY <2>2, CoreIs, ProgramNumbers
  <2> QED
    BY <2>1, <2>2, <2>3, <2>5, <2>6
<1> QED
  BY <1>2 DEF MotionsReadable, bindings

LEMMA ShuttersAreReadable ==
  ASSUME NEW s \in DOMAIN Scenes, NEW u \in DOMAIN Cores[s].plans,
         NEW dirty \in SUBSET Cores[s].plans[u].consumers, NEW raw,
         \A x \in Cores[s].plans[u].sources : raw[x] \in Int,
         NEW l \in Keys(dirty, "shutter")
  PROVE  ShuttersReadable(ShuttersOf(Cores[s], l), raw)
<1> DEFINE bindings == ShuttersOf(Cores[s], l)
<1>1. \A i \in DOMAIN bindings : i \in DOMAIN Cores[s].shutters /\ bindings[i] = Cores[s].shutters[i]
  BY DEF ShuttersOf, Where
<1> HIDE DEF bindings
<1>2. ASSUME NEW i \in DOMAIN bindings
      PROVE  ShutterNumbers(bindings[i]) /\ raw[bindings[i].source] \in Int
  <2>1. PICK b : b = bindings[i]
    OBVIOUS
  <2>2. ShutterNumbers(b)
    BY <1>1, <2>1, ShuttersInstalled
  <2>3. b.source \in Sources(bindings)
    BY <2>1 DEF Sources, Range
  <2>4. raw[b.source] \in Int
    BY <2>3, LayerSources DEF bindings
  <2> QED
    BY <2>1, <2>2, <2>4
<1>3. DOMAIN bindings \subseteq 1..Len(Scenes[s].shutters)
  BY <1>1, ShuttersInstalled
<1>4. Len(Scenes[s].shutters) \in Nat
  BY ScenesAssumption, LenProperties
<1> QED
  BY <1>2, <1>3, <1>4 DEF ShuttersReadable, bindings

(* An update of a universe.                                                 *)
LEMMA UpdateGoesOn ==
  ASSUME NEW s \in DOMAIN Scenes, NEW u \in DOMAIN Cores[s].plans,
         NEW dirty \in SUBSET Cores[s].plans[u].consumers, NEW raw,
         \A x \in Cores[s].plans[u].sources : raw[x] \in Int,
         NEW sources, NEW ready, NEW rows0, HeldInv,
         NEW after,
         after = UpdateUniverse(Cores[s], u, dirty, sources, raw, ready, now, Update(held, rows0)).held
  PROVE  /\ DOMAIN after = DOMAIN NothingHeld
         /\ \A l \in DOMAIN after.motion : RotationFits(after.motion[l])
         /\ \A l \in DOMAIN after.motion \cap DOMAIN held.motion :
              RotationGoesOn(held.motion[l], after.motion[l], now)
         /\ \A l \in DOMAIN after.shutter : ShutterFits(after.shutter[l])
         /\ \A l \in DOMAIN after.shutter \cap DOMAIN held.shutter :
              ShutterGoesOn(held.shutter[l], after.shutter[l], now)
<1>1. PICK c, start, readings, shutters, gobos, motions, properties, colors :
        /\ c = Cores[s] /\ start = Update(held, rows0) /\ readings = Readings(c, dirty, raw)
        /\ shutters = ShutterDomain(c, dirty, raw, now, start)
        /\ gobos = GoboDomain(c, u, dirty, raw, shutters)
        /\ motions = MotionDomain(c, u, dirty, raw, now, gobos)
        /\ properties = PropertyDomain(c, readings, motions)
        /\ colors = ColorsAndWheels(c, u, dirty, sources, raw, ready, properties)
  OBVIOUS
<1>2. after = TransformDomain(c, readings, colors).held
  BY <1>1 DEF UpdateUniverse
<1>3. start.held = held /\ DOMAIN held = DOMAIN NothingHeld
  BY <1>1 DEF Update, HeldInv
<1>4. /\ DOMAIN shutters.held = DOMAIN NothingHeld /\ shutters.held.motion = held.motion
      /\ \A l \in DOMAIN shutters.held.shutter :
           \/ l \in DOMAIN held.shutter /\ shutters.held.shutter[l] = held.shutter[l]
           \/ /\ l \in Keys(dirty, "shutter")
              /\ shutters.held.shutter[l] = UpdateShutter(Held(held.shutter, l, NoShutter),
                                                          CommandedShutter(c, ShuttersOf(c, l), raw), now)
  BY <1>1, <1>3, ShutterDomainHeld
<1>5. {"motion", "shutter"} \subseteq DOMAIN NothingHeld
  BY DEF NothingHeld
<1>6. /\ DOMAIN gobos.held = DOMAIN NothingHeld /\ gobos.held.motion = held.motion
      /\ gobos.held.shutter = shutters.held.shutter
  BY <1>1, <1>4, <1>5, GoboKeeps DEF Keeps
<1>7. /\ DOMAIN motions.held = DOMAIN NothingHeld /\ motions.held.shutter = gobos.held.shutter
      /\ \A l \in DOMAIN motions.held.motion :
           \/ l \in DOMAIN held.motion /\ motions.held.motion[l] = held.motion[l]
           \/ /\ l \in Keys(dirty, "motion")
              /\ motions.held.motion[l] = NextRotation(c, MotionsOf(c, u, l), raw,
                                                       Held(held.motion, l, NoRotation), now)
  <2>1. DOMAIN gobos.held = DOMAIN NothingHeld
    BY <1>6
  <2> QED
    BY <1>1, <1>6, <2>1, MotionDomainHeld
<1>8. /\ Keeps(motions.held, properties.held, {"property"})
      /\ Keeps(properties.held, colors.held, {"input", "base", "wheel", "color"})
      /\ Keeps(colors.held, after, {"transform"})
  BY <1>1, <1>2, PropertyKeeps, ColorsAndWheelsKeep, TransformKeeps
<1>9. /\ DOMAIN after = DOMAIN NothingHeld
      /\ after.motion = motions.held.motion /\ after.shutter = shutters.held.shutter
  BY <1>5, <1>6, <1>7, <1>8 DEF Keeps
<1>10. ASSUME NEW l \in DOMAIN after.motion
       PROVE  /\ RotationFits(after.motion[l])
              /\ l \in DOMAIN held.motion => RotationGoesOn(held.motion[l], after.motion[l], now)
  <2>1. CASE l \in DOMAIN held.motion /\ after.motion[l] = held.motion[l]
    BY <2>1 DEF HeldInv, RotationGoesOn
  <2>2. CASE /\ l \in Keys(dirty, "motion")
             /\ after.motion[l] = NextRotation(c, MotionsOf(c, u, l), raw, Held(held.motion, l, NoRotation), now)
    <3>1. PICK old : old = Held(held.motion, l, NoRotation)
      OBVIOUS
    <3>2. RotationFits(NoRotation)
      BY NearlyEqualSelf DEF RotationFits, NoRotation
    <3>3. RotationFits(old) /\ (l \in DOMAIN held.motion => old = held.motion[l])
      BY <3>1, <3>2 DEF Held, HeldInv
    <3>4. MotionsReadable(c, MotionsOf(c, u, l), raw)
      BY <1>1, <2>2, MotionsAreReadable
    <3>5. now \in Int
      BY DEF HeldInv
    <3>6. PICK bindings : bindings = MotionsOf(c, u, l)
      OBVIOUS
    <3>7. /\ RotationFits(NextRotation(c, bindings, raw, old, now))
          /\ RotationGoesOn(old, NextRotation(c, bindings, raw, old, now), now)
      BY <3>3, <3>4, <3>5, <3>6, NextRotationGoesOn
    <3> QED
      BY <2>2, <3>1, <3>3, <3>6, <3>7
  <2> QED
    BY <1>7, <1>9, <2>1, <2>2
<1>11. ASSUME NEW l \in DOMAIN after.shutter
       PROVE  /\ ShutterFits(after.shutter[l])
              /\ l \in DOMAIN held.shutter => ShutterGoesOn(held.shutter[l], after.shutter[l], now)
  <2>1. CASE l \in DOMAIN held.shutter /\ after.shutter[l] = held.shutter[l]
    BY <2>1 DEF HeldInv, ShutterGoesOn
  <2>2. CASE /\ l \in Keys(dirty, "shutter")
             /\ after.shutter[l] = UpdateShutter(Held(held.shutter, l, NoShutter),
                                                 CommandedShutter(c, ShuttersOf(c, l), raw), now)
    <3>1. PICK old, command : /\ old = Held(held.shutter, l, NoShutter)
                              /\ command = CommandedShutter(c, ShuttersOf(c, l), raw)
      OBVIOUS
    <3>2. /\ old = NoShutter \/ ShutterFits(old)
          /\ l \in DOMAIN held.shutter => old = held.shutter[l] /\ ShutterFits(old)
      BY <3>1 DEF Held, HeldInv
    <3>3. ShuttersReadable(ShuttersOf(c, l), raw)
      BY <1>1, <2>2, ShuttersAreReadable
    <3>4. command.frequency \in Int
      BY <3>1, <3>3, CommandNumber
    <3>5. now \in Int
      BY DEF HeldInv
    <3>6. /\ ShutterFits(UpdateShutter(old, command, now))
          /\ ShutterFits(old) => ShutterGoesOn(old, UpdateShutter(old, command, now), now)
      BY <3>2, <3>4, <3>5, ShutterUpdated
    <3> QED
      BY <2>2, <3>1, <3>2, <3>6
  <2> QED
    BY <1>4, <1>9, <2>1, <2>2
<1> QED
  BY <1>9, <1>10, <1>11

(* A step that keeps what is held goes on, whatever the clock does.         *)
LEMMA KeptGoesOn ==
  ASSUME HeldInv, now' \in Nat, held' = held
  PROVE  HeldInv' /\ HeldGoesOn
BY DEF HeldInv, HeldGoesOn, RotationContinues, ShutterContinues

LEMMA ConsumeGoesOn ==
  ASSUME RuntimeInv, HeldInv, NEW u \in Universes, ConsumeUniverse(u)
  PROVE  HeldInv' /\ HeldGoesOn
<1>1. now' = now /\ now \in Nat
  BY DEF ConsumeUniverse, HeldInv
<1>2. CASE ChangedAddresses(u) = {}
  <2>1. held' = held
    BY <1>2 DEF ConsumeUniverse
  <2> QED
    BY <1>1, <2>1, KeptGoesOn
<1>3. CASE ChangedAddresses(u) # {}
  <2>1. installed \in DOMAIN Scenes /\ installed # None /\ u \in DOMAIN Plans
    BY DEF ConsumeUniverse, RuntimeInv, Idle
  <2>2. u \in DOMAIN Cores[installed].plans /\ core = Cores[installed]
    BY <2>1 DEF Plans, core
  <2> DEFINE plan == core.plans[u]
             changed == ChangedSources(core, plan, ChangedAddresses(u))
             reached == DirtyConsumers(plan, changed)
             values == Tabulated(Decoded(u, changed))
  <2>3. held' = UpdateUniverse(core, u, reached, changed, values, prepared, now, Update(held, visual)).held
    BY <1>3 DEF ConsumeUniverse, Process, Updated, Evaluated, Adopted
  <2>4. reached \in SUBSET plan.consumers
    BY DEF DirtyConsumers
  <2>5. \A x \in plan.sources : values[x] \in Int
    BY <2>1, RawNumbers, TabulatedIs
  <2>6. PICK dirty, sources, raw : dirty = reached /\ sources = changed /\ raw = values
    OBVIOUS
  <2> HIDE DEF reached, changed, values
  <2>7. /\ DOMAIN held' = DOMAIN NothingHeld
        /\ \A l \in DOMAIN held'.motion : RotationFits(held'.motion[l])
        /\ \A l \in DOMAIN held'.motion \cap DOMAIN held.motion :
             RotationGoesOn(held.motion[l], held'.motion[l], now)
        /\ \A l \in DOMAIN held'.shutter : ShutterFits(held'.shutter[l])
        /\ \A l \in DOMAIN held'.shutter \cap DOMAIN held.shutter :
             ShutterGoesOn(held.shutter[l], held'.shutter[l], now)
    <3>1. dirty \in SUBSET Cores[installed].plans[u].consumers
      BY <2>2, <2>4, <2>6
    <3>2. \A x \in Cores[installed].plans[u].sources : raw[x] \in Int
      BY <2>2, <2>5, <2>6
    <3>3. held' = UpdateUniverse(Cores[installed], u, dirty, sources, raw, prepared, now, Update(held, visual)).held
      BY <2>2, <2>3, <2>6
    <3> QED
      BY <2>1, <2>2, <3>1, <3>2, <3>3, UpdateGoesOn
  <2>8. HeldInv'
    BY <1>1, <2>7 DEF HeldInv
  <2>9. HeldGoesOn
    BY <1>1, <2>7 DEF HeldGoesOn, RotationContinues, ShutterContinues, RotationGoesOn, ShutterGoesOn
  <2> QED
    BY <2>8, <2>9
<1> QED
  BY <1>2, <1>3

(* A scene that is installed or cleared holds nothing.                      *)
LEMMA ClearedGoesOn ==
  ASSUME Cleared
  PROVE  HeldInv' /\ HeldGoesOn
<1>1. held' = NothingHeld /\ now' = 0
  BY DEF Cleared
<1>2. DOMAIN NothingHeld.motion = {} /\ DOMAIN NothingHeld.shutter = {}
  BY DEF NothingHeld
<1> QED
  BY <1>1, <1>2 DEF HeldInv, HeldGoesOn

LEMMA HeldNext == RuntimeInv /\ HeldInv /\ [Next]_vars => HeldInv' /\ HeldGoesOn
<1> SUFFICES ASSUME RuntimeInv, HeldInv, [CoreNext]_coreVars PROVE HeldInv' /\ HeldGoesOn
  BY CoreSteps
<1>1. CASE (\E s \in DOMAIN Scenes : Install(s)) \/ Clear
  BY <1>1, ClearedGoesOn DEF Install, Clear
<1>2. CASE \E u \in Universes : ConsumeUniverse(u)
  BY <1>2, ConsumeGoesOn
<1>3. CASE \/ \E u \in Universes : \E bytes \in Frames[u] : Submit(u, bytes)
           \/ BeginConsume
           \/ EndConsume
           \/ Tick
           \/ UNCHANGED coreVars
  <2>1. held' = held /\ now' \in Nat
    BY <1>3 DEF Submit, BeginConsume, EndConsume, Tick, coreVars, HeldInv
  <2> QED
    BY <2>1, KeptGoesOn
<1> QED
  BY <1>1, <1>2, <1>3 DEF CoreNext

LEMMA InitHeldInv == Init => HeldInv
BY DEF Init, RuntimeInit, HeldInv, NothingHeld

(* Rotations and shutters are held as numbers, and a gobo that is only      *)
(* positioned stands within Epsilon of its position.                        *)
THEOREM HeldInvariant == Spec => []HeldInv
<1> QED
  BY InitHeldInv, HeldNext, RuntimeInvariant, PTL DEF Spec

(* No jump: a gobo keeps its angle when its speed changes, unless its       *)
(* position was changed, and a strobe keeps its phase when its rate         *)
(* changes, whenever the frames arrive and the clock ticks (Rotated,        *)
(* update_shutter).                                                         *)
THEOREM PhaseAlwaysContinues == Spec => PhaseContinuity
<1>1. RuntimeInv /\ HeldInv /\ [Next]_vars =>
        [/\ \A l \in DOMAIN held.motion \cap DOMAIN held'.motion : RotationContinues(l)
         /\ \A l \in DOMAIN held.shutter \cap DOMAIN held'.shutter : ShutterContinues(l)]_vars
  BY HeldNext DEF HeldGoesOn
<1> QED
  BY <1>1, RuntimeInvariant, HeldInvariant, PTL DEF Spec, PhaseContinuity

-----------------------------------------------------------------------------
(* Evaluating more than what changed *)

(* Laying more over a table is the same where the rest is in it already.    *)
LEMMA OverlaidMore ==
  ASSUME NEW f, NEW g, NEW base, DOMAIN f \subseteq DOMAIN g,
         \A x \in DOMAIN f : g[x] = f[x],
         \A x \in DOMAIN g \ DOMAIN f : x \in DOMAIN base /\ g[x] = base[x]
  PROVE  Overlaid(g, base) = Overlaid(f, base)
<1>1. Overlaid(f, base) = [x \in DOMAIN f \cup DOMAIN base |-> IF x \in DOMAIN f THEN f[x] ELSE base[x]]
  BY TabulatedIs DEF Overlaid
<1>2. Overlaid(g, base) = [x \in DOMAIN g \cup DOMAIN base |-> IF x \in DOMAIN g THEN g[x] ELSE base[x]]
  BY TabulatedIs DEF Overlaid
<1>3. DOMAIN f \cup DOMAIN base = DOMAIN g \cup DOMAIN base
  OBVIOUS
<1>4. \A x \in DOMAIN g \cup DOMAIN base :
        (IF x \in DOMAIN f THEN f[x] ELSE base[x]) = (IF x \in DOMAIN g THEN g[x] ELSE base[x])
  OBVIOUS
<1> QED
  BY <1>1, <1>2, <1>3, <1>4

(* next extends the table some: what it adds is Held already.               *)
Extends(next, some) == DOMAIN some \subseteq DOMAIN next /\ \A x \in DOMAIN some : next[x] = some[x]

LEMMA AdoptSame ==
  ASSUME NEW update, NEW domain, NEW some, NEW next, NEW kept, NEW shown, Extends(next, some),
         kept \subseteq DOMAIN some, shown \subseteq DOMAIN some
  PROVE  Adopt(update, domain, next, kept, shown) = Adopt(update, domain, some, kept, shown)
<1>1. [k \in kept |-> next[k]] = [k \in kept |-> some[k]]
  BY DEF Extends
<1>2. [k \in {<<domain, l>> : l \in shown} |-> next[k[2]]] = [k \in {<<domain, l>> : l \in shown} |-> some[k[2]]]
  BY DEF Extends
<1>3. PICK f, r : f = [k \in kept |-> some[k]] /\ r = [k \in {<<domain, l>> : l \in shown} |-> some[k[2]]]
  OBVIOUS
<1> QED
  BY <1>1, <1>2, <1>3 DEF Adopt

LEMMA AdoptRenewedSame ==
  ASSUME NEW update, NEW domain, NEW some, NEW next, NEW part, NEW default, Extends(next, some),
         \A k \in DOMAIN next \ DOMAIN some : next[k] = Held(part, k, default)
  PROVE  /\ Renewed(part, next, default) = Renewed(part, some, default)
         /\ AdoptRenewed(update, domain, next, Renewed(part, next, default))
              = AdoptRenewed(update, domain, some, Renewed(part, some, default))
<1>1. Renewed(part, next, default) = Renewed(part, some, default)
  BY DEF Renewed, Extends
<1>2. Renewed(part, some, default) \subseteq DOMAIN some
  BY DEF Renewed
<1> QED
  BY <1>1, <1>2, AdoptSame DEF AdoptRenewed

-----------------------------------------------------------------------------
(* What rests *)

(* A key of a domain rests when another evaluation with these values would  *)
(* leave what is held of it as it is.                                       *)
ShutterRests(c, l, raw, part) ==
  /\ Held(part, l, NoShutter).revision > 0
  /\ Held(part, l, NoShutter).command = CommandedShutter(c, ShuttersOf(c, l), raw)
GoboRests(c, u, l, raw, part) == SelectedGobo(c, GobosOf(c, u, l), raw) \in {None, Held(part, l, None)}
MotionRests(c, u, l, raw, part) ==
  \A at \in Nat :
    NextRotation(c, MotionsOf(c, u, l), raw, Held(part, l, NoRotation), at) = Held(part, l, NoRotation)
AngleRests(p, reading, part) ==
  reading.valid =>
    /\ p.parameter = "pan" => p.fixture \in DOMAIN part /\ part[p.fixture].pan = reading.physical
    /\ p.parameter = "tilt" => p.fixture \in DOMAIN part /\ part[p.fixture].tilt = reading.physical
ValueRests(p, reading, part) ==
  reading.valid =>
    /\ p.parameter = "dimmer" => p.id \in DOMAIN part /\ part[p.id] = reading.normalized
    /\ p.parameter = "zoom" => p.id \in DOMAIN part /\ part[p.id] = reading.physical
InputRests(c, i, j, raw, part) ==
  LET input == c.colors[i].inputs[j]
  IN <<i, j>> \in DOMAIN part /\ part[<<i, j>>] = ColorValue(c.programs[input.source], input.semantic, raw[input.source])
ColorsRest(c, all, dirty, sources, raw, part) ==
  \A i \in Keys(all, "color") : \A j \in DOMAIN c.colors[i].inputs :
    \/ i \in Keys(dirty, "color") /\ c.colors[i].inputs[j].source \in sources
    \/ InputRests(c, i, j, raw, part)
WheelRests(c, u, k, raw, part) ==
  NextWheel(c, Held(part, k, None), ActiveWheel(c.programs, WheelsOf(c, u, k), raw), raw) = Held(part, k, None)

-----------------------------------------------------------------------------
(* Domain by domain: some of its keys are evaluated, all of them, and the   *)
(* others rest.                                                             *)
LEMMA KeysOf ==
  ASSUME NEW all, NEW dirty \in SUBSET all, NEW domain
  PROVE  Keys(dirty, domain) \subseteq Keys(all, domain)
BY DEF Keys

LEMMA ShutterSame ==
  ASSUME NEW c, NEW all, NEW dirty \in SUBSET all, NEW raw, NEW now0, NEW update,
         \A l \in Keys(all, "shutter") \ Keys(dirty, "shutter") : ShutterRests(c, l, raw, update.held.shutter)
  PROVE  ShutterDomain(c, all, raw, now0, update) = ShutterDomain(c, dirty, raw, now0, update)
<1> DEFINE Next1(D) == [l \in Keys(D, "shutter") |-> UpdateShutter(Held(update.held.shutter, l, NoShutter),
                                                             CommandedShutter(c, ShuttersOf(c, l), raw), now0)]
<1>1. \A D : ShutterDomain(c, D, raw, now0, update) = Shutters(update, Next1(D))
  BY TabulatedIs DEF ShutterDomain
<1>2. Extends(Next1(all), Next1(dirty))
  BY KeysOf DEF Extends
<1>3. ASSUME NEW l \in Keys(all, "shutter") \ Keys(dirty, "shutter")
      PROVE  Next1(all)[l] = Held(update.held.shutter, l, NoShutter)
  <2>1. PICK own, command : /\ own = Held(update.held.shutter, l, NoShutter)
                            /\ command = CommandedShutter(c, ShuttersOf(c, l), raw)
    OBVIOUS
  <2>2. own.revision > 0 /\ own.command = command
    BY <1>3, <2>1 DEF ShutterRests
  <2>3. Next1(all)[l] = UpdateShutter(own, command, now0)
    BY <1>3, <2>1
  <2> HIDE DEF Next1
  <2> QED
    BY <2>1, <2>2, <2>3 DEF UpdateShutter
<1>4. DOMAIN Next1(all) = Keys(all, "shutter") /\ DOMAIN Next1(dirty) = Keys(dirty, "shutter")
  OBVIOUS
<1> HIDE DEF Next1
<1>5. PICK some, next : some = Next1(dirty) /\ next = Next1(all)
  OBVIOUS
<1>6. Shutters(update, next) = Shutters(update, some)
  BY <1>2, <1>3, <1>4, <1>5, AdoptRenewedSame DEF Shutters
<1> QED
  BY <1>1, <1>5, <1>6

LEMMA GoboSame ==
  ASSUME NEW c, NEW u, NEW all, NEW dirty \in SUBSET all, NEW raw, NEW update,
         \A l \in Keys(all, "gobo") \ Keys(dirty, "gobo") : GoboRests(c, u, l, raw, update.held.gobo)
  PROVE  GoboDomain(c, u, all, raw, update) = GoboDomain(c, u, dirty, raw, update)
<1> DEFINE Next1(D) == [l \in Keys(D, "gobo") |-> SelectedGobo(c, GobosOf(c, u, l), raw)]
<1>1. \A D : GoboDomain(c, u, D, raw, update) = Gobos(update, Next1(D))
  BY TabulatedIs DEF GoboDomain
<1>2. Extends(Next1(all), Next1(dirty))
  BY KeysOf DEF Extends
<1>3. \A l \in Keys(all, "gobo") \ Keys(dirty, "gobo") : Next1(all)[l] \in {None, Held(update.held.gobo, l, None)}
  BY DEF GoboRests
<1>4. DOMAIN Next1(all) = Keys(all, "gobo") /\ DOMAIN Next1(dirty) = Keys(dirty, "gobo")
  OBVIOUS
<1> HIDE DEF Next1
<1>5. PICK some, next, part : some = Next1(dirty) /\ next = Next1(all) /\ part = update.held.gobo
  OBVIOUS
<1>6. PICK renewed : renewed = {l \in Renewed(part, next, None) : next[l] # None}
  OBVIOUS
<1>7. renewed = {l \in Renewed(part, some, None) : some[l] # None} /\ renewed \subseteq DOMAIN some
  BY <1>2, <1>3, <1>4, <1>5, <1>6 DEF Renewed, Extends
<1>8. AdoptRenewed(update, "gobo", next, renewed) = AdoptRenewed(update, "gobo", some, renewed)
  BY <1>2, <1>5, <1>7, AdoptSame DEF AdoptRenewed
<1> QED
  BY <1>1, <1>5, <1>6, <1>7, <1>8 DEF Gobos

LEMMA MotionSame ==
  ASSUME NEW c, NEW u, NEW all, NEW dirty \in SUBSET all, NEW raw, NEW now0 \in Nat, NEW update,
         \A l \in Keys(all, "motion") \ Keys(dirty, "motion") : MotionRests(c, u, l, raw, update.held.motion)
  PROVE  MotionDomain(c, u, all, raw, now0, update) = MotionDomain(c, u, dirty, raw, now0, update)
<1> DEFINE Next1(D) == [l \in Keys(D, "motion") |-> NextRotation(c, MotionsOf(c, u, l), raw,
                                                               Held(update.held.motion, l, NoRotation), now0)]
<1>1. \A D : MotionDomain(c, u, D, raw, now0, update) = Motions(update, Next1(D))
  BY TabulatedIs DEF MotionDomain
<1>2. Extends(Next1(all), Next1(dirty))
  BY KeysOf DEF Extends
<1>3. \A l \in Keys(all, "motion") \ Keys(dirty, "motion") : Next1(all)[l] = Held(update.held.motion, l, NoRotation)
  BY DEF MotionRests
<1>4. DOMAIN Next1(all) = Keys(all, "motion") /\ DOMAIN Next1(dirty) = Keys(dirty, "motion")
  OBVIOUS
<1> HIDE DEF Next1
<1>5. PICK some, next, part : some = Next1(dirty) /\ next = Next1(all) /\ part = update.held.motion
  OBVIOUS
<1> DEFINE Shown(table) == {l \in DOMAIN table : Rotation(table[l]) # Rotation(Held(part, l, NoRotation))}
<1>6. Renewed(part, next, NoRotation) = Renewed(part, some, NoRotation)
  BY <1>2, <1>3, <1>4, <1>5, AdoptRenewedSame
<1>7. Shown(next) = Shown(some)
  BY <1>2, <1>3, <1>4, <1>5 DEF Extends
<1>8. PICK kept, shown : kept = Renewed(part, some, NoRotation) /\ shown = Shown(some)
  OBVIOUS
<1>9. kept \subseteq DOMAIN some /\ shown \subseteq DOMAIN some
  BY <1>8 DEF Renewed
<1>10. Adopt(update, "motion", next, kept, shown) = Adopt(update, "motion", some, kept, shown)
  BY <1>2, <1>5, <1>9, AdoptSame
<1>11. \A table : Motions(update, table) = Adopt(update, "motion", table, Renewed(part, table, NoRotation), Shown(table))
  BY <1>5 DEF Motions
<1> HIDE DEF Shown
<1> QED
  BY <1>1, <1>5, <1>6, <1>7, <1>8, <1>10, <1>11

(* The properties of a scene have their own ids, and a fixture has one Pan  *)
(* and one Tilt.                                                            *)
PropertiesApart(c) ==
  \A i, j \in DOMAIN c.properties :
    LET p == c.properties[i] q == c.properties[j]
        Alike == p.fixture = q.fixture /\ p.parameter = q.parameter /\ p.parameter \in {"pan", "tilt"}
    IN p.id = q.id \/ Alike => i = j

LEMMA OnlyOne ==
  ASSUME NEW i \in Int
  PROVE  Max({i}) = i
BY DEF Max

LEMMA PropertiesSame ==
  ASSUME NEW c, NEW update, NEW some, NEW next, Extends(next, some),
         NEW n \in Nat, DOMAIN c.properties \subseteq 1..n, DOMAIN next \subseteq DOMAIN c.properties,
         PropertiesApart(c),
         \A i \in DOMAIN next \ DOMAIN some : /\ c.properties[i].id \in DOMAIN update.held.property
                                              /\ update.held.property[c.properties[i].id] = next[i]
  PROVE  Properties(c, next, update) = Properties(c, some, update)
<1> DEFINE p(i) == c.properties[i]
           base == update.held.property
           Named(t, id) == {i \in DOMAIN t : p(i).id = id}
           Earlier(t, i) == {j \in Named(t, p(i).id) : j < i}
           Had(t, i) == Earlier(t, i) # {} \/ p(i).id \in DOMAIN update.held.property
           Previous(t, i) == IF Earlier(t, i) = {} THEN update.held.property[p(i).id] ELSE t[Max(Earlier(t, i))]
           Moved(t) == {i \in DOMAIN t : ~Had(t, i) \/ ~NearlyEqual(Previous(t, i), t[i])}
           Shown(t, row) == Max({i \in Moved(t) : RowKey(p(i)) = row})
           ById(t) == [id \in {p(i).id : i \in DOMAIN t} |-> t[Max(Named(t, id))]]
           Rows(t) == [row \in {RowKey(p(i)) : i \in Moved(t)} |-> Cooked(c, p(Shown(t, row)), t[Shown(t, row)])]
<1>1. \A t : Properties(c, t, update) = Update([update.held EXCEPT !.property = Overlaid(ById(t), @)],
                                              Overlaid(Rows(t), update.rows))
  BY DEF Properties
<1>2. DOMAIN some \subseteq DOMAIN next /\ \A x \in DOMAIN some : next[x] = some[x]
  BY DEF Extends
<1>3. ASSUME NEW t, DOMAIN t \subseteq DOMAIN next, NEW i \in DOMAIN t
      PROVE  Named(t, p(i).id) = {i} /\ Earlier(t, i) = {} /\ Max(Named(t, p(i).id)) = i
  <2>1. \A j \in DOMAIN t : p(j).id = p(i).id => j = i
    BY <1>3 DEF PropertiesApart
  <2>2. Named(t, p(i).id) = {i}
    BY <2>1
  <2>3. i \in Int
    BY <1>3
  <2> QED
    BY <2>2, <2>3, OnlyOne
<1>4. \A t : DOMAIN t \subseteq DOMAIN next =>
        Moved(t) = {i \in DOMAIN t : p(i).id \notin DOMAIN base \/ ~NearlyEqual(base[p(i).id], t[i])}
  BY <1>3
<1>5. Moved(next) = Moved(some) /\ Moved(some) \subseteq DOMAIN some
  <2>1. \A i \in DOMAIN next \ DOMAIN some : NearlyEqual(base[p(i).id], next[i])
    BY DEF NearlyEqual
  <2>2. \A i \in DOMAIN next \ DOMAIN some : p(i).id \in DOMAIN base
    OBVIOUS
  <2>3. DOMAIN some \subseteq DOMAIN next
    BY <1>2
  <2>4. PICK C, D : C = Moved(next) /\ D = Moved(some)
    OBVIOUS
  <2>5. /\ C = {i \in DOMAIN next : p(i).id \notin DOMAIN base \/ ~NearlyEqual(base[p(i).id], next[i])}
        /\ D = {i \in DOMAIN some : p(i).id \notin DOMAIN base \/ ~NearlyEqual(base[p(i).id], some[i])}
    BY <1>2, <1>4, <2>4
  <2> HIDE DEF Moved, base, p
  <2> QED
    BY <1>2, <2>1, <2>2, <2>4, <2>5
<1>6. Rows(next) = Rows(some)
  <2>1. PICK C : C = Moved(some) /\ C = Moved(next)
    BY <1>5
  <2> DEFINE Last1(row) == Max({i \in C : RowKey(p(i)) = row})
  <2>2. ASSUME NEW row \in {RowKey(p(i)) : i \in C} PROVE next[Last1(row)] = some[Last1(row)]
    <3>1. {i \in C : RowKey(p(i)) = row} # {} /\ {i \in C : RowKey(p(i)) = row} \in SUBSET (1..n)
      BY <1>2, <1>5, <2>1
    <3>2. Last1(row) \in {i \in C : RowKey(p(i)) = row}
      BY <3>1, LastPlace
    <3> QED
      BY <1>2, <1>5, <2>1, <3>2
  <2>3. \A t : Moved(t) = C => Rows(t) = [row \in {RowKey(p(i)) : i \in C} |-> Cooked(c, p(Last1(row)), t[Last1(row)])]
    BY ZenonT(30)
  <2>4. [row \in {RowKey(p(i)) : i \in C} |-> Cooked(c, p(Last1(row)), next[Last1(row)])]
          = [row \in {RowKey(p(i)) : i \in C} |-> Cooked(c, p(Last1(row)), some[Last1(row)])]
    <3> HIDE DEF Last1
    <3> QED
      BY <2>2
  <2> HIDE DEF Rows, Moved, Last1
  <2> QED
    BY <2>1, <2>3, <2>4
<1>7. Overlaid(ById(next), base) = Overlaid(ById(some), base)
  <2>1. PICK f, g : f = ById(some) /\ g = ById(next)
    OBVIOUS
  <2>2. ASSUME NEW t, DOMAIN t \subseteq DOMAIN next
        PROVE  /\ DOMAIN ById(t) = {p(i).id : i \in DOMAIN t}
               /\ \A i \in DOMAIN t : ById(t)[p(i).id] = t[i]
    <3>1. \A i \in DOMAIN t : Max(Named(t, p(i).id)) = i
      BY <1>3, <2>2
    <3> HIDE DEF Named
    <3> QED
      BY <3>1
  <2> HIDE DEF ById
  <2>3. DOMAIN f = {p(i).id : i \in DOMAIN some} /\ \A i \in DOMAIN some : f[p(i).id] = some[i]
    BY <1>2, <2>1, <2>2
  <2>4. DOMAIN g = {p(i).id : i \in DOMAIN next} /\ \A i \in DOMAIN next : g[p(i).id] = next[i]
    BY <1>2, <2>1, <2>2
  <2>5. \A i \in DOMAIN next \ DOMAIN some : p(i).id \in DOMAIN base /\ base[p(i).id] = next[i]
    OBVIOUS
  <2> HIDE DEF p, base
  <2>6. DOMAIN f \subseteq DOMAIN g
    BY <1>2, <2>3, <2>4
  <2>7. \A x \in DOMAIN f : g[x] = f[x]
    BY <1>2, <2>3, <2>4
  <2>8. \A x \in DOMAIN g \ DOMAIN f : x \in DOMAIN base /\ g[x] = base[x]
    BY <1>2, <2>3, <2>4, <2>5
  <2>9. Overlaid(g, base) = Overlaid(f, base)
    BY <2>6, <2>7, <2>8, OverlaidMore
  <2> QED
    BY <2>1, <2>9
<1> HIDE DEF ById, Rows
<1> QED
  BY <1>1, <1>6, <1>7

LEMMA PropertySame ==
  ASSUME NEW c, NEW update, NEW some, NEW next, Extends(next, some),
         NEW n \in Nat, DOMAIN c.properties \subseteq 1..n, DOMAIN next \subseteq DOMAIN c.properties,
         PropertiesApart(c),
         \A i \in DOMAIN next \ DOMAIN some : ValueRests(c.properties[i], next[i], update.held.property)
  PROVE  PropertyDomain(c, next, update) = PropertyDomain(c, some, update)
<1> DEFINE Mine(readings) == {i \in DOMAIN readings : c.properties[i].parameter \in {"dimmer", "zoom"} /\ readings[i].valid}
           Values1(readings) == [i \in Mine(readings) |-> IF c.properties[i].parameter = "dimmer"
                                                       THEN readings[i].normalized ELSE readings[i].physical]
<1>1. \A readings : PropertyDomain(c, readings, update) = Properties(c, Values1(readings), update)
  BY TabulatedIs DEF PropertyDomain
<1>2. /\ \A t : DOMAIN Values1(t) = Mine(t)
      /\ \A t : \A i \in Mine(t) : Values1(t)[i] = IF c.properties[i].parameter = "dimmer"
                                                 THEN t[i].normalized ELSE t[i].physical
  OBVIOUS
<1>3. PICK f, g : f = Values1(some) /\ g = Values1(next)
  OBVIOUS
<1> DEFINE Value1(t, i) == IF c.properties[i].parameter = "dimmer" THEN t[i].normalized ELSE t[i].physical
<1>8. /\ DOMAIN f = Mine(some) /\ DOMAIN g = Mine(next)
      /\ \A i \in Mine(some) : f[i] = Value1(some, i)
      /\ \A i \in Mine(next) : g[i] = Value1(next, i)
  BY <1>2, <1>3
<1>9. DOMAIN some \subseteq DOMAIN next /\ \A i \in DOMAIN some : next[i] = some[i]
  BY DEF Extends
<1> HIDE DEF Values1
<1>4. Extends(g, f)
  <2>1. Mine(some) \subseteq Mine(next) /\ \A i \in Mine(some) : Value1(some, i) = Value1(next, i)
    BY <1>9
  <2> HIDE DEF Value1, Mine
  <2> QED
    BY <1>8, <2>1 DEF Extends
<1>5. \A i \in DOMAIN g \ DOMAIN f : /\ c.properties[i].id \in DOMAIN update.held.property
                                     /\ update.held.property[c.properties[i].id] = g[i]
  <2> TAKE i \in DOMAIN g \ DOMAIN f
  <2>1. i \in DOMAIN next /\ i \notin DOMAIN some /\ next[i].valid
    BY <1>8, <1>9
  <2>2. c.properties[i].parameter \in {"dimmer", "zoom"}
    BY <1>8
  <2>3. g[i] = IF c.properties[i].parameter = "dimmer" THEN next[i].normalized ELSE next[i].physical
    BY <1>8
  <2>4. ValueRests(c.properties[i], next[i], update.held.property)
    BY <2>1
  <2> QED
    BY <2>1, <2>2, <2>3, <2>4 DEF ValueRests
<1>6. DOMAIN g \subseteq DOMAIN c.properties
  BY <1>8
<1>7. Properties(c, g, update) = Properties(c, f, update)
  BY <1>4, <1>5, <1>6, PropertiesSame
<1> QED
  BY <1>1, <1>3, <1>7

(* A colour input that did not change has the value of its source.          *)
InputKeys(c, dirty) == UNION {{<<i, j>> : j \in DOMAIN c.colors[i].inputs} : i \in Keys(dirty, "color")}

ColorSourcesIn(c, all, every) ==
  \A i \in Keys(all, "color") : \A j \in DOMAIN c.colors[i].inputs : c.colors[i].inputs[j].source \in every

LEMMA InputsSame ==
  ASSUME NEW c, NEW held0, NEW all, NEW dirty \in SUBSET all, NEW some, NEW next, Extends(next, some),
         DOMAIN next = InputKeys(c, all), DOMAIN some = InputKeys(c, dirty),
         NEW n \in Nat, Keys(all, "color") \subseteq 1..n,
         \A k \in DOMAIN next \ DOMAIN some : k \in DOMAIN held0.input /\ held0.input[k] = next[k]
  PROVE  Inputs(c, next, held0) = Inputs(c, some, held0)
<1> DEFINE Moved(t) == {l \in DOMAIN t : l \notin DOMAIN held0.input \/ ~NearlyEqual(held0.input[l], t[l])}
           Repaints(t) == {k[1] : k \in Moved(t)}
<1>1. \A t : Inputs(c, t, held0) = Repaint(c, t, Repaints(t), held0)
  BY DEF Inputs
<1>2. DOMAIN some \subseteq DOMAIN next /\ \A x \in DOMAIN some : next[x] = some[x]
  BY DEF Extends
<1>3. Moved(next) = Moved(some) /\ Moved(some) \subseteq DOMAIN some
  BY <1>2 DEF NearlyEqual
<1>4. Repaints(next) = Repaints(some)
  BY <1>3
<1>5. Repaints(some) \subseteq Keys(dirty, "color")
  <2>1. \A k \in InputKeys(c, dirty) : k[1] \in Keys(dirty, "color")
    BY DEF InputKeys
  <2> QED
    BY <1>3, <2>1
<1> HIDE DEF Moved, Repaints
<1>6. PICK changed : changed = Repaints(some)
  OBVIOUS
<1>7. PICK input, base : input = held0.input /\ base = held0.base
  OBVIOUS
<1>8. Overlaid(next, input) = Overlaid(some, input)
  BY <1>2, <1>7, OverlaidMore
<1>9. Repainted(c, next, changed, base) = Repainted(c, some, changed, base)
  <2> DEFINE targets == {c.colors[i].target : i \in changed}
             Mine(target) == {i \in changed : c.colors[i].target = target}
             Cook(t, i) == CookColor(c.scene, c.colors[i], [j \in DOMAIN c.colors[i].inputs |-> t[<<i, j>>]])
             Bases(t) == [target \in targets |-> Cook(t, Max(Mine(target)))]
  <2>1. \A t : Repainted(c, t, changed, base) = Overlaid(Bases(t), base)
    BY DEF Repainted
  <2>2. ASSUME NEW i \in changed PROVE Cook(next, i) = Cook(some, i)
    <3>1. \A j \in DOMAIN c.colors[i].inputs : <<i, j>> \in DOMAIN some
      BY <1>5, <1>6 DEF InputKeys
    <3>2. [j \in DOMAIN c.colors[i].inputs |-> next[<<i, j>>]] = [j \in DOMAIN c.colors[i].inputs |-> some[<<i, j>>]]
      BY <1>2, <3>1
    <3> QED
      BY <3>2
  <2>3. ASSUME NEW target \in targets PROVE Max(Mine(target)) \in changed
    <3>1. Mine(target) # {} /\ Mine(target) \in SUBSET (1..n)
      BY <1>5, <1>6, KeysOf
    <3>2. Max(Mine(target)) \in Mine(target)
      BY <3>1, LastPlace
    <3> QED
      BY <3>2
  <2> HIDE DEF Cook, Mine
  <2>4. Bases(next) = Bases(some)
    BY <2>2, <2>3
  <2> QED
    BY <2>1, <2>4
<1>10. PICK o, r : o = Overlaid(some, input) /\ r = Repainted(c, some, changed, base)
  OBVIOUS
<1>11. Repaint(c, next, changed, held0) = Repaint(c, some, changed, held0)
  BY <1>7, <1>8, <1>9, <1>10 DEF Repaint
<1> QED
  BY <1>1, <1>4, <1>6, <1>11

(* The inputs of a consumer that are read and those that rest have one      *)
(* value, which is also read of each when every source counts as changed.   *)
LEMMA ColorSame ==
  ASSUME NEW c, NEW held0, NEW all, NEW dirty \in SUBSET all, NEW sources, NEW every, NEW raw, NEW ready, NEW prepared1,
         NEW n \in Nat, Keys(all, "color") \subseteq 1..n,
         ColorSourcesIn(c, all, every), ColorsRest(c, all, dirty, sources, raw, held0.input)
  PROVE  ColorDomain(c, all, every, raw, prepared1, held0) = ColorDomain(c, dirty, sources, raw, ready, held0)
<1> DEFINE Input(k) == c.colors[k[1]].inputs[k[2]]
           Read(k) == ColorValue(c.programs[Input(k).source], Input(k).semantic, raw[Input(k).source])
           Value(S, r, k) == InputValue(c, S, raw, r, held0, k, Input(k))
           Values1(D, S, r) == [k \in InputKeys(c, D) |-> Value(S, r, k)]
<1>1. \A D, S, r : ColorDomain(c, D, S, raw, r, held0) = Inputs(c, Values1(D, S, r), held0)
  BY TabulatedIs DEF ColorDomain, InputKeys
<1>2. \A D, S, r : /\ DOMAIN Values1(D, S, r) = InputKeys(c, D)
                   /\ \A k \in InputKeys(c, D) : Values1(D, S, r)[k] = Value(S, r, k)
  OBVIOUS
<1>3. PICK some, next : some = Values1(dirty, sources, ready) /\ next = Values1(all, every, prepared1)
  OBVIOUS
<1> HIDE DEF Values1, Value
<1>4. /\ DOMAIN some = InputKeys(c, dirty) /\ \A k \in InputKeys(c, dirty) : some[k] = Value(sources, ready, k)
      /\ DOMAIN next = InputKeys(c, all) /\ \A k \in InputKeys(c, all) : next[k] = Value(every, prepared1, k)
  BY ONLY <1>2, <1>3
<1> USE DEF Value
<1>5. ASSUME NEW k \in InputKeys(c, all)
      PROVE  /\ Value(every, prepared1, k) = Read(k)
             /\ k \in InputKeys(c, dirty) => Value(sources, ready, k) = Read(k)
             /\ k \notin InputKeys(c, dirty) => k \in DOMAIN held0.input /\ held0.input[k] = Read(k)
  <2>1. PICK i \in Keys(all, "color") : \E j \in DOMAIN c.colors[i].inputs : k = <<i, j>>
    BY <1>5 DEF InputKeys
  <2>2. PICK j \in DOMAIN c.colors[i].inputs : k = <<i, j>>
    BY <2>1
  <2>3. PICK input : input = c.colors[i].inputs[j]
    OBVIOUS
  <2>4. Input(k) = input
    BY <2>2, <2>3
  <2>5. /\ input.source \in every
        /\ \/ i \in Keys(dirty, "color") /\ input.source \in sources
           \/ InputRests(c, i, j, raw, held0.input)
    BY <2>3 DEF ColorSourcesIn, ColorsRest
  <2>6. InputRests(c, i, j, raw, held0.input) => k \in DOMAIN held0.input /\ held0.input[k] = Read(k)
    BY <2>2, <2>3, <2>4 DEF InputRests
  <2>7. i \in Keys(dirty, "color") => k \in InputKeys(c, dirty)
    BY <2>2 DEF InputKeys
  <2>8. Value(every, prepared1, k) = Read(k)
    BY <2>4, <2>5 DEF InputValue, Fresh
  <2>9. input.source \in sources => Value(sources, ready, k) = Read(k)
    BY <2>4 DEF InputValue, Fresh
  <2>10. k \in DOMAIN held0.input /\ held0.input[k] = Read(k) => Value(sources, ready, k) = Read(k)
    BY DEF InputValue, Held
  <2> HIDE DEF Value, Read, Input
  <2> QED
    BY <2>5, <2>6, <2>7, <2>8, <2>9, <2>10
<1> HIDE DEF Value, Read, Input
<1>6. InputKeys(c, dirty) \subseteq InputKeys(c, all)
  BY KeysOf DEF InputKeys
<1>7. Extends(next, some)
  BY <1>4, <1>5, <1>6 DEF Extends
<1>8. \A k \in DOMAIN next \ DOMAIN some : k \in DOMAIN held0.input /\ held0.input[k] = next[k]
  BY <1>4, <1>5
<1>9. Inputs(c, next, held0) = Inputs(c, some, held0)
  <2>1. DOMAIN next = InputKeys(c, all) /\ DOMAIN some = InputKeys(c, dirty)
    BY <1>4
  <2> QED
    BY <1>7, <1>8, <2>1, InputsSame
<1> QED
  BY <1>1, <1>3, <1>9

LEMMA WheelSame ==
  ASSUME NEW c, NEW u, NEW all, NEW dirty \in SUBSET all, NEW raw, NEW targets, NEW held0,
         \A k \in Keys(all, "wheel") \ Keys(dirty, "wheel") : WheelRests(c, u, k, raw, held0.wheel)
  PROVE  WheelDomain(c, u, all, raw, targets, held0) = WheelDomain(c, u, dirty, raw, targets, held0)
<1> DEFINE more == {<<b.target, b.wheel>> : b \in {x \in Range(c.wheels) : x.target \in targets /\ InUniverse(c, u, x)}}
           Layer1(k) == NextWheel(c, Held(held0.wheel, k, None), ActiveWheel(c.programs, WheelsOf(c, u, k), raw), raw)
           Next1(D) == [k \in Keys(D, "wheel") \cup more |-> Layer1(k)]
<1>1. \A D : WheelDomain(c, u, D, raw, targets, held0) = Wheels(Next1(D), targets, held0)
  BY TabulatedIs DEF WheelDomain
<1>2. \A D : DOMAIN Next1(D) = Keys(D, "wheel") \cup more /\ \A k \in DOMAIN Next1(D) : Next1(D)[k] = Layer1(k)
  OBVIOUS
<1>3. \A k \in Keys(all, "wheel") \ Keys(dirty, "wheel") : Layer1(k) = Held(held0.wheel, k, None)
  BY DEF WheelRests
<1>4. PICK some, next : some = Next1(dirty) /\ next = Next1(all)
  OBVIOUS
<1> HIDE DEF Next1, more, Layer1
<1>5. Keys(dirty, "wheel") \subseteq Keys(all, "wheel")
  BY KeysOf
<1>6. /\ DOMAIN some \subseteq DOMAIN next /\ \A k \in DOMAIN some : next[k] = some[k]
      /\ \A k \in DOMAIN next \ DOMAIN some : next[k] = Held(held0.wheel, k, None)
  BY <1>2, <1>3, <1>4, <1>5
<1>7. PICK changed : changed = {k \in DOMAIN some : some[k] # Held(held0.wheel, k, None)}
  OBVIOUS
<1>8. {k \in DOMAIN next : next[k] # Held(held0.wheel, k, None)} = changed
  BY <1>6, <1>7
<1>9. [k \in changed |-> next[k]] = [k \in changed |-> some[k]]
  BY <1>6, <1>7
<1>10. Wheels(next, targets, held0) = Wheels(some, targets, held0)
  <2>1. PICK f : f = [k \in changed |-> some[k]]
    OBVIOUS
  <2> QED
    BY <1>7, <1>8, <1>9, <2>1 DEF Wheels
<1> QED
  BY <1>1, <1>4, <1>10

(* A transform is made of its two angles.                                   *)
TransformsFit(transform) ==
  \A f \in DOMAIN transform : transform[f] = [pan |-> transform[f].pan, tilt |-> transform[f].tilt]

(* What the fixture's property of a parameter reads, default without one.   *)
Angles(c, readings, f, parameter) ==
  {i \in DOMAIN readings : /\ c.properties[i].parameter = parameter /\ readings[i].valid
                           /\ c.properties[i].fixture = f}
Angle(c, readings, f, parameter, default) ==
  IF Angles(c, readings, f, parameter) = {} THEN default
  ELSE readings[Max(Angles(c, readings, f, parameter))].physical
Turned(c, readings) ==
  {c.properties[i].fixture : i \in {j \in DOMAIN readings : /\ c.properties[j].parameter \in {"pan", "tilt"}
                                                            /\ readings[j].valid}}
NoTurn == [pan |-> 0, tilt |-> 0]
NextTransforms(c, readings, transform) ==
  [f \in Turned(c, readings) |->
     [pan |-> Angle(c, readings, f, "pan", Held(transform, f, NoTurn).pan),
      tilt |-> Angle(c, readings, f, "tilt", Held(transform, f, NoTurn).tilt)]]

LEMMA TransformIs ==
  ASSUME NEW c, NEW readings, NEW update
  PROVE  TransformDomain(c, readings, update) = Transforms(update, NextTransforms(c, readings, update.held.transform))
<1> DEFINE keys == {i \in DOMAIN readings : c.properties[i].parameter \in {"pan", "tilt"} /\ readings[i].valid}
           Mine(f) == {i \in keys : c.properties[i].fixture = f}
           At(f) == Held(update.held.transform, f, [pan |-> 0, tilt |-> 0])
<1>1. TransformDomain(c, readings, update)
        = Transforms(update, [f \in {c.properties[i].fixture : i \in keys} |-> Transform(c, Mine(f), readings, At(f))])
  BY TabulatedIs DEF TransformDomain
<1>2. \A f : /\ {i \in Mine(f) : c.properties[i].parameter = "pan"} = Angles(c, readings, f, "pan")
             /\ {i \in Mine(f) : c.properties[i].parameter = "tilt"} = Angles(c, readings, f, "tilt")
  BY DEF Angles
<1> HIDE DEF Mine
<1>3. \A f, old : Transform(c, Mine(f), readings, old)
                    = [pan |-> Angle(c, readings, f, "pan", old.pan), tilt |-> Angle(c, readings, f, "tilt", old.tilt)]
  BY <1>2 DEF Transform, Angle
<1>4. {c.properties[i].fixture : i \in keys} = Turned(c, readings)
  BY DEF Turned
<1>5. \A f : At(f) = Held(update.held.transform, f, NoTurn)
  BY DEF NoTurn
<1> HIDE DEF At, keys
<1> QED
  BY <1>1, <1>3, <1>4, <1>5 DEF NextTransforms

LEMMA OneAngle ==
  ASSUME NEW c, NEW readings, NEW n \in Nat, DOMAIN c.properties \subseteq 1..n,
         DOMAIN readings \subseteq DOMAIN c.properties, PropertiesApart(c),
         NEW parameter \in {"pan", "tilt"}, NEW f, NEW i \in Angles(c, readings, f, parameter), NEW default
  PROVE  Angles(c, readings, f, parameter) = {i} /\ Angle(c, readings, f, parameter, default) = readings[i].physical
<1>1. \A j \in Angles(c, readings, f, parameter) : j = i
  BY DEF Angles, PropertiesApart
<1>2. Angles(c, readings, f, parameter) = {i} /\ i \in Int
  BY <1>1 DEF Angles
<1>3. Max({i}) = i
  BY <1>2, OnlyOne
<1> QED
  BY <1>2, <1>3 DEF Angle

LEMMA AdoptMore ==
  ASSUME NEW update, NEW domain, NEW some, NEW next, NEW shown, Extends(next, some), shown \subseteq DOMAIN some,
         \A k \in DOMAIN next \ DOMAIN some : k \in DOMAIN update.held[domain] /\ next[k] = update.held[domain][k]
  PROVE  Adopt(update, domain, next, DOMAIN next, shown) = Adopt(update, domain, some, DOMAIN some, shown)
<1>1. PICK h, base, f, g : /\ h = update.held /\ base = update.held[domain]
                           /\ f = [k \in DOMAIN some |-> some[k]] /\ g = [k \in DOMAIN next |-> next[k]]
  OBVIOUS
<1>2. /\ DOMAIN f \subseteq DOMAIN g /\ \A x \in DOMAIN f : g[x] = f[x]
      /\ \A x \in DOMAIN g \ DOMAIN f : x \in DOMAIN base /\ g[x] = base[x]
  BY <1>1 DEF Extends
<1>3. Overlaid(g, base) = Overlaid(f, base)
  BY <1>2, OverlaidMore
<1>4. [k \in {<<domain, l>> : l \in shown} |-> next[k[2]]] = [k \in {<<domain, l>> : l \in shown} |-> some[k[2]]]
  BY DEF Extends
<1>5. PICK o, r : o = Overlaid(f, base) /\ r = [k \in {<<domain, l>> : l \in shown} |-> some[k[2]]]
  OBVIOUS
<1> QED
  BY <1>1, <1>3, <1>4, <1>5 DEF Adopt

LEMMA TransformSame ==
  ASSUME NEW c, NEW update, NEW some, NEW next, Extends(next, some),
         NEW n \in Nat, DOMAIN c.properties \subseteq 1..n, DOMAIN next \subseteq DOMAIN c.properties,
         PropertiesApart(c), TransformsFit(update.held.transform),
         \A i \in DOMAIN next \ DOMAIN some : AngleRests(c.properties[i], next[i], update.held.transform)
  PROVE  TransformDomain(c, next, update) = TransformDomain(c, some, update)
<1>1. PICK transform, f1, g1 : /\ transform = update.held.transform
                               /\ f1 = NextTransforms(c, some, transform) /\ g1 = NextTransforms(c, next, transform)
  OBVIOUS
<1>2. DOMAIN some \subseteq DOMAIN next /\ \A i \in DOMAIN some : next[i] = some[i]
  BY DEF Extends
<1>3. ASSUME NEW f, NEW parameter \in {"pan", "tilt"}
      PROVE  /\ \A i \in Angles(c, next, f, parameter) \ DOMAIN some :
                  f \in DOMAIN transform /\ transform[f][parameter] = next[i].physical
             /\ Angle(c, next, f, parameter, Held(transform, f, NoTurn)[parameter])
                  = Angle(c, some, f, parameter, Held(transform, f, NoTurn)[parameter])
  <2>1. \A i \in Angles(c, next, f, parameter) \ DOMAIN some :
          f \in DOMAIN transform /\ transform[f][parameter] = next[i].physical
    BY <1>1 DEF Angles, AngleRests
  <2>2. Angles(c, some, f, parameter) = Angles(c, next, f, parameter) \cap DOMAIN some
    BY <1>2 DEF Angles
  <2>3. PICK default : default = Held(transform, f, NoTurn)[parameter]
    OBVIOUS
  <2>4. CASE Angles(c, next, f, parameter) = {}
    BY <2>1, <2>2, <2>4 DEF Angle
  <2>5. CASE Angles(c, next, f, parameter) # {}
    <3>1. PICK i \in Angles(c, next, f, parameter) : TRUE
      BY <2>5
    <3>2. /\ Angles(c, next, f, parameter) = {i}
          /\ Angle(c, next, f, parameter, default) = next[i].physical
      BY <3>1, OneAngle
    <3>3. CASE i \in DOMAIN some
      <4>1. i \in Angles(c, some, f, parameter) /\ DOMAIN some \subseteq DOMAIN c.properties
        BY <1>2, <2>2, <3>1, <3>3
      <4>2. Angle(c, some, f, parameter, default) = some[i].physical
        BY <4>1, OneAngle
      <4> QED
        BY <1>2, <2>1, <2>3, <3>2, <3>3, <4>2
    <3>4. CASE i \notin DOMAIN some
      <4>1. Angle(c, some, f, parameter, default) = default
        BY <2>2, <3>2, <3>4 DEF Angle
      <4>2. f \in DOMAIN transform /\ transform[f][parameter] = next[i].physical
        BY <2>1, <3>1, <3>4
      <4>3. default = transform[f][parameter]
        BY <2>3, <4>2 DEF Held
      <4> QED
        BY <2>1, <2>3, <3>2, <4>1, <4>2, <4>3
    <3> QED
      BY <3>3, <3>4
  <2> QED
    BY <2>4, <2>5
<1>4. Turned(c, some) \subseteq Turned(c, next)
  BY <1>2 DEF Turned
<1>5. /\ DOMAIN f1 = Turned(c, some) /\ DOMAIN g1 = Turned(c, next)
      /\ \A f \in Turned(c, some) : f1[f] = [pan |-> Angle(c, some, f, "pan", Held(transform, f, NoTurn).pan),
                                             tilt |-> Angle(c, some, f, "tilt", Held(transform, f, NoTurn).tilt)]
      /\ \A f \in Turned(c, next) : g1[f] = [pan |-> Angle(c, next, f, "pan", Held(transform, f, NoTurn).pan),
                                             tilt |-> Angle(c, next, f, "tilt", Held(transform, f, NoTurn).tilt)]
  BY <1>1 DEF NextTransforms
<1>6. \A f : /\ Angle(c, next, f, "pan", Held(transform, f, NoTurn).pan)
                  = Angle(c, some, f, "pan", Held(transform, f, NoTurn).pan)
             /\ Angle(c, next, f, "tilt", Held(transform, f, NoTurn).tilt)
                  = Angle(c, some, f, "tilt", Held(transform, f, NoTurn).tilt)
  BY <1>3
<1>7. Extends(g1, f1)
  BY <1>4, <1>5, <1>6 DEF Extends
<1>8. ASSUME NEW f \in DOMAIN g1 \ DOMAIN f1
      PROVE  f \in DOMAIN transform /\ g1[f] = transform[f]
  <2>1. PICK i \in DOMAIN next : /\ c.properties[i].parameter \in {"pan", "tilt"} /\ next[i].valid
                                 /\ c.properties[i].fixture = f
    BY <1>5, <1>8 DEF Turned
  <2>2. i \notin DOMAIN some
    BY <1>2, <1>5, <1>8, <2>1 DEF Turned
  <2>3. f \in DOMAIN transform
    BY <1>3, <2>1, <2>2 DEF Angles
  <2>4. \A parameter \in {"pan", "tilt"} : Angles(c, some, f, parameter) = {}
    BY <1>5, <1>8 DEF Turned, Angles
  <2>5. Held(transform, f, NoTurn) = transform[f]
    BY <2>3 DEF Held
  <2>6. g1[f] = [pan |-> transform[f].pan, tilt |-> transform[f].tilt]
    BY <1>5, <1>6, <1>8, <2>4, <2>5 DEF Angle
  <2> QED
    BY <1>1, <2>3, <2>6 DEF TransformsFit
<1> DEFINE Shown(t) == {f \in DOMAIN t : ~StillAt(update, f, t[f])}
<1>9. Shown(g1) = Shown(f1)
  <2>1. \A f \in DOMAIN g1 \ DOMAIN f1 : StillAt(update, f, g1[f])
    BY <1>1, <1>8 DEF StillAt, NearlyEqual
  <2>2. DOMAIN f1 \subseteq DOMAIN g1 /\ \A f \in DOMAIN f1 : g1[f] = f1[f]
    BY <1>7 DEF Extends
  <2> QED
    BY <2>1, <2>2
<1>10. PICK shown : shown = Shown(f1)
  OBVIOUS
<1>11. Adopt(update, "transform", g1, DOMAIN g1, shown) = Adopt(update, "transform", f1, DOMAIN f1, shown)
  <2>1. shown \subseteq DOMAIN f1
    BY <1>10
  <2>2. \A k \in DOMAIN g1 \ DOMAIN f1 : k \in DOMAIN update.held["transform"] /\ g1[k] = update.held["transform"][k]
    BY <1>1, <1>8
  <2> QED
    BY <1>7, <2>1, <2>2, AdoptMore
<1>12. \A t : Transforms(update, t) = Adopt(update, "transform", t, DOMAIN t, Shown(t))
  BY DEF Transforms
<1> HIDE DEF Shown
<1> QED
  BY <1>1, <1>9, <1>10, <1>11, <1>12, TransformIs

(* What an evaluation with these values of the sources would leave as it is *)
(* of the consumers in all: whatever is not dirty, and of the dirty colours *)
(* the inputs whose source is not one of sources.                           *)
RestsBut(c, u, all, dirty, sources, raw, h) ==
  LET clean(domain) == Keys(all, domain) \ Keys(dirty, domain)
  IN /\ \A l \in clean("shutter") : ShutterRests(c, l, raw, h.shutter)
     /\ \A l \in clean("gobo") : GoboRests(c, u, l, raw, h.gobo)
     /\ \A l \in clean("motion") : MotionRests(c, u, l, raw, h.motion)
     /\ \A i \in clean("property") :
          LET reading == ReadProperty(c.programs, c.properties[i].inputs, raw)
          IN AngleRests(c.properties[i], reading, h.transform) /\ ValueRests(c.properties[i], reading, h.property)
     /\ ColorsRest(c, all, dirty, sources, raw, h.input)
     /\ \A k \in clean("wheel") : WheelRests(c, u, k, raw, h.wheel)

(* The consumers of a plan name what is installed, and their sources are    *)
(* known.                                                                   *)
ConsumersFit(c, all, every) ==
  /\ \E n \in Nat : DOMAIN c.properties \subseteq 1..n
  /\ \E n \in Nat : Keys(all, "color") \subseteq 1..n
  /\ Keys(all, "property") \subseteq DOMAIN c.properties
  /\ ColorSourcesIn(c, all, every)

LEMMA ReadingsExtend ==
  ASSUME NEW c, NEW all, NEW dirty \in SUBSET all, NEW raw
  PROVE  /\ Extends(Readings(c, all, raw), Readings(c, dirty, raw))
         /\ DOMAIN Readings(c, all, raw) = Keys(all, "property")
         /\ DOMAIN Readings(c, dirty, raw) = Keys(dirty, "property")
         /\ \A i \in Keys(all, "property") :
              Readings(c, all, raw)[i] = ReadProperty(c.programs, c.properties[i].inputs, raw)
<1> DEFINE Next1(D) == [i \in Keys(D, "property") |-> ReadProperty(c.programs, c.properties[i].inputs, raw)]
<1>1. \A D : Readings(c, D, raw) = Next1(D)
  BY TabulatedIs DEF Readings
<1>2. Extends(Next1(all), Next1(dirty))
  BY KeysOf DEF Extends
<1>3. /\ \A D : DOMAIN Next1(D) = Keys(D, "property")
      /\ \A i \in Keys(all, "property") : Next1(all)[i] = ReadProperty(c.programs, c.properties[i].inputs, raw)
  OBVIOUS
<1> HIDE DEF Next1
<1> QED
  BY <1>1, <1>2, <1>3

(* Evaluating the dirty consumers is evaluating all of them.                *)
LEMMA UpdateSame ==
  ASSUME NEW c, NEW u, NEW all, NEW dirty \in SUBSET all, NEW sources, NEW every, NEW raw, NEW ready, NEW prepared1,
         NEW now0 \in Nat, NEW update, DOMAIN update.held = DOMAIN NothingHeld,
         TransformsFit(update.held.transform), PropertiesApart(c), ConsumersFit(c, all, every),
         RestsBut(c, u, all, dirty, sources, raw, update.held)
  PROVE  UpdateUniverse(c, u, all, every, raw, prepared1, now0, update)
           = UpdateUniverse(c, u, dirty, sources, raw, ready, now0, update)
<1>1. PICK next, some, shutters, gobos, motions, properties, colors, wheels, coloured :
        /\ next = Readings(c, all, raw) /\ some = Readings(c, dirty, raw)
        /\ shutters = ShutterDomain(c, dirty, raw, now0, update)
        /\ gobos = GoboDomain(c, u, dirty, raw, shutters)
        /\ motions = MotionDomain(c, u, dirty, raw, now0, gobos)
        /\ properties = PropertyDomain(c, some, motions)
        /\ colors = ColorDomain(c, dirty, sources, raw, ready, properties.held)
        /\ wheels = WheelDomain(c, u, dirty, raw, colors.targets, colors.held)
        /\ coloured = Layered(wheels, properties.rows)
  OBVIOUS
<1>2. PICK h : h = update.held
  OBVIOUS
<1>3. /\ Keeps(h, shutters.held, {"shutter"}) /\ Keeps(shutters.held, gobos.held, {"gobo"})
      /\ Keeps(gobos.held, motions.held, {"motion"}) /\ Keeps(motions.held, properties.held, {"property"})
      /\ Keeps(properties.held, colors.held, {"input", "base"})
  BY <1>1, <1>2, ShutterKeeps, GoboKeeps, MotionKeeps, PropertyKeeps, ColorKeeps
<1>4. coloured = ColorsAndWheels(c, u, dirty, sources, raw, ready, properties)
  BY <1>1 DEF ColorsAndWheels, Coloured
<1>5. Keeps(properties.held, coloured.held, {"input", "base", "wheel", "color"})
  BY <1>4, ColorsAndWheelsKeep
<1>6. /\ DOMAIN h = DOMAIN NothingHeld
      /\ DOMAIN NothingHeld = {"transform", "property", "input", "base", "wheel", "color", "gobo", "motion", "shutter"}
  BY <1>2 DEF NothingHeld
<1>7. /\ shutters.held.gobo = h.gobo /\ gobos.held.motion = h.motion
      /\ motions.held.property = h.property /\ motions.held.transform = h.transform
      /\ properties.held.input = h.input /\ colors.held.wheel = h.wheel
  BY <1>3, <1>6 DEF Keeps
<1>8. coloured.held.transform = h.transform
  BY <1>3, <1>5, <1>6 DEF Keeps
<1>9. /\ Extends(next, some) /\ DOMAIN next = Keys(all, "property") /\ DOMAIN some = Keys(dirty, "property")
      /\ \A i \in Keys(all, "property") : next[i] = ReadProperty(c.programs, c.properties[i].inputs, raw)
  BY <1>1, ReadingsExtend
<1>10. PICK n \in Nat, m \in Nat : DOMAIN c.properties \subseteq 1..n /\ Keys(all, "color") \subseteq 1..m
  BY DEF ConsumersFit
<1>11. ShutterDomain(c, all, raw, now0, update) = shutters
  BY <1>1, ShutterSame DEF RestsBut
<1>12. GoboDomain(c, u, all, raw, shutters) = gobos
  <2>1. \A l \in Keys(all, "gobo") \ Keys(dirty, "gobo") : GoboRests(c, u, l, raw, shutters.held.gobo)
    BY <1>2, <1>7 DEF RestsBut
  <2> QED
    BY <1>1, <2>1, GoboSame
<1>13. MotionDomain(c, u, all, raw, now0, gobos) = motions
  <2>1. \A l \in Keys(all, "motion") \ Keys(dirty, "motion") : MotionRests(c, u, l, raw, gobos.held.motion)
    BY <1>2, <1>7 DEF RestsBut
  <2> QED
    BY <1>1, <2>1, MotionSame
<1>14. /\ DOMAIN next \subseteq DOMAIN c.properties
       /\ \A i \in DOMAIN next \ DOMAIN some : /\ AngleRests(c.properties[i], next[i], h.transform)
                                               /\ ValueRests(c.properties[i], next[i], h.property)
  BY <1>2, <1>9 DEF RestsBut, ConsumersFit
<1>15. PropertyDomain(c, next, motions) = properties
  <2>1. \A i \in DOMAIN next \ DOMAIN some : ValueRests(c.properties[i], next[i], motions.held.property)
    BY <1>7, <1>14
  <2> QED
    BY <1>1, <1>9, <1>10, <1>14, <2>1, PropertySame
<1>16. ColorDomain(c, all, every, raw, prepared1, properties.held) = colors
  <2>1. ColorSourcesIn(c, all, every) /\ ColorsRest(c, all, dirty, sources, raw, properties.held.input)
    BY <1>2, <1>7 DEF RestsBut, ConsumersFit
  <2>2. colors = ColorDomain(c, dirty, sources, raw, ready, properties.held)
    BY <1>1
  <2>3. Keys(all, "color") \subseteq 1..m
    BY <1>10
  <2>4. PICK held1 : held1 = properties.held
    OBVIOUS
  <2>5. ColorsRest(c, all, dirty, sources, raw, held1.input) /\ ColorSourcesIn(c, all, every)
    BY <2>1, <2>4
  <2>6. ColorDomain(c, all, every, raw, prepared1, held1) = ColorDomain(c, dirty, sources, raw, ready, held1)
    BY ONLY <2>3, <2>5, m \in Nat, dirty \in SUBSET all, ColorSame
  <2> QED
    BY <2>2, <2>4, <2>6
<1>17. WheelDomain(c, u, all, raw, colors.targets, colors.held) = wheels
  <2>1. \A k \in Keys(all, "wheel") \ Keys(dirty, "wheel") : WheelRests(c, u, k, raw, colors.held.wheel)
    BY <1>2, <1>7 DEF RestsBut
  <2> QED
    BY <1>1, <2>1, WheelSame
<1>18. ColorsAndWheels(c, u, all, every, raw, prepared1, properties) = coloured
  BY <1>1, <1>16, <1>17 DEF ColorsAndWheels, Coloured
<1>19. TransformDomain(c, next, coloured) = TransformDomain(c, some, coloured)
  <2>1. TransformsFit(coloured.held.transform)
    BY <1>2, <1>8
  <2>2. \A i \in DOMAIN next \ DOMAIN some : AngleRests(c.properties[i], next[i], coloured.held.transform)
    BY <1>8, <1>14
  <2> QED
    BY <1>9, <1>10, <1>14, <2>1, <2>2, TransformSame
<1> QED
  BY <1>1, <1>4, <1>11, <1>12, <1>13, <1>15, <1>18, <1>19 DEF UpdateUniverse

-----------------------------------------------------------------------------
(* An update in which nothing is dirty *)

(* A function and nothing else.                                             *)
IsTable(f) == f = [x \in DOMAIN f |-> f[x]]
(* What is held, and the rows, are tables of tables.                        *)
HeldFits(h) ==
  /\ IsTable(h) /\ DOMAIN h = DOMAIN NothingHeld
  /\ \A part \in DOMAIN NothingHeld : IsTable(h[part])
UpdateFits(update) == update = Update(update.held, update.rows) /\ HeldFits(update.held) /\ IsTable(update.rows)

LEMMA ExceptSame ==
  ASSUME NEW h, IsTable(h), NEW part
  PROVE  [h EXCEPT ![part] = h[part]] = h
BY DEF IsTable

LEMMA OverlaidNothing ==
  ASSUME NEW f, NEW base, DOMAIN f = {}, IsTable(base)
  PROVE  Overlaid(f, base) = base
<1>1. Overlaid(f, base) = [x \in DOMAIN f \cup DOMAIN base |-> IF x \in DOMAIN f THEN f[x] ELSE base[x]]
  BY TabulatedIs DEF Overlaid
<1>2. Overlaid(f, base) = [x \in DOMAIN base |-> base[x]]
  BY <1>1
<1> QED
  BY <1>2 DEF IsTable

LEMMA AdoptNothing ==
  ASSUME NEW update, UpdateFits(update), NEW domain \in DOMAIN NothingHeld, NEW next,
         NEW kept, kept = {}, NEW shown, shown = {}
  PROVE  Adopt(update, domain, next, kept, shown) = update
<1>1. PICK h, rows0, base, f, g :
        /\ h = update.held /\ rows0 = update.rows /\ base = update.held[domain]
        /\ f = [k \in kept |-> next[k]] /\ g = [k \in {<<domain, l>> : l \in shown} |-> next[k[2]]]
  OBVIOUS
<1>2. DOMAIN f = {} /\ DOMAIN g = {}
  BY <1>1
<1>3. Overlaid(f, base) = base /\ Overlaid(g, rows0) = rows0
  BY <1>1, <1>2, OverlaidNothing DEF UpdateFits, HeldFits
<1>4. [h EXCEPT ![domain] = base] = h
  BY <1>1, ExceptSame DEF UpdateFits, HeldFits
<1>5. Adopt(update, domain, next, kept, shown) = Update([h EXCEPT ![domain] = Overlaid(f, base)], Overlaid(g, rows0))
  BY <1>1 DEF Adopt
<1> QED
  BY <1>1, <1>3, <1>4, <1>5 DEF UpdateFits

LEMMA PropertiesNothing ==
  ASSUME NEW c, NEW update, UpdateFits(update), NEW next, DOMAIN next = {}
  PROVE  Properties(c, next, update) = update
<1>1. PICK h, rows0, base : h = update.held /\ rows0 = update.rows /\ base = update.held.property
  OBVIOUS
<1>2. PICK f, g : /\ Properties(c, next, update) = Update([h EXCEPT !["property"] = Overlaid(f, base)], Overlaid(g, rows0))
                  /\ DOMAIN f = {} /\ DOMAIN g = {}
  <2> DEFINE p(i) == c.properties[i]
             Named(id) == {i \in DOMAIN next : p(i).id = id}
             Earlier(i) == {j \in Named(p(i).id) : j < i}
             Had(i) == Earlier(i) # {} \/ p(i).id \in DOMAIN update.held.property
             Previous(i) == IF Earlier(i) = {} THEN update.held.property[p(i).id] ELSE next[Max(Earlier(i))]
             changed == {i \in DOMAIN next : ~Had(i) \/ ~NearlyEqual(Previous(i), next[i])}
             Shown(row) == Max({i \in changed : RowKey(p(i)) = row})
             ids == [id \in {p(i).id : i \in DOMAIN next} |-> next[Max(Named(id))]]
             rows1 == [row \in {RowKey(p(i)) : i \in changed} |-> Cooked(c, p(Shown(row)), next[Shown(row)])]
  <2>1. Properties(c, next, update) = Update([update.held EXCEPT !.property = Overlaid(ids, @)], Overlaid(rows1, update.rows))
    BY DEF Properties
  <2>2. DOMAIN ids = {} /\ DOMAIN rows1 = {}
    OBVIOUS
  <2> HIDE DEF ids, rows1
  <2> QED
    BY <1>1, <2>1, <2>2
<1>3. "property" \in DOMAIN NothingHeld
  BY DEF NothingHeld
<1>4. Overlaid(f, base) = base /\ Overlaid(g, rows0) = rows0
  <2>1. IsTable(base) /\ IsTable(rows0)
    BY <1>1, <1>3 DEF UpdateFits, HeldFits
  <2> QED
    BY <1>2, <2>1, OverlaidNothing
<1>5. [h EXCEPT !["property"] = h["property"]] = h /\ base = h["property"]
  BY <1>1, ExceptSame DEF UpdateFits, HeldFits
<1> QED
  BY <1>1, <1>2, <1>4, <1>5 DEF UpdateFits

LEMMA InputsNothing ==
  ASSUME NEW c, NEW h, HeldFits(h), NEW next, DOMAIN next = {}
  PROVE  Inputs(c, next, h) = [held |-> h, targets |-> {}]
<1>1. Inputs(c, next, h) = Repaint(c, next, {}, h)
  BY DEF Inputs
<1>2. PICK input, base, o, r : /\ input = h["input"] /\ base = h["base"]
                               /\ o = Overlaid(next, input) /\ r = Repainted(c, next, {}, base)
  OBVIOUS
<1>3. "input" \in DOMAIN NothingHeld /\ "base" \in DOMAIN NothingHeld
  BY DEF NothingHeld
<1>4. o = input
  BY <1>2, <1>3, OverlaidNothing DEF HeldFits
<1>5. r = base
  <2>1. PICK f : Repainted(c, next, {}, base) = Overlaid(f, base) /\ DOMAIN f = {}
    <3> DEFINE Cook(i) == CookColor(c.scene, c.colors[i], [j \in DOMAIN c.colors[i].inputs |-> next[<<i, j>>]])
               table == [target \in {c.colors[i].target : i \in {}} |-> Cook(Max({i \in {} : c.colors[i].target = target}))]
    <3>1. Repainted(c, next, {}, base) = Overlaid(table, base)
      BY DEF Repainted
    <3>2. DOMAIN table = {}
      OBVIOUS
    <3> HIDE DEF table
    <3> QED
      BY <3>1, <3>2
  <2> QED
    BY <1>2, <1>3, <2>1, OverlaidNothing DEF HeldFits
<1>6. Repaint(c, next, {}, h) = [held |-> [[h EXCEPT !["input"] = o] EXCEPT !["base"] = r], targets |-> {}]
  BY <1>2 DEF Repaint
<1>7. [h EXCEPT !["input"] = o] = h /\ [h EXCEPT !["base"] = r] = h
  BY <1>2, <1>4, <1>5, ExceptSame DEF HeldFits
<1> QED
  BY <1>1, <1>6, <1>7

LEMMA WheelsNothing ==
  ASSUME NEW h, HeldFits(h), NEW next, DOMAIN next = {}
  PROVE  Wheels(next, {}, h) = [held |-> h, targets |-> {}]
<1>1. PICK base, f : base = h["wheel"] /\ f = [k \in {} |-> next[k]]
  OBVIOUS
<1>2. "wheel" \in DOMAIN NothingHeld
  BY DEF NothingHeld
<1>3. Overlaid(f, base) = base
  <2>1. DOMAIN f = {} /\ IsTable(base)
    BY <1>1, <1>2 DEF HeldFits
  <2> QED
    BY <2>1, OverlaidNothing
<1>4. PICK o : o = Overlaid(f, base)
  OBVIOUS
<1>5. {k \in DOMAIN next : next[k] # Held(h.wheel, k, None)} = {}
  OBVIOUS
<1>6. Wheels(next, {}, h) = [held |-> [h EXCEPT !["wheel"] = o], targets |-> {}]
  BY <1>1, <1>4, <1>5 DEF Wheels
<1>7. [h EXCEPT !["wheel"] = base] = h
  BY <1>1, ExceptSame DEF HeldFits
<1> QED
  BY <1>3, <1>4, <1>6, <1>7

LEMMA LitNothing ==
  ASSUME NEW update, UpdateFits(update), NEW light, DOMAIN light = {}
  PROVE  Lit(update, light) = update
<1>1. PICK h, rows0, base : h = update.held /\ rows0 = update.rows /\ base = h["color"]
  OBVIOUS
<1>2. PICK g : g = [k \in {<<"color", t>> : t \in {}} |-> [light |-> light[k[2]]]]
  OBVIOUS
<1>3. "color" \in DOMAIN NothingHeld
  BY DEF NothingHeld
<1>4. Overlaid(light, base) = base /\ Overlaid(g, rows0) = rows0
  <2>1. DOMAIN g = {} /\ IsTable(base) /\ IsTable(rows0)
    BY <1>1, <1>2, <1>3 DEF UpdateFits, HeldFits
  <2> QED
    BY <2>1, OverlaidNothing
<1>5. [h EXCEPT !["color"] = base] = h
  BY <1>1, ExceptSame DEF UpdateFits, HeldFits
<1>6. Lit(update, light) = Update([h EXCEPT !["color"] = Overlaid(light, base)], Overlaid(g, rows0))
  BY <1>1, <1>2 DEF Lit
<1> QED
  BY <1>1, <1>4, <1>5, <1>6 DEF UpdateFits

LEMMA NothingDirty ==
  ASSUME NEW c, NEW u, NEW sources, NEW raw, NEW ready, NEW now0, NEW update, UpdateFits(update)
  PROVE  UpdateUniverse(c, u, {}, sources, raw, ready, now0, update) = update
<1>1. \A domain : Keys({}, domain) = {}
  BY DEF Keys
<1>2. DOMAIN NothingHeld = {"transform", "property", "input", "base", "wheel", "color", "gobo", "motion", "shutter"}
  BY DEF NothingHeld
<1>3. ShutterDomain(c, {}, raw, now0, update) = update
  <2>1. PICK next : ShutterDomain(c, {}, raw, now0, update) = Shutters(update, next) /\ DOMAIN next = {}
    <3> DEFINE next == [l \in Keys({}, "shutter") |-> UpdateShutter(Held(update.held.shutter, l, NoShutter),
                                                                   CommandedShutter(c, ShuttersOf(c, l), raw), now0)]
    <3>1. ShutterDomain(c, {}, raw, now0, update) = Shutters(update, next) /\ DOMAIN next = {}
      BY <1>1, TabulatedIs DEF ShutterDomain
    <3> HIDE DEF next
    <3> QED
      BY <3>1
  <2>2. Renewed(update.held.shutter, next, NoShutter) = {}
    BY <2>1 DEF Renewed
  <2> QED
    BY <1>2, <2>1, <2>2, AdoptNothing DEF Shutters, AdoptRenewed
<1>4. GoboDomain(c, u, {}, raw, update) = update
  <2>1. PICK next : GoboDomain(c, u, {}, raw, update) = Gobos(update, next) /\ DOMAIN next = {}
    <3> DEFINE next == [l \in Keys({}, "gobo") |-> SelectedGobo(c, GobosOf(c, u, l), raw)]
    <3>1. GoboDomain(c, u, {}, raw, update) = Gobos(update, next) /\ DOMAIN next = {}
      BY <1>1, TabulatedIs DEF GoboDomain
    <3> HIDE DEF next
    <3> QED
      BY <3>1
  <2>2. {l \in Renewed(update.held.gobo, next, None) : next[l] # None} = {}
    BY <2>1 DEF Renewed
  <2> QED
    BY <1>2, <2>1, <2>2, AdoptNothing DEF Gobos, AdoptRenewed
<1>5. MotionDomain(c, u, {}, raw, now0, update) = update
  <2>1. PICK next : MotionDomain(c, u, {}, raw, now0, update) = Motions(update, next) /\ DOMAIN next = {}
    <3> DEFINE next == [l \in Keys({}, "motion") |-> NextRotation(c, MotionsOf(c, u, l), raw,
                                                                 Held(update.held.motion, l, NoRotation), now0)]
    <3>1. MotionDomain(c, u, {}, raw, now0, update) = Motions(update, next) /\ DOMAIN next = {}
      BY <1>1, TabulatedIs DEF MotionDomain
    <3> HIDE DEF next
    <3> QED
      BY <3>1
  <2>2. PICK kept, shown : /\ kept = {} /\ shown = {}
                           /\ Motions(update, next) = Adopt(update, "motion", next, kept, shown)
    <3>1. Renewed(update.held.motion, next, NoRotation) = {}
      BY <2>1 DEF Renewed
    <3>2. {l \in DOMAIN next : Rotation(next[l]) # Rotation(Held(update.held.motion, l, NoRotation))} = {}
      BY <2>1
    <3> QED
      BY <3>1, <3>2 DEF Motions
  <2> QED
    BY <1>2, <2>1, <2>2, AdoptNothing
<1>6. PICK readings : readings = Readings(c, {}, raw) /\ DOMAIN readings = {}
  <2>1. DOMAIN Readings(c, {}, raw) = {}
    <3> DEFINE table == [i \in Keys({}, "property") |-> ReadProperty(c.programs, c.properties[i].inputs, raw)]
    <3>1. Readings(c, {}, raw) = table
      BY TabulatedIs DEF Readings
    <3>2. DOMAIN table = {}
      BY <1>1
    <3> HIDE DEF table
    <3> QED
      BY <3>1, <3>2
  <2> QED
    BY <2>1
<1>7. PropertyDomain(c, readings, update) = update
  <2> DEFINE mine == {i \in DOMAIN readings : c.properties[i].parameter \in {"dimmer", "zoom"} /\ readings[i].valid}
             next == [i \in mine |-> IF c.properties[i].parameter = "dimmer"
                                     THEN readings[i].normalized ELSE readings[i].physical]
  <2>1. PropertyDomain(c, readings, update) = Properties(c, next, update)
    BY TabulatedIs DEF PropertyDomain
  <2>2. DOMAIN next = {}
    BY <1>6
  <2> HIDE DEF next
  <2> QED
    BY <2>1, <2>2, PropertiesNothing
<1>8. PICK h : h = update.held /\ HeldFits(h)
  BY DEF UpdateFits
<1>9. ColorDomain(c, {}, sources, raw, ready, h) = [held |-> h, targets |-> {}]
  <2>1. PICK next : ColorDomain(c, {}, sources, raw, ready, h) = Inputs(c, next, h) /\ DOMAIN next = {}
    <3> DEFINE keys == UNION {{<<i, j>> : j \in DOMAIN c.colors[i].inputs} : i \in Keys({}, "color")}
               next == [k \in keys |-> InputValue(c, sources, raw, ready, h, k, c.colors[k[1]].inputs[k[2]])]
    <3>1. ColorDomain(c, {}, sources, raw, ready, h) = Inputs(c, next, h)
      BY TabulatedIs DEF ColorDomain
    <3>2. keys = {}
      BY <1>1
    <3>3. DOMAIN next = {}
      BY <3>2
    <3> HIDE DEF next
    <3> QED
      BY <3>1, <3>3
  <2> QED
    BY <1>8, <2>1, InputsNothing
<1>10. WheelDomain(c, u, {}, raw, {}, h) = [held |-> h, targets |-> {}]
  <2>1. PICK next : WheelDomain(c, u, {}, raw, {}, h) = Wheels(next, {}, h) /\ DOMAIN next = {}
    <3> DEFINE keys == Keys({}, "wheel")
                       \cup {<<b.target, b.wheel>> : b \in {x \in Range(c.wheels) : x.target \in {} /\ InUniverse(c, u, x)}}
               next == [k \in keys |-> NextWheel(c, Held(h.wheel, k, None),
                                                 ActiveWheel(c.programs, WheelsOf(c, u, k), raw), raw)]
    <3>1. WheelDomain(c, u, {}, raw, {}, h) = Wheels(next, {}, h)
      BY TabulatedIs DEF WheelDomain
    <3>2. keys = {}
      BY <1>1
    <3>3. DOMAIN next = {}
      BY <3>2
    <3> HIDE DEF next
    <3> QED
      BY <3>1, <3>3
  <2> QED
    BY <1>8, <2>1, WheelsNothing
<1>11. ColorsAndWheels(c, u, {}, sources, raw, ready, update) = update
  <2>1. PICK wheels : wheels = [held |-> h, targets |-> {}]
    OBVIOUS
  <2>2. wheels.held = h /\ wheels.targets = {}
    BY <2>1
  <2>3. ColorsAndWheels(c, u, {}, sources, raw, ready, update) = Layered(wheels, update.rows)
    BY <1>8, <1>9, <1>10, <2>1, <2>2 DEF ColorsAndWheels, Coloured
  <2>4. Layered(wheels, update.rows) = ComposeTargets({}, update)
    BY <1>8, <2>2 DEF Layered, UpdateFits
  <2>5. PICK light : ComposeTargets({}, update) = Lit(update, light) /\ DOMAIN light = {}
    <3> DEFINE light == [t \in {} |-> Composed(update.held, t)]
    <3>1. ComposeTargets({}, update) = Lit(update, light) /\ DOMAIN light = {}
      BY TabulatedIs DEF ComposeTargets
    <3> HIDE DEF light
    <3> QED
      BY <3>1
  <2> QED
    BY <2>3, <2>4, <2>5, LitNothing
<1>12. TransformDomain(c, readings, update) = update
  <2>1. PICK next : TransformDomain(c, readings, update) = Transforms(update, next) /\ DOMAIN next = {}
    <3>1. Turned(c, readings) = {}
      BY <1>6 DEF Turned
    <3>2. PICK next : next = NextTransforms(c, readings, update.held.transform)
      OBVIOUS
    <3>3. DOMAIN next = {}
      BY <3>1, <3>2 DEF NextTransforms
    <3>4. TransformDomain(c, readings, update) = Transforms(update, next)
      BY <3>2, TransformIs
    <3> QED
      BY <3>3, <3>4
  <2>2. PICK shown : /\ shown = {}
                     /\ Transforms(update, next) = Adopt(update, "transform", next, DOMAIN next, shown)
    <3>1. {f \in DOMAIN next : ~StillAt(update, f, next[f])} = {}
      BY <2>1
    <3> QED
      BY <3>1 DEF Transforms
  <2> QED
    BY <1>2, <2>1, <2>2, AdoptNothing
<1> QED
  BY <1>3, <1>4, <1>5, <1>6, <1>7, <1>11, <1>12 DEF UpdateUniverse

-----------------------------------------------------------------------------
(* What an evaluation reads *)

(* Two readings of the sources that agree where bindings look.              *)
ChainAgrees(chain, raw1, raw2) == \A i \in DOMAIN chain : raw1[chain[i]] = raw2[chain[i]]
BindingsAgree(bindings, raw1, raw2) ==
  \A i \in DOMAIN bindings : /\ raw1[bindings[i].source] = raw2[bindings[i].source]
                             /\ ChainAgrees(bindings[i].chain, raw1, raw2)

LEMMA ActiveReads ==
  ASSUME NEW programs, NEW chain, NEW raw1, NEW raw2, ChainAgrees(chain, raw1, raw2)
  PROVE  Active(programs, chain, raw1) <=> Active(programs, chain, raw2)
<1>1. \A p : Switched(p, raw1, chain) <=> Switched(p, raw2, chain)
  <2> TAKE p
  <2>1. p.master \in ToSet(chain) => raw1[p.master] = raw2[p.master]
    BY DEF ToSet, ChainAgrees
  <2> QED
    BY <2>1 DEF Switched
<1>2. \A i \in DOMAIN chain : Within(raw1[chain[i]], programs[chain[i]]) <=> Within(raw2[chain[i]], programs[chain[i]])
  BY DEF ChainAgrees
<1>3. ASSUME NEW r, NEW t,
             \A p : Switched(p, r, chain) <=> Switched(p, t, chain),
             \A i \in DOMAIN chain : Within(r[chain[i]], programs[chain[i]]) <=> Within(t[chain[i]], programs[chain[i]]),
             Active(programs, chain, r)
      PROVE  Active(programs, chain, t)
  <2>1. PICK stop \in DOMAIN chain :
          /\ \A i \in DOMAIN chain : i <= stop => programs[chain[i]].valid /\ Within(r[chain[i]], programs[chain[i]])
          /\ \A i \in DOMAIN chain : i < stop => programs[chain[i]].kind = "function" /\ Switched(programs[chain[i]], r, chain)
          /\ LET p == programs[chain[stop]]
             IN p.kind = "none" \/ (p.kind = "channel" /\ Switched(p, r, chain))
    BY <1>3 DEF Active
  <2>2. \A i \in DOMAIN chain : i <= stop => programs[chain[i]].valid /\ Within(t[chain[i]], programs[chain[i]])
    BY <1>3, <2>1
  <2>3. \A i \in DOMAIN chain : i < stop => programs[chain[i]].kind = "function" /\ Switched(programs[chain[i]], t, chain)
    BY <1>3, <2>1
  <2>4. LET p == programs[chain[stop]]
        IN p.kind = "none" \/ (p.kind = "channel" /\ Switched(p, t, chain))
    BY <1>3, <2>1
  <2> QED
    BY <2>2, <2>3, <2>4 DEF Active
<1> QED
  BY <1>1, <1>2, <1>3

LEMMA CommandReads ==
  ASSUME NEW c, NEW bindings, NEW raw1, NEW raw2, BindingsAgree(bindings, raw1, raw2),
         NEW n \in Nat, DOMAIN bindings \subseteq 1..n
  PROVE  CommandedShutter(c, bindings, raw1) = CommandedShutter(c, bindings, raw2)
<1> DEFINE hits(raw) == {i \in DOMAIN bindings : /\ Active(c.programs, bindings[i].chain, raw)
                                                 /\ Within(raw[bindings[i].source], bindings[i])
                                                 /\ ModeFits(bindings[i], raw)}
           active(raw) == [i \in hits(raw) |-> bindings[i]]
           durations(a) == Where(a, LAMBDA b : b.wave = "duration")
           waves(a) == Where(a, LAMBDA b : b.wave # "duration")
           Several(s) == Cardinality(DOMAIN s) > 1
           command(a, raw) == Commanded(Several(waves(a)) \/ Several(durations(a)), Wanted(waves(a), durations(a), raw))
<1>1. \A raw : CommandedShutter(c, bindings, raw) = command(active(raw), raw)
  BY DEF CommandedShutter, Where
<1>2. hits(raw1) = hits(raw2)
  <2>1. ASSUME NEW i \in DOMAIN bindings
        PROVE  /\ Active(c.programs, bindings[i].chain, raw1) <=> Active(c.programs, bindings[i].chain, raw2)
               /\ Within(raw1[bindings[i].source], bindings[i]) <=> Within(raw2[bindings[i].source], bindings[i])
               /\ ModeFits(bindings[i], raw1) <=> ModeFits(bindings[i], raw2)
    <3>1. PICK b, chain : b = bindings[i] /\ chain = b.chain
      OBVIOUS
    <3>2. raw1[b.source] = raw2[b.source] /\ ChainAgrees(chain, raw1, raw2)
      BY <3>1 DEF BindingsAgree
    <3>3. Active(c.programs, chain, raw1) <=> Active(c.programs, chain, raw2)
      BY <3>2, ActiveReads
    <3>4. 2 \in DOMAIN chain => raw1[chain[2]] = raw2[chain[2]]
      BY <3>2 DEF ChainAgrees
    <3>5. ModeFits(b, raw1) <=> ModeFits(b, raw2)
      BY <3>1, <3>4 DEF ModeFits
    <3> QED
      BY <3>1, <3>2, <3>3, <3>5
  <2> QED
    BY <2>1
<1>3. PICK a : a = active(raw1) /\ a = active(raw2) /\ DOMAIN a \subseteq DOMAIN bindings
               /\ \A i \in DOMAIN a : a[i] = bindings[i]
  <2>1. PICK h : h = hits(raw1) /\ h = hits(raw2) /\ h \subseteq DOMAIN bindings
    BY <1>2
  <2> HIDE DEF hits
  <2>2. active(raw1) = [i \in h |-> bindings[i]] /\ active(raw2) = [i \in h |-> bindings[i]]
    BY <2>1
  <2>3. PICK a : a = [i \in h |-> bindings[i]]
    OBVIOUS
  <2>4. a = active(raw1) /\ a = active(raw2)
    BY <2>2, <2>3
  <2>5. DOMAIN a = h /\ \A i \in h : a[i] = bindings[i]
    BY <2>3
  <2> HIDE DEF active
  <2> QED
    BY <2>1, <2>4, <2>5
<1>4. PICK w, d : /\ w = waves(a) /\ d = durations(a)
  OBVIOUS
<1>5. /\ DOMAIN w \in SUBSET (1..n) /\ DOMAIN d \in SUBSET (1..n)
      /\ \A i \in DOMAIN w : i \in DOMAIN bindings /\ w[i] = bindings[i]
      /\ \A i \in DOMAIN d : i \in DOMAIN bindings /\ d[i] = bindings[i]
  BY <1>3, <1>4 DEF Where
<1>6. ASSUME NEW s, DOMAIN s \in SUBSET (1..n), DOMAIN s # {},
             \A i \in DOMAIN s : i \in DOMAIN bindings /\ s[i] = bindings[i]
      PROVE  ShutterValue(Latest(s), raw1) = ShutterValue(Latest(s), raw2)
  <2>1. Max(DOMAIN s) \in DOMAIN s
    BY <1>6, LastPlace
  <2>2. PICK b : b = Latest(s)
    OBVIOUS
  <2>3. raw1[b.source] = raw2[b.source]
    BY <1>6, <2>1, <2>2 DEF Latest, BindingsAgree
  <2> QED
    BY <2>2, <2>3 DEF ShutterValue
<1>7. Wanted(w, d, raw1) = Wanted(w, d, raw2)
  <2>1. DOMAIN w # {} => ShutterValue(Latest(w), raw1) = ShutterValue(Latest(w), raw2)
    BY <1>5, <1>6
  <2>2. DOMAIN d # {} => ShutterValue(Latest(d), raw1) = ShutterValue(Latest(d), raw2)
    BY <1>5, <1>6
  <2> DEFINE wanted(raw) == IF DOMAIN w = {} THEN OpenShutter
                ELSE [wave |-> Latest(w).wave, function |-> IF Latest(w).function # 0 THEN Latest(w).function ELSE Latest(w).source,
                      duration |-> Latest(w).duration,
                      frequency |-> IF Periodic(Latest(w).wave) THEN ShutterValue(Latest(w), raw) ELSE 0]
  <2>3. \A raw : Wanted(w, d, raw) = IF DOMAIN d = {} THEN wanted(raw)
                                     ELSE [wanted(raw) EXCEPT !.duration = ShutterValue(Latest(d), raw)]
    BY DEF Wanted
  <2>4. wanted(raw1) = wanted(raw2)
    BY <2>1
  <2> HIDE DEF wanted
  <2> QED
    BY <2>2, <2>3, <2>4
<1>8. command(a, raw1) = command(a, raw2)
  <2>1. PICK ambiguous : ambiguous = (Several(w) \/ Several(d))
    OBVIOUS
  <2>2. \A raw : command(a, raw) = Commanded(Several(w) \/ Several(d), Wanted(w, d, raw))
    BY <1>4
  <2> HIDE DEF command, Several
  <2> QED
    BY <1>7, <2>2
<1> HIDE DEF command, active
<1> QED
  BY <1>1, <1>3, <1>8

LEMMA GoboReads ==
  ASSUME NEW c, NEW bindings, NEW raw1, NEW raw2, BindingsAgree(bindings, raw1, raw2),
         DOMAIN bindings \subseteq Nat
  PROVE  SelectedGobo(c, bindings, raw1) = SelectedGobo(c, bindings, raw2)
<1> DEFINE Set(b, raw) == FirstOf(b.sets, LAMBDA s : Within(raw[b.source], s))
           hits(raw) == {i \in DOMAIN bindings : /\ Active(c.programs, bindings[i].chain, raw)
                                                 /\ Set(bindings[i], raw) # None}
           hit(raw) == IF hits(raw) = {} THEN None ELSE bindings[Min(hits(raw))]
<1>1. \A raw : SelectedGobo(c, bindings, raw)
                 = IF hit(raw) = None THEN None ELSE Selection(c, hit(raw), Set(hit(raw), raw))
  BY DEF SelectedGobo, FirstOf
<1>2. ASSUME NEW b, raw1[b.source] = raw2[b.source]
      PROVE  Set(b, raw1) = Set(b, raw2)
  BY <1>2 DEF FirstOf
<1> HIDE DEF Set
<1>3. hits(raw1) = hits(raw2)
  <2>1. ASSUME NEW i \in DOMAIN bindings
        PROVE  /\ Active(c.programs, bindings[i].chain, raw1) <=> Active(c.programs, bindings[i].chain, raw2)
               /\ Set(bindings[i], raw1) = Set(bindings[i], raw2)
    <3>1. PICK b, chain : b = bindings[i] /\ chain = b.chain
      OBVIOUS
    <3>2. raw1[b.source] = raw2[b.source] /\ ChainAgrees(chain, raw1, raw2)
      BY <3>1 DEF BindingsAgree
    <3>3. Active(c.programs, chain, raw1) <=> Active(c.programs, chain, raw2)
      BY <3>2, ActiveReads
    <3> QED
      BY <1>2, <3>1, <3>2, <3>3
  <2> QED
    BY <2>1
<1>4. PICK h : h = hits(raw1) /\ h = hits(raw2) /\ h \subseteq DOMAIN bindings
  BY <1>3
<1> HIDE DEF hits
<1>5. PICK b : b = hit(raw1) /\ b = hit(raw2)
  BY <1>4
<1>6. b # None => raw1[b.source] = raw2[b.source]
  <2>1. b \in {None} \cup {bindings[i] : i \in h}
    BY <1>4, <1>5, FirstChosen
  <2> QED
    BY <1>4, <2>1 DEF BindingsAgree
<1> HIDE DEF hit
<1>7. b # None => Set(b, raw1) = Set(b, raw2)
  BY <1>2, <1>6
<1> QED
  BY <1>1, <1>5, <1>7

LEMMA ActiveMotionReads ==
  ASSUME NEW c, NEW bindings, NEW raw1, NEW raw2, BindingsAgree(bindings, raw1, raw2),
         DOMAIN bindings \subseteq Nat, NEW kind
  PROVE  /\ ActiveMotion(c, bindings, kind, raw1) = ActiveMotion(c, bindings, kind, raw2)
         /\ ActiveMotion(c, bindings, kind, raw1) = None
            \/ MotionValue(c.programs, ActiveMotion(c, bindings, kind, raw1), raw1)
                 = MotionValue(c.programs, ActiveMotion(c, bindings, kind, raw1), raw2)
<1> DEFINE hits(raw) == {i \in DOMAIN bindings : bindings[i].kind = kind /\ Active(c.programs, bindings[i].chain, raw)}
           hit(raw) == IF hits(raw) = {} THEN None ELSE bindings[Min(hits(raw))]
<1>1. \A raw : ActiveMotion(c, bindings, kind, raw) = hit(raw)
  BY DEF ActiveMotion, FirstOf
<1>2. hits(raw1) = hits(raw2)
  <2>1. ASSUME NEW i \in DOMAIN bindings
        PROVE  Active(c.programs, bindings[i].chain, raw1) <=> Active(c.programs, bindings[i].chain, raw2)
    BY ActiveReads DEF BindingsAgree
  <2> QED
    BY <2>1
<1>3. PICK h : h = hits(raw1) /\ h = hits(raw2) /\ h \subseteq DOMAIN bindings
  BY <1>2
<1> HIDE DEF hits
<1>4. PICK b : b = hit(raw1) /\ b = hit(raw2)
  BY <1>3
<1>5. b # None => raw1[b.source] = raw2[b.source]
  <2>1. b \in {None} \cup {bindings[i] : i \in h}
    BY <1>3, <1>4, FirstChosen
  <2> QED
    BY <1>3, <2>1 DEF BindingsAgree
<1> HIDE DEF hit
<1>6. b # None => MotionValue(c.programs, b, raw1) = MotionValue(c.programs, b, raw2)
  BY <1>5 DEF MotionValue
<1> QED
  BY <1>1, <1>4, <1>6

LEMMA RotationReads ==
  ASSUME NEW c, NEW bindings, NEW raw1, NEW raw2, BindingsAgree(bindings, raw1, raw2),
         DOMAIN bindings \subseteq Nat, NEW old, NEW at
  PROVE  NextRotation(c, bindings, raw1, old, at) = NextRotation(c, bindings, raw2, old, at)
<1>1. PICK pos, rotate, programs : /\ pos = ActiveMotion(c, bindings, "pos", raw1)
                                   /\ rotate = ActiveMotion(c, bindings, "rotate", raw1)
                                   /\ programs = c.programs
  OBVIOUS
<1>2. /\ pos = ActiveMotion(c, bindings, "pos", raw2)
      /\ rotate = ActiveMotion(c, bindings, "rotate", raw2)
      /\ pos # None => MotionValue(programs, pos, raw1) = MotionValue(programs, pos, raw2)
      /\ rotate # None => MotionValue(programs, rotate, raw1) = MotionValue(programs, rotate, raw2)
  BY <1>1, ActiveMotionReads
<1>3. Rotated(programs, pos, rotate, raw1, old, at) = Rotated(programs, pos, rotate, raw2, old, at)
  BY <1>2 DEF Rotated
<1> QED
  BY <1>1, <1>2, <1>3 DEF NextRotation

(* The values of a property's inputs decide what it reads.                  *)
LEMMA ReadingReads ==
  ASSUME NEW programs, NEW inputs, NEW raw1, NEW raw2,
         \A i \in DOMAIN inputs : raw1[inputs[i].source] = raw2[inputs[i].source]
  PROVE  ReadProperty(programs, inputs, raw1) = ReadProperty(programs, inputs, raw2)
<1> DEFINE Locals(raw) == [i \in DOMAIN inputs |-> Local(programs[inputs[i].source], raw[inputs[i].source])]
           Physicals(raw) == [i \in DOMAIN inputs |-> Physical(programs[inputs[i].source], raw[inputs[i].source])]
           hits(raw) == {i \in DOMAIN inputs : Within(raw[inputs[i].source], programs[inputs[i].source])}
           weight == SumOf([i \in DOMAIN inputs |-> inputs[i].weight])
           Mean(values) == SumOf([i \in DOMAIN inputs |-> values[i] * inputs[i].weight]) \div weight
<1>1. \A raw : ReadProperty(programs, inputs, raw)
                 = IF RangeSelector(programs, inputs)
                   THEN IF hits(raw) = {} THEN NoReading
                        ELSE Reading(Locals(raw)[Min(hits(raw))], Physicals(raw)[Min(hits(raw))])
                   ELSE IF weight = 0 THEN NoReading ELSE Reading(Mean(Locals(raw)), Mean(Physicals(raw)))
  BY DEF ReadProperty
<1>2. Locals(raw1) = Locals(raw2) /\ Physicals(raw1) = Physicals(raw2) /\ hits(raw1) = hits(raw2)
  OBVIOUS
<1> HIDE DEF Locals, Physicals, hits, weight, Mean
<1> QED
  BY <1>1, <1>2

LEMMA WheelReads ==
  ASSUME NEW c, NEW bindings, NEW raw1, NEW raw2, NEW previous,
         \A i \in DOMAIN bindings : raw1[bindings[i].source] = raw2[bindings[i].source]
  PROVE  NextWheel(c, previous, ActiveWheel(c.programs, bindings, raw1), raw1)
           = NextWheel(c, previous, ActiveWheel(c.programs, bindings, raw2), raw2)
<1> DEFINE hits(raw) == {b \in Range(bindings) : Within(raw[b.source], c.programs[b.source])}
           first(h) == {b \in h : \A d \in h : ~WheelOrder(c.programs, d, b)}
<1>1. \A raw : ActiveWheel(c.programs, bindings, raw)
                 = IF first(hits(raw)) = {} THEN None ELSE CHOOSE b \in first(hits(raw)) : TRUE
  BY DEF ActiveWheel
<1>2. hits(raw1) = hits(raw2)
  BY DEF Range
<1>3. PICK f : f = first(hits(raw1)) /\ f = first(hits(raw2)) /\ f \subseteq Range(bindings)
  BY <1>2
<1> HIDE DEF first, hits
<1>4. PICK b : b = IF f = {} THEN None ELSE CHOOSE x \in f : TRUE
  OBVIOUS
<1>5. \A raw : f = first(hits(raw)) => b = ActiveWheel(c.programs, bindings, raw)
  BY <1>1, <1>4
<1>6. b # None => raw1[b.source] = raw2[b.source]
  <2>1. b # None => b \in f
    BY <1>4
  <2> QED
    BY <1>3, <2>1 DEF Range
<1>7. NextWheel(c, previous, b, raw1) = NextWheel(c, previous, b, raw2)
  BY <1>6 DEF NextWheel
<1>8. ActiveWheel(c.programs, bindings, raw1) = b
  BY <1>3, <1>5
<1>9. ActiveWheel(c.programs, bindings, raw2) = b
  BY <1>3, <1>5
<1> QED
  BY <1>7, <1>8, <1>9

-----------------------------------------------------------------------------
(* What a consumer reads *)

(* Cores that agree on what is accepted have the same consumers.            *)
LEMMA ConsumersSame ==
  ASSUME NEW a, NEW c, NEW u,
         a.programs = c.programs, a.owner = c.owner, a.properties = c.properties, a.colors = c.colors,
         a.wheels = c.wheels, a.gobos = c.gobos, a.motions = c.motions, a.shutters = c.shutters
  PROVE  ConsumersOf(a, u) = ConsumersOf(c, u)
<1>1. \A b : InUniverse(a, u, b) <=> InUniverse(c, u, b)
  BY DEF InUniverse
<1>2. PropertiesOf(a, u) = PropertiesOf(c, u) /\ ColorsOf(a, u) = ColorsOf(c, u)
  BY <1>1 DEF PropertiesOf, ColorsOf
<1>3. \A l : /\ GobosOf(a, u, l) = GobosOf(c, u, l) /\ MotionsOf(a, u, l) = MotionsOf(c, u, l)
             /\ ShuttersOf(a, l) = ShuttersOf(c, l)
  BY <1>1 DEF GobosOf, MotionsOf, ShuttersOf, Where
<1>4. \A S : Cascade(a, S) = Cascade(c, S)
  BY DEF Cascade
<1> QED
  BY <1>1, <1>2, <1>3, <1>4 DEF ConsumersOf

(* What the proofs need of an installed scene.                              *)
ChainsInstalled(programs, bindings) ==
  \A i \in DOMAIN bindings : bindings[i].chain = Chain(programs, bindings[i].source)
SourcesInstalled(parts) == \A i \in DOMAIN parts : Sources(parts[i].inputs) # {}
PlanInstalled(c, u) ==
  c.plans[u].consumers = ConsumersOf(c, u) /\ c.plans[u].sources = SourcesOf(ConsumersOf(c, u))
CoreFits(c) ==
  /\ \E n \in Nat : DOMAIN c.properties \subseteq 1..n
  /\ \E n \in Nat : DOMAIN c.colors \subseteq 1..n
  /\ \E n \in Nat : DOMAIN c.shutters \subseteq 1..n
  /\ DOMAIN c.gobos \subseteq Nat /\ DOMAIN c.motions \subseteq Nat
  /\ ChainsInstalled(c.programs, c.gobos)
  /\ ChainsInstalled(c.programs, c.motions)
  /\ ChainsInstalled(c.programs, c.shutters)
  /\ SourcesInstalled(c.properties) /\ SourcesInstalled(c.colors)
  /\ \A u \in DOMAIN c.plans : PlanInstalled(c, u)

LEMMA CoreTakes ==
  ASSUME NEW s \in DOMAIN Scenes
  PROVE  /\ Cores[s].properties = AcceptedOf(s).properties /\ Cores[s].colors = AcceptedOf(s).colors
         /\ Cores[s].wheels = AcceptedOf(s).wheels /\ Cores[s].gobos = AcceptedOf(s).gobos
<1>1. Cores[s] = Core(Scenes[s])
  BY TabulatedIs DEF Cores
<1>2. Core(Scenes[s]) = WithPlans(AcceptedOf(s))
  BY TabulatedIs DEF Core, AcceptedOf, ShuttersIn
<1>3. {"properties", "colors", "wheels", "gobos"} \subseteq DOMAIN AcceptedOf(s) \ {"plans"}
  BY DEF AcceptedOf, Accepted
<1> QED
  BY <1>1, <1>2, <1>3, WithPlansIs

LEMMA PlansInstalled ==
  ASSUME NEW s \in DOMAIN Scenes, NEW u \in DOMAIN Cores[s].plans
  PROVE  PlanInstalled(Cores[s], u)
<1>1. PICK a, c : a = AcceptedOf(s) /\ c = Cores[s]
  OBVIOUS
<1>2. c.plans[u] = PlanOf(a, ConsumersOf(a, u))
  BY <1>1, CoreIs DEF Plan
<1>3. ConsumersOf(a, u) = ConsumersOf(c, u)
  BY <1>1, CoreIs, CoreTakes, ConsumersSame
<1>4. PICK consumers : consumers = ConsumersOf(a, u)
  OBVIOUS
<1>5. PlanOf(a, consumers).consumers = consumers /\ PlanOf(a, consumers).sources = SourcesOf(consumers)
  BY DEF PlanOf
<1> QED
  BY <1>1, <1>2, <1>3, <1>4, <1>5 DEF PlanInstalled

LEMMA ChainsAreIn ==
  ASSUME NEW programs, NEW all, \A b \in Range(all) : "chain" \in DOMAIN b,
         NEW bindings,
         \A i \in DOMAIN bindings : i \in DOMAIN all /\ bindings[i] = Chained(programs, all)[i]
  PROVE  ChainsInstalled(programs, bindings)
<1>1. ASSUME NEW i \in DOMAIN bindings
      PROVE  bindings[i].chain = Chain(programs, bindings[i].source)
  <2>1. i \in DOMAIN all /\ bindings[i] = Chained(programs, all)[i]
    BY <1>1
  <2>2. PICK b, chain : b = all[i] /\ chain = Chain(programs, b.source)
    OBVIOUS
  <2>3. "chain" \in DOMAIN b
    BY <2>1, <2>2 DEF Range
  <2>4. bindings[i] = [b EXCEPT !.chain = chain]
    BY <2>1, <2>2 DEF Chained
  <2> QED
    BY <2>2, <2>3, <2>4
<1> QED
  BY <1>1 DEF ChainsInstalled

LEMMA SceneLength ==
  ASSUME NEW x, x \in Seq(Range(x))
  PROVE  Len(x) \in Nat /\ DOMAIN x = 1..Len(x)
BY LenProperties

LEMMA InstalledFits ==
  ASSUME NEW s \in DOMAIN Scenes
  PROVE  CoreFits(Cores[s])
<1>1. PICK P, c, scene : P = Programs(Scenes[s]) /\ c = Cores[s] /\ scene = Scenes[s]
  OBVIOUS
<1>2. \A i \in DOMAIN c.properties : i \in DOMAIN scene.properties /\ ValidProperty(P, c.properties[i])
  BY <1>1, CoreIs, CoreTakes DEF AcceptedOf, Accepted, Where
<1>3. \A i \in DOMAIN c.colors : i \in DOMAIN scene.colors /\ ValidColor(P, c.colors[i])
  BY <1>1, CoreIs, CoreTakes DEF AcceptedOf, Accepted, Where
<1>4. \A i \in DOMAIN c.gobos : i \in DOMAIN Chained(P, scene.gobos) /\ c.gobos[i] = Chained(P, scene.gobos)[i]
  <2>1. \A i \in DOMAIN Cores[s].gobos :
          /\ i \in DOMAIN Chained(Programs(Scenes[s]), Scenes[s].gobos)
          /\ Cores[s].gobos[i] = Chained(Programs(Scenes[s]), Scenes[s].gobos)[i]
    <3>1. \A i \in DOMAIN AcceptedOf(s).gobos :
            /\ i \in DOMAIN Chained(Programs(Scenes[s]), Scenes[s].gobos)
            /\ AcceptedOf(s).gobos[i] = Chained(Programs(Scenes[s]), Scenes[s].gobos)[i]
      BY DEF AcceptedOf, Accepted, Where
    <3> QED
      BY <3>1, CoreTakes
  <2> QED
    BY <1>1, <2>1
<1>5. \A i \in DOMAIN c.motions : i \in DOMAIN Chained(P, scene.motions) /\ c.motions[i] = Chained(P, scene.motions)[i]
  <2>1. \A i \in DOMAIN Cores[s].motions :
          /\ i \in DOMAIN Chained(Programs(Scenes[s]), Scenes[s].motions)
          /\ Cores[s].motions[i] = Chained(Programs(Scenes[s]), Scenes[s].motions)[i]
    BY CoreIs DEF AcceptedOf, Accepted, Where
  <2> QED
    BY <1>1, <2>1
<1>6. /\ \A i \in DOMAIN c.shutters : /\ i \in DOMAIN Chained(P, scene.shutters)
                                      /\ c.shutters[i] = Chained(P, scene.shutters)[i]
  <2>1. /\ DOMAIN c.shutters \subseteq DOMAIN ShuttersIn(s)
        /\ \A i \in DOMAIN c.shutters : c.shutters[i] = ShuttersIn(s)[i]
    BY <1>1, CoreIs DEF AcceptedOf, Accepted, Where
  <2>2. /\ DOMAIN ShuttersIn(s) \subseteq DOMAIN Chained(P, scene.shutters)
        /\ \A i \in DOMAIN ShuttersIn(s) : ShuttersIn(s)[i] = Chained(P, scene.shutters)[i]
    BY <1>1 DEF ShuttersIn, AcceptedShutters, Where
  <2> QED
    BY <2>1, <2>2
<1>7. /\ scene.properties \in Seq(Range(scene.properties)) /\ scene.colors \in Seq(Range(scene.colors))
      /\ scene.gobos \in Seq(Range(scene.gobos)) /\ scene.motions \in Seq(Range(scene.motions))
      /\ scene.shutters \in Seq(Range(scene.shutters))
      /\ \A b \in Range(scene.gobos) : "chain" \in DOMAIN b
      /\ \A b \in Range(scene.motions) : "chain" \in DOMAIN b
      /\ \A b \in Range(scene.shutters) : "chain" \in DOMAIN b
  BY <1>1, ScenesAssumption
<1>8. \A all : DOMAIN Chained(P, all) = DOMAIN all
  BY DEF Chained
<1>9. ChainsInstalled(P, c.gobos) /\ ChainsInstalled(P, c.motions) /\ ChainsInstalled(P, c.shutters)
  <2>1. PICK gobos, motions, shutters : gobos = scene.gobos /\ motions = scene.motions /\ shutters = scene.shutters
    OBVIOUS
  <2>2. PICK gobos1, motions1, shutters1 : gobos1 = c.gobos /\ motions1 = c.motions /\ shutters1 = c.shutters
    OBVIOUS
  <2>3. ChainsInstalled(P, gobos1)
    <3>1. \A i \in DOMAIN gobos1 : i \in DOMAIN gobos /\ gobos1[i] = Chained(P, gobos)[i]
      BY <1>4, <1>8, <2>1, <2>2
    <3>2. \A b \in Range(gobos) : "chain" \in DOMAIN b
      BY <1>7, <2>1
    <3> QED
      BY <3>1, <3>2, ChainsAreIn
  <2>4. ChainsInstalled(P, motions1)
    <3>1. \A i \in DOMAIN motions1 : i \in DOMAIN motions /\ motions1[i] = Chained(P, motions)[i]
      BY <1>5, <1>8, <2>1, <2>2
    <3>2. \A b \in Range(motions) : "chain" \in DOMAIN b
      BY <1>7, <2>1
    <3> QED
      BY <3>1, <3>2, ChainsAreIn
  <2>5. ChainsInstalled(P, shutters1)
    <3>1. \A i \in DOMAIN shutters1 : i \in DOMAIN shutters /\ shutters1[i] = Chained(P, shutters)[i]
      BY <1>6, <1>8, <2>1, <2>2
    <3>2. \A b \in Range(shutters) : "chain" \in DOMAIN b
      BY <1>7, <2>1
    <3> QED
      BY <3>1, <3>2, ChainsAreIn
  <2> QED
    BY <2>2, <2>3, <2>4, <2>5
<1>10. \A inputs : OneUniverse(P, Sources(inputs)) => Sources(inputs) # {}
  BY DEF OneUniverse
<1>11. SourcesInstalled(c.properties) /\ SourcesInstalled(c.colors)
  BY <1>2, <1>3, <1>10 DEF SourcesInstalled, ValidProperty, ValidColor
<1>12. \A u \in DOMAIN c.plans : PlanInstalled(c, u)
  BY <1>1, PlansInstalled
<1>13. /\ DOMAIN c.properties \subseteq 1..Len(scene.properties) /\ Len(scene.properties) \in Nat
       /\ DOMAIN c.colors \subseteq 1..Len(scene.colors) /\ Len(scene.colors) \in Nat
       /\ DOMAIN c.shutters \subseteq 1..Len(scene.shutters) /\ Len(scene.shutters) \in Nat
       /\ DOMAIN c.gobos \subseteq Nat /\ DOMAIN c.motions \subseteq Nat
  BY <1>2, <1>3, <1>4, <1>5, <1>6, <1>7, <1>8, SceneLength
<1>14. c.programs = P
  BY <1>1, CoreIs
<1> QED
  BY <1>1, <1>9, <1>11, <1>12, <1>13, <1>14 DEF CoreFits

(* The bindings of a layer are read through the layer's consumer.           *)
BindingsWithin(bindings, sources) ==
  \A i \in DOMAIN bindings : bindings[i].source \in sources /\ Range(bindings[i].chain) \subseteq sources

LEMMA CascadeReads ==
  ASSUME NEW c, NEW all, ChainsInstalled(c.programs, all), NEW bindings,
         \A i \in DOMAIN bindings : i \in DOMAIN all /\ bindings[i] = all[i]
  PROVE  BindingsWithin(bindings, Cascade(c, Sources(bindings)))
<1>1. ASSUME NEW i \in DOMAIN bindings
      PROVE  /\ bindings[i].source \in Cascade(c, Sources(bindings))
             /\ Range(bindings[i].chain) \subseteq Cascade(c, Sources(bindings))
  <2>1. PICK b : b = bindings[i]
    OBVIOUS
  <2>2. b.source \in Sources(bindings)
    BY <2>1 DEF Sources, Range
  <2>3. b.chain = Chain(c.programs, b.source)
    BY <2>1 DEF ChainsInstalled
  <2>4. PICK S : S = Sources(bindings)
    OBVIOUS
  <2>5. b.source \in Cascade(c, S) /\ Range(Chain(c.programs, b.source)) \subseteq Cascade(c, S)
    BY <2>2, <2>4 DEF Cascade
  <2> QED
    BY <2>1, <2>3, <2>4, <2>5
<1> QED
  BY <1>1 DEF BindingsWithin

LEMMA LayerReads ==
  ASSUME NEW c, CoreFits(c), NEW u, NEW x \in ConsumersOf(c, u)
  PROVE  /\ x.domain = "shutter" => BindingsWithin(ShuttersOf(c, x.key), x.sources)
         /\ x.domain = "gobo" => BindingsWithin(GobosOf(c, u, x.key), x.sources)
         /\ x.domain = "motion" => BindingsWithin(MotionsOf(c, u, x.key), x.sources)
<1>1. \A l : /\ BindingsWithin(ShuttersOf(c, l), Cascade(c, Sources(ShuttersOf(c, l))))
             /\ BindingsWithin(GobosOf(c, u, l), Cascade(c, Sources(GobosOf(c, u, l))))
             /\ BindingsWithin(MotionsOf(c, u, l), Cascade(c, Sources(MotionsOf(c, u, l))))
  <2> TAKE l
  <2>1. \A i \in DOMAIN ShuttersOf(c, l) : i \in DOMAIN c.shutters /\ ShuttersOf(c, l)[i] = c.shutters[i]
    BY DEF ShuttersOf, Where
  <2>2. \A i \in DOMAIN GobosOf(c, u, l) : i \in DOMAIN c.gobos /\ GobosOf(c, u, l)[i] = c.gobos[i]
    BY DEF GobosOf, Where
  <2>3. \A i \in DOMAIN MotionsOf(c, u, l) : i \in DOMAIN c.motions /\ MotionsOf(c, u, l)[i] = c.motions[i]
    BY DEF MotionsOf, Where
  <2> QED
    BY <2>1, <2>2, <2>3, CascadeReads DEF CoreFits
<1>2. ASSUME x.domain = "shutter"
      PROVE  x.sources = Cascade(c, Sources(ShuttersOf(c, x.key)))
  <2>1. PICK l : x = Consumer("shutter", l, Cascade(c, Sources(ShuttersOf(c, l))))
    BY <1>2 DEF ConsumersOf, Consumer
  <2> QED
    BY <2>1 DEF Consumer
<1>3. ASSUME x.domain = "gobo"
      PROVE  x.sources = Cascade(c, Sources(GobosOf(c, u, x.key)))
  <2>1. PICK l : x = Consumer("gobo", l, Cascade(c, Sources(GobosOf(c, u, l))))
    BY <1>3 DEF ConsumersOf, Consumer
  <2> QED
    BY <2>1 DEF Consumer
<1>4. ASSUME x.domain = "motion"
      PROVE  x.sources = Cascade(c, Sources(MotionsOf(c, u, x.key)))
  <2>1. PICK l : x = Consumer("motion", l, Cascade(c, Sources(MotionsOf(c, u, l))))
    BY <1>4 DEF ConsumersOf, Consumer
  <2> QED
    BY <2>1 DEF Consumer
<1> QED
  BY <1>1, <1>2, <1>3, <1>4

(* A property and a colour have a consumer of their own; a wheel has one    *)
(* for every binding.                                                       *)
LEMMA InputReads ==
  ASSUME NEW c, NEW u, NEW x \in ConsumersOf(c, u)
  PROVE  /\ x.domain = "property" => /\ x.key \in PropertiesOf(c, u)
                                     /\ x.sources = Sources(c.properties[x.key].inputs)
         /\ x.domain = "color" => x.key \in ColorsOf(c, u) /\ x.sources = Sources(c.colors[x.key].inputs)
<1>1. ASSUME x.domain = "property"
      PROVE  x.key \in PropertiesOf(c, u) /\ x.sources = Sources(c.properties[x.key].inputs)
  <2>1. PICK i \in PropertiesOf(c, u) : x = Consumer("property", i, Sources(c.properties[i].inputs))
    BY <1>1 DEF ConsumersOf, Consumer
  <2> QED
    BY <2>1 DEF Consumer
<1>2. ASSUME x.domain = "color"
      PROVE  x.key \in ColorsOf(c, u) /\ x.sources = Sources(c.colors[x.key].inputs)
  <2>1. PICK i \in ColorsOf(c, u) : x = Consumer("color", i, Sources(c.colors[i].inputs))
    BY <1>2 DEF ConsumersOf, Consumer
  <2> QED
    BY <2>1 DEF Consumer
<1> QED
  BY <1>1, <1>2

LEMMA WheelConsumers ==
  ASSUME NEW c, NEW u, NEW k, NEW i \in DOMAIN WheelsOf(c, u, k)
  PROVE  \E x \in ConsumersOf(c, u) : /\ x.domain = "wheel" /\ x.key = k
                                      /\ WheelsOf(c, u, k)[i].source \in x.sources
<1>1. PICK b : b = c.wheels[i]
  OBVIOUS
<1>2. /\ i \in DOMAIN c.wheels /\ <<b.target, b.wheel>> = k /\ InUniverse(c, u, b)
      /\ WheelsOf(c, u, k)[i] = b
  BY <1>1 DEF WheelsOf, Where
<1>3. PICK x : x = Consumer("wheel", <<b.target, b.wheel>>, {b.source})
  OBVIOUS
<1>4. b \in {d \in Range(c.wheels) : InUniverse(c, u, d)}
  BY <1>1, <1>2 DEF Range
<1>5. x \in ConsumersOf(c, u)
  BY <1>3, <1>4 DEF ConsumersOf
<1>6. x.domain = "wheel" /\ x.key = k /\ b.source \in x.sources
  BY <1>2, <1>3 DEF Consumer
<1> QED
  BY <1>2, <1>5, <1>6

(* Nothing is a consumer without a source.                                  *)
LEMMA ConsumerHasSource ==
  ASSUME NEW c, CoreFits(c), NEW u, NEW x \in ConsumersOf(c, u)
  PROVE  x.sources # {}
<1>1. CASE x.domain = "property"
  BY <1>1, InputReads DEF CoreFits, SourcesInstalled, PropertiesOf
<1>2. CASE x.domain = "color"
  BY <1>2, InputReads DEF CoreFits, SourcesInstalled, ColorsOf
<1>3. CASE x.domain = "wheel"
  <2>1. PICK b : x = Consumer("wheel", <<b.target, b.wheel>>, {b.source})
    BY <1>3 DEF ConsumersOf, Consumer
  <2> QED
    BY <2>1 DEF Consumer
<1>4. CASE x.domain = "gobo"
  <2>1. PICK b \in Range(c.gobos) :
          /\ InUniverse(c, u, b)
          /\ x = Consumer("gobo", <<b.target, b.instance>>, Cascade(c, Sources(GobosOf(c, u, <<b.target, b.instance>>))))
    BY <1>4 DEF ConsumersOf, Consumer
  <2>2. PICK i \in DOMAIN c.gobos : b = c.gobos[i]
    BY DEF Range
  <2>3. i \in DOMAIN GobosOf(c, u, <<b.target, b.instance>>)
    BY <2>1, <2>2 DEF GobosOf, Where
  <2>4. x.key = <<b.target, b.instance>>
    BY <2>1 DEF Consumer
  <2> QED
    BY <1>4, <2>3, <2>4, LayerReads DEF BindingsWithin
<1>5. CASE x.domain = "motion"
  <2>1. PICK b \in Range(c.motions) :
          /\ InUniverse(c, u, b)
          /\ x = Consumer("motion", <<b.target, b.instance>>, Cascade(c, Sources(MotionsOf(c, u, <<b.target, b.instance>>))))
    BY <1>5 DEF ConsumersOf, Consumer
  <2>2. PICK i \in DOMAIN c.motions : b = c.motions[i]
    BY DEF Range
  <2>3. i \in DOMAIN MotionsOf(c, u, <<b.target, b.instance>>)
    BY <2>1, <2>2 DEF MotionsOf, Where
  <2>4. x.key = <<b.target, b.instance>>
    BY <2>1 DEF Consumer
  <2> QED
    BY <1>5, <2>3, <2>4, LayerReads DEF BindingsWithin
<1>6. CASE x.domain = "shutter"
  <2>1. PICK b \in Range(c.shutters) :
          x = Consumer("shutter", Layer(b), Cascade(c, Sources(ShuttersOf(c, Layer(b)))))
    BY <1>6 DEF ConsumersOf, Consumer
  <2>2. PICK i \in DOMAIN c.shutters : b = c.shutters[i]
    BY DEF Range
  <2>3. i \in DOMAIN ShuttersOf(c, Layer(b))
    BY <2>2 DEF ShuttersOf, Where
  <2>4. x.key = Layer(b)
    BY <2>1 DEF Consumer
  <2> QED
    BY <1>6, <2>3, <2>4, LayerReads DEF BindingsWithin
<1>7. x.domain \in {"property", "color", "wheel", "gobo", "motion", "shutter"}
  BY DEF ConsumersOf, Consumer
<1> QED
  BY <1>1, <1>2, <1>3, <1>4, <1>5, <1>6, <1>7

LEMMA PlanConsumersFit ==
  ASSUME NEW c, CoreFits(c), NEW u
  PROVE  ConsumersFit(c, ConsumersOf(c, u), SourcesOf(ConsumersOf(c, u)))
<1>1. /\ Keys(ConsumersOf(c, u), "property") \subseteq DOMAIN c.properties
      /\ Keys(ConsumersOf(c, u), "color") \subseteq DOMAIN c.colors
  BY InputReads DEF Keys, PropertiesOf, ColorsOf
<1>2. ColorSourcesIn(c, ConsumersOf(c, u), SourcesOf(ConsumersOf(c, u)))
  <2>1. ASSUME NEW i \in Keys(ConsumersOf(c, u), "color"), NEW j \in DOMAIN c.colors[i].inputs
        PROVE  c.colors[i].inputs[j].source \in SourcesOf(ConsumersOf(c, u))
    <3>1. PICK x \in ConsumersOf(c, u) : x.domain = "color" /\ x.key = i
      BY <2>1 DEF Keys
    <3>2. c.colors[i].inputs[j].source \in Sources(c.colors[i].inputs)
      BY <2>1 DEF Sources, Range
    <3> QED
      BY <3>1, <3>2, InputReads DEF SourcesOf
  <2> QED
    BY <2>1 DEF ColorSourcesIn
<1> QED
  BY <1>1, <1>2 DEF ConsumersFit, CoreFits

LEMMA AgreeWithin ==
  ASSUME NEW bindings, NEW sources, BindingsWithin(bindings, sources), NEW raw1, NEW raw2,
         \A s \in sources : raw1[s] = raw2[s]
  PROVE  BindingsAgree(bindings, raw1, raw2)
<1>1. ASSUME NEW i \in DOMAIN bindings
      PROVE  /\ raw1[bindings[i].source] = raw2[bindings[i].source]
             /\ ChainAgrees(bindings[i].chain, raw1, raw2)
  <2>1. PICK b, chain : b = bindings[i] /\ chain = bindings[i].chain
    OBVIOUS
  <2>2. b.source \in sources /\ Range(chain) \subseteq sources
    BY <2>1 DEF BindingsWithin
  <2>3. ChainAgrees(chain, raw1, raw2)
    BY <2>2 DEF ChainAgrees, Range
  <2> QED
    BY <2>1, <2>2, <2>3
<1> QED
  BY <1>1 DEF BindingsAgree

(* What rested with the values of before rests with those of now, but for   *)
(* the consumers that a changed source reaches.                             *)
Reached(c, u, sources) == {x \in ConsumersOf(c, u) : x.sources \cap sources # {}}
AtRest(c, u, raw, h) == RestsBut(c, u, ConsumersOf(c, u), {}, {}, raw, h)

LEMMA RestsCarry ==
  ASSUME NEW c, CoreFits(c), NEW u, NEW sources, NEW raw0, NEW raw1, NEW h,
         \A s \in SourcesOf(ConsumersOf(c, u)) \ sources : raw0[s] = raw1[s],
         AtRest(c, u, raw0, h)
  PROVE  RestsBut(c, u, ConsumersOf(c, u), Reached(c, u, sources), sources, raw1, h)
<1>1. PICK all, dirty : all = ConsumersOf(c, u) /\ dirty = Reached(c, u, sources)
  OBVIOUS
<1> DEFINE clean(domain) == Keys(all, domain) \ Keys(dirty, domain)
<1>2. ASSUME NEW domain, NEW l \in clean(domain), NEW x \in all, x.domain = domain, x.key = l
      PROVE  \A s \in x.sources : raw0[s] = raw1[s]
  <2>1. x \notin dirty
    BY <1>2 DEF Keys
  <2>2. x.sources \cap sources = {}
    BY <1>1, <2>1 DEF Reached
  <2> QED
    BY <1>1, <2>2 DEF SourcesOf
<1>3. \A domain : Keys({}, domain) = {}
  BY DEF Keys
<1>4. RestsBut(c, u, all, {}, {}, raw0, h)
  BY <1>1 DEF AtRest
<1>5. /\ \A l \in Keys(all, "shutter") : ShutterRests(c, l, raw0, h.shutter)
      /\ \A l \in Keys(all, "gobo") : GoboRests(c, u, l, raw0, h.gobo)
      /\ \A l \in Keys(all, "motion") : MotionRests(c, u, l, raw0, h.motion)
      /\ \A i \in Keys(all, "property") :
           LET reading == ReadProperty(c.programs, c.properties[i].inputs, raw0)
           IN AngleRests(c.properties[i], reading, h.transform) /\ ValueRests(c.properties[i], reading, h.property)
      /\ ColorsRest(c, all, {}, {}, raw0, h.input)
      /\ \A k \in Keys(all, "wheel") : WheelRests(c, u, k, raw0, h.wheel)
  BY <1>3, <1>4 DEF RestsBut
<1>6. \A domain : \A l \in clean(domain) : l \in Keys(all, domain)
  OBVIOUS
<1>7. \A domain : \A l \in Keys(all, domain) : \E x \in all : x.domain = domain /\ x.key = l
  BY DEF Keys
<1> HIDE DEF clean
<1>8. ASSUME NEW l \in clean("shutter") PROVE ShutterRests(c, l, raw1, h.shutter)
  <2>1. PICK x \in all : x.domain = "shutter" /\ x.key = l
    BY <1>6, <1>7
  <2>2. BindingsAgree(ShuttersOf(c, l), raw0, raw1)
    BY <1>1, <1>2, <2>1, LayerReads, AgreeWithin
  <2>3. PICK bindings : bindings = ShuttersOf(c, l)
    OBVIOUS
  <2>4. PICK n \in Nat : DOMAIN bindings \subseteq 1..n
    BY <2>3 DEF CoreFits, ShuttersOf, Where
  <2>5. CommandedShutter(c, bindings, raw0) = CommandedShutter(c, bindings, raw1)
    BY <2>2, <2>3, <2>4, CommandReads
  <2>6. ShutterRests(c, l, raw0, h.shutter)
    BY <1>5, <1>6
  <2> QED
    BY <2>3, <2>5, <2>6 DEF ShutterRests
<1>9. ASSUME NEW l \in clean("gobo") PROVE GoboRests(c, u, l, raw1, h.gobo)
  <2>1. PICK x \in all : x.domain = "gobo" /\ x.key = l
    BY <1>6, <1>7
  <2>2. BindingsAgree(GobosOf(c, u, l), raw0, raw1)
    BY <1>1, <1>2, <2>1, LayerReads, AgreeWithin
  <2>3. PICK bindings : bindings = GobosOf(c, u, l)
    OBVIOUS
  <2>4. DOMAIN bindings \subseteq Nat
    BY <2>3 DEF CoreFits, GobosOf, Where
  <2>5. SelectedGobo(c, bindings, raw0) = SelectedGobo(c, bindings, raw1)
    BY <2>2, <2>3, <2>4, GoboReads
  <2>6. GoboRests(c, u, l, raw0, h.gobo)
    BY <1>5, <1>6
  <2> QED
    BY <2>3, <2>5, <2>6 DEF GoboRests
<1>10. ASSUME NEW l \in clean("motion") PROVE MotionRests(c, u, l, raw1, h.motion)
  <2>1. PICK x \in all : x.domain = "motion" /\ x.key = l
    BY <1>6, <1>7
  <2>2. BindingsAgree(MotionsOf(c, u, l), raw0, raw1)
    BY <1>1, <1>2, <2>1, LayerReads, AgreeWithin
  <2>3. PICK bindings : bindings = MotionsOf(c, u, l)
    OBVIOUS
  <2>4. DOMAIN bindings \subseteq Nat
    BY <2>3 DEF CoreFits, MotionsOf, Where
  <2>5. \A old, at : NextRotation(c, bindings, raw0, old, at) = NextRotation(c, bindings, raw1, old, at)
    BY <2>2, <2>3, <2>4, RotationReads
  <2>6. MotionRests(c, u, l, raw0, h.motion)
    BY <1>5, <1>6
  <2> QED
    BY <2>3, <2>5, <2>6 DEF MotionRests
<1>11. ASSUME NEW i \in clean("property")
       PROVE  LET reading == ReadProperty(c.programs, c.properties[i].inputs, raw1)
              IN AngleRests(c.properties[i], reading, h.transform) /\ ValueRests(c.properties[i], reading, h.property)
  <2>1. PICK x \in all : x.domain = "property" /\ x.key = i
    BY <1>6, <1>7
  <2>2. x.sources = Sources(c.properties[i].inputs)
    BY <1>1, <2>1, InputReads
  <2>3. PICK inputs : inputs = c.properties[i].inputs
    OBVIOUS
  <2>4. \A j \in DOMAIN inputs : raw0[inputs[j].source] = raw1[inputs[j].source]
    BY <1>2, <2>1, <2>2, <2>3 DEF Sources, Range
  <2>5. ReadProperty(c.programs, inputs, raw0) = ReadProperty(c.programs, inputs, raw1)
    BY <2>4, ReadingReads
  <2> QED
    BY <1>5, <1>6, <2>3, <2>5
<1>12. ColorsRest(c, all, dirty, sources, raw1, h.input)
  <2>1. ASSUME NEW i \in Keys(all, "color"), NEW j \in DOMAIN c.colors[i].inputs,
               ~(i \in Keys(dirty, "color") /\ c.colors[i].inputs[j].source \in sources)
        PROVE  InputRests(c, i, j, raw1, h.input)
    <3>1. PICK x \in all : x.domain = "color" /\ x.key = i
      BY <1>7
    <3>2. PICK input : input = c.colors[i].inputs[j]
      OBVIOUS
    <3>3. input.source \in x.sources
      BY <1>1, <2>1, <3>1, <3>2, InputReads DEF Sources, Range
    <3>4. input.source \notin sources
      <4>1. input.source \in sources => x \in dirty
        BY <1>1, <3>3 DEF Reached
      <4>2. x \in dirty => i \in Keys(dirty, "color")
        BY <3>1 DEF Keys
      <4> QED
        BY <2>1, <3>2, <4>1, <4>2
    <3>5. raw0[input.source] = raw1[input.source]
      BY <1>1, <3>3, <3>4 DEF SourcesOf
    <3>6. InputRests(c, i, j, raw0, h.input)
      BY <1>3, <1>5, <2>1 DEF ColorsRest
    <3> QED
      BY <3>2, <3>5, <3>6 DEF InputRests
  <2> QED
    BY <2>1 DEF ColorsRest
<1>13. ASSUME NEW k \in clean("wheel") PROVE WheelRests(c, u, k, raw1, h.wheel)
  <2>1. PICK bindings : bindings = WheelsOf(c, u, k)
    OBVIOUS
  <2>2. ASSUME NEW i \in DOMAIN bindings
        PROVE  raw0[bindings[i].source] = raw1[bindings[i].source]
    <3>1. PICK x \in all : x.domain = "wheel" /\ x.key = k /\ bindings[i].source \in x.sources
      BY <1>1, <2>1, WheelConsumers
    <3> QED
      BY <1>2, <3>1
  <2>3. PICK previous : previous = Held(h.wheel, k, None)
    OBVIOUS
  <2>4. NextWheel(c, previous, ActiveWheel(c.programs, bindings, raw0), raw0)
          = NextWheel(c, previous, ActiveWheel(c.programs, bindings, raw1), raw1)
    BY ONLY <2>2, WheelReads
  <2>5. WheelRests(c, u, k, raw0, h.wheel)
    BY <1>5, <1>6
  <2> QED
    BY <2>1, <2>3, <2>4, <2>5 DEF WheelRests
<1> QED
  BY <1>1, <1>8, <1>9, <1>10, <1>11, <1>12, <1>13 DEF RestsBut, clean

(* Before the first frame of a universe nothing rests, and every source     *)
(* counts as changed.                                                       *)
LEMMA FirstFrame ==
  ASSUME NEW c, CoreFits(c), NEW u, NEW raw1, NEW h
  PROVE  LET every == SourcesOf(ConsumersOf(c, u))
         IN RestsBut(c, u, ConsumersOf(c, u), Reached(c, u, every), every, raw1, h)
<1>1. PICK all, every : all = ConsumersOf(c, u) /\ every = SourcesOf(ConsumersOf(c, u))
  OBVIOUS
<1>2. Reached(c, u, every) = all
  BY <1>1, ConsumerHasSource DEF Reached, SourcesOf
<1>3. ColorSourcesIn(c, all, every)
  BY <1>1, PlanConsumersFit DEF ConsumersFit
<1>4. ColorsRest(c, all, all, every, raw1, h.input)
  BY <1>3 DEF ColorsRest, ColorSourcesIn
<1>5. RestsBut(c, u, all, all, every, raw1, h)
  BY <1>4 DEF RestsBut
<1> QED
  BY <1>1, <1>2, <1>5

-----------------------------------------------------------------------------
(* What is held after an evaluation *)

LEMMA AdoptHeld ==
  ASSUME NEW update, NEW domain \in DOMAIN update.held, NEW next, NEW kept, NEW shown
  PROVE  /\ DOMAIN Adopt(update, domain, next, kept, shown).held[domain] = kept \cup DOMAIN update.held[domain]
         /\ \A l \in kept : Adopt(update, domain, next, kept, shown).held[domain][l] = next[l]
         /\ \A l \in DOMAIN update.held[domain] \ kept :
              Adopt(update, domain, next, kept, shown).held[domain][l] = update.held[domain][l]
<1>1. PICK h, base, f : h = update.held /\ base = update.held[domain] /\ f = [k \in kept |-> next[k]]
  OBVIOUS
<1>2. PICK o : o = Overlaid(f, base)
  OBVIOUS
<1>3. Adopt(update, domain, next, kept, shown).held = [h EXCEPT ![domain] = o]
  BY <1>1, <1>2 DEF Adopt, Update
<1>4. [h EXCEPT ![domain] = o][domain] = o
  BY <1>1
<1>5. /\ DOMAIN o = kept \cup DOMAIN base
      /\ \A l \in kept : o[l] = next[l]
      /\ \A l \in DOMAIN base \ kept : o[l] = base[l]
  <2>1. DOMAIN f = kept /\ \A l \in kept : f[l] = next[l]
    BY <1>1
  <2>2. /\ DOMAIN o = DOMAIN f \cup DOMAIN base
        /\ \A x \in DOMAIN f : o[x] = f[x]
        /\ \A x \in DOMAIN base \ DOMAIN f : o[x] = base[x]
    <3>1. o = [x \in DOMAIN f \cup DOMAIN base |-> IF x \in DOMAIN f THEN f[x] ELSE base[x]]
      BY <1>2, TabulatedIs DEF Overlaid
    <3> QED
      BY <3>1
  <2> QED
    BY <2>1, <2>2
<1> QED
  BY <1>1, <1>3, <1>4, <1>5

LEMMA HeldAfter ==
  ASSUME NEW old, NEW new, NEW next, NEW kept, kept \subseteq DOMAIN next,
         DOMAIN new = kept \cup DOMAIN old,
         \A k \in kept : new[k] = next[k], \A k \in DOMAIN old \ kept : new[k] = old[k],
         NEW l, NEW default
  PROVE  /\ Held(new, l, default) = IF l \in kept THEN next[l] ELSE Held(old, l, default)
         /\ kept = Renewed(old, next, default) =>
              Held(new, l, default) = IF l \in DOMAIN next THEN next[l] ELSE Held(old, l, default)
<1>1. Held(new, l, default) = IF l \in kept THEN next[l] ELSE Held(old, l, default)
  BY DEF Held
<1>2. kept = Renewed(old, next, default) =>
        Held(new, l, default) = IF l \in DOMAIN next THEN next[l] ELSE Held(old, l, default)
  BY <1>1 DEF Renewed
<1> QED
  BY <1>1, <1>2

LEMMA ShutterAfter ==
  ASSUME NEW c, NEW dirty, NEW raw, NEW now0, NEW update, "shutter" \in DOMAIN update.held, NEW l
  PROVE  Held(ShutterDomain(c, dirty, raw, now0, update).held.shutter, l, NoShutter)
           = IF l \in Keys(dirty, "shutter")
             THEN UpdateShutter(Held(update.held.shutter, l, NoShutter), CommandedShutter(c, ShuttersOf(c, l), raw), now0)
             ELSE Held(update.held.shutter, l, NoShutter)
<1> DEFINE table == [k \in Keys(dirty, "shutter") |->
                       UpdateShutter(Held(update.held.shutter, k, NoShutter),
                                     CommandedShutter(c, ShuttersOf(c, k), raw), now0)]
<1>1. ShutterDomain(c, dirty, raw, now0, update) = Shutters(update, table)
  BY TabulatedIs DEF ShutterDomain
<1>2. PICK next, kept : next = table /\ kept = Renewed(update.held["shutter"], next, NoShutter)
  OBVIOUS
<1>3. /\ DOMAIN next = Keys(dirty, "shutter")
      /\ l \in Keys(dirty, "shutter") =>
           next[l] = UpdateShutter(Held(update.held.shutter, l, NoShutter), CommandedShutter(c, ShuttersOf(c, l), raw), now0)
  BY <1>2
<1> HIDE DEF table
<1>4. ShutterDomain(c, dirty, raw, now0, update) = Adopt(update, "shutter", next, kept, kept)
  BY <1>1, <1>2 DEF Shutters, AdoptRenewed
<1>5. kept \subseteq DOMAIN next
  BY <1>2 DEF Renewed
<1>6. Held(Adopt(update, "shutter", next, kept, kept).held.shutter, l, NoShutter)
        = IF l \in DOMAIN next THEN next[l] ELSE Held(update.held.shutter, l, NoShutter)
  <2>1. PICK d, old, new : /\ d = "shutter" /\ old = update.held[d]
                           /\ new = Adopt(update, d, next, kept, kept).held[d]
    OBVIOUS
  <2>2. d \in DOMAIN update.held
    BY <2>1
  <2>3. /\ DOMAIN new = kept \cup DOMAIN old
        /\ \A k \in kept : new[k] = next[k]
        /\ \A k \in DOMAIN old \ kept : new[k] = old[k]
    BY <2>1, <2>2, AdoptHeld
  <2>4. kept = Renewed(old, next, NoShutter)
    BY <1>2, <2>1
  <2>5. Held(new, l, NoShutter) = IF l \in DOMAIN next THEN next[l] ELSE Held(old, l, NoShutter)
    BY <1>5, <2>3, <2>4, HeldAfter
  <2> QED
    BY <2>1, <2>5
<1> QED
  BY <1>3, <1>4, <1>6

LEMMA GoboAfter ==
  ASSUME NEW c, NEW u, NEW dirty, NEW raw, NEW update, "gobo" \in DOMAIN update.held, NEW l
  PROVE  Held(GoboDomain(c, u, dirty, raw, update).held.gobo, l, None)
           = IF l \in Keys(dirty, "gobo") /\ SelectedGobo(c, GobosOf(c, u, l), raw) # None
             THEN SelectedGobo(c, GobosOf(c, u, l), raw)
             ELSE Held(update.held.gobo, l, None)
<1> DEFINE table == [k \in Keys(dirty, "gobo") |-> SelectedGobo(c, GobosOf(c, u, k), raw)]
<1>1. GoboDomain(c, u, dirty, raw, update) = Gobos(update, table)
  BY TabulatedIs DEF GoboDomain
<1>2. PICK next, kept : /\ next = table
                        /\ kept = {k \in Renewed(update.held["gobo"], next, None) : next[k] # None}
  OBVIOUS
<1>3. /\ DOMAIN next = Keys(dirty, "gobo")
      /\ l \in Keys(dirty, "gobo") => next[l] = SelectedGobo(c, GobosOf(c, u, l), raw)
  BY <1>2
<1> HIDE DEF table
<1>4. GoboDomain(c, u, dirty, raw, update) = Adopt(update, "gobo", next, kept, kept)
  BY <1>1, <1>2 DEF Gobos, AdoptRenewed
<1>5. kept \subseteq DOMAIN next
  BY <1>2 DEF Renewed
<1>6. Held(Adopt(update, "gobo", next, kept, kept).held.gobo, l, None)
        = IF l \in kept THEN next[l] ELSE Held(update.held.gobo, l, None)
  <2>1. PICK d, old, new : /\ d = "gobo" /\ old = update.held[d]
                           /\ new = Adopt(update, d, next, kept, kept).held[d]
    OBVIOUS
  <2>2. d \in DOMAIN update.held
    BY <2>1
  <2>3. /\ DOMAIN new = kept \cup DOMAIN old
        /\ \A k \in kept : new[k] = next[k]
        /\ \A k \in DOMAIN old \ kept : new[k] = old[k]
    BY <2>1, <2>2, AdoptHeld
  <2>5. Held(new, l, None) = IF l \in kept THEN next[l] ELSE Held(old, l, None)
    BY <2>3 DEF Held
  <2> QED
    BY <2>1, <2>5
<1>7. PICK x, y, z : /\ x = SelectedGobo(c, GobosOf(c, u, l), raw) /\ y = Held(update.held.gobo, l, None)
                     /\ z = Held(GoboDomain(c, u, dirty, raw, update).held.gobo, l, None)
  OBVIOUS
<1>8. z = IF l \in kept THEN next[l] ELSE y
  BY <1>4, <1>6, <1>7
<1>9. l \in kept <=> l \in DOMAIN next /\ next[l] # y /\ next[l] # None
  BY <1>2, <1>7 DEF Renewed
<1>10. l \in DOMAIN next <=> l \in Keys(dirty, "gobo")
  BY <1>3
<1>11. l \in DOMAIN next => next[l] = x
  BY <1>3, <1>7
<1>12. z = IF l \in Keys(dirty, "gobo") /\ x # None THEN x ELSE y
  BY <1>8, <1>9, <1>10, <1>11
<1> QED
  BY <1>7, <1>12

LEMMA MotionAfter ==
  ASSUME NEW c, NEW u, NEW dirty, NEW raw, NEW now0, NEW update, "motion" \in DOMAIN update.held, NEW l
  PROVE  Held(MotionDomain(c, u, dirty, raw, now0, update).held.motion, l, NoRotation)
           = IF l \in Keys(dirty, "motion")
             THEN NextRotation(c, MotionsOf(c, u, l), raw, Held(update.held.motion, l, NoRotation), now0)
             ELSE Held(update.held.motion, l, NoRotation)
<1> DEFINE table == [k \in Keys(dirty, "motion") |->
                       NextRotation(c, MotionsOf(c, u, k), raw, Held(update.held.motion, k, NoRotation), now0)]
<1>1. MotionDomain(c, u, dirty, raw, now0, update) = Motions(update, table)
  BY TabulatedIs DEF MotionDomain
<1>2. PICK next, kept : next = table /\ kept = Renewed(update.held["motion"], next, NoRotation)
  OBVIOUS
<1>3. /\ DOMAIN next = Keys(dirty, "motion")
      /\ l \in Keys(dirty, "motion") =>
           next[l] = NextRotation(c, MotionsOf(c, u, l), raw, Held(update.held.motion, l, NoRotation), now0)
  BY <1>2
<1> HIDE DEF table
<1>4. PICK shown : MotionDomain(c, u, dirty, raw, now0, update) = Adopt(update, "motion", next, kept, shown)
  BY <1>1, <1>2 DEF Motions
<1>5. kept \subseteq DOMAIN next
  BY <1>2 DEF Renewed
<1>6. Held(Adopt(update, "motion", next, kept, shown).held.motion, l, NoRotation)
        = IF l \in DOMAIN next THEN next[l] ELSE Held(update.held.motion, l, NoRotation)
  <2>1. PICK d, old, new : /\ d = "motion" /\ old = update.held[d]
                           /\ new = Adopt(update, d, next, kept, shown).held[d]
    OBVIOUS
  <2>2. d \in DOMAIN update.held
    BY <2>1
  <2>3. /\ DOMAIN new = kept \cup DOMAIN old
        /\ \A k \in kept : new[k] = next[k]
        /\ \A k \in DOMAIN old \ kept : new[k] = old[k]
    BY <2>1, <2>2, AdoptHeld
  <2>4. kept = Renewed(old, next, NoRotation)
    BY <1>2, <2>1
  <2>5. Held(new, l, NoRotation) = IF l \in DOMAIN next THEN next[l] ELSE Held(old, l, NoRotation)
    BY <1>5, <2>3, <2>4, HeldAfter
  <2> QED
    BY <2>1, <2>5
<1> QED
  BY <1>3, <1>4, <1>6

LEMMA WheelAfter ==
  ASSUME NEW c, NEW u, NEW dirty, NEW raw, NEW targets, NEW held0, "wheel" \in DOMAIN held0, NEW k
  PROVE  Held(WheelDomain(c, u, dirty, raw, targets, held0).held.wheel, k, None)
           = IF \/ k \in Keys(dirty, "wheel")
                \/ \E b \in Range(c.wheels) : b.target \in targets /\ InUniverse(c, u, b) /\ k = <<b.target, b.wheel>>
             THEN NextWheel(c, Held(held0.wheel, k, None), ActiveWheel(c.programs, WheelsOf(c, u, k), raw), raw)
             ELSE Held(held0.wheel, k, None)
<1> DEFINE more == {<<b.target, b.wheel>> : b \in {x \in Range(c.wheels) : x.target \in targets /\ InUniverse(c, u, x)}}
           table == [x \in Keys(dirty, "wheel") \cup more |->
                       NextWheel(c, Held(held0.wheel, x, None), ActiveWheel(c.programs, WheelsOf(c, u, x), raw), raw)]
<1>1. WheelDomain(c, u, dirty, raw, targets, held0) = Wheels(table, targets, held0)
  BY TabulatedIs DEF WheelDomain
<1>2. PICK next : next = table
  OBVIOUS
<1>3. /\ DOMAIN next = Keys(dirty, "wheel") \cup more
      /\ k \in DOMAIN next =>
           next[k] = NextWheel(c, Held(held0.wheel, k, None), ActiveWheel(c.programs, WheelsOf(c, u, k), raw), raw)
  BY <1>2
<1> HIDE DEF table
<1>4. k \in more <=> \E b \in Range(c.wheels) : b.target \in targets /\ InUniverse(c, u, b) /\ k = <<b.target, b.wheel>>
  OBVIOUS
<1> HIDE DEF more
<1>5. PICK old, changed : old = held0["wheel"] /\ changed = {x \in DOMAIN next : next[x] # Held(old, x, None)}
  OBVIOUS
<1>6. PICK f : f = [x \in changed |-> next[x]]
  OBVIOUS
<1>7. PICK o : o = Overlaid(f, old)
  OBVIOUS
<1>8. Wheels(next, targets, held0).held = [held0 EXCEPT !["wheel"] = o]
  BY <1>5, <1>6, <1>7 DEF Wheels
<1>9. [held0 EXCEPT !["wheel"] = o].wheel = o
  OBVIOUS
<1>10. /\ DOMAIN o = changed \cup DOMAIN old
       /\ \A x \in changed : o[x] = next[x]
       /\ \A x \in DOMAIN old \ changed : o[x] = old[x]
  <2>1. DOMAIN f = changed /\ \A x \in changed : f[x] = next[x]
    BY <1>6
  <2>2. /\ DOMAIN o = DOMAIN f \cup DOMAIN old
        /\ \A x \in DOMAIN f : o[x] = f[x]
        /\ \A x \in DOMAIN old \ DOMAIN f : o[x] = old[x]
    <3>1. o = [x \in DOMAIN f \cup DOMAIN old |-> IF x \in DOMAIN f THEN f[x] ELSE old[x]]
      BY <1>7, TabulatedIs DEF Overlaid
    <3> QED
      BY <3>1
  <2> QED
    BY <2>1, <2>2
<1>11. Held(o, k, None) = IF k \in DOMAIN next THEN next[k] ELSE Held(old, k, None)
  BY <1>5, <1>10 DEF Held
<1> QED
  BY <1>1, <1>2, <1>3, <1>4, <1>5, <1>8, <1>9, <1>11

LEMMA PropertyAfter ==
  ASSUME NEW c, NEW readings, NEW update, "property" \in DOMAIN update.held,
         NEW n \in Nat, DOMAIN c.properties \subseteq 1..n, DOMAIN readings \subseteq DOMAIN c.properties,
         PropertiesApart(c),
         NEW after, after = PropertyDomain(c, readings, update).held.property
  PROVE  /\ \A i \in DOMAIN readings : ValueRests(c.properties[i], readings[i], after)
         /\ \A id \in DOMAIN update.held.property \ {c.properties[i].id : i \in DOMAIN readings} :
              id \in DOMAIN after /\ after[id] = update.held.property[id]
<1> DEFINE p(i) == c.properties[i]
           mine == {i \in DOMAIN readings : p(i).parameter \in {"dimmer", "zoom"} /\ readings[i].valid}
           table == [i \in mine |-> IF p(i).parameter = "dimmer" THEN readings[i].normalized ELSE readings[i].physical]
<1>1. PropertyDomain(c, readings, update) = Properties(c, table, update)
  BY TabulatedIs DEF PropertyDomain
<1>2. PICK next : next = table
  OBVIOUS
<1>3. /\ DOMAIN next = mine
      /\ \A i \in mine : next[i] = IF p(i).parameter = "dimmer" THEN readings[i].normalized ELSE readings[i].physical
  BY <1>2
<1>4. mine \subseteq DOMAIN readings
  OBVIOUS
<1> HIDE DEF table, mine
<1> DEFINE Named(id) == {i \in DOMAIN next : p(i).id = id}
           ids == [id \in {p(i).id : i \in DOMAIN next} |-> next[Max(Named(id))]]
<1>5. PICK h, f : h = update.held /\ f = ids
  OBVIOUS
<1>6. PICK o : o = Overlaid(f, h["property"])
  OBVIOUS
<1>7. Properties(c, next, update).held = [h EXCEPT !["property"] = o]
  BY <1>5, <1>6 DEF Properties, Update
<1>8. [h EXCEPT !["property"] = o].property = o
  BY <1>5
<1>9. after = o
  BY <1>1, <1>2, <1>7, <1>8
<1>10. /\ DOMAIN o = DOMAIN f \cup DOMAIN h["property"]
       /\ \A x \in DOMAIN f : o[x] = f[x]
       /\ \A x \in DOMAIN h["property"] \ DOMAIN f : o[x] = h["property"][x]
  <2>1. PICK base : base = h["property"]
    OBVIOUS
  <2>2. o = [x \in DOMAIN f \cup DOMAIN base |-> IF x \in DOMAIN f THEN f[x] ELSE base[x]]
    BY <1>6, <2>1, TabulatedIs DEF Overlaid
  <2> QED
    BY <2>1, <2>2
<1>11. DOMAIN f = {p(i).id : i \in DOMAIN next}
  BY <1>5
<1>12. ASSUME NEW i \in DOMAIN next PROVE f[p(i).id] = next[i]
  <2>1. Named(p(i).id) = {i}
    BY <1>3, <1>4, <1>12 DEF PropertiesApart
  <2>2. Max({i}) = i
    BY <1>3, <1>4, OnlyOne
  <2> QED
    BY <1>5, <2>1, <2>2
<1> HIDE DEF ids
<1>13. ASSUME NEW i \in DOMAIN readings PROVE ValueRests(c.properties[i], readings[i], after)
  <2>1. i \in mine => p(i).id \in DOMAIN after /\ after[p(i).id] = next[i]
    BY <1>3, <1>9, <1>10, <1>11, <1>12
  <2>2. readings[i].valid /\ p(i).parameter \in {"dimmer", "zoom"} => i \in mine
    BY DEF mine
  <2> QED
    BY <1>3, <2>1, <2>2 DEF ValueRests
<1>14. \A id \in DOMAIN h["property"] \ {p(i).id : i \in DOMAIN readings} : id \in DOMAIN after /\ after[id] = h["property"][id]
  BY <1>3, <1>4, <1>9, <1>10, <1>11
<1> QED
  BY <1>5, <1>13, <1>14

LEMMA InputAfter ==
  ASSUME NEW c, NEW dirty, NEW every, NEW raw, NEW prepared1, NEW held0, "input" \in DOMAIN held0,
         ColorSourcesIn(c, dirty, every),
         NEW after, after = ColorDomain(c, dirty, every, raw, prepared1, held0).held.input
  PROVE  /\ \A i \in Keys(dirty, "color") : \A j \in DOMAIN c.colors[i].inputs : InputRests(c, i, j, raw, after)
         /\ \A k \in DOMAIN held0.input \ InputKeys(c, dirty) : k \in DOMAIN after /\ after[k] = held0.input[k]
<1> DEFINE table == [k \in InputKeys(c, dirty) |->
                       InputValue(c, every, raw, prepared1, held0, k, c.colors[k[1]].inputs[k[2]])]
<1>1. ColorDomain(c, dirty, every, raw, prepared1, held0) = Inputs(c, table, held0)
  BY TabulatedIs DEF ColorDomain, InputKeys
<1>2. PICK next : next = table
  OBVIOUS
<1>3. /\ DOMAIN next = InputKeys(c, dirty)
      /\ \A k \in InputKeys(c, dirty) :
           next[k] = InputValue(c, every, raw, prepared1, held0, k, c.colors[k[1]].inputs[k[2]])
  BY <1>2
<1> HIDE DEF table
<1>4. PICK o, changed : o = Overlaid(next, held0["input"]) /\ Inputs(c, next, held0) = Repaint(c, next, changed, held0)
  BY DEF Inputs
<1>5. PICK y : y = Repainted(c, next, changed, held0["base"])
  OBVIOUS
<1>6. Repaint(c, next, changed, held0).held = [held0 EXCEPT !["input"] = o, !["base"] = y]
  BY <1>4, <1>5 DEF Repaint
<1>7. [held0 EXCEPT !["input"] = o, !["base"] = y].input = o
  OBVIOUS
<1>8. after = o
  BY <1>1, <1>2, <1>4, <1>6, <1>7
<1>9. PICK base : base = held0["input"]
  OBVIOUS
<1>10. o = [x \in DOMAIN next \cup DOMAIN base |-> IF x \in DOMAIN next THEN next[x] ELSE base[x]]
  BY <1>4, <1>9, TabulatedIs DEF Overlaid
<1>11. /\ DOMAIN o = DOMAIN next \cup DOMAIN base
       /\ \A x \in DOMAIN next : o[x] = next[x]
       /\ \A x \in DOMAIN base \ DOMAIN next : o[x] = base[x]
  BY <1>10
<1>12. ASSUME NEW i \in Keys(dirty, "color"), NEW j \in DOMAIN c.colors[i].inputs
       PROVE  InputRests(c, i, j, raw, after)
  <2>1. <<i, j>> \in InputKeys(c, dirty)
    BY DEF InputKeys
  <2>2. PICK input : input = c.colors[i].inputs[j]
    OBVIOUS
  <2>3. next[<<i, j>>] = InputValue(c, every, raw, prepared1, held0, <<i, j>>, input)
    BY <1>3, <2>1, <2>2
  <2>4. input.source \in every
    BY <2>2 DEF ColorSourcesIn
  <2>5. next[<<i, j>>] = ColorValue(c.programs[input.source], input.semantic, raw[input.source])
    BY <2>3, <2>4 DEF InputValue, Fresh
  <2> QED
    BY <1>3, <1>8, <1>11, <2>1, <2>2, <2>5 DEF InputRests
<1> QED
  BY <1>3, <1>8, <1>9, <1>11, <1>12

LEMMA TransformAfter ==
  ASSUME NEW c, NEW readings, NEW update, "transform" \in DOMAIN update.held,
         NEW n \in Nat, DOMAIN c.properties \subseteq 1..n, DOMAIN readings \subseteq DOMAIN c.properties,
         PropertiesApart(c), TransformsFit(update.held.transform),
         NEW after, after = TransformDomain(c, readings, update).held.transform
  PROVE  /\ \A i \in DOMAIN readings : AngleRests(c.properties[i], readings[i], after)
         /\ \A j \in DOMAIN c.properties \ DOMAIN readings : \A reading :
              AngleRests(c.properties[j], reading, update.held.transform) => AngleRests(c.properties[j], reading, after)
         /\ TransformsFit(after)
<1>1. PICK before, next, d : /\ d = "transform" /\ before = update.held[d]
                             /\ next = NextTransforms(c, readings, before)
  OBVIOUS
<1>2. \E shown : TransformDomain(c, readings, update) = Adopt(update, d, next, DOMAIN next, shown)
  BY <1>1, TransformIs DEF Transforms
<1>3. /\ DOMAIN after = DOMAIN next \cup DOMAIN before
      /\ \A f \in DOMAIN next : after[f] = next[f]
      /\ \A f \in DOMAIN before \ DOMAIN next : after[f] = before[f]
  <2>1. PICK shown : TransformDomain(c, readings, update) = Adopt(update, d, next, DOMAIN next, shown)
    BY <1>2
  <2>2. d \in DOMAIN update.held
    BY <1>1
  <2>3. PICK kept : kept = DOMAIN next
    OBVIOUS
  <2>4. after = Adopt(update, d, next, kept, shown).held[d]
    BY <1>1, <2>1, <2>3
  <2>5. /\ DOMAIN after = kept \cup DOMAIN before
        /\ \A f \in kept : after[f] = next[f]
        /\ \A f \in DOMAIN before \ kept : after[f] = before[f]
    BY <1>1, <2>2, <2>4, AdoptHeld
  <2> QED
    BY <2>3, <2>5
<1>4. /\ DOMAIN next = Turned(c, readings)
      /\ \A f \in DOMAIN next :
           next[f] = [pan |-> Angle(c, readings, f, "pan", Held(before, f, NoTurn).pan),
                      tilt |-> Angle(c, readings, f, "tilt", Held(before, f, NoTurn).tilt)]
  BY <1>1 DEF NextTransforms
<1>5. \A f \in DOMAIN next : /\ next[f].pan = Angle(c, readings, f, "pan", Held(before, f, NoTurn).pan)
                             /\ next[f].tilt = Angle(c, readings, f, "tilt", Held(before, f, NoTurn).tilt)
                             /\ next[f] = [pan |-> next[f].pan, tilt |-> next[f].tilt]
  BY <1>4
<1>6. ASSUME NEW i \in DOMAIN readings PROVE AngleRests(c.properties[i], readings[i], after)
  <2>1. PICK f : f = c.properties[i].fixture
    OBVIOUS
  <2>2. ASSUME readings[i].valid, NEW parameter \in {"pan", "tilt"}, c.properties[i].parameter = parameter
        PROVE  f \in DOMAIN next /\ \A default : Angle(c, readings, f, parameter, default) = readings[i].physical
    <3>1. i \in Angles(c, readings, f, parameter)
      BY <2>1, <2>2 DEF Angles
    <3>2. f \in Turned(c, readings)
      BY <2>1, <2>2 DEF Turned
    <3> QED
      BY <1>4, <3>1, <3>2, OneAngle
  <2>3. \A parameter \in {"pan", "tilt"} : readings[i].valid /\ c.properties[i].parameter = parameter =>
          f \in DOMAIN next /\ \A default : Angle(c, readings, f, parameter, default) = readings[i].physical
    BY <2>2
  <2> QED
    BY <1>3, <1>5, <2>1, <2>3 DEF AngleRests
<1>7. ASSUME NEW j \in DOMAIN c.properties \ DOMAIN readings, NEW reading,
             AngleRests(c.properties[j], reading, before)
      PROVE  AngleRests(c.properties[j], reading, after)
  <2>1. PICK f : f = c.properties[j].fixture
    OBVIOUS
  <2>2. ASSUME NEW parameter \in {"pan", "tilt"}, c.properties[j].parameter = parameter
        PROVE  \A default : Angle(c, readings, f, parameter, default) = default
    <3>1. Angles(c, readings, f, parameter) = {}
      BY <2>1, <2>2 DEF Angles, PropertiesApart
    <3> QED
      BY <3>1 DEF Angle
  <2>3. \A parameter \in {"pan", "tilt"} : c.properties[j].parameter = parameter =>
          \A default : Angle(c, readings, f, parameter, default) = default
    BY <2>2
  <2>4. f \in DOMAIN before =>
          /\ f \in DOMAIN after
          /\ c.properties[j].parameter = "pan" => after[f].pan = before[f].pan
          /\ c.properties[j].parameter = "tilt" => after[f].tilt = before[f].tilt
    BY <1>3, <1>5, <2>3 DEF Held
  <2> QED
    BY <1>7, <2>1, <2>4 DEF AngleRests
<1>8. TransformsFit(after)
  BY <1>1, <1>3, <1>5 DEF TransformsFit
<1> QED
  BY <1>1, <1>6, <1>7, <1>8

-----------------------------------------------------------------------------
(* What was evaluated rests *)

LEMMA UpdatedShutterRests ==
  ASSUME NEW old, old.revision \in Nat, NEW command, NEW now0
  PROVE  /\ UpdateShutter(old, command, now0).revision > 0
         /\ UpdateShutter(old, command, now0).command = command
<1>1. CASE old.revision > 0 /\ old.command = command
  BY <1>1 DEF UpdateShutter
<1>2. CASE ~(old.revision > 0 /\ old.command = command)
  <2>1. PICK activation, phase :
          UpdateShutter(old, command, now0)
            = [command |-> command, revision |-> old.revision + 1, activation |-> activation,
               phase |-> phase, reference |-> now0]
    BY <1>2 DEF UpdateShutter
  <2> QED
    BY <2>1
<1> QED
  BY <1>1, <1>2

LEMMA NextWheelRests ==
  ASSUME NEW c, NEW old, NEW chosen, NEW raw
  PROVE  NextWheel(c, NextWheel(c, old, chosen, raw), chosen, raw) = NextWheel(c, old, chosen, raw)
<1>1. CASE chosen = None
  BY <1>1 DEF NextWheel
<1>2. CASE chosen # None
  <2>1. PICK layer : \A x : NextWheel(c, x, chosen, raw) = NextLayer(x, layer)
    BY <1>2 DEF NextWheel
  <2>2. layer # None => SameLayer(layer, layer)
    BY DEF SameLayer, NearlyEqual
  <2>3. NextLayer(NextLayer(old, layer), layer) = NextLayer(old, layer)
    <3>1. CASE layer = None \/ SameLayer(old, layer)
      BY <3>1 DEF NextLayer
    <3>2. CASE ~(layer = None \/ SameLayer(old, layer))
      BY <2>2, <3>2 DEF NextLayer
    <3> QED
      BY <3>1, <3>2
  <2> QED
    BY <2>1, <2>3
<1> QED
  BY <1>1, <1>2

(* The commands a rotation remembers, and its motion.                       *)
Commands(r, posId, posDegrees, rotateId, rotateDps) ==
  [r EXCEPT !.pos = posId, !.rotate = rotateId, !.posDegrees = posDegrees, !.rotateDps = rotateDps]
Turning(r, mode, phase, velocity, at) == [r EXCEPT !.mode = mode, !.phase = phase, !.velocity = velocity, !.reference = at]

LEMMA CommandsAre ==
  ASSUME NEW r, DOMAIN r = DOMAIN NoRotation, NEW posId, NEW posDegrees, NEW rotateId, NEW rotateDps,
         NEW q, q = Commands(r, posId, posDegrees, rotateId, rotateDps)
  PROVE  /\ IsTable(q) /\ DOMAIN q = DOMAIN NoRotation
         /\ q.mode = r.mode /\ q.phase = r.phase /\ q.velocity = r.velocity /\ q.reference = r.reference
         /\ q.pos = posId /\ q.rotate = rotateId /\ q.posDegrees = posDegrees /\ q.rotateDps = rotateDps
<1>1. DOMAIN q = DOMAIN NoRotation
  BY DEF Commands
<1>2. IsTable(q)
  BY DEF Commands, IsTable
<1> QED
  BY <1>1, <1>2 DEF Commands, NoRotation

LEMMA TurnedAre ==
  ASSUME NEW r, DOMAIN r = DOMAIN NoRotation, NEW mode, NEW phase, NEW velocity, NEW at,
         NEW q, q = Turning(r, mode, phase, velocity, at)
  PROVE  /\ IsTable(q) /\ DOMAIN q = DOMAIN NoRotation
         /\ q.mode = mode /\ q.phase = phase /\ q.velocity = velocity /\ q.reference = at
         /\ q.pos = r.pos /\ q.rotate = r.rotate /\ q.posDegrees = r.posDegrees /\ q.rotateDps = r.rotateDps
<1>1. DOMAIN q = DOMAIN NoRotation
  BY DEF Turning
<1>2. IsTable(q)
  BY DEF Turning, IsTable
<1> QED
  BY <1>1, <1>2 DEF Turning, NoRotation

(* The commands it has already change nothing.                              *)
LEMMA CommandsSame ==
  ASSUME NEW r, IsTable(r), DOMAIN r = DOMAIN NoRotation
  PROVE  Commands(r, r.pos, r.posDegrees, r.rotate, r.rotateDps) = r
<1>1. PICK q : q = Commands(r, r.pos, r.posDegrees, r.rotate, r.rotateDps)
  OBVIOUS
<1>2. /\ IsTable(q) /\ DOMAIN q = DOMAIN r
      /\ q.mode = r.mode /\ q.phase = r.phase /\ q.velocity = r.velocity /\ q.reference = r.reference
      /\ q.pos = r.pos /\ q.rotate = r.rotate /\ q.posDegrees = r.posDegrees /\ q.rotateDps = r.rotateDps
  BY <1>1, CommandsAre
<1>3. DOMAIN r = {"mode", "pos", "posDegrees", "rotate", "rotateDps", "phase", "velocity", "reference"}
  BY DEF NoRotation
<1>4. \A x \in DOMAIN r : q[x] = r[x]
  BY <1>2, <1>3
<1> QED
  BY <1>1, <1>2, <1>4 DEF IsTable

LEMMA RotatedRests ==
  ASSUME NEW programs, NEW pos, NEW rotate, NEW raw, NEW now0, NEW at, NEW old, DOMAIN old = DOMAIN NoRotation,
         NEW new, new = Rotated(programs, pos, rotate, raw, old, now0)
  PROVE  Rotated(programs, pos, rotate, raw, new, at) = new
<1> DEFINE degrees == MotionValue(programs, pos, raw)
           speed == MotionValue(programs, rotate, raw)
           posId == IF pos = None THEN None ELSE pos.id
           rotateId == IF rotate = None THEN None ELSE rotate.id
           mode == IF rotate # None THEN "continuous" ELSE IF pos # None THEN "indexed" ELSE "hold"
           velocity == IF rotate = None THEN 0 ELSE speed
           PosChanged(r) == r.pos # posId \/ (pos # None /\ ~NearlyEqual(r.posDegrees, degrees))
           RotateChanged(r) == r.rotate # rotateId \/ (rotate # None /\ ~NearlyEqual(r.rotateDps, speed))
           Phase(r, t) == IF pos # None /\ (rotate = None \/ PosChanged(r)) THEN degrees ELSE RotationAt(r, t)
           Same(r, t) == /\ r.mode = mode /\ ~PosChanged(r) /\ ~RotateChanged(r)
                         /\ NearlyEqual(r.velocity, velocity)
                         /\ mode = "indexed" => NearlyEqual(r.phase, Phase(r, t))
           Degrees(r) == IF pos = None THEN r.posDegrees ELSE degrees
           Dps(r) == IF rotate = None THEN r.rotateDps ELSE speed
           Command(r) == Commands(r, posId, Degrees(r), rotateId, Dps(r))
           Next1(r, t) == IF r.mode = None /\ pos = None /\ rotate = None THEN r
                          ELSE IF Same(r, t) THEN Command(r) ELSE Turning(Command(r), mode, Phase(r, t), velocity, t)
<1>1. \A r, t : Rotated(programs, pos, rotate, raw, r, t) = Next1(r, t)
  BY DEF Rotated, Commands, Turning
<1>2. new = Next1(old, now0)
  BY <1>1
<1>3. \A x : NearlyEqual(x, x)
  BY DEF NearlyEqual
<1>4. CASE old.mode = None /\ pos = None /\ rotate = None
  BY <1>1, <1>2, <1>4
<1>5. CASE ~(old.mode = None /\ pos = None /\ rotate = None)
  <2>1. PICK q : q = Command(old)
    OBVIOUS
  <2>2. /\ IsTable(q) /\ DOMAIN q = DOMAIN NoRotation
        /\ q.mode = old.mode /\ q.phase = old.phase /\ q.velocity = old.velocity
        /\ q.pos = posId /\ q.rotate = rotateId /\ q.posDegrees = Degrees(old) /\ q.rotateDps = Dps(old)
    <3>1. PICK a, b, d, e : a = posId /\ b = Degrees(old) /\ d = rotateId /\ e = Dps(old)
      OBVIOUS
    <3>2. q = Commands(old, a, b, d, e)
      BY <2>1, <3>1
    <3> QED
      BY <3>1, <3>2, CommandsAre
  <2>3. (new = q /\ Same(old, now0)) \/ new = Turning(q, mode, Phase(old, now0), velocity, now0)
    BY <1>2, <1>5, <2>1
  <2>4. mode = "indexed" => pos # None /\ rotate = None
    OBVIOUS
  <2>5. /\ IsTable(new) /\ DOMAIN new = DOMAIN NoRotation /\ new.mode = mode
        /\ new.pos = posId /\ new.rotate = rotateId /\ new.posDegrees = Degrees(old) /\ new.rotateDps = Dps(old)
        /\ NearlyEqual(new.velocity, velocity)
        /\ mode = "indexed" => NearlyEqual(new.phase, degrees)
    <3>1. CASE new = q /\ Same(old, now0)
      BY <2>2, <2>4, <3>1
    <3>2. CASE new = Turning(q, mode, Phase(old, now0), velocity, now0)
      <4>1. PICK m, p, v : m = mode /\ p = Phase(old, now0) /\ v = velocity
        OBVIOUS
      <4>2. new = Turning(q, m, p, v, now0)
        BY <3>2, <4>1
      <4>3. /\ IsTable(new) /\ DOMAIN new = DOMAIN NoRotation
            /\ new.mode = m /\ new.phase = p /\ new.velocity = v
            /\ new.pos = q.pos /\ new.rotate = q.rotate /\ new.posDegrees = q.posDegrees /\ new.rotateDps = q.rotateDps
        BY <2>2, <4>2, TurnedAre
      <4>4. mode = "indexed" => p = degrees
        BY <2>4, <4>1
      <4> QED
        BY <1>3, <2>2, <4>1, <4>3, <4>4
    <3> QED
      BY <2>3, <3>1, <3>2
  <2>6. ~PosChanged(new)
    BY <1>3, <2>5
  <2>7. ~RotateChanged(new)
    BY <1>3, <2>5
  <2>8. mode = "indexed" => Phase(new, at) = degrees
    BY <2>4
  <2>9. Same(new, at)
    BY <2>5, <2>6, <2>7, <2>8
  <2>10. Degrees(new) = new.posDegrees /\ Dps(new) = new.rotateDps
    BY <2>5
  <2>11. Command(new) = new
    BY <2>5, <2>10, CommandsSame
  <2> HIDE DEF Command, Same
  <2> QED
    BY <1>1, <2>9, <2>11
<1> QED
  BY <1>4, <1>5

LEMMA NextRotationRests ==
  ASSUME NEW c, NEW bindings, NEW raw, NEW old, DOMAIN old = DOMAIN NoRotation, NEW now0, NEW at
  PROVE  NextRotation(c, bindings, raw, NextRotation(c, bindings, raw, old, now0), at)
           = NextRotation(c, bindings, raw, old, now0)
<1>1. PICK programs, pos, rotate : \A r, t : NextRotation(c, bindings, raw, r, t) = Rotated(programs, pos, rotate, raw, r, t)
  BY DEF NextRotation
<1> QED
  BY <1>1, RotatedRests

-----------------------------------------------------------------------------
(* Universes do not meddle with one another *)

(* What a layer or a wheel is made of comes in one universe.                *)
InstanceKey(b) == <<b.target, b.instance>>
WheelKey(b) == <<b.target, b.wheel>>
LayersApart(c) ==
  /\ \A a, b \in Range(c.wheels) : WheelKey(a) = WheelKey(b) => c.owner[a.source] = c.owner[b.source]
  /\ \A a, b \in Range(c.gobos) : InstanceKey(a) = InstanceKey(b) => c.owner[a.source] = c.owner[b.source]
  /\ \A a, b \in Range(c.motions) : InstanceKey(a) = InstanceKey(b) => c.owner[a.source] = c.owner[b.source]
  /\ \A a, b \in Range(c.shutters) : Layer(a) = Layer(b) => c.owner[a.source] = c.owner[b.source]

LEMMA SeparateMeans ==
  ASSUME NEW c, Separate(c)
  PROVE  /\ PropertiesApart(c) /\ LayersApart(c)
         /\ \A u \in DOMAIN c.plans : \A s \in c.plans[u].sources :
              AddressesOf(c.programs[s]) \cap 0..(Slots - 1) # {}
<1>1. PropertiesApart(c)
  BY DEF Separate, PropertiesApart
<1>2. LayersApart(c)
  BY DEF Separate, LayersApart, InstanceKey, WheelKey
<1>3. \A u \in DOMAIN c.plans : \A s \in c.plans[u].sources : AddressesOf(c.programs[s]) \cap 0..(Slots - 1) # {}
  BY DEF Separate
<1> QED
  BY <1>1, <1>2, <1>3

(* The layers and wheels a universe has consumers of.                       *)
LEMMA LayerKeys ==
  ASSUME NEW c, NEW u
  PROVE  /\ \A l \in Keys(ConsumersOf(c, u), "shutter") :
              \E b \in Range(c.shutters) : c.owner[b.source] = u /\ Layer(b) = l
         /\ \A l \in Keys(ConsumersOf(c, u), "gobo") :
              \E b \in Range(c.gobos) : c.owner[b.source] = u /\ InstanceKey(b) = l
         /\ \A l \in Keys(ConsumersOf(c, u), "motion") :
              \E b \in Range(c.motions) : c.owner[b.source] = u /\ InstanceKey(b) = l
         /\ \A l \in Keys(ConsumersOf(c, u), "wheel") :
              \E b \in Range(c.wheels) : c.owner[b.source] = u /\ WheelKey(b) = l
         /\ \A b \in Range(c.wheels) : InUniverse(c, u, b) => WheelKey(b) \in Keys(ConsumersOf(c, u), "wheel")
<1>1. ASSUME NEW l, NEW x \in ConsumersOf(c, u), x.key = l
      PROVE  /\ x.domain = "shutter" => \E b \in Range(c.shutters) : c.owner[b.source] = u /\ Layer(b) = l
             /\ x.domain = "gobo" => \E b \in Range(c.gobos) : c.owner[b.source] = u /\ InstanceKey(b) = l
             /\ x.domain = "motion" => \E b \in Range(c.motions) : c.owner[b.source] = u /\ InstanceKey(b) = l
             /\ x.domain = "wheel" => \E b \in Range(c.wheels) : c.owner[b.source] = u /\ WheelKey(b) = l
  BY <1>1 DEF ConsumersOf, Consumer, InUniverse, InstanceKey, WheelKey
<1>2. ASSUME NEW b \in Range(c.wheels), InUniverse(c, u, b)
      PROVE  WheelKey(b) \in Keys(ConsumersOf(c, u), "wheel")
  <2>1. PICK x : x = Consumer("wheel", WheelKey(b), {b.source})
    OBVIOUS
  <2>2. x \in ConsumersOf(c, u)
    BY <1>2, <2>1 DEF ConsumersOf, WheelKey
  <2>3. x.domain = "wheel" /\ x.key = WheelKey(b)
    BY <2>1 DEF Consumer
  <2> QED
    BY <2>2, <2>3 DEF Keys
<1> QED
  BY <1>1, <1>2 DEF Keys

(* A layer or wheel of two universes does not exist.                        *)
LEMMA KeysApart ==
  ASSUME NEW c, LayersApart(c), NEW u, NEW v, u # v, NEW domain \in {"shutter", "gobo", "motion", "wheel"}
  PROVE  Keys(ConsumersOf(c, u), domain) \cap Keys(ConsumersOf(c, v), domain) = {}
<1> SUFFICES ASSUME NEW l \in Keys(ConsumersOf(c, u), domain), l \in Keys(ConsumersOf(c, v), domain) PROVE FALSE
  OBVIOUS
<1>1. CASE domain = "shutter"
  BY <1>1, LayerKeys DEF LayersApart
<1>2. CASE domain = "gobo"
  BY <1>2, LayerKeys DEF LayersApart
<1>3. CASE domain = "motion"
  BY <1>3, LayerKeys DEF LayersApart
<1>4. CASE domain = "wheel"
  BY <1>4, LayerKeys DEF LayersApart
<1> QED
  BY <1>1, <1>2, <1>3, <1>4

(* Neither does a property or a colour target.                              *)
LEMMA InputsApart ==
  ASSUME NEW c, NEW u, NEW v, u # v
  PROVE  /\ Keys(ConsumersOf(c, u), "property") \cap Keys(ConsumersOf(c, v), "property") = {}
         /\ Keys(ConsumersOf(c, u), "color") \cap Keys(ConsumersOf(c, v), "color") = {}
<1>1. \A w : /\ Keys(ConsumersOf(c, w), "property") \subseteq PropertiesOf(c, w)
             /\ Keys(ConsumersOf(c, w), "color") \subseteq ColorsOf(c, w)
  BY InputReads DEF Keys
<1>2. PropertiesOf(c, u) \cap PropertiesOf(c, v) = {} /\ ColorsOf(c, u) \cap ColorsOf(c, v) = {}
  BY DEF PropertiesOf, ColorsOf, InUniverse
<1> QED
  BY <1>1, <1>2

-----------------------------------------------------------------------------
(* What a full evaluation leaves behind, part by part *)
LEMMA UpdateAfter ==
  ASSUME NEW c, CoreFits(c), PropertiesApart(c), NEW u, NEW all, all = ConsumersOf(c, u),
         NEW every, every = SourcesOf(all), NEW raw, NEW ready, NEW now0, NEW update,
         DOMAIN update.held = DOMAIN NothingHeld, TransformsFit(update.held.transform),
         NEW old, old = update.held,
         NEW after, after = UpdateUniverse(c, u, all, every, raw, ready, now0, update).held
  PROVE  /\ \A l : Held(after.shutter, l, NoShutter)
                     = IF l \in Keys(all, "shutter")
                       THEN UpdateShutter(Held(old.shutter, l, NoShutter), CommandedShutter(c, ShuttersOf(c, l), raw), now0)
                       ELSE Held(old.shutter, l, NoShutter)
         /\ \A l : Held(after.gobo, l, None)
                     = IF l \in Keys(all, "gobo") /\ SelectedGobo(c, GobosOf(c, u, l), raw) # None
                       THEN SelectedGobo(c, GobosOf(c, u, l), raw)
                       ELSE Held(old.gobo, l, None)
         /\ \A l : Held(after.motion, l, NoRotation)
                     = IF l \in Keys(all, "motion")
                       THEN NextRotation(c, MotionsOf(c, u, l), raw, Held(old.motion, l, NoRotation), now0)
                       ELSE Held(old.motion, l, NoRotation)
         /\ \A k : Held(after.wheel, k, None)
                     = IF k \in Keys(all, "wheel")
                       THEN NextWheel(c, Held(old.wheel, k, None), ActiveWheel(c.programs, WheelsOf(c, u, k), raw), raw)
                       ELSE Held(old.wheel, k, None)
         /\ \A i \in Keys(all, "property") :
              LET reading == ReadProperty(c.programs, c.properties[i].inputs, raw)
              IN AngleRests(c.properties[i], reading, after.transform) /\ ValueRests(c.properties[i], reading, after.property)
         /\ \A j \in DOMAIN c.properties \ Keys(all, "property") : \A reading :
              /\ AngleRests(c.properties[j], reading, old.transform) => AngleRests(c.properties[j], reading, after.transform)
              /\ ValueRests(c.properties[j], reading, old.property) => ValueRests(c.properties[j], reading, after.property)
         /\ \A i \in Keys(all, "color") : \A j \in DOMAIN c.colors[i].inputs : InputRests(c, i, j, raw, after.input)
         /\ \A k \in DOMAIN old.input \ InputKeys(c, all) : k \in DOMAIN after.input /\ after.input[k] = old.input[k]
         /\ TransformsFit(after.transform)
<1>1. PICK readings, shutters, gobos, motions, properties, colors, wheels, coloured :
        /\ readings = Readings(c, all, raw)
        /\ shutters = ShutterDomain(c, all, raw, now0, update)
        /\ gobos = GoboDomain(c, u, all, raw, shutters)
        /\ motions = MotionDomain(c, u, all, raw, now0, gobos)
        /\ properties = PropertyDomain(c, readings, motions)
        /\ colors = ColorDomain(c, all, every, raw, ready, properties.held)
        /\ wheels = WheelDomain(c, u, all, raw, colors.targets, colors.held)
        /\ coloured = Layered(wheels, properties.rows)
  OBVIOUS
<1>2. after = TransformDomain(c, readings, coloured).held
  BY <1>1 DEF UpdateUniverse, ColorsAndWheels, Coloured
<1>3. /\ Keeps(old, shutters.held, {"shutter"}) /\ Keeps(shutters.held, gobos.held, {"gobo"})
      /\ Keeps(gobos.held, motions.held, {"motion"}) /\ Keeps(motions.held, properties.held, {"property"})
      /\ Keeps(properties.held, colors.held, {"input", "base"}) /\ Keeps(colors.held, wheels.held, {"wheel"})
      /\ Keeps(coloured.held, after, {"transform"})
  BY <1>1, <1>2, ShutterKeeps, GoboKeeps, MotionKeeps, PropertyKeeps, ColorKeeps, WheelKeeps, TransformKeeps
<1>4. Keeps(wheels.held, coloured.held, {"color"})
  <2>1. PICK start : start = Update(wheels.held, properties.rows)
    OBVIOUS
  <2>2. start.held = wheels.held /\ coloured = ComposeTargets(wheels.targets, start)
    BY <1>1, <2>1 DEF Layered, Update
  <2> QED
    BY <2>2, ComposeKeeps
<1>5. DOMAIN NothingHeld = {"transform", "property", "input", "base", "wheel", "color", "gobo", "motion", "shutter"}
  BY DEF NothingHeld
<1>6. /\ DOMAIN old = DOMAIN NothingHeld /\ DOMAIN shutters.held = DOMAIN NothingHeld
      /\ DOMAIN gobos.held = DOMAIN NothingHeld /\ DOMAIN motions.held = DOMAIN NothingHeld
      /\ DOMAIN properties.held = DOMAIN NothingHeld /\ DOMAIN colors.held = DOMAIN NothingHeld
      /\ DOMAIN wheels.held = DOMAIN NothingHeld /\ DOMAIN coloured.held = DOMAIN NothingHeld
  BY <1>3, <1>4 DEF Keeps
<1>7. /\ after.shutter = shutters.held.shutter /\ after.gobo = gobos.held.gobo /\ after.motion = motions.held.motion
      /\ after.property = properties.held.property /\ after.input = colors.held.input /\ after.wheel = wheels.held.wheel
  BY <1>3, <1>4, <1>5, <1>6 DEF Keeps
<1>8. /\ shutters.held.gobo = old.gobo /\ gobos.held.motion = old.motion /\ motions.held.property = old.property
      /\ properties.held.input = old.input /\ colors.held.wheel = old.wheel /\ coloured.held.transform = old.transform
  BY <1>3, <1>4, <1>5, <1>6 DEF Keeps
<1>9. /\ DOMAIN readings = Keys(all, "property")
      /\ \A i \in Keys(all, "property") : readings[i] = ReadProperty(c.programs, c.properties[i].inputs, raw)
  <2>1. all \in SUBSET all
    OBVIOUS
  <2>2. /\ DOMAIN Readings(c, all, raw) = Keys(all, "property")
        /\ \A i \in Keys(all, "property") :
             Readings(c, all, raw)[i] = ReadProperty(c.programs, c.properties[i].inputs, raw)
    BY <2>1, ReadingsExtend
  <2> QED
    BY <1>1, <2>2
<1>10. /\ ConsumersFit(c, all, every)
       /\ \E n \in Nat : DOMAIN c.properties \subseteq 1..n
       /\ Keys(all, "property") \subseteq DOMAIN c.properties
       /\ ColorSourcesIn(c, all, every)
  <2>1. ConsumersFit(c, all, every)
    BY PlanConsumersFit
  <2> QED
    BY <2>1 DEF ConsumersFit
<1>11. PICK n \in Nat : DOMAIN c.properties \subseteq 1..n
  BY <1>10
<1>12. \A l : Held(after.shutter, l, NoShutter)
                     = IF l \in Keys(all, "shutter")
                       THEN UpdateShutter(Held(old.shutter, l, NoShutter), CommandedShutter(c, ShuttersOf(c, l), raw), now0)
                       ELSE Held(old.shutter, l, NoShutter)
  <2> SUFFICES ASSUME NEW l
               PROVE  Held(after.shutter, l, NoShutter)
                        = IF l \in Keys(all, "shutter")
                          THEN UpdateShutter(Held(old.shutter, l, NoShutter), CommandedShutter(c, ShuttersOf(c, l), raw), now0)
                          ELSE Held(old.shutter, l, NoShutter)
    OBVIOUS
  <2>1. "shutter" \in DOMAIN update.held
    BY <1>5
  <2>2. Held(shutters.held.shutter, l, NoShutter)
          = IF l \in Keys(all, "shutter")
            THEN UpdateShutter(Held(update.held.shutter, l, NoShutter), CommandedShutter(c, ShuttersOf(c, l), raw), now0)
            ELSE Held(update.held.shutter, l, NoShutter)
    BY <1>1, <2>1, ShutterAfter
  <2> QED
    BY <1>7, <2>2
<1>13. \A l : Held(after.gobo, l, None)
                     = IF l \in Keys(all, "gobo") /\ SelectedGobo(c, GobosOf(c, u, l), raw) # None
                       THEN SelectedGobo(c, GobosOf(c, u, l), raw)
                       ELSE Held(old.gobo, l, None)
  <2> SUFFICES ASSUME NEW l
               PROVE  Held(after.gobo, l, None)
                        = IF l \in Keys(all, "gobo") /\ SelectedGobo(c, GobosOf(c, u, l), raw) # None
                          THEN SelectedGobo(c, GobosOf(c, u, l), raw)
                          ELSE Held(old.gobo, l, None)
    OBVIOUS
  <2>1. "gobo" \in DOMAIN shutters.held
    BY <1>5, <1>6
  <2>2. Held(gobos.held.gobo, l, None)
          = IF l \in Keys(all, "gobo") /\ SelectedGobo(c, GobosOf(c, u, l), raw) # None
            THEN SelectedGobo(c, GobosOf(c, u, l), raw)
            ELSE Held(shutters.held.gobo, l, None)
    BY <1>1, <2>1, GoboAfter
  <2> QED
    BY <1>7, <1>8, <2>2
<1>14. \A l : Held(after.motion, l, NoRotation)
                     = IF l \in Keys(all, "motion")
                       THEN NextRotation(c, MotionsOf(c, u, l), raw, Held(old.motion, l, NoRotation), now0)
                       ELSE Held(old.motion, l, NoRotation)
  <2> SUFFICES ASSUME NEW l
               PROVE  Held(after.motion, l, NoRotation)
                        = IF l \in Keys(all, "motion")
                          THEN NextRotation(c, MotionsOf(c, u, l), raw, Held(old.motion, l, NoRotation), now0)
                          ELSE Held(old.motion, l, NoRotation)
    OBVIOUS
  <2>1. "motion" \in DOMAIN gobos.held
    BY <1>5, <1>6
  <2>2. Held(motions.held.motion, l, NoRotation)
          = IF l \in Keys(all, "motion")
            THEN NextRotation(c, MotionsOf(c, u, l), raw, Held(gobos.held.motion, l, NoRotation), now0)
            ELSE Held(gobos.held.motion, l, NoRotation)
    BY <1>1, <2>1, MotionAfter
  <2> QED
    BY <1>7, <1>8, <2>2
<1>15. \A k : Held(after.wheel, k, None)
                     = IF k \in Keys(all, "wheel")
                       THEN NextWheel(c, Held(old.wheel, k, None), ActiveWheel(c.programs, WheelsOf(c, u, k), raw), raw)
                       ELSE Held(old.wheel, k, None)
  <2> SUFFICES ASSUME NEW k
               PROVE  Held(after.wheel, k, None)
                        = IF k \in Keys(all, "wheel")
                          THEN NextWheel(c, Held(old.wheel, k, None), ActiveWheel(c.programs, WheelsOf(c, u, k), raw), raw)
                          ELSE Held(old.wheel, k, None)
    OBVIOUS
  <2>1. (\/ k \in Keys(all, "wheel")
         \/ \E b \in Range(c.wheels) : b.target \in colors.targets /\ InUniverse(c, u, b) /\ k = <<b.target, b.wheel>>)
          <=> k \in Keys(all, "wheel")
    BY LayerKeys DEF WheelKey
  <2>2. "wheel" \in DOMAIN colors.held
    BY <1>5, <1>6
  <2>3. Held(wheels.held.wheel, k, None)
          = IF \/ k \in Keys(all, "wheel")
               \/ \E b \in Range(c.wheels) : b.target \in colors.targets /\ InUniverse(c, u, b) /\ k = <<b.target, b.wheel>>
            THEN NextWheel(c, Held(colors.held.wheel, k, None), ActiveWheel(c.programs, WheelsOf(c, u, k), raw), raw)
            ELSE Held(colors.held.wheel, k, None)
    BY <1>1, <2>2, WheelAfter
  <2> QED
    BY <1>7, <1>8, <2>1, <2>3
<1>16. /\ \A i \in DOMAIN readings : ValueRests(c.properties[i], readings[i], after.property)
       /\ \A id \in DOMAIN old.property \ {c.properties[i].id : i \in DOMAIN readings} :
            id \in DOMAIN after.property /\ after.property[id] = old.property[id]
  <2>1. "property" \in DOMAIN motions.held /\ DOMAIN readings \subseteq DOMAIN c.properties
    BY <1>5, <1>6, <1>9, <1>10
  <2>2. after.property = PropertyDomain(c, readings, motions).held.property
    BY <1>1, <1>7
  <2>3. /\ \A i \in DOMAIN readings : ValueRests(c.properties[i], readings[i], after.property)
        /\ \A id \in DOMAIN motions.held.property \ {c.properties[i].id : i \in DOMAIN readings} :
             id \in DOMAIN after.property /\ after.property[id] = motions.held.property[id]
    BY <1>11, <2>1, <2>2, PropertyAfter
  <2> QED
    BY <1>8, <2>3
<1>17. /\ \A i \in Keys(all, "color") : \A j \in DOMAIN c.colors[i].inputs : InputRests(c, i, j, raw, after.input)
       /\ \A k \in DOMAIN old.input \ InputKeys(c, all) : k \in DOMAIN after.input /\ after.input[k] = old.input[k]
  <2>1. "input" \in DOMAIN properties.held
    BY <1>5, <1>6
  <2>2. after.input = ColorDomain(c, all, every, raw, ready, properties.held).held.input
    BY <1>1, <1>7
  <2>3. /\ \A i \in Keys(all, "color") : \A j \in DOMAIN c.colors[i].inputs : InputRests(c, i, j, raw, after.input)
        /\ \A k \in DOMAIN properties.held.input \ InputKeys(c, all) :
             k \in DOMAIN after.input /\ after.input[k] = properties.held.input[k]
    BY <1>10, <2>1, <2>2, InputAfter
  <2> QED
    BY <1>8, <2>3
<1>18. /\ \A i \in DOMAIN readings : AngleRests(c.properties[i], readings[i], after.transform)
       /\ \A j \in DOMAIN c.properties \ DOMAIN readings : \A reading :
            AngleRests(c.properties[j], reading, old.transform) => AngleRests(c.properties[j], reading, after.transform)
       /\ TransformsFit(after.transform)
  <2>1. /\ "transform" \in DOMAIN coloured.held /\ DOMAIN readings \subseteq DOMAIN c.properties
        /\ TransformsFit(coloured.held.transform)
    BY <1>5, <1>6, <1>8, <1>9, <1>10
  <2>2. after.transform = TransformDomain(c, readings, coloured).held.transform
    BY <1>2
  <2>3. /\ \A i \in DOMAIN readings : AngleRests(c.properties[i], readings[i], after.transform)
        /\ \A j \in DOMAIN c.properties \ DOMAIN readings : \A reading :
             AngleRests(c.properties[j], reading, coloured.held.transform) => AngleRests(c.properties[j], reading, after.transform)
        /\ TransformsFit(after.transform)
    BY <1>11, <2>1, <2>2, TransformAfter
  <2> QED
    BY <1>8, <2>3
<1>19. ASSUME NEW j \in DOMAIN c.properties \ Keys(all, "property"), NEW reading,
              ValueRests(c.properties[j], reading, old.property)
       PROVE  ValueRests(c.properties[j], reading, after.property)
  <2>1. c.properties[j].id \notin {c.properties[i].id : i \in DOMAIN readings}
    BY <1>9, <1>10, <1>19 DEF PropertiesApart
  <2>2. c.properties[j].id \in DOMAIN old.property =>
          c.properties[j].id \in DOMAIN after.property
            /\ after.property[c.properties[j].id] = old.property[c.properties[j].id]
    BY <1>16, <2>1
  <2> QED
    BY <1>19, <2>2 DEF ValueRests
<1> QED
  BY <1>9, <1>12, <1>13, <1>14, <1>15, <1>16, <1>17, <1>18, <1>19

(* What moves with time is held as it should be.                            *)
TimeFits(h) ==
  /\ \A l \in DOMAIN h.motion : DOMAIN h.motion[l] = DOMAIN NoRotation
  /\ \A l \in DOMAIN h.shutter : h.shutter[l].revision \in Nat

LEMMA RestIs ==
  ASSUME NEW c, NEW u, NEW raw, NEW h
  PROVE  AtRest(c, u, raw, h) <=>
           /\ \A l \in Keys(ConsumersOf(c, u), "shutter") : ShutterRests(c, l, raw, h.shutter)
           /\ \A l \in Keys(ConsumersOf(c, u), "gobo") : GoboRests(c, u, l, raw, h.gobo)
           /\ \A l \in Keys(ConsumersOf(c, u), "motion") : MotionRests(c, u, l, raw, h.motion)
           /\ \A i \in Keys(ConsumersOf(c, u), "property") :
                LET reading == ReadProperty(c.programs, c.properties[i].inputs, raw)
                IN AngleRests(c.properties[i], reading, h.transform) /\ ValueRests(c.properties[i], reading, h.property)
           /\ \A i \in Keys(ConsumersOf(c, u), "color") : \A j \in DOMAIN c.colors[i].inputs :
                InputRests(c, i, j, raw, h.input)
           /\ \A k \in Keys(ConsumersOf(c, u), "wheel") : WheelRests(c, u, k, raw, h.wheel)
<1>1. PICK all : all = ConsumersOf(c, u)
  OBVIOUS
<1>2. \A domain : Keys(all, domain) \ Keys({}, domain) = Keys(all, domain)
  BY DEF Keys
<1>3. ColorsRest(c, all, {}, {}, raw, h.input) <=>
        \A i \in Keys(all, "color") : \A j \in DOMAIN c.colors[i].inputs : InputRests(c, i, j, raw, h.input)
  BY DEF ColorsRest
<1> QED
  BY <1>1, <1>2, <1>3 DEF AtRest, RestsBut

(* After a full evaluation its universe rests, and so does another that did *)
(* before.                                                                  *)
LEMMA UpdateRests ==
  ASSUME NEW c, CoreFits(c), PropertiesApart(c), LayersApart(c), NEW u, NEW all, all = ConsumersOf(c, u),
         NEW every, every = SourcesOf(all), NEW raw, NEW ready, NEW now0, NEW update,
         DOMAIN update.held = DOMAIN NothingHeld, TransformsFit(update.held.transform), TimeFits(update.held),
         NEW after, after = UpdateUniverse(c, u, all, every, raw, ready, now0, update).held
  PROVE  /\ AtRest(c, u, raw, after) /\ TransformsFit(after.transform)
         /\ \A v, raw1 : v # u /\ AtRest(c, v, raw1, update.held) => AtRest(c, v, raw1, after)
<1>1. PICK old : old = update.held
  OBVIOUS
<1>2. \A l : Held(after.shutter, l, NoShutter)
                     = IF l \in Keys(all, "shutter")
                       THEN UpdateShutter(Held(old.shutter, l, NoShutter), CommandedShutter(c, ShuttersOf(c, l), raw), now0)
                       ELSE Held(old.shutter, l, NoShutter)
  BY <1>1, UpdateAfter
<1>3. \A l : Held(after.gobo, l, None)
                     = IF l \in Keys(all, "gobo") /\ SelectedGobo(c, GobosOf(c, u, l), raw) # None
                       THEN SelectedGobo(c, GobosOf(c, u, l), raw)
                       ELSE Held(old.gobo, l, None)
  BY <1>1, UpdateAfter
<1>4. \A l : Held(after.motion, l, NoRotation)
                     = IF l \in Keys(all, "motion")
                       THEN NextRotation(c, MotionsOf(c, u, l), raw, Held(old.motion, l, NoRotation), now0)
                       ELSE Held(old.motion, l, NoRotation)
  BY <1>1, UpdateAfter
<1>5. \A k : Held(after.wheel, k, None)
                     = IF k \in Keys(all, "wheel")
                       THEN NextWheel(c, Held(old.wheel, k, None), ActiveWheel(c.programs, WheelsOf(c, u, k), raw), raw)
                       ELSE Held(old.wheel, k, None)
  BY <1>1, UpdateAfter
<1>6. \A i \in Keys(all, "property") :
        LET reading == ReadProperty(c.programs, c.properties[i].inputs, raw)
        IN AngleRests(c.properties[i], reading, after.transform) /\ ValueRests(c.properties[i], reading, after.property)
  BY <1>1, UpdateAfter
<1>7. \A j \in DOMAIN c.properties \ Keys(all, "property") : \A reading :
        /\ AngleRests(c.properties[j], reading, old.transform) => AngleRests(c.properties[j], reading, after.transform)
        /\ ValueRests(c.properties[j], reading, old.property) => ValueRests(c.properties[j], reading, after.property)
  BY <1>1, UpdateAfter
<1>8. /\ \A i \in Keys(all, "color") : \A j \in DOMAIN c.colors[i].inputs : InputRests(c, i, j, raw, after.input)
      /\ \A k \in DOMAIN old.input \ InputKeys(c, all) : k \in DOMAIN after.input /\ after.input[k] = old.input[k]
      /\ TransformsFit(after.transform)
  BY <1>1, UpdateAfter
<1>9. AtRest(c, u, raw, after)
  <2>1. ASSUME NEW l \in Keys(all, "shutter") PROVE ShutterRests(c, l, raw, after.shutter)
    <3>1. PICK before, command : /\ before = Held(old.shutter, l, NoShutter)
                                 /\ command = CommandedShutter(c, ShuttersOf(c, l), raw)
      OBVIOUS
    <3>2. before.revision \in Nat
      BY <1>1, <3>1 DEF TimeFits, Held, NoShutter
    <3>3. Held(after.shutter, l, NoShutter) = UpdateShutter(before, command, now0)
      BY <1>2, <2>1, <3>1
    <3> QED
      BY <3>1, <3>2, <3>3, UpdatedShutterRests DEF ShutterRests
  <2>2. \A l \in Keys(all, "gobo") : GoboRests(c, u, l, raw, after.gobo)
    BY <1>3 DEF GoboRests
  <2>3. ASSUME NEW l \in Keys(all, "motion") PROVE MotionRests(c, u, l, raw, after.motion)
    <3>1. PICK before, bindings : before = Held(old.motion, l, NoRotation) /\ bindings = MotionsOf(c, u, l)
      OBVIOUS
    <3>2. DOMAIN before = DOMAIN NoRotation
      BY <1>1, <3>1 DEF TimeFits, Held
    <3>3. Held(after.motion, l, NoRotation) = NextRotation(c, bindings, raw, before, now0)
      BY <1>4, <2>3, <3>1
    <3>4. \A at : NextRotation(c, bindings, raw, NextRotation(c, bindings, raw, before, now0), at)
                    = NextRotation(c, bindings, raw, before, now0)
      BY <3>2, NextRotationRests
    <3> QED
      BY <3>1, <3>3, <3>4 DEF MotionRests
  <2>4. ASSUME NEW k \in Keys(all, "wheel") PROVE WheelRests(c, u, k, raw, after.wheel)
    <3>1. PICK before, chosen : /\ before = Held(old.wheel, k, None)
                                /\ chosen = ActiveWheel(c.programs, WheelsOf(c, u, k), raw)
      OBVIOUS
    <3>2. Held(after.wheel, k, None) = NextWheel(c, before, chosen, raw)
      BY <1>5, <2>4, <3>1
    <3> QED
      BY <3>1, <3>2, NextWheelRests DEF WheelRests
  <2> QED
    BY <1>6, <1>8, <2>1, <2>2, <2>3, <2>4, RestIs
<1>10. ASSUME NEW v, v # u, NEW raw1, AtRest(c, v, raw1, old)
       PROVE  AtRest(c, v, raw1, after)
  <2>1. PICK other : other = ConsumersOf(c, v)
    OBVIOUS
  <2>2. \A domain \in {"shutter", "gobo", "motion", "wheel", "property", "color"} :
          Keys(all, domain) \cap Keys(other, domain) = {}
    BY <1>10, <2>1, KeysApart, InputsApart
  <2>3. /\ \A l \in Keys(other, "shutter") : ShutterRests(c, l, raw1, old.shutter)
        /\ \A l \in Keys(other, "gobo") : GoboRests(c, v, l, raw1, old.gobo)
        /\ \A l \in Keys(other, "motion") : MotionRests(c, v, l, raw1, old.motion)
        /\ \A i \in Keys(other, "property") :
             LET reading == ReadProperty(c.programs, c.properties[i].inputs, raw1)
             IN AngleRests(c.properties[i], reading, old.transform) /\ ValueRests(c.properties[i], reading, old.property)
        /\ \A i \in Keys(other, "color") : \A j \in DOMAIN c.colors[i].inputs : InputRests(c, i, j, raw1, old.input)
        /\ \A k \in Keys(other, "wheel") : WheelRests(c, v, k, raw1, old.wheel)
    BY <1>10, <2>1, RestIs
  <2>4. \A l \in Keys(other, "shutter") : ShutterRests(c, l, raw1, after.shutter)
    BY <1>2, <2>2, <2>3 DEF ShutterRests
  <2>5. \A l \in Keys(other, "gobo") : GoboRests(c, v, l, raw1, after.gobo)
    BY <1>3, <2>2, <2>3 DEF GoboRests
  <2>6. \A l \in Keys(other, "motion") : MotionRests(c, v, l, raw1, after.motion)
    BY <1>4, <2>2, <2>3 DEF MotionRests
  <2>7. \A k \in Keys(other, "wheel") : WheelRests(c, v, k, raw1, after.wheel)
    BY <1>5, <2>2, <2>3 DEF WheelRests
  <2>8. ASSUME NEW i \in Keys(other, "property")
        PROVE  LET reading == ReadProperty(c.programs, c.properties[i].inputs, raw1)
               IN AngleRests(c.properties[i], reading, after.transform) /\ ValueRests(c.properties[i], reading, after.property)
    <3>1. i \in DOMAIN c.properties \ Keys(all, "property")
      BY <2>1, <2>2, PlanConsumersFit DEF ConsumersFit
    <3> QED
      BY <1>7, <2>3, <3>1
  <2>9. ASSUME NEW i \in Keys(other, "color"), NEW j \in DOMAIN c.colors[i].inputs
        PROVE  InputRests(c, i, j, raw1, after.input)
    <3>1. <<i, j>> \notin InputKeys(c, all)
      BY <2>2 DEF InputKeys
    <3>2. InputRests(c, i, j, raw1, old.input)
      BY <2>3
    <3> QED
      BY <1>8, <3>1, <3>2 DEF InputRests
  <2> QED
    BY <2>1, <2>4, <2>5, <2>6, <2>7, <2>8, <2>9, RestIs
<1> QED
  BY <1>1, <1>8, <1>9, <1>10

-----------------------------------------------------------------------------
(* What is held stays made of tables *)
LEMMA OverlaidTable ==
  ASSUME NEW f, NEW base
  PROVE  IsTable(Overlaid(f, base))
<1>1. PICK o : o = Overlaid(f, base)
  OBVIOUS
<1>2. o = [x \in DOMAIN f \cup DOMAIN base |-> IF x \in DOMAIN f THEN f[x] ELSE base[x]]
  BY <1>1, TabulatedIs DEF Overlaid
<1>3. IsTable(o)
  BY <1>2 DEF IsTable
<1> QED
  BY <1>1, <1>3

LEMMA ExceptFits ==
  ASSUME NEW h, HeldFits(h), NEW part \in DOMAIN NothingHeld, NEW x, IsTable(x)
  PROVE  HeldFits([h EXCEPT ![part] = x])
<1>1. PICK g : g = [h EXCEPT ![part] = x]
  OBVIOUS
<1>2. IsTable(g) /\ DOMAIN g = DOMAIN h
  BY <1>1 DEF IsTable
<1>3. \A p \in DOMAIN h : g[p] = IF p = part THEN x ELSE h[p]
  BY <1>1
<1> QED
  BY <1>1, <1>2, <1>3 DEF HeldFits

LEMMA AdoptFits ==
  ASSUME NEW update, UpdateFits(update), NEW domain \in DOMAIN NothingHeld, NEW next, NEW kept, NEW shown
  PROVE  UpdateFits(Adopt(update, domain, next, kept, shown))
<1>1. PICK h, o, r : /\ h = update.held /\ o = Overlaid([k \in kept |-> next[k]], h[domain])
                     /\ r = Overlaid([k \in {<<domain, l>> : l \in shown} |-> next[k[2]]], update.rows)
  OBVIOUS
<1>2. Adopt(update, domain, next, kept, shown) = Update([h EXCEPT ![domain] = o], r)
  BY <1>1 DEF Adopt
<1>3. IsTable(o) /\ IsTable(r)
  BY <1>1, OverlaidTable
<1>4. HeldFits([h EXCEPT ![domain] = o])
  BY <1>1, <1>3, ExceptFits DEF UpdateFits
<1> QED
  BY <1>2, <1>3, <1>4 DEF UpdateFits, Update

LEMMA PropertiesFit ==
  ASSUME NEW c, NEW readings, NEW update, UpdateFits(update)
  PROVE  UpdateFits(PropertyDomain(c, readings, update))
<1>1. PICK next : PropertyDomain(c, readings, update) = Properties(c, next, update)
  BY DEF PropertyDomain
<1>2. PICK h : h = update.held
  OBVIOUS
<1>3. PICK f, g : Properties(c, next, update)
                    = Update([h EXCEPT !["property"] = Overlaid(f, h["property"])], Overlaid(g, update.rows))
  BY <1>2 DEF Properties
<1>4. PICK o, r : o = Overlaid(f, h["property"]) /\ r = Overlaid(g, update.rows)
  OBVIOUS
<1>5. IsTable(o) /\ IsTable(r)
  BY <1>4, OverlaidTable
<1>6. "property" \in DOMAIN NothingHeld
  BY DEF NothingHeld
<1>7. HeldFits([h EXCEPT !["property"] = o])
  BY <1>2, <1>5, <1>6, ExceptFits DEF UpdateFits
<1> QED
  BY <1>1, <1>3, <1>4, <1>5, <1>7 DEF UpdateFits, Update

LEMMA ColorsFit ==
  ASSUME NEW c, NEW dirty, NEW sources, NEW raw, NEW ready, NEW held0, HeldFits(held0)
  PROVE  HeldFits(ColorDomain(c, dirty, sources, raw, ready, held0).held)
<1>1. PICK next : ColorDomain(c, dirty, sources, raw, ready, held0) = Inputs(c, next, held0)
  BY DEF ColorDomain
<1>2. PICK changed : Inputs(c, next, held0) = Repaint(c, next, changed, held0)
  BY DEF Inputs
<1>3. PICK o, r : /\ o = Overlaid(next, held0["input"]) /\ r = Repainted(c, next, changed, held0["base"])
  OBVIOUS
<1>4. Repaint(c, next, changed, held0).held = [[held0 EXCEPT !["input"] = o] EXCEPT !["base"] = r]
  BY <1>3 DEF Repaint
<1>5. IsTable(o) /\ IsTable(r)
  BY <1>3, OverlaidTable DEF Repainted
<1>6. "input" \in DOMAIN NothingHeld /\ "base" \in DOMAIN NothingHeld
  BY DEF NothingHeld
<1>7. PICK g : g = [held0 EXCEPT !["input"] = o]
  OBVIOUS
<1>8. HeldFits(g)
  BY <1>5, <1>6, <1>7, ExceptFits
<1>9. HeldFits([g EXCEPT !["base"] = r])
  BY <1>5, <1>6, <1>8, ExceptFits
<1> QED
  BY <1>1, <1>2, <1>4, <1>7, <1>9

LEMMA WheelsFit ==
  ASSUME NEW c, NEW u, NEW dirty, NEW raw, NEW targets, NEW held0, HeldFits(held0)
  PROVE  HeldFits(WheelDomain(c, u, dirty, raw, targets, held0).held)
<1>1. PICK next : WheelDomain(c, u, dirty, raw, targets, held0) = Wheels(next, targets, held0)
  BY DEF WheelDomain
<1>2. PICK f : Wheels(next, targets, held0).held = [held0 EXCEPT !["wheel"] = Overlaid(f, held0["wheel"])]
  BY DEF Wheels
<1>3. PICK o : o = Overlaid(f, held0["wheel"])
  OBVIOUS
<1>4. IsTable(o) /\ "wheel" \in DOMAIN NothingHeld
  BY <1>3, OverlaidTable DEF NothingHeld
<1>5. HeldFits([held0 EXCEPT !["wheel"] = o])
  BY <1>4, ExceptFits
<1> QED
  BY <1>1, <1>2, <1>3, <1>5

LEMMA LitFits ==
  ASSUME NEW targets, NEW update, HeldFits(update.held), IsTable(update.rows)
  PROVE  UpdateFits(ComposeTargets(targets, update))
<1>1. PICK light : ComposeTargets(targets, update) = Lit(update, light)
  BY DEF ComposeTargets
<1>2. PICK h : h = update.held
  OBVIOUS
<1>3. PICK g : Lit(update, light) = Update([h EXCEPT !["color"] = Overlaid(light, h["color"])], Overlaid(g, update.rows))
  BY <1>2 DEF Lit
<1>4. PICK o, r : o = Overlaid(light, h["color"]) /\ r = Overlaid(g, update.rows)
  OBVIOUS
<1>5. IsTable(o) /\ IsTable(r) /\ "color" \in DOMAIN NothingHeld
  BY <1>4, OverlaidTable DEF NothingHeld
<1>6. HeldFits([h EXCEPT !["color"] = o])
  BY <1>2, <1>5, ExceptFits
<1> QED
  BY <1>1, <1>3, <1>4, <1>5, <1>6 DEF UpdateFits, Update

LEMMA UpdateStaysFit ==
  ASSUME NEW c, NEW u, NEW all, NEW every, NEW raw, NEW ready, NEW now0, NEW update, UpdateFits(update)
  PROVE  UpdateFits(UpdateUniverse(c, u, all, every, raw, ready, now0, update))
<1>1. PICK readings, shutters, gobos, motions, properties, colors, wheels, coloured :
        /\ readings = Readings(c, all, raw)
        /\ shutters = ShutterDomain(c, all, raw, now0, update)
        /\ gobos = GoboDomain(c, u, all, raw, shutters)
        /\ motions = MotionDomain(c, u, all, raw, now0, gobos)
        /\ properties = PropertyDomain(c, readings, motions)
        /\ colors = ColorDomain(c, all, every, raw, ready, properties.held)
        /\ wheels = WheelDomain(c, u, all, raw, colors.targets, colors.held)
        /\ coloured = Layered(wheels, properties.rows)
  OBVIOUS
<1>2. UpdateUniverse(c, u, all, every, raw, ready, now0, update) = TransformDomain(c, readings, coloured)
  BY <1>1 DEF UpdateUniverse, ColorsAndWheels, Coloured
<1>3. {"shutter", "gobo", "motion", "transform"} \subseteq DOMAIN NothingHeld
  BY DEF NothingHeld
<1>4. UpdateFits(shutters)
  BY <1>1, <1>3, AdoptFits DEF ShutterDomain, Shutters, AdoptRenewed
<1>5. UpdateFits(gobos)
  BY <1>1, <1>3, <1>4, AdoptFits DEF GoboDomain, Gobos, AdoptRenewed
<1>6. UpdateFits(motions)
  BY <1>1, <1>3, <1>5, AdoptFits DEF MotionDomain, Motions
<1>7. UpdateFits(properties)
  BY <1>1, <1>6, PropertiesFit
<1>8. HeldFits(wheels.held) /\ IsTable(properties.rows)
  BY <1>1, <1>7, ColorsFit, WheelsFit DEF UpdateFits
<1>9. UpdateFits(coloured)
  <2>1. PICK start : start = Update(wheels.held, properties.rows)
    OBVIOUS
  <2>2. start.held = wheels.held /\ start.rows = properties.rows /\ coloured = ComposeTargets(wheels.targets, start)
    BY <1>1, <2>1 DEF Layered, Update
  <2> QED
    BY <1>8, <2>2, LitFits
<1>10. UpdateFits(TransformDomain(c, readings, coloured))
  <2>1. \E next : TransformDomain(c, readings, coloured) = Transforms(coloured, next)
    BY DEF TransformDomain
  <2> QED
    BY <1>3, <1>9, <2>1, AdoptFits DEF Transforms
<1> QED
  BY <1>2, <1>10

-----------------------------------------------------------------------------
(* A consume is a full evaluation *)

(* Every scene is one whose universes do not depend on one another.         *)
ScenesSeparate == \A s \in DOMAIN Scenes : Separate(Cores[s])

(* The values of a universe's sources when it was last evaluated, and those *)
(* of its newest frame.                                                     *)
LastValues(u) == [s \in core.plans[u].sources |-> Assembled(core.programs[s], seen[u])]
NewValues(u) == [s \in core.plans[u].sources |-> ReadRaw(frame[u], core.programs[s])]

(* Whatever was evaluated rests: with the same bytes another evaluation     *)
(* would change nothing.                                                    *)
EvaluatedInv ==
  /\ HeldFits(held) /\ TransformsFit(held.transform) /\ IsTable(visual)
  /\ \A u \in Universes :
       installed # None /\ u \in DOMAIN Plans /\ seen[u] # None =>
         SeenFits(u) /\ AtRest(core, u, LastValues(u), held)

LEMMA PlanIs ==
  ASSUME RuntimeInv, installed # None, NEW u, u \in DOMAIN Plans
  PROVE  /\ CoreFits(core) /\ u \in DOMAIN core.plans
         /\ core.plans[u].consumers = ConsumersOf(core, u)
         /\ core.plans[u].sources = SourcesOf(ConsumersOf(core, u))
         /\ PlanFits(core, core.plans[u])
         /\ ScenesSeparate => Separate(core)
<1>1. installed \in DOMAIN Scenes /\ core = Cores[installed] /\ u \in DOMAIN core.plans
  BY DEF RuntimeInv, core, Plans
<1>2. CoreFits(core)
  BY <1>1, InstalledFits
<1>3. PlanInstalled(core, u)
  BY <1>1, <1>2 DEF CoreFits
<1>4. PlanFits(core, core.plans[u])
  BY <1>1, CorePlans
<1> QED
  BY <1>1, <1>2, <1>3, <1>4 DEF PlanInstalled, PlanFits, ScenesSeparate

LEMMA DecodedIsNew ==
  ASSUME RuntimeInv, installed # None, NEW u \in Universes, u \in DOMAIN Plans
  PROVE  Tabulated(Decoded(u, ChangedSources(core, core.plans[u], ChangedAddresses(u)))) = NewValues(u)
<1>1. PICK sources : sources = ChangedSources(core, core.plans[u], ChangedAddresses(u))
  OBVIOUS
<1>2. ASSUME NEW s \in core.plans[u].sources
      PROVE  (IF s \in sources \/ s \notin DOMAIN cache[u] THEN ReadRaw(frame[u], core.programs[s]) ELSE cache[u][s])
               = ReadRaw(frame[u], core.programs[s])
  <2>1. ReadRaw(frame[u], core.programs[s]) = Assembled(core.programs[s], Relevant(u))
    BY DecodedIsCurrent
  <2>2. s \in DOMAIN cache[u] /\ s \notin sources => cache[u][s] = Assembled(core.programs[s], Relevant(u))
    BY <1>1, KeptIsCurrent
  <2> QED
    BY <2>1, <2>2
<1>3. Decoded(u, sources) = NewValues(u)
  BY <1>2 DEF Decoded, NewValues
<1> QED
  BY <1>1, <1>3, TabulatedIs

LEMMA KeptValues ==
  ASSUME RuntimeInv, installed # None, NEW u \in Universes, u \in DOMAIN Plans, seen[u] # None, SeenFits(u),
         NEW s \in core.plans[u].sources,
         s \notin ChangedSources(core, core.plans[u], ChangedAddresses(u))
  PROVE  LastValues(u)[s] = NewValues(u)[s]
<1>1. PlanFits(core, core.plans[u])
  BY PlanIs
<1>2. AddressesOf(core.programs[s]) \subseteq core.plans[u].interest
  BY <1>1 DEF PlanFits, Addresses
<1>3. ASSUME NEW a \in AddressesOf(core.programs[s])
      PROVE  seen[u][a] = Relevant(u)[a]
  <2>1. a \in core.plans[u].interest /\ Relevant(u)[a] = ByteAt(frame[u], a)
    BY <1>2, <1>3 DEF Relevant
  <2>2. CASE a \in 0..(Slots - 1)
    <3>1. Addresses(core, {s}) = AddressesOf(core.programs[s])
      BY DEF Addresses
    <3>2. a \notin ChangedAddresses(u)
      BY <1>3, <2>2, <3>1 DEF ChangedSources
    <3> QED
      BY <2>1, <3>2 DEF ChangedAddresses
  <2>3. CASE a \notin 0..(Slots - 1)
    <3>1. ByteAt(frame[u], a) = 0
      BY <2>3, NothingBeyond DEF RuntimeInv
    <3> QED
      BY <2>1, <2>3, <3>1 DEF SeenFits
  <2> QED
    BY <2>2, <2>3
<1>4. Assembled(core.programs[s], seen[u]) = Assembled(core.programs[s], Relevant(u))
  BY <1>3, AssembledSame
<1>5. ReadRaw(frame[u], core.programs[s]) = Assembled(core.programs[s], Relevant(u))
  BY DecodedIsCurrent
<1> QED
  BY <1>4, <1>5 DEF LastValues, NewValues

(* Of a first frame every source counts as changed.                         *)
LEMMA FirstChanges ==
  ASSUME RuntimeInv, ScenesSeparate, installed # None, NEW u \in Universes, u \in DOMAIN Plans, seen[u] = None
  PROVE  ChangedSources(core, core.plans[u], ChangedAddresses(u)) = core.plans[u].sources
<1>1. PlanFits(core, core.plans[u]) /\ Separate(core) /\ u \in DOMAIN core.plans
  BY PlanIs
<1>2. ChangedAddresses(u) = core.plans[u].interest
  BY DEF ChangedAddresses
<1>3. ASSUME NEW s \in core.plans[u].sources
      PROVE  Addresses(core, {s}) \cap ChangedAddresses(u) \cap 0..(Slots - 1) # {}
  <2>1. Addresses(core, {s}) = AddressesOf(core.programs[s])
    BY DEF Addresses
  <2>2. AddressesOf(core.programs[s]) \subseteq core.plans[u].interest
    BY <1>1 DEF PlanFits, Addresses
  <2>3. AddressesOf(core.programs[s]) \cap 0..(Slots - 1) # {}
    BY <1>1, SeparateMeans
  <2> QED
    BY <1>2, <2>1, <2>2, <2>3
<1> QED
  BY <1>3 DEF ChangedSources

LEMMA ConsumeRests ==
  ASSUME RuntimeInv, EvaluatedInv, ScenesSeparate, installed # None, NEW u \in Universes, u \in DOMAIN Plans,
         NEW sources, sources = ChangedSources(core, core.plans[u], ChangedAddresses(u))
  PROVE  RestsBut(core, u, ConsumersOf(core, u), Reached(core, u, sources), sources, NewValues(u), held)
<1>1. /\ CoreFits(core) /\ core.plans[u].sources = SourcesOf(ConsumersOf(core, u))
  BY PlanIs
<1>2. PICK c, raw1 : c = core /\ raw1 = NewValues(u)
  OBVIOUS
<1>3. CASE seen[u] = None
  <2>1. sources = SourcesOf(ConsumersOf(c, u))
    BY <1>1, <1>2, <1>3, FirstChanges
  <2> QED
    BY <1>1, <1>2, <2>1, FirstFrame
<1>4. CASE seen[u] # None
  <2>1. PICK raw0 : raw0 = LastValues(u)
    OBVIOUS
  <2>2. SeenFits(u) /\ AtRest(c, u, raw0, held)
    BY <1>2, <1>4, <2>1 DEF EvaluatedInv
  <2>3. \A s \in SourcesOf(ConsumersOf(c, u)) \ sources : raw0[s] = raw1[s]
    BY <1>1, <1>2, <1>4, <2>1, <2>2, KeptValues
  <2> QED
    BY <1>1, <1>2, <2>2, <2>3, RestsCarry
<1> QED
  BY <1>3, <1>4

(* What a full evaluation of the newest frame makes of what is held.        *)
FullOf(u) == FullUpdate(core, u, frame[u], now, held, visual)

LEMMA FullIs ==
  ASSUME RuntimeInv, HeldInv, EvaluatedInv, ScenesSeparate, installed # None, NEW u \in Universes, u \in DOMAIN Plans,
         NEW sources, sources = ChangedSources(core, core.plans[u], ChangedAddresses(u)), NEW ready
  PROVE  /\ FullOf(u) = UpdateUniverse(core, u, ConsumersOf(core, u), SourcesOf(ConsumersOf(core, u)), NewValues(u),
                                       FALSE, now, Update(held, visual))
         /\ FullOf(u) = UpdateUniverse(core, u, Reached(core, u, sources), sources, NewValues(u),
                                       ready, now, Update(held, visual))
<1>1. /\ CoreFits(core) /\ PropertiesApart(core)
      /\ core.plans[u].consumers = ConsumersOf(core, u) /\ core.plans[u].sources = SourcesOf(ConsumersOf(core, u))
  BY PlanIs, SeparateMeans
<1>2. PICK c, raw1, all, every, dirty, start, no :
        /\ c = core /\ raw1 = NewValues(u) /\ all = ConsumersOf(c, u) /\ every = SourcesOf(all)
        /\ dirty = Reached(c, u, sources) /\ start = Update(held, visual) /\ no = FALSE
  OBVIOUS
<1>3. FullOf(u) = UpdateUniverse(c, u, all, every, raw1, no, now, start)
  BY <1>1, <1>2 DEF FullOf, FullUpdate, NewValues
<1>4. UpdateUniverse(c, u, all, every, raw1, no, now, start)
        = UpdateUniverse(c, u, dirty, sources, raw1, ready, now, start)
  <2>1. start.held = held /\ DOMAIN held = DOMAIN NothingHeld /\ now \in Nat /\ TransformsFit(held.transform)
    BY <1>2 DEF Update, HeldInv, EvaluatedInv
  <2>2. dirty \in SUBSET all
    BY <1>2 DEF Reached
  <2>3. ConsumersFit(c, all, every)
    BY <1>1, <1>2, PlanConsumersFit
  <2>4. RestsBut(c, u, all, dirty, sources, raw1, start.held)
    BY <1>2, <2>1, ConsumeRests
  <2>5. PropertiesApart(c)
    BY <1>1, <1>2
  <2>6. DOMAIN start.held = DOMAIN NothingHeld /\ TransformsFit(start.held.transform)
    BY <2>1
  <2> QED
    BY <2>1, <2>2, <2>3, <2>4, <2>5, <2>6, UpdateSame
<1> QED
  BY <1>2, <1>3, <1>4

(* The dirty sets, the cached values and the prefetched inputs of a consume *)
(* change nothing.                                                          *)
LEMMA ConsumeIsFull ==
  ASSUME RuntimeInv, HeldInv, EvaluatedInv, ScenesSeparate, NEW u \in Universes, ConsumeUniverse(u)
  PROVE  held' = FullOf(u).held /\ visual' = FullOf(u).rows
<1>1. installed # None /\ u \in DOMAIN Plans
  BY DEF ConsumeUniverse, RuntimeInv, Idle
<1>2. PICK sources, raw1, start :
        /\ sources = ChangedSources(core, core.plans[u], ChangedAddresses(u))
        /\ raw1 = NewValues(u) /\ start = Update(held, visual)
  OBVIOUS
<1>3. FullOf(u) = UpdateUniverse(core, u, Reached(core, u, sources), sources, raw1, prepared, now, start)
  BY <1>1, <1>2, FullIs
<1>4. core.plans[u].consumers = ConsumersOf(core, u)
  BY <1>1, PlanIs
<1>5. CASE ChangedAddresses(u) = {}
  <2>1. sources = {}
    BY <1>2, <1>5 DEF ChangedSources
  <2>2. Reached(core, u, sources) = {}
    BY <2>1 DEF Reached
  <2>3. UpdateFits(start) /\ start.held = held /\ start.rows = visual
    BY <1>2 DEF UpdateFits, Update, EvaluatedInv
  <2>4. FullOf(u) = start
    BY <1>3, <2>2, <2>3, NothingDirty
  <2>5. held' = held /\ visual' = visual
    BY <1>5 DEF ConsumeUniverse
  <2> QED
    BY <2>3, <2>4, <2>5
<1>6. CASE ChangedAddresses(u) # {}
  <2>1. DirtyConsumers(core.plans[u], sources) = Reached(core, u, sources)
    BY <1>4 DEF DirtyConsumers, Reached
  <2>2. Tabulated(Decoded(u, sources)) = raw1
    BY <1>1, <1>2, DecodedIsNew
  <2>3. PICK next : next = UpdateUniverse(core, u, DirtyConsumers(core.plans[u], sources), sources,
                                          Tabulated(Decoded(u, sources)), prepared, now, Update(held, visual))
    OBVIOUS
  <2>4. held' = next.held /\ visual' = next.rows
    BY <1>2, <1>6, <2>3 DEF ConsumeUniverse, Process, Updated, Evaluated, Adopted
  <2>5. next = FullOf(u)
    BY <1>2, <1>3, <2>1, <2>2, <2>3
  <2> QED
    BY <2>4, <2>5
<1> QED
  BY <1>5, <1>6

LEMMA ConsumeStaysEvaluated ==
  ASSUME RuntimeInv, HeldInv, EvaluatedInv, ScenesSeparate, NEW u \in Universes, ConsumeUniverse(u)
  PROVE  EvaluatedInv'
<1>1. installed # None /\ u \in DOMAIN Plans
  BY DEF ConsumeUniverse, RuntimeInv, Idle
<1>2. UNCHANGED <<installed, frame, core, Plans>>
  BY DEF ConsumeUniverse, core, Plans
<1>3. /\ DOMAIN seen' = Universes /\ seen'[u] = Relevant(u)
      /\ \A v \in Universes \ {u} : seen'[v] = seen[v]
  BY DEF ConsumeUniverse, RuntimeInv
<1>4. PICK c, all, every, raw1, start, next :
        /\ c = core /\ all = ConsumersOf(c, u) /\ every = SourcesOf(all) /\ raw1 = NewValues(u)
        /\ start = Update(held, visual) /\ next = FullOf(u)
  OBVIOUS
<1>5. held' = next.held /\ visual' = next.rows
  BY <1>4, ConsumeIsFull
<1>6. PICK no : no = FALSE
  OBVIOUS
<1>7. next = UpdateUniverse(c, u, all, every, raw1, no, now, start)
  BY <1>1, <1>4, <1>6, FullIs
<1>8. UpdateFits(start) /\ start.held = held
  BY <1>4 DEF UpdateFits, Update, EvaluatedInv
<1>9. UpdateFits(next)
  BY <1>7, <1>8, UpdateStaysFit
<1>10. CoreFits(c) /\ PropertiesApart(c) /\ LayersApart(c) /\ every = core.plans[u].sources
  BY <1>1, <1>4, PlanIs, SeparateMeans
<1>11. TimeFits(held) /\ DOMAIN held = DOMAIN NothingHeld /\ TransformsFit(held.transform)
  BY DEF TimeFits, HeldInv, RotationFits, ShutterFits, EvaluatedInv
<1>12. /\ AtRest(c, u, raw1, held') /\ TransformsFit(held'.transform)
       /\ \A v, raw : v # u /\ AtRest(c, v, raw, held) => AtRest(c, v, raw, held')
  <2>1. PICK after : after = held'
    OBVIOUS
  <2>2. after = UpdateUniverse(c, u, all, every, raw1, no, now, start).held
    BY <1>5, <1>7, <2>1
  <2>3. DOMAIN start.held = DOMAIN NothingHeld /\ TransformsFit(start.held.transform) /\ TimeFits(start.held)
    BY <1>8, <1>11
  <2>4. /\ AtRest(c, u, raw1, after) /\ TransformsFit(after.transform)
        /\ \A v, raw : v # u /\ AtRest(c, v, raw, start.held) => AtRest(c, v, raw, after)
    <3>1. all = ConsumersOf(c, u) /\ every = SourcesOf(all)
      BY <1>4
    <3>2. CoreFits(c) /\ PropertiesApart(c) /\ LayersApart(c)
      BY <1>10
    <3>3. PICK at : at = now
      OBVIOUS
    <3>4. after = UpdateUniverse(c, u, all, every, raw1, no, at, start).held
      BY <2>2, <3>3
    <3> QED
      BY ONLY <2>3, <3>1, <3>2, <3>4, UpdateRests
  <2> QED
    BY <1>8, <2>1, <2>4
<1>13. LastValues(u)' = raw1
  <2>1. LastValues(u)' = [s \in core.plans[u].sources |-> Assembled(core.programs[s], Relevant(u))]
    BY <1>2, <1>3 DEF LastValues
  <2>2. \A s \in core.plans[u].sources : ReadRaw(frame[u], core.programs[s]) = Assembled(core.programs[s], Relevant(u))
    BY <1>1, DecodedIsCurrent
  <2> QED
    BY <1>4, <2>1, <2>2 DEF NewValues
<1>14. SeenFits(u)'
  <2>1. \A a \in core.plans[u].interest : Relevant(u)[a] = ByteAt(frame[u], a)
    BY DEF Relevant
  <2>2. \A a \in core.plans[u].interest \ (0..(Slots - 1)) : Relevant(u)[a] = 0
    BY <2>1, NothingBeyond DEF RuntimeInv
  <2>3. Relevant(u) = [a \in core.plans[u].interest |-> Relevant(u)[a]]
    BY DEF Relevant
  <2> QED
    BY <1>2, <1>3, <2>2, <2>3 DEF SeenFits
<1>15. ASSUME NEW v \in Universes, v # u, installed # None /\ v \in DOMAIN Plans /\ seen'[v] # None
       PROVE  SeenFits(v)' /\ AtRest(core, v, LastValues(v)', held')
  <2>1. seen'[v] = seen[v]
    BY <1>3, <1>15
  <2>2. SeenFits(v) /\ AtRest(core, v, LastValues(v), held)
    BY <1>15, <2>1 DEF EvaluatedInv
  <2>3. SeenFits(v)' /\ LastValues(v)' = LastValues(v)
    BY <1>2, <2>1, <2>2 DEF SeenFits, LastValues
  <2> QED
    BY <1>4, <1>12, <1>15, <2>2, <2>3
<1>16. HeldFits(held') /\ IsTable(visual')
  BY <1>5, <1>9 DEF UpdateFits
<1>17. AtRest(core, u, LastValues(u)', held')
  BY <1>4, <1>12, <1>13
<1>18. \A v \in Universes : installed' # None /\ v \in DOMAIN Plans' /\ seen'[v] # None =>
         SeenFits(v)' /\ AtRest(core', v, LastValues(v)', held')
  BY <1>2, <1>14, <1>15, <1>17
<1> QED
  BY <1>12, <1>16, <1>18 DEF EvaluatedInv

(* A new scene holds nothing, and nothing was evaluated.                    *)
LEMMA NothingFits == HeldFits(NothingHeld) /\ TransformsFit(NothingHeld.transform) /\ IsTable(<<>>)
<1>1. IsTable(<<>>)
  BY DEF IsTable
<1>2. IsTable(NothingHeld)
  BY DEF IsTable, NothingHeld
<1>3. \A part \in DOMAIN NothingHeld : NothingHeld[part] = <<>>
  BY DEF NothingHeld
<1>4. TransformsFit(NothingHeld.transform)
  BY DEF TransformsFit, NothingHeld
<1> QED
  BY <1>1, <1>2, <1>3, <1>4 DEF HeldFits

LEMMA InitEvaluated == Init => EvaluatedInv
BY NothingFits DEF Init, RuntimeInit, EvaluatedInv

LEMMA ClearedStaysEvaluated ==
  ASSUME EvaluatedInv, Cleared, UNCHANGED visual
  PROVE  EvaluatedInv'
BY NothingFits DEF EvaluatedInv, Cleared

LEMMA OtherStaysEvaluated ==
  ASSUME EvaluatedInv, UNCHANGED <<installed, seen, held>>, visual' = visual \/ visual' = <<>>
  PROVE  EvaluatedInv'
<1>1. \A u : UNCHANGED <<Plans, core, LastValues(u), SeenFits(u)>>
  BY DEF Plans, core, LastValues, SeenFits
<1>2. IsTable(visual')
  BY NothingFits DEF EvaluatedInv
<1> QED
  BY <1>1, <1>2 DEF EvaluatedInv

LEMMA EvaluatedNext == ScenesSeparate /\ RuntimeInv /\ HeldInv /\ EvaluatedInv /\ [Next]_vars => EvaluatedInv'
<1> SUFFICES ASSUME ScenesSeparate, RuntimeInv, HeldInv, EvaluatedInv, [CoreNext]_coreVars PROVE EvaluatedInv'
  BY CoreSteps
<1>1. CASE (\E s \in DOMAIN Scenes : Install(s)) \/ Clear
  BY <1>1, ClearedStaysEvaluated DEF Install, Clear
<1>2. CASE \E u \in Universes : ConsumeUniverse(u)
  BY <1>2, ConsumeStaysEvaluated
<1>3. CASE \/ \E u \in Universes : \E bytes \in Frames[u] : Submit(u, bytes)
           \/ BeginConsume
           \/ EndConsume
           \/ Tick
           \/ UNCHANGED coreVars
  <2>1. UNCHANGED <<installed, seen, held>> /\ (visual' = visual \/ visual' = <<>>)
    BY <1>3 DEF Submit, BeginConsume, EndConsume, Tick, coreVars
  <2> QED
    BY <2>1, OtherStaysEvaluated
<1> QED
  BY <1>1, <1>2, <1>3 DEF CoreNext

LEMMA InitFull == Init => Full!Init
BY DEF Init, RuntimeInit, Full!Init, Universes, Full!Universes

LEMMA FullCores == DOMAIN Cores = DOMAIN Scenes
BY TabulatedIs DEF Cores

(* Every step of the runtime is one of a full evaluation, or none.          *)
LEMMA NextFull ==
  ScenesSeparate /\ RuntimeInv /\ HeldInv /\ EvaluatedInv /\ [Next]_vars => [Full!Next]_(Full!vars)
<1> SUFFICES ASSUME ScenesSeparate, RuntimeInv, HeldInv, EvaluatedInv, [CoreNext]_coreVars
             PROVE  [Full!Next]_(Full!vars)
  BY CoreSteps
<1>1. Full!Plans = Plans /\ Full!Universes = Universes
  BY DEF Full!Plans, Plans, core, Full!Universes, Universes
<1>2. CASE \E s \in DOMAIN Scenes : Install(s)
  <2>1. PICK s \in DOMAIN Scenes : Install(s)
    BY <1>2
  <2>2. Full!Replace(s)
    BY <1>1, <2>1 DEF Install, Cleared, Idle, Full!Replace
  <2> QED
    BY <2>2, FullCores DEF Full!Next
<1>3. CASE Clear
  <2>1. Full!Replace(None)
    BY <1>1, <1>3 DEF Clear, Cleared, Idle, Full!Replace
  <2> QED
    BY <2>1 DEF Full!Next
<1>4. CASE \E u \in Universes : \E bytes \in Frames[u] : Submit(u, bytes)
  <2>1. PICK u \in Universes : \E bytes \in Frames[u] : Submit(u, bytes)
    BY <1>4
  <2>2. PICK bytes \in Frames[u] : Submit(u, bytes)
    BY <2>1
  <2>3. Full!Submit(u, bytes)
    BY <1>1, <2>2 DEF Submit, Idle, Full!Submit
  <2>4. bytes \in UNION {Frames[v] : v \in Universes}
    BY <2>1
  <2> QED
    BY <1>1, <2>3, <2>4 DEF Full!Next
<1>5. CASE BeginConsume
  <2>1. Full!BeginConsume
    BY <1>5 DEF BeginConsume, Idle, Full!BeginConsume
  <2> QED
    BY <2>1 DEF Full!Next
<1>6. CASE \E u \in Universes : ConsumeUniverse(u)
  <2>1. PICK u \in Universes : ConsumeUniverse(u)
    BY <1>6
  <2>2. held' = FullOf(u).held /\ visual' = FullOf(u).rows
    BY <2>1, ConsumeIsFull
  <2>3. Full!Evaluate(u)
    BY <2>1, <2>2 DEF ConsumeUniverse, Idle, FullOf, core, Full!Evaluate, Full!Shown
  <2> QED
    BY <1>1, <2>3 DEF Full!Next
<1>7. CASE EndConsume
  <2>1. Full!EndConsume
    BY <1>7 DEF EndConsume, Full!EndConsume
  <2> QED
    BY <2>1 DEF Full!Next
<1>8. CASE Tick
  <2>1. Full!Tick
    BY <1>8 DEF Tick, Full!Tick
  <2> QED
    BY <2>1 DEF Full!Next
<1>9. CASE UNCHANGED coreVars
  BY <1>9 DEF coreVars, Full!vars
<1> QED
  BY <1>2, <1>3, <1>4, <1>5, <1>6, <1>7, <1>8, <1>9 DEF CoreNext

(* In scenes whose universes do not depend on one another, whatever was     *)
(* evaluated rests: evaluating the bytes that are remembered again          *)
(* (last_relevant_values) would leave every shutter, gobo, rotation,        *)
(* property, colour input and wheel as it is, whichever universes came      *)
(* since.                                                                   *)
THEOREM EvaluatedInvariant == ScenesSeparate => (Spec => []EvaluatedInv)
<1> SUFFICES ASSUME ScenesSeparate PROVE Spec => []EvaluatedInv
  OBVIOUS
<1>1. RuntimeInv /\ HeldInv /\ EvaluatedInv /\ [Next]_vars => EvaluatedInv'
  BY EvaluatedNext
<1> QED
  BY <1>1, InitEvaluated, RuntimeInvariant, HeldInvariant, PTL DEF Spec

(* consume_latest_visual_frame computes what a full evaluation of every     *)
(* frame would, in scenes whose universes do not depend on one another:     *)
(* dirty sets, cached values, remembered bytes and prefetched inputs change *)
(* nothing that is held or emitted, whatever the masters and cascades of    *)
(* its bindings, the order of the universes and the time between frames.    *)
THEOREM ComputesFullEvaluation == ScenesSeparate => (Spec => ImplementsFullEvaluation)
<1> SUFFICES ASSUME ScenesSeparate PROVE Spec => ImplementsFullEvaluation
  OBVIOUS
<1>1. RuntimeInv /\ HeldInv /\ EvaluatedInv /\ [Next]_vars => [Full!Next]_(Full!vars)
  BY NextFull
<1> QED
  BY <1>1, InitFull, RuntimeInvariant, HeldInvariant, EvaluatedInvariant, PTL DEF Spec, ImplementsFullEvaluation, Full!Spec

-----------------------------------------------------------------------------
(* The shutters and the beams *)

(* The parameters that the playback has of an authority.                    *)
Told_(a) == Known(Playback, a).parameters

(* What is held of the shutters is what the playback has, or a newer row of *)
(* the visual frame tells it.                                               *)
Announced(a) == ~Idle /\ <<"shutter", a>> \in DOMAIN visual
ToldInv ==
  /\ \A k \in DOMAIN visual : ~Idle /\ k[1] = "shutter" => k = <<"shutter", k[2]>>
  /\ \A a \in DOMAIN authorities : Members(a) # {} /\ authorities[a].parameters.revision \in Nat
  /\ \A a : Announced(a) => /\ a \in DOMAIN held.shutter
                            /\ visual[<<"shutter", a>>] = held.shutter[a]
                            /\ held.shutter[a].revision > Told_(a).revision
  /\ \A a : Members(a) # {} /\ ~Announced(a) =>
              /\ a \in DOMAIN held.shutter <=> a \in DOMAIN authorities
              /\ a \in DOMAIN authorities => authorities[a].parameters = held.shutter[a]

(* The rows of the renderer, and what hangs on them.                        *)
RowsFit(rows_) ==
  /\ UNION {rows_[r].members : r \in DOMAIN rows_} = DOMAIN outputs
  /\ \A q, r \in DOMAIN rows_ : q = r \/ rows_[q].members \cap rows_[r].members = {}
  /\ \A r \in DOMAIN rows_ : \A o, p \in rows_[r].members : \A a : o \in Members(a) <=> p \in Members(a)
LayoutInv ==
  /\ RowsFit(layout)
  /\ DOMAIN rows = DOMAIN layout /\ DOMAIN screen = DOMAIN layout /\ DOMAIN lit = DOMAIN layout
  /\ installed # None => /\ DOMAIN outputs = DOMAIN Bound[installed].scale
                         /\ \A aggregating \in BOOLEAN : RowsFit(Bound[installed].rows[aggregating])
  /\ ~replay => \A r \in DOMAIN layout : layout[r].members # {} => screen[r] # None

(* What is kept of an authority.                                            *)
ValueFields == {"parameters", "value"}

(* The envelopes are the products of what was sampled of the authorities.   *)
Unmoving(command) == ~Periodic(command.wave) \/ command.frequency <= 0
EnvelopeInv ==
  /\ DOMAIN owned = DOMAIN outputs /\ DOMAIN envelope = DOMAIN outputs /\ stale = {}
  /\ nominated \subseteq {o \in DOMAIN owned : owned[o] # {}} /\ forced \subseteq nominated
  /\ \A o \in DOMAIN outputs : owned[o] = {a \in DOMAIN authorities : o \in Members(a)}
  /\ \A o \in DOMAIN outputs : envelope[o] = Product(Playback, o)
  /\ installed = None => DOMAIN authorities = {}
  /\ \A a \in DOMAIN authorities : DOMAIN authorities[a] = ValueFields
  /\ \A a \in DOMAIN authorities :
       Idle \/ Unmoving(authorities[a].parameters.command) =>
         authorities[a].value = ShutterEnvelope(authorities[a].parameters, now)

(* A beam shows the envelope of its outputs, or one of them is forced.      *)
LightInv ==
  \A r \in DOMAIN layout : screen[r] # None =>
    \A o \in layout[r].members : o \in forced \/ lit[r] = Dimmed(screen[r].energy, envelope[o])

PlaybackInv == ToldInv /\ LayoutInv /\ EnvelopeInv /\ LightInv

(* What a playback is made of.                                              *)
PlaybackFields == {"authorities", "stale", "owned", "envelope", "nominated", "forced"}
PlaybackFits(P) ==
  /\ DOMAIN P = PlaybackFields
  /\ DOMAIN P.owned = DOMAIN outputs /\ DOMAIN P.envelope = DOMAIN outputs
  /\ \A o \in DOMAIN outputs : P.owned[o] \subseteq DOMAIN P.authorities
  /\ P.nominated \subseteq DOMAIN outputs
  /\ \A a \in DOMAIN P.authorities : DOMAIN P.authorities[a] = ValueFields

(* The outputs that a nomination adds, and what it leaves.                  *)
NominatedOf(P, owners) == {o \in owners : P.owned[o] # {}}
NominateSame(P, N) ==
  /\ DOMAIN N = PlaybackFields
  /\ N.authorities = P.authorities /\ N.stale = P.stale /\ N.owned = P.owned /\ N.envelope = P.envelope
(* What Nominate changes of a playback.                                     *)
LEMMA NominateIs ==
  ASSUME NEW P, PlaybackFits(P), NEW owners
  PROVE  /\ NominateSame(P, Nominate(P, owners, FALSE)) /\ NominateSame(P, Nominate(P, owners, TRUE))
         /\ Nominate(P, owners, FALSE).nominated = P.nominated \cup NominatedOf(P, owners)
         /\ Nominate(P, owners, FALSE).forced = P.forced
         /\ Nominate(P, owners, TRUE).nominated = P.nominated \cup NominatedOf(P, owners)
         /\ Nominate(P, owners, TRUE).forced = P.forced \cup NominatedOf(P, owners)
<1> DEFINE more == NominatedOf(P, owners)
<1>1. Nominate(P, owners, FALSE) = [P EXCEPT !.nominated = @ \cup more, !.forced = P.forced]
  BY DEF Nominate, NominatedOf
<1>2. Nominate(P, owners, TRUE) = [P EXCEPT !.nominated = @ \cup more, !.forced = P.forced \cup more]
  BY DEF Nominate, NominatedOf
<1> HIDE DEF more
<1>3. PICK e, d : e = Nominate(P, owners, FALSE) /\ d = Nominate(P, owners, TRUE)
  OBVIOUS
<1>4. /\ NominateSame(P, e) /\ NominateSame(P, d)
      /\ e.nominated = P.nominated \cup more /\ e.forced = P.forced
      /\ d.nominated = P.nominated \cup more /\ d.forced = P.forced \cup more
  BY <1>1, <1>2, <1>3 DEF PlaybackFits, PlaybackFields, NominateSame
<1> QED
  BY <1>3, <1>4 DEF more

(* What the outputs of a playback have of their authorities.                *)
LEMMA ProductSame ==
  ASSUME NEW P, NEW N, NEW o, P.owned[o] = N.owned[o],
         \A a \in P.owned[o] : P.authorities[a].value = N.authorities[a].value
  PROVE  Product(P, o) = Product(N, o)
<1>1. [a \in P.owned[o] |-> P.authorities[a].value] = [a \in N.owned[o] |-> N.authorities[a].value]
  OBVIOUS
<1> QED
  BY <1>1 DEF Product

(* Without a shutter an output is open.                                     *)
LEMMA NoShutters ==
  ASSUME NEW values, DOMAIN values = {}
  PROVE  ProductOf(values) = Unit
<1>1. \E f : f = [s \in SUBSET {} |-> IF s = {} THEN Unit ELSE (f[s \ {CHOOSE x \in s : TRUE}] * values[CHOOSE x \in s : TRUE]) \div Unit]
  OBVIOUS
<1> QED
  BY <1>1 DEF ProductOf, FoldSet, MapThenFoldSet

(* tick, step by step.                                                      *)
LEMMA AdvancedIs ==
  ASSUME NEW P, PlaybackFits(P), NEW N, NEW changed, N = Advanced(P).playback, changed = Advanced(P).changed
  PROVE  /\ DOMAIN N = PlaybackFields /\ N.owned = P.owned
         /\ N.stale = {} /\ N.nominated = {} /\ N.forced = {}
         /\ DOMAIN N.authorities = DOMAIN P.authorities
         /\ \A a \in DOMAIN P.authorities :
              /\ DOMAIN N.authorities[a] = ValueFields
              /\ N.authorities[a].parameters = P.authorities[a].parameters
              /\ N.authorities[a].value = IF a \in Sampled(P) THEN ShutterEnvelope(P.authorities[a].parameters, now')
                                          ELSE P.authorities[a].value
         /\ DOMAIN N.envelope = DOMAIN outputs /\ changed \subseteq DOMAIN outputs
         /\ \A o \in DOMAIN outputs :
              /\ o \in P.nominated \/ P.envelope[o] = Product(P, o) => N.envelope[o] = Product(N, o)
              /\ o \in P.nominated /\ o \in P.forced => o \in changed
              /\ o \in changed \/ N.envelope[o] = P.envelope[o]
<1> DEFINE values == Tabulated([a \in Sampled(P) |-> ShutterEnvelope(P.authorities[a].parameters, now')])
           turned == {a \in DOMAIN values : values[a] # P.authorities[a].value}
           fresh == [a \in turned |-> [P.authorities[a] EXCEPT !.value = values[a]]]
           next == Overlaid(fresh, P.authorities)
           valued == [P EXCEPT !.authorities = next]
           told == Told(valued, turned)
           products == [o \in told.nominated |-> Product(told, o)]
<1>1. /\ DOMAIN values = Sampled(P)
      /\ \A a \in Sampled(P) : values[a] = ShutterEnvelope(P.authorities[a].parameters, now')
  BY TabulatedIs
<1>2. Sampled(P) \subseteq DOMAIN P.authorities
  BY DEF Sampled
<1>8. Advanced(P) = Settled(told, Tabulated(products))
  BY DEF Advanced
<1>9. Advanced(P) = Settled(told, products)
  BY <1>8, TabulatedIs
<1> HIDE DEF values
<1>10. /\ DOMAIN next = DOMAIN P.authorities
       /\ \A a \in DOMAIN P.authorities :
            /\ DOMAIN next[a] = ValueFields
            /\ next[a].parameters = P.authorities[a].parameters
            /\ next[a].value = IF a \in Sampled(P) THEN values[a] ELSE P.authorities[a].value
            /\ a \in turned \/ next[a].value = P.authorities[a].value
  <2>1. DOMAIN fresh = turned /\ turned \subseteq DOMAIN P.authorities
    BY <1>1, <1>2
  <2>0. \A a \in turned : fresh[a] = [P.authorities[a] EXCEPT !.value = values[a]]
    OBVIOUS
  <2>5. turned \subseteq Sampled(P) /\ \A a \in DOMAIN P.authorities \ turned : a \in Sampled(P) => values[a] = P.authorities[a].value
    BY <1>1
  <2> HIDE DEF turned, fresh
  <2>2. /\ DOMAIN next = DOMAIN P.authorities
        /\ \A a \in turned : next[a] = fresh[a]
        /\ \A a \in DOMAIN P.authorities \ turned : next[a] = P.authorities[a]
    <3>1. PICK base : base = P.authorities
      OBVIOUS
    <3>2. next = [x \in DOMAIN fresh \cup DOMAIN base |-> IF x \in DOMAIN fresh THEN fresh[x] ELSE base[x]]
      BY <3>1, TabulatedIs DEF Overlaid
    <3> HIDE DEF next
    <3> QED
      BY <2>1, <3>1, <3>2
  <2> HIDE DEF next
  <2>3. ASSUME NEW a \in turned
        PROVE  DOMAIN fresh[a] = ValueFields /\ fresh[a].value = values[a]
               /\ fresh[a].parameters = P.authorities[a].parameters
    <3>1. DOMAIN P.authorities[a] = ValueFields
      BY <2>1 DEF PlaybackFits
    <3>2. fresh[a] = [P.authorities[a] EXCEPT !.value = values[a]]
      BY <2>0
    <3> QED
      BY <3>1, <3>2 DEF ValueFields
  <2> QED
    BY <2>1, <2>2, <2>3, <2>5 DEF PlaybackFits
<1>7. turned \subseteq DOMAIN P.authorities
  BY <1>1, <1>2
<1> HIDE DEF next
<1>11. /\ DOMAIN valued = PlaybackFields /\ valued.authorities = next
       /\ \A field \in PlaybackFields \ {"authorities"} : valued[field] = P[field]
  BY DEF PlaybackFits, PlaybackFields
<1> HIDE DEF turned, fresh
<1>12. PlaybackFits(valued)
  BY <1>10, <1>11 DEF PlaybackFits, PlaybackFields
<1>13. PICK owners : owners = {o \in DOMAIN outputs : P.owned[o] \cap turned # {}}
  OBVIOUS
<1>14. told = Nominate(valued, owners, FALSE)
  BY <1>11, <1>13 DEF Told, PlaybackFits, PlaybackFields
<1> HIDE DEF valued, told
<1>15. /\ DOMAIN told = PlaybackFields /\ told.authorities = next /\ told.owned = P.owned
       /\ told.envelope = P.envelope /\ told.forced = P.forced /\ told.stale = P.stale
       /\ told.nominated = P.nominated \cup {o \in owners : P.owned[o] # {}}
  <2>1. /\ NominateSame(valued, told) /\ told.forced = valued.forced
        /\ told.nominated = valued.nominated \cup NominatedOf(valued, owners)
    BY <1>12, <1>14, NominateIs
  <2> QED
    BY <1>11, <2>1 DEF PlaybackFields, NominateSame, NominatedOf
<1>16. /\ \A o \in DOMAIN outputs \ told.nominated : P.owned[o] \cap turned = {}
       /\ P.nominated \subseteq told.nominated /\ told.nominated \subseteq DOMAIN outputs
  BY <1>13, <1>15 DEF PlaybackFits
<1>17. /\ N = [told EXCEPT !.envelope = Overlaid(products, @), !.stale = {}, !.nominated = {}, !.forced = {}]
       /\ changed = {o \in told.nominated : o \in told.forced \/ products[o] # told.envelope[o]}
  <2> HIDE DEF products
  <2> QED
    BY <1>9 DEF Settled
<1>18. /\ DOMAIN N = PlaybackFields /\ N.authorities = next /\ N.owned = P.owned
       /\ N.envelope = Overlaid(products, P.envelope) /\ N.stale = {} /\ N.nominated = {} /\ N.forced = {}
  BY <1>15, <1>17 DEF PlaybackFields
<1>19. /\ DOMAIN products = told.nominated
       /\ \A o \in told.nominated : products[o] = Product(told, o)
  OBVIOUS
<1> HIDE DEF products
<1>20. /\ DOMAIN N.envelope = DOMAIN outputs
       /\ \A o \in told.nominated : N.envelope[o] = products[o]
       /\ \A o \in DOMAIN outputs \ told.nominated : N.envelope[o] = P.envelope[o]
  <2>1. DOMAIN P.envelope = DOMAIN outputs
    BY DEF PlaybackFits
  <2> QED
    <3>1. PICK base : base = P.envelope
      OBVIOUS
    <3>2. N.envelope = [x \in DOMAIN products \cup DOMAIN base |-> IF x \in DOMAIN products THEN products[x] ELSE base[x]]
      BY <1>18, <3>1, TabulatedIs DEF Overlaid
    <3> QED
      BY <1>16, <1>19, <2>1, <3>1, <3>2
<1>21. ASSUME NEW o \in DOMAIN outputs
       PROVE  /\ o \in P.nominated \/ P.envelope[o] = Product(P, o) => N.envelope[o] = Product(N, o)
              /\ o \in P.nominated /\ o \in P.forced => o \in changed
              /\ o \in changed \/ N.envelope[o] = P.envelope[o]
  <2>1. CASE o \in told.nominated
    <3>1. Product(told, o) = Product(N, o)
      BY <1>15, <1>18, ProductSame
    <3>2. N.envelope[o] = Product(N, o)
      BY <1>19, <1>20, <2>1, <3>1
    <3>3. o \in changed \/ N.envelope[o] = P.envelope[o]
      BY <1>15, <1>17, <1>20, <2>1
    <3>4. o \in P.forced => o \in changed
      BY <1>15, <1>17, <2>1
    <3> QED
      BY <3>2, <3>3, <3>4
  <2>2. CASE o \notin told.nominated
    <3>1. o \notin P.nominated /\ N.envelope[o] = P.envelope[o] /\ P.owned[o] \cap turned = {}
      BY <1>16, <1>20, <2>2
    <3>2. \A a \in P.owned[o] : P.authorities[a].value = N.authorities[a].value
      BY <1>10, <1>18, <3>1 DEF PlaybackFits
    <3>3. Product(P, o) = Product(N, o)
      BY <1>18, <3>2, ProductSame
    <3> QED
      BY <3>1, <3>3
  <2> QED
    BY <2>1, <2>2
<1>22. changed \subseteq DOMAIN outputs
  BY <1>16, <1>17
<1> QED
  BY <1>1, <1>2, <1>10, <1>18, <1>20, <1>21, <1>22

(* No values of a row are the sign that nothing was written:                *)
(* held_renderer_valid_ is a flag of its own.                               *)
NoRowIsNone ==
  \A dimmer, light, angle, energy : None # [dimmer |-> dimmer, light |-> light, angle |-> angle, energy |-> energy]

(* A row of values is never None.                                           *)
LEMMA RowValuesAreNot ==
  ASSUME NoRowIsNone, NEW R, NEW r, NEW sum, NEW values, NEW fed, NEW scale,
         \A o \in R.layout[r].members : values[o] = Values(fed[o], scale[o]), Min(R.layout[r].members) \in R.layout[r].members
  PROVE  RowValues(R, r, sum, values) # None
<1>1. \A x : Mixed(sum, x) # None
  BY DEF Mixed, NoRowIsNone
<1>2. \A x, y : Values(x, y) # None
  BY DEF Values, NoRowIsNone
<1> QED
  BY <1>1, <1>2 DEF RowValues

(* A renderer whose rows are those of the outputs.                          *)
RendererFits(R) ==
  /\ RowsFit(R.layout) /\ DOMAIN outputs \subseteq Nat
  /\ DOMAIN R.rows = DOMAIN R.layout /\ DOMAIN R.screen = DOMAIN R.layout

(* An output is in one row of a renderer.                                   *)
LEMMA RowOfIs ==
  ASSUME NEW R, RendererFits(R), NEW o \in DOMAIN outputs
  PROVE  /\ RowOf(R, o) \in DOMAIN R.layout /\ o \in R.layout[RowOf(R, o)].members
         /\ \A r \in DOMAIN R.layout : o \in R.layout[r].members => r = RowOf(R, o)
<1>1. \E r \in DOMAIN R.layout : o \in R.layout[r].members
  BY DEF RendererFits, RowsFit
<1>2. RowOf(R, o) \in DOMAIN R.layout /\ o \in R.layout[RowOf(R, o)].members
  BY <1>1 DEF RowOf
<1> QED
  BY <1>2 DEF RendererFits, RowsFit

(* What a snapshot S leaves of a renderer.                                  *)
SnapshotFits(R, S, replaying) ==
  /\ S.layout = R.layout /\ DOMAIN S.outputs = DOMAIN outputs
  /\ DOMAIN S.rows = DOMAIN R.layout /\ DOMAIN S.screen = DOMAIN R.layout
  /\ S.written \subseteq DOMAIN R.layout
  /\ \A r \in S.written : R.layout[r].members # {} /\ S.screen[r] # None
  /\ \A r \in DOMAIN R.layout \ S.written : S.screen[r] = R.screen[r]
  /\ replaying => \A r \in DOMAIN R.layout : R.layout[r].members # {} => r \in S.written

(* What prepare leaves of the rows.                                         *)
LEMMA PreparedIs ==
  ASSUME NoRowIsNone, NEW R, RendererFits(R), NEW replaying, NEW fed, DOMAIN fed = DOMAIN outputs,
         NEW values, NEW scale, \A o \in DOMAIN outputs : values[o] = Values(fed[o], scale[o]),
         NEW changed, changed \subseteq DOMAIN outputs, replaying => changed = DOMAIN outputs,
         NEW S, S = Prepare(R, replaying, fed, values, changed)
  PROVE  SnapshotFits(R, S, replaying)
<1> DEFINE contribution == Tabulated([o \in changed |-> Contribution(values[o])])
           sum == Tabulated([r \in DOMAIN R.rows |-> Accumulated(R, r, changed, contribution)])
           next == Tabulated([r \in DOMAIN sum |-> RowValues(R, r, sum[r], values)])
           written == Written(R, replaying, changed, next)
<1>1. S = Rendered(R, fed, contribution, sum, next, written)
  BY DEF Prepare
<1>2. DOMAIN sum = DOMAIN R.layout
  BY TabulatedIs DEF RendererFits
<1> HIDE DEF contribution, sum
<1>3. DOMAIN next = DOMAIN sum /\ \A r \in DOMAIN sum : next[r] = RowValues(R, r, sum[r], values)
  BY TabulatedIs
<1> HIDE DEF next
<1>4. written \subseteq {RowOf(R, o) : o \in changed} /\ (replaying => written = {RowOf(R, o) : o \in changed})
  BY DEF Written
<1> HIDE DEF written
<1>5. /\ S.layout = R.layout /\ S.outputs = fed /\ S.written = written
      /\ S.rows = [r \in DOMAIN sum |-> IF r \in written THEN Committed(sum[r], next[r]) ELSE sum[r]]
      /\ S.screen = [r \in DOMAIN sum |-> IF r \in written THEN next[r] ELSE R.screen[r]]
  BY <1>1 DEF Rendered
<1>6. ASSUME NEW r \in written PROVE r \in DOMAIN R.layout /\ R.layout[r].members # {} /\ next[r] # None
  <2>1. PICK o \in changed : r = RowOf(R, o)
    BY <1>4
  <2>2. r \in DOMAIN R.layout /\ o \in R.layout[r].members
    BY <2>1, RowOfIs
  <2>3. R.layout[r].members \subseteq DOMAIN outputs /\ R.layout[r].members \subseteq Nat
    BY <2>2 DEF RendererFits, RowsFit
  <2>4. Min(R.layout[r].members) \in R.layout[r].members
    <3>1. PICK m : m = R.layout[r].members
      OBVIOUS
    <3> QED
      BY <2>2, <2>3, <3>1, FirstPlace
  <2>5. RowValues(R, r, sum[r], values) # None
    BY <2>3, <2>4, RowValuesAreNot
  <2> QED
    BY <1>2, <1>3, <2>2, <2>5
<1>7. ASSUME replaying, NEW r \in DOMAIN R.layout, R.layout[r].members # {} PROVE r \in written
  <2>1. PICK o \in R.layout[r].members : TRUE
    BY <1>7
  <2>2. o \in DOMAIN outputs
    BY DEF RendererFits, RowsFit
  <2>3. r = RowOf(R, o)
    BY <2>2, RowOfIs
  <2> QED
    BY <1>4, <1>7, <2>2, <2>3
<1> QED
  BY <1>2, <1>5, <1>6, <1>7 DEF SnapshotFits

(* A snapshot leaves a renderer whose rows are those of the outputs.        *)
LEMMA SnapshotIs ==
  ASSUME NoRowIsNone, NEW R, RendererFits(R), NEW visual_, NEW replaying, NEW S, S = Snapshot(visual_, replaying, R)
  PROVE  SnapshotFits(R, S, replaying)
<1> DEFINE routed == RoutedTo(Bound[installed], visual_)
           fed == Tabulated([o \in DOMAIN outputs |-> Fed(outputs[o], routed[o])])
           values == Tabulated([o \in DOMAIN fed |-> Values(fed[o], Bound[installed].scale[o])])
           dirty == IF replaying THEN DOMAIN outputs ELSE Touched(routed)
           changed == Changed(R, dirty, replaying, values)
<1>1. S = Prepare(R, replaying, fed, values, changed)
  BY DEF Snapshot
<1>2. DOMAIN routed = DOMAIN outputs
  BY DEF RoutedTo
<1>3. dirty \subseteq DOMAIN outputs
  BY <1>2 DEF Touched
<1> HIDE DEF routed, dirty
<1>4. DOMAIN fed = DOMAIN outputs
  BY TabulatedIs
<1> HIDE DEF fed
<1>5. \A o \in DOMAIN outputs : values[o] = Values(fed[o], Bound[installed].scale[o])
  BY <1>4, TabulatedIs
<1> HIDE DEF values
<1>6. changed \subseteq DOMAIN outputs
  BY <1>3 DEF Changed
<1>7. replaying => changed = DOMAIN outputs
  BY DEF Changed, dirty
<1> HIDE DEF changed
<1>8. PICK scale : scale = Bound[installed].scale
  OBVIOUS
<1> QED
  BY <1>1, <1>4, <1>5, <1>6, <1>7, <1>8, PreparedIs

(* Rows of a visual frame that tell the same of the shutters.               *)
ShutterRowsSame(rows0, rows1) ==
  \A k : k[1] = "shutter" => /\ k \in DOMAIN rows1 <=> k \in DOMAIN rows0
                             /\ k \in DOMAIN rows0 => rows1[k] = rows0[k]

(* Rows of other domains leave those of the shutters alone.                 *)
LEMMA OverlaidRows ==
  ASSUME NEW f, NEW g, \A k \in DOMAIN f : k[1] # "shutter"
  PROVE  ShutterRowsSame(g, Overlaid(f, g))
<1>1. Overlaid(f, g) = [x \in DOMAIN f \cup DOMAIN g |-> IF x \in DOMAIN f THEN f[x] ELSE g[x]]
  BY TabulatedIs DEF Overlaid
<1> QED
  BY <1>1 DEF ShutterRowsSame

(* An update of another domain leaves them alone.                           *)
LEMMA AdoptRows ==
  ASSUME NEW update, NEW domain, domain # "shutter", NEW next, NEW kept, NEW shown
  PROVE  ShutterRowsSame(update.rows, Adopt(update, domain, next, kept, shown).rows)
<1> DEFINE f == [k \in {<<domain, l>> : l \in shown} |-> next[k[2]]]
<1>1. Adopt(update, domain, next, kept, shown).rows = Overlaid(f, update.rows)
  BY DEF Adopt, Update
<1>2. \A k \in DOMAIN f : k[1] # "shutter"
  OBVIOUS
<1> HIDE DEF f
<1>3. PICK g : g = update.rows
  OBVIOUS
<1>4. ShutterRowsSame(g, Overlaid(f, g))
  BY <1>2, OverlaidRows
<1> QED
  BY <1>1, <1>3, <1>4

(* The properties leave them alone.                                         *)
LEMMA PropertyRows ==
  ASSUME NEW c, NEW readings, NEW update
  PROVE  ShutterRowsSame(update.rows, PropertyDomain(c, readings, update).rows)
<1>1. PICK next : PropertyDomain(c, readings, update) = Properties(c, next, update)
  BY DEF PropertyDomain
<1>2. \E f : Properties(c, next, update).rows = Overlaid(f, update.rows) /\ \A k \in DOMAIN f : k[1] # "shutter"
  <2> DEFINE p(i) == c.properties[i]
             Named(id) == {i \in DOMAIN next : p(i).id = id}
             Earlier(i) == {j \in Named(p(i).id) : j < i}
             Before(i) == Earlier(i) # {} \/ p(i).id \in DOMAIN update.held.property
             Previous(i) == IF Earlier(i) = {} THEN update.held.property[p(i).id] ELSE next[Max(Earlier(i))]
             moved == {i \in DOMAIN next : ~Before(i) \/ ~NearlyEqual(Previous(i), next[i])}
             Last_(row) == Max({i \in moved : RowKey(p(i)) = row})
             f == [row \in {RowKey(p(i)) : i \in moved} |-> Cooked(c, p(Last_(row)), next[Last_(row)])]
  <2>1. Properties(c, next, update).rows = Overlaid(f, update.rows)
    BY DEF Properties, Update
  <2>2. \A k \in DOMAIN f : k[1] # "shutter"
    <3>1. \A q : RowKey(q)[1] # "shutter"
      BY DEF RowKey
    <3>2. DOMAIN f = {RowKey(p(i)) : i \in moved}
      OBVIOUS
    <3> HIDE DEF moved, f, p
    <3> QED
      BY <3>1, <3>2
  <2> HIDE DEF f
  <2> QED
    BY <2>1, <2>2
<1>3. PICK g : g = update.rows
  OBVIOUS
<1> QED
  BY <1>1, <1>2, <1>3, OverlaidRows

(* The lights of the targets leave them alone.                              *)
LEMMA LitRows ==
  ASSUME NEW update, NEW light
  PROVE  ShutterRowsSame(update.rows, Lit(update, light).rows)
<1> DEFINE moved == {t \in DOMAIN light : \/ t \notin DOMAIN update.held.color
                                          \/ \E i \in 1..3 : ~NearlyEqual(update.held.color[t][i], light[t][i])}
           f == [k \in {<<"color", t>> : t \in moved} |-> [light |-> light[k[2]]]]
<1>1. Lit(update, light).rows = Overlaid(f, update.rows)
  BY DEF Lit, Update
<1>2. \A k \in DOMAIN f : k[1] # "shutter"
  OBVIOUS
<1> HIDE DEF f
<1>3. PICK g : g = update.rows
  OBVIOUS
<1>4. ShutterRowsSame(g, Overlaid(f, g))
  BY <1>2, OverlaidRows
<1> QED
  BY <1>1, <1>3, <1>4

(* The colours and the wheels leave them alone.                             *)
LEMMA ColorsAndWheelsRows ==
  ASSUME NEW c, NEW u, NEW dirty, NEW sources, NEW raw, NEW ready, NEW update
  PROVE  ShutterRowsSame(update.rows, ColorsAndWheels(c, u, dirty, sources, raw, ready, update).rows)
<1>1. PICK colors : colors = ColorDomain(c, dirty, sources, raw, ready, update.held)
  OBVIOUS
<1>2. PICK wheels : wheels = WheelDomain(c, u, dirty, raw, colors.targets, colors.held)
  OBVIOUS
<1>3. PICK layered : layered = Update(wheels.held, update.rows)
  OBVIOUS
<1>4. ColorsAndWheels(c, u, dirty, sources, raw, ready, update) = ComposeTargets(wheels.targets, layered)
  BY <1>1, <1>2, <1>3 DEF ColorsAndWheels, Coloured, Layered
<1>5. PICK light : ComposeTargets(wheels.targets, layered) = Lit(layered, light)
  BY DEF ComposeTargets
<1>6. layered.rows = update.rows
  BY <1>3 DEF Update
<1>7. ShutterRowsSame(layered.rows, Lit(layered, light).rows)
  BY LitRows
<1> QED
  BY <1>4, <1>5, <1>6, <1>7

(* The shutters of an update: those that are renewed take their next        *)
(* revision and a row, the others stay.                                     *)
ShuttersRenewed(held0, rows0, held1, rows1, renewed) ==
  /\ DOMAIN held1 = renewed \cup DOMAIN held0
  /\ \A l \in renewed : /\ held1[l].revision = Held(held0, l, NoShutter).revision + 1
                        /\ <<"shutter", l>> \in DOMAIN rows1 /\ rows1[<<"shutter", l>>] = held1[l]
  /\ \A l \in DOMAIN held0 \ renewed : held1[l] = held0[l]
  /\ \A k : k[1] = "shutter" /\ (\A l \in renewed : k # <<"shutter", l>>) =>
              /\ k \in DOMAIN rows1 <=> k \in DOMAIN rows0
              /\ k \in DOMAIN rows0 => rows1[k] = rows0[k]

(* A changed shutter has the next revision.                                 *)
LEMMA RenewedShutter ==
  ASSUME NEW old, NEW command, NEW now0, UpdateShutter(old, command, now0) # old
  PROVE  UpdateShutter(old, command, now0).revision = old.revision + 1
BY DEF UpdateShutter

(* The shutters that an update renews have a new row each.                  *)
LEMMA ShutterDomainRows ==
  ASSUME NEW c, NEW dirty, NEW raw, NEW now0, NEW update, "shutter" \in DOMAIN update.held,
         NEW after, after = ShutterDomain(c, dirty, raw, now0, update)
  PROVE  \E renewed : ShuttersRenewed(update.held.shutter, update.rows, after.held.shutter, after.rows, renewed)
<1> DEFINE next == [l \in Keys(dirty, "shutter") |->
                      UpdateShutter(Held(update.held.shutter, l, NoShutter),
                                    CommandedShutter(c, ShuttersOf(c, l), raw), now0)]
           renewed == Renewed(update.held.shutter, next, NoShutter)
<1>1. after = Adopt(update, "shutter", next, renewed, renewed)
  BY TabulatedIs DEF ShutterDomain, Shutters, AdoptRenewed
<1>2. \A l \in renewed : next[l].revision = Held(update.held.shutter, l, NoShutter).revision + 1
  <2> TAKE l \in renewed
  <2>1. l \in Keys(dirty, "shutter") /\ next[l] # Held(update.held.shutter, l, NoShutter)
    BY DEF Renewed
  <2>2. next[l] = UpdateShutter(Held(update.held.shutter, l, NoShutter), CommandedShutter(c, ShuttersOf(c, l), raw), now0)
    BY <2>1
  <2> HIDE DEF next
  <2> QED
    BY <2>1, <2>2, RenewedShutter
<1> HIDE DEF next, renewed
<1>3. PICK d, old, new : d = "shutter" /\ old = update.held[d] /\ new = Adopt(update, d, next, renewed, renewed).held[d]
  OBVIOUS
<1>4. /\ DOMAIN new = renewed \cup DOMAIN old
      /\ \A l \in renewed : new[l] = next[l]
      /\ \A l \in DOMAIN old \ renewed : new[l] = old[l]
  BY <1>3, AdoptHeld
<1> DEFINE f == [k \in {<<"shutter", l>> : l \in renewed} |-> next[k[2]]]
<1>5. after.rows = Overlaid(f, update.rows)
  BY <1>1 DEF Adopt, Update
<1>6. PICK g : g = update.rows
  OBVIOUS
<1>7. after.rows = [x \in DOMAIN f \cup DOMAIN g |-> IF x \in DOMAIN f THEN f[x] ELSE g[x]]
  BY <1>5, <1>6, TabulatedIs DEF Overlaid
<1>8. DOMAIN f = {<<"shutter", l>> : l \in renewed} /\ \A l \in renewed : f[<<"shutter", l>>] = next[l]
  OBVIOUS
<1> HIDE DEF f
<1>9. /\ \A l \in renewed : <<"shutter", l>> \in DOMAIN after.rows /\ after.rows[<<"shutter", l>>] = next[l]
      /\ \A k : (\A l \in renewed : k # <<"shutter", l>>) =>
                  /\ k \in DOMAIN after.rows <=> k \in DOMAIN g
                  /\ k \in DOMAIN g => after.rows[k] = g[k]
  BY <1>7, <1>8
<1>10. after.held.shutter = new /\ update.held.shutter = old
  BY <1>1, <1>3
<1>11. ShuttersRenewed(old, g, new, after.rows, renewed)
  BY <1>2, <1>4, <1>9, <1>10 DEF ShuttersRenewed
<1> QED
  BY <1>6, <1>10, <1>11

(* The update of a universe renews some shutters and announces each.        *)
LEMMA UpdateRows ==
  ASSUME NEW c, NEW u, NEW dirty, NEW raw, NEW sources, NEW ready, NEW now0, NEW update,
         DOMAIN update.held = DOMAIN NothingHeld,
         NEW after, after = UpdateUniverse(c, u, dirty, sources, raw, ready, now0, update)
  PROVE  \E renewed : ShuttersRenewed(update.held.shutter, update.rows, after.held.shutter, after.rows, renewed)
<1>1. PICK readings, shutters, gobos, motions, properties, colors :
        /\ readings = Readings(c, dirty, raw)
        /\ shutters = ShutterDomain(c, dirty, raw, now0, update)
        /\ gobos = GoboDomain(c, u, dirty, raw, shutters)
        /\ motions = MotionDomain(c, u, dirty, raw, now0, gobos)
        /\ properties = PropertyDomain(c, readings, motions)
        /\ colors = ColorsAndWheels(c, u, dirty, sources, raw, ready, properties)
  OBVIOUS
<1>2. after = TransformDomain(c, readings, colors)
  BY <1>1 DEF UpdateUniverse
<1>3. "shutter" \in DOMAIN update.held
  BY DEF NothingHeld
<1>4. PICK renewed : ShuttersRenewed(update.held.shutter, update.rows, shutters.held.shutter, shutters.rows, renewed)
  BY <1>1, <1>3, ShutterDomainRows
<1>5. /\ Keeps(update.held, shutters.held, {"shutter"})
      /\ Keeps(shutters.held, gobos.held, {"gobo"})
      /\ Keeps(gobos.held, motions.held, {"motion"})
      /\ Keeps(motions.held, properties.held, {"property"})
      /\ Keeps(properties.held, colors.held, {"input", "base", "wheel", "color"})
      /\ Keeps(colors.held, after.held, {"transform"})
  BY <1>1, <1>2, ShutterKeeps, GoboKeeps, MotionKeeps, PropertyKeeps, ColorsAndWheelsKeep, TransformKeeps
<1>6. after.held.shutter = shutters.held.shutter
  BY <1>3, <1>5 DEF Keeps
<1>7. /\ ShutterRowsSame(shutters.rows, gobos.rows) /\ ShutterRowsSame(gobos.rows, motions.rows)
      /\ ShutterRowsSame(motions.rows, properties.rows) /\ ShutterRowsSame(properties.rows, colors.rows)
      /\ ShutterRowsSame(colors.rows, after.rows)
  <2>1. ShutterRowsSame(shutters.rows, gobos.rows)
    BY <1>1, AdoptRows DEF GoboDomain, Gobos, AdoptRenewed
  <2>2. ShutterRowsSame(gobos.rows, motions.rows)
    BY <1>1, AdoptRows DEF MotionDomain, Motions
  <2>3. ShutterRowsSame(colors.rows, after.rows)
    <3>1. \E next : after = Transforms(colors, next)
      BY <1>2 DEF TransformDomain
    <3> QED
      BY <3>1, AdoptRows DEF Transforms
  <2> QED
    BY <1>1, <2>1, <2>2, <2>3, PropertyRows, ColorsAndWheelsRows
<1>8. ShutterRowsSame(shutters.rows, after.rows)
  BY <1>7 DEF ShutterRowsSame
<1>9. ShuttersRenewed(update.held.shutter, update.rows, shutters.held.shutter, after.rows, renewed)
  <2>1. \A l \in renewed : <<"shutter", l>>[1] = "shutter"
    OBVIOUS
  <2> QED
    BY <1>4, <1>8, <2>1 DEF ShuttersRenewed, ShutterRowsSame
<1> QED
  BY <1>6, <1>9

(* A consumed universe announces every change of a shutter.                 *)
LEMMA ConsumeTells ==
  ASSUME RuntimeInv, HeldInv, ToldInv, NEW u \in Universes, ConsumeUniverse(u),
         UNCHANGED <<authorities, outputs>>
  PROVE  ToldInv'
<1>1. /\ ~Idle /\ installed' = installed /\ installed # None /\ ~Idle'
  BY ConsumeAssumption DEF ConsumeUniverse, RuntimeInv, Idle
<1>2. /\ \A a : Members(a)' = Members(a)
      /\ \A a : Told_(a)' = Told_(a)
  BY <1>1 DEF Members, core, Told_, Known, Playback
<1>3. CASE UNCHANGED <<held, visual>>
  <2>1. \A a : Announced(a)' = Announced(a)
    BY <1>1, <1>3 DEF Announced
  <2> QED
    BY <1>1, <1>2, <1>3, <2>1 DEF ToldInv
<1>4. CASE \E renewed : ShuttersRenewed(held.shutter, visual, held'.shutter, visual', renewed)
  <2>1. PICK renewed : ShuttersRenewed(held.shutter, visual, held'.shutter, visual', renewed)
    BY <1>4
  <2>2. PICK h0, h1, v0, v1 : h0 = held.shutter /\ h1 = held'.shutter /\ v0 = visual /\ v1 = visual'
    OBVIOUS
  <2>3. ShuttersRenewed(h0, v0, h1, v1, renewed)
    BY <2>1, <2>2
  <2>4. \A k \in DOMAIN v1 : k[1] = "shutter" => k = <<"shutter", k[2]>>
    <3>1. \A k \in DOMAIN v0 : k[1] = "shutter" => k = <<"shutter", k[2]>>
      BY <1>1, <2>2 DEF ToldInv
    <3>2. ASSUME NEW k \in DOMAIN v1, k[1] = "shutter" PROVE k = <<"shutter", k[2]>>
      <4>1. CASE \E l \in renewed : k = <<"shutter", l>>
        BY <4>1
      <4>2. CASE \A l \in renewed : k # <<"shutter", l>>
        BY <2>3, <3>1, <3>2, <4>2 DEF ShuttersRenewed
      <4> QED
        BY <4>1, <4>2
    <3> QED
      BY <3>2
  <2>5. ASSUME NEW a
        PROVE  /\ <<"shutter", a>> \in DOMAIN v1 => /\ a \in DOMAIN h1
                                                    /\ v1[<<"shutter", a>>] = h1[a]
                                                    /\ h1[a].revision > Told_(a).revision
               /\ Members(a) # {} /\ <<"shutter", a>> \notin DOMAIN v1 =>
                    /\ a \in DOMAIN h1 <=> a \in DOMAIN authorities
                    /\ a \in DOMAIN authorities => authorities[a].parameters = h1[a]
    <3>1. CASE a \in renewed
      <4>1. /\ <<"shutter", a>> \in DOMAIN v1 /\ v1[<<"shutter", a>>] = h1[a] /\ a \in DOMAIN h1
            /\ h1[a].revision = Held(h0, a, NoShutter).revision + 1
        BY <2>3, <3>1 DEF ShuttersRenewed
      <4>2. Held(h0, a, NoShutter).revision \in Nat
        BY <2>2 DEF Held, HeldInv, ShutterFits, NoShutter
      <4>3. Told_(a).revision \in Nat
        BY DEF Told_, Known, Playback, Held, ToldInv, NoShutter
      <4>4. Held(h0, a, NoShutter).revision >= Told_(a).revision
        <5>1. CASE Announced(a)
          <6>1. a \in DOMAIN h0 /\ h0[a].revision > Told_(a).revision
            BY <2>2, <5>1 DEF ToldInv
          <6> QED
            BY <4>2, <4>3, <6>1 DEF Held
        <5>2. CASE ~Announced(a) /\ Members(a) # {}
          <6>1. /\ a \in DOMAIN h0 <=> a \in DOMAIN authorities
                /\ a \in DOMAIN authorities => authorities[a].parameters = h0[a]
            BY <2>2, <5>2 DEF ToldInv
          <6>2. Held(h0, a, NoShutter) = Told_(a)
            BY <6>1 DEF Held, Told_, Known, Playback
          <6> QED
            BY <4>2, <6>2
        <5>3. CASE Members(a) = {}
          <6>1. a \notin DOMAIN authorities
            BY <5>3 DEF ToldInv
          <6>2. Told_(a) = NoShutter
            BY <6>1 DEF Held, Told_, Known, Playback
          <6> QED
            BY <4>2, <6>2 DEF NoShutter
        <5> QED
          BY <5>1, <5>2, <5>3
      <4> QED
        BY <4>1, <4>2, <4>3, <4>4
    <3>2. CASE a \notin renewed
      <4>1. /\ a \in DOMAIN h1 <=> a \in DOMAIN h0
            /\ a \in DOMAIN h0 => h1[a] = h0[a]
        BY <2>3, <3>2 DEF ShuttersRenewed
      <4>2. PICK k : k = <<"shutter", a>>
        OBVIOUS
      <4>3. k[1] = "shutter" /\ \A l \in renewed : k # <<"shutter", l>>
        BY <3>2, <4>2
      <4>4. (k \in DOMAIN v1 <=> k \in DOMAIN v0) /\ (k \in DOMAIN v0 => v1[k] = v0[k])
        BY <2>3, <4>3 DEF ShuttersRenewed
      <4>5. Announced(a) <=> k \in DOMAIN v0
        BY <1>1, <2>2, <4>2 DEF Announced
      <4>6. /\ Announced(a) => /\ a \in DOMAIN h0 /\ v0[k] = h0[a] /\ h0[a].revision > Told_(a).revision
            /\ Members(a) # {} /\ ~Announced(a) =>
                 /\ a \in DOMAIN h0 <=> a \in DOMAIN authorities
                 /\ a \in DOMAIN authorities => authorities[a].parameters = h0[a]
        BY <2>2, <4>2 DEF ToldInv
      <4> QED
        BY <4>1, <4>2, <4>4, <4>5, <4>6
    <3> QED
      BY <3>1, <3>2
  <2>6. \A a : Announced(a)' <=> <<"shutter", a>> \in DOMAIN v1
    BY <1>1, <2>2 DEF Announced
  <2>7. \A a \in DOMAIN authorities' : Members(a)' # {} /\ authorities'[a].parameters.revision \in Nat
    BY <1>2 DEF ToldInv
  <2> QED
    BY <1>2, <2>2, <2>4, <2>5, <2>6, <2>7 DEF ToldInv
<1>5. UNCHANGED <<held, visual>> \/ \E renewed : ShuttersRenewed(held.shutter, visual, held'.shutter, visual', renewed)
  <2>1. CASE ChangedAddresses(u) = {}
    BY <2>1 DEF ConsumeUniverse
  <2>2. CASE ChangedAddresses(u) # {}
    <3> DEFINE plan == core.plans[u]
               changed == ChangedSources(core, plan, ChangedAddresses(u))
               reached == DirtyConsumers(plan, changed)
               values == Tabulated(Decoded(u, changed))
    <3>1. PICK start, after : /\ start = Update(held, visual)
                              /\ after = UpdateUniverse(core, u, reached, changed, values, prepared, now, start)
      OBVIOUS
    <3>2. held' = after.held /\ visual' = after.rows
      BY <2>2, <3>1 DEF ConsumeUniverse, Process, Updated, Evaluated, Adopted
    <3>3. start.held = held /\ start.rows = visual
      BY <3>1 DEF Update
    <3>4. DOMAIN start.held = DOMAIN NothingHeld
      BY <3>3 DEF HeldInv
    <3>5. PICK dirty, sources, raw : dirty = reached /\ sources = changed /\ raw = values
      OBVIOUS
    <3> HIDE DEF reached, changed, values
    <3>7. after = UpdateUniverse(core, u, dirty, sources, raw, prepared, now, start)
      BY <3>1, <3>5
    <3>8. \E renewed : ShuttersRenewed(start.held.shutter, start.rows, after.held.shutter, after.rows, renewed)
      BY <3>4, <3>7, UpdateRows
    <3> QED
      BY <3>2, <3>3, <3>8
  <2> QED
    BY <2>1, <2>2
<1> QED
  BY <1>3, <1>4, <1>5

(* A playback that knows what is held, and whose envelopes are the products *)
(* of the values of its authorities but for the outputs it is to look at.   *)
KnowsHeld(P) ==
  /\ PlaybackFits(P)
  /\ \A a \in DOMAIN P.authorities : Members(a) # {} /\ a \in DOMAIN held.shutter
                                     /\ P.authorities[a].parameters = held.shutter[a]
  /\ \A a \in DOMAIN held.shutter : Members(a) # {} => a \in DOMAIN P.authorities
  /\ \A o \in DOMAIN outputs : P.owned[o] = {a \in DOMAIN P.authorities : o \in Members(a)}
  /\ P.nominated \subseteq {o \in DOMAIN outputs : P.owned[o] # {}} /\ P.forced \subseteq P.nominated
  /\ \A o \in DOMAIN outputs \ P.nominated : P.envelope[o] = Product(P, o)
  /\ \A a \in DOMAIN P.authorities \ P.stale :
       Unmoving(P.authorities[a].parameters.command) =>
         P.authorities[a].value = ShutterEnvelope(P.authorities[a].parameters, now)

(* The playback is one.                                                     *)
LEMMA PlaybackIs ==
  ASSUME EnvelopeInv
  PROVE  PlaybackFits(Playback)
BY DEF EnvelopeInv, PlaybackFits, PlaybackFields, Playback

(* ingest tells the playback what is held.                                  *)
LEMMA IngestedKnows ==
  ASSUME ToldInv, EnvelopeInv, ~Idle, NEW I, I = Ingest(Playback, visual)
  PROVE  KnowsHeld(I) /\ I.envelope = envelope /\ forced \subseteq I.forced
<1> DEFINE shown == ShutterRows(visual)
           members == Tabulated([a \in DOMAIN shown |-> Members(a)])
           fed == {a \in DOMAIN shown : members[a] # {}}
           Newer(a) == shown[a].revision > Known(Playback, a).parameters.revision
           Joined(o) == {a \in fed : o \in members[a]}
           new == {o \in DOMAIN owned : Joined(o) \ owned[o] # {}}
           taken == [a \in fed |-> IF Newer(a) THEN [Known(Playback, a) EXCEPT !.parameters = shown[a]]
                                   ELSE Known(Playback, a)]
           next == Overlaid(taken, authorities)
           joined == [o \in DOMAIN owned |-> owned[o] \cup Joined(o)]
           renewed == {a \in fed : Newer(a)}
           P == [Playback EXCEPT !.authorities = next, !.stale = @ \cup renewed, !.owned = joined]
<1>1. I = Nominate(P, new, TRUE)
  BY DEF Ingest, IngestShutters, Playback
<1>2. /\ \A a : Announced(a) => a \in DOMAIN shown
      /\ \A a \in DOMAIN shown : Announced(a) /\ shown[a] = held.shutter[a]
  <2>1. DOMAIN shown = {k[2] : k \in {r \in DOMAIN visual : r[1] = "shutter"}}
        /\ \A a \in DOMAIN shown : shown[a] = visual[<<"shutter", a>>]
    BY DEF ShutterRows
  <2>2. ASSUME NEW a, a \in DOMAIN shown PROVE Announced(a)
    <3>1. PICK k \in DOMAIN visual : k[1] = "shutter" /\ a = k[2]
      BY <2>1, <2>2
    <3>2. k = <<"shutter", a>>
      BY <3>1 DEF ToldInv
    <3> QED
      BY <3>1, <3>2 DEF Announced
  <2>3. ASSUME NEW a, Announced(a) PROVE a \in DOMAIN shown
    <3>1. PICK k : k = <<"shutter", a>>
      OBVIOUS
    <3>2. k \in DOMAIN visual /\ k[1] = "shutter" /\ k[2] = a
      BY <2>3, <3>1 DEF Announced
    <3> HIDE DEF shown
    <3> QED
      BY <2>1, <3>2
  <2>4. \A a : Announced(a) => visual[<<"shutter", a>>] = held.shutter[a]
    BY DEF ToldInv
  <2> HIDE DEF shown
  <2> QED
    BY <2>1, <2>2, <2>3, <2>4
<1> HIDE DEF shown
<1>0. DOMAIN members = DOMAIN shown /\ \A a \in DOMAIN shown : members[a] = Members(a)
  BY TabulatedIs
<1> HIDE DEF members
<1>3. fed = {a \in DOMAIN shown : Members(a) # {}} /\ \A o : Joined(o) = {a \in fed : o \in Members(a)}
  <2>1. fed = {a \in DOMAIN shown : Members(a) # {}}
    BY <1>0
  <2>2. fed \subseteq DOMAIN shown
    OBVIOUS
  <2> HIDE DEF fed
  <2> QED
    BY <1>0, <2>1, <2>2
<1>4. \A a \in fed : /\ Announced(a) /\ Members(a) # {} /\ a \in DOMAIN held.shutter
                     /\ shown[a] = held.shutter[a] /\ Newer(a)
  <2>1. \A a \in fed : Announced(a) /\ Members(a) # {} /\ shown[a] = held.shutter[a]
    BY <1>2, <1>3
  <2>2. \A a : Announced(a) => a \in DOMAIN held.shutter /\ held.shutter[a].revision > Told_(a).revision
    BY DEF ToldInv
  <2> QED
    BY <2>1, <2>2 DEF Told_
<1>5. \A a : Announced(a) /\ Members(a) # {} => a \in fed
  BY <1>2, <1>3
<1>6. renewed = fed
  BY <1>4
<1> HIDE DEF fed
<1>7. /\ DOMAIN taken = fed
      /\ \A a \in fed : /\ DOMAIN taken[a] = ValueFields /\ taken[a].parameters = held.shutter[a]
                        /\ a \in DOMAIN authorities => taken[a].value = authorities[a].value
  <2>1. DOMAIN taken = fed /\ \A a \in fed : taken[a] = [Known(Playback, a) EXCEPT !.parameters = held.shutter[a]]
    BY <1>4
  <2>2. \A a : /\ DOMAIN Known(Playback, a) = ValueFields
               /\ a \in DOMAIN authorities => Known(Playback, a).value = authorities[a].value
    BY DEF Known, Held, Playback, EnvelopeInv, ValueFields
  <2> HIDE DEF taken
  <2> QED
    BY <2>1, <2>2 DEF ValueFields
<1> HIDE DEF taken, Newer
<1>8. /\ DOMAIN next = fed \cup DOMAIN authorities
      /\ \A a \in fed : next[a] = taken[a]
      /\ \A a \in DOMAIN authorities \ fed : next[a] = authorities[a]
  <2>1. next = [x \in DOMAIN taken \cup DOMAIN authorities |-> IF x \in DOMAIN taken THEN taken[x] ELSE authorities[x]]
    BY TabulatedIs DEF Overlaid
  <2> HIDE DEF next
  <2> QED
    BY <1>7, <2>1
<1> HIDE DEF next
<1>9. DOMAIN joined = DOMAIN outputs /\ \A o \in DOMAIN outputs : joined[o] = owned[o] \cup {a \in fed : o \in Members(a)}
  BY <1>3 DEF EnvelopeInv
<1>10. new = {o \in DOMAIN outputs : {a \in fed : o \in Members(a)} \ owned[o] # {}}
  BY <1>3 DEF EnvelopeInv
<1> HIDE DEF joined, new, renewed, Joined
<1>11. /\ DOMAIN P = PlaybackFields /\ P.authorities = next /\ P.stale = renewed /\ P.owned = joined
       /\ P.envelope = envelope /\ P.nominated = nominated /\ P.forced = forced
  BY DEF Playback, PlaybackFields, EnvelopeInv
<1> HIDE DEF P
<1>12. \A o \in DOMAIN outputs : joined[o] = {a \in DOMAIN next : o \in Members(a)}
  BY <1>8, <1>9 DEF EnvelopeInv
<1>13. PlaybackFits(P)
  <2>1. DOMAIN P.envelope = DOMAIN outputs /\ P.nominated \subseteq DOMAIN outputs
    BY <1>11 DEF EnvelopeInv
  <2>2. \A a \in DOMAIN next : DOMAIN next[a] = ValueFields
    BY <1>7, <1>8 DEF EnvelopeInv
  <2> QED
    BY <1>9, <1>11, <1>12, <2>1, <2>2 DEF PlaybackFits
<1>14. /\ NominateSame(P, I) /\ I.nominated = P.nominated \cup NominatedOf(P, new)
       /\ I.forced = P.forced \cup NominatedOf(P, new)
  BY <1>1, <1>13, NominateIs
<1>15. NominatedOf(P, new) = new
  BY <1>9, <1>10, <1>11 DEF NominatedOf
<1>16. /\ DOMAIN I = PlaybackFields /\ I.authorities = next /\ I.stale = fed /\ I.owned = joined
       /\ I.envelope = envelope /\ I.nominated = nominated \cup new /\ I.forced = forced \cup new
  BY <1>6, <1>11, <1>14, <1>15 DEF NominateSame
<1>17. I.nominated \subseteq {o \in DOMAIN outputs : I.owned[o] # {}} /\ I.forced \subseteq I.nominated
  BY <1>9, <1>10, <1>16 DEF EnvelopeInv
<1>18. PlaybackFits(I)
  BY <1>11, <1>13, <1>16, <1>17 DEF PlaybackFits
<1>19. \A a \in DOMAIN next : Members(a) # {} /\ a \in DOMAIN held.shutter /\ next[a].parameters = held.shutter[a]
  <2>1. \A a \in DOMAIN authorities \ fed : ~Announced(a) /\ Members(a) # {}
    BY <1>5 DEF ToldInv
  <2>2. \A a \in DOMAIN authorities \ fed : a \in DOMAIN held.shutter /\ authorities[a].parameters = held.shutter[a]
    BY <2>1 DEF ToldInv
  <2> QED
    BY <1>4, <1>7, <1>8, <2>1, <2>2
<1>20. \A a \in DOMAIN held.shutter : Members(a) # {} => a \in DOMAIN next
  <2>1. \A a \in DOMAIN held.shutter : Members(a) # {} /\ ~Announced(a) => a \in DOMAIN authorities
    BY DEF ToldInv
  <2> QED
    BY <1>5, <1>8, <2>1
<1>21. ASSUME NEW o \in DOMAIN outputs, o \notin I.nominated PROVE I.envelope[o] = Product(I, o)
  <2>1. {a \in fed : o \in Members(a)} \subseteq owned[o]
    BY <1>10, <1>16, <1>21
  <2>2. I.owned[o] = owned[o]
    BY <1>9, <1>16, <2>1
  <2>3. \A a \in owned[o] : next[a].value = authorities[a].value
    BY <1>7, <1>8 DEF EnvelopeInv
  <2>4. Playback.owned = owned /\ Playback.authorities = authorities
    BY DEF Playback
  <2>5. Product(Playback, o) = Product(I, o)
    BY <1>16, <2>2, <2>3, <2>4, ProductSame
  <2> QED
    BY <1>16, <2>5 DEF EnvelopeInv
<1>22. \A a \in DOMAIN next \ fed : Unmoving(next[a].parameters.command) =>
         next[a].value = ShutterEnvelope(next[a].parameters, now)
  BY <1>8 DEF EnvelopeInv
<1>23. KnowsHeld(I)
  BY <1>12, <1>16, <1>17, <1>18, <1>19, <1>20, <1>21, <1>22 DEF KnowsHeld
<1> QED
  BY <1>16, <1>23

(* The beams show the envelopes of a playback, or have an output forced.    *)
Lights(P, screen_, layout_, lit_) ==
  \A r \in DOMAIN layout_ : screen_[r] # None =>
    \A o \in layout_[r].members : o \in P.forced \/ lit_[r] = Dimmed(screen_[r].energy, P.envelope[o])

(* A shutter that does not strobe has one envelope at all times.            *)
LEMMA UnmovingStays ==
  ASSUME NEW parameters, Unmoving(parameters.command), NEW t1, NEW t2
  PROVE  ShutterEnvelope(parameters, t1) = ShutterEnvelope(parameters, t2)
BY DEF ShutterEnvelope, Unmoving

(* What a tick makes of a playback.                                         *)
Settles(P, N) ==
  /\ DOMAIN N = PlaybackFields
  /\ N.owned = P.owned /\ N.stale = {} /\ N.nominated = {} /\ N.forced = {}
  /\ DOMAIN N.authorities = DOMAIN P.authorities
  /\ \A a \in DOMAIN P.authorities : /\ DOMAIN N.authorities[a] = ValueFields
                                     /\ N.authorities[a].parameters = P.authorities[a].parameters
                                     /\ N.authorities[a].value = ShutterEnvelope(P.authorities[a].parameters, now')
  /\ DOMAIN N.envelope = DOMAIN outputs
  /\ \A o \in DOMAIN outputs : N.envelope[o] = Product(N, o)

(* tick settles a playback that knows what is held.                         *)
LEMMA AdvancedSettles ==
  ASSUME HeldInv, NEW P, KnowsHeld(P), NEW N, N = Advanced(P).playback
  PROVE  Settles(P, N)
<1>1. PICK changed : changed = Advanced(P).changed
  OBVIOUS
<1>2. PlaybackFits(P)
  BY DEF KnowsHeld
<1>3. ASSUME NEW a \in DOMAIN P.authorities, a \notin Sampled(P)
      PROVE  P.authorities[a].value = ShutterEnvelope(P.authorities[a].parameters, now')
  <2>1. a \in DOMAIN held.shutter /\ P.authorities[a].parameters = held.shutter[a]
    BY DEF KnowsHeld
  <2>2. P.authorities[a].parameters.command.frequency \in Int
    BY <2>1 DEF HeldInv, ShutterFits
  <2>3. a \notin P.stale /\ Unmoving(P.authorities[a].parameters.command)
    BY <1>3, <2>2 DEF Sampled, Unmoving
  <2>4. P.authorities[a].value = ShutterEnvelope(P.authorities[a].parameters, now)
    BY <2>3 DEF KnowsHeld
  <2> QED
    BY <2>3, <2>4, UnmovingStays
<1>4. \A o \in DOMAIN outputs : o \in P.nominated \/ P.envelope[o] = Product(P, o)
  BY DEF KnowsHeld
<1>5. /\ DOMAIN N = PlaybackFields /\ N.owned = P.owned
      /\ N.stale = {} /\ N.nominated = {} /\ N.forced = {}
      /\ DOMAIN N.authorities = DOMAIN P.authorities /\ DOMAIN N.envelope = DOMAIN outputs
  BY <1>1, <1>2, AdvancedIs
<1>6. \A o \in DOMAIN outputs : N.envelope[o] = Product(N, o)
  BY <1>1, <1>2, <1>4, AdvancedIs
<1>7. \A a \in DOMAIN P.authorities : /\ DOMAIN N.authorities[a] = ValueFields
                                       /\ N.authorities[a].parameters = P.authorities[a].parameters
  BY <1>1, <1>2, AdvancedIs
<1>8. \A a \in DOMAIN P.authorities : N.authorities[a].value = ShutterEnvelope(P.authorities[a].parameters, now')
  <2>1. \A a \in DOMAIN P.authorities :
          N.authorities[a].value = IF a \in Sampled(P) THEN ShutterEnvelope(P.authorities[a].parameters, now')
                                   ELSE P.authorities[a].value
    BY <1>1, <1>2, AdvancedIs
  <2> QED
    BY <1>3, <2>1
<1> QED
  BY <1>5, <1>6, <1>7, <1>8 DEF Settles

(* It is the fields of a playback that count.                               *)
LEMMA SettlesSame ==
  ASSUME NEW P, NEW N, Settles(P, N), NEW Q, DOMAIN Q = PlaybackFields, \A f \in PlaybackFields : Q[f] = N[f]
  PROVE  Settles(P, Q)
<1>1. /\ Q.authorities = N.authorities /\ Q.owned = N.owned /\ Q.stale = N.stale /\ Q.nominated = N.nominated
      /\ Q.forced = N.forced /\ Q.envelope = N.envelope
  BY DEF PlaybackFields
<1>2. \A o \in DOMAIN outputs : Product(Q, o) = Product(N, o)
  BY <1>1 DEF Product
<1> QED
  BY <1>1, <1>2 DEF Settles

(* advance_shutters lights every row as its envelopes ask for.              *)
LEMMA AdvanceLights ==
  ASSUME HeldInv, NEW P, KnowsHeld(P), NEW screen_, NEW layout_, NEW lit_,
         RowsFit(layout_), DOMAIN screen_ = DOMAIN layout_, DOMAIN lit_ = DOMAIN layout_,
         Lights(P, screen_, layout_, lit_), Advance(P, screen_, layout_, lit_)
  PROVE  /\ Settles(P, Playback')
         /\ DOMAIN lit' = DOMAIN layout_
         /\ \A r \in DOMAIN layout_ : screen_[r] # None =>
              \A o \in layout_[r].members : lit'[r] = Dimmed(screen_[r].energy, envelope'[o])
<1>1. PICK N, changed : N = Advanced(P).playback /\ changed = Advanced(P).changed
  OBVIOUS
<1>2. Settles(P, N)
  BY <1>1, AdvancedSettles
<1>3. PlaybackFits(P)
  BY DEF KnowsHeld
<1>4. /\ changed \subseteq DOMAIN outputs
      /\ \A o \in DOMAIN outputs : /\ o \in P.nominated /\ o \in P.forced => o \in changed
                                   /\ o \in changed \/ N.envelope[o] = P.envelope[o]
  BY <1>1, <1>3, AdvancedIs
<1> DEFINE rows_ == {r \in DOMAIN layout_ : screen_[r] # None /\ layout_[r].members \cap changed # {}}
<1>5. /\ PlaybackBecomes(N)
      /\ \E first \in [rows_ -> changed] :
          /\ \A r \in rows_ : first[r] \in layout_[r].members
          /\ lit' = Overlaid([r \in rows_ |-> Dimmed(screen_[r].energy, N.envelope[first[r]])], lit_)
  BY <1>1 DEF Advance, Modulate
<1>6. PICK first : /\ \A r \in rows_ : first[r] \in layout_[r].members
                   /\ lit' = Overlaid([r \in rows_ |-> Dimmed(screen_[r].energy, N.envelope[first[r]])], lit_)
  BY <1>5
<1> DEFINE turned == [r \in rows_ |-> Dimmed(screen_[r].energy, N.envelope[first[r]])]
<1>7. lit' = [x \in DOMAIN turned \cup DOMAIN lit_ |-> IF x \in DOMAIN turned THEN turned[x] ELSE lit_[x]]
  BY <1>6, TabulatedIs DEF Overlaid
<1>8. DOMAIN turned = rows_ /\ \A r \in rows_ : turned[r] = Dimmed(screen_[r].energy, N.envelope[first[r]])
  OBVIOUS
<1>9. rows_ \subseteq DOMAIN layout_
  OBVIOUS
<1>10. \A r \in DOMAIN layout_ \ rows_ : screen_[r] # None => layout_[r].members \cap changed = {}
  OBVIOUS
<1> HIDE DEF turned, rows_
<1>11. Settles(P, Playback')
  <2>1. PICK Q : Q = Playback'
    OBVIOUS
  <2>2. DOMAIN Q = PlaybackFields /\ \A f \in PlaybackFields : Q[f] = N[f]
    BY <1>5, <2>1 DEF PlaybackBecomes, Playback, PlaybackFields
  <2> QED
    BY <1>2, <2>1, <2>2, SettlesSame
<1>12. DOMAIN lit' = DOMAIN layout_
  BY <1>7, <1>8, <1>9
<1>13. envelope' = N.envelope
  BY <1>5 DEF PlaybackBecomes
<1>14. ASSUME NEW r \in DOMAIN layout_, screen_[r] # None, NEW o \in layout_[r].members
       PROVE  lit'[r] = Dimmed(screen_[r].energy, envelope'[o])
  <2>1. layout_[r].members \subseteq DOMAIN outputs
    BY DEF RowsFit
  <2>2. CASE r \in rows_
    <3>1. PICK p : p = first[r]
      OBVIOUS
    <3>2. p \in layout_[r].members
      BY <1>6, <2>2, <3>1
    <3>3. N.owned[o] = N.owned[p]
      <4>1. N.owned[o] = {a \in DOMAIN P.authorities : o \in Members(a)}
        BY <1>2, <2>1 DEF Settles, KnowsHeld
      <4>2. N.owned[p] = {a \in DOMAIN P.authorities : p \in Members(a)}
        BY <1>2, <2>1, <3>2 DEF Settles, KnowsHeld
      <4>3. \A a : o \in Members(a) <=> p \in Members(a)
        BY <1>14, <3>2 DEF RowsFit
      <4> QED
        BY <4>1, <4>2, <4>3
    <3>4. N.envelope[o] = N.envelope[p]
      <4>1. Product(N, o) = Product(N, p)
        BY <3>3 DEF Product
      <4> QED
        BY <1>2, <2>1, <3>2, <4>1 DEF Settles
    <3> QED
      BY <1>7, <1>8, <1>13, <2>2, <3>1, <3>4
  <2>3. CASE r \notin rows_
    <3>1. o \notin changed
      BY <1>10, <1>14, <2>3
    <3>2. N.envelope[o] = P.envelope[o] /\ o \notin P.forced
      BY <1>4, <2>1, <3>1 DEF KnowsHeld
    <3>3. lit_[r] = Dimmed(screen_[r].energy, P.envelope[o])
      BY <1>14, <3>2 DEF Lights
    <3>4. lit'[r] = lit_[r]
      BY <1>7, <1>8, <1>14, <2>3
    <3> QED
      BY <1>13, <3>2, <3>3, <3>4
  <2> QED
    BY <2>2, <2>3
<1> QED
  BY <1>2, <1>11, <1>12, <1>14

(* A nomination leaves what a playback knows.                               *)
LEMMA NominateKnows ==
  ASSUME NEW P, KnowsHeld(P), NEW owners, owners \subseteq DOMAIN outputs, NEW N, N = Nominate(P, owners, TRUE)
  PROVE  /\ KnowsHeld(N) /\ NominateSame(P, N) /\ P.forced \subseteq N.forced
         /\ \A o \in owners : P.owned[o] # {} => o \in N.forced
<1>1. PlaybackFits(P)
  BY DEF KnowsHeld
<1>2. /\ NominateSame(P, N) /\ N.nominated = P.nominated \cup NominatedOf(P, owners)
      /\ N.forced = P.forced \cup NominatedOf(P, owners)
  BY <1>1, NominateIs
<1>3. /\ DOMAIN N = PlaybackFields /\ N.authorities = P.authorities /\ N.stale = P.stale
      /\ N.owned = P.owned /\ N.envelope = P.envelope
  BY <1>2 DEF NominateSame
<1>4. NominatedOf(P, owners) \subseteq {o \in DOMAIN outputs : P.owned[o] # {}}
  BY DEF NominatedOf
<1>5. PlaybackFits(N)
  BY <1>1, <1>2, <1>3, <1>4 DEF PlaybackFits
<1>6. N.nominated \subseteq {o \in DOMAIN outputs : N.owned[o] # {}} /\ N.forced \subseteq N.nominated
  BY <1>2, <1>3, <1>4 DEF KnowsHeld
<1>7. \A o : Product(N, o) = Product(P, o)
  BY <1>3 DEF Product
<1>8. \A o \in DOMAIN outputs \ N.nominated : N.envelope[o] = Product(N, o)
  <2>1. \A o \in DOMAIN outputs \ P.nominated : P.envelope[o] = Product(P, o)
    BY DEF KnowsHeld
  <2> QED
    BY <1>2, <1>3, <1>7, <2>1
<1>9. KnowsHeld(N)
  BY <1>3, <1>5, <1>6, <1>8 DEF KnowsHeld
<1> QED
  BY <1>2, <1>9 DEF NominatedOf

(* The rows that a snapshot did not write still show their envelopes.       *)
RowsLit(I, R, S) ==
  \A r \in DOMAIN R.layout \ S.written : R.screen[r] # None =>
    \A o \in R.layout[r].members : o \in I.forced \/ Held(lit, r, None) = Dimmed(R.screen[r].energy, I.envelope[o])

(* apply_beams: the written rows are unmodulated or forced.                 *)
LEMMA PublishedLights ==
  ASSUME NEW I, KnowsHeld(I), NEW R, RendererFits(R), NEW S, NEW replaying, SnapshotFits(R, S, replaying),
         RowsLit(I, R, S), NEW P, P = Published(I, S)
  PROVE  /\ KnowsHeld(P) /\ NominateSame(I, P)
         /\ DOMAIN Unmodulated(S) = DOMAIN R.layout
         /\ Lights(P, S.screen, S.layout, Unmodulated(S))
<1>1. PICK owners : owners = UNION {S.layout[r].members : r \in S.written}
  OBVIOUS
<1>2. P = Nominate(I, owners, TRUE)
  BY <1>1 DEF Published
<1>3. owners \subseteq DOMAIN outputs
  BY <1>1 DEF SnapshotFits, RendererFits, RowsFit
<1>4. /\ KnowsHeld(P) /\ NominateSame(I, P) /\ I.forced \subseteq P.forced
      /\ \A o \in owners : I.owned[o] # {} => o \in P.forced
  BY <1>2, <1>3, NominateKnows
<1>5. PICK shown : shown = Unmodulated(S)
  OBVIOUS
<1>6. /\ DOMAIN shown = DOMAIN R.layout
      /\ \A r \in S.written : shown[r] = S.screen[r].energy
      /\ \A r \in DOMAIN R.layout \ S.written : shown[r] = Held(lit, r, None)
  BY <1>5 DEF Unmodulated, SnapshotFits
<1>7. P.envelope = I.envelope
  BY <1>4 DEF NominateSame
<1>8. ASSUME NEW r \in DOMAIN R.layout, S.screen[r] # None, NEW o \in R.layout[r].members
      PROVE  o \in P.forced \/ shown[r] = Dimmed(S.screen[r].energy, P.envelope[o])
  <2>1. o \in DOMAIN outputs
    BY DEF RendererFits, RowsFit
  <2>2. CASE r \in S.written /\ I.owned[o] # {}
    BY <1>1, <1>4, <2>2 DEF SnapshotFits
  <2>3. CASE r \in S.written /\ I.owned[o] = {}
    <3>1. o \notin I.nominated
      BY <2>3 DEF KnowsHeld
    <3>2. I.envelope[o] = Product(I, o)
      BY <2>1, <3>1 DEF KnowsHeld
    <3>3. Product(I, o) = Unit
      BY <2>3, NoShutters DEF Product
    <3> QED
      BY <1>6, <1>7, <2>3, <3>2, <3>3 DEF Dimmed
  <2>4. CASE r \notin S.written
    <3>1. S.screen[r] = R.screen[r]
      BY <2>4 DEF SnapshotFits
    <3>2. o \in I.forced \/ Held(lit, r, None) = Dimmed(R.screen[r].energy, I.envelope[o])
      BY <1>8, <2>4, <3>1 DEF RowsLit
    <3> QED
      BY <1>4, <1>6, <1>7, <2>4, <3>1, <3>2
  <2> QED
    BY <2>2, <2>3, <2>4
<1>9. Lights(P, S.screen, S.layout, shown)
  BY <1>8 DEF Lights, SnapshotFits
<1> QED
  BY <1>4, <1>5, <1>6, <1>9

(* A playback that is told of nothing new knows what is held.               *)
LEMMA PlaybackKnows ==
  ASSUME ToldInv, EnvelopeInv, Idle
  PROVE  KnowsHeld(Playback)
<1>1. \A a : ~Announced(a)
  BY DEF Announced
<1>2. PlaybackFits(Playback)
  BY PlaybackIs
<1>3. /\ Playback.authorities = authorities /\ Playback.stale = {} /\ Playback.owned = owned
      /\ Playback.envelope = envelope /\ Playback.nominated = nominated /\ Playback.forced = forced
  BY DEF Playback, EnvelopeInv
<1>4. \A a \in DOMAIN authorities : Members(a) # {} /\ a \in DOMAIN held.shutter
                                    /\ authorities[a].parameters = held.shutter[a]
  BY <1>1 DEF ToldInv
<1>5. \A a \in DOMAIN held.shutter : Members(a) # {} => a \in DOMAIN authorities
  BY <1>1 DEF ToldInv
<1>6. /\ \A o \in DOMAIN outputs : owned[o] = {a \in DOMAIN authorities : o \in Members(a)}
      /\ nominated \subseteq {o \in DOMAIN outputs : owned[o] # {}} /\ forced \subseteq nominated
      /\ \A o \in DOMAIN outputs : envelope[o] = Product(Playback, o)
      /\ \A a \in DOMAIN authorities : authorities[a].value = ShutterEnvelope(authorities[a].parameters, now)
  BY DEF EnvelopeInv
<1> QED
  BY <1>2, <1>3, <1>4, <1>5, <1>6 DEF KnowsHeld

(* An advanced playback is as the invariants have it.                       *)
LEMMA AdvancedKeeps ==
  ASSUME HeldInv, NEW P, KnowsHeld(P), Settles(P, Playback'),
         UNCHANGED <<installed, held>>, installed # None, DOMAIN outputs' = DOMAIN outputs, Idle',
         \A r \in DOMAIN layout' : screen'[r] # None =>
           \A o \in layout'[r].members : lit'[r] = Dimmed(screen'[r].energy, envelope'[o])
  PROVE  ToldInv' /\ EnvelopeInv' /\ LightInv'
<1>1. \A a : Members(a)' = Members(a)
  BY DEF Members, core
<1>2. PICK N : N = Playback'
  OBVIOUS
<1>3. /\ authorities' = N.authorities /\ stale' = N.stale /\ owned' = N.owned
      /\ envelope' = N.envelope /\ nominated' = N.nominated /\ forced' = N.forced
  BY <1>2 DEF Playback
<1>4. Settles(P, N)
  BY <1>2
<1>5. /\ DOMAIN authorities' = DOMAIN P.authorities /\ owned' = P.owned
      /\ stale' = {} /\ nominated' = {} /\ forced' = {} /\ DOMAIN envelope' = DOMAIN outputs
      /\ \A o \in DOMAIN outputs : envelope'[o] = Product(N, o)
  BY <1>3, <1>4 DEF Settles
<1>6. \A a \in DOMAIN authorities' : /\ DOMAIN authorities'[a] = ValueFields
                                     /\ authorities'[a].parameters = P.authorities[a].parameters
                                     /\ authorities'[a].value = ShutterEnvelope(authorities'[a].parameters, now')
  BY <1>3, <1>4 DEF Settles
<1>7. /\ \A a \in DOMAIN authorities' : /\ Members(a) # {} /\ a \in DOMAIN held.shutter
                                        /\ authorities'[a].parameters = held.shutter[a]
      /\ \A a \in DOMAIN held.shutter : Members(a) # {} => a \in DOMAIN authorities'
  BY <1>5, <1>6 DEF KnowsHeld
<1>8. ToldInv'
  <2>1. \A a : ~Announced(a)'
    BY DEF Announced
  <2>2. \A a \in DOMAIN authorities' : authorities'[a].parameters.revision \in Nat
    BY <1>7 DEF HeldInv, ShutterFits
  <2> QED
    BY <1>1, <1>7, <2>1, <2>2 DEF ToldInv
<1>9. DOMAIN P.owned = DOMAIN outputs /\ \A o \in DOMAIN outputs : P.owned[o] = {a \in DOMAIN P.authorities : o \in Members(a)}
  BY DEF KnowsHeld, PlaybackFits
<1>10. EnvelopeInv'
  <2>1. \A o \in DOMAIN outputs' : envelope'[o] = Product(Playback, o)'
    BY <1>2, <1>5
  <2> QED
    BY <1>1, <1>5, <1>6, <1>9, <2>1 DEF EnvelopeInv
<1>11. LightInv'
  BY DEF LightInv
<1> QED
  BY <1>8, <1>10, <1>11

(* What is published of a renderer keeps its rows.                          *)
LEMMA PublishedKeeps ==
  ASSUME LayoutInv, NEW R, RendererFits(R), NEW S, NEW replaying, SnapshotFits(R, S, replaying), Publish(S),
         UNCHANGED installed, DOMAIN lit' = DOMAIN R.layout,
         ~replaying => \A r \in DOMAIN R.layout : R.layout[r].members # {} => R.screen[r] # None
  PROVE  LayoutInv' /\ DOMAIN outputs' = DOMAIN outputs
<1>1. /\ layout' = R.layout /\ DOMAIN outputs' = DOMAIN outputs
      /\ DOMAIN rows' = DOMAIN R.layout /\ DOMAIN screen' = DOMAIN R.layout
      /\ screen' = S.screen
  BY DEF Publish, SnapshotFits
<1>2. \A a : Members(a)' = Members(a)
  BY <1>1 DEF Members, core
<1>3. \A rows_ : RowsFit(rows_) => RowsFit(rows_)'
  BY <1>1, <1>2 DEF RowsFit
<1>4. RowsFit(layout)'
  <2>1. PICK rows_ : rows_ = layout'
    OBVIOUS
  <2>2. RowsFit(rows_)
    BY <1>1, <2>1 DEF RendererFits
  <2> QED
    BY <1>1, <1>2, <2>1, <2>2 DEF RowsFit
<1>5. installed' # None => /\ DOMAIN outputs' = DOMAIN Bound[installed'].scale
                           /\ \A aggregating \in BOOLEAN : RowsFit(Bound[installed].rows[aggregating])'
  <2>1. installed # None => /\ DOMAIN outputs = DOMAIN Bound[installed].scale
                            /\ \A aggregating \in BOOLEAN : RowsFit(Bound[installed].rows[aggregating])
    BY DEF LayoutInv
  <2> QED
    BY <1>1, <1>2, <2>1 DEF RowsFit
<1>6. \A r \in DOMAIN layout' : layout'[r].members # {} => screen'[r] # None
  BY <1>1 DEF SnapshotFits
<1> QED
  BY <1>1, <1>4, <1>5, <1>6 DEF LayoutInv

(* The outputs of a scene are numbered.                                     *)
LEMMA BoundIs ==
  ASSUME NEW s \in DOMAIN Scenes
  PROVE  DOMAIN Bound[s].scale \subseteq Nat
<1>1. Bound[s] = BoundOf(Scenes[s], Aggregates(Scenes[s]))
  BY TabulatedIs DEF Bound
<1>2. \A groups : DOMAIN BoundOf(Scenes[s], groups).scale = Beams(Scenes[s])
  BY TabulatedIs DEF BoundOf
<1>3. Beams(Scenes[s]) \subseteq Nat
  BY BeamsAssumption DEF Beams
<1> QED
  BY <1>1, <1>2, <1>3

(* Every renderer that is published to has the rows of the outputs.         *)
LEMMA RendererKnown ==
  ASSUME LayoutInv, RuntimeInv, installed # None
  PROVE  /\ RendererFits(Renderer) /\ RendererFits(Invalidated)
         /\ \A aggregating \in BOOLEAN : RendererFits(NewRenderer(aggregating))
<1>1. installed \in DOMAIN Scenes
  BY DEF RuntimeInv
<1>2. DOMAIN outputs \subseteq Nat
  BY <1>1, BoundIs DEF LayoutInv
<1>3. RendererFits(Renderer)
  BY <1>2 DEF RendererFits, Renderer, LayoutInv
<1>4. RendererFits(Invalidated)
  <2>1. /\ Invalidated.layout = layout /\ DOMAIN Invalidated.rows = DOMAIN rows /\ Invalidated.screen = screen
    BY DEF Invalidated, Renderer
  <2> QED
    BY <1>2, <2>1 DEF RendererFits, LayoutInv
<1>5. ASSUME NEW aggregating \in BOOLEAN PROVE RendererFits(NewRenderer(aggregating))
  <2>1. PICK new : new = Bound[installed].rows[aggregating]
    OBVIOUS
  <2>2. RowsFit(new)
    BY <2>1 DEF LayoutInv
  <2>3. NewRenderer(aggregating) = RendererOf(new)
    BY <2>1 DEF NewRenderer
  <2>4. /\ RendererOf(new).layout = new /\ DOMAIN RendererOf(new).rows = DOMAIN new
        /\ DOMAIN RendererOf(new).screen = DOMAIN new
    BY DEF RendererOf
  <2> QED
    BY <1>2, <2>2, <2>3, <2>4 DEF RendererFits
<1> QED
  BY <1>3, <1>4, <1>5

(* consume_runtime and advance_temporal.                                    *)
LEMMA ShowLights ==
  ASSUME NoRowIsNone, RuntimeInv, HeldInv, PlaybackInv, Show
  PROVE  PlaybackInv'
<1>1. /\ ToldInv /\ LayoutInv /\ EnvelopeInv /\ LightInv
      /\ todo = {} /\ todo' = None /\ UNCHANGED <<installed, held, now>>
  BY DEF PlaybackInv, Show, EndConsume
<1>2. ~Idle /\ installed # None /\ Idle'
  BY <1>1, ConsumeAssumption DEF Idle, RuntimeInv
<1>3. PICK I : I = Ingest(Playback, visual)
  OBVIOUS
<1>4. KnowsHeld(I) /\ I.envelope = envelope /\ forced \subseteq I.forced
  BY <1>1, <1>2, <1>3, IngestedKnows
<1>5. PICK R : R = Renderer
  OBVIOUS
<1>6. RendererFits(R) /\ R.layout = layout /\ R.screen = screen
  BY <1>1, <1>2, <1>5, RendererKnown DEF Renderer
<1>7. PICK S : S = Snapshot(visual, replay, R)
  OBVIOUS
<1>8. SnapshotFits(R, S, replay)
  BY <1>6, <1>7, SnapshotIs
<1>9. RowsLit(I, R, S)
  <2>1. DOMAIN lit = DOMAIN layout
    BY <1>1 DEF LayoutInv
  <2>2. \A r \in DOMAIN layout : Held(lit, r, None) = lit[r]
    BY <2>1 DEF Held
  <2> QED
    BY <1>1, <1>4, <1>6, <2>2 DEF RowsLit, LightInv
<1>10. PICK P : P = Published(I, S)
  OBVIOUS
<1>11. /\ KnowsHeld(P) /\ DOMAIN Unmodulated(S) = DOMAIN R.layout
       /\ Lights(P, S.screen, S.layout, Unmodulated(S))
  BY <1>4, <1>6, <1>8, <1>9, <1>10, PublishedLights
<1>12. Publish(S) /\ Advance(P, S.screen, layout, Unmodulated(S))
  BY <1>3, <1>5, <1>7, <1>10 DEF Show, Present
<1>13. PICK screen_, lit_ : screen_ = S.screen /\ lit_ = Unmodulated(S)
  OBVIOUS
<1>14. /\ DOMAIN screen_ = DOMAIN layout /\ DOMAIN lit_ = DOMAIN layout /\ RowsFit(layout)
       /\ Lights(P, screen_, layout, lit_) /\ Advance(P, screen_, layout, lit_)
  BY <1>1, <1>6, <1>8, <1>11, <1>12, <1>13 DEF SnapshotFits, LayoutInv
<1>15. /\ Settles(P, Playback') /\ DOMAIN lit' = DOMAIN layout
       /\ \A r \in DOMAIN layout : screen_[r] # None =>
            \A o \in layout[r].members : lit'[r] = Dimmed(screen_[r].energy, envelope'[o])
  BY <1>11, <1>14, AdvanceLights
<1>16. LayoutInv' /\ DOMAIN outputs' = DOMAIN outputs
  <2>1. ~replay => \A r \in DOMAIN R.layout : R.layout[r].members # {} => R.screen[r] # None
    BY <1>1, <1>6 DEF LayoutInv
  <2>2. DOMAIN lit' = DOMAIN R.layout
    BY <1>6, <1>15
  <2> QED
    BY <1>1, <1>6, <1>8, <1>12, <2>1, <2>2, PublishedKeeps
<1>17. layout' = layout /\ screen' = screen_
  BY <1>6, <1>8, <1>12, <1>13 DEF Publish, SnapshotFits
<1>18. \A r \in DOMAIN layout' : screen'[r] # None =>
         \A o \in layout'[r].members : lit'[r] = Dimmed(screen'[r].energy, envelope'[o])
  BY <1>15, <1>17
<1>19. ToldInv' /\ EnvelopeInv' /\ LightInv'
  BY <1>1, <1>2, <1>11, <1>15, <1>16, <1>18, AdvancedKeeps
<1> QED
  BY <1>16, <1>19 DEF PlaybackInv

(* The rows stay as they are when nothing is bound.                         *)
LEMMA LayoutStays ==
  ASSUME LayoutInv, UNCHANGED <<installed, layout, outputs, replay, rows, screen>>, DOMAIN lit' = DOMAIN lit
  PROVE  LayoutInv'
<1>1. \A a : Members(a)' = Members(a)
  BY DEF Members, core
<1>2. RowsFit(layout)' <=> RowsFit(layout)
  BY <1>1 DEF RowsFit
<1>3. \A aggregating : RowsFit(Bound[installed].rows[aggregating])' <=> RowsFit(Bound[installed].rows[aggregating])
  BY <1>1 DEF RowsFit
<1> QED
  BY <1>2, <1>3 DEF LayoutInv

(* A frame without a consume.                                               *)
LEMMA ElapseLights ==
  ASSUME RuntimeInv, HeldInv, PlaybackInv, Elapse
  PROVE  PlaybackInv'
<1>1. /\ ToldInv /\ LayoutInv /\ EnvelopeInv /\ LightInv
      /\ UNCHANGED <<todo, installed, held, visual, layout, outputs, replay, rows, screen>>
  BY DEF PlaybackInv, Elapse, Tick, denseVars
<1>2. \A a : Members(a)' = Members(a)
  BY <1>1 DEF Members, core
<1>3. CASE Idle /\ installed # None
  <2>1. Advance(Playback, screen, layout, lit)
    BY <1>3 DEF Elapse
  <2>2. PICK P : P = Playback
    OBVIOUS
  <2>3. KnowsHeld(P)
    BY <1>1, <1>3, <2>2, PlaybackKnows
  <2>4. Lights(P, screen, layout, lit)
    BY <1>1, <2>2 DEF Lights, LightInv, Playback
  <2>5. RowsFit(layout) /\ DOMAIN screen = DOMAIN layout /\ DOMAIN lit = DOMAIN layout
    BY <1>1 DEF LayoutInv
  <2>6. /\ Settles(P, Playback') /\ DOMAIN lit' = DOMAIN layout
        /\ \A r \in DOMAIN layout : screen[r] # None =>
             \A o \in layout[r].members : lit'[r] = Dimmed(screen[r].energy, envelope'[o])
    BY <2>1, <2>2, <2>3, <2>4, <2>5, AdvanceLights
  <2>7. LayoutInv'
    BY <1>1, <2>5, <2>6, LayoutStays
  <2>8. Idle' /\ DOMAIN outputs' = DOMAIN outputs
    BY <1>1, <1>3 DEF Idle
  <2>9. ToldInv' /\ EnvelopeInv' /\ LightInv'
    BY <1>1, <1>3, <2>3, <2>6, <2>8, AdvancedKeeps
  <2> QED
    BY <2>7, <2>9 DEF PlaybackInv
<1>4. CASE ~(Idle /\ installed # None)
  <2>1. UNCHANGED <<authorities, stale, owned, envelope, nominated, forced, lit>> /\ Playback' = Playback
    BY <1>4 DEF Elapse, shutterVars, Playback
  <2>2. \A a : (Announced(a)' <=> Announced(a)) /\ Told_(a)' = Told_(a)
    BY <1>1, <2>1 DEF Announced, Idle, Told_
  <2>3. ToldInv'
    BY <1>1, <1>2, <2>1, <2>2 DEF ToldInv, Idle
  <2>4. LayoutInv'
    BY <1>1, <2>1, LayoutStays
  <2>5. LightInv'
    BY <1>1, <2>1 DEF LightInv
  <2>6. \A a \in DOMAIN authorities : Idle' \/ Unmoving(authorities[a].parameters.command) =>
          authorities[a].value = ShutterEnvelope(authorities[a].parameters, now')
    <3> SUFFICES ASSUME NEW a \in DOMAIN authorities, Idle' \/ Unmoving(authorities[a].parameters.command)
                 PROVE  authorities[a].value = ShutterEnvelope(authorities[a].parameters, now')
      OBVIOUS
    <3>1. installed # None
      BY <1>1 DEF EnvelopeInv
    <3>2. Unmoving(authorities[a].parameters.command)
      BY <1>1, <1>4, <3>1 DEF Idle
    <3> QED
      BY <1>1, <3>2, UnmovingStays DEF EnvelopeInv
  <2>7. \A o : Product(Playback, o)' = Product(Playback, o)
    BY <2>1 DEF Product
  <2>8. EnvelopeInv'
    BY <1>1, <1>2, <2>1, <2>6, <2>7 DEF EnvelopeInv
  <2> QED
    BY <2>3, <2>4, <2>5, <2>8 DEF PlaybackInv
<1> QED
  BY <1>3, <1>4

(* replace_renderer_bindings and the switch of the mode: every row is       *)
(* written and every output of a shutter is forced.                         *)
LEMMA ReplayLights ==
  ASSUME NoRowIsNone, RuntimeInv, HeldInv, PlaybackInv, NEW R, RendererFits(R), Replay(R)
  PROVE  PlaybackInv'
<1>1. /\ ToldInv /\ LayoutInv /\ EnvelopeInv /\ LightInv /\ Idle /\ installed # None
      /\ UNCHANGED <<todo, installed, held, visual, now>>
  BY DEF PlaybackInv, Replay, coreVars
<1>2. PICK S : S = Snapshot(<<>>, TRUE, R)
  OBVIOUS
<1>3. SnapshotFits(R, S, TRUE)
  BY <1>2, SnapshotIs
<1>4. \A r \in DOMAIN R.layout \ S.written : R.layout[r].members = {}
  BY <1>3 DEF SnapshotFits
<1>5. PICK B : B = Playback
  OBVIOUS
<1>6. KnowsHeld(B)
  BY <1>1, <1>5, PlaybackKnows
<1>7. PICK I : I = Nominate(B, DOMAIN outputs, TRUE)
  OBVIOUS
<1>8. KnowsHeld(I) /\ NominateSame(B, I)
  BY <1>6, <1>7, NominateKnows
<1>9. RowsLit(I, R, S)
  BY <1>4 DEF RowsLit
<1>10. PICK P : P = Published(I, S)
  OBVIOUS
<1>11. /\ KnowsHeld(P) /\ NominateSame(I, P) /\ DOMAIN Unmodulated(S) = DOMAIN R.layout
       /\ Lights(P, S.screen, S.layout, Unmodulated(S))
  BY <1>3, <1>8, <1>9, <1>10, PublishedLights
<1>12. Publish(S) /\ PlaybackBecomes(P) /\ lit' = Unmodulated(S)
  BY <1>2, <1>5, <1>7, <1>10 DEF Replay, PresentAgain
<1>13. LayoutInv' /\ DOMAIN outputs' = DOMAIN outputs
  <2>1. DOMAIN lit' = DOMAIN R.layout
    BY <1>11, <1>12
  <2> QED
    BY <1>1, <1>3, <1>12, <2>1, PublishedKeeps
<1>14. /\ authorities' = authorities /\ stale' = stale /\ owned' = owned /\ envelope' = envelope
       /\ nominated' = P.nominated /\ forced' = P.forced
  BY <1>5, <1>8, <1>11, <1>12 DEF NominateSame, Playback, PlaybackBecomes
<1>15. \A a : /\ Members(a)' = Members(a)
              /\ Announced(a)' <=> Announced(a)
  BY <1>1, <1>13 DEF Members, core, Announced, Idle
<1>16. ToldInv'
  <2>1. \A a : Told_(a)' = Told_(a)
    BY <1>14 DEF Told_, Known, Playback
  <2> QED
    BY <1>1, <1>14, <1>15, <2>1 DEF ToldInv, Idle
<1>17. EnvelopeInv'
  <2>1. \A o : Product(Playback, o)' = Product(Playback, o)
    BY <1>14 DEF Product, Playback
  <2>2. P.owned = owned
    BY <1>5, <1>8, <1>11 DEF NominateSame, Playback
  <2>3. P.nominated \subseteq {o \in DOMAIN outputs : owned[o] # {}} /\ P.forced \subseteq P.nominated
    BY <1>11, <2>2 DEF KnowsHeld
  <2> QED
    BY <1>1, <1>13, <1>14, <1>15, <2>1, <2>3 DEF EnvelopeInv, Idle
<1>18. LightInv'
  <2>1. layout' = S.layout /\ screen' = S.screen
    BY <1>12 DEF Publish
  <2>2. envelope' = P.envelope
    BY <1>12 DEF PlaybackBecomes
  <2> QED
    BY <1>11, <1>12, <1>14, <2>1, <2>2 DEF LightInv, Lights
<1> QED
  BY <1>13, <1>16, <1>17, <1>18 DEF PlaybackInv

(* Who is a member of an authority is settled by the installed scene.       *)
LEMMA MembersAre ==
  ASSUME NEW o, NEW a
  PROVE  (o \in Members(a))' <=> o \in DOMAIN outputs' /\ a \in AuthoritiesOver(installed', o)
<1>1. PICK c : c = Cores[installed']
  OBVIOUS
<1> DEFINE mine == {m \in DOMAIN c.authority : c.authority[m] = a}
<1>2. (o \in Members(a))' <=> o \in DOMAIN outputs' /\ \E l \in mine : o = l[1]
  BY <1>1 DEF Members, core
<1>3. a \in AuthoritiesOver(installed', o) <=> \E l \in DOMAIN c.authority : l[1] = o /\ a = c.authority[l]
  BY <1>1 DEF AuthoritiesOver
<1> QED
  BY <1>2, <1>3

(* Scenes whose rows are shuttered as one, in either mode of the renderer.  *)
ScenesShuttered == \A s \in DOMAIN Scenes : ShutteredAsOne(s)

(* The rows that are bound of a scene are shuttered as one.                 *)
LEMMA RowsBound ==
  ASSUME NEW s \in DOMAIN Scenes, ShutteredAsOne(s), installed' = s, DOMAIN outputs' = DOMAIN Bound[s].scale,
         NEW aggregating \in BOOLEAN
  PROVE  RowsFit(Bound[s].rows[aggregating])'
<1>1. PICK rows_ : rows_ = Bound[s].rows[aggregating]
  OBVIOUS
<1>2. /\ UNION {rows_[r].members : r \in DOMAIN rows_} = DOMAIN Bound[s].scale
      /\ \A q, r \in DOMAIN rows_ : q = r \/ rows_[q].members \cap rows_[r].members = {}
      /\ \A r \in DOMAIN rows_ : \A o, p \in rows_[r].members : AuthoritiesOver(s, o) = AuthoritiesOver(s, p)
  BY <1>1 DEF ShutteredAsOne
<1>3. \A r \in DOMAIN rows_ : rows_[r].members \subseteq DOMAIN outputs'
  BY <1>2
<1>4. \A r \in DOMAIN rows_ : \A o, p \in rows_[r].members : \A a : (o \in Members(a))' <=> (p \in Members(a))'
  BY <1>2, <1>3, MembersAre
<1> QED
  BY <1>1, <1>2, <1>4 DEF RowsFit

(* An empty table has no domain.                                            *)
LEMMA EmptyIs ==
  ASSUME NEW f, f = <<>>
  PROVE  DOMAIN f = {}
OBVIOUS

(* A playback that was bound anew to outputs without shutters.              *)
LEMMA BoundLights ==
  ASSUME Idle, UNCHANGED todo, held' = NothingHeld,
         NEW outputs_, NEW rows_, BindShutters(outputs_, DOMAIN rows_), DOMAIN outputs' = outputs_,
         layout' = rows_, \A r \in DOMAIN rows_ : screen'[r] = None
  PROVE  ToldInv' /\ EnvelopeInv' /\ LightInv'
<1>1. /\ authorities' = <<>> /\ stale' = {} /\ nominated' = {} /\ forced' = {}
      /\ owned' = [o \in outputs_ |-> {}] /\ envelope' = [o \in outputs_ |-> Unit]
  BY DEF BindShutters
<1>2. DOMAIN authorities' = {} /\ DOMAIN held'.shutter = {} /\ Idle'
  <2>1. held'.shutter = <<>>
    BY DEF NothingHeld
  <2> QED
    BY <1>1, <2>1, EmptyIs DEF Idle
<1>3. ToldInv'
  <2>1. \A a : ~Announced(a)'
    BY <1>2 DEF Announced
  <2> QED
    BY <1>2, <2>1 DEF ToldInv
<1>4. EnvelopeInv'
  <2>1. \A o \in DOMAIN outputs' : envelope'[o] = Product(Playback, o)'
    <3> TAKE o \in DOMAIN outputs'
    <3>1. PICK B : B = Playback'
      OBVIOUS
    <3>2. B.owned[o] = {}
      BY <1>1, <3>1 DEF Playback
    <3>3. Product(B, o) = Unit
      BY <3>2, NoShutters DEF Product
    <3> QED
      BY <1>1, <3>1, <3>3
  <2> QED
    BY <1>1, <1>2, <2>1 DEF EnvelopeInv
<1>5. LightInv'
  BY DEF LightInv
<1> QED
  BY <1>3, <1>4, <1>5

(* A load begins without shutters.                                          *)
LEMMA LoadLights ==
  ASSUME ScenesShuttered, NEW s \in DOMAIN Scenes, Load(s)
  PROVE  PlaybackInv'
<1>1. PICK bound : bound = Bound[s]
  OBVIOUS
<1>2. /\ Idle /\ installed' = s /\ held' = NothingHeld /\ UNCHANGED todo
      /\ Bind(bound) /\ BindShutters(DOMAIN bound.scale, DOMAIN bound.rows[TRUE])
  BY <1>1 DEF Load, LoadBound, Install, Cleared
<1>3. PICK rows_ : rows_ = bound.rows[TRUE]
  OBVIOUS
<1>4. /\ layout' = rows_ /\ DOMAIN outputs' = DOMAIN bound.scale /\ replay' = TRUE
      /\ DOMAIN rows' = DOMAIN rows_ /\ DOMAIN screen' = DOMAIN rows_ /\ DOMAIN lit' = DOMAIN rows_
      /\ \A r \in DOMAIN rows_ : screen'[r] = None
  BY <1>2, <1>3 DEF Bind, BindShutters
<1>5. ToldInv' /\ EnvelopeInv' /\ LightInv'
  BY <1>2, <1>3, <1>4, BoundLights
<1>6. \A aggregating \in BOOLEAN : RowsFit(Bound[s].rows[aggregating])'
  BY <1>1, <1>2, <1>4, RowsBound DEF ScenesShuttered
<1>7. RowsFit(layout)'
  <2>1. RowsFit(rows_)'
    BY <1>1, <1>3, <1>6
  <2> QED
    BY <1>4, <2>1 DEF RowsFit
<1>8. ASSUME NEW aggregating \in BOOLEAN PROVE RowsFit(Bound[installed].rows[aggregating])'
  <2>1. PICK new : new = Bound[s].rows[aggregating]
    OBVIOUS
  <2>2. RowsFit(new)' /\ new = Bound[installed'].rows[aggregating]
    BY <1>2, <1>6, <2>1
  <2> QED
    BY <2>2 DEF RowsFit
<1>9. LayoutInv'
  BY <1>1, <1>2, <1>4, <1>7, <1>8 DEF LayoutInv
<1> QED
  BY <1>5, <1>9 DEF PlaybackInv

(* An unload ends with none.                                                *)
LEMMA UnloadLights ==
  ASSUME Unload
  PROVE  PlaybackInv'
<1>1. PICK rows_ : rows_ = <<>>
  OBVIOUS
<1>2. DOMAIN rows_ = {}
  BY <1>1, EmptyIs
<1>3. /\ Idle /\ installed' = None /\ held' = NothingHeld /\ UNCHANGED todo
      /\ layout' = rows_ /\ outputs' = rows_ /\ replay' = FALSE /\ rows' = rows_ /\ screen' = rows_
      /\ BindShutters({}, {})
  BY <1>1 DEF Unload, Clear, Cleared, Unbind
<1>4. BindShutters({}, DOMAIN rows_)
  BY <1>2, <1>3
<1>5. DOMAIN outputs' = {}
  BY <1>2, <1>3
<1>6. ToldInv' /\ EnvelopeInv' /\ LightInv'
  BY <1>2, <1>3, <1>4, <1>5, BoundLights
<1>7. DOMAIN lit' = {}
  BY <1>3 DEF BindShutters
<1>8. RowsFit(layout)'
  BY <1>2, <1>3 DEF RowsFit
<1>9. LayoutInv'
  BY <1>2, <1>3, <1>7, <1>8 DEF LayoutInv
<1> QED
  BY <1>6, <1>9 DEF PlaybackInv

(* The first state has none.                                                *)
LEMMA InitLights == Init => PlaybackInv
<1> SUFFICES ASSUME Init PROVE PlaybackInv
  OBVIOUS
<1>1. PICK rows_ : rows_ = <<>>
  OBVIOUS
<1>2. DOMAIN rows_ = {}
  BY <1>1, EmptyIs
<1>3. /\ Idle /\ installed = None /\ held = NothingHeld
      /\ layout = rows_ /\ outputs = rows_ /\ replay = FALSE /\ rows = rows_ /\ screen = rows_
      /\ authorities = rows_ /\ stale = {} /\ owned = rows_ /\ envelope = rows_ /\ nominated = {} /\ forced = {}
      /\ lit = rows_
  BY <1>1 DEF Init, RuntimeInit, DenseInit, ShutterInit, Idle
<1>4. DOMAIN held.shutter = {}
  <2>1. held.shutter = rows_
    BY <1>1, <1>3 DEF NothingHeld
  <2> QED
    BY <1>2, <2>1
<1>5. ToldInv
  BY <1>2, <1>3, <1>4 DEF ToldInv, Announced
<1>6. LayoutInv
  BY <1>2, <1>3 DEF LayoutInv, RowsFit
<1>7. EnvelopeInv
  BY <1>2, <1>3 DEF EnvelopeInv
<1>8. LightInv
  BY <1>2, <1>3 DEF LightInv
<1> QED
  BY <1>5, <1>6, <1>7, <1>8 DEF PlaybackInv

(* A step that the playback does not see.                                   *)
LEMMA UnseenLights ==
  ASSUME PlaybackInv, UNCHANGED <<installed, held, now, denseVars, shutterVars>>,
         UNCHANGED <<todo, visual>> \/ (Idle /\ visual' = <<>>)
  PROVE  PlaybackInv'
<1>1. /\ ToldInv /\ LayoutInv /\ EnvelopeInv /\ LightInv
      /\ UNCHANGED <<layout, outputs, replay, rows, screen>>
      /\ UNCHANGED <<authorities, stale, owned, envelope, nominated, forced, lit>>
  BY DEF PlaybackInv, denseVars, shutterVars
<1>2. \A a : Members(a)' = Members(a) /\ Told_(a)' = Told_(a)
  BY <1>1 DEF Members, core, Told_, Known, Playback
<1>3. /\ Idle' => Idle
      /\ \A a : Announced(a)' <=> Announced(a)
      /\ \A k \in DOMAIN visual' : ~Idle' /\ k[1] = "shutter" => k = <<"shutter", k[2]>>
  <2>1. CASE UNCHANGED <<todo, visual>>
    BY <1>1, <2>1 DEF Announced, Idle, ToldInv
  <2>2. CASE Idle /\ visual' = <<>>
    <3>1. DOMAIN visual' = {}
      BY <2>2, EmptyIs
    <3> QED
      BY <2>2, <3>1 DEF Announced
  <2> QED
    BY <2>1, <2>2
<1>4. ToldInv'
  <2>1. ASSUME NEW a, Announced(a)'
        PROVE  /\ a \in DOMAIN held'.shutter /\ visual'[<<"shutter", a>>] = held'.shutter[a]
               /\ held'.shutter[a].revision > Told_(a)'.revision
    <3>1. Announced(a) /\ visual' = visual
      BY <1>3, <2>1 DEF Announced
    <3> QED
      BY <1>1, <1>2, <3>1 DEF ToldInv
  <2>2. ASSUME NEW a, Members(a)' # {}, ~Announced(a)'
        PROVE  /\ a \in DOMAIN held'.shutter <=> a \in DOMAIN authorities'
               /\ a \in DOMAIN authorities' => authorities'[a].parameters = held'.shutter[a]
    BY <1>1, <1>2, <1>3, <2>2 DEF ToldInv
  <2>3. \A a \in DOMAIN authorities' : Members(a)' # {} /\ authorities'[a].parameters.revision \in Nat
    BY <1>1, <1>2 DEF ToldInv
  <2> QED
    BY <1>3, <2>1, <2>2, <2>3 DEF ToldInv
<1>5. LayoutInv'
  BY <1>1, LayoutStays
<1>6. EnvelopeInv'
  <2>1. \A o : Product(Playback, o)' = Product(Playback, o)
    BY <1>1 DEF Product, Playback
  <2> QED
    BY <1>1, <1>2, <1>3, <2>1 DEF EnvelopeInv
<1>7. LightInv'
  BY <1>1 DEF LightInv
<1> QED
  BY <1>4, <1>5, <1>6, <1>7 DEF PlaybackInv

(* Every step keeps the invariant of the playback.                          *)
LEMMA PlaybackNext ==
  NoRowIsNone /\ ScenesShuttered /\ RuntimeInv /\ HeldInv /\ PlaybackInv /\ [Next]_vars => PlaybackInv'
<1> SUFFICES ASSUME NoRowIsNone, ScenesShuttered, RuntimeInv, HeldInv, PlaybackInv, [Next]_vars
             PROVE  PlaybackInv'
  OBVIOUS
<1>1. CASE \E s \in DOMAIN Scenes : Load(s)
  BY <1>1, LoadLights
<1>2. CASE Unload
  BY <1>2, UnloadLights
<1>3. CASE \/ \E u \in Universes : \E bytes \in Frames[u] : Receive(u, bytes)
           \/ Begin
           \/ UNCHANGED vars
  <2>1. /\ UNCHANGED <<installed, held, now, denseVars, shutterVars>>
        /\ UNCHANGED <<todo, visual>> \/ (Idle /\ visual' = <<>>)
    BY <1>3 DEF Receive, Submit, Begin, BeginConsume, vars, coreVars
  <2> QED
    BY <2>1, UnseenLights
<1>4. CASE \E u \in Universes : Consume(u)
  <2>1. PICK u \in Universes : ConsumeUniverse(u) /\ UNCHANGED <<denseVars, shutterVars>>
    BY <1>4 DEF Consume
  <2>2. /\ UNCHANGED <<authorities, stale, owned, envelope, nominated, forced, lit, installed, now>>
        /\ UNCHANGED <<layout, outputs, replay, rows, screen>>
        /\ ~Idle /\ ~Idle'
    BY <2>1, ConsumeAssumption DEF ConsumeUniverse, denseVars, shutterVars, Idle, RuntimeInv
  <2>3. ToldInv'
    BY <2>1, <2>2, ConsumeTells DEF PlaybackInv
  <2>4. LayoutInv'
    BY <2>2, LayoutStays DEF PlaybackInv
  <2>5. EnvelopeInv'
    <3>1. \A a : Members(a)' = Members(a)
      BY <2>2 DEF Members, core
    <3>2. \A o : Product(Playback, o)' = Product(Playback, o)
      BY <2>2 DEF Product, Playback
    <3> QED
      BY <2>2, <3>1, <3>2 DEF EnvelopeInv, PlaybackInv
  <2>6. LightInv'
    BY <2>2 DEF LightInv, PlaybackInv
  <2> QED
    BY <2>3, <2>4, <2>5, <2>6 DEF PlaybackInv
<1>5. CASE Show
  BY <1>5, ShowLights
<1>6. CASE Elapse
  BY <1>6, ElapseLights
<1>7. CASE (\E aggregating \in BOOLEAN : ReplaceRenderer(aggregating)) \/ SwitchMode
  <2>1. PICK R : R \in {NewRenderer(aggregating) : aggregating \in BOOLEAN} \cup {Invalidated} /\ Replay(R)
    BY <1>7 DEF ReplaceRenderer, SwitchMode
  <2>2. installed # None
    BY <2>1 DEF Replay
  <2>3. RendererFits(R)
    BY <2>1, <2>2, RendererKnown DEF PlaybackInv
  <2> QED
    BY <2>1, <2>3, ReplayLights
<1> QED
  BY <1>1, <1>2, <1>3, <1>4, <1>5, <1>6, <1>7 DEF Next

(* What the playback knows of the shutters, its envelopes and its beams     *)
(* (ShutterPlayback::ingest, tick and advance_shutters): the parameters are *)
(* those held or their row is on its way, an envelope is the product of its *)
(* authorities, and a beam shows it unless one of its outputs is forced.    *)
THEOREM PlaybackInvariant == NoRowIsNone /\ ScenesShuttered => (Spec => []PlaybackInv)
<1> SUFFICES ASSUME NoRowIsNone, ScenesShuttered PROVE Spec => []PlaybackInv
  OBVIOUS
<1>1. RuntimeInv /\ HeldInv /\ PlaybackInv /\ [Next]_vars => PlaybackInv'
  BY PlaybackNext
<1> QED
  BY <1>1, InitLights, RuntimeInvariant, HeldInvariant, PTL DEF Spec

(* What the invariant says of the beams.                                    *)
LEMMA LitIs ==
  ASSUME PlaybackInv
  PROVE  LitByShutter
<1> SUFFICES ASSUME Idle, installed # None, ~replay, stale = {}, nominated = {},
                    NEW r \in DOMAIN layout, NEW o \in layout[r].members
             PROVE  lit[r] = Dimmed(screen[r].energy, HeldShutter(o))
  BY DEF LitByShutter
<1>1. ToldInv /\ LayoutInv /\ EnvelopeInv /\ LightInv
  BY DEF PlaybackInv
<1>2. screen[r] # None /\ o \notin forced /\ o \in DOMAIN outputs
  BY <1>1 DEF LayoutInv, RowsFit, EnvelopeInv
<1>3. lit[r] = Dimmed(screen[r].energy, envelope[o])
  BY <1>1, <1>2 DEF LightInv
<1>4. \A a : ~Announced(a)
  BY DEF Announced
<1>5. owned[o] = HeldShutters(o)
  <2>1. \A a : Members(a) # {} => (a \in DOMAIN held.shutter <=> a \in DOMAIN authorities)
    BY <1>1, <1>4 DEF ToldInv
  <2>2. owned[o] = {a \in DOMAIN authorities : o \in Members(a)}
    BY <1>1, <1>2 DEF EnvelopeInv
  <2> QED
    BY <2>1, <2>2 DEF HeldShutters
<1>6. \A a \in owned[o] : authorities[a].value = ShutterEnvelope(held.shutter[a], now)
  <2>1. \A a \in owned[o] : a \in DOMAIN authorities /\ Members(a) # {}
    BY <1>1, <1>2 DEF EnvelopeInv
  <2>2. \A a \in owned[o] : authorities[a].parameters = held.shutter[a]
    BY <1>1, <1>4, <2>1 DEF ToldInv
  <2>3. \A a \in owned[o] : authorities[a].value = ShutterEnvelope(authorities[a].parameters, now)
    BY <1>1, <2>1 DEF EnvelopeInv
  <2> QED
    BY <2>2, <2>3
<1>7. [a \in owned[o] |-> authorities[a].value]
        = [a \in HeldShutters(o) |-> ShutterEnvelope(held.shutter[a], now)]
  BY <1>5, <1>6
<1>8. envelope[o] = HeldShutter(o)
  <2>1. Product(Playback, o) = ProductOf([a \in owned[o] |-> authorities[a].value])
    BY DEF Product, Playback
  <2> QED
    BY <1>1, <1>2, <1>7, <2>1 DEF EnvelopeInv, HeldShutter
<1> QED
  BY <1>3, <1>8

(* Once its shutters were advanced every beam has the intensity that the    *)
(* held shutters of each of its outputs ask for at this moment: no row,     *)
(* replay, renderer or clock step leaves a beam open or dark, whichever     *)
(* changed output of a row modulates it, in scenes whose rows are shuttered *)
(* as one.                                                                  *)
THEOREM AlwaysLitByShutter == NoRowIsNone /\ ScenesShuttered => (Spec => []LitByShutter)
<1> SUFFICES ASSUME NoRowIsNone, ScenesShuttered PROVE Spec => []LitByShutter
  OBVIOUS
<1>1. PlaybackInv => LitByShutter
  BY LitIs
<1> QED
  BY <1>1, PlaybackInvariant, PTL
=============================================================================
