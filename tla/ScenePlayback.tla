---------------------------- MODULE ScenePlayback ----------------------------
(***************************************************************************)
(* A scene from the DMX frames to the renderer, on the main thread: the    *)
(* visual runtime, the dense presentation and the shutter playback         *)
(* composed as in presentation_state_godot.cpp, load_scene.gd and          *)
(* dense_presentation_adapter.gd.                                          *)
(*                                                                         *)
(* A frame consumes the newest universes, presents the rows and advances   *)
(* the shutters. A load replaces scene and bindings; nothing is consumed   *)
(* while it lasts, so it is one step. Changing the renderer rebinds its    *)
(* rows and replays the held outputs.                                      *)
(***************************************************************************)
EXTENDS ShutterPlayback

vars == <<coreVars, denseVars, shutterVars>>

Init == RuntimeInit /\ DenseInit /\ ShutterInit

LoadBound(s, bound) ==
  /\ Install(s)
  /\ Bind(bound)
  /\ BindShutters(DOMAIN bound.scale, DOMAIN bound.rows[TRUE])
Load(s) == LoadBound(s, Bound[s])
Unload ==
  /\ Clear
  /\ Unbind
  /\ BindShutters({}, {})

Receive(u, bytes) == Submit(u, bytes) /\ UNCHANGED <<denseVars, shutterVars>>
Begin == BeginConsume /\ UNCHANGED <<denseVars, shutterVars>>
Consume(u) == ConsumeUniverse(u) /\ UNCHANGED <<denseVars, shutterVars>>

\* consume_runtime, then advance_temporal.
Present(snapshot, ingested) ==
  /\ Publish(snapshot)
  /\ Advance(Published(ingested, snapshot), snapshot.screen, layout, Unmodulated(snapshot))
Show ==
  /\ EndConsume
  /\ Present(Snapshot(visual, replay, Renderer), Ingest(Playback, visual))

\* Time passes; a frame without a consume still advances the shutters.
Elapse ==
  /\ Tick
  /\ IF Idle /\ installed # None THEN Advance(Playback, screen, layout, lit) ELSE UNCHANGED shutterVars
  /\ UNCHANGED denseVars

\* A replay of the held outputs on a new renderer or in another mode.
PresentAgain(snapshot) ==
  /\ Publish(snapshot)
  /\ PlaybackBecomes(Published(Nominate(Playback, DOMAIN outputs, TRUE), snapshot))
  /\ lit' = Unmodulated(snapshot)
Replay(renderer) ==
  /\ Idle /\ installed # None
  /\ PresentAgain(Snapshot(<<>>, TRUE, renderer))
  /\ UNCHANGED coreVars
ReplaceRenderer(aggregating) == Replay(NewRenderer(aggregating))
SwitchMode == Replay(Invalidated)

Next ==
  \/ \E s \in DOMAIN Scenes : Load(s)
  \/ Unload
  \/ \E u \in Universes : \E bytes \in Frames[u] : Receive(u, bytes)
  \/ Begin
  \/ \E u \in Universes : Consume(u)
  \/ Show
  \/ Elapse
  \/ \E aggregating \in BOOLEAN : ReplaceRenderer(aggregating)
  \/ SwitchMode

Spec == Init /\ [][Next]_vars

---------------------------------------------------------------------------
\* A scene whose renderer rows are shuttered as one: every output has one row
\* (RenderGroupProjection::install checks it), and the outputs of a row have
\* the same authorities, which compile_render_emitter_groups is to see to and
\* nothing checks later.
AuthoritiesOver(s, o) == {Cores[s].authority[l] : l \in {m \in DOMAIN Cores[s].authority : m[1] = o}}
ShutteredAsOne(s) ==
  \A aggregating \in BOOLEAN :
    LET Row_(r) == Bound[s].rows[aggregating][r].members
        all == DOMAIN Bound[s].rows[aggregating]
    IN /\ UNION {Row_(r) : r \in all} = DOMAIN Bound[s].scale
       /\ \A q, r \in all : q = r \/ Row_(q) \cap Row_(r) = {}
       /\ \A r \in all : \A o, p \in Row_(r) : AuthoritiesOver(s, o) = AuthoritiesOver(s, p)

---------------------------------------------------------------------------
(* Properties.                                                             *)

\* The state is made of the values the code can hold.
Light == [1..3 -> Nat]
Intensity == Nat \cup {None}
RowValue == [dimmer : 0..Unit, light : Light, angle : Nat, energy : Nat]
SceneTypeOK ==
  /\ installed \in DOMAIN Scenes \cup {None}
  /\ frame \in [Universes -> UNION {Frames[u] : u \in Universes} \cup {<<>>}]
  /\ pending \in SUBSET Universes /\ prepared \in BOOLEAN /\ replay \in BOOLEAN
  /\ Idle \/ todo \in SUBSET pending
  /\ now \in 0..MaxNow /\ submitted \in 0..MaxFrames
  /\ \A u \in Universes : DOMAIN cache[u] \subseteq (IF u \in DOMAIN Plans THEN Plans[u].sources ELSE {})
  /\ \A o \in DOMAIN outputs : outputs[o].dimmer \in 0..Unit /\ outputs[o].power \in Nat /\ outputs[o].light \in Light
  /\ DOMAIN outputs = UNION {layout[r].members : r \in DOMAIN layout}
  /\ DOMAIN contributed = DOMAIN outputs /\ DOMAIN owned = DOMAIN outputs /\ DOMAIN envelope = DOMAIN outputs
  /\ \A r \in DOMAIN layout : rows[r].energy \in Nat /\ rows[r].light \in Light
  /\ screen \in [DOMAIN layout -> RowValue \cup {None}]
  /\ lit \in [DOMAIN layout -> Intensity]
  /\ envelope \in [DOMAIN outputs -> 0..Unit]
  /\ stale \subseteq DOMAIN authorities /\ nominated \subseteq DOMAIN outputs /\ forced \subseteq nominated

\* The runtime computes what a full evaluation of every frame would: dirty
\* sets, cached values and prefetched inputs change nothing that is held or
\* emitted.
Full == INSTANCE FullEvaluation
ImplementsFullEvaluation == Full!Spec

\* What an output shows for the physical state the runtime holds.
HeldRow(parameter, section, o, routes) ==
  LET fitting == {p \in Range(core.properties) : /\ p.parameter = parameter /\ <<section, p.target, o>> \in routes
                                                  /\ p.id \in DOMAIN held.property}
      One(p) == Cooked(core, p, held.property[p.id])
  IN IF fitting = {} THEN NewOutput ELSE One(CHOOSE p \in fitting : TRUE)
HeldOutput(o, routes) ==
  LET Joint(intensity, optics) ==
        [dimmer |-> intensity.dimmer, power |-> intensity.power, angle |-> optics.angle,
         light |-> IF <<"color", o, o>> \in routes THEN Held(held.color, o, White) ELSE White]
  IN Joint(HeldRow("dimmer", "intensity", o, routes), HeldRow("zoom", "optics", o, routes))
HeldValues(bound) == Tabulated([o \in DOMAIN outputs |-> Values(HeldOutput(o, bound.routes), bound.scale[o])])

RowShows(row, shown, wanted) ==
  LET Sum(Part(_)) == FoldSet(LAMBDA o, sum : Part(Contribution(wanted[o])) + sum, 0, row.members)
  IN /\ shown # None
     /\ \A o \in row.members : shown.angle = wanted[o].angle
     /\ IF row.aggregated
        THEN /\ shown.energy = Sum(LAMBDA x : x.energy)
             /\ shown.energy > 0 =>
                  \A c \in 1..3 : shown.light[c] = (Sum(LAMBDA x : x.light[c]) * Unit) \div shown.energy
        ELSE shown = wanted[Min(row.members)]
ScreenShows(wanted) == \A r \in DOMAIN layout : RowShows(layout[r], screen[r], wanted)

\* After a frame the renderer shows the held physical state: no change is lost
\* between the emitted rows, the routes, the incremental sums of aggregates and
\* the suppression of equal rows, however often renderer, mode or scene were
\* replaced. An aggregate in a blackout keeps an earlier colour.
ScreenShowsHeldState == Idle /\ installed # None /\ ~replay => ScreenShows(HeldValues(Bound[installed]))

\* The share of an output's light that the shutters held by the runtime let
\* through now.
HeldShutters(o) == {a \in DOMAIN held.shutter : o \in Members(a)}
HeldShutter(o) == ProductOf([a \in HeldShutters(o) |-> ShutterEnvelope(held.shutter[a], now)])

\* Once its shutters were advanced every beam has the intensity that the held
\* shutters of each of its members ask for at this moment: no row, replay or
\* clock step leaves a beam open or dark, and no aggregate hides a member with
\* another shutter.
LitByShutter ==
  Idle /\ installed # None /\ ~replay /\ stale = {} /\ nominated = {} =>
    \A r \in DOMAIN layout : \A o \in layout[r].members :
      lit[r] = Dimmed(screen[r].energy, HeldShutter(o))

\* Beams that the control groups call equivalent are: whatever was received,
\* they hold the same values and the same shutter.
ControlGroupsAgree ==
  Idle /\ installed # None =>
    \A group \in Bound[installed].controls : \A o, p \in group :
      outputs[o] = outputs[p] /\ HeldShutter(o) = HeldShutter(p)

\* No jump: a gobo keeps its angle when its speed changes, unless its position
\* was changed, and a strobe keeps its phase when its rate changes.
RotationContinues(l) ==
  LET old == held.motion[l] new == held'.motion[l]
  IN \/ RotationAt(old, now') = RotationAt(new, now')
     \/ new.pos # None /\ (new.pos # old.pos \/ new.posDegrees # old.posDegrees \/ new.mode # old.mode)
ShutterContinues(l) ==
  LET old == held.shutter[l] new == held'.shutter[l]
  IN \/ new.command.function # old.command.function \/ new.command.wave # old.command.wave
     \/ /\ new.activation = old.activation
        /\ ShutterPhase(old, now') % Unit = ShutterPhase(new, now') % Unit
PhaseContinuity ==
  [][/\ \A l \in DOMAIN held.motion \cap DOMAIN held'.motion : RotationContinues(l)
     /\ \A l \in DOMAIN held.shutter \cap DOMAIN held'.shutter : ShutterContinues(l)]_vars

\* The documented exactness of physical outputs: an output is never further
\* from the held value than two values that count as equal.
OutputsStayExact ==
  Idle /\ installed # None /\ ~replay =>
    \A o \in DOMAIN outputs : NearlyEqual(outputs[o].dimmer, HeldOutput(o, Bound[installed].routes).dimmer)
=============================================================================
