-------------------------- MODULE DensePresentation --------------------------
(***************************************************************************)
(* The dense presentation state and its projection on the renderer's rows  *)
(* (native/src/presentation/dense_presentation_state.cpp,                  *)
(* render_group_projection.cpp, presentation_state_godot.cpp): the rows of *)
(* a visual frame fan out to the outputs they are routed to, changed       *)
(* outputs change the sums of their renderer row, and the rows that differ *)
(* are written to the renderer.                                            *)
(*                                                                         *)
(* An output is a beam. power stands for its beam, spot and material       *)
(* energies and its intensity, which are all proportional to it; light is  *)
(* chromaticity times gain. Bindings are generation-checked by the code; a *)
(* stale generation is AsyncPresentation's subject.                        *)
(***************************************************************************)
EXTENDS VisualRuntime, RenderGroups

\* DensePresentationState::install refuses other ids.
ASSUME BeamsAssumption == \A s \in DOMAIN Scenes : \A b \in Range(Scenes[s].beams) : b.id \in Nat \ {0}

\* What is bound of each scene.
BoundOf(scene, groups) ==
  [routes |-> Routes(scene), controls |-> ControlGroups(scene),
   scale |-> Tabulated([o \in Beams(scene) |-> FirstOf(scene.beams, LAMBDA b : b.id = o).scale]),
   rows |-> Tabulated([aggregating \in BOOLEAN |-> RenderRows(scene, IF aggregating THEN groups ELSE {})])]
Bound == Tabulated([s \in DOMAIN Scenes |-> BoundOf(Scenes[s], Aggregates(Scenes[s]))])

VARIABLES
  layout,    \* the installed renderer rows
  outputs,   \* OutputState by output
  replay,    \* every output is dirty with VisualChangeBeamTopology
  contributed,   \* last contribution of each output to its row
  rows,      \* accumulators of the renderer rows
  screen     \* held_renderer_: the last values written by row, None before

denseVars == <<layout, outputs, replay, contributed, rows, screen>>

NewOutput == [dimmer |-> 0, power |-> 0, light |-> White, angle |-> (25 * Turn) \div 360]
NoMember == [valid |-> FALSE, light |-> Dark, energy |-> 0]
NewRow == [light |-> Dark, energy |-> 0, committed |-> FALSE, previous |-> None]

DenseInit == layout = <<>> /\ outputs = <<>> /\ replay = FALSE /\ contributed = <<>> /\ rows = <<>> /\ screen = <<>>

\* install, install_render_rows.
Bind(bound) ==
  /\ layout' = bound.rows[TRUE]
  /\ outputs' = [o \in DOMAIN bound.scale |-> NewOutput]
  /\ replay' = TRUE
  /\ contributed' = [o \in DOMAIN bound.scale |-> NoMember]
  /\ rows' = [r \in DOMAIN bound.rows[TRUE] |-> NewRow]
  /\ screen' = [r \in DOMAIN bound.rows[TRUE] |-> None]
Unbind ==
  /\ layout' = <<>> /\ outputs' = <<>> /\ replay' = FALSE /\ contributed' = <<>> /\ rows' = <<>> /\ screen' = <<>>

---------------------------------------------------------------------------
\* compose_sections: every output takes the values of the row routed to it.
Sections == {"intensity", "color", "optics"}
Routed(bound, visual_, section, o) ==
  LET routed == {k \in DOMAIN visual_ : k[1] = section /\ <<section, k[2], o>> \in bound.routes}
  IN IF routed = {} THEN None ELSE visual_[CHOOSE k \in routed : TRUE]
RoutedTo(bound, visual_) ==
  [o \in DOMAIN outputs |-> [section \in Sections |-> Routed(bound, visual_, section, o)]]
Fed(old, row) ==
  [dimmer |-> IF row["intensity"] = None THEN old.dimmer ELSE row["intensity"].dimmer,
   power |-> IF row["intensity"] = None THEN old.power ELSE row["intensity"].power,
   light |-> IF row["color"] = None THEN old.light ELSE row["color"].light,
   angle |-> IF row["optics"] = None THEN old.angle ELSE row["optics"].angle]
Touched(routed) == {o \in DOMAIN routed : \E section \in Sections : routed[o][section] # None}

\* render_values.
Values(output, scale) ==
  [dimmer |-> output.dimmer, light |-> output.light, angle |-> output.angle,
   energy |-> (((output.power * Gain(output.light)) \div Unit) * scale) \div Unit]
\* What an output adds to its row: its chromaticity times its energy.
Contribution(values) ==
  [valid |-> TRUE, energy |-> values.energy, values |-> values,
   light |-> IF Gain(values.light) = 0 THEN Dark
             ELSE [c \in 1..3 |-> (values.light[c] * values.energy) \div Gain(values.light)]]

\* An aggregate shows the mixed colour at full gain, the colour of before in a
\* blackout, white before the first, and the angle of its lowest member.
Mixed(row, values) ==
  [dimmer |-> IF row.energy > 0 THEN Unit ELSE 0,
   light |-> IF row.energy > 0 THEN [c \in 1..3 |-> (row.light[c] * Unit) \div row.energy]
             ELSE IF row.committed THEN row.previous.light ELSE White,
   angle |-> values.angle, energy |-> row.energy]

---------------------------------------------------------------------------
(* The projection. renderer is the state of the rows; values and           *)
(* contribution are those of the outputs in this snapshot.                 *)

Renderer == [layout |-> layout, members |-> contributed, rows |-> rows, screen |-> screen]
\* A renderer of other rows, that draws aggregates or does not.
RendererOf(new) ==
  [layout |-> new, members |-> [o \in DOMAIN contributed |-> NoMember],
   rows |-> [r \in DOMAIN new |-> NewRow], screen |-> [r \in DOMAIN new |-> None]]
NewRenderer(aggregating) == RendererOf(Bound[installed].rows[aggregating])
\* RenderGroupProjection::invalidate.
Invalidated == [Renderer EXCEPT !.rows = [r \in DOMAIN @ |-> [@[r] EXCEPT !.committed = FALSE]]]

RowOf(renderer, o) == CHOOSE r \in DOMAIN renderer.layout : o \in renderer.layout[r].members

\* The dirty outputs that contribute anew.
Changed(renderer, dirty, replaying, values) ==
  {o \in dirty : \/ ~renderer.members[o].valid
                 \/ renderer.members[o].values # values[o]
                 \/ ~renderer.rows[RowOf(renderer, o)].committed
                 \/ replaying}
\* As Accumulated, without the old contribution.
MutAccumulated(renderer, r, changed, contribution) ==
  LET Replace(o, sum) ==
        [sum EXCEPT !.energy = @ + contribution[o].energy, !.light = [c \in 1..3 |-> @[c] + contribution[o].light[c]]]
  IN IF renderer.layout[r].aggregated
     THEN FoldSet(Replace, renderer.rows[r], changed \cap renderer.layout[r].members)
     ELSE renderer.rows[r]
\* The accumulator of row r when the outputs changed contribute anew.
Accumulated(renderer, r, changed, contribution) ==
  LET Replace(o, sum) ==
        [sum EXCEPT !.energy = @ + contribution[o].energy - renderer.members[o].energy,
                    !.light = [c \in 1..3 |-> @[c] + contribution[o].light[c] - renderer.members[o].light[c]]]
  IN IF renderer.layout[r].aggregated
     THEN FoldSet(Replace, renderer.rows[r], changed \cap renderer.layout[r].members)
     ELSE renderer.rows[r]
\* A row shows its only output, or the mix of its outputs.
RowValues(renderer, r, accumulated, values) ==
  LET representative == values[Min(renderer.layout[r].members)]
  IN IF renderer.layout[r].aggregated THEN Mixed(accumulated, representative) ELSE representative
Differs(renderer, r, changed, next) ==
  \/ ~renderer.rows[r].committed
  \/ renderer.rows[r].previous # next
  \/ \E o \in changed \cap renderer.layout[r].members : ~renderer.members[o].valid

\* prepare: what the changed outputs, contributing anew, make of the renderer.
Committed(row, next) == [row EXCEPT !.committed = TRUE, !.previous = next]
Written(renderer, replaying, changed, next) ==
  {r \in {RowOf(renderer, o) : o \in changed} : replaying \/ Differs(renderer, r, changed, next[r])}
Rendered(renderer, fed, contribution, sum, next, written) ==
  [outputs |-> fed, written |-> written, layout |-> renderer.layout,
   members |-> contribution @@ renderer.members,
   rows |-> [r \in DOMAIN sum |-> IF r \in written THEN Committed(sum[r], next[r]) ELSE sum[r]],
   screen |-> [r \in DOMAIN sum |-> IF r \in written THEN next[r] ELSE renderer.screen[r]]]
Prepare(renderer, replaying, fed, values, changed) ==
  LET Shown(contribution, sum, next) ==
        Rendered(renderer, fed, contribution, sum, next, Written(renderer, replaying, changed, next))
      Summed(contribution, sum) ==
        Shown(contribution, sum, Tabulated([r \in DOMAIN sum |-> RowValues(renderer, r, sum[r], values)]))
      Contributed(contribution) ==
        Summed(contribution,
               Tabulated([r \in DOMAIN renderer.rows |-> Accumulated(renderer, r, changed, contribution)]))
  IN Contributed(Tabulated([o \in changed |-> Contribution(values[o])]))

\* A snapshot: compose_sections of the rows visual_, prepare and publish.
Snapshot(visual_, replaying, renderer) ==
  LET Composed_(routed, fed, values) ==
        Prepare(renderer, replaying, fed, values,
                Changed(renderer, IF replaying THEN DOMAIN outputs ELSE Touched(routed), replaying, values))
      Valued(routed, fed) ==
        Composed_(routed, fed, Tabulated([o \in DOMAIN fed |-> Values(fed[o], Bound[installed].scale[o])]))
      Fanned(routed) == Valued(routed, Tabulated([o \in DOMAIN outputs |-> Fed(outputs[o], routed[o])]))
  IN Fanned(RoutedTo(Bound[installed], visual_))
Publish(snapshot) ==
  /\ layout' = snapshot.layout /\ outputs' = snapshot.outputs /\ replay' = FALSE
  /\ contributed' = snapshot.members /\ rows' = snapshot.rows /\ screen' = snapshot.screen
=============================================================================
