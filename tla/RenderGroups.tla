---------------------------- MODULE RenderGroups ----------------------------
(***************************************************************************)
(* Which beams of a compiled scene are presented together                  *)
(* (native/src/presentation/control_groups.cpp, render_emitter_groups.cpp, *)
(* wheel_presentation_eligibility.cpp, setup_index.h and                   *)
(* scripts/runtime/render_emitter_bindings.gd): a proof from the static    *)
(* programs that several beams share their controls, or that several       *)
(* close, parallel beams may be drawn as one.                              *)
(*                                                                         *)
(* A beam names its geometry as the path from the root. anchor stands for  *)
(* its mechanical lineage, optics for what else of the optical profile     *)
(* must agree; lengths are integers, place is the position across and      *)
(* along the common direction. Reasons for a rejection are left out.       *)
(***************************************************************************)
EXTENDS SceneInstall

CONSTANTS
  MinimumMembers,     \* AggregationPolicy::minimum_members, 3
  MinimumPacking,     \* minimum_packing_density in percent, 45
  DirectionSpread,    \* maximum_direction_spread_degrees
  AngleDifference,    \* maximum_angle_difference_degrees
  RadiusRatio         \* maximum_radius_ratio, 12

ASSUME PolicyAssumption ==
  /\ MinimumMembers \in Nat \ {0} /\ MinimumPacking \in Nat /\ RadiusRatio \in Nat
  /\ DirectionSpread \in Nat /\ AngleDifference \in Nat

---------------------------------------------------------------------------
(* What controls a beam.                                                   *)

Controls(ancestor, path) == ancestor # <<>> /\ IsPrefix(ancestor, path)
ControlledBy(scene, beam, parameter) ==
  SelectSeq(scene.properties, LAMBDA p : p.fixture = beam.fixture /\ p.parameter = parameter /\ Controls(p.geometry, beam.geometry))
Ids(s) == [i \in DOMAIN s |-> s[i].id]
ColorsOver(scene, beam) == SelectSeq(scene.colors, LAMBDA t : t.target = beam.id /\ t.fixture = beam.fixture)

\* Bindings without an owner count for every beam.
Over(b, beam) == b.fixture \in {0, beam.fixture} /\ b.target \in {0, beam.id}
HasProjector(scene, beam) == \E b \in Range(scene.gobos) \cup Range(scene.motions) : Over(b, beam)
WheelsOver(scene, beam) == SelectSeq(scene.wheels, LAMBDA b : Over(b, beam))

ShutterAuthority(scene, beam) ==
  LET mine == SelectSeq(scene.shutters, LAMBDA b : b.target = beam.id)
      signatures == [i \in DOMAIN mine |-> Signature(mine[i])]
  IN {<<s, Cardinality({i \in DOMAIN signatures : signatures[i] = s})>> : s \in Range(signatures)}

---------------------------------------------------------------------------
(* Colour wheels that present a uniform, unambiguous colour.               *)

ProvenSource(scene, id) ==
  LET hits == SelectSeq(scene.programs, LAMBDA p : p.id = id)
      p == hits[1]
  IN /\ Len(hits) = 1
     /\ p.valid /\ Len(p.bytes) \in 1..4 /\ p.from <= p.to
     /\ \A b \in Range(p.bytes) : b.universe = UniverseOfBytes(p) /\ b.address \in 0..(Slots - 1)
     /\ p.kind = "none" \/ (\E q \in Range(scene.programs) : q.id = p.master)
ProvenPalette(slots) ==
  /\ slots # <<>>
  /\ \A i \in DOMAIN slots : slots[i].uniform /\ slots[i].slot > 0
  /\ \A i, j \in DOMAIN slots : slots[i].slot = slots[j].slot => i = j

Disjoint(a, b) == a.from > b.to \/ a.to < b.from
DisjointRanges(sets) == \A i, j \in DOMAIN sets : i = j \/ Disjoint(sets[i], sets[j])
SupportedWheel(scene, b) ==
  /\ b.fixture > 0 /\ b.target > 0 /\ b.id > 0 /\ b.wheel > 0
  /\ ProvenSource(scene, b.source)
  /\ b.wheel \in DOMAIN scene.palettes /\ ProvenPalette(scene.palettes[b.wheel])
  /\ b.mode = "select" => b.sets # <<>>
  /\ \A s \in Range(b.sets) : /\ s.from <= s.to
                              /\ s.slot \in {x.slot : x \in Range(scene.palettes[b.wheel])}
  /\ DisjointRanges(b.sets)
\* Bindings of one wheel read the same bytes, in ranges that exclude each other.
SupportedWheels(scene, beam) ==
  LET wheels == WheelsOver(scene, beam)
      Program(i) == FirstOf(scene.programs, LAMBDA p : p.id = wheels[i].source)
  IN /\ beam.palette
     /\ \A i \in DOMAIN wheels : SupportedWheel(scene, wheels[i])
     /\ \A i, j \in DOMAIN wheels :
          i # j => /\ wheels[i].id # wheels[j].id
                   /\ wheels[i].wheel = wheels[j].wheel =>
                        Program(i).bytes = Program(j).bytes /\ Disjoint(Program(i), Program(j))

---------------------------------------------------------------------------
(* analyze_control_groups: beams with one signature share every control.   *)

Projected(beam) == beam.valid /\ beam.projected /\ beam.kind \in {"Wash", "Spot"}
ValidActivation(scene, inputs) ==
  \A i \in Range(inputs) : LET p == FirstOf(scene.programs, LAMBDA q : q.id = i.source)
                           IN IF p = None THEN FALSE ELSE p.valid
Groupable(scene, beam) ==
  LET dimmers == ControlledBy(scene, beam, "dimmer")
      zooms == ControlledBy(scene, beam, "zoom")
      colors == ColorsOver(scene, beam)
  IN /\ Projected(beam) /\ ~HasProjector(scene, beam) /\ SupportedWheels(scene, beam)
     /\ Len(dimmers) = 1 /\ Len(zooms) <= 1 /\ Len(colors) <= 1
     /\ \A p \in Range(dimmers) \cup Range(zooms) : p.inputs # <<>> /\ ValidActivation(scene, p.inputs)
     /\ \A t \in Range(colors) : ValidActivation(scene, t.inputs)

\* As ControlSignature, without the colour.
MutControlSignature(scene, beam) ==
  LET wheels == WheelsOver(scene, beam)
  IN [fixture |-> beam.fixture,
      dimmer |-> Ids(ControlledBy(scene, beam, "dimmer")), zoom |-> Ids(ControlledBy(scene, beam, "zoom")),
      shutters |-> ShutterAuthority(scene, beam),
      wheels |-> [i \in DOMAIN wheels |-> <<wheels[i].wheel, wheels[i].source, wheels[i].mode, wheels[i].offset, wheels[i].sets>>],
      optics |-> <<beam.kind, beam.optics, beam.angle, beam.radius, beam.flux, beam.scale>>]
ControlSignature(scene, beam) ==
  LET wheels == WheelsOver(scene, beam)
      colors == ColorsOver(scene, beam)
  IN [fixture |-> beam.fixture,
      dimmer |-> Ids(ControlledBy(scene, beam, "dimmer")), zoom |-> Ids(ControlledBy(scene, beam, "zoom")),
      color |-> [i \in DOMAIN colors |-> colors[i].inputs], additive |-> [i \in DOMAIN colors |-> colors[i].additive],
      shutters |-> ShutterAuthority(scene, beam),
      wheels |-> [i \in DOMAIN wheels |-> <<wheels[i].wheel, wheels[i].source, wheels[i].mode, wheels[i].offset, wheels[i].sets>>],
      optics |-> <<beam.kind, beam.optics, beam.angle, beam.radius, beam.flux, beam.scale>>]

\* Sets of beams; a beam that is not groupable is alone.
ControlGroups(scene) ==
  {{c.id : c \in {d \in Range(scene.beams) :
      d = b \/ (/\ Groupable(scene, b) /\ Groupable(scene, d)
                /\ ControlSignature(scene, d) = ControlSignature(scene, b))}} : b \in Range(scene.beams)}

---------------------------------------------------------------------------
(* compile_render_emitter_groups: close parallel beams of one lineage.     *)

Reliable(scene, beam) ==
  /\ beam.anchor # None /\ beam.rigid
  /\ Projected(beam) /\ beam.radius > 0 /\ beam.flux > 0
  /\ ~HasProjector(scene, beam) /\ SupportedWheels(scene, beam)
Compatible(scene, a, b) ==
  /\ Reliable(scene, a) /\ Reliable(scene, b)
  /\ a.fixture = b.fixture /\ a.anchor = b.anchor /\ a.kind = b.kind /\ a.optics = b.optics
  /\ a.angle - b.angle \in -AngleDifference..AngleDifference
  /\ a.direction - b.direction \in -DirectionSpread..DirectionSpread
  /\ ShutterAuthority(scene, a) = ShutterAuthority(scene, b)
  /\ Ids(ControlledBy(scene, a, "zoom")) = Ids(ControlledBy(scene, b, "zoom"))

\* A beam joins the first candidate all of whose members it fits.
Candidates(scene) ==
  LET Join(candidates, beam) ==
        LET fits == {k \in DOMAIN candidates : \A m \in Range(candidates[k]) : Compatible(scene, m, beam)}
        IN IF ~Reliable(scene, beam) \/ fits = {} THEN Append(candidates, <<beam>>)
           ELSE [candidates EXCEPT ![Min(fits)] = Append(@, beam)]
  IN FoldLeft(Join, <<>>, scene.beams)

Total(members, Value(_)) == FoldLeft(LAMBDA sum, b : sum + Value(b), 0, members)
Distance(x, y) == Max({x - y, y - x})
Compact(members) ==
  LET flux == Total(members, LAMBDA b : b.flux)
      across == Total(members, LAMBDA b : b.across * b.flux) \div flux
      along == Total(members, LAMBDA b : b.along * b.flux) \div flux
      largest == Max({b.radius : b \in Range(members)})
      reach == Max({Distance(b.across, across) + b.radius : b \in Range(members)})
  IN /\ Len(members) >= MinimumMembers
     /\ 100 * Total(members, LAMBDA b : b.radius * b.radius) >= MinimumPacking * reach * reach
     /\ reach <= largest * RadiusRatio
     /\ \A b \in Range(members) : Distance(b.along, along) <= largest

\* The aggregates, each the set of its beams.
Aggregates(scene) ==
  {{b.id : b \in Range(members)} : members \in {m \in Range(Candidates(scene)) : Reliable(scene, m[1]) /\ Compact(m)}}

---------------------------------------------------------------------------
(* The rows of the renderer: the aggregates first, if the renderer draws   *)
(* them, then the other outputs one by one.                                *)

Beams(scene) == {b.id : b \in Range(scene.beams)}
Row(members, aggregated) == [members |-> members, aggregated |-> aggregated]
RowsOf(groups, single) ==
  LET Lowest(a, b) == Min(a) < Min(b)
  IN [i \in 1..Cardinality(groups) |-> Row(SetToSortSeq(groups, Lowest)[i], TRUE)]
     \o [i \in 1..Cardinality(single) |-> Row({SetToSortSeq(single, <)[i]}, FALSE)]
RenderRows(scene, groups) == RowsOf(groups, Beams(scene) \ UNION groups)

\* Routes of the dense state: the beams below the geometry of a Dimmer or Zoom
\* and the beam of a colour target. One target of a section for an output.
Steered(scene, p) ==
  {b \in Range(scene.beams) : p.fixture = b.fixture /\ Controls(p.geometry, b.geometry)}
Routes(scene) ==
  UNION {{<<IF p.parameter = "dimmer" THEN "intensity" ELSE "optics", p.target, b.id>> : b \in Steered(scene, p)} :
           p \in {q \in Range(scene.properties) : q.parameter \in {"dimmer", "zoom"}}}
  \cup {<<"color", t.target, t.target>> : t \in {c \in Range(scene.colors) : c.target \in Beams(scene)}}
=============================================================================
