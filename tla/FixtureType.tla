----------------------------- MODULE FixtureType -----------------------------
(***************************************************************************)
(* The compilation of one DMX mode of a fixture type                       *)
(* (native/src/gdtf_runtime/compiled_gdtf_fixture.cpp, mode_master.cpp,    *)
(* instance_dmx_routing.h, shutter_compilation.h, shutter_contract.h,      *)
(* gobo_motion_contract.cpp): from the parsed description to the channel   *)
(* programs of every geometry instance.  Pure operators, no state.         *)
(*                                                                         *)
(* A description d is a record: tops (the ids of its top-level geometries),*)
(* nodes (id -> geometry), emitters, filters, wheels and modes.  What the  *)
(* XML spells as text is a name, a number or None where it is absent; a    *)
(* node name Geometry_Attribute.Logical.Function is the tuple of its       *)
(* parts.  Letter case, blanks, diagnostics, malformed physical values and *)
(* SubPhysicalUnits other than a constant duration are left out.           *)
(***************************************************************************)
EXTENDS SceneInstall

Or(x, default) == IF x = None THEN default ELSE x
Numbered(s) == [i \in DOMAIN s |-> [number |-> i] @@ s[i]]
Position(s, Test(_)) == LET hits == {i \in DOMAIN s : Test(s[i])} IN IF hits = {} THEN 0 ELSE Min(hits)
\* The distinct elements of s in the order of their first occurrence.
Distinct(s) == FoldLeft(LAMBDA seen, x : IF x \in Range(seen) THEN seen ELSE Append(seen, x), <<>>, s)
\* The elements of s by their start, then by their number.
ByStart(s) == SortSeq(s, LAMBDA a, b : a.from < b.from \/ (a.from = b.from /\ a.number < b.number))

---------------------------------------------------------------------------
(* DMX values: a number, the bytes it is written for, byte shifting.       *)

ByteMax(bytes) == Radix^bytes - 1

\* convert_gdtf_dmx_value: a wider value loses its low bytes, a narrower one
\* is shifted or repeats its own bytes from the highest.
Convert(v, bytes) ==
  LET Digit(i) == (v.value \div Radix^(v.bytes - 1 - ((i - 1) % v.bytes))) % Radix
  IN IF v.bytes >= bytes THEN v.value \div Radix^(v.bytes - bytes)
     ELSE IF v.shift THEN v.value * Radix^(bytes - v.bytes)
     ELSE FoldLeft(LAMBDA value, i : (value * Radix) + Digit(i), 0, [i \in 1..bytes |-> i])
Parsed(v) == v # None /\ v.bytes \in 1..4 /\ v.value <= ByteMax(v.bytes)
\* None for an absent or a malformed value.
DmxValue(v, bytes) == IF Parsed(v) THEN Convert(v, bytes) ELSE None

---------------------------------------------------------------------------
(* What the attributes mean: the ones the instances use.                   *)

Semantics == [Dimmer |-> "dimmer", Pan |-> "pan", Tilt |-> "tilt", Zoom |-> "zoom",
              ColorAdd_R |-> "ColorAddRed", ColorAdd_G |-> "ColorAddGreen", ColorAdd_B |-> "ColorAddBlue",
              ColorAdd_W |-> "ColorAddWhite", ColorAdd_RY |-> "ColorAddAmber", ColorAdd_GY |-> "ColorAddLime",
              ColorSub_C |-> "ColorSubCyan", ColorSub_M |-> "ColorSubMagenta", ColorSub_Y |-> "ColorSubYellow",
              Cyan |-> "ColorSubCyan", Magenta |-> "ColorSubMagenta", Yellow |-> "ColorSubYellow", CTO |-> "CTO"]
Semantic(attribute) == IF attribute \in DOMAIN Semantics THEN Semantics[attribute] ELSE None

\* Gobo(n): selection, indexed position or rotation of wheel n. A kind that
\* is not scalar is recognized and not evaluated.
GoboKinds == [Gobo1 |-> [kind |-> "select", index |-> 1, scalar |-> TRUE],
              Gobo2 |-> [kind |-> "select", index |-> 2, scalar |-> TRUE],
              Gobo1Pos |-> [kind |-> "pos", index |-> 1, scalar |-> TRUE],
              Gobo2Pos |-> [kind |-> "pos", index |-> 2, scalar |-> TRUE],
              Gobo1PosRotate |-> [kind |-> "rotate", index |-> 1, scalar |-> TRUE],
              Gobo2PosRotate |-> [kind |-> "rotate", index |-> 2, scalar |-> TRUE],
              Gobo1SelectEffects |-> [kind |-> "effects", index |-> 1, scalar |-> FALSE],
              Gobo1WheelRandom |-> [kind |-> "random", index |-> 1, scalar |-> FALSE]]
IsGobo(attribute) == attribute \in DOMAIN GoboKinds

\* The families whose number follows their name.
WheelFamilies == [Color1 |-> "Color", Color2 |-> "Color", Color1WheelIndex |-> "Color1WheelIndex",
                  Gobo1 |-> "Gobo", Gobo2 |-> "Gobo", Gobo1Pos |-> "Gobo", Gobo2Pos |-> "Gobo",
                  Gobo1PosRotate |-> "Gobo", Gobo2PosRotate |-> "Gobo", Gobo1SelectEffects |-> "Gobo",
                  Gobo1WheelRandom |-> "Gobo", Prism1 |-> "Prism", AnimationWheel1 |-> "AnimationWheel"]
Family(attribute) == IF attribute \in DOMAIN WheelFamilies THEN WheelFamilies[attribute] ELSE attribute

ShutterWaves == [Shutter1 |-> [wave |-> "mode", index |-> 1], Shutter2 |-> [wave |-> "mode", index |-> 2],
                 Shutter1Strobe |-> [wave |-> "strobe", index |-> 1],
                 Shutter1Custom |-> [wave |-> "unsupported", index |-> 1],
                 StrobeFrequency |-> [wave |-> "frequency", index |-> 1],
                 StrobeDuration |-> [wave |-> "duration", index |-> 1],
                 StrobeModeShutter |-> [wave |-> "mode", index |-> 1],
                 StrobeModeStrobe |-> [wave |-> "strobe", index |-> 1],
                 StrobeModeCustom |-> [wave |-> "unsupported", index |-> 1],
                 StrobeRate |-> [wave |-> "unsupported", index |-> 1]]
IsShutter(attribute) == attribute \in DOMAIN ShutterWaves
StrobeModes == {"StrobeModeShutter", "StrobeModeStrobe", "StrobeModeCustom"}
\* shutter_label: only a plain label says which way the shutter goes.
ShutterLabel(label) == IF label \in {"open", "closed"} THEN label ELSE "unsupported"

---------------------------------------------------------------------------
(* The ranges of channel functions, sorted by their start. bytes is the    *)
(* width of the channel.                                                   *)

\* A function ends where it says, else before its successor, which need not
\* start later.
FunctionRange(functions, i, bytes) ==
  LET next == IF i < Len(functions) THEN DmxValue(functions[i + 1].start, bytes) ELSE None
  IN [from |-> functions[i].from,
      to |-> Or(DmxValue(functions[i].end, bytes), IF next \in {None, 0} THEN ByteMax(bytes) ELSE next - 1)]

\* shutter_function_range: before the next greater start; an equal start of
\* two unconditional functions or any malformed start is refused.
ShutterRange(functions, i, bytes) ==
  LET f == functions[i]
      malformed == \E g \in Range(functions) : g.start # None /\ ~Parsed(g.start)
      shared == \E j \in DOMAIN functions \ {i} : /\ functions[j].from = f.from
                                                  /\ f.master = None /\ functions[j].master = None
      bound == Min({ByteMax(bytes)} \cup {g.from - 1 : g \in {h \in Range(functions) : h.from > f.from}})
      to == IF f.end = None THEN bound ELSE DmxValue(f.end, bytes)
  IN IF malformed \/ shared THEN None
     ELSE IF to = None THEN None
     ELSE IF to \in f.from..bound THEN [from |-> f.from, to |-> to] ELSE None

---------------------------------------------------------------------------
(* Channel sets.                                                           *)

\* parse_wheel_channel_sets: the sets that name a slot of the wheel and start
\* within the function; sets of one start are all dropped.
WheelSets(sets, range, slots, bytes) ==
  LET starts == [i \in DOMAIN sets |-> [from |-> DmxValue(sets[i].start, bytes), number |-> i, slot |-> sets[i].slot]]
      good == ByStart(SelectSeq(starts, LAMBDA s : IF s.from = None THEN FALSE
                                                   ELSE Within(s.from, range) /\ s.slot \in 1..slots))
      Alone(i) == \A j \in DOMAIN good \ {i} : good[j].from # good[i].from
      Row(i) == [from |-> good[i].from, slot |-> good[i].slot,
                 to |-> IF i = Len(good) THEN range.to ELSE good[i + 1].from - 1]
  IN [k \in 1..Len(SelectSeq([i \in DOMAIN good |-> i], Alone)) |-> Row(SelectSeq([i \in DOMAIN good |-> i], Alone)[k])]

\* parse_shutter_sets: the sets cut to the function, the unnamed prefix before
\* the first; one bad set makes all of them invalid.
ShutterSets(sets, range, physical, bytes) ==
  LET starts == [i \in DOMAIN sets |->
                   [from |-> IF sets[i].start = None THEN 0 ELSE DmxValue(sets[i].start, bytes), number |-> i,
                    name |-> sets[i].name, pfrom |-> Or(sets[i].pfrom, physical.from), pto |-> Or(sets[i].pto, physical.to)]]
      valid == /\ \A s \in Range(starts) : IF s.from = None THEN FALSE ELSE s.from <= range.to
               /\ \A i, j \in DOMAIN starts : i # j => starts[i].from # starts[j].from
      sorted == ByStart(starts)
      ends == [i \in DOMAIN sorted |->
                 sorted[i] @@ [to |-> IF i = Len(sorted) THEN range.to ELSE sorted[i + 1].from - 1]]
      cut == [i \in DOMAIN ends |-> [ends[i] EXCEPT !.from = Max({@, range.from})]]
      rows == SelectSeq(cut, LAMBDA s : s.to >= range.from)
      last == rows[1].from - 1
      prefix == [from |-> range.from, to |-> last, name |-> None, number |-> 0, pfrom |-> physical.from,
                 pto |-> physical.from + (((physical.to - physical.from) * (last - range.from)) \div (range.to - range.from))]
  IN IF ~valid THEN [valid |-> FALSE, rows |-> <<>>]
     ELSE IF rows = <<>> THEN [valid |-> TRUE, rows |-> <<>>]
     ELSE [valid |-> TRUE, rows |-> (IF rows[1].from > range.from THEN <<prefix>> ELSE <<>>) \o rows]

---------------------------------------------------------------------------
(* Resources and wheels: 1, 2, ... in the order of the description, where  *)
(* an unnamed one uses its number up.                                      *)

\* 0 without a link, -1 for an unknown name.
Link(resources, name) ==
  IF name = None THEN 0
  ELSE LET at == Position(resources, LAMBDA r : r.name = name) IN IF at = 0 THEN -1 ELSE at

---------------------------------------------------------------------------
(* The programs of a mode, before its geometry is expanded.                *)

\* validate_channel_addresses: the bytes of every channel are 1 to Slots,
\* different and four at most, its break is numbered or Overwrite (0).
AddressesValid(mode) ==
  \A c \in Range(mode.channels) : c.offsets # None =>
    /\ Range(c.offsets) \subseteq 1..Slots /\ IsInjective(c.offsets)
    /\ Len(c.offsets) \in 1..4 /\ c.break >= 0

NodeOf(c) == <<c.geometry, c.logicals[1].attribute>>
Usable(c) == IF c.offsets = None \/ c.logicals = <<>> THEN FALSE ELSE c.logicals[1].attribute # None
\* The channels that get programs: the first of each node name.
ChannelsOf(mode) ==
  FoldLeft(LAMBDA kept, c : IF ~Usable(c) \/ \E k \in Range(kept) : NodeOf(k) = NodeOf(c) THEN kept ELSE Append(kept, c),
           <<>>, mode.channels)

\* A function whose start is malformed or absent starts at 0.
Functions(logical, bytes) ==
  ByStart([i \in DOMAIN logical.functions |->
             LET f == logical.functions[i]
             IN f @@ [from |-> Or(DmxValue(f.start, bytes), 0), number |-> i,
                      owner |-> Or(f.attribute, logical.attribute)]])
FunctionName(f) == IF f.name = None THEN <<f.owner, f.number>> ELSE <<f.name>>

RangeOf(functions, i, bytes) ==
  IF IsShutter(functions[i].owner) THEN ShutterRange(functions, i, bytes) ELSE FunctionRange(functions, i, bytes)
\* PhysicalTo counts only behind PhysicalFrom, except for shutters.
PhysicalRange(f) ==
  [from |-> Or(f.pfrom, 0), to |-> IF f.pfrom = None /\ ~IsShutter(f.owner) THEN Unit ELSE Or(f.pto, Unit)]

\* A function of a logical channel that begins within the previous one is
\* dropped unless it has its own ModeMaster; only the previous one is looked
\* at. A function of a known name counts as the previous one all the same.
Empty(f) == IF f.owner = None \/ f.range = None THEN TRUE ELSE f.range.to < f.range.from
KeptFunctions(functions) ==
  FoldLeft(LAMBDA done, f :
             IF Empty(f) THEN done
             ELSE IF f.range.from <= done.previous /\ f.master = None THEN done
             ELSE [previous |-> f.range.to, names |-> done.names \cup {FunctionName(f)},
                   kept |-> IF FunctionName(f) \in done.names THEN done.kept ELSE Append(done.kept, f)],
           [previous |-> -1, names |-> {}, kept |-> <<>>], functions).kept
Ranged(functions, bytes) == [i \in DOMAIN functions |-> [range |-> RangeOf(functions, i, bytes)] @@ functions[i]]

SetsOf(d, f, wheel, bytes) == IF wheel > 0 THEN WheelSets(f.sets, f.range, Len(d.wheels[wheel].slots), bytes) ELSE <<>>
RowsOf(f, bytes) ==
  IF IsShutter(f.owner) THEN ShutterSets(f.sets, f.range, PhysicalRange(f), bytes) ELSE [valid |-> TRUE, rows |-> <<>>]
ProgramOf(d, c, channel, logical, f, shutter) ==
  LET wheel == Link(d.wheels, f.wheel)
  IN [channel |-> channel, offsets |-> c.offsets, break |-> c.break, geometry |-> c.geometry, snap |-> logical.snap,
      attribute |-> f.owner, label |-> f.name, node |-> NodeOf(c) \o <<logical.attribute, FunctionName(f)>>,
      component |-> <<c.geometry, f.owner>>, from |-> f.range.from, to |-> f.range.to,
      pfrom |-> PhysicalRange(f).from, pto |-> PhysicalRange(f).to,
      emitter |-> Link(d.emitters, f.emitter), filter |-> Link(d.filters, f.filter),
      wheel |-> Max({wheel, 0}), reference |-> f.wheel # None, sets |-> SetsOf(d, f, wheel, Len(c.offsets)),
      rows |-> shutter.rows, rowsValid |-> shutter.valid, link |-> f.master, mfrom |-> f.mfrom, mto |-> f.mto]
ProgramsOfLogical(d, c, channel, logical) ==
  LET Programs1(kept) == [i \in DOMAIN kept |-> ProgramOf(d, c, channel, logical, kept[i], RowsOf(kept[i], Len(c.offsets)))]
  IN Programs1(KeptFunctions(Ranged(Functions(logical, Len(c.offsets)), Len(c.offsets))))
ProgramsOfChannels(d, channels) ==
  FlattenSeq([i \in DOMAIN channels |->
    FlattenSeq([j \in DOMAIN channels[i].logicals |-> ProgramsOfLogical(d, channels[i], <<<<>>, i>>, channels[i].logicals[j])])])
ProgramsOfMode(d, mode) == Numbered(ProgramsOfChannels(d, ChannelsOf(mode)))

---------------------------------------------------------------------------
(* ModeMaster links.                                                       *)

FirstProgram(programs, channel) == Position(programs, LAMBDA p : p.channel = channel)
ModeNodes(channels, programs) ==
  {[kind |-> "channel", path |-> NodeOf(channels[i]), channel |-> <<<<>>, i>>, program |-> FirstProgram(programs, <<<<>>, i>>),
    bytes |-> Len(channels[i].offsets)] : i \in DOMAIN channels}
  \cup {[kind |-> "function", path |-> p.node, channel |-> p.channel, program |-> p.number,
         bytes |-> Len(p.offsets)] : p \in Range(programs)}

NoCondition == [kind |-> "none", channel |-> None, master |-> 0, mfrom |-> 0, mto |-> 0, valid |-> TRUE]
InvalidCondition == [NoCondition EXCEPT !.kind = "invalid", !.valid = FALSE]
\* resolve_mode_master_condition: exactly one node of that name and a range in
\* the width of its channel, 0/1 where a bound is absent.
Condition(nodes, p) ==
  LET matches == {n \in nodes : n.path = p.link}
      node == CHOOSE n \in matches : TRUE
      Bounded(v) == IF v = None THEN 0 ELSE DmxValue(v, node.bytes)
      low == Bounded(p.mfrom)
      high == Bounded(p.mto)
  IN IF p.link = None THEN NoCondition
     ELSE IF Cardinality(matches) # 1 THEN InvalidCondition
     ELSE IF None \in {low, high} THEN InvalidCondition
     ELSE IF low > high THEN InvalidCondition
     ELSE [kind |-> node.kind, channel |-> node.channel, master |-> node.program, mfrom |-> low, mto |-> high,
           valid |-> TRUE]

---------------------------------------------------------------------------
(* The expansion over geometry instances.                                  *)

\* The routes below geometry id, in document order: its name, its path, the
\* path of the enclosing reference, that reference and their nesting. None
\* in the sequence refuses the mode: a cycle or an unknown target.
RECURSIVE Routes(_, _, _)
Routes(d, id, at) ==
  LET node == d.nodes[id]
      path == Append(at.path, node.name)
      target == SelectSeq(d.tops, LAMBDA top : d.nodes[top].name = node.target)
      below == [at EXCEPT !.path = path, !.above = @ \cup {id}]
  IN IF node.name = None THEN <<>>
     ELSE IF id \in at.above THEN <<None>>
     ELSE IF node.kind = "GeometryReference"
     THEN IF target = <<>> THEN <<None>>
          ELSE Routes(d, target[1], [below EXCEPT !.context = path, !.reference = id, !.depth = @ + 1])
     ELSE <<[name |-> node.name, id |-> id, path |-> path, context |-> at.context, reference |-> at.reference,
             depth |-> at.depth]>>
          \o FlattenSeq([i \in DOMAIN node.children |-> Routes(d, node.children[i], below)])
Top == [path |-> <<>>, context |-> <<>>, reference |-> None, depth |-> 0, above |-> {}]

AmbiguousTops(d) == \E i, j \in DOMAIN d.tops : i # j /\ d.nodes[d.tops[i]].name = d.nodes[d.tops[j]].name
AmbiguousRoutes(routes) ==
  \E i, j \in DOMAIN routes : i # j /\ (routes[i].path = routes[j].path
                                        \/ (routes[i].name = routes[j].name /\ routes[i].id # routes[j].id))

\* The numbered breaks that reach the geometries of a reference, in order, and
\* whether Overwrite does.
BreaksThrough(programs, routes, reference) ==
  LET names == {r.name : r \in {q \in Range(routes) : q.reference = reference}}
      breaks == {p.break : p \in {q \in Range(programs) : q.geometry \in names}}
  IN [numbered |-> SetToSortSeq(breaks \ {0}, <), overwritten |-> 0 \in breaks]
\* The Break child of the reference that program p is routed by: numbered
\* breaks in their order, Overwrite by the last. None where the children do
\* not match.
BreakChild(d, through, reference, p) ==
  LET children == d.nodes[reference].breaks
      count == Len(through.numbered) + (IF through.overwritten THEN 1 ELSE 0)
  IN IF Len(children) # count THEN None
     ELSE children[IF p.break = 0 THEN count ELSE Position(through.numbered, LAMBDA b : b = p.break)]
\* The copy of program p for a route, None where it cannot be routed. An
\* instance of a component is named by path and component, one of a channel by
\* context and channel.
Copy(d, programs, routes, p, r) ==
  LET moved == [p EXCEPT !.geometry = r.path, !.component = <<r.path, @>>, !.channel = <<r.context, @[2]>>]
      child == BreakChild(d, BreaksThrough(programs, routes, r.reference), r.reference, p)
      offsets == [i \in DOMAIN p.offsets |-> p.offsets[i] + child.offset - 1]
  IN IF r.depth > 1 \/ (r.reference = None /\ p.break = 0) THEN None
     ELSE IF r.reference = None THEN moved
     ELSE IF child = None THEN None
     ELSE IF \/ child.break \notin 1..255 \/ child.offset \notin 1..Slots
             \/ (p.break > 0 /\ child.break # p.break)
             \/ \E i \in DOMAIN offsets : offsets[i] > Slots THEN None
     ELSE [moved EXCEPT !.offsets = offsets, !.break = child.break]
Copies(d, programs, routes) ==
  FlattenSeq([i \in DOMAIN programs |->
    LET p == programs[i]
        mine == SelectSeq(routes, LAMBDA r : r.name = p.geometry)
    IN IF mine = <<>> THEN <<None>>
       ELSE [j \in DOMAIN mine |->
               LET copy == Copy(d, programs, routes, p, mine[j])
               IN IF copy = None THEN None ELSE copy @@ [original |-> i, context |-> mine[j].context]]])

\* As MasterInstance, for the first instance of all.
MutMasterInstance(copies, p) == Position(copies, LAMBDA c : c.original = p.condition.master)
\* The instance of the master that program p of the copies depends on: the
\* last of its own context, else the last outside every reference, 0 without.
MasterInstance(copies, p) ==
  LET same == {j \in DOMAIN copies : copies[j].original = p.condition.master /\ copies[j].context = p.context}
      outer == {j \in DOMAIN copies : copies[j].original = p.condition.master /\ copies[j].context = <<>>}
  IN Max(IF same # {} THEN same ELSE outer \cup {0})

\* Conditions name instances: master becomes the number of the copy, channel
\* its channel.
Conditioned(p) == p.condition.kind \notin {"none", "invalid"}
Remapped(copies) ==
  [i \in DOMAIN copies |->
     IF ~Conditioned(copies[i]) THEN copies[i]
     ELSE LET master == MasterInstance(copies, copies[i])
          IN [copies[i] EXCEPT !.condition.master = master, !.condition.channel = copies[master].channel]]

---------------------------------------------------------------------------
(* The compiled fixture type.                                              *)

Refused == [supported |-> FALSE, programs |-> <<>>]
\* Without any geometry tree the programs keep their identities.
Unrouted(programs) ==
  IF \E p \in Range(programs) : p.break = 0 THEN Refused
  ELSE [supported |-> TRUE,
        programs |-> [i \in DOMAIN programs |-> [programs[i] EXCEPT !.geometry = <<@>>]]]
RoutedCopies(copies) ==
  IF None \in Range(copies) THEN Refused
  ELSE IF \E c \in Range(copies) : Conditioned(c) /\ MasterInstance(copies, c) = 0 THEN Refused
  ELSE [supported |-> TRUE, programs |-> Numbered(Remapped(copies))]
Expanded(d, mode, programs) ==
  LET origin == SelectSeq(d.tops, LAMBDA top : d.nodes[top].name = mode.geometry)
      Along(routes) ==
        IF None \in Range(routes) THEN Refused
        ELSE IF AmbiguousRoutes(routes) THEN Refused
        ELSE RoutedCopies(Copies(d, programs, routes))
  IN IF AmbiguousTops(d) THEN Refused
     ELSE IF origin = <<>> THEN IF d.tops = <<>> THEN Unrouted(programs) ELSE Refused
     ELSE Along(Routes(d, origin[1], Top))

WithConditions(nodes, programs) == [i \in DOMAIN programs |-> [condition |-> Condition(nodes, programs[i])] @@ programs[i]]
CompiledType(d, mode) ==
  LET Of(programs) == Expanded(d, mode, WithConditions(ModeNodes(ChannelsOf(mode), programs), programs))
  IN IF AddressesValid(mode) THEN Of(ProgramsOfMode(d, mode)) ELSE Refused
=============================================================================
