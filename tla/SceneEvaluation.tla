-------------------------- MODULE SceneEvaluation --------------------------
(***************************************************************************)
(* What a compiled scene's programs compute from DMX values                *)
(* (native/src/runtime/visual_runtime_evaluation.cpp,                      *)
(* gobo_motion_evaluator.cpp, the kernels of peraviz_visual_runtime.cpp    *)
(* and visual_runtime_shutter.cpp): pure operators, no state.              *)
(*                                                                         *)
(* Numbers. A byte is a digit below Radix. Normalized values, lights and   *)
(* physical values are integers in 1/Unit (float and double in the code,   *)
(* so a product rounds here too, elsewhere). A light is its three absolute *)
(* linear components: the code's sRGB colour plus gain encodes the same    *)
(* triple. CIE, colour temperature and tint inputs are left out.           *)
(*                                                                         *)
(* raw is the function from the installed source programs of a universe to *)
(* their raw values.                                                       *)
(***************************************************************************)
EXTENDS Integers, Sequences, SequencesExt

CONSTANTS
  Radix,     \* values of a byte, 256 in the code
  Unit,      \* 1.0
  Turn,      \* 360 degrees, in 1/Unit degrees
  Epsilon,   \* kDefaultEpsilon and kAngleEpsilon: closer values count as equal
  None       \* no slot, no binding, no value

ASSUME NumberAssumption == Radix \in Nat \ {0, 1} /\ Unit \in Nat \ {0} /\ Turn \in Nat \ {0}
                             /\ Epsilon \in Nat
\* No number stands for nothing: ids are positive in the code.
ASSUME NoneAssumption == None \notin Int

Clamp(x, low, high) == IF x < low THEN low ELSE IF x > high THEN high ELSE x
NearlyEqual(x, y) == x = y \/ x - y \in -Epsilon..Epsilon
Within(x, range) == range.from <= x /\ x <= range.to
\* The elements of s that satisfy Test, at their places; and the first of
\* them, None without one.
Where(s, Test(_)) == [i \in {j \in DOMAIN s : Test(s[j])} |-> s[i]]
FirstOf(s, Test(_)) ==
  LET hits == {i \in DOMAIN s : Test(s[i])} IN IF hits = {} THEN None ELSE s[Min(hits)]
\* What s has at its last place.
Latest(s) == s[Max(DOMAIN s)]

\* f itself: to compare a function, TLC computes it as a table, once.
Tabulated(f) == CHOOSE table \in {f} : table = f
\* f where it is defined, g elsewhere.
Overlaid(f, g) == Tabulated([x \in DOMAIN f \cup DOMAIN g |-> IF x \in DOMAIN f THEN f[x] ELSE g[x]])

---------------------------------------------------------------------------
(* Source programs: ordered bytes, a DMX range and the physical range.     *)

Ordered(bytes) == SortSeq(bytes, LAMBDA a, b : a.order < b.order)
ByteAt(frame, address) == IF address \in 0..(Len(frame) - 1) THEN frame[address + 1] ELSE 0
AddressesOf(p) == {p.bytes[i].address : i \in DOMAIN p.bytes}
\* One to four bytes, most significant first; a missing byte reads as 0.
Assembled(p, byte) ==
  LET n == Len(p.bytes)
      Digit(k) == IF n - k \in DOMAIN p.bytes THEN byte[p.bytes[n - k].address] ELSE 0
  IN IF n \notin 1..4 THEN 0
     ELSE Digit(0) + (Radix * (Digit(1) + (Radix * (Digit(2) + (Radix * Digit(3))))))
ReadRaw(frame, p) == Assembled(p, [a \in AddressesOf(p) |-> ByteAt(frame, a)])

MaxRaw(p) == FoldLeft(LAMBDA value, byte : (value * Radix) + (Radix - 1), 0, p.bytes)
Span(p) == IF p.to > p.from THEN p.to - p.from ELSE MaxRaw(p)
Local(p, value) == Clamp(((value - p.from) * Unit) \div Span(p), 0, Unit)
Between(low, high, part) == low + (((high - low) * part) \div Unit)
Physical(p, value) == Between(p.pfrom, p.pto, Local(p, value))

---------------------------------------------------------------------------
(* ModeMaster activation.                                                  *)

\* The programs a binding of program id depends on: id, its master, the
\* master's master ..., up to one without a condition, an unknown one or a
\* repetition. It ends with None where an unknown program is named.
Chain(programs, id) ==
  LET chain[n \in 0..Cardinality(DOMAIN programs)] ==
        IF n = 0 THEN <<id>>
        ELSE LET c == chain[n - 1]
                 last == Last(c)
             IN IF last = None \/ last \notin DOMAIN programs THEN c
                ELSE LET p == programs[last]
                     IN IF p.kind = "none" \/ p.master \in ToSet(c) \cup {0} THEN c
                        ELSE Append(c, IF p.master \in DOMAIN programs THEN p.master ELSE None)
  IN IF id \in DOMAIN programs THEN chain[Cardinality(DOMAIN programs)] ELSE <<None>>

\* The cascade of a chain: every program up to the deciding one is within its
\* own range; before it each is switched by a function of the next one, and
\* it is switched by nothing or by a channel that is within the condition.
Switched(p, raw, chain) == p.master \in ToSet(chain) /\ Within(raw[p.master], [from |-> p.mfrom, to |-> p.mto])
Active(programs, chain, raw) ==
  \E stop \in DOMAIN chain :
    /\ \A i \in DOMAIN chain : i <= stop => programs[chain[i]].valid /\ Within(raw[chain[i]], programs[chain[i]])
    /\ \A i \in DOMAIN chain : i < stop => programs[chain[i]].kind = "function" /\ Switched(programs[chain[i]], raw, chain)
    /\ LET p == programs[chain[stop]]
       IN p.kind = "none" \/ (p.kind = "channel" /\ Switched(p, raw, chain))

---------------------------------------------------------------------------
(* Properties: Pan, Tilt, Dimmer and Zoom of several contributors.         *)

NoReading == [valid |-> FALSE]
Reading(normalized, physical) == [valid |-> TRUE, normalized |-> normalized, physical |-> physical]

RangeSelector(programs, inputs) ==
  \E i \in DOMAIN inputs : \/ programs[inputs[i].source].from # programs[inputs[1].source].from
                           \/ programs[inputs[i].source].to # programs[inputs[1].source].to
SumOf(numbers) == FoldLeft(LAMBDA sum, x : sum + x, 0, numbers)

\* Contributors of different ranges exclude each other, the first whose range
\* holds the value counts; others are a weighted mean. Invalid leaves the held
\* value alone.
ReadProperty(programs, inputs, raw) ==
  LET Each(Value(_, _)) == [i \in DOMAIN inputs |-> Value(programs[inputs[i].source], raw[inputs[i].source])]
      hits == {i \in DOMAIN inputs : Within(raw[inputs[i].source], programs[inputs[i].source])}
      weight == SumOf([i \in DOMAIN inputs |-> inputs[i].weight])
      Mean(values) == SumOf([i \in DOMAIN inputs |-> values[i] * inputs[i].weight]) \div weight
  IN IF RangeSelector(programs, inputs)
     THEN IF hits = {} THEN NoReading ELSE Reading(Each(Local)[Min(hits)], Each(Physical)[Min(hits)])
     ELSE IF weight = 0 THEN NoReading ELSE Reading(Mean(Each(Local)), Mean(Each(Physical)))

---------------------------------------------------------------------------
(* Colours.                                                                *)

White == <<Unit, Unit, Unit>>
Dark == <<0, 0, 0>>
Times(a, b) == [c \in 1..3 |-> (a[c] * b[c]) \div Unit]
Scaled(a, part) == [c \in 1..3 |-> (a[c] * part) \div Unit]
Plus(a, b) == [c \in 1..3 |-> a[c] + b[c]]
Gain(light) == Max({light[c] : c \in 1..3})

\* What a colour input contributes, by its attribute: the light it adds or the
\* component it subtracts.
AddedLight == [ColorAddRed   |-> <<Unit, 0, 0>>,
               ColorAddGreen |-> <<0, Unit, 0>>,
               ColorAddBlue  |-> <<0, 0, Unit>>,
               ColorAddWhite |-> White,
               ColorAddAmber |-> <<Unit, (Unit * 45) \div 100, 0>>,
               ColorAddLime  |-> <<(Unit * 15) \div 100, Unit, 0>>]
Subtracted == [ColorSubCyan |-> 1, ColorSubMagenta |-> 2, ColorSubYellow |-> 3]

ColorValue(p, semantic, value) ==
  LET physical == Physical(p, value)
  IN IF semantic \in DOMAIN AddedLight /\ physical >= -Unit /\ physical <= Unit
     THEN physical
     ELSE Clamp(Local(p, value), 0, Unit)

\* cook_emitter_color: emitters and additive inputs sum up, white without
\* any; filters then subtractive inputs take away.
CookColor(scene, target, value) ==
  LET inputs == target.inputs
      Amount(i) == Clamp(value[i], 0, Unit)
      Emits(i) == inputs[i].emitter \in DOMAIN scene.emitters
      Filters(i) == ~Emits(i) /\ inputs[i].filter \in DOMAIN scene.filters
      Plain(i) == ~Emits(i) /\ ~Filters(i)
      Adds(i) == Emits(i) \/ (Plain(i) /\ inputs[i].semantic \in DOMAIN AddedLight)
      Added(i) == Scaled(IF Emits(i) THEN scene.emitters[inputs[i].emitter] ELSE AddedLight[inputs[i].semantic],
                         Amount(i))
      source == IF target.additive \/ (\E i \in DOMAIN inputs : Adds(i))
                THEN FoldLeft(LAMBDA sum, i : IF Adds(i) THEN Plus(sum, Added(i)) ELSE sum,
                              Dark, [i \in DOMAIN inputs |-> i])
                ELSE White
      filtered == FoldLeft(LAMBDA light, i :
                             IF Filters(i)
                             THEN LET f == scene.filters[inputs[i].filter]
                                      Through(x) == Between(Unit, x, Amount(i))
                                  IN Times(light, [c \in 1..3 |-> (Through(f.transmission) * Through(f.light[c])) \div Unit])
                             ELSE light,
                           source, [i \in DOMAIN inputs |-> i])
      Taken(c) == Max({0} \cup {Amount(i) : i \in {j \in DOMAIN inputs : /\ Plain(j)
                                                                         /\ inputs[j].semantic \in DOMAIN Subtracted
                                                                         /\ Subtracted[inputs[j].semantic] = c}})
  IN Times(filtered, [c \in 1..3 |-> Unit - Taken(c)])

---------------------------------------------------------------------------
(* Colour wheels. bindings are the ones of one physical wheel.             *)

\* They go by range, then by id.
WheelOrder(programs, b, c) ==
  LET p == programs[b.source] q == programs[c.source]
  IN IF p.from # q.from THEN p.from < q.from ELSE IF p.to # q.to THEN p.to < q.to ELSE b.id < c.id
ActiveWheel(programs, bindings, raw) ==
  LET hits == {b \in Range(bindings) : Within(raw[b.source], programs[b.source])}
      first == {b \in hits : \A c \in hits : ~WheelOrder(programs, c, b)}
  IN IF first = {} THEN None ELSE CHOOSE b \in first : TRUE

\* The layer of the selected binding, whose program p has this value; None
\* when nothing can be resolved.
WheelLayer(p, slots, b, value) ==
  LET Layer(a, c, light, boundary) ==
        [binding |-> b.id, mode |-> b.mode, a |-> a.slot, b |-> c.slot, light |-> light, boundary |-> boundary]
      set == FirstOf(b.sets, LAMBDA s : Within(value, s))
      matching == SelectSeq(slots, LAMBDA s : s.slot = set.slot)
      boundary == (Physical(p, value) + b.offset) % Turn
      base == (boundary * Len(slots)) \div Turn
      part == (((boundary * Len(slots)) % Turn) * Unit) \div Turn
      slotA == slots[base + 1]
      slotB == slots[((base + 1) % Len(slots)) + 1]
  IN CASE slots = <<>> -> None
       [] b.mode = "index" -> Layer(slotA, slotB, Plus(Scaled(slotA.light, Unit - part), Scaled(slotB.light, part)),
                                    boundary)
       [] b.mode = "select" -> IF set = None THEN None
                               ELSE IF Len(matching) # 1 THEN None
                               ELSE Layer(matching[1], matching[1], matching[1].light, 0)
       [] OTHER -> Layer(slots[1], slots[1], slots[1].light, 0)

\* compose_ordered_target_color: the layers filter the base in wheel order.
Compose(base, layers) == FoldLeft(LAMBDA light, layer : Times(light, layer.light), base, layers)

---------------------------------------------------------------------------
(* Gobo selection and rotation. bindings are the ones of one layer.        *)

Selection(core, b, set) ==
  LET key == <<b.wheel, set.slot>>
  IN [slot |-> set.slot, asset |-> IF key \in DOMAIN core.assets THEN core.assets[key] ELSE 0]
SelectedGobo(core, bindings, raw) ==
  LET Set(b) == FirstOf(b.sets, LAMBDA s : Within(raw[b.source], s))
      hit == FirstOf(bindings, LAMBDA b : Active(core.programs, b.chain, raw) /\ Set(b) # None)
  IN IF hit = None THEN None ELSE Selection(core, hit, Set(hit))

\* The first active binding of a kind, None without one.
ActiveMotion(core, bindings, kind, raw) ==
  FirstOf(bindings, LAMBDA b : b.kind = kind /\ Active(core.programs, b.chain, raw))
\* A motion binding interpolates its own physical range; without a width it
\* is at its start. The value of an active one is within its program's range.
MotionValue(programs, b, raw) ==
  LET p == programs[b.source]
  IN Between(b.pfrom, b.pto, IF p.to <= p.from THEN 0 ELSE Clamp(((raw[b.source] - p.from) * Unit) \div (p.to - p.from), 0, Unit))

NoRotation == [mode |-> None, pos |-> None, posDegrees |-> 0, rotate |-> None, rotateDps |-> 0,
               phase |-> 0, velocity |-> 0, reference |-> 0]
RotationAt(held, now) == held.phase + (held.velocity * Max({now - held.reference, 0}))

\* The next rotation for the active position and speed bindings. Without a
\* change, phase, velocity and reference stay; a velocity continues from the
\* current phase.
Rotated(programs, pos, rotate, raw, held, now) ==
  LET degrees == MotionValue(programs, pos, raw)
      speed == MotionValue(programs, rotate, raw)
      posId == IF pos = None THEN None ELSE pos.id
      rotateId == IF rotate = None THEN None ELSE rotate.id
      posChanged == held.pos # posId \/ (pos # None /\ ~NearlyEqual(held.posDegrees, degrees))
      rotateChanged == held.rotate # rotateId \/ (rotate # None /\ ~NearlyEqual(held.rotateDps, speed))
      commands == [held EXCEPT !.pos = posId, !.rotate = rotateId,
                               !.posDegrees = IF pos = None THEN @ ELSE degrees,
                               !.rotateDps = IF rotate = None THEN @ ELSE speed]
      mode == IF rotate # None THEN "continuous" ELSE IF pos # None THEN "indexed" ELSE "hold"
      velocity == IF rotate = None THEN 0 ELSE speed
      phase == IF pos # None /\ (rotate = None \/ posChanged) THEN degrees ELSE RotationAt(held, now)
  IN IF held.mode = None /\ pos = None /\ rotate = None THEN held
     ELSE IF /\ held.mode = mode /\ ~posChanged /\ ~rotateChanged
             /\ NearlyEqual(held.velocity, velocity)
             /\ mode = "indexed" => NearlyEqual(held.phase, phase)
     THEN commands
     ELSE [commands EXCEPT !.mode = mode, !.phase = phase, !.velocity = velocity, !.reference = now]
NextRotation(core, bindings, raw, held, now) ==
  Rotated(core.programs, ActiveMotion(core, bindings, "pos", raw), ActiveMotion(core, bindings, "rotate", raw),
          raw, held, now)

---------------------------------------------------------------------------
(* Shutters. bindings are the ones of the layer that represents an         *)
(* authority.                                                              *)

Periodic(wave) == wave = "strobe"
\* The defaults of ShutterParameters; duty, offset and status are left out.
OpenShutter == [wave |-> "open", function |-> 0, frequency |-> 0, duration |-> 1]
Unsupported == [OpenShutter EXCEPT !.wave = "unsupported"]

\* The wave that the active bindings ask for; an ambiguous or invalid one
\* stays open as unsupported.
ShutterValue(b, raw) ==
  Between(b.pfrom, b.pto, IF b.to > b.from THEN ((raw[b.source] - b.from) * Unit) \div (b.to - b.from) ELSE 0)
Wanted(waves, durations, raw) ==
  LET b == Latest(waves)
      wanted == IF DOMAIN waves = {} THEN OpenShutter
                ELSE [wave |-> b.wave, function |-> IF b.function # 0 THEN b.function ELSE b.source,
                      duration |-> b.duration,
                      frequency |-> IF Periodic(b.wave) THEN ShutterValue(b, raw) ELSE 0]
  IN IF DOMAIN durations = {} THEN wanted ELSE [wanted EXCEPT !.duration = ShutterValue(Latest(durations), raw)]
Commanded(ambiguous, next) ==
  IF ambiguous \/ next.duration < 0 \/ (Periodic(next.wave) /\ next.frequency < 0)
  THEN [Unsupported EXCEPT !.function = next.function]
  ELSE next
ModeFits(b, raw) == b.mode = None \/ (2 \in DOMAIN b.chain /\ Within(raw[b.chain[2]], b.mode))
CommandedShutter(core, bindings, raw) ==
  LET active == Where(bindings, LAMBDA b : /\ Active(core.programs, b.chain, raw)
                                           /\ Within(raw[b.source], b)
                                           /\ ModeFits(b, raw))
      durations == Where(active, LAMBDA b : b.wave = "duration")
      waves == Where(active, LAMBDA b : b.wave # "duration")
      Several(s) == Cardinality(DOMAIN s) > 1
  IN Commanded(Several(waves) \/ Several(durations), Wanted(waves, durations, raw))

\* revision counts changes, 0 before the first; activation is the revision
\* that began the current function and wave.
NoShutter == [command |-> OpenShutter, revision |-> 0, activation |-> 0, phase |-> 0, reference |-> 0]
ShutterPhase(held, now) == held.phase + (held.command.frequency * Max({now - held.reference, 0}))

\* As UpdateShutter, where a change begins anew.
MutUpdateShutter(held, command, now) ==
  IF held.revision > 0 /\ held.command = command THEN held
  ELSE [command |-> command, revision |-> held.revision + 1,
        activation |-> IF held.revision > 0 /\ held.command.wave = command.wave THEN held.activation
                       ELSE held.revision + 1,
        phase |-> 0, reference |-> now]
\* update_shutter: the same function and wave continue in phase, anything
\* else begins anew.
UpdateShutter(held, command, now) ==
  IF held.revision > 0 /\ held.command = command THEN held
  ELSE LET continuing == /\ held.revision > 0
                         /\ held.command.function = command.function
                         /\ held.command.wave = command.wave
       IN [command |-> command, revision |-> held.revision + 1,
           activation |-> IF continuing THEN held.activation ELSE held.revision + 1,
           phase |-> IF continuing THEN ShutterPhase(held, now) % Unit ELSE 0,
           reference |-> now]

\* The share of the light a strobe lets through: open at the end of a cycle of
\* Unit, for the duration.
ShutterEnvelope(held, now) ==
  LET command == held.command
      width == Clamp((command.duration * command.frequency) \div Unit, 0, Unit)
  IN IF command.wave = "closed" THEN 0
     ELSE IF ~Periodic(command.wave) \/ command.frequency <= 0 THEN Unit
     ELSE IF (ShutterPhase(held, now) + width) % Unit < width THEN Unit ELSE 0
=============================================================================
