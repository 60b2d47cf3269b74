--------------------------- MODULE SceneCompiler ---------------------------
(***************************************************************************)
(* The compilation of an imported scene for the visual runtime             *)
(* (native/src/gdtf_runtime/runtime_scene_compiler.cpp,                    *)
(* resolved_dmx_addresses.h, shutter_compilation.h) and its transport into *)
(* the runtime (native/src/runtime/compiled_runtime_scene_codec.cpp): from *)
(* fixture patches, beams and fixture types to the record that Core        *)
(* installs.  Pure operators, no state.                                    *)
(*                                                                         *)
(* A patch has a uuid, gdtf and mode, the scalar universe and address (-1  *)
(* where absent) and the sequence of its addresses; files maps the GDTF    *)
(* files to their descriptions.  A colour is its shape, brightest          *)
(* component Unit or None where nothing is bright, and y.  Diagnostics,    *)
(* counters, lens and footprint data and which colours are approximations  *)
(* are left out.                                                           *)
(***************************************************************************)
EXTENDS FixtureType

CONSTANT StableId(_, _)   \* stable_id(uuid, label): the hash that names a thing, positive
LastUniverse == 32767

---------------------------------------------------------------------------
(* Addresses.                                                              *)

\* source_patch: GDTF break n is MVR break n - 1. Without entries the scalar
\* address serves break 1.
SourcePatch(patch, number) ==
  LET entry == FirstOf(patch.addresses, LAMBDA e : e.break = number - 1)
  IN IF entry # None THEN entry
     ELSE IF patch.addresses = <<>> /\ number = 1
     THEN [break |-> 0, universe |-> patch.universe, address |-> patch.address]
     ELSE [break |-> 0, universe |-> -1, address |-> -1]
BaseUniverse(patch) == IF patch.universe > 0 THEN patch.universe ELSE patch.addresses[1].universe

\* As Fits, for an end one slot too far.
MutFits(entry, offset) == entry.address + offset - 2 <= Slots
Fits(entry, offset) == entry.address + offset - 2 < Slots
\* validate_resolved_addresses: every byte of every program has a slot.
AddressesResolved(patch, programs, offset) ==
  LET Exists(u) == u + offset \in 0..LastUniverse
  IN /\ Exists(BaseUniverse(patch))
     /\ \A p \in Range(programs) :
          LET entry == SourcePatch(patch, p.break)
          IN /\ entry.universe >= 1 /\ entry.address \in 1..Slots /\ Exists(entry.universe)
             /\ \A o \in Range(p.offsets) : Fits(entry, o)

SourceBytes(patch, p, offset) ==
  LET entry == SourcePatch(patch, p.break)
  IN [i \in DOMAIN p.offsets |-> [universe |-> entry.universe + offset, address |-> entry.address + p.offsets[i] - 2,
                                  order |-> i - 1]]

---------------------------------------------------------------------------
(* Wheel slots: a shape, a gain and whether they could be cooked.          *)

Cooked(valid, shape, gain) == [valid |-> valid, shape |-> shape, gain |-> Clamp(gain, 0, Unit)]
Uncolored == Cooked(TRUE, White, Unit)
\* cook_transmission_from_cie: without brightness the slot is closed.
FromColor(color, gain) ==
  IF color.shape # None THEN Cooked(TRUE, color.shape, gain)
  ELSE IF color.y <= 0 THEN Cooked(TRUE, White, 0) ELSE Cooked(FALSE, White, Unit)

\* The measurement of the fullest insertion, the last among equals.
FullMeasurement(filter) ==
  LET fullest == Max({m.percent : m \in Range(filter.measurements)})
  IN LastOf(filter.measurements, LAMBDA m : m.percent = fullest)
\* A lone zero at full insertion that contradicts visible colours.
Contradictory(filter, slot, m) ==
  /\ m.transmission = 0 /\ m.percent >= 100 /\ Len(filter.measurements) = 1
  /\ filter.color # None /\ slot.color # None
  /\ filter.color.y > 0 /\ slot.color.y > 0
\* What a filter lets through: by its spectrum, else by its colour, else by
\* the measured transmission alone. A spectrum is a shape or None.
CookFilter(filter, slot, m) ==
  LET colored == filter.color # None
  IN IF m.spectrum # None
     THEN Cooked(TRUE, m.spectrum, IF m.transmission # None THEN m.transmission
                                   ELSE IF colored THEN filter.color.y ELSE Unit)
     ELSE IF Contradictory(filter, slot, m) THEN FromColor(filter.color, filter.color.y)
     ELSE IF colored
     THEN [FromColor(filter.color, Or(m.transmission, filter.color.y)) EXCEPT
             !.gain = IF m.transmission # None THEN Clamp(m.transmission, 0, Unit) ELSE @]
     ELSE Cooked(TRUE, White, Or(m.transmission, Unit))
CookLinked(filter, slot) ==
  IF filter.measurements # <<>> THEN CookFilter(filter, slot, FullMeasurement(filter))
  ELSE IF filter.color # None THEN FromColor(filter.color, filter.color.y) ELSE Uncolored
KnownColor(filters, slot, filter) ==
  CASE filter = 0 -> slot.color # None \/ ~slot.malformed
    [] filter > 0 -> \/ filters[filter].color # None
                     \/ filters[filter].measurements # <<>> /\ FullMeasurement(filters[filter]).transmission # None
    [] OTHER -> FALSE
\* cook_wheel_slot: a filter that is not there leaves the slot's own colour.
\* Colours that cannot be cooked let everything through.
CookSlot(filters, slot, number) ==
  LET filter == Link(filters, slot.filter)
      cooked == IF filter > 0 THEN CookLinked(filters[filter], slot)
                ELSE IF slot.color # None THEN FromColor(slot.color, slot.color.y)
                ELSE Uncolored
  IN [slot |-> number,
      light |-> IF cooked.valid THEN Scaled(cooked.shape, cooked.gain) ELSE White,
      uniform |-> KnownColor(filters, slot, filter) /\ cooked.valid /\ ~slot.other /\ slot.media = None]
Palette(d, wheel) == [n \in DOMAIN wheel.slots |-> CookSlot(d.filters, wheel.slots[n], n)]

---------------------------------------------------------------------------
(* Which functions become runtime programs, and what for.                  *)

PropertyParameters == {"pan", "tilt", "dimmer", "zoom"}
IsProperty(p) == Semantic(p.attribute) \in PropertyParameters
IsColor(p) == Semantic(p.attribute) \notin PropertyParameters \cup {None}
Additive(p) == Semantic(p.attribute) \in DOMAIN AddedLight

WheelModes == [Color1 |-> "select", Color2 |-> "select", Color1WheelIndex |-> "index"]
WheelMode(attribute) == IF attribute \in DOMAIN WheelModes THEN WheelModes[attribute] ELSE "other"
ColorEffects == {"ColorEffects1"}
\* The attributes with "color" in their names, which Cyan or CTO lack.
ColorNames ==
  DOMAIN WheelModes \cup ColorEffects
  \cup {"ColorAdd_R", "ColorAdd_G", "ColorAdd_B", "ColorAdd_W", "ColorAdd_RY", "ColorAdd_GY",
        "ColorSub_C", "ColorSub_M", "ColorSub_Y"}
NamesColor(p) == p.attribute \in ColorNames

Use(use, p) == [use |-> use, program |-> p.number]
Uses(use, programs) == [i \in DOMAIN programs |-> Use(use, programs[i])]

\* One property of all functions of a component, components in their order.
PropertyUses(programs) ==
  LET mine == SelectSeq(programs, IsProperty)
      components == Distinct([i \in DOMAIN mine |-> mine[i].component])
  IN FlattenSeq([k \in DOMAIN components |->
                   Uses("property", SelectSeq(mine, LAMBDA p : p.component = components[k]))])

\* append_wheel_targets: what a function that names a wheel is for, None where
\* it is skipped.
Slotted(d, p) == p.wheel > 0 /\ d.wheels[p.wheel].slots # <<>>
WheelUse(d, p) ==
  CASE p.attribute \in ColorEffects -> "effects"
    [] p.attribute \notin ColorEffects /\ p.wheel = 0 -> None
    [] p.wheel > 0 /\ IsGobo(p.attribute) ->
         IF GoboKinds[p.attribute].kind # "select" THEN "motion" ELSE IF p.sets = <<>> THEN None ELSE "gobo"
    [] OTHER -> IF /\ WheelMode(p.attribute) = "select" => p.sets # <<>>
                   /\ Family(p.attribute) = "Color" \/ NamesColor(p)
                   /\ Slotted(d, p)
                THEN "wheel" ELSE None
WheelUses(d, programs) ==
  LET used == SelectSeq(programs, LAMBDA p : WheelUse(d, p) # None)
  IN [i \in DOMAIN used |-> Use(WheelUse(d, used[i]), used[i])]

\* shutter_modes: a frequency is read under each function of the mode channel
\* that its condition covers. number is that function, 0 for no mode.
Mode(wave, range, number) == [wave |-> wave, range |-> range, number |-> number]
ShutterModes(programs, p) ==
  LET c == p.condition
      Covers(m) == IF c.kind = "function" THEN m.number = c.master ELSE c.channel # None /\ m.channel = c.channel
      Offers(m) == /\ Covers(m) /\ m.attribute \in StrobeModes /\ ShutterWaves[m.attribute].wave # "mode"
                   /\ c.kind = "function" \/ Max({c.mfrom, m.from}) <= Min({c.mto, m.to})
      masters == SelectSeq(programs, Offers)
      Choice(m) == IF c.kind = "function" THEN Mode(ShutterWaves[m.attribute].wave, None, m.number)
                   ELSE Mode(IF m.condition.kind # "none" THEN "unsupported" ELSE ShutterWaves[m.attribute].wave,
                             [from |-> Max({c.mfrom, m.from}), to |-> Min({c.mto, m.to})], m.number)
      wave == ShutterWaves[p.attribute].wave
  IN IF wave # "frequency" THEN <<Mode(wave, None, 0)>>
     ELSE IF masters = <<>> THEN <<Mode("unsupported", None, 0)>>
     ELSE [i \in DOMAIN masters |-> Choice(masters[i])]

\* A mode function is metadata of the frequency that it masters. Every mode
\* of a shutter takes an id of its own behind the shutter's.
IsShutterSource(p) ==
  /\ IsShutter(p.attribute)
  /\ p.attribute \in StrobeModes => ShutterWaves[p.attribute].wave = "mode"
ShutterUses(programs) ==
  LET sources == SelectSeq(programs, IsShutterSource)
      OfSource(p) == <<Use("shutter", p)>>
                     \o Uses("mode", SelectSeq(ShutterModes(programs, p), LAMBDA m : m.number > 0))
  IN FlattenSeq([i \in DOMAIN sources |-> OfSource(sources[i])])

\* append_activation_master_sources: the masters of the source programs, their
\* masters, ..., which nothing else reads. A mode of a frequency is no source
\* program but an activation id: its function is appended where a condition
\* names it, and its own condition asks for nothing.
IsSource(u) == u.use # "mode"
MissingMasters(programs, uses, known) ==
  LET masters == SelectSeq([i \in DOMAIN uses |-> programs[uses[i].program].condition.master],
                           LAMBDA m : m > 0 /\ m \notin known)
  IN [i \in DOMAIN Distinct(masters) |-> [use |-> "master", program |-> Distinct(masters)[i]]]
\* As NextMasters, for modes that count as compiled.
MutNextMasters(programs, uses) ==
  MissingMasters(programs, SelectSeq(uses, IsSource), {u.program : u \in Range(uses)})
NextMasters(programs, uses) ==
  LET sources == SelectSeq(uses, IsSource)
  IN MissingMasters(programs, sources, {u.program : u \in Range(sources)})
WithMasters(programs, uses) == FoldLeft(LAMBDA all, round : all \o NextMasters(programs, all), uses, programs)

AllUses(d, programs) ==
  WithMasters(programs, PropertyUses(programs) \o Uses("color", SelectSeq(programs, IsColor))
                        \o WheelUses(d, programs) \o ShutterUses(programs))

---------------------------------------------------------------------------
(* The runtime programs: use k of a fixture has the id base + k - 1.       *)

Fallback(p) ==
  CASE Semantic(p.attribute) = "pan" -> <<-270 * Unit, 270 * Unit>>
    [] Semantic(p.attribute) = "tilt" -> <<-135 * Unit, 135 * Unit>>
    [] Semantic(p.attribute) = "zoom" -> <<8 * Unit, 40 * Unit>>
    [] OTHER -> <<0, Unit>>
\* The physical range of a use; a gobo selection keeps the default.
PhysicalOf(u, p) ==
  IF u.use = "gobo" THEN <<0, Unit>>
  ELSE IF u.use = "property" /\ p.pfrom = 0 /\ p.pto = Unit THEN Fallback(p)
  ELSE <<p.pfrom, p.pto>>
\* finalize_fixture_activations: a master is the first program of its function;
\* one that is missing keeps its number in the fixture type.
IdOf(uses, base, number) ==
  LET at == Position(uses, LAMBDA u : u.program = number /\ IsSource(u)) IN IF at = 0 THEN 0 ELSE base + at - 1
RuntimeProgram(patch, programs, uses, base, k, offset) ==
  LET u == uses[k]
      p == programs[u.program]
      c == p.condition
      master == IdOf(uses, base, c.master)
  IN [id |-> base + k - 1, parser |-> p.number, bytes |-> SourceBytes(patch, p, offset), from |-> p.from, to |-> p.to,
      pfrom |-> PhysicalOf(u, p)[1], pto |-> PhysicalOf(u, p)[2],
      kind |-> c.kind, master |-> IF master = 0 THEN c.master ELSE master, mfrom |-> c.mfrom, mto |-> c.mto,
      valid |-> c.valid /\ (Conditioned(p) => master > 0)]
RuntimePrograms(patch, programs, uses, base, offset) ==
  LET sources == SelectSeq([k \in DOMAIN uses |-> k], LAMBDA k : IsSource(uses[k]))
  IN [i \in DOMAIN sources |-> RuntimeProgram(patch, programs, uses, base, sources[i], offset)]

---------------------------------------------------------------------------
(* The bindings of a fixture. fx is what they share: its patch, id, type   *)
(* programs, description, uses, base and the profiles of its beams.        *)

Under(fx, p) == SelectSeq(fx.beams, LAMBDA b : IsPrefix(p.geometry, b.geometry))
\* The uses of some kinds, each with its function and the id of its program.
Sourced(fx, kinds) ==
  LET ids == SelectSeq([k \in DOMAIN fx.uses |-> k], LAMBDA k : fx.uses[k].use \in kinds)
  IN [i \in DOMAIN ids |-> [source |-> fx.base + ids[i] - 1, program |-> fx.programs[fx.uses[ids[i]].program]]]
\* The same once for every beam that the function controls, where its wheel
\* has slots.
PerBeam(fx, kinds) ==
  LET slotted == SelectSeq(Sourced(fx, kinds), LAMBDA s : Slotted(fx.d, s.program))
      Of(s, beams) == [j \in DOMAIN beams |-> [beam |-> beams[j]] @@ s]
  IN FlattenSeq([i \in DOMAIN slotted |-> Of(slotted[i], Under(fx, slotted[i].program))])
Named(fx, label, path) == StableId(fx.patch.uuid, label \o path)

PropertyOf(fx, component, sourced) ==
  LET p == sourced[1].program
      parameter == Semantic(p.attribute)
      Name(role) == Named(fx, <<role, parameter>>, p.geometry)
  IN [id |-> Name("property"), fixture |-> fx.id, parameter |-> parameter, geometry |-> p.geometry,
      target |-> CASE parameter = "zoom" -> Named(fx, <<"beam">>, p.geometry)
                   [] parameter = "dimmer" -> Name("target")
                   [] OTHER -> Name("component"),
      inputs |-> [i \in DOMAIN sourced |-> [source |-> sourced[i].source, weight |-> 1]]]
PropertiesCompiled(fx) ==
  LET sourced == Sourced(fx, {"property"})
      components == Distinct([i \in DOMAIN sourced |-> sourced[i].program.component])
  IN [k \in DOMAIN components |->
        PropertyOf(fx, components[k], SelectSeq(sourced, LAMBDA s : s.program.component = components[k]))]

\* One colour target for every beam that a colour channel controls, in the
\* order of the beams.
Resource(fx, kind, number) == IF number > 0 THEN Named(fx, <<kind, number>>, <<>>) ELSE 0
ColorsCompiled(fx) ==
  LET sourced == Sourced(fx, {"color"})
      Mine(b) == SelectSeq(sourced, LAMBDA s : IsPrefix(s.program.geometry, b.geometry))
      Target(b, mine) ==
        [fixture |-> fx.id, target |-> b.id,
         additive |-> \E s \in Range(mine) : Additive(s.program),
         inputs |-> [i \in DOMAIN mine |->
                       [source |-> mine[i].source, semantic |-> Semantic(mine[i].program.attribute),
                        emitter |-> Resource(fx, "emitter", mine[i].program.emitter),
                        filter |-> Resource(fx, "filter", mine[i].program.filter), default |-> 0]]]
      lit == SelectSeq(fx.beams, LAMBDA b : Mine(b) # <<>>)
  IN [i \in DOMAIN lit |-> Target(lit[i], Mine(lit[i]))]

PaletteId(fx, p) == Named(fx, <<"palette", p.wheel>>, <<>>)
\* Gobo wheels and assets are named by the fixture type.
TypeNamed(fx, kind, x) == StableId(<<fx.patch.gdtf>>, <<kind, x>>)
SetsCompiled(p) == [i \in DOMAIN p.sets |-> [from |-> p.sets[i].from, to |-> p.sets[i].to, slot |-> p.sets[i].slot]]
WheelsCompiled(fx) ==
  LET bound == PerBeam(fx, {"wheel", "effects"})
      Binding(s) == [id |-> Named(fx, <<"wheel", s.program.number>>, s.beam.geometry), fixture |-> fx.id,
                     target |-> s.beam.id, wheel |-> PaletteId(fx, s.program), source |-> s.source,
                     mode |-> WheelMode(s.program.attribute), offset |-> 0, sets |-> SetsCompiled(s.program)]
  IN [i \in DOMAIN bound |-> Binding(bound[i])]
GobosCompiled(fx) ==
  LET bound == PerBeam(fx, {"gobo"})
      Binding(s) == [id |-> Named(fx, <<"gobo", s.program.number>>, s.beam.geometry), fixture |-> fx.id,
                     target |-> s.beam.id, wheel |-> TypeNamed(fx, "gobo wheel", s.program.wheel),
                     instance |-> GoboKinds[s.program.attribute].index, source |-> s.source, chain |-> <<>>,
                     sets |-> SetsCompiled(s.program)]
  IN [i \in DOMAIN bound |-> Binding(bound[i])]
MotionsCompiled(fx) ==
  LET bound == PerBeam(fx, {"motion"})
      Binding(s) == [id |-> Named(fx, <<"motion", s.program.number>>, s.beam.geometry), fixture |-> fx.id,
                     target |-> s.beam.id, instance |-> GoboKinds[s.program.attribute].index,
                     kind |-> GoboKinds[s.program.attribute].kind, scalar |-> GoboKinds[s.program.attribute].scalar,
                     source |-> s.source, pfrom |-> s.program.pfrom, pto |-> s.program.pto, chain |-> <<>>]
  IN [i \in DOMAIN bound |-> Binding(bound[i])]

\* The rows of a shutter function: its channel sets, else its whole range. A
\* generic mode row is what its label says, and nothing where a frequency has
\* it for a master.
ShutterRows(p) ==
  IF p.rows # <<>> THEN p.rows
  ELSE <<[from |-> p.from, to |-> p.to, name |-> None, pfrom |-> p.pfrom, pto |-> p.pto]>>
RowWave(p, row, wave) ==
  IF ~p.rowsValid THEN "unsupported"
  ELSE IF wave = "mode" THEN ShutterLabel(Or(row.name, p.label)) ELSE wave
MastersFrequency(programs, p) ==
  \E q \in Range(programs) : q.attribute = "StrobeFrequency" /\ q.condition.channel = p.channel
RowsBound(programs, p, wave) ==
  SelectSeq(ShutterRows(p), LAMBDA row : ~(/\ wave = "mode" /\ p.rowsValid /\ RowWave(p, row, wave) = "unsupported"
                                           /\ p.attribute = "StrobeModeShutter" /\ MastersFrequency(programs, p)))
\* The mode choices of use k with the ids of their activations.
ModeActivations(fx, k, modes) ==
  [i \in DOMAIN modes |->
     [mode |-> modes[i],
      activation |-> IF modes[i].number = 0 THEN fx.base + k - 1
                     ELSE fx.base + k - 1 + Cardinality({j \in 1..i : modes[j].number > 0})]]
ShutterBinding(fx, p, k, choice, row, b) ==
  [fixture |-> fx.id, target |-> b.id, index |-> ShutterWaves[p.attribute].index, source |-> fx.base + k - 1,
   from |-> row.from, to |-> row.to, pfrom |-> row.pfrom, pto |-> row.pto,
   wave |-> RowWave(p, row, choice.mode.wave), duration |-> 1, function |-> choice.activation,
   mode |-> choice.mode.range, chain |-> <<>>]
ShuttersOfUse(fx, k, p) ==
  LET choices == ModeActivations(fx, k, ShutterModes(fx.programs, p))
      beams == Under(fx, p)
      OfChoice(choice) ==
        LET rows == RowsBound(fx.programs, p, choice.mode.wave)
        IN FlattenSeq([i \in DOMAIN rows |->
                         [j \in DOMAIN beams |-> ShutterBinding(fx, p, k, choice, rows[i], beams[j])]])
  IN FlattenSeq([i \in DOMAIN choices |-> OfChoice(choices[i])])
ShuttersCompiled(fx) ==
  FlattenSeq([k \in DOMAIN fx.uses |->
    IF fx.uses[k].use = "shutter" THEN ShuttersOfUse(fx, k, fx.programs[fx.uses[k].program]) ELSE <<>>])

---------------------------------------------------------------------------
(* Beams, wheel resources and physical resources.                          *)

BeamKinds == {"Wash", "PC", "Fresnel", "Rectangle", "None", "Glow"}
\* normalize_beam_type: any other kind becomes a wash.
BeamKind(kind) == IF kind \in BeamKinds THEN kind ELSE "Wash"
Projected(kind) == kind \in {"Wash", "Spot", "Rectangle", "PC", "Fresnel"}
DefaultFlux == 10000
\* resolve_luminous_flux: the default where the geometry says nothing.
FluxOf(optics) == IF optics.flux = None THEN DefaultFlux ELSE Max({optics.flux, 0})
Profile(patch, beam) ==
  LET kind == BeamKind(beam.optics.kind)
  IN [id |-> StableId(patch.uuid, <<"beam">> \o beam.geometry), geometry |-> beam.geometry, kind |-> kind,
      projected |-> Projected(kind), flux |-> FluxOf(beam.optics)]
\* beams_by_fixture: the beams of the scene whose key starts with the uuid.
ProfilesOf(patch, beams) ==
  LET mine == SelectSeq(beams, LAMBDA b : b.uuid = patch.uuid) IN [i \in DOMAIN mine |-> Profile(patch, mine[i])]

\* Wheels without slots have neither a palette nor assets.
SlottedWheels(d) == SelectSeq([w \in DOMAIN d.wheels |-> w], LAMBDA w : d.wheels[w].slots # <<>>)
PalettesCompiled(fx) ==
  [id \in {Named(fx, <<"palette", w>>, <<>>) : w \in Range(SlottedWheels(fx.d))} |->
     Palette(fx.d, fx.d.wheels[CHOOSE w \in Range(SlottedWheels(fx.d)) : Named(fx, <<"palette", w>>, <<>>) = id])]
AssetsCompiled(fx) ==
  LET Asset(w, n, slot) ==
        [wheel |-> TypeNamed(fx, "gobo wheel", w), slot |-> n, open |-> slot.media = None,
         media |-> slot.media # None /\ slot.extracted,
         asset |-> IF slot.media # None /\ slot.extracted THEN TypeNamed(fx, "gobo asset", slot.media) ELSE 0]
      OfWheel(w) == [n \in DOMAIN fx.d.wheels[w].slots |-> Asset(w, n, fx.d.wheels[w].slots[n])]
  IN FlattenSeq([i \in DOMAIN SlottedWheels(fx.d) |-> OfWheel(SlottedWheels(fx.d)[i])])

\* compile_physical_resource_templates, named by the fixture: the light of an
\* emitter, the transmission and the light of a filter.
EmittersCompiled(fx) ==
  [id \in {Resource(fx, "emitter", n) : n \in DOMAIN fx.d.emitters} |->
     fx.d.emitters[CHOOSE n \in DOMAIN fx.d.emitters : Resource(fx, "emitter", n) = id].light]
FiltersCompiled(fx) ==
  [id \in {Resource(fx, "filter", n) : n \in DOMAIN fx.d.filters} |->
     LET filter == fx.d.filters[CHOOSE n \in DOMAIN fx.d.filters : Resource(fx, "filter", n) = id]
     IN [transmission |-> IF filter.color = None THEN Unit ELSE Clamp(filter.color.y, 0, Unit), light |-> filter.light]]

---------------------------------------------------------------------------
(* The compiled scene: next is the id of the next program.                 *)

StartOf(patch) == IF patch.address > 0 THEN patch.address ELSE patch.addresses[1].address
FixtureScene(fx, offset) ==
  [NoScene EXCEPT
     !.programs = RuntimePrograms(fx.patch, fx.programs, fx.uses, fx.base, offset),
     !.fixtures = <<[id |-> fx.id, start |-> StartOf(fx.patch), flux |-> DefaultFlux]>>,
     !.properties = PropertiesCompiled(fx), !.colors = ColorsCompiled(fx), !.wheels = WheelsCompiled(fx),
     !.gobos = GobosCompiled(fx), !.motions = MotionsCompiled(fx), !.shutters = ShuttersCompiled(fx),
     !.assets = AssetsCompiled(fx), !.palettes = PalettesCompiled(fx), !.emitters = EmittersCompiled(fx),
     !.filters = FiltersCompiled(fx), !.beams = fx.beams]
Joined(a, b) ==
  LET Maps == {"emitters", "filters", "palettes"}
  IN [f \in DOMAIN a |-> IF f \in Maps THEN a[f] @@ b[f] ELSE a[f] \o b[f]]

\* A patch that lacks anything, or whose addresses could not be imported, is
\* skipped; one of an unsupported type or without slots for all bytes too.
Patched(patch) ==
  /\ ~patch.error /\ patch.uuid # None /\ patch.mode # None /\ patch.gdtf # None
  /\ patch.addresses # <<>> \/ (patch.universe > 0 /\ patch.address \in 1..Slots)
NoWheels == [tops |-> <<>>, nodes |-> <<>>, emitters |-> <<>>, filters |-> <<>>, wheels |-> <<>>]
\* A file or a mode that is not there is a type without channels.
TypeOf(files, patch) ==
  IF patch.gdtf \notin DOMAIN files THEN [d |-> NoWheels, supported |-> TRUE, programs |-> <<>>]
  ELSE IF patch.mode \notin DOMAIN files[patch.gdtf].modes
  THEN [d |-> NoWheels, supported |-> TRUE, programs |-> <<>>]
  ELSE [d |-> files[patch.gdtf]] @@ CompiledType(files[patch.gdtf], files[patch.gdtf].modes[patch.mode])

\* The fixture of a patch with the programs it uses.
Appended(done, patch, type, beams, offset) ==
  LET Of(uses) ==
        [next |-> done.next + Len(uses),
         fixtures |-> Append(done.fixtures,
                             [patch |-> patch, id |-> StableId(patch.uuid, <<"fixture">>), programs |-> type.programs,
                              d |-> type.d, uses |-> uses, base |-> done.next, beams |-> ProfilesOf(patch, beams)])]
  IN IF ~type.supported THEN done
     ELSE IF ~AddressesResolved(patch, type.programs, offset) THEN done
     ELSE Of(AllUses(type.d, type.programs))
\* compile_runtime_scene: model has the patches and the beams of the scene.
CompiledFixtures(model, files, offset) ==
  FoldLeft(LAMBDA done, patch :
             IF Patched(patch) THEN Appended(done, patch, TypeOf(files, patch), model.beams, offset) ELSE done,
           [next |-> 1, fixtures |-> <<>>], model.patches).fixtures
SceneOf(fixtures, offset) == FoldLeft(LAMBDA scene, fx : Joined(scene, FixtureScene(fx, offset)), NoScene, fixtures)

\* What encode_compiled_runtime_scene carries: no physical resources, and the
\* beams go by the manifest of the loader.
Transported(scene) == [scene EXCEPT !.emitters = <<>>, !.filters = <<>>, !.beams = <<>>]
=============================================================================
