----------------------------- MODULE SceneUpdate -----------------------------
(***************************************************************************)
(* What one update of a universe does to the physical state the visual     *)
(* runtime holds (the body of consume_latest_visual_frame,                 *)
(* native/src/runtime/peraviz_visual_runtime.cpp): the domains in the      *)
(* order of the code, each for the dirty consumers it is given.            *)
(*                                                                         *)
(* An update carries the held state and the rows it emits. A held part is  *)
(* a function of what was initialised so far. A row replaces an earlier    *)
(* one of the same key in the same visual frame, as its reader would; the  *)
(* rows of colour wheels are metadata and left out.                        *)
(***************************************************************************)
EXTENDS SceneInstall

\* Held by the runtime: transform and property values, colour inputs, base
\* colours, wheel layers, composed colours, gobo selections, rotations,
\* shutter parameters.
NothingHeld == [transform |-> <<>>, property |-> <<>>, input |-> <<>>, base |-> <<>>, wheel |-> <<>>,
                color |-> <<>>, gobo |-> <<>>, motion |-> <<>>, shutter |-> <<>>]
Held(f, x, default) == IF x \in DOMAIN f THEN f[x] ELSE default
Update(held, rows) == [held |-> held, rows |-> rows]

Keys(dirty, domain) == {c.key : c \in {d \in dirty : d.domain = domain}}
Ascending(S) == SetToSortSeq(S, LAMBDA a, b : a < b)

\* A domain takes what its keys become: the held part of the keys in kept, a
\* row for those in shown.
Adopt(update, domain, next, kept, shown) ==
  Update([update.held EXCEPT ![domain] = Overlaid([k \in kept |-> next[k]], @)],
         Overlaid([k \in {<<domain, l>> : l \in shown} |-> next[k[2]]], update.rows))
Renewed(part, next, default) == {k \in DOMAIN next : next[k] # Held(part, k, default)}
AdoptRenewed(update, domain, next, renewed) == Adopt(update, domain, next, renewed, renewed)

---------------------------------------------------------------------------
\* evaluate_shutters: every member target of the authority gets the row.
Shutters(update, next) == AdoptRenewed(update, "shutter", next, Renewed(update.held.shutter, next, NoShutter))
ShutterDomain(core, dirty, raw, now, update) ==
  Shutters(update, Tabulated([l \in Keys(dirty, "shutter") |->
                                UpdateShutter(Held(update.held.shutter, l, NoShutter),
                                              CommandedShutter(core, ShuttersOf(core, l), raw), now)]))

\* Without an active binding the last selection stays.
Gobos(update, next) ==
  AdoptRenewed(update, "gobo", next, {l \in Renewed(update.held.gobo, next, None) : next[l] # None})
GoboDomain(core, u, dirty, raw, update) ==
  Gobos(update, Tabulated([l \in Keys(dirty, "gobo") |-> SelectedGobo(core, GobosOf(core, u, l), raw)]))

\* The commands are remembered even where the rotation does not change.
Rotation(held) == [mode |-> held.mode, phase |-> held.phase, velocity |-> held.velocity, reference |-> held.reference]
Motions(update, next) ==
  LET Previous(l) == Held(update.held.motion, l, NoRotation)
  IN Adopt(update, "motion", next, Renewed(update.held.motion, next, NoRotation),
           {l \in DOMAIN next : Rotation(next[l]) # Rotation(Previous(l))})
MotionDomain(core, u, dirty, raw, now, update) ==
  Motions(update, Tabulated([l \in Keys(dirty, "motion") |->
                               NextRotation(core, MotionsOf(core, u, l), raw,
                                            Held(update.held.motion, l, NoRotation), now)]))

---------------------------------------------------------------------------
\* Dimmer and Zoom are held per property and cooked for its target; an
\* invalid reading holds. A value is remembered even within Epsilon of the
\* last, and then emits no row. Properties go in their order: of those with
\* one id, or for one row, the last counts.
Cooked(core, p, value) ==
  IF p.parameter = "dimmer"
  THEN [dimmer |-> value, power |-> (Held(core.flux, p.fixture, 0) * value) \div Unit]
  ELSE [angle |-> Clamp(value, 0, Turn \div 4)]

\* The readings of the dirty properties; an invalid one counts for nothing.
Readings(core, dirty, raw) ==
  Tabulated([i \in Keys(dirty, "property") |-> ReadProperty(core.programs, core.properties[i].inputs, raw)])
RowKey(p) == <<IF p.parameter = "dimmer" THEN "intensity" ELSE "optics", p.target>>
Properties(core, next, update) ==
  LET p(i) == core.properties[i]
      Named(id) == {i \in DOMAIN next : p(i).id = id}
      Earlier(i) == {j \in Named(p(i).id) : j < i}
      Known(i) == Earlier(i) # {} \/ p(i).id \in DOMAIN update.held.property
      Previous(i) == IF Earlier(i) = {} THEN update.held.property[p(i).id] ELSE next[Max(Earlier(i))]
      changed == {i \in DOMAIN next : ~Known(i) \/ ~NearlyEqual(Previous(i), next[i])}
      Shown(row) == Max({i \in changed : RowKey(p(i)) = row})
  IN Update([update.held EXCEPT !.property = Overlaid([id \in {p(i).id : i \in DOMAIN next} |-> next[Max(Named(id))]], @)],
            Overlaid([row \in {RowKey(p(i)) : i \in changed} |-> Cooked(core, p(Shown(row)), next[Shown(row)])],
                     update.rows))
PropertyDomain(core, readings, update) ==
  LET mine == {i \in DOMAIN readings : core.properties[i].parameter \in {"dimmer", "zoom"} /\ readings[i].valid}
  IN Properties(core,
                Tabulated([i \in mine |-> IF core.properties[i].parameter = "dimmer"
                                          THEN readings[i].normalized ELSE readings[i].physical]),
                update)

\* Pan and Tilt of the dirty properties, merged with what the fixture held.
Transform(core, keys, readings, held) ==
  LET Values(parameter) == {i \in keys : core.properties[i].parameter = parameter}
      Of(parameter, default) ==
        IF Values(parameter) = {} THEN default ELSE readings[Max(Values(parameter))].physical
  IN [pan |-> Of("pan", held.pan), tilt |-> Of("tilt", held.tilt)]
StillAt(update, f, next) ==
  /\ f \in DOMAIN update.held.transform
  /\ NearlyEqual(next.pan, update.held.transform[f].pan)
  /\ NearlyEqual(next.tilt, update.held.transform[f].tilt)
Transforms(update, next) ==
  Adopt(update, "transform", next, DOMAIN next, {f \in DOMAIN next : ~StillAt(update, f, next[f])})
TransformDomain(core, readings, update) ==
  LET keys == {i \in DOMAIN readings : core.properties[i].parameter \in {"pan", "tilt"} /\ readings[i].valid}
      Mine(f) == {i \in keys : core.properties[i].fixture = f}
  IN Transforms(update, Tabulated([f \in {core.properties[i].fixture : i \in keys} |->
                                     Transform(core, Mine(f), readings,
                                               Held(update.held.transform, f, [pan |-> 0, tilt |-> 0]))]))

---------------------------------------------------------------------------
\* Whether an input is read: its source changed, or it has no value yet and
\* no worker prepared it. A prepared one without a value takes its default.
Fresh(sources, prepared, held, key, input) == input.source \in sources \/ (~prepared /\ key \notin DOMAIN held.input)
InputValue(core, sources, raw, prepared, held, key, input) ==
  IF Fresh(sources, prepared, held, key, input)
  THEN ColorValue(core.programs[input.source], input.semantic, raw[input.source])
  ELSE Held(held.input, key, input.default)

\* Colour inputs of the dirty targets: an input whose source did not change
\* keeps its value. A change cooks the target's base colour.
Repainted(core, next, changed, base) ==
  LET t(i) == core.colors[i]
      Cook(i) == CookColor(core.scene, t(i), [j \in DOMAIN t(i).inputs |-> next[<<i, j>>]])
  IN Overlaid([target \in {t(i).target : i \in changed} |-> Cook(Max({i \in changed : t(i).target = target}))], base)
Repaint(core, next, changed, held) ==
  [held |-> [held EXCEPT !.input = Overlaid(next, @), !.base = Repainted(core, next, changed, @)],
   targets |-> {core.colors[i].target : i \in changed}]
Inputs(core, next, held) ==
  Repaint(core, next,
          {k[1] : k \in {l \in DOMAIN next : l \notin DOMAIN held.input \/ ~NearlyEqual(held.input[l], next[l])}},
          held)
ColorDomain(core, dirty, sources, raw, prepared, held) ==
  LET keys == UNION {{<<i, j>> : j \in DOMAIN core.colors[i].inputs} : i \in Keys(dirty, "color")}
  IN Inputs(core,
            Tabulated([k \in keys |-> InputValue(core, sources, raw, prepared, held, k, core.colors[k[1]].inputs[k[2]])]),
            held)

\* The wheels of dirty bindings and of targets whose base changed. Without an
\* active binding the layer is dropped; what cannot be resolved holds it.
SameLayer(a, b) ==
  /\ a # None /\ a.binding = b.binding /\ a.mode = b.mode /\ a.a = b.a /\ a.b = b.b
  /\ NearlyEqual(a.boundary, b.boundary) /\ \A c \in 1..3 : NearlyEqual(a.light[c], b.light[c])
NextLayer(previous, layer) == IF layer = None \/ SameLayer(previous, layer) THEN previous ELSE layer
NextWheel(core, previous, chosen, raw) ==
  IF chosen = None THEN None
  ELSE NextLayer(previous, WheelLayer(core.programs[chosen.source], core.scene.palettes[chosen.wheel],
                                      chosen, raw[chosen.source]))
Wheels(next, targets, held) ==
  LET changed == {k \in DOMAIN next : next[k] # Held(held.wheel, k, None)}
  IN [held |-> [held EXCEPT !.wheel = Overlaid([k \in changed |-> next[k]], @)],
      targets |-> targets \cup {k[1] : k \in changed}]
WheelDomain(core, u, dirty, raw, targets, held) ==
  LET keys == Keys(dirty, "wheel")
              \cup {<<b.target, b.wheel>> : b \in {c \in Range(core.wheels) : c.target \in targets /\ InUniverse(core, u, c)}}
  IN Wheels(Tabulated([k \in keys |-> NextWheel(core, Held(held.wheel, k, None),
                                                ActiveWheel(core.programs, WheelsOf(core, u, k), raw), raw)]),
            targets, held)

Layers(held, target) ==
  LET wheels == Ascending({k[2] : k \in {l \in DOMAIN held.wheel : l[1] = target /\ held.wheel[l] # None}})
  IN [i \in DOMAIN wheels |-> held.wheel[<<target, wheels[i]>>]]
Composed(held, target) == Compose(Held(held.base, target, White), Layers(held, target))
Lit(update, light) ==
  LET changed == {t \in DOMAIN light : \/ t \notin DOMAIN update.held.color
                                       \/ \E c \in 1..3 : ~NearlyEqual(update.held.color[t][c], light[t][c])}
  IN Update([update.held EXCEPT !.color = Overlaid(light, @)],
            Overlaid([k \in {<<"color", t>> : t \in changed} |-> [light |-> light[k[2]]]], update.rows))
ComposeTargets(targets, update) == Lit(update, Tabulated([t \in targets |-> Composed(update.held, t)]))

Layered(wheels, rows) == ComposeTargets(wheels.targets, Update(wheels.held, rows))
Coloured(core, u, dirty, raw, colors, rows) ==
  Layered(WheelDomain(core, u, dirty, raw, colors.targets, colors.held), rows)
ColorsAndWheels(core, u, dirty, sources, raw, prepared, update) ==
  Coloured(core, u, dirty, raw, ColorDomain(core, dirty, sources, raw, prepared, update.held), update.rows)

---------------------------------------------------------------------------
\* The domains in the order of the code.
UpdateUniverse(core, u, dirty, sources, raw, prepared, now, update) ==
  LET readings == Readings(core, dirty, raw)
      shutters == ShutterDomain(core, dirty, raw, now, update)
      gobos == GoboDomain(core, u, dirty, raw, shutters)
      motions == MotionDomain(core, u, dirty, raw, now, gobos)
      properties == PropertyDomain(core, readings, motions)
      colors == ColorsAndWheels(core, u, dirty, sources, raw, prepared, properties)
  IN TransformDomain(core, readings, colors)

\* What FullEvaluation promises of a frame: every source read, every consumer
\* evaluated.
FullUpdate(core, u, bytes, now, held, rows) ==
  LET plan == core.plans[u]
      raw == [s \in plan.sources |-> ReadRaw(bytes, core.programs[s])]
  IN UpdateUniverse(core, u, plan.consumers, plan.sources, raw, FALSE, now, Update(held, rows))
=============================================================================
