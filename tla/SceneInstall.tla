---------------------------- MODULE SceneInstall ----------------------------
(***************************************************************************)
(* The installation of a compiled scene in the visual runtime              *)
(* (native/src/runtime/visual_runtime_install.cpp, visual_runtime_plan.cpp,*)
(* visual_runtime_shutter.cpp, compiled_evaluation_plan.cpp): which of its *)
(* programs are accepted, which universe owns them, which addresses it     *)
(* listens to and which consumers an address reaches.                      *)
(*                                                                         *)
(* A scene is a record of sequences, in the order of the compiled scene.   *)
(* Core(scene) is what the runtime holds of it until the next installation.*)
(* Diagnostics and counters are left out.                                  *)
(***************************************************************************)
EXTENDS SceneEvaluation

CONSTANT Slots     \* addresses of a universe, 512 in the code
ASSUME SlotsAssumption == Slots \in Nat \ {0}

NoScene == [programs |-> <<>>, fixtures |-> <<>>, properties |-> <<>>, colors |-> <<>>, wheels |-> <<>>,
            gobos |-> <<>>, motions |-> <<>>, shutters |-> <<>>, assets |-> <<>>,
            emitters |-> <<>>, filters |-> <<>>, palettes |-> <<>>, beams |-> <<>>]

---------------------------------------------------------------------------
(* What is accepted.                                                       *)

\* The first program of an id that is positive, its bytes in their order.
Programs(scene) ==
  [id \in {p.id : p \in {q \in Range(scene.programs) : q.id > 0}} |->
     [FirstOf(scene.programs, LAMBDA p : p.id = id) EXCEPT !.bytes = Ordered(@)]]

UniverseOfBytes(p) == p.bytes[1].universe
OneUniverse(programs, ids) ==
  \E u \in UNION {{b.universe : b \in Range(programs[id].bytes)} : id \in ids} :
    \A id \in ids : \A b \in Range(programs[id].bytes) : b.universe = u

Sources(inputs) == {i.source : i \in Range(inputs)}
ValidProperty(programs, p) ==
  /\ p.id > 0 /\ p.fixture > 0 /\ p.inputs # <<>>
  /\ p.parameter \in {"pan", "tilt", "dimmer", "zoom"}
  /\ Sources(p.inputs) \subseteq DOMAIN programs
  /\ \A s \in Sources(p.inputs) : /\ Len(programs[s].bytes) \in 1..4
                                  /\ \A b \in Range(programs[s].bytes) : b.address \in 0..(Slots - 1)
  /\ OneUniverse(programs, Sources(p.inputs))

ValidColor(programs, t) ==
  /\ t.fixture > 0 /\ t.target > 0 /\ t.inputs # <<>>
  /\ Sources(t.inputs) \subseteq DOMAIN programs
  /\ \A s \in Sources(t.inputs) : programs[s].bytes # <<>>
  /\ OneUniverse(programs, Sources(t.inputs))

\* The first byte decides the universe of a wheel binding; the others are not
\* looked at.
ValidWheel(scene, programs, b) ==
  /\ b.id > 0 /\ b.fixture > 0 /\ b.target > 0
  /\ b.source \in DOMAIN programs /\ b.wheel \in DOMAIN scene.palettes
  /\ b.mode = "select" => b.sets # <<>>

\* Every program of the activation cascade must be there and in one universe.
ResolvedChain(programs, chain) ==
  /\ None \notin Range(chain)
  /\ OneUniverse(programs, Range(chain))
ValidGobo(programs, b) ==
  /\ b.id > 0 /\ b.fixture > 0 /\ b.target > 0 /\ b.wheel > 0 /\ b.instance > 0 /\ b.sets # <<>>
  /\ b.source \in DOMAIN programs /\ programs[b.source].bytes # <<>>
  /\ ResolvedChain(programs, Chain(programs, b.source))
ValidMotion(programs, b) ==
  /\ b.kind \in {"pos", "rotate"} /\ b.scalar
  /\ b.id > 0 /\ b.target > 0
  /\ b.source \in DOMAIN programs /\ programs[b.source].bytes # <<>>
  /\ ResolvedChain(programs, Chain(programs, b.source))

\* A chain that ends in a repetition is unresolved for a shutter: a master is
\* left over. A layer with one unresolved binding, or bindings of two
\* universes, is refused as a whole.
Layer(b) == <<b.target, b.index>>
ResolvedShutter(programs, b) ==
  /\ b.fixture > 0 /\ b.target > 0 /\ b.index > 0
  /\ ResolvedChain(programs, b.chain)
  /\ LET last == programs[Last(b.chain)] IN last.kind = "none" \/ last.master <= 0
RefusedLayers(programs, bindings) ==
  {Layer(b) : b \in {c \in bindings :
     \/ ~ResolvedShutter(programs, c)
     \/ \E d \in bindings :
          /\ Layer(d) = Layer(c) /\ ResolvedShutter(programs, d)
          /\ UniverseOfBytes(programs[d.source]) # UniverseOfBytes(programs[c.source])}}
AcceptedShutters(programs, bindings) ==
  LET Refused(refused) == Where(bindings, LAMBDA b : Layer(b) \notin refused)
  IN Refused(RefusedLayers(programs, Range(bindings)))

\* Layers with the same control signatures share one authority; it listens
\* through the bindings of the first such layer only.
Signature(b) == [b EXCEPT !.target = 0]
Signatures(bindings, layer) ==
  LET mine == Where(bindings, LAMBDA b : Layer(b) = layer)
  IN {<<s, Cardinality({i \in DOMAIN mine : Signature(mine[i]) = s})>> : s \in {Signature(b) : b \in Range(mine)}}
Representative(bindings, layer) ==
  Layer(FirstOf(bindings, LAMBDA b : Signatures(bindings, Layer(b)) = Signatures(bindings, layer)))

---------------------------------------------------------------------------
(* The installed scene.                                                    *)

ActiveFixtures(scene) == {f \in Range(scene.fixtures) : f.id > 0 /\ f.start \in 1..Slots}
LastOf(s, Test(_)) == Last(SelectSeq(s, Test))
AssetOf(a) == IF a.media /\ ~a.open THEN a.asset ELSE 0
Chained(programs, bindings) == [i \in DOMAIN bindings |-> [bindings[i] EXCEPT !.chain = Chain(programs, bindings[i].source)]]
Representatives(bindings) == [l \in {Layer(b) : b \in Range(bindings)} |-> Representative(bindings, l)]
Accepted(scene, programs, shutters, authority) ==
  [scene |-> scene, programs |-> programs,
   owner |-> Tabulated([id \in {i \in DOMAIN programs : programs[i].bytes # <<>>} |-> UniverseOfBytes(programs[id])]),
   flux |-> [f \in {x.id : x \in ActiveFixtures(scene)} |-> LastOf(scene.fixtures, LAMBDA x : x.id = f).flux],
   assets |-> [k \in {<<a.wheel, a.slot>> : a \in Range(scene.assets)} |->
                 AssetOf(LastOf(scene.assets, LAMBDA x : <<x.wheel, x.slot>> = k))],
   properties |-> Where(scene.properties, LAMBDA p : ValidProperty(programs, p)),
   colors |-> Where(scene.colors, LAMBDA t : ValidColor(programs, t)),
   wheels |-> Where(scene.wheels, LAMBDA b : ValidWheel(scene, programs, b)),
   gobos |-> Where(Chained(programs, scene.gobos), LAMBDA b : ValidGobo(programs, b)),
   motions |-> Where(Chained(programs, scene.motions), LAMBDA b : ValidMotion(programs, b)),
   shutters |-> Where(shutters, LAMBDA b : authority[Layer(b)] = Layer(b)),
   authority |-> authority]

\* What universe u holds of each domain.
InUniverse(core, u, b) == core.owner[b.source] = u
PropertiesOf(core, u) == {i \in DOMAIN core.properties : InUniverse(core, u, core.properties[i].inputs[1])}
ColorsOf(core, u) == {i \in DOMAIN core.colors : InUniverse(core, u, core.colors[i].inputs[1])}
WheelsOf(core, u, key) ==
  Where(core.wheels, LAMBDA b : <<b.target, b.wheel>> = key /\ InUniverse(core, u, b))
GobosOf(core, u, layer) ==
  Where(core.gobos, LAMBDA b : <<b.target, b.instance>> = layer /\ InUniverse(core, u, b))
MotionsOf(core, u, layer) ==
  Where(core.motions, LAMBDA b : <<b.target, b.instance>> = layer /\ InUniverse(core, u, b))
ShuttersOf(core, layer) == Where(core.shutters, LAMBDA b : Layer(b) = layer)

\* add_consumer: a consumer is what a changed source makes dirty; it hangs on
\* its inputs and, where activation counts, on the cascade of each.
Cascade(core, sources) == sources \cup UNION {Range(Chain(core.programs, s)) : s \in sources}
Consumer(domain, key, sources) == [domain |-> domain, key |-> key, sources |-> sources]
ConsumersOf(core, u) ==
  LET Mine(bindings) == {b \in Range(bindings) : InUniverse(core, u, b)}
      Cascading(domain, key, bindings) == Consumer(domain, key, Cascade(core, Sources(bindings)))
  IN {Consumer("property", i, Sources(core.properties[i].inputs)) : i \in PropertiesOf(core, u)}
     \cup {Consumer("color", i, Sources(core.colors[i].inputs)) : i \in ColorsOf(core, u)}
     \cup {Consumer("wheel", <<b.target, b.wheel>>, {b.source}) : b \in Mine(core.wheels)}
     \cup {Cascading("gobo", l, GobosOf(core, u, l)) : l \in {<<b.target, b.instance>> : b \in Mine(core.gobos)}}
     \cup {Cascading("motion", l, MotionsOf(core, u, l)) : l \in {<<b.target, b.instance>> : b \in Mine(core.motions)}}
     \cup {Cascading("shutter", l, ShuttersOf(core, l)) : l \in {Layer(b) : b \in Mine(core.shutters)}}

SourcesOf(consumers) == UNION {c.sources : c \in consumers}
Addresses(core, sources) == UNION {AddressesOf(core.programs[s]) : s \in sources}

\* The plan of a universe: its consumers, the sources they read and
\* interest_offsets. Masters that no consumer reads are left out.
PlanOf(core, consumers) ==
  [consumers |-> consumers, sources |-> SourcesOf(consumers), interest |-> Addresses(core, SourcesOf(consumers))]
Plan(core, u) == PlanOf(core, ConsumersOf(core, u))
\* As ChangedSources, with an index of coarse bytes.
MutChangedSources(core, plan, addresses) == {s \in plan.sources : core.programs[s].bytes[1].address \in addresses}
\* begin_update: the sources that changed addresses reach. The index of the
\* plan ends at the universe's last address.
ChangedSources(core, plan, addresses) ==
  {s \in plan.sources : Addresses(core, {s}) \cap addresses \cap 0..(Slots - 1) # {}}

ReadSources(core) ==
  Sources(core.wheels) \cup Sources(core.gobos) \cup Sources(core.motions) \cup Sources(core.shutters)
  \cup UNION {Sources(p.inputs) : p \in Range(core.properties)}
  \cup UNION {Sources(t.inputs) : t \in Range(core.colors)}
WithPlans(core) ==
  Overlaid([plans |-> Tabulated([u \in {core.owner[s] : s \in ReadSources(core)} |-> Plan(core, u)])], core)
Core(scene) ==
  LET Grouped(programs, shutters) ==
        WithPlans(Accepted(scene, programs, shutters, Tabulated(Representatives(shutters))))
      Resolved(programs) ==
        Grouped(programs, AcceptedShutters(programs, Chained(programs, scene.shutters)))
  IN Resolved(Tabulated(Programs(scene)))

---------------------------------------------------------------------------
\* A scene whose evaluation does not depend on which universe came last or
\* which source changed: properties have their own ids, a fixture has one
\* channel of Pan and of Tilt, what a layer or a wheel is made of comes in one
\* universe, and every source has a byte in it. install_compiled_scene does not
\* ask for it; Pan channels of two yokes, for instance, share one transform.
Separate(core) ==
  LET Together(bindings, Key(_)) ==
        \A b, c \in Range(bindings) : Key(b) = Key(c) => core.owner[b.source] = core.owner[c.source]
  IN /\ \A i, j \in DOMAIN core.properties :
          LET p == core.properties[i] q == core.properties[j]
              Alike == p.fixture = q.fixture /\ p.parameter = q.parameter /\ p.parameter \in {"pan", "tilt"}
          IN p.id = q.id \/ Alike => i = j
     /\ Together(core.wheels, LAMBDA b : <<b.target, b.wheel>>)
     /\ Together(core.gobos, LAMBDA b : <<b.target, b.instance>>)
     /\ Together(core.motions, LAMBDA b : <<b.target, b.instance>>)
     /\ Together(core.shutters, Layer)
     /\ \A u \in DOMAIN core.plans : \A s \in core.plans[u].sources :
          AddressesOf(core.programs[s]) \cap 0..(Slots - 1) # {}
=============================================================================
