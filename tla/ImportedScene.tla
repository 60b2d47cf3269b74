---------------------------- MODULE ImportedScene ----------------------------
(***************************************************************************)
(* A session of loads with what it loads: MvrScene imports the show of a   *)
(* file, SceneAssets keeps its files, SceneCompiler compiles it and        *)
(* SceneInstall installs it.  The import walks the geometry of a fixture   *)
(* type, the compilation expands it over its DMX channels, and the runtime *)
(* evaluates what arrives: three readers of one description that have to   *)
(* agree.                                                                  *)
(***************************************************************************)
EXTENDS MvrScene, SceneAssets

CONSTANTS Shows,   \* file -> show, for the files that are there
          Gdtf,    \* GDTF file, by its content -> description
          Frames   \* DMX frames

Imported == Tabulated([f \in Present |-> LoadedModel(Shows[f], Gdtf)])

---------------------------------------------------------------------------
(* What the files of a show have to do with its archives.                  *)

\* The GDTF files of a show and the images of a GDTF are those its archive
\* gives.
SpecsOf(f) == {patch.gdtf : patch \in Range(Imported[f].patches)} \ {None}
SlotsWithMedia(g) ==
  SelectSeq(FlattenSeq([i \in DOMAIN Gdtf[g].wheels |-> Gdtf[g].wheels[i].slots]), LAMBDA slot : slot.media # None)
MediaAssumption ==
  /\ \A f \in Present : SpecsOf(f) = {e.holds : e \in MvrOf[ArchiveOf[f]].handed} \ {None}
  /\ \A g \in DOMAIN Gdtf :
       LET slots == SlotsWithMedia(g)
           media == Archives[g].media
       IN /\ DOMAIN slots = DOMAIN media
          /\ \A i \in DOMAIN slots : slots[i].extracted <=> MediaEntry(Index(Archives[g].entries), media[i]) # {}
ASSUME MediaAssumption

\* unsupported_gdtf_patch: one break, references that move nothing, and no
\* channel of a geometry that is there twice.
Unmoved(reference) == \A b \in Range(reference.breaks) : b.break = 1 /\ b.offset = 1
Targets(d, node) == SelectSeq(d.tops, LAMBDA top : node.kind = "GeometryReference" /\ d.nodes[top].name = node.target)
Visited(d, top) ==
  LET Children(ids) == UNION {Range(d.nodes[id].children \o Targets(d, d.nodes[id])) : id \in ids}
  IN FoldLeft(LAMBDA ids, round : ids \cup Children(ids), {top}, SetToSeq(DOMAIN d.nodes))
Occurrences(d, top, name) == Cardinality({part \in DOMAIN Parts(d, top, <<>>) : Last(Parts(d, top, <<>>)[part].path) = name})
OffsetsSupported(d, mode) ==
  LET selected == SelectSeq(d.tops, LAMBDA top : d.nodes[top].name = mode.geometry)
  IN /\ \A c \in Range(mode.channels) : c.offsets # None => c.break = 1
     /\ selected # <<>> =>
          /\ \A id \in Visited(d, Last(selected)) : d.nodes[id].kind = "GeometryReference" => Unmoved(d.nodes[id])
          /\ \A c \in Range(mode.channels) : Occurrences(d, Last(selected), c.geometry) <= 1

\* The GDTFs a compilation reads the wheels of, and those the bindings resolve
\* the offsets of: fixtures with one scalar address.
ModesOf(patch) == IF patch.gdtf = None THEN <<>> ELSE Gdtf[patch.gdtf].modes
Compilable(patch) ==
  IF Patched(patch) /\ patch.mode \in DOMAIN ModesOf(patch) THEN AddressesValid(ModesOf(patch)[patch.mode]) ELSE FALSE
Bindable(patch) ==
  /\ ~patch.error /\ \A i \in DOMAIN patch.addresses : i = 1 /\ patch.addresses[i].break = 0
  /\ patch.universe > 0 /\ patch.address \in 1..Slots
  /\ IF patch.mode \in DOMAIN ModesOf(patch) THEN OffsetsSupported(Gdtf[patch.gdtf], ModesOf(patch)[patch.mode])
     ELSE FALSE
GdtfsToCompile ==
  Tabulated([f \in Present |-> {p.gdtf : p \in {q \in Range(Imported[f].patches) : Compilable(q)}}])
GdtfsToBind ==
  Tabulated([f \in Present |-> {p.gdtf : p \in {q \in Range(Imported[f].patches) : Bindable(q)}}])
\* The parameters of SceneImport and SceneAssets are what the shows say.
SessionAssumption ==
  /\ Nodeless = {f \in Present : Imported[f].nodes = <<>>}
  /\ Gdtfs = DOMAIN Gdtf /\ CompiledGdtfs = GdtfsToCompile /\ BoundGdtfs = GdtfsToBind
ASSUME SessionAssumption

---------------------------------------------------------------------------
(* What is compiled and installed.                                         *)

\* What the runtime gets when file f is compiled for offset o.
FixturesOf == Tabulated([f \in Present, o \in Offsets |-> CompiledFixtures(Imported[f], Gdtf, o)])
CompiledScenes == Tabulated([f \in Present, o \in Offsets |-> Transported(SceneOf(FixturesOf[f, o], o))])
InstalledCores == Tabulated([f \in Present, o \in Offsets |-> Core(CompiledScenes[f, o])])

\* P holds of what is installed, if anything is.
OfInstalled(P) == IF runtime = Nothing THEN TRUE ELSE IF runtime.file = Nothing THEN TRUE ELSE P[runtime.file, runtime.offset]

---------------------------------------------------------------------------

\* What a fixture type means, whatever the compiler numbered: the master of a
\* function is what its link names in its own reference, else outside of all.
Masters(programs, p) ==
  LET named == {q \in Range(programs) : p.link \in {q.node, SubSeq(q.node, 1, 2)}}
      own == {q \in named : q.channel[1] = p.channel[1]}
  IN IF own # {} THEN own ELSE {q \in named : q.channel[1] = <<>>}
\* A function is active while its own range holds and its master is in the
\* range of the condition, where a master function has to be active itself.
\* raw is the value of every program's channel; a round goes one master further.
ActiveFunctions(programs, raw) ==
  LET Mastered(active, p) ==
        \E q \in Masters(programs, p) : /\ raw[q.number] \in p.condition.mfrom..p.condition.mto
                                        /\ q.node = p.link => q.number \in active
      Holds(active, p) == Within(raw[p.number], p) /\ p.condition.valid /\ (p.link = None \/ Mastered(active, p))
  IN FoldLeft(LAMBDA active, round : {i \in DOMAIN programs : Holds(active, programs[i])}, {}, programs)

\* The value of program i of a fixture in a frame, and the same read by the
\* runtime.
FixtureRaw(fx, o, frame) ==
  [i \in DOMAIN fx.programs |-> ReadRaw(frame, [bytes |-> SourceBytes(fx.patch, fx.programs[i], o)])]
RuntimeRaw(programs, frame) == [id \in DOMAIN programs |-> ReadRaw(frame, programs[id])]
SameActivation(fx, programs, active, raw) ==
  \A k \in DOMAIN fx.uses :
    IsSource(fx.uses[k]) =>
      (Active(programs, Chain(programs, fx.base + k - 1), raw) <=> fx.uses[k].program \in active)
ActivationAgrees ==
  LET Agrees(fixtures, o, programs) ==
        \A frame \in Frames : \A fx \in Range(fixtures) :
          SameActivation(fx, programs, ActiveFunctions(fx.programs, FixtureRaw(fx, o, frame)), RuntimeRaw(programs, frame))
  IN Tabulated([f \in Present, o \in Offsets |-> Agrees(FixturesOf[f, o], o, InstalledCores[f, o].programs)])
\* Of every fixture that is installed, the channel functions that are active
\* in the runtime are those whose ModeMaster the fixture type says are active,
\* in every geometry instance (expand_instance_dmx_routes, finalize_fixture_
\* activations, is_channel_function_active).
ActivationIsModeMaster == OfInstalled(ActivationAgrees)

\* The beams that the import found in a fixture and those that the routes of
\* its channels lead to.
BeamsOf(f, uuid) == {b.geometry : b \in {c \in Range(Imported[f].beams) : c.uuid = uuid}}
RoutesOf(fx) ==
  LET mode == fx.d.modes[fx.patch.mode]
      origin == SelectSeq(fx.d.tops, LAMBDA top : fx.d.nodes[top].name = mode.geometry)
  IN IF origin = <<>> THEN <<>> ELSE Routes(fx.d, origin[1], Top)
RoutedBeams(fx) == {r.path : r \in {q \in Range(RoutesOf(fx)) : fx.d.nodes[q.id].kind = "Beam"}}
BeamsAgree ==
  Tabulated([f \in Present, o \in Offsets |->
               \A fx \in Range(FixturesOf[f, o]) : BeamsOf(f, fx.patch.uuid) = RoutedBeams(fx)])
\* The import and the compiler name the same beams: every beam in the scene
\* tree is reached by the routes of its fixture's channels and every route
\* ends at a beam that is there (append_geometry and visit walk the geometry
\* separately).
RoutesReachBeams == OfInstalled(BeamsAgree)

Single(fx) == Cardinality({a.universe : a \in Range(fx.patch.addresses)}) <= 1
Evaluated(motions) == {i \in DOMAIN motions : motions[i].scalar /\ motions[i].kind \in {"pos", "rotate"}}
\* Everything of fixture id in a compiled scene is accepted, and its programs
\* have their masters.
EverythingAccepted(id, programs, scene, installed) ==
  LET Mine(bindings) == Where(bindings, LAMBDA b : b.fixture = id)
      Accepts(domain) == DOMAIN Mine(installed[domain]) = DOMAIN Mine(scene[domain])
      shutters == Mine(Chained(installed.programs, scene.shutters))
  IN /\ \A domain \in {"properties", "colors", "wheels", "gobos"} : Accepts(domain)
     /\ DOMAIN Mine(installed.motions) = Evaluated(Mine(scene.motions))
     /\ RefusedLayers(installed.programs, Range(shutters)) = {}
     /\ \A p \in programs : p.kind = "invalid" \/ (p.valid /\ installed.programs[p.id].bytes = p.bytes)
ProgramsOf(fx, o) == Range(RuntimePrograms(fx.patch, fx.programs, fx.uses, fx.base, o))
NothingRefused ==
  Tabulated([f \in Present, o \in Offsets |->
               \A fx \in Range(FixturesOf[f, o]) :
                 Single(fx) => EverythingAccepted(fx.id, ProgramsOf(fx, o), CompiledScenes[f, o], InstalledCores[f, o])])
\* What the compiler makes of a fixture that lies in one universe, the runtime
\* accepts: no addresses beyond the universe, and every ModeMaster that the
\* fixture type resolves has its master among the installed programs
\* (validate_resolved_addresses and append_activation_master_sources against
\* install_compiled_scene).
NothingCompiledIsRefused == OfInstalled(NothingRefused)
=============================================================================
