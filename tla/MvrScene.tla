------------------------------ MODULE MvrScene ------------------------------
(***************************************************************************)
(* The import of an MVR scene (native/src/mvr_scene_loader.cpp,            *)
(* dmx/mvr_patch_addresses.h, gdtf_scene_builder.cpp): from the parsed XML *)
(* to the nodes that are shown, the patches of the fixtures and their      *)
(* beams.  Pure operators, no state.                                       *)
(*                                                                         *)
(* A show is None where the archive, its XML, the scene or its layers are  *)
(* not there, else a record: lists (the ChildLists directly below Layers,  *)
(* then those of its Layers, each a sequence of element ids), elements     *)
(* (id -> element) and symdefs (uuid -> Symdef).  Transforms, tables,      *)
(* model files, lens and emitter guesses, letter case and nonstandard      *)
(* spellings are left out.                                                 *)
(***************************************************************************)
EXTENDS SceneCompiler

---------------------------------------------------------------------------
(* Addresses. A malformed number is one below its minimum.                 *)

Absolute(n) == [universe |-> 1 + ((n - 1) \div Slots), address |-> 1 + ((n - 1) % Slots)]
\* The text of an Address: absolute, or universe and address.
WellFormed(a) ==
  /\ ~a.contradictory /\ Or(a.break, 0) >= 0
  /\ IF Len(a.text) = 1 THEN a.text[1] >= 1 ELSE a.text[1] >= 1 /\ a.text[2] \in 1..Slots
AddressOf(a) ==
  [break |-> Or(a.break, 0)]
  @@ (IF Len(a.text) = 1 THEN Absolute(a.text[1]) ELSE [universe |-> a.text[1], address |-> a.text[2]])
\* One more Address: it counts unless one before it was in error; break 0 is
\* the scalar address of the fixture too.
ReadAddress(patch, a) ==
  IF patch.error THEN patch
  ELSE IF ~WellFormed(a) THEN [patch EXCEPT !.error = TRUE]
  ELSE IF \E e \in Range(patch.addresses) : e.break = Or(a.break, 0) THEN [patch EXCEPT !.error = TRUE]
  ELSE LET entry == AddressOf(a)
       IN [patch EXCEPT !.addresses = Append(@, entry),
                        !.universe = IF entry.break = 0 THEN entry.universe ELSE @,
                        !.address = IF entry.break = 0 THEN entry.address ELSE @]
\* read_mvr_patch_addresses: without Addresses the scalar address stays.
ReadAddresses(patch, containers) ==
  LET Read(read) == [read EXCEPT !.error = @ \/ read.addresses = <<>>]
      unset == [patch EXCEPT !.universe = -1, !.address = -1]
  IN IF containers = <<>> THEN patch
     ELSE IF Len(containers) > 1 THEN [unset EXCEPT !.error = TRUE]
     ELSE Read(FoldLeft(ReadAddress, unset, containers[1]))

\* parse_fixture_patch: the absolute address stands in for a scalar one.
ScalarAddress(e) ==
  IF e.absolute > 0 /\ (e.universe <= 0 \/ e.address <= 0) THEN Absolute(e.absolute)
  ELSE [universe |-> e.universe, address |-> e.address]
ParsedPatch(e, id, files) ==
  ReadAddresses([uuid |-> id, gdtf |-> IF e.gdtf \in DOMAIN files THEN e.gdtf ELSE None, mode |-> e.mode,
                 addresses |-> <<>>, error |-> FALSE] @@ ScalarAddress(e),
                e.containers)

---------------------------------------------------------------------------
(* The geometry of a fixture.                                              *)

\* As Below, for references that leave no trace in the path.
MutBelow(path, node) == path
Below(path, node) == Append(path, Or(node.name, "geometry"))
\* The parts below geometry id in document order. A reference stands for its
\* target, the last one of that name; one without a target is skipped. Nothing
\* stops a cycle.
RECURSIVE Parts(_, _, _)
Parts(d, id, path) ==
  LET node == d.nodes[id]
      target == SelectSeq(d.tops, LAMBDA top : d.nodes[top].name = node.target)
      here == Append(path, Or(node.name, "geometry"))
  IN IF node.kind = "GeometryReference"
     THEN IF target = <<>> THEN <<>> ELSE Parts(d, Last(target), Below(path, node))
     ELSE <<[kind |-> node.kind, path |-> here, optics |-> node.optics]>>
          \o FlattenSeq([i \in DOMAIN node.children |-> Parts(d, node.children[i], here)])

\* The geometry a mode starts from: the one it names, else the first. No mode
\* asks for the first mode that names one. None where it cannot be found.
RootName(d, mode) == IF mode = None THEN d.first ELSE d.modes[mode].geometry
RootOf(d, mode) ==
  IF mode # None /\ mode \notin DOMAIN d.modes THEN None
  ELSE IF d.tops = <<>> THEN None
  ELSE IF RootName(d, mode) = None THEN d.tops[1]
  ELSE FirstOf(d.tops, LAMBDA top : d.nodes[top].name = RootName(d, mode))
GeometryParts(d, mode) == IF RootOf(d, mode) = None THEN <<>> ELSE Parts(d, RootOf(d, mode), <<>>)
\* instantiate: the parts of a fixture type under the id of the fixture.
FixtureParts(patch, files) ==
  LET Instance(parts) ==
        [i \in DOMAIN parts |-> [kind |-> parts[i].kind, id |-> patch.uuid \o parts[i].path, uuid |-> patch.uuid,
                                 geometry |-> parts[i].path, optics |-> parts[i].optics]]
  IN IF patch.gdtf = None THEN <<>> ELSE Instance(GeometryParts(files[patch.gdtf], patch.mode))

---------------------------------------------------------------------------
(* The geometry of everything else.                                        *)

\* parse_child_list: the models of Geometry3D elements, and of their children.
RECURSIVE Models(_)
Models(list) ==
  FlattenSeq([i \in DOMAIN list |->
                (IF list[i].model = None THEN <<>> ELSE <<list[i].model>>) \o Models(list[i].children)])
\* parse_symdefs: one without models is not there.
SymdefModels(symdef) == Models(symdef.children) \o Models(symdef.geometries) \o Models(symdef.own)

\* append_geometry_children: the Geometry3D elements, the symbols (the models
\* of a Symdef, else their own), those outside Geometries, and where that is
\* nothing the model of the element itself.
SymbolParts(symdefs, symbol) ==
  LET known == IF symbol.symdef \in DOMAIN symdefs THEN SymdefModels(symdefs[symbol.symdef]) ELSE <<>>
  IN IF known # <<>> THEN known ELSE IF symbol.model # None THEN <<symbol.model>> ELSE <<>>
ElementParts(e, symdefs) ==
  LET symbols == SelectSeq(e.geometries, LAMBDA g : g.kind = "symbol")
      parts == SelectSeq(e.geometries, LAMBDA g : g.kind = "geometry3d")
               \o FlattenSeq([i \in DOMAIN symbols |-> SymbolParts(symdefs, symbols[i])]) \o e.direct
  IN IF parts # <<>> THEN Len(parts) ELSE IF e.model # None THEN 1 ELSE 0

---------------------------------------------------------------------------
(* The scene.                                                              *)

\* node_id: the uuid, else the name and a serial number.
NodeId(e, serial) == IF e.uuid # None THEN <<e.uuid>> ELSE <<e.name, serial>>
Others == {"truss", "support", "sceneobject"}
SceneNode(kind, id) == [kind |-> kind, id |-> id, uuid |-> None, geometry |-> <<>>, optics |-> None]
AddedFixture(done, e, id, files) ==
  LET Of(patch) == [done EXCEPT !.serial = @ + 1, !.patches = Append(@, patch),
                                !.nodes = Append(@, SceneNode("fixture", id)) \o FixtureParts(patch, files)]
  IN Of(ParsedPatch(e, id, files))
AddedOther(done, e, id, symdefs) ==
  LET Of(count) == [done EXCEPT !.serial = @ + 1 + count,
                                !.nodes = Append(@, SceneNode(e.kind, id))
                                          \o [i \in 1..count |-> SceneNode("model_part", id \o <<done.serial + i>>)]]
  IN Of(ElementParts(e, symdefs))
\* An element of another kind only stands for its children.
AddedElement(done, e, show, files) ==
  CASE e.kind = "fixture" -> AddedFixture(done, e, NodeId(e, done.serial), files)
    [] e.kind \in Others -> AddedOther(done, e, NodeId(e, done.serial), show.symdefs)
    [] OTHER -> [done EXCEPT !.serial = @ + 1]
RECURSIVE AddedList(_, _, _, _)
AddedList(done, list, show, files) ==
  FoldLeft(LAMBDA before, id : AddedList(AddedElement(before, show.elements[id], show, files),
                                         show.elements[id].children, show, files),
           done, list)

NoModel == [serial |-> 0, nodes |-> <<>>, patches |-> <<>>, beams |-> <<>>]
\* load_mvr
LoadedModel(show, files) ==
  LET Beams(done) == [done EXCEPT !.beams = SelectSeq(done.nodes, LAMBDA n : n.kind = "Beam")]
  IN IF show = None THEN NoModel
     ELSE Beams(FoldLeft(LAMBDA done, list : AddedList(done, list, show, files), NoModel, show.lists))
=============================================================================
