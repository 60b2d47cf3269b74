--------------------------- MODULE MCImportedScene ---------------------------
(***************************************************************************)
(* A small instance of ImportedScene: five addresses of three values,      *)
(* seven files and three fixture types. Bar has one cell in two references *)
(* whose functions depend on the control channel of their own cell; Spot   *)
(* has wheels, gobos, a CTO function that names a wheel and an address of  *)
(* one universe; Strobe lies in two or in one and reads one frequency      *)
(* under the modes of another channel, one under a single mode function.   *)
(***************************************************************************)
EXTENDS ImportedScene

\* stable_id: a hash of what is hashed, as a name and its numbers.
Names == <<"fixture", "property", "component", "target", "beam", "emitter", "filter", "palette", "wheel", "gobo",
           "motion", "gobo wheel", "gobo asset", "pan", "tilt", "dimmer", "zoom", "Base", "Left", "Right", "Cell",
           "Lamp", "Body", "Head", "Lens", "a", "b", "c", "Bar", "Spot", "Strobe", "dots", 1, 2, 3, 4, 5, 6, 7, 8, 9, 10,
           11, 12, 13, 14, 15, 16>>
Codes == [name \in {ToString(Names[i]) : i \in DOMAIN Names} |-> Position(Names, LAMBDA n : ToString(n) = name)]
MCStableId(owner, label) ==
  FoldLeft(LAMBDA hash, x : ((hash * 61) + Codes[ToString(x)]) % 30000001, 7, owner \o label) + 1

---------------------------------------------------------------------------
(* Fixture types.                                                          *)

V(n) == [value |-> n, bytes |-> 1, shift |-> FALSE]
Function(attribute, name, start) ==
  [attribute |-> attribute, name |-> name, start |-> V(start), end |-> None, pfrom |-> None, pto |-> None,
   wheel |-> None, emitter |-> None, filter |-> None, master |-> None, mfrom |-> None, mto |-> None, sets |-> <<>>]
Set(start, slot, name) == [start |-> V(start), slot |-> slot, name |-> name, pfrom |-> None, pto |-> None]
Mastered(f, master, from, to) == [f EXCEPT !.master = master, !.mfrom = V(from), !.mto = V(to)]
Channel(geometry, offsets, break, attribute, functions) ==
  [offsets |-> offsets, break |-> break, geometry |-> geometry,
   logicals |-> <<[attribute |-> attribute, snap |-> FALSE, functions |-> functions]>>]
Node(name, kind, children) ==
  [name |-> name, kind |-> kind, target |-> None, breaks |-> <<>>, children |-> children,
   optics |-> [kind |-> None, flux |-> None]]
Reference(name, target, breaks) == [Node(name, "GeometryReference", <<>>) EXCEPT !.target = target, !.breaks = breaks]
Type(tops, nodes, modes) ==
  [tops |-> tops, nodes |-> nodes, first |-> None, emitters |-> <<>>, filters |-> <<>>, wheels |-> <<>>, modes |-> modes]

\* Bar: the shutter of a cell is read one way or the other as its control says.
Normal == <<"Cell", "Control", "Control", <<"normal">>>>
Special == <<"Cell", "Control", "Control", <<"special">>>>
Bar ==
  Type(<<"base", "cell">>,
       [base |-> Node("Base", "Geometry", <<"left", "right">>),
        left |-> Reference("Left", "Cell", <<[break |-> 1, offset |-> 1]>>),
        right |-> Reference("Right", "Cell", <<[break |-> 1, offset |-> 3]>>),
        cell |-> Node("Cell", "Geometry", <<"lamp">>), lamp |-> Node("Lamp", "Beam", <<>>)],
       [basic |->
          [geometry |-> "Base",
           channels |-> <<
             Channel("Cell", <<1>>, 1, "Control", <<Function(None, "normal", 0), Function(None, "special", 1)>>),
             Channel("Cell", <<2>>, 1, "Shutter1",
                     <<[Mastered(Function(None, "plain", 0), Normal, 0, 0) EXCEPT
                          !.sets = <<Set(0, 0, "closed"), Set(1, 0, "open")>>],
                       Mastered(Function("Shutter1Strobe", "strobe", 0), Special, 1, 2)>>),
             Channel("Base", <<5>>, 1, "Dimmer", <<Function(None, None, 0)>>)>>]])

\* Spot: a position of two bytes, a gobo that is turned above the middle and a
\* colour wheel behind a filter, whose last slot serves as CTO: a colour, and
\* no wheel by its name.
OpenSlot == [color |-> None, malformed |-> FALSE, filter |-> None, media |-> None, extracted |-> FALSE, other |-> FALSE]
Spot ==
  [Type(<<"body">>,
        [body |-> Node("Body", "Geometry", <<"head">>), head |-> Node("Head", "Axis", <<"lens">>),
         lens |-> [Node("Lens", "Beam", <<>>) EXCEPT !.optics = [kind |-> "Spot", flux |-> 5]]],
        [basic |->
           [geometry |-> "Body",
            channels |-> <<
              Channel("Body", <<1, 2>>, 1, "Pan", <<Function(None, None, 0)>>),
              Channel("Head", <<3>>, 1, "Gobo1",
                      <<[Function(None, "select", 0) EXCEPT !.wheel = "gobos", !.sets = <<Set(0, 1, None), Set(1, 2, None)>>],
                        [Function("Gobo1PosRotate", "rotate", 2) EXCEPT !.wheel = "gobos", !.pfrom = 0, !.pto = 16]>>),
              Channel("Head", <<4>>, 1, "Color1",
                      <<[Function(None, "select", 0) EXCEPT !.wheel = "colors", !.sets = <<Set(0, 1, None), Set(1, 2, None)>>],
                        [Function("CTO", "warm", 2) EXCEPT !.wheel = "colors"]>>),
              Channel("Lens", <<5>>, 1, "Dimmer", <<Function(None, None, 0)>>)>>]]) EXCEPT
     !.filters = <<[name |-> "red", color |-> [shape |-> <<Unit, 0, 0>>, y |-> 4], measurements |-> <<>>,
                    light |-> <<Unit, 0, 0>>]>>,
     !.wheels = <<[name |-> "gobos", slots |-> <<OpenSlot, [OpenSlot EXCEPT !.media = "dots", !.extracted = TRUE]>>],
                  [name |-> "colors", slots |-> <<OpenSlot, [OpenSlot EXCEPT !.filter = "red"]>>]>>]

\* Strobe: the slow frequency means what the mode channel selects, the fast
\* one needs one function of it, which is no program of its own; a colour lies
\* in a second break.
ModeChannel == <<"Lamp", "StrobeModeShutter">>
FastMode == ModeChannel \o <<"StrobeModeShutter", <<"fast strobe">>>>
Strobe ==
  [Type(<<"lamp">>, [lamp |-> [Node("Lamp", "Beam", <<>>) EXCEPT !.optics = [kind |-> "Wash", flux |-> None]]],
        [basic |->
           [geometry |-> "Lamp",
            channels |-> <<
              Channel("Lamp", <<1>>, 1, "StrobeModeShutter",
                      <<Function(None, "open", 0), Function("StrobeModeStrobe", "strobe", 1),
                        Function("StrobeModeStrobe", "fast strobe", 2)>>),
              Channel("Lamp", <<2>>, 1, "StrobeFrequency",
                      <<[Mastered(Function(None, "speed", 0), ModeChannel, 1, 1) EXCEPT !.pfrom = 1, !.pto = 8],
                        [Mastered(Function(None, "fast speed", 0), FastMode, 2, 2) EXCEPT !.pfrom = 8, !.pto = 16]>>),
              Channel("Lamp", <<1>>, 2, "ColorAdd_R", <<[Function(None, None, 0) EXCEPT !.emitter = "red"]>>)>>]]) EXCEPT
     !.emitters = <<[name |-> "red", light |-> <<Unit, 0, 0>>]>>]
MCGdtf == [Bar |-> Bar, Spot |-> Spot, Strobe |-> Strobe]
MCGdtfs == DOMAIN MCGdtf

---------------------------------------------------------------------------
(* Archives. The media of Spot is found by its stem and an image of another *)
(* case is dropped; Bar has a model that two entries claim, and textures    *)
(* beside it.                                                              *)

Stored(path) == [path |-> path, readable |-> TRUE, holds |-> None]
Description == Stored(File(<<>>, "description", "xml"))
Standard == <<"models", "3ds", "default">>
MCArchives ==
  [Bar |-> [entries |-> <<Description, Stored(File(Standard, "bar", "3ds")), Stored(File(Standard, "cell", "3ds")),
                          Stored([File(Standard, "cell", "3ds") EXCEPT !.spelling = "odd"]),
                          Stored(File(Standard \o <<"maps">>, "skin", "png"))>>,
            models |-> <<File(<<>>, "bar", None), File(<<>>, "cell", None),
                         [File(<<>>, "cell", None) EXCEPT !.spelling = "odd"]>>,
            media |-> <<>>],
   Spot |-> [entries |-> <<Description, Stored(File(<<"pictures">>, "dots", "jpg")),
                           Stored(File(<<"pictures", "wheels">>, "dots", "jpg")),
                           Stored(File(<<"wheels">>, "lens", "png")),
                           Stored([File(<<"wheels">>, "lens", "png") EXCEPT !.spelling = "capital"])>>,
             models |-> <<File(<<>>, "head", None)>>, media |-> <<File(<<>>, "dots", "png")>>],
   Strobe |-> [entries |-> <<>>, models |-> <<File(<<>>, "lamp", None)>>, media |-> <<>>],
   bars |-> [entries |-> <<[Stored(File(<<"gdtf">>, "Bar", "gdtf")) EXCEPT !.holds = "Bar"]>>,
             specs |-> <<File(<<>>, "Bar", None)>>, models |-> <<>>],
   spots |-> [entries |-> <<[Stored(File(<<>>, "Spot", "gdtf")) EXCEPT !.holds = "Spot"]>>,
              specs |-> <<[File(<<>>, "Spot", "gdtf") EXCEPT !.spelling = "capital"]>>, models |-> <<>>],
   strobes |-> [entries |-> <<[Stored(File(<<>>, "Strobe", "gdtf")) EXCEPT !.holds = "Strobe"]>>,
                specs |-> <<File(<<>>, "Strobe", None)>>, models |-> <<>>],
   trusses |-> [entries |-> <<Stored(File(<<>>, "m", "glb")), [Stored(File(<<>>, "n", "png")) EXCEPT !.readable = FALSE],
                              Stored(File(<<>>, "o", "png"))>>,
                specs |-> <<>>, models |-> <<File(<<>>, "m", None)>>],
   nothing |-> [entries |-> <<>>, specs |-> <<>>, models |-> <<>>]]
MCArchiveOf == [f \in DOMAIN MCArchives \ DOMAIN MCGdtf |-> f] @@ [broken |-> "bars"]

---------------------------------------------------------------------------
(* Shows.                                                                  *)

Element(kind, uuid, children) ==
  [kind |-> kind, uuid |-> uuid, name |-> kind, gdtf |-> None, mode |-> None, universe |-> 0, address |-> 0,
   absolute |-> 0, containers |-> <<>>, geometries |-> <<>>, direct |-> <<>>, model |-> None, children |-> children]
Address(break, text) == [break |-> break, text |-> text, contradictory |-> FALSE]
Fixture(uuid, gdtf, addresses) ==
  [Element("fixture", uuid, <<>>) EXCEPT !.gdtf = gdtf, !.mode = "basic", !.containers = <<addresses>>]
Scene1(elements, list) == [lists |-> <<list>>, elements |-> elements, symdefs |-> <<>>]

\* Two bars of one universe; the second one does not fit.
Bars == Scene1([a |-> Fixture("a", "Bar", <<Address(None, <<1>>)>>), b |-> Fixture("b", "Bar", <<Address(0, <<1, 2>>)>>)],
               <<"a", "b">>)
\* A spot in a group whose address is given as an attribute.
Spots == Scene1([g |-> Element("group", None, <<"a">>),
                 a |-> [Fixture("a", "Spot", <<>>) EXCEPT !.containers = <<>>, !.absolute = 6]], <<"g">>)
\* A strobe in two universes, one without an address for its second break and
\* one in a single universe.
Strobes == Scene1([a |-> Fixture("a", "Strobe", <<Address(0, <<1, 1>>), Address(1, <<2, 3>>)>>),
                   b |-> Fixture("b", "Strobe", <<Address(0, <<1, 3>>)>>),
                   c |-> Fixture("c", "Strobe", <<Address(0, <<1, 3>>), Address(1, <<1, 5>>)>>)], <<"a", "b", "c">>)
\* A truss whose symbol stands for a symdef.
Trusses == [Scene1([t |-> [Element("truss", None, <<>>) EXCEPT
                             !.geometries = <<[kind |-> "symbol", symdef |-> "s", model |-> None]>>]], <<"t">>) EXCEPT
              !.symdefs = [s |-> [children |-> <<[model |-> "m", children |-> <<>>]>>, geometries |-> <<>>, own |-> <<>>]]]
MCShows == [bars |-> Bars, spots |-> Spots, strobes |-> Strobes, trusses |-> Trusses, nothing |-> None, broken |-> Bars]
MCPresent == DOMAIN MCShows
\* Only the spots have fixtures whose offsets the bindings resolve.
MCCompiledGdtfs ==
  [f \in MCPresent |-> CASE f \in {"bars", "broken"} -> {"Bar"} [] f = "spots" -> {"Spot"} [] f = "strobes" -> {"Strobe"}
                         [] OTHER -> {}]
MCBoundGdtfs == [f \in MCPresent |-> IF f = "spots" THEN {"Spot"} ELSE {}]
MCFiles == MCPresent \cup {"missing"}
MCFrames == [1..Slots -> 0..(Radix - 1)]
MCOffsets == {-1, 0}
ASSUME SeparateShows == \A f \in Present, o \in Offsets : Separate(InstalledCores[f, o])
=============================================================================
