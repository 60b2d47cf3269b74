------------------------------- MODULE MCScene -------------------------------
(***************************************************************************)
(* Two small shows for ScenePlayback: a wash whose cells are drawn as one  *)
(* beam and a spot whose wheels are in another universe than its colour.   *)
(***************************************************************************)
EXTENDS ScenePlayback

\* Makers of compiled records.
Byte(universe, address, order) == [universe |-> universe, address |-> address, order |-> order]
Program(id, bytes, from, to, pfrom, pto) ==
  [id |-> id, bytes |-> bytes, from |-> from, to |-> to, pfrom |-> pfrom, pto |-> pto,
   kind |-> "none", master |-> 0, mfrom |-> 0, mto |-> 0, valid |-> TRUE]
Under(p, kind, master, from, to) == [p EXCEPT !.kind = kind, !.master = master, !.mfrom = from, !.mto = to]
From(source) == [source |-> source, weight |-> 1]
Property(id, fixture, parameter, target, geometry, inputs) ==
  [id |-> id, fixture |-> fixture, parameter |-> parameter, target |-> target, geometry |-> geometry, inputs |-> inputs]
ColorInput(source, semantic, emitter, filter, default) ==
  [source |-> source, semantic |-> semantic, emitter |-> emitter, filter |-> filter, default |-> default]
Beam(id, fixture, across, angle) ==
  [id |-> id, fixture |-> fixture, geometry |-> <<"head", id>>, anchor |-> "head", rigid |-> TRUE, valid |-> TRUE,
   projected |-> TRUE, kind |-> "Wash", optics |-> "standard", angle |-> angle, radius |-> 2, flux |-> 1,
   across |-> across, along |-> 0, direction |-> 0, scale |-> Unit, palette |-> TRUE]
Shutter(fixture, target, source, from, to, wave, pfrom, pto, duration) ==
  [fixture |-> fixture, target |-> target, index |-> 1, source |-> source, from |-> from, to |-> to,
   pfrom |-> pfrom, pto |-> pto, wave |-> wave, duration |-> duration, function |-> 0, mode |-> None, chain |-> <<>>]

\* A wash of four cells: 16-bit dimmer, one red and a blue of cell 1, a zoom
\* of two exclusive ranges, a shutter for cells 1 to 3 and one for cell 4.
Wash ==
  [NoScene EXCEPT
   !.programs = <<Program(1, <<Byte(1, 0, 1), Byte(1, 1, 2)>>, 0, 0, 0, Unit),
                  Program(2, <<Byte(1, 2, 1)>>, 0, 0, 0, Unit),
                  Program(3, <<Byte(1, 1, 1)>>, 0, 0, 0, Unit),
                  Program(4, <<Byte(1, 3, 1)>>, 0, 1, 1, 3),
                  Program(5, <<Byte(1, 3, 1)>>, 2, 2, 5, 5),
                  Program(6, <<Byte(1, 3, 1)>>, 0, 2, 0, Unit),
                  Program(7, <<Byte(1, 2, 1)>>, 0, 2, 0, Unit)>>,
   !.fixtures = <<[id |-> 1, start |-> 1, flux |-> 2 * Unit]>>,
   !.properties = <<Property(1, 1, "dimmer", 101, <<"head">>, <<From(1)>>),
                    Property(2, 1, "zoom", 102, <<"head">>, <<From(4), From(5)>>)>>,
   !.emitters = (1 :> <<0, 0, Unit>>),
   !.colors = <<[fixture |-> 1, target |-> 1, additive |-> TRUE,
                 inputs |-> <<ColorInput(2, "ColorAddRed", 0, 0, 0), ColorInput(3, "ColorAddBlue", 1, 0, 0)>>],
                [fixture |-> 1, target |-> 2, additive |-> TRUE, inputs |-> <<ColorInput(2, "ColorAddRed", 0, 0, 0)>>],
                [fixture |-> 1, target |-> 3, additive |-> TRUE, inputs |-> <<ColorInput(2, "ColorAddRed", 0, 0, 0)>>]>>,
   !.shutters = [i \in 1..6 |-> LET cell == (i + 1) \div 2
                                IN IF i % 2 = 1 THEN Shutter(1, cell, 6, 0, 0, "open", 0, 0, 1)
                                   ELSE Shutter(1, cell, 6, 1, 2, "strobe", Unit \div 4, Unit \div 2, Unit)]
                \o <<Shutter(1, 4, 7, 0, 1, "open", 0, 0, 1), Shutter(1, 4, 7, 2, 2, "closed", 0, 0, 1)>>,
   !.beams = <<Beam(1, 1, 0, 25), Beam(2, 1, 4, 25), Beam(3, 1, 2, 25), Beam(4, 1, 6, 25)>>]

\* A spot: dimmer, pan, a subtractive cyan and a filter in universe 1; a
\* colour wheel, a gobo and its motion in universe 2. What the motion channel
\* means depends on the gobo channel.
Spot ==
  [NoScene EXCEPT
   !.programs = <<Program(1, <<Byte(1, 0, 1)>>, 0, 0, 0, Unit),
                  Program(2, <<Byte(1, 1, 1)>>, 0, 0, 0, Unit),
                  Program(3, <<Byte(1, 2, 1)>>, 0, 0, 0, Unit),
                  Program(4, <<Byte(1, 3, 1)>>, 0, 0, -Turn, Turn),
                  Program(5, <<Byte(2, 0, 1)>>, 0, 1, 0, Unit),
                  Program(6, <<Byte(2, 0, 1)>>, 2, 2, Turn \div 3, Turn \div 3),
                  Program(7, <<Byte(2, 1, 1)>>, 0, 2, 0, Unit),
                  Under(Program(8, <<Byte(2, 2, 1)>>, 0, 2, 0, Turn), "channel", 7, 1, 1),
                  Under(Program(9, <<Byte(2, 2, 1)>>, 0, 2, 0, Turn), "channel", 7, 2, 2)>>,
   !.fixtures = <<[id |-> 2, start |-> 1, flux |-> Unit]>>,
   !.properties = <<Property(1, 2, "dimmer", 201, <<"head">>, <<From(1)>>),
                    Property(2, 2, "pan", 202, <<"head">>, <<From(4)>>)>>,
   !.filters = (1 :> [transmission |-> Unit \div 2, light |-> <<Unit, Unit, 0>>]),
   !.palettes = (1 :> <<[slot |-> 1, light |-> White, uniform |-> TRUE],
                        [slot |-> 2, light |-> <<Unit, 0, 0>>, uniform |-> TRUE],
                        [slot |-> 3, light |-> <<0, Unit, 0>>, uniform |-> TRUE]>>),
   !.colors = <<[fixture |-> 2, target |-> 5, additive |-> FALSE,
                 inputs |-> <<ColorInput(2, "ColorSubCyan", 0, 0, 0), ColorInput(3, "CTO", 0, 1, 0)>>]>>,
   !.wheels = <<[id |-> 1, fixture |-> 2, target |-> 5, wheel |-> 1, source |-> 5, mode |-> "select", offset |-> 0,
                 sets |-> <<[from |-> 0, to |-> 0, slot |-> 1], [from |-> 1, to |-> 1, slot |-> 2]>>],
                [id |-> 2, fixture |-> 2, target |-> 5, wheel |-> 1, source |-> 6, mode |-> "index", offset |-> 1,
                 sets |-> <<>>]>>,
   !.gobos = <<[id |-> 1, fixture |-> 2, target |-> 5, wheel |-> 9, instance |-> 1, source |-> 7, chain |-> <<>>,
                sets |-> <<[from |-> 0, to |-> 0, slot |-> 1], [from |-> 1, to |-> 2, slot |-> 2]>>]>>,
   !.motions = <<[id |-> 1, fixture |-> 2, target |-> 5, instance |-> 1, kind |-> "pos", scalar |-> TRUE, source |-> 8,
                  pfrom |-> 0, pto |-> Turn, chain |-> <<>>],
                 [id |-> 2, fixture |-> 2, target |-> 5, instance |-> 1, kind |-> "rotate", scalar |-> TRUE, source |-> 9,
                  pfrom |-> 0, pto |-> Turn, chain |-> <<>>]>>,
   !.assets = <<[wheel |-> 9, slot |-> 2, asset |-> 77, open |-> FALSE, media |-> TRUE]>>,
   !.beams = <<[Beam(5, 2, 0, 25) EXCEPT !.kind = "Spot"]>>]

MCScenes == [wash |-> Wash, spot |-> Spot]
MCFrames == 1 :> {<<0, 0, 0, 0>>, <<0, 1, 2, 2>>, <<0, 2, 1, 1>>, <<2, 1, 2>>} @@
            2 :> {<<0, 0, 0>>, <<1, 1, 1>>, <<2, 2, 2>>, <<1, 2>>}
ASSUME SeparateShows == \A s \in DOMAIN Scenes : Separate(Cores[s])
ASSUME ShutteredShows == \A s \in DOMAIN Scenes : ShutteredAsOne(s)
=============================================================================
