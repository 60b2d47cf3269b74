--------------------------- MODULE ShutterPlayback ---------------------------
(***************************************************************************)
(* The playback of shutters at the presentation                            *)
(* (native/src/presentation/shutter_playback.h,                            *)
(* presentation_shutter_godot.cpp, presentation_beams_godot.cpp): it       *)
(* adopts the newest parameters of each control authority, samples the     *)
(* active ones on every frame and modulates the beams of their members.    *)
(*                                                                         *)
(* An authority is named by its representative layer. The clock of the     *)
(* playback is set from the first row's timestamp and runs with the        *)
(* runtime's. Projector lights, lenses and footprints follow the same      *)
(* envelopes as the beams.                                                 *)
(***************************************************************************)
EXTENDS DensePresentation

VARIABLES
  authorities,   \* by authority: its parameters and its last value
  stale,         \* dirty_authorities_
  owned,         \* by_owner_: authorities of each output
  envelope,      \* envelopes_ by output
  nominated,     \* dirty_: outputs to look at
  forced,        \* force_: of those, the ones to write whatever their envelope
  lit            \* intensity written to the beam of a row, None before

shutterVars == <<authorities, stale, owned, envelope, nominated, forced, lit>>
Playback == [authorities |-> authorities, stale |-> stale, owned |-> owned, envelope |-> envelope,
             nominated |-> nominated, forced |-> forced]

PlaybackBecomes(next) ==
  /\ authorities' = next.authorities /\ stale' = next.stale /\ owned' = next.owned
  /\ envelope' = next.envelope /\ nominated' = next.nominated /\ forced' = next.forced

ShutterInit ==
  /\ authorities = <<>> /\ stale = {} /\ owned = <<>> /\ envelope = <<>> /\ nominated = {} /\ forced = {}
  /\ lit = <<>>

\* As BindShutters, with the envelopes of the scene before.
MutBindShutters(outputs_, rows_) ==
  /\ authorities' = <<>> /\ stale' = {} /\ nominated' = {} /\ forced' = {}
  /\ owned' = [o \in outputs_ |-> {}]
  /\ envelope' = [o \in outputs_ |-> Unit] @@ envelope
  /\ lit' = [r \in rows_ |-> None]
\* install with the outputs of a scene.
BindShutters(outputs_, rows_) ==
  /\ authorities' = <<>> /\ stale' = {} /\ nominated' = {} /\ forced' = {}
  /\ owned' = [o \in outputs_ |-> {}]
  /\ envelope' = [o \in outputs_ |-> Unit]
  /\ lit' = [r \in rows_ |-> None]

Nominate(playback, owners, force) ==
  LET shuttered == {o \in owners : playback.owned[o] # {}}
  IN [playback EXCEPT !.nominated = @ \cup shuttered, !.forced = IF force THEN @ \cup shuttered ELSE @]

\* ingest: a row for every output that is a member of an authority.
\* shown: the parameters of the emitted authorities; members: their outputs.
Members(authority) == {l[1] : l \in {m \in DOMAIN core.authority : core.authority[m] = authority}} \cap DOMAIN outputs
Known(playback, a) == Held(playback.authorities, a, [parameters |-> NoShutter, value |-> Unit])
IngestShutters(playback, shown, members) ==
  LET fed == {a \in DOMAIN shown : members[a] # {}}
      Newer(a) == shown[a].revision > Known(playback, a).parameters.revision
      Joined(o) == {a \in fed : o \in members[a]}
      new == {o \in DOMAIN playback.owned : Joined(o) \ playback.owned[o] # {}}
  IN Nominate([playback EXCEPT
                 !.authorities =
                   Overlaid([a \in fed |-> IF Newer(a) THEN [Known(playback, a) EXCEPT !.parameters = shown[a]]
                                           ELSE Known(playback, a)], @),
                 !.stale = @ \cup {a \in fed : Newer(a)},
                 !.owned = [o \in DOMAIN @ |-> @[o] \cup Joined(o)]],
              new, TRUE)
ShutterRows(visual_) ==
  [a \in {k[2] : k \in {r \in DOMAIN visual_ : r[1] = "shutter"}} |-> visual_[<<"shutter", a>>]]
Ingest(playback, visual_) ==
  LET Fed_(shown) == IngestShutters(playback, shown, Tabulated([a \in DOMAIN shown |-> Members(a)]))
  IN Fed_(ShutterRows(visual_))

\* tick: the active and the changed authorities are sampled once, and the
\* outputs of those that differ take the product of their authorities.
Sampled(playback) ==
  {a \in DOMAIN playback.authorities :
     LET command == playback.authorities[a].parameters.command
     IN a \in playback.stale \/ (Periodic(command.wave) /\ command.frequency > 0)}
ProductOf(values) == FoldSet(LAMBDA a, product : (product * values[a]) \div Unit, Unit, DOMAIN values)
Product(playback, o) == ProductOf([a \in playback.owned[o] |-> playback.authorities[a].value])
Settled(told, products) ==
  [playback |-> [told EXCEPT !.envelope = Overlaid(products, @), !.stale = {}, !.nominated = {}, !.forced = {}],
   changed |-> {o \in told.nominated : o \in told.forced \/ products[o] # told.envelope[o]}]
Told(valued, turned) ==
  Nominate(valued, {o \in DOMAIN valued.owned : valued.owned[o] \cap turned # {}}, FALSE)
Advanced(playback) ==
  LET Combined(told) == Settled(told, Tabulated([o \in told.nominated |-> Product(told, o)]))
      Turned(values, turned) ==
        Combined(Told([playback EXCEPT !.authorities = Overlaid([a \in turned |-> [@[a] EXCEPT !.value = values[a]]], @)],
                      turned))
      Valued(values) == Turned(values, {a \in DOMAIN values : values[a] # playback.authorities[a].value})
  IN Valued(Tabulated([a \in Sampled(playback) |-> ShutterEnvelope(playback.authorities[a].parameters, now')]))

\* apply_beams: a written row shows its beam unmodulated until its shutters are
\* advanced, and has its outputs looked at.
Unmodulated(snapshot) ==
  [r \in DOMAIN snapshot.screen |-> IF r \in snapshot.written THEN snapshot.screen[r].energy ELSE Held(lit, r, None)]
\* As Published, without forcing.
MutPublished(playback, snapshot) ==
  Nominate(playback, UNION {snapshot.layout[r].members : r \in snapshot.written}, FALSE)
Published(playback, snapshot) ==
  Nominate(playback, UNION {snapshot.layout[r].members : r \in snapshot.written}, TRUE)

\* advance_shutters: the first changed output of a row modulates its beam. The
\* order of the changed outputs depends on that of unordered maps. An intensity
\* times one is itself.
Dimmed(intensity, share) == IF share = Unit THEN intensity ELSE (intensity * share) \div Unit
Modulate(next, screen_, layout_, lit_) ==
  LET rows_ == {r \in DOMAIN layout_ : screen_[r] # None /\ layout_[r].members \cap next.changed # {}}
  IN /\ PlaybackBecomes(next.playback)
     /\ \E first \in [rows_ -> next.changed] :
          /\ \A r \in rows_ : first[r] \in layout_[r].members
          /\ lit' = Overlaid([r \in rows_ |-> Dimmed(screen_[r].energy, next.playback.envelope[first[r]])], lit_)
Advance(playback, screen_, layout_, lit_) == Modulate(Advanced(playback), screen_, layout_, lit_)
=============================================================================
