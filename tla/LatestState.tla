---------------------------- MODULE LatestState ----------------------------
(***************************************************************************)
(* What realtime playback promises, as docs/realtime-dmx-runtime.md sums   *)
(* it up: latest state, no queue. A universe's packets may be skipped, but *)
(* whatever is fetched is the latest one and is shown after everything     *)
(* fetched before it, and a universe whose shown state is not the latest   *)
(* one is fetched again.                                                   *)
(***************************************************************************)
EXTENDS Naturals

CONSTANTS
  Universes, Offsets, Bytes, ZeroByte,
  NoPayload       \* "nothing"

VARIABLES
  relevant,   \* offsets the scene reads, per universe
  sent,       \* the last packet of every universe
  known,      \* universes whose last packet the scene may fetch
  transit,    \* the state fetched and not yet shown
  shown       \* the state shown

vars == <<relevant, sent, known, transit, shown>>

Payload == [Offsets -> Bytes]
Nothing == [u \in Universes |-> NoPayload]

(* The part of a packet that the scene reads. *)
Mask(data, offsets) ==
  [o \in Offsets |-> IF o \in offsets THEN data[o] ELSE ZeroByte]

Latest(u) == Mask(sent[u], relevant[u])

(* The newest state of u on its way to the screen or on it. *)
Newest(u) == IF transit[u] # NoPayload THEN transit[u] ELSE shown[u]

Init ==
  /\ relevant = [u \in Universes |-> {}]
  /\ sent = Nothing
  /\ known = {}
  /\ transit = Nothing
  /\ shown = Nothing

Send(u, data) ==
  /\ sent' = [sent EXCEPT ![u] = data]
  /\ known' \in {known, known \cup {u}}
  /\ UNCHANGED <<relevant, transit, shown>>

Fetch(S) ==
  /\ S \subseteq known
  /\ transit' = [u \in Universes |-> IF u \in S THEN Latest(u) ELSE transit[u]]
  /\ UNCHANGED <<relevant, sent, known, shown>>

Show ==
  /\ shown' = [u \in Universes |->
                 IF transit[u] # NoPayload THEN transit[u] ELSE shown[u]]
  /\ transit' = Nothing
  /\ UNCHANGED <<relevant, sent, known>>

(* The scene is compiled again. *)
Refresh(offsets) ==
  /\ relevant' = offsets
  /\ transit' = Nothing
  /\ shown' = Nothing
  /\ UNCHANGED <<sent, known>>

(* States that prove too little for the new scene are forgotten. *)
Distrust(S) ==
  /\ known' = known \ S
  /\ UNCHANGED <<relevant, sent, transit, shown>>

EndSession ==
  /\ sent' = Nothing
  /\ known' = {}
  /\ UNCHANGED <<relevant, transit, shown>>

Next ==
  \/ \E u \in Universes, data \in Payload : Send(u, data)
  \/ \E S \in SUBSET Universes : Fetch(S) \/ Distrust(S)
  \/ Show
  \/ \E offsets \in [Universes -> SUBSET Offsets] : Refresh(offsets)
  \/ EndSession

FetchStale(u) ==
  /\ u \in known
  /\ Newest(u) # Latest(u)
  /\ \E S \in SUBSET Universes : u \in S /\ Fetch(S)

Fairness ==
  /\ \A u \in Universes : WF_vars(FetchStale(u))
  /\ WF_vars(Show)

SafetySpec == Init /\ [][Next]_vars
Spec == SafetySpec /\ Fairness
=============================================================================
