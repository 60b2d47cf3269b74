--------------------------- MODULE FullEvaluation ---------------------------
(***************************************************************************)
(* What the visual runtime promises: the physical state and the rows of a  *)
(* scene that decodes every source from the newest frame of its universe   *)
(* and evaluates every consumer at each consume - without a cache, last    *)
(* values, dirty sets or workers. VisualRuntime refines it. What an        *)
(* evaluation computes is a parameter, a function of the scene, the frame, *)
(* the time and what is held.                                              *)
(***************************************************************************)
EXTENDS Integers

CONSTANTS
  None,
  Cores,                            \* what is installed of each scene
  NothingHeld,                      \* the physical state of a new scene
  FullUpdate(_, _, _, _, _, _),     \* core, universe, bytes, now, held state, rows: what becomes of both
  Frames, MaxFrames, MaxNow
VARIABLES installed, frame, pending, held, todo, visual, now, submitted
vars == <<installed, frame, pending, held, todo, visual, now, submitted>>

Plans == IF installed = None THEN <<>> ELSE Cores[installed].plans
Universes == DOMAIN Frames

Init ==
  /\ installed = None /\ frame = [u \in Universes |-> <<>>] /\ pending = {}
  /\ held = NothingHeld /\ todo = None /\ visual = <<>> /\ now = 0 /\ submitted = 0

Replace(s) ==
  /\ todo = None
  /\ installed' = s
  /\ frame' = [u \in Universes |-> <<>>] /\ pending' = {} /\ held' = NothingHeld /\ now' = 0
  /\ UNCHANGED <<todo, visual, submitted>>

Submit(u, bytes) ==
  /\ todo = None /\ submitted < MaxFrames /\ submitted' = submitted + 1
  /\ IF u \in DOMAIN Plans /\ bytes # <<>>
     THEN frame' = [frame EXCEPT ![u] = bytes] /\ pending' = pending \cup {u}
     ELSE UNCHANGED <<frame, pending>>
  /\ UNCHANGED <<installed, held, todo, visual, now>>

Tick == now < MaxNow /\ now' = now + 1 /\ UNCHANGED <<installed, frame, pending, held, todo, visual, submitted>>

BeginConsume ==
  /\ todo = None /\ installed # None
  /\ todo' = pending /\ visual' = <<>>
  /\ UNCHANGED <<installed, frame, pending, held, now, submitted>>

Shown(next) == held' = next.held /\ visual' = next.rows
Evaluate(u) ==
  /\ todo # None /\ u \in todo
  /\ todo' = todo \ {u} /\ pending' = pending \ {u}
  /\ Shown(FullUpdate(Cores[installed], u, frame[u], now, held, visual))
  /\ UNCHANGED <<installed, frame, now, submitted>>

EndConsume == todo = {} /\ todo' = None /\ UNCHANGED <<installed, frame, pending, held, visual, now, submitted>>

Next ==
  \/ \E s \in DOMAIN Cores \cup {None} : Replace(s)
  \/ \E u \in Universes, bytes \in UNION {Frames[v] : v \in Universes} : Submit(u, bytes)
  \/ Tick
  \/ BeginConsume
  \/ \E u \in Universes : Evaluate(u)
  \/ EndConsume

Spec == Init /\ [][Next]_vars
=============================================================================
