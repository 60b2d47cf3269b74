--------------------------- MODULE BatchExecutor ---------------------------
(***************************************************************************)
(* What run promises its only caller, the native coordinator (native_batch_*)
(* executor.h): a synchronous call. It returns only when every item of the *)
(* batch has its result, or it throws what the callback threw, and one of  *)
(* the two happens.                                                        *)
(***************************************************************************)
EXTENDS Naturals

CONSTANT Items

VARIABLES
  call,       \* how the last call stands, "closed" after the destructor
  batch,      \* its number
  todo,       \* its items
  result      \* per item, the call that computed its result

vars == <<call, batch, todo, result>>

Idle == call \in {"none", "returned", "threw"}

Init ==
  /\ call \in {"none", "closed"}
  /\ batch = 0
  /\ todo = {}
  /\ result = [i \in Items |-> 0]

Call(S) ==
  /\ Idle
  /\ call' = "running"
  /\ batch' = batch + 1
  /\ todo' = S
  /\ UNCHANGED result

Compute(i) ==
  /\ call = "running" /\ i \in todo
  /\ result' = [result EXCEPT ![i] = batch]
  /\ UNCHANGED <<call, batch, todo>>

Return ==
  /\ call = "running"
  /\ \A i \in todo : result[i] = batch
  /\ call' = "returned"
  /\ UNCHANGED <<batch, todo, result>>

Throw ==
  /\ call = "running" /\ todo # {}
  /\ call' = "threw"
  /\ UNCHANGED <<batch, todo, result>>

Close ==
  /\ Idle
  /\ call' = "closed"
  /\ UNCHANGED <<batch, todo, result>>

Next ==
  \/ \E S \in SUBSET Items : Call(S)
  \/ \E i \in Items : Compute(i)
  \/ Return \/ Throw \/ Close

SafetySpec == Init /\ [][Next]_vars

EveryCallEnds == call = "running" ~> Idle

Spec == SafetySpec /\ EveryCallEnds
=============================================================================
