---------------------- MODULE AsyncPresentationProofs ----------------------
(* Proofs about AsyncPresentation, for every set of universes, any number  *)
(* of banks from the code's on, and every bound.                           *)
EXTENDS AsyncPresentation, TLAPS, FiniteSetTheorems

-----------------------------------------------------------------------------
(* The inductive invariant *)

(* The main thread is between two polls whenever there is no session, and  *)
(* then nothing is queued. The coordinator ends only for a stop, in which  *)
(* the main thread joins it, or for a failure.                             *)
PhasesAgree ==
  /\ phase # "idle" => InSession
  /\ ~InSession => queuedInput = None /\ readyOutput = None
  /\ coordinator = "exit" => stopping \/ failed
  /\ stopping => phase = "join"
  /\ failed => failures # 0

(* The input banks have one holder each in every state, a stop included.   *)
InputBanksOwned ==
  \A b \in InputBanks :
    /\ (inputStatus[b] = "Free") <=>
         ~(ProducerHolds(b) \/ queuedInput = b \/ ReaderHolds(b))
    /\ ~(ProducerHolds(b) /\ queuedInput = b)
    /\ ~(ProducerHolds(b) /\ ReaderHolds(b))
    /\ ~(queuedInput = b /\ ReaderHolds(b))

(* So have the output banks, if a coordinator that ended keeps the bank it *)
(* was filling or publishing.                                              *)
KeeperHolds(b) == coordinator \in {"evaluate", "publish", "exit"} /\ taken = b
OutputBanksOwned ==
  \A b \in OutputBanks :
    /\ (outputStatus[b] = "Free") <=>
         ~(KeeperHolds(b) \/ readyOutput = b \/ LeaseHolds(b))
    /\ ~(KeeperHolds(b) /\ readyOutput = b)
    /\ ~(KeeperHolds(b) /\ LeaseHolds(b))
    /\ ~(readyOutput = b /\ LeaseHolds(b))

(* The last completion acquired, and those that follow it one by one: the  *)
(* ready one, then the one the coordinator holds.                          *)
Acquired == IF phase = "apply" THEN applied + 1 ELSE applied
Ready == IF readyOutput # None THEN 1 ELSE 0
Held == IF coordinator = "publish" THEN 1 ELSE 0
CompletionsInOrder ==
  /\ phase = "apply" => snapshots[bank].serial = applied + 1
  /\ readyOutput # None => snapshots[readyOutput].serial = Acquired + 1
  /\ coordinator = "publish" => snapshots[taken].serial = completed
  /\ coordinator # "exit" => completed = Acquired + Ready + Held

(* Where the packets are: without failures everything delivered is taken,  *)
(* latest has all that a session took, the core is as far as               *)
(* consumed_sequences says, and what it has evaluated is canonical.        *)
InputAccounted ==
  /\ InSession => latest = accepted /\ consumed = coreFrame
  /\ ~InSession => coreFrame = accepted
  /\ failures = 0 =>
       /\ delivered = accepted
       /\ \A u \in Universes : u \in corePending \/ canonical[u] = coreFrame[u]

(* The newest input on its way to the core is latest, unless the producer  *)
(* still has to flush it.                                                  *)
NewestInput ==
  IF queuedInput # None THEN inputFrames[queuedInput]
  ELSE IF coordinator = "read" THEN inputFrames[taken]
  ELSE consumed

InputReachesCore ==
  /\ phase = "publish" => inputFrames[bank] = latest
  /\ InSession /\ (phase = "recycle" \/ ~producerDirty) => NewestInput = latest

(* What is shown of u once the deltas in flight are applied, the newest    *)
(* that has its row: the coordinator's, the ready one, the poll's.         *)
Carries(b, u) == u \in snapshots[b].rows
ShownNext(u) ==
  IF coordinator = "publish" /\ Carries(taken, u) THEN snapshots[taken].values[u]
  ELSE IF readyOutput # None /\ Carries(readyOutput, u)
         THEN snapshots[readyOutput].values[u]
  ELSE IF phase = "apply" /\ Carries(bank, u) THEN snapshots[bank].values[u]
  ELSE displayed[u]

(* It is the physical state, except for outputs that are to be published   *)
(* again; and a coordinator that waits has evaluated and published all.    *)
DeltasReachDisplay ==
  /\ failures = 0 /\ coordinator # "exit" =>
       \A u \in Universes : u \in stateDirty \/ ShownNext(u) = canonical[u]
  /\ coordinator = "publish" \/ (coordinator = "wait" /\ ~initialBatch) =>
       corePending = {} /\ stateDirty = {}

AsyncInv ==
  /\ TypeOK
  /\ PhasesAgree
  /\ InputBanksOwned
  /\ OutputBanksOwned
  /\ CompletionsInOrder
  /\ InputAccounted
  /\ InputReachesCore
  /\ DeltasReachDisplay

-----------------------------------------------------------------------------
(* Types *)

(* A new session has none of its banks and indices in use.                 *)
LEMMA AsyncInitType == Init => TypeOK
<1> SUFFICES ASSUME Init PROVE TypeOK
  OBVIOUS
<1>1. 0 \in Packet /\ MaxPackets \in Nat
  BY BanksAssumption DEF Packet
<1>2. EmptySnapshot \in Snapshot
  BY <1>1 DEF EmptySnapshot, Snapshot, NoPackets
<1> QED
  BY <1>1, <1>2 DEF Init, TypeOK, Statuses, Phases, CoordinatorStates, NoPackets,
                    BankOfPhase, BankOfCoordinator

(* What evaluation makes of the frames has the types of a snapshot.        *)
LEMMA EvaluatedType ==
  ASSUME TypeOK
  PROVE  /\ Evaluated \in [Universes -> Packet]
         /\ RowsToPublish \in SUBSET Universes
BY DEF TypeOK, Evaluated, RowsToPublish

(* submit_universe_frame keeps the types of the core.                      *)
LEMMA CoreSubmitType ==
  ASSUME TypeOK, NEW S \in SUBSET Universes,
         NEW frames \in [Universes -> Packet], CoreSubmit(S, frames)
  PROVE  /\ coreFrame' \in [Universes -> Packet]
         /\ corePending' \in SUBSET Universes
BY DEF TypeOK, CoreSubmit

(* The steps of the poll and of a delivery keep the types.                 *)
LEMMA PollType ==
  ASSUME TypeOK, Poll \/ Stop \/ \E u \in Universes : Deliver(u)
  PROVE  TypeOK'
<1> USE BanksAssumption DEF vars, inputVars, outputVars, flagVars, producerVars,
        historyVars, mainVars, displayVars, coordinatorVars, countVars, coreVars,
        BankOfPhase, BankOfCoordinator
<1>1. ASSUME NEW u \in Universes, Deliver(u) PROVE TypeOK'
  <2>1. packets + 1 \in Packet
    BY <1>1 DEF Deliver, TypeOK, Packet
  <2>2. /\ coreFrame' \in [Universes -> Packet]
        /\ corePending' \in SUBSET Universes
    <3>1. [v \in Universes |-> packets + 1] \in [Universes -> Packet]
      BY <2>1
    <3>2. CASE CoreSubmit({u}, [v \in Universes |-> packets + 1])
      BY <3>1, <3>2, CoreSubmitType
    <3>3. CASE UNCHANGED coreVars
      BY <3>3 DEF TypeOK
    <3> QED
      BY <1>1, <3>2, <3>3 DEF Deliver
  <2>3. /\ latest' \in [Universes -> Packet] /\ producerDirty' \in BOOLEAN
        /\ accepted' \in [Universes -> Packet]
        /\ delivered' \in [Universes -> Packet] /\ packets' \in Packet
    <3> DEFINE n == packets + 1
    <3>1. /\ latest' = [latest EXCEPT ![u] = n] \/ latest' = latest
          /\ producerDirty' = TRUE \/ producerDirty' = producerDirty
          /\ accepted' = [accepted EXCEPT ![u] = n] \/ accepted' = accepted
          /\ delivered' = [delivered EXCEPT ![u] = n]
          /\ packets' = n
      BY <1>1 DEF Deliver
    <3>2. /\ latest \in [Universes -> Packet] /\ producerDirty \in BOOLEAN
          /\ accepted \in [Universes -> Packet]
          /\ delivered \in [Universes -> Packet]
      BY DEF TypeOK
    <3>3. n \in Packet
      BY <2>1
    <3> HIDE DEF n
    <3>4. \A f \in [Universes -> Packet] : [f EXCEPT ![u] = n] \in [Universes -> Packet]
      BY <3>3
    <3>5. latest' \in [Universes -> Packet]
      BY <3>1, <3>2, <3>4
    <3>6. accepted' \in [Universes -> Packet]
      BY <3>1, <3>2, <3>4
    <3>7. delivered' \in [Universes -> Packet] /\ packets' \in Packet
      BY <3>1, <3>2, <3>3, <3>4
    <3>8. producerDirty' \in BOOLEAN
      BY <3>1, <3>2
    <3> QED
      BY <3>5, <3>6, <3>7, <3>8
  <2>4. canonical' = canonical /\ stateDirty' = stateDirty
    BY <1>1 DEF Deliver
  <2>5. UNCHANGED <<inputVars, outputVars, flagVars, mainVars, displayVars,
                    coordinatorVars, countVars>>
    BY <1>1 DEF Deliver
  <2>6. (bank \in BankOfPhase /\ taken \in BankOfCoordinator)'
    BY <2>5 DEF TypeOK
  <2>7. (/\ inputStatus \in [InputBanks -> Statuses]
         /\ inputFrames \in [InputBanks -> [Universes -> Packet]]
         /\ outputStatus \in [OutputBanks -> Statuses]
         /\ snapshots \in [OutputBanks -> Snapshot]
         /\ queuedInput \in InputBanks \cup {None}
         /\ readyOutput \in OutputBanks \cup {None}
         /\ stopping \in BOOLEAN /\ failed \in BOOLEAN)'
    BY <2>5 DEF TypeOK
  <2>8. (/\ phase \in Phases /\ resumePending \in BOOLEAN
         /\ displayed \in [Universes -> Packet] /\ applied \in Nat
         /\ coordinator \in CoordinatorStates
         /\ initialBatch \in BOOLEAN
         /\ consumed \in [Universes -> Packet] /\ completed \in Nat
         /\ sessions \in Nat /\ failures \in Nat)'
    BY <2>5 DEF TypeOK
  <2>9. (canonical \in [Universes -> Packet] /\ stateDirty \in SUBSET Universes)'
    BY <2>4 DEF TypeOK
  <2> QED
    BY <2>2, <2>3, <2>6, <2>7, <2>8, <2>9 DEF TypeOK
<1>2. CASE SerialConsume
  BY <1>2, EvaluatedType DEF SerialConsume, Wanted, TypeOK
<1>3. CASE StartSession
  <2>1. bank' \in BankOfPhase' /\ taken' \in BankOfCoordinator'
    BY <1>3 DEF StartSession, Wanted, InSession, TypeOK
  <2>2. phase' \in Phases /\ coordinator' \in CoordinatorStates
    BY <1>3 DEF StartSession, Phases, CoordinatorStates
  <2>3. (/\ inputStatus \in [InputBanks -> Statuses]
         /\ inputFrames \in [InputBanks -> [Universes -> Packet]]
         /\ outputStatus \in [OutputBanks -> Statuses]
         /\ snapshots \in [OutputBanks -> Snapshot]
         /\ queuedInput \in InputBanks \cup {None}
         /\ readyOutput \in OutputBanks \cup {None}
         /\ stopping \in BOOLEAN /\ failed \in BOOLEAN)'
    BY <1>3 DEF StartSession, TypeOK
  <2>4. (/\ latest \in [Universes -> Packet] /\ producerDirty \in BOOLEAN
         /\ delivered \in [Universes -> Packet]
         /\ accepted \in [Universes -> Packet]
         /\ packets \in Packet /\ resumePending \in BOOLEAN
         /\ displayed \in [Universes -> Packet] /\ applied \in Nat)'
    BY <1>3 DEF StartSession, TypeOK
  <2>5. (/\ initialBatch \in BOOLEAN
         /\ consumed \in [Universes -> Packet] /\ completed \in Nat
         /\ sessions \in Nat /\ failures \in Nat
         /\ coreFrame \in [Universes -> Packet]
         /\ corePending \in SUBSET Universes
         /\ canonical \in [Universes -> Packet]
         /\ stateDirty \in SUBSET Universes)'
    BY <1>3 DEF StartSession, TypeOK
  <2> QED
    BY <2>1, <2>2, <2>3, <2>4, <2>5 DEF TypeOK
<1>4. ASSUME NEW b \in InputBanks, ClaimInput(b) PROVE TypeOK'
  BY <1>4 DEF ClaimInput, TypeOK, Statuses, Phases
<1>5. CASE NoFlush
  BY <1>5 DEF NoFlush, TypeOK, Phases
<1>6. CASE PublishInput
  BY <1>6 DEF PublishInput, TypeOK, Statuses, Phases
<1>7. CASE RecycleInput
  BY <1>7 DEF RecycleInput, TypeOK, Statuses, Phases
<1>8. CASE AcquireNothing
  BY <1>8 DEF AcquireNothing, TypeOK, Phases
<1>9. CASE Acquire
  BY <1>9 DEF Acquire, TypeOK, Statuses, Phases
<1>10. CASE Apply
  BY <1>10 DEF Apply, TypeOK, Snapshot, Phases
<1>11. CASE Release
  BY <1>11 DEF Release, TypeOK, Statuses, Phases
<1>12. CASE Retire
  <2>1. /\ coreFrame' \in [Universes -> Packet]
        /\ corePending' \in SUBSET Universes
    BY <1>12, CoreSubmitType DEF Retire, TypeOK, Unread
  <2>2. EmptySnapshot \in Snapshot /\ NoPackets \in [Universes -> Packet]
    BY DEF EmptySnapshot, Snapshot, NoPackets, Packet
  <2> QED
    BY <1>12, <2>1, <2>2 DEF Retire, DestroySession, TypeOK, Statuses, Phases,
                             CoordinatorStates
<1>13. CASE Stop
  BY <1>13 DEF Stop, TypeOK, Phases
<1> QED
  BY <1>1, <1>2, <1>3, <1>4, <1>5, <1>6, <1>7, <1>8, <1>9, <1>10, <1>11, <1>12,
     <1>13 DEF Poll

(* The steps of the coordinator keep the types.                            *)
LEMMA CoordinateType ==
  ASSUME TypeOK, Coordinate
  PROVE  TypeOK'
<1> USE BanksAssumption DEF vars, inputVars, outputVars, flagVars, producerVars,
        historyVars, mainVars, displayVars, coordinatorVars, countVars, coreVars,
        BankOfPhase, BankOfCoordinator
<1>1. CASE TakeInput
  BY <1>1 DEF TakeInput, TypeOK, Statuses, CoordinatorStates
<1>2. CASE StartInitialBatch
  BY <1>2 DEF StartInitialBatch, TypeOK, CoordinatorStates
<1>3. CASE ReadInput
  <2>1. inputFrames[taken] \in [Universes -> Packet] /\ taken \in InputBanks
    BY <1>3 DEF ReadInput, TypeOK
  <2>2. /\ coreFrame' \in [Universes -> Packet]
        /\ corePending' \in SUBSET Universes
    BY <1>3, <2>1, CoreSubmitType DEF ReadInput, NewFrames
  <2> QED
    BY <1>3, <2>1, <2>2 DEF ReadInput, TypeOK, Statuses, CoordinatorStates
<1>4. ASSUME NEW b \in OutputBanks, ClaimOutput(b) PROVE TypeOK'
  BY <1>4 DEF ClaimOutput, TypeOK, Statuses, CoordinatorStates
<1>5. CASE Evaluate
  <2>1. [serial |-> completed + 1, rows |-> RowsToPublish, values |-> Evaluated]
          \in Snapshot
    BY <1>5, EvaluatedType DEF TypeOK, Snapshot
  <2> QED
    BY <1>5, <2>1, EvaluatedType DEF Evaluate, TypeOK, Statuses, CoordinatorStates
<1>6. CASE Fail
  BY <1>6 DEF Fail, TypeOK, CoordinatorStates
<1>7. CASE PublishOutput
  BY <1>7 DEF PublishOutput, TypeOK, CoordinatorStates
<1>8. CASE ObserveStop
  BY <1>8 DEF ObserveStop, TypeOK, CoordinatorStates
<1> QED
  BY <1>1, <1>2, <1>3, <1>4, <1>5, <1>6, <1>7, <1>8 DEF Coordinate

-----------------------------------------------------------------------------
(* Banks *)

(* Which bank a thread has where it is, as the type invariant says.        *)
LEMMA BankFacts ==
  ASSUME TypeOK
  PROVE  /\ phase = "publish" => bank \in InputBanks
         /\ phase = "recycle" => bank \in InputBanks \cup {None}
         /\ phase \in {"apply", "release"} => bank \in OutputBanks
         /\ phase \in {"idle", "acquire", "join"} => bank = None
         /\ coordinator = "read" => taken \in InputBanks
         /\ coordinator \in {"evaluate", "publish"} => taken \in OutputBanks
         /\ coordinator = "exit" => taken \in OutputBanks \cup {None}
         /\ coordinator \in {"none", "wait", "claim"} => taken = None
         /\ inputStatus \in [InputBanks -> Statuses]
         /\ outputStatus \in [OutputBanks -> Statuses]
         /\ queuedInput \in InputBanks \cup {None}
         /\ readyOutput \in OutputBanks \cup {None}
         /\ None \notin InputBanks /\ None \notin OutputBanks
BY BanksAssumption DEF TypeOK, BankOfPhase, BankOfCoordinator

(* A session lasts as long as the main thread works for it, and no loop of *)
(* run ends but for a stop or a failure.                                   *)
LEMMA NextPhases ==
  ASSUME AsyncInv, Next
  PROVE  PhasesAgree'
<1> USE DEF inputVars, outputVars, flagVars, producerVars, historyVars, mainVars,
        displayVars, coordinatorVars, countVars, coreVars
<1>0. TypeOK /\ PhasesAgree
  BY DEF AsyncInv
<1>1. CASE SerialConsume
  BY <1>0, <1>1
     DEF SerialConsume, Wanted, PhasesAgree, InSession, Active
<1>2. CASE StartSession
  BY <1>0, <1>2
     DEF StartSession, Wanted, PhasesAgree, InSession, Active
<1>3. ASSUME NEW b \in InputBanks, ClaimInput(b) PROVE PhasesAgree'
  BY <1>0, <1>3
     DEF ClaimInput, PhasesAgree, InSession, Active
<1>4. CASE NoFlush
  BY <1>0, <1>4
     DEF NoFlush, PhasesAgree, InSession, Active
<1>5. CASE PublishInput
  BY <1>0, <1>5
     DEF PublishInput, PhasesAgree, InSession, Active
<1>6. CASE RecycleInput
  BY <1>0, <1>6
     DEF RecycleInput, PhasesAgree, InSession, Active
<1>7. CASE AcquireNothing
  BY <1>0, <1>7
     DEF AcquireNothing, PhasesAgree, InSession, Active
<1>8. CASE Acquire
  BY <1>0, <1>8
     DEF Acquire, PhasesAgree, InSession, Active
<1>9. CASE Apply
  BY <1>0, <1>9
     DEF Apply, PhasesAgree, InSession, Active
<1>10. CASE Release
  BY <1>0, <1>10
     DEF Release, PhasesAgree, InSession, Active
<1>11. CASE Retire
  BY <1>0, <1>11
     DEF Retire, DestroySession, PhasesAgree, InSession, Active
<1>12. CASE Stop
  BY <1>0, <1>12
     DEF Stop, PhasesAgree, InSession, Active
<1>13. ASSUME NEW u \in Universes, Deliver(u) PROVE PhasesAgree'
  BY <1>0, <1>13
     DEF Deliver, PhasesAgree, InSession, Active
<1>14. CASE TakeInput
  BY <1>0, <1>14
     DEF TakeInput, PhasesAgree, InSession, Active
<1>15. CASE StartInitialBatch
  BY <1>0, <1>15
     DEF StartInitialBatch, PhasesAgree, InSession, Active
<1>16. CASE ReadInput
  BY <1>0, <1>16
     DEF ReadInput, PhasesAgree, InSession, Active
<1>17. ASSUME NEW b \in OutputBanks, ClaimOutput(b) PROVE PhasesAgree'
  BY <1>0, <1>17
     DEF ClaimOutput, PhasesAgree, InSession, Active
<1>18. CASE Evaluate
  BY <1>0, <1>18
     DEF Evaluate, PhasesAgree, InSession, Active
<1>19. CASE Fail
  BY <1>0, <1>19 DEF Fail, PhasesAgree, InSession, TypeOK
<1>20. CASE PublishOutput
  BY <1>0, <1>20
     DEF PublishOutput, PhasesAgree, InSession, Active
<1>21. CASE ObserveStop
  BY <1>0, <1>21
     DEF ObserveStop, PhasesAgree, InSession, Active
<1> QED
  BY <1>1, <1>2, <1>3, <1>4, <1>5, <1>6, <1>7, <1>8, <1>9, <1>10, <1>11,
     <1>12, <1>13, <1>14, <1>15, <1>16, <1>17, <1>18, <1>19, <1>20, <1>21
     DEF Next, Poll, Coordinate

(* Claims, exchanges and releases of input banks keep one holder for each. *)
LEMMA NextInputBanks ==
  ASSUME AsyncInv, Next
  PROVE  InputBanksOwned'
<1> USE DEF inputVars, outputVars, flagVars, producerVars, historyVars, mainVars,
        displayVars, coordinatorVars, countVars, coreVars
<1>0. TypeOK /\ InputBanksOwned
  BY DEF AsyncInv
<1>1. CASE SerialConsume
  BY <1>0, <1>1, BankFacts
     DEF SerialConsume, Wanted, InputBanksOwned, ProducerHolds, ReaderHolds,
         Statuses
<1>2. CASE StartSession
  BY <1>0, <1>2, BankFacts
     DEF StartSession, Wanted, InSession, InputBanksOwned, ProducerHolds,
         ReaderHolds, Statuses
<1>3. ASSUME NEW b \in InputBanks, ClaimInput(b) PROVE InputBanksOwned'
  BY <1>0, <1>3, BankFacts
     DEF ClaimInput, InputBanksOwned, ProducerHolds, ReaderHolds, Statuses
<1>4. CASE NoFlush
  BY <1>0, <1>4, BankFacts
     DEF NoFlush, InputBanksOwned, ProducerHolds, ReaderHolds, Statuses
<1>5. CASE PublishInput
  BY <1>0, <1>5, BankFacts
     DEF PublishInput, InputBanksOwned, ProducerHolds, ReaderHolds, Statuses
<1>6. CASE RecycleInput
  BY <1>0, <1>6, BankFacts
     DEF RecycleInput, InputBanksOwned, ProducerHolds, ReaderHolds, Statuses
<1>7. CASE AcquireNothing
  BY <1>0, <1>7, BankFacts
     DEF AcquireNothing, InputBanksOwned, ProducerHolds, ReaderHolds, Statuses
<1>8. CASE Acquire
  BY <1>0, <1>8, BankFacts
     DEF Acquire, InputBanksOwned, ProducerHolds, ReaderHolds, Statuses
<1>9. CASE Apply
  BY <1>0, <1>9, BankFacts
     DEF Apply, InputBanksOwned, ProducerHolds, ReaderHolds, Statuses
<1>10. CASE Release
  BY <1>0, <1>10, BankFacts
     DEF Release, InputBanksOwned, ProducerHolds, ReaderHolds, Statuses
<1>11. CASE Retire
  BY <1>0, <1>11, BankFacts
     DEF Retire, DestroySession, InputBanksOwned, ProducerHolds, ReaderHolds,
         Statuses
<1>12. CASE Stop
  BY <1>0, <1>12, BankFacts
     DEF Stop, InputBanksOwned, ProducerHolds, ReaderHolds, Statuses
<1>13. ASSUME NEW u \in Universes, Deliver(u) PROVE InputBanksOwned'
  BY <1>0, <1>13, BankFacts
     DEF Deliver, Active, InputBanksOwned, ProducerHolds, ReaderHolds,
         Statuses
<1>14. CASE TakeInput
  BY <1>0, <1>14, BankFacts
     DEF TakeInput, InputBanksOwned, ProducerHolds, ReaderHolds, Statuses
<1>15. CASE StartInitialBatch
  BY <1>0, <1>15, BankFacts
     DEF StartInitialBatch, InputBanksOwned, ProducerHolds, ReaderHolds,
         Statuses
<1>16. CASE ReadInput
  BY <1>0, <1>16, BankFacts
     DEF ReadInput, InputBanksOwned, ProducerHolds, ReaderHolds, Statuses
<1>17. ASSUME NEW b \in OutputBanks, ClaimOutput(b) PROVE InputBanksOwned'
  BY <1>0, <1>17, BankFacts
     DEF ClaimOutput, InputBanksOwned, ProducerHolds, ReaderHolds, Statuses
<1>18. CASE Evaluate
  BY <1>0, <1>18, BankFacts
     DEF Evaluate, InputBanksOwned, ProducerHolds, ReaderHolds, Statuses
<1>19. CASE Fail
  BY <1>0, <1>19, BankFacts
     DEF Fail, InputBanksOwned, ProducerHolds, ReaderHolds, Statuses
<1>20. CASE PublishOutput
  BY <1>0, <1>20, BankFacts
     DEF PublishOutput, InputBanksOwned, ProducerHolds, ReaderHolds, Statuses
<1>21. CASE ObserveStop
  BY <1>0, <1>21, BankFacts
     DEF ObserveStop, InputBanksOwned, ProducerHolds, ReaderHolds, Statuses
<1> QED
  BY <1>1, <1>2, <1>3, <1>4, <1>5, <1>6, <1>7, <1>8, <1>9, <1>10, <1>11,
     <1>12, <1>13, <1>14, <1>15, <1>16, <1>17, <1>18, <1>19, <1>20, <1>21
     DEF Next, Poll, Coordinate

(* So do claims, publications and leases of output banks.                  *)
LEMMA NextOutputBanks ==
  ASSUME AsyncInv, Next
  PROVE  OutputBanksOwned'
<1> USE DEF inputVars, outputVars, flagVars, producerVars, historyVars, mainVars,
        displayVars, coordinatorVars, countVars, coreVars
<1>0. TypeOK /\ OutputBanksOwned
  BY DEF AsyncInv
<1>1. CASE SerialConsume
  BY <1>0, <1>1, BankFacts
     DEF SerialConsume, Wanted, OutputBanksOwned, KeeperHolds, LeaseHolds,
         Statuses
<1>2. CASE StartSession
  BY <1>0, <1>2, BankFacts
     DEF StartSession, Wanted, InSession, OutputBanksOwned, KeeperHolds,
         LeaseHolds, Statuses
<1>3. ASSUME NEW b \in InputBanks, ClaimInput(b) PROVE OutputBanksOwned'
  BY <1>0, <1>3, BankFacts
     DEF ClaimInput, OutputBanksOwned, KeeperHolds, LeaseHolds, Statuses
<1>4. CASE NoFlush
  BY <1>0, <1>4, BankFacts
     DEF NoFlush, OutputBanksOwned, KeeperHolds, LeaseHolds, Statuses
<1>5. CASE PublishInput
  BY <1>0, <1>5, BankFacts
     DEF PublishInput, OutputBanksOwned, KeeperHolds, LeaseHolds, Statuses
<1>6. CASE RecycleInput
  BY <1>0, <1>6, BankFacts
     DEF RecycleInput, OutputBanksOwned, KeeperHolds, LeaseHolds, Statuses
<1>7. CASE AcquireNothing
  BY <1>0, <1>7, BankFacts
     DEF AcquireNothing, OutputBanksOwned, KeeperHolds, LeaseHolds, Statuses
<1>8. CASE Acquire
  BY <1>0, <1>8, BankFacts
     DEF Acquire, OutputBanksOwned, KeeperHolds, LeaseHolds, Statuses
<1>9. CASE Apply
  BY <1>0, <1>9, BankFacts
     DEF Apply, OutputBanksOwned, KeeperHolds, LeaseHolds, Statuses
<1>10. CASE Release
  BY <1>0, <1>10, BankFacts
     DEF Release, OutputBanksOwned, KeeperHolds, LeaseHolds, Statuses
<1>11. CASE Retire
  BY <1>0, <1>11, BankFacts
     DEF Retire, DestroySession, OutputBanksOwned, KeeperHolds, LeaseHolds,
         Statuses
<1>12. CASE Stop
  BY <1>0, <1>12, BankFacts
     DEF Stop, OutputBanksOwned, KeeperHolds, LeaseHolds, Statuses
<1>13. ASSUME NEW u \in Universes, Deliver(u) PROVE OutputBanksOwned'
  BY <1>0, <1>13, BankFacts
     DEF Deliver, Active, OutputBanksOwned, KeeperHolds, LeaseHolds, Statuses
<1>14. CASE TakeInput
  BY <1>0, <1>14, BankFacts
     DEF TakeInput, OutputBanksOwned, KeeperHolds, LeaseHolds, Statuses
<1>15. CASE StartInitialBatch
  BY <1>0, <1>15, BankFacts
     DEF StartInitialBatch, OutputBanksOwned, KeeperHolds, LeaseHolds,
         Statuses
<1>16. CASE ReadInput
  BY <1>0, <1>16, BankFacts
     DEF ReadInput, OutputBanksOwned, KeeperHolds, LeaseHolds, Statuses
<1>17. ASSUME NEW b \in OutputBanks, ClaimOutput(b) PROVE OutputBanksOwned'
  BY <1>0, <1>17, BankFacts
     DEF ClaimOutput, OutputBanksOwned, KeeperHolds, LeaseHolds, Statuses
<1>18. CASE Evaluate
  BY <1>0, <1>18, BankFacts
     DEF Evaluate, OutputBanksOwned, KeeperHolds, LeaseHolds, Statuses
<1>19. CASE Fail
  BY <1>0, <1>19, BankFacts
     DEF Fail, OutputBanksOwned, KeeperHolds, LeaseHolds, Statuses
<1>20. CASE PublishOutput
  BY <1>0, <1>20, BankFacts
     DEF PublishOutput, OutputBanksOwned, KeeperHolds, LeaseHolds, Statuses
<1>21. CASE ObserveStop
  BY <1>0, <1>21, BankFacts
     DEF ObserveStop, OutputBanksOwned, KeeperHolds, LeaseHolds, Statuses
<1> QED
  BY <1>1, <1>2, <1>3, <1>4, <1>5, <1>6, <1>7, <1>8, <1>9, <1>10, <1>11,
     <1>12, <1>13, <1>14, <1>15, <1>16, <1>17, <1>18, <1>19, <1>20, <1>21
     DEF Next, Poll, Coordinate

-----------------------------------------------------------------------------
(* Completions and packets *)

(* What the invariant says of the numbers and holders that completions     *)
(* depend on.                                                              *)
LEMMA CompletionFacts ==
  ASSUME AsyncInv
  PROVE  /\ applied \in Nat /\ completed \in Nat
         /\ \A b \in OutputBanks : snapshots[b].serial \in Nat
         /\ snapshots \in [OutputBanks -> Snapshot]
         /\ coordinator = "evaluate" =>
              /\ taken # readyOutput
              /\ phase = "apply" => taken # bank
         /\ phase # "idle" => InSession
BY BankFacts DEF AsyncInv, TypeOK, Snapshot, PhasesAgree, OutputBanksOwned,
                 KeeperHolds, LeaseHolds

(* What the type invariant says of the frames.                             *)
LEMMA InputFacts ==
  ASSUME AsyncInv
  PROVE  /\ latest \in [Universes -> Packet] /\ accepted \in [Universes -> Packet]
         /\ consumed \in [Universes -> Packet]
         /\ coreFrame \in [Universes -> Packet]
         /\ canonical \in [Universes -> Packet]
         /\ displayed \in [Universes -> Packet]
         /\ corePending \in SUBSET Universes /\ stateDirty \in SUBSET Universes
         /\ failures \in Nat
         /\ inputFrames \in [InputBanks -> [Universes -> Packet]]
         /\ coordinator = "read" => /\ taken \in InputBanks
                                    /\ inputFrames[taken] \in [Universes -> Packet]
         /\ phase # "idle" => InSession
BY BankFacts DEF AsyncInv, TypeOK, PhasesAgree

(* Evaluation, publication, lease and application keep the completions in  *)
(* order: a bank that holds one is not the bank of another.                *)
LEMMA NextCompletions ==
  ASSUME AsyncInv, Next
  PROVE  CompletionsInOrder'
<1> USE DEF inputVars, outputVars, flagVars, producerVars, historyVars, mainVars,
        displayVars, coordinatorVars, countVars, coreVars
<1>0. TypeOK /\ CompletionsInOrder
  BY DEF AsyncInv
<1>1. CASE SerialConsume
  BY <1>0, <1>1, BankFacts, CompletionFacts
     DEF SerialConsume, Wanted, CompletionsInOrder, Acquired, Ready, Held
<1>2. CASE StartSession
  BY <1>0, <1>2, BankFacts, CompletionFacts
     DEF StartSession, Wanted, InSession, CompletionsInOrder, Acquired, Ready,
         Held
<1>3. ASSUME NEW b \in InputBanks, ClaimInput(b) PROVE CompletionsInOrder'
  BY <1>0, <1>3, BankFacts, CompletionFacts
     DEF ClaimInput, CompletionsInOrder, Acquired, Ready, Held
<1>4. CASE NoFlush
  BY <1>0, <1>4, BankFacts, CompletionFacts
     DEF NoFlush, CompletionsInOrder, Acquired, Ready, Held
<1>5. CASE PublishInput
  BY <1>0, <1>5, BankFacts, CompletionFacts
     DEF PublishInput, CompletionsInOrder, Acquired, Ready, Held
<1>6. CASE RecycleInput
  BY <1>0, <1>6, BankFacts, CompletionFacts
     DEF RecycleInput, CompletionsInOrder, Acquired, Ready, Held
<1>7. CASE AcquireNothing
  BY <1>0, <1>7, BankFacts, CompletionFacts
     DEF AcquireNothing, CompletionsInOrder, Acquired, Ready, Held
<1>8. CASE Acquire
  BY <1>0, <1>8, BankFacts, CompletionFacts
     DEF Acquire, CompletionsInOrder, Acquired, Ready, Held
<1>9. CASE Apply
  BY <1>0, <1>9, BankFacts, CompletionFacts
     DEF Apply, CompletionsInOrder, Acquired, Ready, Held
<1>10. CASE Release
  BY <1>0, <1>10, BankFacts, CompletionFacts
     DEF Release, CompletionsInOrder, Acquired, Ready, Held
<1>11. CASE Retire
  BY <1>0, <1>11, BankFacts, CompletionFacts
     DEF Retire, DestroySession, CompletionsInOrder, Acquired, Ready, Held
<1>12. CASE Stop
  BY <1>0, <1>12, BankFacts, CompletionFacts
     DEF Stop, CompletionsInOrder, Acquired, Ready, Held
<1>13. ASSUME NEW u \in Universes, Deliver(u) PROVE CompletionsInOrder'
  BY <1>0, <1>13, BankFacts, CompletionFacts
     DEF Deliver, Active, CompletionsInOrder, Acquired, Ready, Held
<1>14. CASE TakeInput
  BY <1>0, <1>14, BankFacts, CompletionFacts
     DEF TakeInput, CompletionsInOrder, Acquired, Ready, Held
<1>15. CASE StartInitialBatch
  BY <1>0, <1>15, BankFacts, CompletionFacts
     DEF StartInitialBatch, CompletionsInOrder, Acquired, Ready, Held
<1>16. CASE ReadInput
  BY <1>0, <1>16, BankFacts, CompletionFacts
     DEF ReadInput, CompletionsInOrder, Acquired, Ready, Held
<1>17. ASSUME NEW b \in OutputBanks, ClaimOutput(b) PROVE CompletionsInOrder'
  BY <1>0, <1>17, BankFacts, CompletionFacts
     DEF ClaimOutput, CompletionsInOrder, Acquired, Ready, Held
<1>18. CASE Evaluate
  BY <1>0, <1>18, BankFacts, CompletionFacts
     DEF Evaluate, CompletionsInOrder, Acquired, Ready, Held
<1>19. CASE Fail
  BY <1>0, <1>19, BankFacts, CompletionFacts
     DEF Fail, CompletionsInOrder, Acquired, Ready, Held
<1>20. CASE PublishOutput
  BY <1>0, <1>20, BankFacts, CompletionFacts
     DEF PublishOutput, CompletionsInOrder, Acquired, Ready, Held
<1>21. CASE ObserveStop
  BY <1>0, <1>21, BankFacts, CompletionFacts
     DEF ObserveStop, CompletionsInOrder, Acquired, Ready, Held
<1> QED
  BY <1>1, <1>2, <1>3, <1>4, <1>5, <1>6, <1>7, <1>8, <1>9, <1>10, <1>11,
     <1>12, <1>13, <1>14, <1>15, <1>16, <1>17, <1>18, <1>19, <1>20, <1>21
     DEF Next, Poll, Coordinate

(* Deliveries, evaluation and retirement keep the packets accounted for.   *)
LEMMA NextInputAccounted ==
  ASSUME AsyncInv, Next
  PROVE  InputAccounted'
<1> USE DEF inputVars, outputVars, flagVars, producerVars, historyVars, mainVars,
        displayVars, coordinatorVars, countVars, coreVars
<1>0. TypeOK /\ InputAccounted
  BY DEF AsyncInv
<1>1. CASE SerialConsume
  BY <1>0, <1>1, InputFacts
     DEF SerialConsume, Wanted, Evaluated, RowsToPublish, InputAccounted,
         InSession
<1>2. CASE StartSession
  BY <1>0, <1>2, InputFacts
     DEF StartSession, Wanted, InputAccounted, InSession
<1>3. ASSUME NEW b \in InputBanks, ClaimInput(b) PROVE InputAccounted'
  BY <1>0, <1>3, InputFacts
     DEF ClaimInput, InputAccounted, InSession
<1>4. CASE NoFlush
  BY <1>0, <1>4, InputFacts
     DEF NoFlush, InputAccounted, InSession
<1>5. CASE PublishInput
  BY <1>0, <1>5, InputFacts
     DEF PublishInput, InputAccounted, InSession
<1>6. CASE RecycleInput
  BY <1>0, <1>6, InputFacts
     DEF RecycleInput, InputAccounted, InSession
<1>7. CASE AcquireNothing
  BY <1>0, <1>7, InputFacts
     DEF AcquireNothing, InputAccounted, InSession
<1>8. CASE Acquire
  BY <1>0, <1>8, InputFacts
     DEF Acquire, InputAccounted, InSession
<1>9. CASE Apply
  BY <1>0, <1>9, InputFacts
     DEF Apply, InputAccounted, InSession
<1>10. CASE Release
  BY <1>0, <1>10, InputFacts
     DEF Release, InputAccounted, InSession
<1>11. CASE Retire
  BY <1>0, <1>11, InputFacts
     DEF Retire, DestroySession, Unread, CoreSubmit, InputAccounted, InSession
<1>12. CASE Stop
  BY <1>0, <1>12, InputFacts
     DEF Stop, InputAccounted, InSession
<1>13. ASSUME NEW u \in Universes, Deliver(u) PROVE InputAccounted'
  <2> DEFINE n == packets + 1
  <2>1. /\ delivered' = [delivered EXCEPT ![u] = n]
        /\ failures' = failures /\ coordinator' = coordinator
        /\ consumed' = consumed /\ canonical' = canonical
    BY <1>13 DEF Deliver
  <2>2. CASE Active
    <3>1. /\ latest' = [latest EXCEPT ![u] = n]
          /\ accepted' = [accepted EXCEPT ![u] = n]
          /\ UNCHANGED coreVars /\ InSession
      BY <1>13, <2>2 DEF Deliver, Active
    <3> HIDE DEF n
    <3> QED
      BY <1>0, <2>1, <3>1 DEF InputAccounted, InSession
  <2>3. CASE InSession /\ ~Active
    <3>1. failures # 0
      BY <1>13, <2>3 DEF Deliver, Active, AsyncInv, PhasesAgree
    <3>2. UNCHANGED <<latest, accepted, coreVars>>
      BY <1>13, <2>3 DEF Deliver
    <3> QED
      BY <1>0, <2>1, <2>3, <3>1, <3>2 DEF InputAccounted, InSession
  <2>4. CASE ~InSession
    <3>1. /\ accepted' = [accepted EXCEPT ![u] = n]
          /\ CoreSubmit({u}, [v \in Universes |-> n])
      BY <1>13, <2>4 DEF Deliver, Active
    <3> HIDE DEF n
    <3>2. coreFrame' = [coreFrame EXCEPT ![u] = n] /\ corePending' = corePending \cup {u}
      BY <3>1, InputFacts DEF CoreSubmit
    <3>3. failures = 0 => \A v \in Universes :
            v \in corePending' \/ canonical'[v] = coreFrame'[v]
      BY <1>0, <2>1, <3>2, InputFacts DEF InputAccounted
    <3> QED
      BY <1>0, <2>1, <2>4, <3>1, <3>2, <3>3 DEF InputAccounted, InSession
  <2> QED
    BY <2>2, <2>3, <2>4 DEF Active
<1>14. CASE TakeInput
  BY <1>0, <1>14, InputFacts
     DEF TakeInput, InputAccounted, InSession
<1>15. CASE StartInitialBatch
  BY <1>0, <1>15, InputFacts
     DEF StartInitialBatch, InputAccounted, InSession
<1>16. CASE ReadInput
  BY <1>0, <1>16, InputFacts
     DEF ReadInput, NewFrames, CoreSubmit, InputAccounted, InSession
<1>17. ASSUME NEW b \in OutputBanks, ClaimOutput(b) PROVE InputAccounted'
  BY <1>0, <1>17, InputFacts
     DEF ClaimOutput, InputAccounted, InSession
<1>18. CASE Evaluate
  BY <1>0, <1>18, InputFacts
     DEF Evaluate, Evaluated, RowsToPublish, InputAccounted, InSession
<1>19. CASE Fail
  BY <1>0, <1>19, InputFacts
     DEF Fail, InputAccounted, InSession
<1>20. CASE PublishOutput
  BY <1>0, <1>20, InputFacts
     DEF PublishOutput, InputAccounted, InSession
<1>21. CASE ObserveStop
  BY <1>0, <1>21, InputFacts
     DEF ObserveStop, InputAccounted, InSession
<1> QED
  BY <1>1, <1>2, <1>3, <1>4, <1>5, <1>6, <1>7, <1>8, <1>9, <1>10, <1>11,
     <1>12, <1>13, <1>14, <1>15, <1>16, <1>17, <1>18, <1>19, <1>20, <1>21
     DEF Next, Poll, Coordinate

(* Input on its way to the core stays what it was when it was copied: only *)
(* a bank without a holder is written, and none replaces a newer one.      *)
LEMMA NextInputReachesCore ==
  ASSUME AsyncInv, Next
  PROVE  InputReachesCore'
<1> USE DEF inputVars, outputVars, flagVars, producerVars, historyVars, mainVars,
        displayVars, coordinatorVars, countVars, coreVars
<1>0. TypeOK /\ InputReachesCore /\ InputBanksOwned /\ PhasesAgree
  BY DEF AsyncInv
<1>1. CASE SerialConsume
  BY <1>0, <1>1, BankFacts, InputFacts
     DEF SerialConsume, Wanted, InputReachesCore, NewestInput, InSession,
         InputBanksOwned, ProducerHolds, ReaderHolds
<1>2. CASE StartSession
  BY <1>0, <1>2, BankFacts, InputFacts
     DEF StartSession, Wanted, InputReachesCore, NewestInput, InSession,
         PhasesAgree
<1>3. ASSUME NEW b \in InputBanks, ClaimInput(b) PROVE InputReachesCore'
  BY <1>0, <1>3, BankFacts, InputFacts
     DEF ClaimInput, InputReachesCore, NewestInput, InSession,
         InputBanksOwned, ProducerHolds, ReaderHolds
<1>4. CASE NoFlush
  BY <1>0, <1>4, BankFacts, InputFacts
     DEF NoFlush, InputReachesCore, NewestInput, InSession, InputBanksOwned,
         ProducerHolds, ReaderHolds
<1>5. CASE PublishInput
  BY <1>0, <1>5, BankFacts, InputFacts
     DEF PublishInput, InputReachesCore, NewestInput, InSession,
         InputBanksOwned, ProducerHolds, ReaderHolds
<1>6. CASE RecycleInput
  BY <1>0, <1>6, BankFacts, InputFacts
     DEF RecycleInput, InputReachesCore, NewestInput, InSession,
         InputBanksOwned, ProducerHolds, ReaderHolds
<1>7. CASE AcquireNothing
  BY <1>0, <1>7, BankFacts, InputFacts
     DEF AcquireNothing, InputReachesCore, NewestInput, InSession,
         InputBanksOwned, ProducerHolds, ReaderHolds
<1>8. CASE Acquire
  BY <1>0, <1>8, BankFacts, InputFacts
     DEF Acquire, InputReachesCore, NewestInput, InSession, InputBanksOwned,
         ProducerHolds, ReaderHolds
<1>9. CASE Apply
  BY <1>0, <1>9, BankFacts, InputFacts
     DEF Apply, InputReachesCore, NewestInput, InSession, InputBanksOwned,
         ProducerHolds, ReaderHolds
<1>10. CASE Release
  BY <1>0, <1>10, BankFacts, InputFacts
     DEF Release, InputReachesCore, NewestInput, InSession, InputBanksOwned,
         ProducerHolds, ReaderHolds
<1>11. CASE Retire
  BY <1>0, <1>11, BankFacts, InputFacts
     DEF Retire, DestroySession, InputReachesCore, NewestInput, InSession,
         InputBanksOwned, ProducerHolds, ReaderHolds
<1>12. CASE Stop
  BY <1>0, <1>12, BankFacts, InputFacts
     DEF Stop, InputReachesCore, NewestInput, InSession, InputBanksOwned,
         ProducerHolds, ReaderHolds
<1>13. ASSUME NEW u \in Universes, Deliver(u) PROVE InputReachesCore'
  BY <1>0, <1>13, BankFacts, InputFacts
     DEF Deliver, Active, InputReachesCore, NewestInput, InSession,
         InputBanksOwned, ProducerHolds, ReaderHolds
<1>14. CASE TakeInput
  BY <1>0, <1>14, BankFacts, InputFacts
     DEF TakeInput, InputReachesCore, NewestInput, InSession, InputBanksOwned,
         ProducerHolds, ReaderHolds
<1>15. CASE StartInitialBatch
  BY <1>0, <1>15, BankFacts, InputFacts
     DEF StartInitialBatch, InputReachesCore, NewestInput, InSession,
         InputBanksOwned, ProducerHolds, ReaderHolds
<1>16. CASE ReadInput
  BY <1>0, <1>16, BankFacts, InputFacts
     DEF ReadInput, InputReachesCore, NewestInput, InSession, InputBanksOwned,
         ProducerHolds, ReaderHolds
<1>17. ASSUME NEW b \in OutputBanks, ClaimOutput(b) PROVE InputReachesCore'
  BY <1>0, <1>17, BankFacts, InputFacts
     DEF ClaimOutput, InputReachesCore, NewestInput, InSession,
         InputBanksOwned, ProducerHolds, ReaderHolds
<1>18. CASE Evaluate
  BY <1>0, <1>18, BankFacts, InputFacts
     DEF Evaluate, InputReachesCore, NewestInput, InSession, InputBanksOwned,
         ProducerHolds, ReaderHolds
<1>19. CASE Fail
  BY <1>0, <1>19, BankFacts, InputFacts
     DEF Fail, InputReachesCore, NewestInput, InSession, InputBanksOwned,
         ProducerHolds, ReaderHolds
<1>20. CASE PublishOutput
  BY <1>0, <1>20, BankFacts, InputFacts
     DEF PublishOutput, InputReachesCore, NewestInput, InSession,
         InputBanksOwned, ProducerHolds, ReaderHolds
<1>21. CASE ObserveStop
  BY <1>0, <1>21, BankFacts, InputFacts
     DEF ObserveStop, InputReachesCore, NewestInput, InSession,
         InputBanksOwned, ProducerHolds, ReaderHolds
<1> QED
  BY <1>1, <1>2, <1>3, <1>4, <1>5, <1>6, <1>7, <1>8, <1>9, <1>10, <1>11,
     <1>12, <1>13, <1>14, <1>15, <1>16, <1>17, <1>18, <1>19, <1>20, <1>21
     DEF Next, Poll, Coordinate

(* Each completion has the rows that changed or are to be shown again, and *)
(* the deltas in flight add up to the physical state.                      *)
LEMMA NextDeltasReachDisplay ==
  ASSUME AsyncInv, Next
  PROVE  DeltasReachDisplay'
<1> USE DEF inputVars, outputVars, flagVars, producerVars, historyVars, mainVars,
        displayVars, coordinatorVars, countVars, coreVars
<1>0. TypeOK /\ DeltasReachDisplay
  BY DEF AsyncInv
<1>1. CASE SerialConsume
  <2>1. coordinator = "none" /\ phase = "idle" /\ readyOutput = None
    BY <1>1 DEF SerialConsume, Wanted, InSession, AsyncInv, PhasesAgree
  <2>2. UNCHANGED <<phase, coordinator, readyOutput, failures>>
    BY <1>1 DEF SerialConsume
  <2>3. ASSUME NEW u \in Universes, failures = 0 PROVE displayed'[u] = canonical'[u]
    <3>1. u \in stateDirty \/ displayed[u] = canonical[u]
      BY <1>0, <2>1, <2>3 DEF DeltasReachDisplay, ShownNext
    <3>2. canonical'[u] = Evaluated[u]
      BY <1>1 DEF SerialConsume
    <3>3. displayed'[u] = IF u \in RowsToPublish THEN Evaluated[u] ELSE displayed[u]
      BY <1>1 DEF SerialConsume
    <3> QED
      BY <3>1, <3>2, <3>3 DEF RowsToPublish
  <2> QED
    BY <2>1, <2>2, <2>3 DEF DeltasReachDisplay, ShownNext
<1>2. CASE StartSession
  BY <1>0, <1>2, BankFacts, CompletionFacts, InputFacts
     DEF StartSession, Wanted, DeltasReachDisplay, ShownNext, Carries,
         InSession
<1>3. ASSUME NEW b \in InputBanks, ClaimInput(b) PROVE DeltasReachDisplay'
  BY <1>0, <1>3, BankFacts, CompletionFacts, InputFacts
     DEF ClaimInput, DeltasReachDisplay, ShownNext, Carries, InSession
<1>4. CASE NoFlush
  BY <1>0, <1>4, BankFacts, CompletionFacts, InputFacts
     DEF NoFlush, DeltasReachDisplay, ShownNext, Carries, InSession
<1>5. CASE PublishInput
  BY <1>0, <1>5, BankFacts, CompletionFacts, InputFacts
     DEF PublishInput, DeltasReachDisplay, ShownNext, Carries, InSession
<1>6. CASE RecycleInput
  BY <1>0, <1>6, BankFacts, CompletionFacts, InputFacts
     DEF RecycleInput, DeltasReachDisplay, ShownNext, Carries, InSession
<1>7. CASE AcquireNothing
  BY <1>0, <1>7, BankFacts, CompletionFacts, InputFacts
     DEF AcquireNothing, DeltasReachDisplay, ShownNext, Carries, InSession
<1>8. CASE Acquire
  BY <1>0, <1>8, BankFacts, CompletionFacts, InputFacts
     DEF Acquire, DeltasReachDisplay, ShownNext, Carries, InSession
<1>9. CASE Apply
  BY <1>0, <1>9, BankFacts, CompletionFacts, InputFacts
     DEF Apply, DeltasReachDisplay, ShownNext, Carries, InSession
<1>10. CASE Release
  BY <1>0, <1>10, BankFacts, CompletionFacts, InputFacts
     DEF Release, DeltasReachDisplay, ShownNext, Carries, InSession
<1>11. CASE Retire
  BY <1>0, <1>11, BankFacts, CompletionFacts, InputFacts
     DEF Retire, DestroySession, DeltasReachDisplay, ShownNext, Carries,
         InSession
<1>12. CASE Stop
  BY <1>0, <1>12, BankFacts, CompletionFacts, InputFacts
     DEF Stop, DeltasReachDisplay, ShownNext, Carries, InSession
<1>13. ASSUME NEW u \in Universes, Deliver(u) PROVE DeltasReachDisplay'
  BY <1>0, <1>13, BankFacts, CompletionFacts, InputFacts
     DEF Deliver, Active, DeltasReachDisplay, ShownNext, Carries, InSession
<1>14. CASE TakeInput
  BY <1>0, <1>14, BankFacts, CompletionFacts, InputFacts
     DEF TakeInput, DeltasReachDisplay, ShownNext, Carries, InSession
<1>15. CASE StartInitialBatch
  BY <1>0, <1>15, BankFacts, CompletionFacts, InputFacts
     DEF StartInitialBatch, DeltasReachDisplay, ShownNext, Carries, InSession
<1>16. CASE ReadInput
  BY <1>0, <1>16, BankFacts, CompletionFacts, InputFacts
     DEF ReadInput, DeltasReachDisplay, ShownNext, Carries, InSession
<1>17. ASSUME NEW b \in OutputBanks, ClaimOutput(b) PROVE DeltasReachDisplay'
  BY <1>0, <1>17, BankFacts, CompletionFacts, InputFacts
     DEF ClaimOutput, DeltasReachDisplay, ShownNext, Carries, InSession
<1>18. CASE Evaluate
  <2>1. /\ coordinator' = "publish" /\ taken' = taken /\ taken \in OutputBanks
        /\ corePending' = {} /\ stateDirty' = {}
        /\ UNCHANGED <<failures, readyOutput, phase, bank, displayed>>
    BY <1>0, <1>18, BankFacts DEF Evaluate
  <2>2. /\ snapshots'[taken].rows = RowsToPublish
        /\ snapshots'[taken].values = Evaluated
        /\ \A b \in OutputBanks : b # taken => snapshots'[b] = snapshots[b]
    BY <1>18, <2>1, CompletionFacts DEF Evaluate
  <2>3. /\ readyOutput # None => snapshots'[readyOutput] = snapshots[readyOutput]
        /\ phase = "apply" => snapshots'[bank] = snapshots[bank]
    BY <1>0, <1>18, <2>2, BankFacts, CompletionFacts DEF Evaluate
  <2>4. ASSUME NEW u \in Universes, failures = 0 PROVE ShownNext(u)' = canonical'[u]
    <3>1. u \in stateDirty \/ ShownNext(u) = canonical[u]
      BY <1>0, <1>18, <2>4 DEF Evaluate, DeltasReachDisplay
    <3>2. canonical'[u] = Evaluated[u]
      BY <1>18 DEF Evaluate
    <3>3. CASE u \in RowsToPublish
      BY <2>1, <2>2, <3>2, <3>3 DEF ShownNext, Carries
    <3>4. CASE u \notin RowsToPublish
      <4>1. ShownNext(u)' = ShownNext(u)
        BY <1>18, <2>1, <2>2, <2>3, <3>4 DEF Evaluate, ShownNext, Carries
      <4> QED
        BY <3>1, <3>2, <3>4, <4>1 DEF RowsToPublish
    <3> QED
      BY <3>3, <3>4
  <2> QED
    BY <2>1, <2>4 DEF DeltasReachDisplay
<1>19. CASE Fail
  BY <1>0, <1>19, BankFacts, CompletionFacts, InputFacts
     DEF Fail, DeltasReachDisplay, ShownNext, Carries, InSession
<1>20. CASE PublishOutput
  BY <1>0, <1>20, BankFacts, CompletionFacts, InputFacts
     DEF PublishOutput, DeltasReachDisplay, ShownNext, Carries, InSession
<1>21. CASE ObserveStop
  BY <1>0, <1>21, BankFacts, CompletionFacts, InputFacts
     DEF ObserveStop, DeltasReachDisplay, ShownNext, Carries, InSession
<1> QED
  BY <1>1, <1>2, <1>3, <1>4, <1>5, <1>6, <1>7, <1>8, <1>9, <1>10, <1>11,
     <1>12, <1>13, <1>14, <1>15, <1>16, <1>17, <1>18, <1>19, <1>20, <1>21
     DEF Next, Poll, Coordinate

(* A new session has everything free, and nothing to account for.          *)
LEMMA AsyncInitInv == Init => AsyncInv
<1> SUFFICES ASSUME Init PROVE AsyncInv
  OBVIOUS
<1>1. TypeOK
  BY AsyncInitType
<1>2. PhasesAgree
  BY DEF Init, PhasesAgree, InSession
<1>3. InputBanksOwned /\ OutputBanksOwned
  BY BanksAssumption DEF Init, InputBanksOwned, OutputBanksOwned, ProducerHolds,
                         ReaderHolds, KeeperHolds, LeaseHolds
<1>4. CompletionsInOrder
  BY DEF Init, CompletionsInOrder, Acquired, Ready, Held
<1>5. InputAccounted
  BY DEF Init, InputAccounted, InSession, NoPackets
<1>6. InputReachesCore
  BY DEF Init, InputReachesCore, InSession
<1>7. DeltasReachDisplay
  BY DEF Init, DeltasReachDisplay
<1> QED
  BY <1>1, <1>2, <1>3, <1>4, <1>5, <1>6, <1>7 DEF AsyncInv

(* The invariant is inductive.                                             *)
LEMMA AsyncNextInv == AsyncInv /\ [Next]_vars => AsyncInv'
<1> SUFFICES ASSUME AsyncInv, [Next]_vars PROVE AsyncInv'
  OBVIOUS
<1>1. CASE Next
  <2>1. TypeOK'
    BY <1>1, PollType, CoordinateType DEF AsyncInv, Next
  <2> QED
    BY <1>1, <2>1, NextPhases, NextInputBanks, NextOutputBanks, NextCompletions,
       NextInputAccounted, NextInputReachesCore, NextDeltasReachDisplay
       DEF AsyncInv
<1>2. CASE UNCHANGED vars
  <2> USE <1>2 DEF vars, inputVars, outputVars, flagVars, producerVars,
          historyVars, mainVars, displayVars, coordinatorVars, countVars, coreVars
  <2>1. TypeOK'
    BY DEF AsyncInv, TypeOK, BankOfPhase, BankOfCoordinator
  <2>2. PhasesAgree'
    BY DEF AsyncInv, PhasesAgree, InSession
  <2>3. InputBanksOwned' /\ OutputBanksOwned'
    BY DEF AsyncInv, InputBanksOwned, OutputBanksOwned, ProducerHolds, ReaderHolds,
           KeeperHolds, LeaseHolds
  <2>4. CompletionsInOrder'
    BY DEF AsyncInv, CompletionsInOrder, Acquired, Ready, Held
  <2>5. InputAccounted'
    BY DEF AsyncInv, InputAccounted, InSession
  <2>6. InputReachesCore'
    BY DEF AsyncInv, InputReachesCore, NewestInput, InSession
  <2>7. DeltasReachDisplay'
    BY DEF AsyncInv, DeltasReachDisplay, ShownNext, Carries
  <2> QED
    BY <2>1, <2>2, <2>3, <2>4, <2>5, <2>6, <2>7 DEF AsyncInv
<1> QED
  BY <1>1, <1>2

-----------------------------------------------------------------------------
(* Theorems *)

(* The inductive invariant (types, phases, owners, completions, packets)   *)
(* holds in every reachable state, for every value of the constants.       *)
THEOREM AsyncInvariant == Spec => []AsyncInv
<1>1. Init => AsyncInv
  BY AsyncInitInv
<1>2. AsyncInv /\ [Next]_vars => AsyncInv'
  BY AsyncNextInv
<1> QED
  BY <1>1, <1>2, PTL DEF Spec

(* Type correctness, and with it that each thread only ever uses a bank of *)
(* the right kind and never the index -1.                                  *)
THEOREM AsyncTypeCorrect == Spec => []TypeOK
<1>1. AsyncInv => TypeOK
  BY DEF AsyncInv
<1> QED
  BY <1>1, AsyncInvariant, PTL

(* The hand-off of flush_input, run, try_acquire and release gives every   *)
(* bank of a running session at most one holder and leaks none.            *)
THEOREM BanksAlwaysHaveOneHolder == Spec => []BanksHaveOneHolder
<1>1. AsyncInv => BanksHaveOneHolder
  <2> SUFFICES ASSUME AsyncInv, Active PROVE BanksHaveOneHolder
    BY DEF BanksHaveOneHolder
  <2>1. coordinator # "exit"
    BY DEF AsyncInv, PhasesAgree, Active
  <2>2. \A b \in OutputBanks : KeeperHolds(b) <=> WriterHolds(b)
    BY <2>1 DEF KeeperHolds, WriterHolds
  <2> QED
    BY <2>2 DEF AsyncInv, InputBanksOwned, OutputBanksOwned, BanksHaveOneHolder
<1> QED
  BY <1>1, AsyncInvariant, PTL

(* Three input banks are always enough: at most the queue and the reader   *)
(* hold one each when a poll begins to flush.                              *)
THEOREM FlushAlwaysFindsFreeBank == Spec => []FlushFindsFreeBank
<1>1. AsyncInv => FlushFindsFreeBank
  <2> SUFFICES ASSUME AsyncInv, phase = "idle"
               PROVE  \E b \in InputBanks : inputStatus[b] = "Free"
    BY DEF FlushFindsFreeBank
  <2> DEFINE held == {queuedInput, taken}
  <2>1. \E b \in InputBanks : b \notin held
    <3>1. IsFiniteSet(held) /\ Cardinality(held) <= 2
      <4>1. IsFiniteSet({queuedInput}) /\ Cardinality({queuedInput}) = 1
        BY FS_Singleton
      <4>2. held = {queuedInput} \cup {taken}
        OBVIOUS
      <4>3. /\ IsFiniteSet({queuedInput} \cup {taken})
            /\ \/ Cardinality({queuedInput} \cup {taken}) = 1
               \/ Cardinality({queuedInput} \cup {taken}) = 2
        BY <4>1, FS_AddElement
      <4> QED
        BY <4>2, <4>3
    <3>2. ASSUME InputBanks \subseteq held PROVE FALSE
      <4>1. Cardinality(InputBanks) <= Cardinality(held)
        BY <3>1, <3>2, FS_Subset
      <4>2. Cardinality(InputBanks) \in Nat /\ Cardinality(held) \in Nat
        BY <3>1, BanksAssumption, FS_CardinalityType
      <4> HIDE DEF held
      <4> QED
        BY <3>1, <4>1, <4>2, BanksAssumption
    <3> QED
      BY <3>2
  <2>2. PICK b \in InputBanks : b # queuedInput /\ b # taken
    BY <2>1
  <2> QED
    BY <2>2 DEF AsyncInv, InputBanksOwned, ProducerHolds, ReaderHolds
<1> QED
  BY <1>1, AsyncInvariant, PTL

(* The deltas reach the renderer one after the other, none skipped, none   *)
(* twice: the compare-exchange of run waits for the ready slot.            *)
THEOREM DeltasAlwaysInOrder == Spec => []DeltasAppliedInOrder
<1>1. AsyncInv => DeltasAppliedInOrder
  BY DEF AsyncInv, CompletionsInOrder, DeltasAppliedInOrder
<1> QED
  BY <1>1, AsyncInvariant, PTL

(* stop, reclaim and retire_async lose no packet that a session or the core*)
(* took, wherever they meet the coordinator.                               *)
THEOREM RetirementAlwaysKeepsInput == Spec => []RetirementLosesNothing
<1>1. AsyncInv => RetirementLosesNothing
  BY DEF AsyncInv, InputAccounted, DeltasReachDisplay, ShownNext, PhasesAgree,
         InSession, RetirementLosesNothing
<1> QED
  BY <1>1, AsyncInvariant, PTL

(* With nothing in flight a running session that never failed shows the    *)
(* last packet of every universe: coalesced input, skipped frames and      *)
(* deltas of changed rows add up to the latest state.                      *)
THEOREM SettledDisplayAlwaysLatest == Spec => []SettledDisplayIsLatest
<1>1. AsyncInv => SettledDisplayIsLatest
  <2> SUFFICES ASSUME AsyncInv, failures = 0, phase = "idle",
                      coordinator = "wait", ~initialBatch, ~producerDirty,
                      queuedInput = None, readyOutput = None
               PROVE  displayed = delivered
    BY DEF SettledDisplayIsLatest
  <2>1. coreFrame = delivered
    <3>1. NewestInput = latest /\ NewestInput = consumed
      BY DEF AsyncInv, InputReachesCore, NewestInput, InSession
    <3> QED
      BY <3>1 DEF AsyncInv, InputAccounted, InSession
  <2>2. \A u \in Universes : displayed[u] = canonical[u]
    BY DEF AsyncInv, DeltasReachDisplay, ShownNext
  <2>3. \A u \in Universes : canonical[u] = coreFrame[u]
    BY DEF AsyncInv, InputAccounted, DeltasReachDisplay
  <2> QED
    BY <2>1, <2>2, <2>3, InputFacts
<1> QED
  BY <1>1, AsyncInvariant, PTL
=============================================================================
