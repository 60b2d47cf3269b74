-------------------------- MODULE AsyncPresentation --------------------------
(***************************************************************************)
(* AsyncPresentationPipeline (async_presentation_pipeline.cpp) and its two *)
(* users on the main thread, PeravizVisualRuntime::submit_native_frame and *)
(* PeravizPresentationState (consume_runtime, poll_async, retire_async).   *)
(*                                                                         *)
(* A session moves the visual runtime core and the physical state to one   *)
(* coordinator thread. The main thread publishes latest input through      *)
(* three input banks and leases completed deltas from two output banks;    *)
(* the hand-off is two atomic indices and a status per bank, no lock.      *)
(*                                                                         *)
(* A packet is its number in the order of delivery, which also stands for  *)
(* the producer sequence: a later packet has a larger one. The waits of    *)
(* the coordinator have a timeout, so a missed notification delays it and  *)
(* no more. A bank's status is read by one compare-exchange against Free   *)
(* alone: a store between two other statuses is one step with its          *)
(* neighbour.                                                              *)
(***************************************************************************)
EXTENDS Naturals, FiniteSets

CONSTANTS
  Universes,
  InputBanks,     \* three in the code
  OutputBanks,    \* two in the code
  None,           \* the index -1
  MaxPackets,     \* bound: packets the pump delivers
  MaxSessions,    \* bound: sessions started
  MaxFailures     \* bound: sessions whose coordinator throws

ASSUME BanksAssumption ==
  /\ IsFiniteSet(InputBanks) /\ Cardinality(InputBanks) >= 3
  /\ IsFiniteSet(OutputBanks) /\ Cardinality(OutputBanks) >= 2
  /\ None \notin InputBanks \cup OutputBanks
  /\ MaxPackets \in Nat /\ MaxSessions \in Nat /\ MaxFailures \in Nat

VARIABLES
  \* atomics shared by the two threads
  inputStatus, inputFrames,    \* InputBank: status and frames
  outputStatus, snapshots,     \* OutputBank: status and snapshot
  queuedInput, readyOutput,    \* queued_input, ready_output
  stopping, failed,
  \* main thread
  latest,         \* latest
  producerDirty,  \* producer_dirty
  delivered,      \* history: the last packet the pump delivered
  accepted,       \* history: the last one that a session or the core took
  packets,        \* history: packets delivered
  phase,          \* where the main thread is
  bank,           \* the bank it publishes, the one it replaced, or its lease
  resumePending,  \* resume_pending_
  displayed,      \* what the renderer shows
  applied,        \* history: completions of this session applied
  \* coordinator
  coordinator,    \* where the coordinator is, "none" without a session
  taken,          \* input or output
  initialBatch,   \* initial_batch
  consumed,       \* consumed_sequences
  completed,      \* history: completions of this session
  sessions, failures,          \* history: counts for the bounds
  \* owned by the coordinator of a session, else by the main thread
  coreFrame,      \* latest_frame of the core
  corePending,    \* universes with has_pending_frame
  canonical,      \* the physical state
  stateDirty      \* outputs that the next snapshot must carry

inputVars == <<inputStatus, inputFrames, queuedInput>>
outputVars == <<outputStatus, snapshots, readyOutput>>
flagVars == <<stopping, failed>>
producerVars == <<latest, producerDirty>>
historyVars == <<delivered, accepted, packets>>
mainVars == <<phase, bank, resumePending>>
displayVars == <<displayed, applied>>
coordinatorVars == <<coordinator, taken, initialBatch, consumed, completed>>
countVars == <<sessions, failures>>
coreVars == <<coreFrame, corePending, canonical, stateDirty>>
vars == <<inputVars, outputVars, flagVars, producerVars, historyVars, mainVars,
          displayVars, coordinatorVars, countVars, coreVars>>

Statuses == {"Free", "Writing", "Queued", "Reading"}
Phases == {"idle", "publish", "recycle", "acquire", "apply", "release", "join"}
CoordinatorStates == {"none", "wait", "read", "claim", "evaluate", "publish",
                      "exit"}

Packet == 0..MaxPackets                 \* 0: nothing delivered yet
NoPackets == [u \in Universes |-> 0]
Snapshot == [serial : Nat, rows : SUBSET Universes,
             values : [Universes -> Packet]]
EmptySnapshot == [serial |-> 0, rows |-> {}, values |-> NoPackets]

InSession == coordinator # "none"
Active == InSession /\ ~stopping /\ ~failed

Init ==
  /\ inputStatus = [b \in InputBanks |-> "Free"]
  /\ inputFrames = [b \in InputBanks |-> NoPackets]
  /\ outputStatus = [b \in OutputBanks |-> "Free"]
  /\ snapshots = [b \in OutputBanks |-> EmptySnapshot]
  /\ queuedInput = None /\ readyOutput = None
  /\ stopping = FALSE /\ failed = FALSE
  /\ latest = NoPackets /\ producerDirty = FALSE
  /\ delivered = NoPackets /\ accepted = NoPackets /\ packets = 0
  /\ phase = "idle" /\ bank = None /\ resumePending = FALSE
  /\ displayed = NoPackets /\ applied = 0
  /\ coordinator = "none" /\ taken = None /\ initialBatch = FALSE
  /\ consumed = NoPackets /\ completed = 0
  /\ sessions = 0 /\ failures = 0
  /\ coreFrame = NoPackets /\ corePending = {}
  /\ canonical = NoPackets /\ stateDirty = Universes

-----------------------------------------------------------------------------
(* The core and the physical state, whoever owns them.                     *)

(* submit_universe_frame for every universe of S. *)
CoreSubmit(S, frames) ==
  /\ coreFrame' = [u \in Universes |-> IF u \in S THEN frames[u] ELSE coreFrame[u]]
  /\ corePending' = corePending \cup S

(* Consume: what changed since the last evaluation becomes canonical. *)
Evaluated ==
  [u \in Universes |-> IF u \in corePending THEN coreFrame[u] ELSE canonical[u]]
RowsToPublish == stateDirty \cup {u \in Universes : Evaluated[u] # canonical[u]}

Unread == {u \in Universes : latest[u] # consumed[u]}

-----------------------------------------------------------------------------
(* Main thread: the pump, and serial playback while there is no session.   *)

(* submit_native_frame: submit refuses the packet of an inactive session,  *)
(* and the caller does not look at its result.                             *)
Deliver(u) ==
  /\ phase = "idle"
  /\ packets < MaxPackets
  /\ packets' = packets + 1
  /\ delivered' = [delivered EXCEPT ![u] = packets + 1]
  /\ \/ /\ Active
        /\ latest' = [latest EXCEPT ![u] = packets + 1]
        /\ producerDirty' = TRUE
        /\ accepted' = [accepted EXCEPT ![u] = packets + 1]
        /\ UNCHANGED coreVars
     \/ /\ InSession /\ ~Active
        /\ UNCHANGED <<latest, producerDirty, accepted, coreVars>>
     \/ /\ ~InSession
        /\ CoreSubmit({u}, [v \in Universes |-> packets + 1])
        /\ accepted' = [accepted EXCEPT ![u] = packets + 1]
        /\ UNCHANGED <<latest, producerDirty, canonical, stateDirty>>
  /\ UNCHANGED <<inputVars, outputVars, flagVars, mainVars, displayVars,
                 coordinatorVars, countVars>>

(* A serial poll goes on only for new input or held values to replay.      *)
Wanted == phase = "idle" /\ ~InSession /\ (corePending # {} \/ resumePending)

(* Whether a scene is eligible for a session depends on its work and on    *)
(* switches, and the constructor may find no resources: a choice.          *)
SerialConsume ==
  /\ Wanted
  /\ resumePending' = FALSE
  /\ canonical' = Evaluated
  /\ displayed' = [u \in Universes |->
                     IF u \in RowsToPublish THEN Evaluated[u] ELSE displayed[u]]
  /\ corePending' = {} /\ stateDirty' = {}
  /\ UNCHANGED <<inputVars, outputVars, flagVars, producerVars, historyVars,
                 phase, bank, applied, coordinatorVars, countVars, coreFrame>>

(* The constructor and the poll that follows: latest as the core holds it  *)
(* and none of it to be submitted again.                                   *)
StartSession ==
  /\ Wanted
  /\ sessions < MaxSessions
  /\ sessions' = sessions + 1
  /\ resumePending' = FALSE
  /\ latest' = coreFrame /\ consumed' = coreFrame
  /\ coordinator' = "wait" /\ initialBatch' = TRUE
  /\ phase' = "acquire"
  /\ UNCHANGED <<inputVars, outputVars, flagVars, producerDirty, historyVars,
                 bank, displayVars, taken, completed, failures, coreVars>>

-----------------------------------------------------------------------------
(* Main thread: poll_async, that is flush_input, try_acquire, release.     *)

(* flush_input takes a free bank and copies latest into it. *)
ClaimInput(b) ==
  /\ phase = "idle" /\ Active /\ producerDirty
  /\ inputStatus[b] = "Free"
  /\ inputStatus' = [inputStatus EXCEPT ![b] = "Writing"]
  /\ inputFrames' = [inputFrames EXCEPT ![b] = latest]
  /\ bank' = b
  /\ phase' = "publish"
  /\ UNCHANGED <<queuedInput, outputVars, flagVars, producerVars, historyVars,
                 resumePending, displayVars, coordinatorVars, countVars, coreVars>>

(* Nothing to flush, or no free bank: flush_input returns false. *)
NoFlush ==
  /\ phase = "idle" /\ InSession
  /\ \/ ~Active \/ ~producerDirty
     \/ \A b \in InputBanks : inputStatus[b] # "Free"
  /\ phase' = "acquire"
  /\ UNCHANGED <<inputVars, outputVars, flagVars, producerVars, historyVars, bank,
                 resumePending, displayVars, coordinatorVars, countVars, coreVars>>

(* The bank becomes the queued one; the one it replaces is now ours. *)
PublishInput ==
  /\ phase = "publish"
  /\ inputStatus' = [inputStatus EXCEPT ![bank] = "Queued"]
  /\ queuedInput' = bank
  /\ bank' = queuedInput
  /\ phase' = "recycle"
  /\ UNCHANGED <<inputFrames, outputVars, flagVars, producerVars, historyVars,
                 resumePending, displayVars, coordinatorVars, countVars, coreVars>>

(* Bug: a replaced bank ends the flush before it is given back. *)
MutRecycleReturnsEarly ==
  /\ phase = "recycle"
  /\ producerDirty' = (producerDirty /\ bank # None)
  /\ bank' = None
  /\ phase' = "acquire"
  /\ UNCHANGED <<inputVars, outputVars, flagVars, latest, historyVars,
                 resumePending, displayVars, coordinatorVars, countVars, coreVars>>

RecycleInput ==
  /\ phase = "recycle"
  /\ inputStatus' = IF bank = None THEN inputStatus
                                   ELSE [inputStatus EXCEPT ![bank] = "Free"]
  /\ producerDirty' = FALSE
  /\ bank' = None
  /\ phase' = "acquire"
  /\ UNCHANGED <<inputFrames, queuedInput, outputVars, flagVars, latest,
                 historyVars, resumePending, displayVars, coordinatorVars,
                 countVars, coreVars>>

(* try_acquire. *)
AcquireNothing ==
  /\ phase = "acquire"
  /\ ~Active \/ readyOutput = None
  /\ phase' = "idle"
  /\ UNCHANGED <<inputVars, outputVars, flagVars, producerVars, historyVars, bank,
                 resumePending, displayVars, coordinatorVars, countVars, coreVars>>

Acquire ==
  /\ phase = "acquire"
  /\ Active /\ readyOutput # None
  /\ outputStatus' = [outputStatus EXCEPT ![readyOutput] = "Reading"]
  /\ readyOutput' = None
  /\ bank' = readyOutput
  /\ phase' = "apply"
  /\ UNCHANGED <<inputVars, snapshots, flagVars, producerVars, historyVars,
                 resumePending, displayVars, coordinatorVars, countVars, coreVars>>

Apply ==
  /\ phase = "apply"
  /\ displayed' = [u \in Universes |-> IF u \in snapshots[bank].rows
                                         THEN snapshots[bank].values[u]
                                         ELSE displayed[u]]
  /\ applied' = snapshots[bank].serial
  /\ phase' = "release"
  /\ UNCHANGED <<inputVars, outputVars, flagVars, producerVars, historyVars, bank,
                 resumePending, coordinatorVars, countVars, coreVars>>

Release ==
  /\ phase = "release"
  /\ outputStatus' = [outputStatus EXCEPT ![bank] = "Free"]
  /\ bank' = None
  /\ phase' = "idle"
  /\ UNCHANGED <<inputVars, snapshots, readyOutput, flagVars, producerVars,
                 historyVars, resumePending, displayVars, coordinatorVars,
                 countVars, coreVars>>

-----------------------------------------------------------------------------
(* Main thread: retire_async at a renderer or setup boundary.              *)

Stop ==
  /\ phase = "idle" /\ InSession
  /\ stopping' = TRUE
  /\ phase' = "join"
  /\ UNCHANGED <<inputVars, outputVars, failed, producerVars, historyVars, bank,
                 resumePending, displayVars, coordinatorVars, countVars, coreVars>>

(* The session object is gone, and with it its banks and flags. *)
DestroySession ==
  /\ inputStatus' = [b \in InputBanks |-> "Free"]
  /\ inputFrames' = [b \in InputBanks |-> NoPackets]
  /\ outputStatus' = [b \in OutputBanks |-> "Free"]
  /\ snapshots' = [b \in OutputBanks |-> EmptySnapshot]
  /\ queuedInput' = None /\ readyOutput' = None
  /\ stopping' = FALSE /\ failed' = FALSE
  /\ latest' = NoPackets /\ producerDirty' = FALSE
  /\ coordinator' = "none" /\ taken' = None /\ initialBatch' = FALSE
  /\ consumed' = NoPackets /\ completed' = 0 /\ applied' = 0

(* Bug: input that the coordinator has not read is forgotten. *)
MutRetireForgetsUnread ==
  /\ phase = "join" /\ coordinator = "exit"
  /\ CoreSubmit({}, latest)
  /\ DestroySession
  /\ stateDirty' = Universes
  /\ resumePending' = TRUE
  /\ phase' = "idle"
  /\ UNCHANGED <<historyVars, bank, displayed, countVars, canonical>>

(* Bug: the renderer is not told to replay what was dropped in flight. *)
MutRetireKeepsClean ==
  /\ phase = "join" /\ coordinator = "exit"
  /\ CoreSubmit(Unread, latest)
  /\ DestroySession
  /\ resumePending' = FALSE
  /\ phase' = "idle"
  /\ UNCHANGED <<historyVars, bank, displayed, countVars, canonical, stateDirty>>

(* The rest of stop, reclaim and retire_async once the thread has ended:   *)
(* unread input goes to the core, every output will be replayed.           *)
Retire ==
  /\ phase = "join" /\ coordinator = "exit"
  /\ CoreSubmit(Unread, latest)
  /\ DestroySession
  /\ stateDirty' = Universes
  /\ resumePending' = TRUE
  /\ phase' = "idle"
  /\ UNCHANGED <<historyVars, bank, displayed, countVars, canonical>>

-----------------------------------------------------------------------------
(* Coordinator thread: run.                                                *)

(* Bug: the coordinator peeks at the queue instead of emptying it. *)
MutTakeInputPeeks ==
  /\ coordinator = "wait" /\ ~stopping
  /\ queuedInput # None
  /\ taken' = queuedInput
  /\ queuedInput' = queuedInput
  /\ inputStatus' = [inputStatus EXCEPT ![queuedInput] = "Reading"]
  /\ initialBatch' = FALSE
  /\ coordinator' = "read"
  /\ UNCHANGED <<inputFrames, outputVars, flagVars, producerVars, historyVars,
                 mainVars, displayVars, consumed, completed, countVars, coreVars>>

TakeInput ==
  /\ coordinator = "wait" /\ ~stopping
  /\ queuedInput # None
  /\ taken' = queuedInput
  /\ queuedInput' = None
  /\ inputStatus' = [inputStatus EXCEPT ![queuedInput] = "Reading"]
  /\ initialBatch' = FALSE
  /\ coordinator' = "read"
  /\ UNCHANGED <<inputFrames, outputVars, flagVars, producerVars, historyVars,
                 mainVars, displayVars, consumed, completed, countVars, coreVars>>

(* The first batch publishes the held state without new input. *)
StartInitialBatch ==
  /\ coordinator = "wait" /\ ~stopping
  /\ initialBatch /\ queuedInput = None
  /\ initialBatch' = FALSE
  /\ coordinator' = "claim"
  /\ UNCHANGED <<inputVars, outputVars, flagVars, producerVars, historyVars,
                 mainVars, displayVars, taken, consumed, completed, countVars,
                 coreVars>>

NewFrames == {u \in Universes : inputFrames[taken][u] # consumed[u]}

(* Bug: a frame counts as consumed although it is not submitted. *)
MutReadInputSkipsQueued ==
  /\ coordinator = "read"
  /\ CoreSubmit(NewFrames \ corePending, inputFrames[taken])
  /\ consumed' = inputFrames[taken]
  /\ inputStatus' = [inputStatus EXCEPT ![taken] = "Free"]
  /\ taken' = None
  /\ coordinator' = "claim"
  /\ UNCHANGED <<inputFrames, queuedInput, outputVars, flagVars, producerVars,
                 historyVars, mainVars, displayVars, initialBatch, completed,
                 countVars, canonical, stateDirty>>

ReadInput ==
  /\ coordinator = "read"
  /\ CoreSubmit(NewFrames, inputFrames[taken])
  /\ consumed' = inputFrames[taken]
  /\ inputStatus' = [inputStatus EXCEPT ![taken] = "Free"]
  /\ taken' = None
  /\ coordinator' = "claim"
  /\ UNCHANGED <<inputFrames, queuedInput, outputVars, flagVars, producerVars,
                 historyVars, mainVars, displayVars, initialBatch, completed,
                 countVars, canonical, stateDirty>>

ClaimOutput(b) ==
  /\ coordinator = "claim" /\ ~stopping
  /\ outputStatus[b] = "Free"
  /\ outputStatus' = [outputStatus EXCEPT ![b] = "Writing"]
  /\ taken' = b
  /\ coordinator' = "evaluate"
  /\ UNCHANGED <<inputVars, snapshots, readyOutput, flagVars, producerVars,
                 historyVars, mainVars, displayVars, initialBatch, consumed,
                 completed, countVars, coreVars>>

(* consume, complete and finish_snapshot. *)
Evaluate ==
  /\ coordinator = "evaluate"
  /\ canonical' = Evaluated
  /\ corePending' = {}
  /\ snapshots' = [snapshots EXCEPT ![taken] =
       [serial |-> completed + 1, rows |-> RowsToPublish, values |-> Evaluated]]
  /\ stateDirty' = {}
  /\ completed' = completed + 1
  /\ outputStatus' = [outputStatus EXCEPT ![taken] = "Queued"]
  /\ coordinator' = "publish"
  /\ UNCHANGED <<inputVars, readyOutput, flagVars, producerVars, historyVars,
                 mainVars, displayVars, taken, initialBatch, consumed, countVars,
                 coreFrame>>

(* consume throws: some pending frames are evaluated and not composed.     *)
Fail ==
  /\ coordinator = "evaluate"
  /\ failures < MaxFailures
  /\ failures' = failures + 1
  /\ failed' = TRUE
  /\ corePending' \in SUBSET corePending
  /\ coordinator' = "exit"
  /\ UNCHANGED <<inputVars, outputVars, stopping, producerVars, historyVars,
                 mainVars, displayVars, taken, initialBatch, consumed, completed,
                 sessions, coreFrame, canonical, stateDirty>>

(* Bug: an exchange that replaces an unread result, as for the input. *)
MutPublishOutputReplaces ==
  /\ coordinator = "publish" /\ ~stopping
  /\ readyOutput' = taken
  /\ outputStatus' = [b \in OutputBanks |->
                        IF b = readyOutput THEN "Free" ELSE outputStatus[b]]
  /\ taken' = None
  /\ coordinator' = "wait"
  /\ UNCHANGED <<inputVars, snapshots, flagVars, producerVars,
                 historyVars, mainVars, displayVars, initialBatch, consumed,
                 completed, countVars, coreVars>>

(* The compare-exchange waits for the preceding result to be acquired. *)
PublishOutput ==
  /\ coordinator = "publish" /\ ~stopping
  /\ readyOutput = None
  /\ readyOutput' = taken
  /\ taken' = None
  /\ coordinator' = "wait"
  /\ UNCHANGED <<inputVars, outputStatus, snapshots, flagVars, producerVars,
                 historyVars, mainVars, displayVars, initialBatch, consumed,
                 completed, countVars, coreVars>>

(* Every loop of run ends when it sees stopping. *)
ObserveStop ==
  /\ coordinator \in {"wait", "claim", "publish"}
  /\ stopping
  /\ coordinator' = "exit"
  /\ UNCHANGED <<inputVars, outputVars, flagVars, producerVars, historyVars,
                 mainVars, displayVars, taken, initialBatch, consumed, completed,
                 countVars, coreVars>>

-----------------------------------------------------------------------------
Poll ==
  \/ SerialConsume \/ StartSession
  \/ \E b \in InputBanks : ClaimInput(b)
  \/ NoFlush \/ PublishInput \/ RecycleInput
  \/ AcquireNothing \/ Acquire \/ Apply \/ Release
  \/ Retire

Coordinate ==
  \/ TakeInput \/ StartInitialBatch \/ ReadInput
  \/ \E b \in OutputBanks : ClaimOutput(b)
  \/ Evaluate \/ Fail \/ PublishOutput \/ ObserveStop

Next ==
  \/ \E u \in Universes : Deliver(u)
  \/ Stop
  \/ Poll
  \/ Coordinate

Spec == Init /\ [][Next]_vars

(* The controller polls every frame while its receiver runs: DMX is taken  *)
(* to stay on (process_dmx returns at once when it is off). The scheduler  *)
(* runs the thread. Nothing obliges a console to send or the user to       *)
(* change the renderer.                                                    *)
FairSpec == Spec /\ WF_vars(Poll) /\ WF_vars(Coordinate)

-----------------------------------------------------------------------------
(* The bank index a thread has where it is: those of flush_input and       *)
(* try_acquire, and that of run.                                           *)
BankOfPhase ==
  CASE phase = "publish" -> InputBanks
    [] phase = "recycle" -> InputBanks \cup {None}
    [] phase \in {"apply", "release"} -> OutputBanks
    [] OTHER -> {None}

BankOfCoordinator ==
  CASE coordinator = "read" -> InputBanks
    [] coordinator \in {"evaluate", "publish"} -> OutputBanks
    [] coordinator = "exit" -> OutputBanks \cup {None}
    [] OTHER -> {None}

(* Every variable has its type, and each thread has a bank of the right    *)
(* kind exactly where its code uses one.                                   *)
TypeOK ==
  /\ inputStatus \in [InputBanks -> Statuses]
  /\ inputFrames \in [InputBanks -> [Universes -> Packet]]
  /\ outputStatus \in [OutputBanks -> Statuses]
  /\ snapshots \in [OutputBanks -> Snapshot]
  /\ queuedInput \in InputBanks \cup {None}
  /\ readyOutput \in OutputBanks \cup {None}
  /\ stopping \in BOOLEAN /\ failed \in BOOLEAN
  /\ latest \in [Universes -> Packet] /\ producerDirty \in BOOLEAN
  /\ delivered \in [Universes -> Packet] /\ accepted \in [Universes -> Packet]
  /\ packets \in Packet
  /\ phase \in Phases /\ resumePending \in BOOLEAN
  /\ bank \in BankOfPhase
  /\ displayed \in [Universes -> Packet] /\ applied \in Nat
  /\ coordinator \in CoordinatorStates
  /\ taken \in BankOfCoordinator
  /\ initialBatch \in BOOLEAN
  /\ consumed \in [Universes -> Packet] /\ completed \in Nat
  /\ sessions \in Nat /\ failures \in Nat
  /\ coreFrame \in [Universes -> Packet] /\ corePending \in SUBSET Universes
  /\ canonical \in [Universes -> Packet] /\ stateDirty \in SUBSET Universes

(* Who holds an input bank: the producer between its claim and its         *)
(* publication and again until a replaced bank is recycled, the queue, or  *)
(* the coordinator that reads it.                                          *)
ProducerHolds(b) == phase \in {"publish", "recycle"} /\ bank = b
ReaderHolds(b) == coordinator = "read" /\ taken = b

(* Who holds an output bank: the coordinator that fills or still has to    *)
(* publish it, the ready slot, or the lease of the poll.                   *)
WriterHolds(b) == coordinator \in {"evaluate", "publish"} /\ taken = b
LeaseHolds(b) == phase \in {"apply", "release"} /\ bank = b

(* In a running session each bank has at most one holder, its status says  *)
(* so, and it is free exactly when it has none: no frame is torn between   *)
(* the threads and no bank leaks (statuses and exchanges of flush_input,   *)
(* run, try_acquire and release).                                          *)
BanksHaveOneHolder ==
  Active =>
    /\ \A b \in InputBanks :
         /\ (inputStatus[b] = "Free") <=>
              ~(ProducerHolds(b) \/ queuedInput = b \/ ReaderHolds(b))
         /\ ~(ProducerHolds(b) /\ queuedInput = b)
         /\ ~(ProducerHolds(b) /\ ReaderHolds(b))
         /\ ~(queuedInput = b /\ ReaderHolds(b))
    /\ \A b \in OutputBanks :
         /\ (outputStatus[b] = "Free") <=>
              ~(WriterHolds(b) \/ readyOutput = b \/ LeaseHolds(b))
         /\ ~(WriterHolds(b) /\ readyOutput = b)
         /\ ~(WriterHolds(b) /\ LeaseHolds(b))
         /\ ~(readyOutput = b /\ LeaseHolds(b))

(* Three banks are enough: the poll of a running session that has input to *)
(* publish finds a free one, whatever the coordinator does, so input is    *)
(* never put off for want of a bank (flush_input's last return).           *)
FlushFindsFreeBank ==
  Active /\ phase = "idle" => \E b \in InputBanks : inputStatus[b] = "Free"

(* "No unread delta is overwritten": the completion that the poll is about *)
(* to apply is the one after the last it applied (publication loop of run, *)
(* docs/architecture.md).                                                  *)
DeltasAppliedInOrder ==
  phase = "apply" => snapshots[bank].serial = applied + 1

(* A running session with nothing in flight shows the last packet of every *)
(* universe: coalesced input, frames that are not submitted twice and      *)
(* deltas that carry changed outputs only add up to the latest state.      *)
SettledDisplayIsLatest ==
  (/\ Active /\ failures = 0
   /\ phase = "idle" /\ coordinator = "wait" /\ ~initialBatch
   /\ ~producerDirty /\ queuedInput = None /\ readyOutput = None)
    => displayed = delivered

(* A retirement, at whatever point it meets the coordinator, leaves every  *)
(* packet a session or the core took in the core, and unless evaluation    *)
(* failed, what is not shown is still to be evaluated or replayed ("Restore*)
(* unconsumed producer input before another session may acquire this core",*)
(* stop and retire_async).                                                 *)
RetirementLosesNothing ==
  ~InSession =>
    /\ coreFrame = accepted
    /\ failures = 0 => \A u \in Universes :
         displayed[u] = coreFrame[u] \/ u \in corePending \cup stateDirty

(* "Scene/renderer retirement preserves held values"                       *)
(* (docs/release-notes-draft.md:42): without a session, the core has the   *)
(* last packet that the pump delivered for every universe.                 *)
RetirementKeepsDelivered == ~InSession => coreFrame = delivered

(* Without failures the display ends up at the last packet of every        *)
(* universe, through any number of sessions and retirements: the poll and  *)
(* the coordinator never wait for each other in a circle, and a retirement *)
(* is followed by the replay of what it interrupted.                       *)
DisplayCatchesUp == <>[](failures = 0 => displayed = delivered)
=============================================================================
