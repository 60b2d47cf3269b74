-------------------------- MODULE RealtimePlayback --------------------------
(***************************************************************************)
(* Realtime playback end to end: the receiver's RX thread (artnet_         *)
(* receiver.cpp) and Godot's main thread (dmx_controller.gd, dmx_fixture_  *)
(* runtime.gd, peraviz_dmx_receiver.cpp, visual_runtime_async_godot.cpp)   *)
(* around the mailbox, down to the values the visual runtime core holds    *)
(* (peraviz_visual_runtime.cpp). Playback is serial: the core consumes on  *)
(* the main thread.                                                        *)
(*                                                                         *)
(* The main thread is a program counter, phase; "idle" is between two      *)
(* calls of process_dmx. Only mailbox calls are shared with the RX thread, *)
(* so main-thread work between two of them is one step.                    *)
(***************************************************************************)
EXTENDS RealtimeMailbox

VARIABLES
  running,      \* running_
  receiving,    \* the RX thread is not joined
  inHand,       \* the RX thread took a datagram and has not published it
  phase,        \* where the main thread is
  restart,      \* stop() was called by a start
  interests,    \* compiled interests: interests_cache_ and the core's universes
  configured,   \* _receiver_subscription_generation = _runtime_generation
  rehydrated,   \* rehydrated_states_pending_ > 0
  latest,       \* latest_frame of the core, per universe
  pending,      \* has_pending_frame
  values        \* last_relevant_values, NoPayload before there are any

mainVars == <<phase, restart, interests, configured, rehydrated>>
coreVars == <<latest, pending, values>>
vars == <<mailboxVars, running, receiving, inHand, mainVars, coreVars>>

Phases == {"idle", "joining", "rehydrate", "pump", "drain", "submit", "consume"}

NoInterest == [u \in Universes |-> {}]
NoFrames == [u \in Universes |-> ZeroPayload]
NoPending == [u \in Universes |-> FALSE]
NoValues == [u \in Universes |-> NoPayload]

Mask(data, offsets) ==
  [o \in Offsets |-> IF o \in offsets THEN data[o] ELSE ZeroByte]

Init ==
  /\ MailboxInit
  /\ running = FALSE /\ receiving = FALSE /\ inHand = FALSE
  /\ phase = "idle" /\ restart = FALSE
  /\ interests = NoInterest /\ configured = FALSE /\ rehydrated = FALSE
  /\ latest = NoFrames /\ pending = NoPending /\ values = NoValues

-----------------------------------------------------------------------------
(* The RX thread: run. It checks running_ before it takes a datagram, not  *)
(* before it publishes it.                                                 *)

RxTake ==
  /\ receiving /\ running /\ ~inHand
  /\ now < MaxPackets
  /\ inHand' = TRUE
  /\ UNCHANGED <<mailboxVars, running, receiving, mainVars, coreVars>>

RxPublish ==
  /\ inHand
  /\ inHand' = FALSE
  /\ \E u \in Universes, data \in Payload : Publish(u, data)
  /\ UNCHANGED <<running, receiving, mainVars, coreVars>>

-----------------------------------------------------------------------------
(* The user's commands, between two frames of the main thread.             *)

(* Generations that a configure still owed would need. *)
Owed == IF configured THEN 0 ELSE 1

(* _set_dmx_enabled: a start stops first. stop() clears running_, then     *)
(* joins the RX thread, then resets the session.                           *)
Toggle(on) ==
  /\ phase = "idle"
  /\ generation + Owed < MaxGeneration
  /\ running' = FALSE
  /\ restart' = on
  /\ phase' = "joining"
  /\ UNCHANGED <<mailboxVars, receiving, inHand, interests, configured,
                 rehydrated, coreVars>>

MutResetBeforeJoin ==
  /\ phase = "joining"
  /\ ResetSession
  /\ rehydrated' = FALSE
  /\ phase' = "idle"
  /\ \/ restart /\ running' = TRUE /\ receiving' = TRUE
     \/ running' = FALSE /\ receiving' = FALSE
  /\ UNCHANGED <<inHand, restart, interests, configured, coreVars>>

(* stop() ends; the start that asked for it may still fail to bind. *)
Join ==
  /\ phase = "joining"
  /\ ~inHand
  /\ ResetSession
  /\ rehydrated' = FALSE
  /\ phase' = "idle"
  /\ \/ restart /\ running' = TRUE /\ receiving' = TRUE
     \/ running' = FALSE /\ receiving' = FALSE
  /\ UNCHANGED <<inHand, restart, interests, configured, coreVars>>

(* rebuild without a load budget: the core is cleared and compiled again   *)
(* without suspending, and the receiver is to be configured anew.          *)
Refresh(next) ==
  /\ phase = "idle"
  /\ configured => generation < MaxGeneration
  /\ interests' = next
  /\ configured' = FALSE
  /\ latest' = NoFrames /\ pending' = NoPending /\ values' = NoValues
  /\ UNCHANGED <<mailboxVars, running, receiving, inHand, phase, restart,
                 rehydrated>>

-----------------------------------------------------------------------------
(* One frame of the main thread: _collect_dmx.                             *)

Submitted(data, S) ==
  /\ latest' = [u \in Universes |-> IF u \in S THEN data[u] ELSE latest[u]]
  /\ pending' = [u \in Universes |-> u \in S \/ pending[u]]
  /\ UNCHANGED values

(* submit_universe_frame ignores a universe the core has no interest in.   *)
Compiled(S) == {u \in S : interests[u] # {}}

(* configure_visual_runtime takes the mailbox's mutex twice, in            *)
(* set_subscription and in held_states.                                    *)
Configure ==
  /\ phase = "idle" /\ running /\ ~configured
  /\ SetSubscription(interests)
  /\ configured' = TRUE
  /\ phase' = "rehydrate"
  /\ UNCHANGED <<running, receiving, inHand, restart, interests, rehydrated,
                 coreVars>>

MutRehydrateNotCounted ==
  /\ phase = "rehydrate"
  /\ Submitted([u \in Universes |-> slots[u].held], Compiled(HeldUniverses))
  /\ phase' = "pump"
  /\ UNCHANGED <<mailboxVars, running, receiving, inHand, restart, interests,
                 configured, rehydrated>>

Rehydrate ==
  /\ phase = "rehydrate"
  /\ Submitted([u \in Universes |-> slots[u].held], Compiled(HeldUniverses))
  /\ rehydrated' = (HeldUniverses # {})
  /\ phase' = "pump"
  /\ UNCHANGED <<mailboxVars, running, receiving, inHand, restart, interests,
                 configured>>

Pump ==
  /\ \/ phase = "pump"
     \/ phase = "idle" /\ running /\ configured
  /\ BeginDrain
  /\ phase' = "drain"
  /\ UNCHANGED <<running, receiving, inHand, restart, interests, configured,
                 rehydrated, coreVars>>

Drain ==
  /\ phase = "drain"
  /\ \/ DrainToken /\ UNCHANGED phase
     \/ EndDrain /\ phase' = "submit"
  /\ UNCHANGED <<running, receiving, inHand, restart, interests, configured,
                 rehydrated, coreVars>>

Drained == {frames[i].universe : i \in DOMAIN frames}

(* The last frame of u in the batch wins. *)
DrainedData(u) ==
  LET last == CHOOSE i \in DOMAIN frames :
                /\ frames[i].universe = u
                /\ \A j \in DOMAIN frames : frames[j].universe = u => j <= i
  IN frames[last].data

MutSubmitKeepsPending ==
  /\ phase = "submit"
  /\ Submitted([u \in Universes |-> IF u \in Drained THEN DrainedData(u)
                                                     ELSE latest[u]],
               {u \in Compiled(Drained) : ~pending[u]})
  /\ phase' = IF rehydrated \/ frames # <<>> THEN "consume" ELSE "idle"
  /\ rehydrated' = FALSE
  /\ frames' = <<>>
  /\ UNCHANGED <<subscription, generation, allocated, slots, dirtyTokens,
                 nextToken, draining, toConsume, now, wire, running, receiving,
                 inHand, restart, interests, configured>>

(* Nothing is consumed in a frame that submitted nothing. *)
Submit ==
  /\ phase = "submit"
  /\ Submitted([u \in Universes |-> IF u \in Drained THEN DrainedData(u)
                                                     ELSE latest[u]],
               Compiled(Drained))
  /\ phase' = IF rehydrated \/ frames # <<>> THEN "consume" ELSE "idle"
  /\ rehydrated' = FALSE
  /\ frames' = <<>>
  /\ UNCHANGED <<subscription, generation, allocated, slots, dirtyTokens,
                 nextToken, draining, toConsume, now, wire, running, receiving,
                 inHand, restart, interests, configured>>

(* consume_latest_visual_frame: the offsets of interest that changed. *)
Consume ==
  /\ phase = "consume"
  /\ values' = [u \in Universes |->
                  IF pending[u] THEN Mask(latest[u], interests[u]) ELSE values[u]]
  /\ pending' = NoPending
  /\ phase' = "idle"
  /\ UNCHANGED <<mailboxVars, running, receiving, inHand, restart, interests,
                 configured, rehydrated, latest>>

MainStep == Join \/ Configure \/ Rehydrate \/ Pump \/ Drain \/ Submit \/ Consume

Next ==
  \/ RxTake
  \/ RxPublish
  \/ \E on \in BOOLEAN : Toggle(on)
  \/ \E next \in Subscription : Refresh(next)
  \/ MainStep

(* The operating system runs the RX thread, Godot calls _process. Nothing  *)
(* makes a packet arrive or the user give a command.                       *)
Fairness == WF_vars(RxPublish) /\ WF_vars(MainStep)

Spec == Init /\ [][Next]_vars /\ Fairness

-----------------------------------------------------------------------------
(* Properties *)

(* Between two frames, once the ring is drained, the values the scene is   *)
(* drawn from are those of the last packet at every offset of interest, for *)
(* every universe with proven state: no rebuild, mask change, rehydration   *)
(* or restart loses an update whose token it retired.                       *)
SettledViewMatchesWire ==
  (phase = "idle" /\ running /\ configured /\ dirtyTokens = <<>>) =>
    \A u \in HeldUniverses :
      /\ values[u] # NoPayload
      /\ Agree(values[u], wire[u], interests[u])

(* Once stop() has joined the RX thread, no state of the session is left   *)
(* to rehydrate or to drain, whatever the thread still had in hand.        *)
StoppedSessionHoldsNothing ==
  ~receiving => dirtyTokens = <<>> /\ HeldUniverses = {}

(* The view of a universe with proven state catches up with the wire,      *)
(* unless the state is retired first; it does not wait for a packet.       *)
ViewCatchesUp ==
  \A u \in Universes :
    (running /\ u \in HeldUniverses)
      ~> \/ ~running
         \/ u \notin HeldUniverses
         \/ values[u] # NoPayload /\ Agree(values[u], wire[u], interests[u])

(* Refinement: what was drained or submitted and not consumed is on its    *)
(* way, what the core consumed is shown.                                   *)
Transit ==
  [u \in Universes |->
     IF u \in Compiled(Drained) THEN Mask(DrainedData(u), interests[u])
     ELSE IF pending[u] THEN Mask(latest[u], interests[u])
     ELSE NoPayload]

Abstract == INSTANCE LatestState WITH
  relevant <- interests, sent <- wire, known <- HeldUniverses,
  transit <- Transit, shown <- values

(* Playback implements the latest-state promise, its liveness included.    *)
PlaybackShowsLatestState == Abstract!Spec
=============================================================================
