--------------------------- MODULE RealtimeMailbox ---------------------------
(***************************************************************************)
(* RealtimeUniverseMailbox: the latest-state mailbox between the Art-Net   *)
(* RX thread and the main thread (native/src/dmx/realtime_universe_        *)
(* mailbox.cpp).                                                           *)
(*                                                                         *)
(* Every operation takes state_mutex_ once and is one atomic step, except  *)
(* consume_dirty_frames, which reads dirty_count_ under the mutex and then *)
(* takes it again for every token: BeginDrain, DrainToken and EndDrain.    *)
(* The specification is the class under its most general client: any       *)
(* operation may come between two tokens of a drain.                       *)
(*                                                                         *)
(* A payload is a function from offsets to bytes. Offsets past the packet  *)
(* length read as zero on both sides of every comparison in publish, so a  *)
(* short packet is the payload that is zero there.                         *)
(***************************************************************************)
EXTENDS Naturals, Sequences, FiniteSets

CONSTANTS
  Universes,      \* universe ids a scene can subscribe to
  Offsets,        \* DMX slot offsets of a universe
  Bytes,          \* slot values
  ZeroByte,       \* the value of a slot no packet has written
  NoPayload,      \* "nothing received"
  MaxPackets,     \* bound: packets the RX thread publishes
  MaxGeneration   \* bound: subscription replacements and session resets

ASSUME MailboxAssumption ==
  /\ IsFiniteSet(Universes)
  /\ ZeroByte \in Bytes
  /\ MaxPackets \in Nat
  /\ MaxGeneration \in Nat

Payload == [Offsets -> Bytes]
ZeroPayload == [o \in Offsets |-> ZeroByte]
ASSUME NoPayloadAssumption == NoPayload \notin Payload

VARIABLES
  subscription,   \* offsets of interest per universe, {} when not contained
  generation,     \* subscription_generation_
  allocated,      \* universes whose slot pointer is not null
  slots,          \* slots_
  dirtyTokens,    \* the dirty ring from dirty_head_, dirty_count_ long
  nextToken,      \* next_token_id_
  draining,       \* a consume_dirty_frames call is running
  toConsume,      \* tokens_to_consume - index of that call
  frames,         \* the frames it has snapshot so far
  now,            \* packets published; stands for now_us
  wire            \* history: the last payload received in this session

mailboxVars == <<subscription, generation, allocated, slots, dirtyTokens,
                 nextToken, draining, toConsume, frames, now, wire>>

Subscription == [Universes -> SUBSET Offsets]
Capacity == Cardinality(Universes)

Slot == [held: Payload, lastRx: Nat, generation: Nat, initialized: BOOLEAN,
         dirty: BOOLEAN, queued: BOOLEAN, token: Nat]
Token == [universe: Universes, generation: Nat, token: Nat]
Frame == [universe: Universes, data: Payload, lastRx: Nat]

FreshSlot == [held |-> ZeroPayload, lastRx |-> 0, generation |-> 0,
              initialized |-> FALSE, dirty |-> FALSE, queued |-> FALSE,
              token |-> 0]

Agree(a, b, offsets) == \A o \in offsets : a[o] = b[o]

MailboxInit ==
  /\ subscription = [u \in Universes |-> {}]
  /\ generation = 0
  /\ allocated = {}
  /\ slots = [u \in Universes |-> FreshSlot]
  /\ dirtyTokens = <<>>
  /\ nextToken = 0
  /\ draining = FALSE
  /\ toConsume = 0
  /\ frames = <<>>
  /\ now = 0
  /\ wire = [u \in Universes |-> NoPayload]

-----------------------------------------------------------------------------
(* publish, called by the RX thread for every accepted ArtDmx packet.      *)

Accepts(u) ==
  /\ subscription[u] # {}
  /\ u \in allocated
  /\ slots[u].generation = generation

Changed(u, data) ==
  \/ ~slots[u].initialized
  \/ ~Agree(data, slots[u].held, subscription[u])

(* What publish writes to the slot of a packet that changed it, before and  *)
(* after the slot is marked dirty and given its token.                     *)
Touched(slot) == [slot EXCEPT !.lastRx = now + 1]
Written(slot, data) ==
  [slot EXCEPT !.held = data, !.lastRx = now + 1, !.initialized = TRUE]
Dirtied(slot, data) == [Written(slot, data) EXCEPT !.dirty = TRUE]
Queued(slot) == [slot EXCEPT !.queued = TRUE, !.token = nextToken + 1]

Receive(u, data) ==
  /\ now < MaxPackets
  /\ now' = now + 1
  /\ wire' = [wire EXCEPT ![u] = data]
  /\ UNCHANGED <<subscription, generation, allocated, draining, toConsume,
                 frames>>

PublishIgnored(u, data) ==
  /\ ~Accepts(u)
  /\ Receive(u, data)
  /\ UNCHANGED <<slots, dirtyTokens, nextToken>>

PublishUnchanged(u, data) ==
  /\ Accepts(u)
  /\ ~Changed(u, data)
  /\ Receive(u, data)
  /\ slots' = [slots EXCEPT ![u] = Touched(slots[u])]
  /\ UNCHANGED <<dirtyTokens, nextToken>>

MutCoalescedKeepsFirst(u, data) ==
  /\ Accepts(u)
  /\ Changed(u, data)
  /\ slots[u].dirty
  /\ Receive(u, data)
  /\ slots' = [slots EXCEPT ![u] = Touched(slots[u])]
  /\ UNCHANGED <<dirtyTokens, nextToken>>

PublishCoalesced(u, data) ==
  /\ Accepts(u)
  /\ Changed(u, data)
  /\ slots[u].dirty
  /\ Receive(u, data)
  /\ slots' = [slots EXCEPT ![u] = Written(slots[u], data)]
  /\ UNCHANGED <<dirtyTokens, nextToken>>

(* enqueue_dirty_locked returns without a token when the slot already owns *)
(* one or the ring is full; the slot is dirty all the same.                *)
CanEnqueue(u) ==
  /\ ~slots[u].queued
  /\ Len(dirtyTokens) < Capacity

EnqueueToken(u) ==
  /\ dirtyTokens' = Append(dirtyTokens,
                       [universe |-> u, generation |-> slots[u].generation,
                        token |-> nextToken + 1])
  /\ nextToken' = nextToken + 1

PublishDirty(u, data) ==
  /\ Accepts(u)
  /\ Changed(u, data)
  /\ ~slots[u].dirty
  /\ Receive(u, data)
  /\ \/ /\ CanEnqueue(u)
        /\ EnqueueToken(u)
        /\ slots' = [slots EXCEPT ![u] = Queued(Dirtied(slots[u], data))]
     \/ /\ ~CanEnqueue(u)
        /\ slots' = [slots EXCEPT ![u] = Dirtied(slots[u], data)]
        /\ UNCHANGED <<dirtyTokens, nextToken>>

Publish(u, data) ==
  \/ PublishIgnored(u, data)
  \/ PublishUnchanged(u, data)
  \/ PublishCoalesced(u, data)
  \/ PublishDirty(u, data)

-----------------------------------------------------------------------------
(* set_subscription and reset_session.                                     *)

Retired(slot, proven) ==
  [slot EXCEPT !.initialized = proven, !.dirty = FALSE, !.queued = FALSE,
               !.generation = generation + 1]

MutKeepsProof(u, next) == slots[u].initialized

(* initialized survives only when the new mask is identical or narrower. *)
StillProven(u, next) ==
  slots[u].initialized /\ next[u] \subseteq subscription[u]

SetSubscription(next) ==
  /\ generation < MaxGeneration
  /\ generation' = generation + 1
  /\ dirtyTokens' = <<>>
  /\ subscription' = next
  /\ allocated' = allocated \cup {u \in Universes : next[u] # {}}
  /\ slots' = [u \in Universes |->
       CASE next[u] # {} -> Retired(slots[u], StillProven(u, next))
         [] next[u] = {} /\ u \in allocated ->
              Retired(slots[u], slots[u].initialized)
         [] OTHER -> slots[u]]
  /\ UNCHANGED <<nextToken, draining, toConsume, frames, now, wire>>

ResetSession ==
  /\ generation < MaxGeneration
  /\ generation' = generation + 1
  /\ dirtyTokens' = <<>>
  /\ slots' = [u \in Universes |->
       IF u \in allocated
       THEN Retired(slots[u], FALSE)
       ELSE slots[u]]
  /\ wire' = [u \in Universes |-> NoPayload]
  /\ UNCHANGED <<subscription, allocated, nextToken, draining, toConsume,
                 frames, now>>

-----------------------------------------------------------------------------
(* consume_dirty_frames, held and held_states, called by the main thread.  *)

TokenValid(t) ==
  LET slot == slots[t.universe] IN
  /\ slot.generation = t.generation
  /\ slot.token = t.token
  /\ slot.dirty
  /\ slot.queued

MutConsumedKeepsQueued(slot) == [slot EXCEPT !.dirty = FALSE]

Consumed(slot) == [slot EXCEPT !.dirty = FALSE, !.queued = FALSE]

FrameOf(u) ==
  [universe |-> u, data |-> slots[u].held, lastRx |-> slots[u].lastRx]

BeginDrain ==
  /\ ~draining
  /\ draining' = TRUE
  /\ toConsume' = Len(dirtyTokens)
  /\ frames' = <<>>
  /\ UNCHANGED <<subscription, generation, allocated, slots, dirtyTokens,
                 nextToken, now, wire>>

(* The next token is popped whether or not it is still valid. *)
DrainToken ==
  /\ draining
  /\ toConsume > 0
  /\ dirtyTokens # <<>>
  /\ dirtyTokens' = Tail(dirtyTokens)
  /\ toConsume' = toConsume - 1
  /\ LET t == Head(dirtyTokens) IN
       \/ /\ TokenValid(t)
          /\ frames' = Append(frames, FrameOf(t.universe))
          /\ slots' = [slots EXCEPT ![t.universe] = Consumed(@)]
       \/ /\ ~TokenValid(t)
          /\ UNCHANGED <<frames, slots>>
  /\ UNCHANGED <<subscription, generation, allocated, nextToken, draining,
                 now, wire>>

(* Every token counted at the start was popped, or the ring emptied. *)
EndDrain ==
  /\ draining
  /\ toConsume = 0 \/ dirtyTokens = <<>>
  /\ draining' = FALSE
  /\ toConsume' = 0
  /\ UNCHANGED <<subscription, generation, allocated, slots, dirtyTokens,
                 nextToken, frames, now, wire>>

(* The universes held_states reports; held answers the same for one.       *)
HeldUniverses ==
  {u \in Universes : /\ subscription[u] # {}
                     /\ u \in allocated
                     /\ slots[u].initialized
                     /\ slots[u].generation = generation}

-----------------------------------------------------------------------------

MailboxNext ==
  \/ \E u \in Universes, data \in Payload : Publish(u, data)
  \/ \E next \in Subscription : SetSubscription(next)
  \/ ResetSession
  \/ BeginDrain
  \/ DrainToken
  \/ EndDrain

MailboxSpec == MailboxInit /\ [][MailboxNext]_mailboxVars

-----------------------------------------------------------------------------
(* Properties *)

(* Types, and the counters bound what was stamped with them: no slot is of *)
(* a generation that was not reached nor owns a token id not handed out.   *)
MailboxTypeOK ==
  /\ subscription \in Subscription
  /\ generation \in 0..MaxGeneration
  /\ allocated \in SUBSET Universes
  /\ slots \in [Universes -> Slot]
  /\ \A u \in Universes : /\ slots[u].generation <= generation
                          /\ slots[u].token <= nextToken
  /\ dirtyTokens \in Seq(Token)
  /\ nextToken \in Nat
  /\ draining \in BOOLEAN
  /\ toConsume \in Nat
  /\ frames \in Seq(Frame)
  /\ now \in 0..MaxPackets
  /\ wire \in [Universes -> Payload \cup {NoPayload}]

(* The dirty ring and the dirty flags are two views of one set: every token *)
(* is current and its universe's own, no universe owns two, every dirty     *)
(* slot owns one. So enqueue_dirty_locked never finds the ring full, a      *)
(* drain never discards a token, and no dirty slot is without a token.      *)
TokensOwnDirtySlots ==
  /\ \A i \in DOMAIN dirtyTokens : /\ TokenValid(dirtyTokens[i])
                                   /\ dirtyTokens[i].generation = generation
  /\ \A i, j \in DOMAIN dirtyTokens :
       dirtyTokens[i].universe = dirtyTokens[j].universe => i = j
  /\ \A u \in Universes :
       slots[u].dirty \/ slots[u].queued
         => \E i \in DOMAIN dirtyTokens : dirtyTokens[i].universe = u

(* Held state is proof: while a subscribed slot is initialized, its bytes   *)
(* at every subscribed offset are those of the last packet the wire carried *)
(* on that universe in this session, whatever masks, unchanged packets and  *)
(* resets came between. publish compares masked bytes only, so this rests   *)
(* on set_subscription invalidating a slot whose mask gains an offset.      *)
HeldProvesSubscribedOffsets ==
  \A u \in HeldUniverses :
    /\ wire[u] # NoPayload
    /\ Agree(slots[u].held, wire[u], subscription[u])

(* A drain hands out a frame only for a universe subscribed at that moment, *)
(* with the bytes the wire carried last in this session: nothing of a       *)
(* retired subscription or a stopped session is resurrected by a token.     *)
DrainNeverResurrects ==
  [][ Len(frames') > Len(frames) =>
        LET f == frames'[Len(frames')] IN
        /\ subscription[f.universe] # {}
        /\ wire[f.universe] # NoPayload
        /\ Agree(f.data, wire[f.universe], subscription[f.universe])
    ]_mailboxVars
=============================================================================
