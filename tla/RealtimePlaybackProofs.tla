----------------------- MODULE RealtimePlaybackProofs -----------------------
(* Proofs about RealtimeMailbox and RealtimePlayback, for every set of      *)
(* universes, offsets and bytes and every bound. The first part is about    *)
(* the mailbox under its most general client, the second about the program: *)
(* every step of it but Submit is a step of the mailbox.                    *)
EXTENDS RealtimePlayback, TLAPS, FunctionTheorems, FiniteSetTheorems, WellFoundedInduction

-----------------------------------------------------------------------------
(* The mailbox: its inductive invariant *)

(* A slot pointer that is set is of the current generation; one that is    *)
(* null was never subscribed to nor written.                               *)
SlotsCurrent ==
  \A u \in Universes :
    IF u \in allocated
    THEN slots[u].generation = generation
    ELSE /\ subscription[u] = {}
         /\ ~slots[u].initialized /\ ~slots[u].dirty /\ ~slots[u].queued

(* Only a subscribed slot with proven state is waiting for a drain. *)
DirtyIsHeld ==
  \A u \in Universes :
    slots[u].dirty => slots[u].initialized /\ subscription[u] # {}

MailboxInv ==
  /\ MailboxTypeOK
  /\ SlotsCurrent
  /\ DirtyIsHeld
  /\ TokensOwnDirtySlots
  /\ HeldProvesSubscribedOffsets

-----------------------------------------------------------------------------
(* Types *)

(* The constructor leaves a mailbox of the right types.                    *)
LEMMA MailboxInitType == MailboxInit => MailboxTypeOK
<1> SUFFICES ASSUME MailboxInit PROVE MailboxTypeOK
  OBVIOUS
<1>1. FreshSlot \in Slot
  BY MailboxAssumption DEF FreshSlot, Slot, Payload, ZeroPayload
<1>2. slots \in [Universes -> Slot]
  BY <1>1 DEF MailboxInit
<1>3. \A u \in Universes : slots[u].generation <= generation /\ slots[u].token <= nextToken
  BY DEF MailboxInit, FreshSlot
<1>4. subscription \in Subscription
  BY DEF MailboxInit, Subscription
<1>5. dirtyTokens \in Seq(Token) /\ frames \in Seq(Frame)
  BY DEF MailboxInit
<1>6. wire \in [Universes -> Payload \cup {NoPayload}]
  BY DEF MailboxInit
<1>7. allocated \in SUBSET Universes /\ draining \in BOOLEAN
  BY DEF MailboxInit
<1>8. /\ generation \in 0..MaxGeneration /\ now \in 0..MaxPackets
      /\ nextToken \in Nat /\ toConsume \in Nat
  BY MailboxAssumption DEF MailboxInit
<1> QED
  BY <1>2, <1>3, <1>4, <1>5, <1>6, <1>7, <1>8 DEF MailboxTypeOK

(* The slot operators, field by field. *)
LEMMA WrittenFields ==
  ASSUME NEW s \in Slot, NEW data \in Payload, now \in Nat
  PROVE  /\ Written(s, data) \in Slot
         /\ Written(s, data).held = data
         /\ Written(s, data).initialized
         /\ Written(s, data).generation = s.generation
         /\ Written(s, data).dirty = s.dirty
         /\ Written(s, data).queued = s.queued
         /\ Written(s, data).token = s.token
<1> DEFINE r == now + 1
<1>1. r \in Nat
  OBVIOUS
<1> HIDE DEF r
<1>2. Written(s, data) =
        [s EXCEPT !.held = data, !.lastRx = r, !.initialized = TRUE]
  BY DEF Written, r
<1>3. Written(s, data) \in Slot
  BY <1>1, <1>2 DEF Slot
<1> QED
  BY <1>2, <1>3 DEF Slot

(* remember_touched_locked changes the touched flag alone.                 *)
LEMMA TouchedFields ==
  ASSUME NEW s \in Slot, now \in Nat
  PROVE  /\ Touched(s) \in Slot
         /\ Touched(s).held = s.held
         /\ Touched(s).initialized = s.initialized
         /\ Touched(s).generation = s.generation
         /\ Touched(s).dirty = s.dirty
         /\ Touched(s).queued = s.queued
         /\ Touched(s).token = s.token
BY DEF Slot, Touched

(* What a publish that marks its slot dirty leaves in the slot: the wire bytes, *)
(* the marks, and the token of the slot as it was.                         *)
LEMMA DirtiedFields ==
  ASSUME NEW s \in Slot, NEW data \in Payload, now \in Nat
  PROVE  /\ Dirtied(s, data) \in Slot
         /\ Dirtied(s, data).held = data
         /\ Dirtied(s, data).initialized
         /\ Dirtied(s, data).generation = s.generation
         /\ Dirtied(s, data).dirty
         /\ Dirtied(s, data).queued = s.queued
         /\ Dirtied(s, data).token = s.token
<1>1. /\ Written(s, data) \in Slot
      /\ Dirtied(s, data) = [Written(s, data) EXCEPT !.dirty = TRUE]
  BY WrittenFields DEF Dirtied
<1> DEFINE w == Written(s, data)
<1>2. \A v \in Slot : LET d == [v EXCEPT !.dirty = TRUE] IN
        /\ d \in Slot
        /\ d.held = v.held /\ d.initialized = v.initialized
        /\ d.generation = v.generation /\ d.dirty /\ d.queued = v.queued
        /\ d.token = v.token
  BY DEF Slot
<1> QED
  BY <1>1, <1>2, WrittenFields

(* enqueue_dirty_locked gives a slot without a token the one of its generation. *)
LEMMA QueuedFields ==
  ASSUME NEW s \in Slot, nextToken \in Nat
  PROVE  /\ Queued(s) \in Slot
         /\ Queued(s).held = s.held
         /\ Queued(s).initialized = s.initialized
         /\ Queued(s).generation = s.generation
         /\ Queued(s).dirty = s.dirty
         /\ Queued(s).queued
         /\ Queued(s).token = nextToken + 1
<1> DEFINE t == nextToken + 1
<1>1. t \in Nat
  OBVIOUS
<1> HIDE DEF t
<1>2. Queued(s) = [s EXCEPT !.queued = TRUE, !.token = t]
  BY DEF Queued, t
<1>3. Queued(s) \in Slot
  BY <1>1, <1>2 DEF Slot
<1>4. Queued(s).token = t
  BY <1>2 DEF Slot
<1> QED
  BY <1>2, <1>3, <1>4 DEF Slot, t

(* Retiring a slot keeps no held state and moves the generation on.        *)
LEMMA RetiredFields ==
  ASSUME NEW s \in Slot, NEW proven \in BOOLEAN, generation \in Nat
  PROVE  /\ Retired(s, proven) \in Slot
         /\ Retired(s, proven).held = s.held
         /\ Retired(s, proven).initialized = proven
         /\ Retired(s, proven).generation = generation + 1
         /\ ~Retired(s, proven).dirty
         /\ ~Retired(s, proven).queued
         /\ Retired(s, proven).token = s.token
<1> DEFINE g == generation + 1
<1>1. g \in Nat
  OBVIOUS
<1> HIDE DEF g
<1>2. Retired(s, proven) = [s EXCEPT !.initialized = proven, !.dirty = FALSE,
                                     !.queued = FALSE, !.generation = g]
  BY DEF Retired, g
<1>3. Retired(s, proven).generation = g
  BY <1>2 DEF Slot
<1>4. Retired(s, proven) \in Slot
  BY <1>1, <1>2 DEF Slot
<1> QED
  BY <1>2, <1>3, <1>4 DEF Slot, g

(* A drain that takes a token clears the marks and keeps the held state.   *)
LEMMA ConsumedFields ==
  ASSUME NEW s \in Slot
  PROVE  /\ Consumed(s) \in Slot
         /\ Consumed(s).held = s.held
         /\ Consumed(s).initialized = s.initialized
         /\ Consumed(s).generation = s.generation
         /\ ~Consumed(s).dirty
         /\ ~Consumed(s).queued
         /\ Consumed(s).token = s.token
BY DEF Slot, Consumed

(* What the type invariant says of the numbers and the slots. *)
LEMMA MailboxTypeFacts ==
  ASSUME MailboxTypeOK
  PROVE  /\ generation \in Nat
         /\ now \in Nat
         /\ nextToken \in Nat
         /\ toConsume \in Nat
         /\ slots \in [Universes -> Slot]
         /\ dirtyTokens \in Seq(Token)
         /\ \A u \in Universes : /\ slots[u] \in Slot
                                 /\ slots[u].generation \in Nat
                                 /\ slots[u].token \in Nat
                                 /\ slots[u].held \in Payload
                                 /\ slots[u].initialized \in BOOLEAN
<1>1. /\ generation \in Nat /\ now \in Nat /\ nextToken \in Nat
      /\ toConsume \in Nat /\ slots \in [Universes -> Slot]
      /\ dirtyTokens \in Seq(Token)
  BY MailboxAssumption DEF MailboxTypeOK
<1>2. \A s \in Slot : /\ s.generation \in Nat /\ s.token \in Nat
                      /\ s.held \in Payload /\ s.initialized \in BOOLEAN
  BY DEF Slot
<1> QED
  BY <1>1, <1>2

(* The bytes and the sequence of a publish have the types of a slot's.     *)
LEMMA ReceiveType ==
  ASSUME MailboxTypeOK, NEW u \in Universes, NEW data \in Payload,
         Receive(u, data)
  PROVE  /\ subscription' \in Subscription
         /\ generation' \in 0..MaxGeneration
         /\ allocated' \in SUBSET Universes
         /\ draining' \in BOOLEAN
         /\ toConsume' \in Nat
         /\ frames' \in Seq(Frame)
         /\ now' \in 0..MaxPackets
         /\ wire' \in [Universes -> Payload \cup {NoPayload}]
BY MailboxAssumption DEF MailboxTypeOK, Receive

(* What a publish does to the slots and to the ring, for every case of it: *)
(* the slot's fields that the invariants read, and the token it may queue. *)
LEMMA PublishEffect ==
  ASSUME MailboxTypeOK, NEW u \in Universes, NEW data \in Payload,
         Publish(u, data)
  PROVE  \/ /\ slots' = slots
            /\ UNCHANGED <<dirtyTokens, nextToken>>
            /\ ~Accepts(u)
         \/ \E w \in Slot :
              /\ Accepts(u)
              /\ slots' = [slots EXCEPT ![u] = w]
              /\ w.generation = slots[u].generation
              /\ \/ /\ ~Changed(u, data)
                    /\ w.held = slots[u].held
                    /\ w.initialized = slots[u].initialized
                 \/ /\ w.held = data
                    /\ w.initialized
              /\ \/ /\ w.dirty = slots[u].dirty
                    /\ w.queued = slots[u].queued
                    /\ w.token = slots[u].token
                    /\ UNCHANGED <<dirtyTokens, nextToken>>
                 \/ /\ ~slots[u].dirty
                    /\ w.dirty
                    /\ w.initialized
                    /\ ~CanEnqueue(u)
                    /\ w.queued = slots[u].queued
                    /\ w.token = slots[u].token
                    /\ UNCHANGED <<dirtyTokens, nextToken>>
                 \/ /\ ~slots[u].dirty
                    /\ w.dirty
                    /\ w.initialized
                    /\ CanEnqueue(u)
                    /\ w.queued
                    /\ w.token = nextToken + 1
                    /\ EnqueueToken(u)
<1> USE MailboxTypeFacts
<1>1. CASE PublishIgnored(u, data)
  BY <1>1 DEF PublishIgnored
<1>2. CASE PublishUnchanged(u, data)
  <2>1. Touched(slots[u]) \in Slot
    BY TouchedFields
  <2> QED
    BY <1>2, <2>1, TouchedFields DEF PublishUnchanged
<1>3. CASE PublishCoalesced(u, data)
  <2>1. Written(slots[u], data) \in Slot
    BY WrittenFields
  <2> QED
    BY <1>3, <2>1, WrittenFields DEF PublishCoalesced
<1>4. CASE PublishDirty(u, data)
  <2>1. Dirtied(slots[u], data) \in Slot
    BY DirtiedFields
  <2>2. CASE CanEnqueue(u)
    <3>1. Queued(Dirtied(slots[u], data)) \in Slot
      BY <2>1, QueuedFields
    <3> QED
      BY <1>4, <2>1, <2>2, <3>1, QueuedFields, DirtiedFields DEF PublishDirty
  <2>3. CASE ~CanEnqueue(u)
    BY <1>4, <2>1, <2>3, DirtiedFields DEF PublishDirty
  <2> QED
    BY <2>2, <2>3
<1> QED
  BY <1>1, <1>2, <1>3, <1>4 DEF Publish

(* publish_universe keeps the types, whichever of its cases it is in.      *)
LEMMA PublishType ==
  ASSUME MailboxTypeOK, NEW u \in Universes, NEW data \in Payload,
         Publish(u, data)
  PROVE  MailboxTypeOK'
<1>1. Receive(u, data)
  BY DEF Publish, PublishIgnored, PublishUnchanged, PublishCoalesced, PublishDirty
<1>2. generation' = generation
  BY <1>1 DEF Receive
<1>3. slots' \in [Universes -> Slot]
  BY PublishEffect, MailboxTypeFacts
<1>4. dirtyTokens' \in Seq(Token) /\ nextToken' \in Nat
  <2> DEFINE t == [universe |-> u, generation |-> slots[u].generation,
                   token |-> nextToken + 1]
  <2>1. t \in Token
    BY MailboxTypeFacts DEF Token
  <2>2. \/ UNCHANGED <<dirtyTokens, nextToken>>
        \/ dirtyTokens' = Append(dirtyTokens, t) /\ nextToken' = nextToken + 1
    BY PublishEffect DEF EnqueueToken
  <2> HIDE DEF t
  <2>3. dirtyTokens \in Seq(Token) /\ nextToken \in Nat
    BY MailboxTypeFacts
  <2> QED
    BY <2>1, <2>2, <2>3
<1>5. nextToken <= nextToken'
  <2>1. UNCHANGED <<dirtyTokens, nextToken>> \/ EnqueueToken(u)
    BY PublishEffect
  <2> QED
    BY <2>1, MailboxTypeFacts DEF EnqueueToken
<1>6. ASSUME NEW v \in Universes
      PROVE  slots'[v].generation <= generation' /\ slots'[v].token <= nextToken'
  <2>1. /\ slots[v].generation <= generation
        /\ slots[v].token <= nextToken
        /\ slots[u].generation <= generation
        /\ slots[u].token <= nextToken
    BY DEF MailboxTypeOK
  <2>2. slots'[v].generation \in {slots[v].generation, slots[u].generation}
    BY PublishEffect, MailboxTypeFacts
  <2>3. slots'[v].token \in {slots[v].token, slots[u].token, nextToken'}
    BY PublishEffect, MailboxTypeFacts DEF EnqueueToken
  <2> QED
    BY <1>2, <1>4, <1>5, <2>1, <2>2, <2>3, MailboxTypeFacts
<1> QED
  BY <1>1, <1>3, <1>4, <1>6, ReceiveType DEF MailboxTypeOK

(* What the two retiring operations do to every slot. *)
LEMMA SetSubscriptionEffect ==
  ASSUME MailboxTypeOK, NEW next \in Subscription, SetSubscription(next),
         NEW u \in Universes
  PROVE  /\ slots'[u] \in Slot
         /\ slots'[u].held = slots[u].held
         /\ slots'[u].token = slots[u].token
         /\ slots'[u].initialized => slots[u].initialized
         /\ next[u] # {} => /\ u \in allocated'
                            /\ slots'[u].initialized => next[u] \subseteq subscription[u]
         /\ u \in allocated' => /\ slots'[u].generation = generation + 1
                                /\ ~slots'[u].dirty
                                /\ ~slots'[u].queued
         /\ u \notin allocated' => slots'[u] = slots[u] /\ u \notin allocated
<1>1. slots[u] \in Slot /\ generation \in Nat /\ slots[u].initialized \in BOOLEAN
  BY MailboxTypeFacts
<1>2. allocated' = allocated \cup {v \in Universes : next[v] # {}}
  BY DEF SetSubscription
<1>3. CASE next[u] # {}
  <2>1. slots'[u] = Retired(slots[u], StillProven(u, next)) /\ u \in allocated'
    BY <1>2, <1>3 DEF SetSubscription
  <2>2. StillProven(u, next) \in BOOLEAN
    BY DEF StillProven
  <2>3. StillProven(u, next) => slots[u].initialized /\ next[u] \subseteq subscription[u]
    BY DEF StillProven
  <2> QED
    BY <1>1, <1>3, <2>1, <2>2, <2>3, RetiredFields
<1>4. CASE next[u] = {} /\ u \in allocated
  <2>1. slots'[u] = Retired(slots[u], slots[u].initialized) /\ u \in allocated'
    BY <1>2, <1>4 DEF SetSubscription
  <2> QED
    BY <1>1, <1>4, <2>1, RetiredFields
<1>5. CASE next[u] = {} /\ u \notin allocated
  <2>1. slots'[u] = slots[u] /\ u \notin allocated'
    BY <1>2, <1>5 DEF SetSubscription
  <2> QED
    BY <1>1, <1>5, <2>1
<1> QED
  BY <1>3, <1>4, <1>5

(* reset_session retires every slot and empties the ring of its tokens' owners. *)
LEMMA ResetSessionEffect ==
  ASSUME MailboxTypeOK, ResetSession, NEW u \in Universes
  PROVE  /\ slots'[u] \in Slot
         /\ slots'[u].token = slots[u].token
         /\ u \in allocated => /\ slots'[u].generation = generation + 1
                               /\ ~slots'[u].initialized
                               /\ ~slots'[u].dirty
                               /\ ~slots'[u].queued
         /\ u \notin allocated => slots'[u] = slots[u]
<1>1. slots[u] \in Slot /\ generation \in Nat
  BY MailboxTypeFacts
<1>2. CASE u \in allocated
  <2>1. slots'[u] = Retired(slots[u], FALSE)
    BY <1>2 DEF ResetSession
  <2> QED
    BY <1>1, <1>2, <2>1, RetiredFields
<1>3. CASE u \notin allocated
  BY <1>1, <1>3 DEF ResetSession
<1> QED
  BY <1>2, <1>3

(* set_subscription and reset_session keep the types.                      *)
LEMMA RetireType ==
  ASSUME MailboxTypeOK,
         ResetSession \/ \E next \in Subscription : SetSubscription(next)
  PROVE  MailboxTypeOK'
<1>1. /\ generation < MaxGeneration
      /\ generation' = generation + 1
      /\ dirtyTokens' = <<>>
      /\ UNCHANGED <<nextToken, draining, toConsume, frames, now>>
  BY DEF ResetSession, SetSubscription
<1>2. generation' \in 0..MaxGeneration /\ dirtyTokens' \in Seq(Token)
  BY <1>1, MailboxTypeFacts, MailboxAssumption
<1>3. /\ subscription' \in Subscription
      /\ allocated' \in SUBSET Universes
      /\ wire' \in [Universes -> Payload \cup {NoPayload}]
  BY DEF ResetSession, SetSubscription, MailboxTypeOK
<1>4. slots' = [u \in Universes |-> slots'[u]]
  BY DEF ResetSession, SetSubscription
<1>5. ASSUME NEW u \in Universes
      PROVE  /\ slots'[u] \in Slot
             /\ slots'[u].token = slots[u].token
             /\ slots'[u].generation \in {generation + 1, slots[u].generation}
  BY ResetSessionEffect, SetSubscriptionEffect
<1>6. \A u \in Universes : /\ slots'[u].generation <= generation'
                           /\ slots'[u].token <= nextToken'
  <2> TAKE u \in Universes
  <2>1. slots[u].generation <= generation /\ slots[u].token <= nextToken
    BY DEF MailboxTypeOK
  <2> QED
    BY <1>1, <1>5, <2>1, MailboxTypeFacts
<1>7. slots' \in [Universes -> Slot]
  BY <1>4, <1>5
<1> QED
  BY <1>1, <1>2, <1>3, <1>6, <1>7 DEF MailboxTypeOK

(* Popping the head of the ring. *)
LEMMA DrainTokenEffect ==
  ASSUME MailboxTypeOK, DrainToken
  PROVE  LET t == Head(dirtyTokens) IN
         /\ dirtyTokens # <<>>
         /\ t \in Token
         /\ t.universe \in Universes
         /\ dirtyTokens' = Tail(dirtyTokens)
         /\ \/ /\ TokenValid(t)
               /\ frames' = Append(frames, FrameOf(t.universe))
               /\ Consumed(slots[t.universe]) \in Slot
               /\ slots' = [slots EXCEPT ![t.universe] = Consumed(slots[t.universe])]
            \/ /\ ~TokenValid(t)
               /\ UNCHANGED <<frames, slots>>
<1>1. dirtyTokens # <<>> /\ dirtyTokens \in Seq(Token)
  BY MailboxTypeFacts DEF DrainToken
<1>2. Head(dirtyTokens) \in Token
  BY <1>1
<1>3. Head(dirtyTokens).universe \in Universes
  BY <1>2 DEF Token
<1>4. Consumed(slots[Head(dirtyTokens).universe]) \in Slot
  BY <1>3, MailboxTypeFacts, ConsumedFields
<1> QED
  BY <1>1, <1>2, <1>3, <1>4 DEF DrainToken

(* The frame a drain builds from a slot is a frame.                        *)
LEMMA FrameOfType ==
  ASSUME MailboxTypeOK, NEW u \in Universes
  PROVE  FrameOf(u) \in Frame
<1>1. \A s \in Slot : s.held \in Payload /\ s.lastRx \in Nat
  BY DEF Slot
<1> QED
  BY <1>1, MailboxTypeFacts DEF FrameOf, Frame

(* One iteration of the drain loop keeps the types.                        *)
LEMMA DrainTokenType ==
  ASSUME MailboxTypeOK, DrainToken
  PROVE  MailboxTypeOK'
<1> DEFINE t == Head(dirtyTokens)
<1>1. /\ toConsume \in Nat /\ toConsume > 0 /\ toConsume' = toConsume - 1
      /\ UNCHANGED <<subscription, generation, allocated, nextToken, draining,
                     now, wire>>
  BY MailboxTypeFacts DEF DrainToken
<1>2. dirtyTokens' \in Seq(Token)
  BY DrainTokenEffect, MailboxTypeFacts
<1>3. frames' \in Seq(Frame)
  <2>1. frames \in Seq(Frame)
    BY DEF MailboxTypeOK
  <2>2. FrameOf(t.universe) \in Frame
    BY DrainTokenEffect, FrameOfType
  <2>3. frames' \in {frames, Append(frames, FrameOf(t.universe))}
    BY DrainTokenEffect
  <2> QED
    BY <2>1, <2>2, <2>3
<1>4. slots' \in [Universes -> Slot]
  BY DrainTokenEffect, MailboxTypeFacts
<1>5. ASSUME NEW u \in Universes
      PROVE  /\ slots'[u].generation = slots[u].generation
             /\ slots'[u].token = slots[u].token
  <2>1. slots[u] \in Slot /\ slots \in [Universes -> Slot]
    BY MailboxTypeFacts
  <2>2. slots'[u] = slots[u] \/ slots'[u] = Consumed(slots[u])
    <3>1. t.universe \in Universes
      BY DrainTokenEffect
    <3>2. \/ slots' = [slots EXCEPT ![t.universe] = Consumed(slots[t.universe])]
          \/ slots' = slots
      BY DrainTokenEffect
    <3> HIDE DEF t
    <3> QED
      BY <2>1, <3>1, <3>2
  <2> QED
    BY <2>1, <2>2, ConsumedFields
<1>6. \A u \in Universes : /\ slots'[u].generation <= generation'
                           /\ slots'[u].token <= nextToken'
  <2>1. \A u \in Universes : /\ slots[u].generation <= generation
                             /\ slots[u].token <= nextToken
    BY DEF MailboxTypeOK
  <2>2. generation' = generation /\ nextToken' = nextToken
    BY <1>1
  <2> QED
    BY <1>5, <2>1, <2>2
<1> HIDE DEF t
<1> QED
  BY <1>1, <1>2, <1>3, <1>4, <1>6 DEF MailboxTypeOK

(* Every operation of the mailbox keeps the types: one case per operation. *)
LEMMA MailboxNextType ==
  ASSUME MailboxTypeOK, [MailboxNext]_mailboxVars
  PROVE  MailboxTypeOK'
<1>1. CASE \E u \in Universes, data \in Payload : Publish(u, data)
  BY <1>1, PublishType
<1>2. CASE ResetSession \/ \E next \in Subscription : SetSubscription(next)
  BY <1>2, RetireType
<1>3. CASE BeginDrain
  <2>1. toConsume' \in Nat
    BY <1>3, MailboxTypeFacts DEF BeginDrain
  <2>2. frames' \in Seq(Frame)
    BY <1>3 DEF BeginDrain
  <2> QED
    BY <1>3, <2>1, <2>2 DEF BeginDrain, MailboxTypeOK
<1>4. CASE DrainToken
  BY <1>4, DrainTokenType
<1>5. CASE EndDrain
  BY <1>5 DEF EndDrain, MailboxTypeOK
<1>6. CASE UNCHANGED mailboxVars
  BY <1>6 DEF mailboxVars, MailboxTypeOK
<1> QED
  BY <1>1, <1>2, <1>3, <1>4, <1>5, <1>6 DEF MailboxNext

(* Type correctness for every set of universes, offsets and bytes.         *)
THEOREM MailboxTypeCorrect == MailboxSpec => []MailboxTypeOK
<1>1. MailboxInit => MailboxTypeOK
  BY MailboxInitType
<1>2. MailboxTypeOK /\ [MailboxNext]_mailboxVars => MailboxTypeOK'
  BY MailboxNextType
<1> QED
  BY <1>1, <1>2, PTL DEF MailboxSpec

-----------------------------------------------------------------------------
(* The dirty ring *)

(* Facts about the ring that the type invariant and ownership give.        *)
LEMMA RingFacts ==
  ASSUME MailboxTypeOK, TokensOwnDirtySlots
  PROVE  /\ Len(dirtyTokens) \in Nat
         /\ DOMAIN dirtyTokens = 1..Len(dirtyTokens)
         /\ \A i \in DOMAIN dirtyTokens :
              /\ dirtyTokens[i] \in Token
              /\ dirtyTokens[i].universe \in Universes
              /\ dirtyTokens[i].generation = generation
              /\ slots[dirtyTokens[i].universe].generation = generation
              /\ slots[dirtyTokens[i].universe].token = dirtyTokens[i].token
              /\ slots[dirtyTokens[i].universe].dirty
              /\ slots[dirtyTokens[i].universe].queued
         /\ \A u \in Universes :
              /\ slots[u].queued => slots[u].dirty
              /\ slots[u].dirty => slots[u].queued
<1>1. Len(dirtyTokens) \in Nat /\ DOMAIN dirtyTokens = 1..Len(dirtyTokens)
  BY MailboxTypeFacts
<1>2. ASSUME NEW i \in DOMAIN dirtyTokens
      PROVE  dirtyTokens[i] \in Token /\ dirtyTokens[i].universe \in Universes
  <2>1. dirtyTokens[i] \in Token
    BY MailboxTypeFacts
  <2> QED
    BY <2>1 DEF Token
<1>3. ASSUME NEW i \in DOMAIN dirtyTokens
      PROVE  /\ dirtyTokens[i].generation = generation
             /\ slots[dirtyTokens[i].universe].generation = generation
             /\ slots[dirtyTokens[i].universe].token = dirtyTokens[i].token
             /\ slots[dirtyTokens[i].universe].dirty
             /\ slots[dirtyTokens[i].universe].queued
  BY DEF TokensOwnDirtySlots, TokenValid
<1>4. ASSUME NEW u \in Universes, slots[u].dirty \/ slots[u].queued
      PROVE  slots[u].dirty /\ slots[u].queued
  <2>1. PICK i \in DOMAIN dirtyTokens : dirtyTokens[i].universe = u
    BY <1>4 DEF TokensOwnDirtySlots
  <2> QED
    BY <1>3, <2>1
<1> QED
  BY <1>1, <1>2, <1>3, <1>4

(* enqueue_dirty_locked never finds the ring full for a slot without a     *)
(* token: the tokens in it belong to different universes, none to that one. *)
LEMMA RingHasRoom ==
  ASSUME MailboxTypeOK, TokensOwnDirtySlots,
         NEW u \in Universes, ~slots[u].queued
  PROVE  CanEnqueue(u)
<1> DEFINE f == [i \in 1..Len(dirtyTokens) |-> dirtyTokens[i].universe]
<1>1. f \in [1..Len(dirtyTokens) -> Universes]
  BY RingFacts
<1>2. \A i, j \in 1..Len(dirtyTokens) : f[i] = f[j] => i = j
  BY RingFacts DEF TokensOwnDirtySlots
<1>3. \A i \in 1..Len(dirtyTokens) : f[i] # u
  BY RingFacts
<1> HIDE DEF f
<1>4. f \in Injection(1..Len(dirtyTokens), Universes)
  BY <1>1, <1>2 DEF Injection, IsInjective
<1>5. f \notin Surjection(1..Len(dirtyTokens), Universes)
  BY <1>3 DEF Surjection
<1>6. IsFiniteSet(Universes) /\ Capacity \in Nat
  BY MailboxAssumption, FS_CardinalityType DEF Capacity
<1>7. Cardinality(1..Len(dirtyTokens)) = Len(dirtyTokens)
  BY RingFacts, FS_Interval
<1>8. /\ Cardinality(1..Len(dirtyTokens)) <= Cardinality(Universes)
      /\ Cardinality(1..Len(dirtyTokens)) # Cardinality(Universes)
  BY <1>4, <1>5, <1>6, FS_Injection
<1>9. Len(dirtyTokens) < Capacity
  BY <1>6, <1>7, <1>8, RingFacts DEF Capacity
<1> QED
  BY <1>9 DEF CanEnqueue

-----------------------------------------------------------------------------
(* The inductive invariant, one lemma per operation *)

(* With room in the ring, a publish leaves the ring alone or queues the    *)
(* slot's first token.                                                     *)
LEMMA PublishCases ==
  ASSUME MailboxTypeOK, TokensOwnDirtySlots,
         NEW u \in Universes, NEW data \in Payload, Publish(u, data)
  PROVE  \/ /\ slots' = slots
            /\ UNCHANGED <<dirtyTokens, nextToken>>
            /\ ~Accepts(u)
         \/ \E w \in Slot :
              /\ Accepts(u)
              /\ slots' = [slots EXCEPT ![u] = w]
              /\ w.generation = slots[u].generation
              /\ \/ /\ ~Changed(u, data)
                    /\ w.held = slots[u].held
                    /\ w.initialized = slots[u].initialized
                 \/ /\ w.held = data
                    /\ w.initialized
              /\ \/ /\ w.dirty = slots[u].dirty
                    /\ w.queued = slots[u].queued
                    /\ w.token = slots[u].token
                    /\ UNCHANGED <<dirtyTokens, nextToken>>
                 \/ /\ ~slots[u].dirty
                    /\ w.dirty
                    /\ w.initialized
                    /\ w.queued
                    /\ w.token = nextToken + 1
                    /\ EnqueueToken(u)
<1>1. ~slots[u].dirty => CanEnqueue(u)
  BY RingFacts, RingHasRoom
<1> QED
  BY <1>1, PublishEffect

(* TokenValid of a given token and slot record. *)
OwnsSlot(t, slot) ==
  /\ slot.generation = t.generation /\ slot.token = t.token
  /\ slot.dirty /\ slot.queued

(* publish_universe keeps the token-ownership part of the invariant: it    *)
(* queues a token for a slot that has none, and leaves the others alone.   *)
LEMMA PublishKeepsTokens ==
  ASSUME MailboxInv, NEW u \in Universes, NEW data \in Payload,
         Publish(u, data)
  PROVE  TokensOwnDirtySlots'
<1> USE DEF MailboxInv
<1>1. generation' = generation
  BY DEF Publish, PublishIgnored, PublishUnchanged, PublishCoalesced,
         PublishDirty, Receive
<1>2. CASE slots' = slots /\ dirtyTokens' = dirtyTokens
  BY <1>1, <1>2 DEF TokensOwnDirtySlots, TokenValid
<1>3. ASSUME NEW w \in Slot,
             slots' = [slots EXCEPT ![u] = w],
             w.generation = slots[u].generation,
             w.dirty = slots[u].dirty,
             w.queued = slots[u].queued,
             w.token = slots[u].token,
             dirtyTokens' = dirtyTokens
      PROVE  TokensOwnDirtySlots'
  <2>1. \A v \in Universes : /\ slots'[v].generation = slots[v].generation
                             /\ slots'[v].dirty = slots[v].dirty
                             /\ slots'[v].queued = slots[v].queued
                             /\ slots'[v].token = slots[v].token
    BY <1>3, MailboxTypeFacts
  <2> QED
    BY <1>1, <1>3, <2>1, RingFacts DEF TokensOwnDirtySlots, TokenValid
<1>4. ASSUME NEW w \in Slot,
             slots' = [slots EXCEPT ![u] = w],
             w.generation = slots[u].generation,
             ~slots[u].dirty, w.dirty, w.queued,
             w.token = nextToken + 1,
             Accepts(u), EnqueueToken(u)
      PROVE  TokensOwnDirtySlots'
  <2>0. PICK t : t = [universe |-> u, generation |-> slots[u].generation,
                      token |-> nextToken + 1]
    OBVIOUS
  <2> DEFINE n == Len(dirtyTokens)
  <2>1. t \in Token /\ t.universe = u /\ t.generation = generation /\ t.token = nextToken + 1
    BY <1>4, <2>0, MailboxTypeFacts DEF Token, Accepts
  <2>2. dirtyTokens' = Append(dirtyTokens, t)
    BY <1>4, <2>0 DEF EnqueueToken
  <2>3. /\ n \in Nat
        /\ DOMAIN dirtyTokens' = 1..(n+1)
        /\ dirtyTokens'[n+1] = t
        /\ \A i \in 1..n : dirtyTokens'[i] = dirtyTokens[i]
    BY <2>1, <2>2, RingFacts, MailboxTypeFacts
  <2>4. slots'[u] = w /\ \A v \in Universes \ {u} : slots'[v] = slots[v]
    BY <1>4, MailboxTypeFacts
  <2>5. \A i \in 1..n : dirtyTokens[i].universe \in Universes \ {u}
    BY <1>4, RingFacts
  <2>6. \A i \in 1..(n+1) : i = n + 1 \/ i \in 1..n
    BY <2>3
  <2>7. OwnsSlot(t, slots'[u])
    BY <1>4, <2>1, <2>4 DEF OwnsSlot, Accepts
  <2>8. \A i \in 1..n : /\ OwnsSlot(dirtyTokens[i], slots'[dirtyTokens[i].universe])
                        /\ dirtyTokens[i].generation = generation
    BY <2>4, <2>5, RingFacts DEF OwnsSlot
  <2>9. \A i \in 1..(n+1) : /\ OwnsSlot(dirtyTokens'[i], slots'[dirtyTokens'[i].universe])
                            /\ dirtyTokens'[i].generation = generation'
    BY <1>1, <2>1, <2>3, <2>6, <2>7, <2>8
  <2>10. \A i, j \in 1..(n+1) :
           dirtyTokens'[i].universe = dirtyTokens'[j].universe => i = j
    BY <2>1, <2>3, <2>5, <2>6, RingFacts DEF TokensOwnDirtySlots
  <2>11. ASSUME NEW v \in Universes, slots'[v].dirty \/ slots'[v].queued
         PROVE  \E i \in 1..(n+1) : dirtyTokens'[i].universe = v
    <3>1. CASE v = u
      <4>1. n + 1 \in 1..(n+1)
        BY <2>3
      <4> QED
        BY <3>1, <4>1, <2>1, <2>3
    <3>2. CASE v # u
      <4>1. PICK i \in 1..n : dirtyTokens[i].universe = v
        BY <3>2, <2>4, <2>11, RingFacts DEF TokensOwnDirtySlots
      <4>2. i \in 1..(n+1)
        BY <2>3
      <4> QED
        BY <2>3, <4>1, <4>2
    <3> QED
      BY <3>1, <3>2
  <2> QED
    BY <2>3, <2>9, <2>10, <2>11 DEF TokensOwnDirtySlots, TokenValid, OwnsSlot
<1> QED
  BY <1>2, <1>3, <1>4, PublishCases

(* publish_universe keeps the held-state part of the invariant: what it    *)
(* stores in a slot agrees with the wire on the offsets subscribed.        *)
LEMMA PublishKeepsHeld ==
  ASSUME MailboxInv, NEW u \in Universes, NEW data \in Payload,
         Publish(u, data)
  PROVE  /\ SlotsCurrent'
         /\ DirtyIsHeld'
         /\ HeldProvesSubscribedOffsets'
<1> USE DEF MailboxInv
<1>1. /\ UNCHANGED <<generation, subscription, allocated>>
      /\ wire' = [wire EXCEPT ![u] = data]
  BY DEF Publish, PublishIgnored, PublishUnchanged, PublishCoalesced,
         PublishDirty, Receive
<1>2. /\ wire'[u] = data
      /\ data # NoPayload
      /\ \A v \in Universes \ {u} : wire'[v] = wire[v]
  BY <1>1, NoPayloadAssumption DEF MailboxTypeOK
<1>3. CASE slots' = slots /\ ~Accepts(u)
  <2>1. SlotsCurrent' /\ DirtyIsHeld'
    BY <1>1, <1>3 DEF SlotsCurrent, DirtyIsHeld
  <2>2. \A v \in HeldUniverses' : v \in HeldUniverses /\ v # u
    BY <1>1, <1>3 DEF HeldUniverses, Accepts
  <2> QED
    BY <1>1, <1>2, <1>3, <2>1, <2>2
       DEF HeldProvesSubscribedOffsets, HeldUniverses, Agree
<1>4. ASSUME NEW w \in Slot,
             Accepts(u),
             slots' = [slots EXCEPT ![u] = w],
             w.generation = slots[u].generation,
             \/ /\ ~Changed(u, data)
                /\ w.held = slots[u].held
                /\ w.initialized = slots[u].initialized
             \/ /\ w.held = data
                /\ w.initialized,
             \/ w.dirty = slots[u].dirty
             \/ w.initialized
      PROVE  /\ SlotsCurrent'
             /\ DirtyIsHeld'
             /\ HeldProvesSubscribedOffsets'
  <2>1. slots'[u] = w /\ \A v \in Universes \ {u} : slots'[v] = slots[v]
    BY <1>4, MailboxTypeFacts
  <2>2. u \in allocated /\ subscription[u] # {}
    BY <1>4 DEF Accepts
  <2>3. SlotsCurrent'
    BY <1>1, <1>4, <2>1, <2>2 DEF SlotsCurrent
  <2>4. DirtyIsHeld'
    BY <1>1, <1>4, <2>1, <2>2 DEF DirtyIsHeld
  <2>5. Agree(w.held, data, subscription[u])
    BY <1>4 DEF Changed, Agree
  <2>6. ASSUME NEW v \in HeldUniverses'
        PROVE  wire'[v] # NoPayload /\ Agree(slots'[v].held, wire'[v], subscription'[v])
    <3>1. CASE v = u
      BY <1>1, <1>2, <2>1, <2>5, <3>1
    <3>2. CASE v # u
      <4>1. v \in HeldUniverses /\ v \in Universes
        BY <1>1, <2>1, <2>6, <3>2 DEF HeldUniverses
      <4> QED
        BY <1>1, <1>2, <2>1, <3>2, <4>1 DEF HeldProvesSubscribedOffsets
    <3> QED
      BY <3>1, <3>2
  <2> QED
    BY <2>3, <2>4, <2>6 DEF HeldProvesSubscribedOffsets, Agree
<1> QED
  BY <1>3, <1>4, PublishCases

(* set_subscription keeps the invariant: a changed mask retires its slot.  *)
LEMMA SetSubscriptionKeepsInv ==
  ASSUME MailboxInv, NEW next \in Subscription, SetSubscription(next)
  PROVE  MailboxInv'
<1> USE DEF MailboxInv
<1>1. MailboxTypeOK'
  BY RetireType
<1>2. /\ subscription' = next /\ wire' = wire /\ dirtyTokens' = <<>>
      /\ generation' = generation + 1
      /\ allocated' = allocated \cup {u \in Universes : next[u] # {}}
  BY DEF SetSubscription
<1>3. SlotsCurrent'
  BY <1>2, SetSubscriptionEffect DEF SlotsCurrent
<1>4. ASSUME NEW u \in Universes
      PROVE  ~slots'[u].dirty /\ ~slots'[u].queued
  BY SetSubscriptionEffect DEF SlotsCurrent
<1>5. DirtyIsHeld' /\ TokensOwnDirtySlots'
  BY <1>2, <1>4 DEF DirtyIsHeld, TokensOwnDirtySlots
<1>6. ASSUME NEW u \in HeldUniverses'
      PROVE  wire'[u] # NoPayload /\ Agree(slots'[u].held, wire'[u], subscription'[u])
  <2>1. u \in Universes /\ next[u] # {} /\ slots'[u].initialized
    BY <1>2 DEF HeldUniverses
  <2>2. slots[u].initialized /\ next[u] \subseteq subscription[u]
    BY <2>1, SetSubscriptionEffect
  <2>3. u \in HeldUniverses
    BY <2>1, <2>2 DEF SlotsCurrent, HeldUniverses
  <2>4. slots'[u].held = slots[u].held
    BY <2>1, SetSubscriptionEffect
  <2> QED
    BY <1>2, <2>2, <2>3, <2>4 DEF HeldProvesSubscribedOffsets, Agree
<1> QED
  BY <1>1, <1>3, <1>5, <1>6 DEF HeldProvesSubscribedOffsets, Agree

(* reset_session keeps the invariant: it retires every slot.               *)
LEMMA ResetSessionKeepsInv ==
  ASSUME MailboxInv, ResetSession
  PROVE  MailboxInv'
<1> USE DEF MailboxInv
<1>1. MailboxTypeOK'
  BY RetireType
<1>2. /\ UNCHANGED <<subscription, allocated>> /\ dirtyTokens' = <<>>
      /\ generation' = generation + 1
  BY DEF ResetSession
<1>3. SlotsCurrent'
  BY <1>2, ResetSessionEffect DEF SlotsCurrent
<1>4. ASSUME NEW u \in Universes
      PROVE  ~slots'[u].dirty /\ ~slots'[u].queued /\ ~slots'[u].initialized
  BY ResetSessionEffect DEF SlotsCurrent
<1>5. DirtyIsHeld' /\ TokensOwnDirtySlots'
  BY <1>2, <1>4 DEF DirtyIsHeld, TokensOwnDirtySlots
<1>6. HeldProvesSubscribedOffsets'
  BY <1>4 DEF HeldProvesSubscribedOffsets, HeldUniverses
<1> QED
  BY <1>1, <1>3, <1>5, <1>6

(* One iteration of the drain loop keeps the invariant: the token popped   *)
(* was the only one of its slot.                                           *)
LEMMA DrainTokenKeepsInv ==
  ASSUME MailboxInv, DrainToken
  PROVE  MailboxInv'
<1> USE DEF MailboxInv
<1>0. PICK t : t = Head(dirtyTokens)
  OBVIOUS
<1>1. MailboxTypeOK'
  BY DrainTokenType
<1>2. /\ UNCHANGED <<subscription, generation, allocated, wire>>
      /\ dirtyTokens' = Tail(dirtyTokens)
      /\ dirtyTokens # <<>>
  BY DEF DrainToken
<1>3. Len(dirtyTokens) \in Nat /\ Len(dirtyTokens) > 0 /\ t = dirtyTokens[1]
  BY <1>0, <1>2, MailboxTypeFacts
<1>4. 1 \in DOMAIN dirtyTokens /\ t.universe \in Universes /\ TokenValid(t)
  BY <1>3, RingFacts DEF TokensOwnDirtySlots
<1>5. PICK w \in Slot : /\ slots' = [slots EXCEPT ![t.universe] = w]
                        /\ w.held = slots[t.universe].held
                        /\ w.initialized = slots[t.universe].initialized
                        /\ w.generation = slots[t.universe].generation
                        /\ ~w.dirty /\ ~w.queued
  BY <1>0, <1>4, DrainTokenEffect, ConsumedFields, MailboxTypeFacts
<1>6. /\ slots'[t.universe] = w
      /\ \A v \in Universes \ {t.universe} : slots'[v] = slots[v]
  BY <1>4, <1>5, MailboxTypeFacts
<1>7. SlotsCurrent' /\ DirtyIsHeld'
  BY <1>2, <1>4, <1>5, <1>6 DEF SlotsCurrent, DirtyIsHeld
<1>8. HeldProvesSubscribedOffsets'
  <2>1. \A v \in Universes : /\ slots'[v].held = slots[v].held
                             /\ slots'[v].initialized = slots[v].initialized
                             /\ slots'[v].generation = slots[v].generation
    BY <1>5, <1>6
  <2> QED
    BY <1>2, <2>1 DEF HeldProvesSubscribedOffsets, HeldUniverses, Agree
<1>9. TokensOwnDirtySlots'
  <2> DEFINE n == Len(dirtyTokens)
  <2>1. /\ n \in Nat
        /\ DOMAIN dirtyTokens' = 1..(n-1)
        /\ \A i \in 1..(n-1) : dirtyTokens'[i] = dirtyTokens[i+1]
    BY <1>2, <1>3, MailboxTypeFacts
  <2>2. \A i \in 1..(n-1) : i + 1 \in DOMAIN dirtyTokens /\ i + 1 # 1
    BY <2>1, RingFacts
  <2>3. \A i \in 1..(n-1) : dirtyTokens[i+1].universe \in Universes \ {t.universe}
    BY <1>3, <1>4, <2>2, RingFacts DEF TokensOwnDirtySlots
  <2>4. \A i \in 1..(n-1) : /\ OwnsSlot(dirtyTokens'[i], slots'[dirtyTokens'[i].universe])
                            /\ dirtyTokens'[i].generation = generation'
    BY <1>2, <1>6, <2>1, <2>2, <2>3, RingFacts DEF OwnsSlot
  <2>5. \A i, j \in 1..(n-1) :
          dirtyTokens'[i].universe = dirtyTokens'[j].universe => i = j
    <3> TAKE i, j \in 1..(n-1)
    <3> HAVE dirtyTokens'[i].universe = dirtyTokens'[j].universe
    <3>1. i + 1 = j + 1
      BY <2>1, <2>2 DEF TokensOwnDirtySlots
    <3> QED
      BY <2>1, <3>1
  <2>6. ASSUME NEW v \in Universes, slots'[v].dirty \/ slots'[v].queued
        PROVE  \E i \in 1..(n-1) : dirtyTokens'[i].universe = v
    <3>1. v # t.universe /\ slots'[v] = slots[v]
      BY <1>5, <1>6, <2>6
    <3>2. PICK i \in DOMAIN dirtyTokens : dirtyTokens[i].universe = v
      BY <2>6, <3>1 DEF TokensOwnDirtySlots
    <3>3. i \in 1..n /\ i # 1
      BY <1>3, <3>1, <3>2, RingFacts
    <3>4. i - 1 \in 1..(n-1) /\ (i - 1) + 1 = i
      BY <2>1, <3>3
    <3> QED
      BY <2>1, <3>2, <3>4
  <2> QED
    BY <2>1, <2>4, <2>5, <2>6 DEF TokensOwnDirtySlots, TokenValid, OwnsSlot
<1> QED
  BY <1>1, <1>7, <1>8, <1>9

(* The invariant holds of a mailbox just constructed.                      *)
LEMMA MailboxInitInv == MailboxInit => MailboxInv
<1> SUFFICES ASSUME MailboxInit PROVE MailboxInv
  OBVIOUS
<1>1. MailboxTypeOK
  BY MailboxInitType
<1>2. \A u \in Universes : /\ subscription[u] = {} /\ u \notin allocated
                           /\ ~slots[u].initialized /\ ~slots[u].dirty
                           /\ ~slots[u].queued
  BY DEF MailboxInit, FreshSlot
<1>3. SlotsCurrent /\ DirtyIsHeld
  BY <1>2 DEF SlotsCurrent, DirtyIsHeld
<1>4. dirtyTokens = <<>>
  BY DEF MailboxInit
<1>5. TokensOwnDirtySlots
  BY <1>2, <1>4 DEF TokensOwnDirtySlots
<1>6. HeldProvesSubscribedOffsets
  BY <1>2 DEF HeldProvesSubscribedOffsets, HeldUniverses
<1> QED
  BY <1>1, <1>3, <1>5, <1>6 DEF MailboxInv

(* The invariant is inductive: one case per operation of the mailbox.      *)
LEMMA MailboxNextInv ==
  ASSUME MailboxInv, [MailboxNext]_mailboxVars
  PROVE  MailboxInv'
<1>1. ASSUME NEW u \in Universes, NEW data \in Payload, Publish(u, data)
      PROVE  MailboxInv'
  BY <1>1, PublishType, PublishKeepsTokens, PublishKeepsHeld DEF MailboxInv
<1>2. ASSUME NEW next \in Subscription, SetSubscription(next)
      PROVE  MailboxInv'
  BY <1>2, SetSubscriptionKeepsInv
<1>3. CASE ResetSession
  BY <1>3, ResetSessionKeepsInv
<1>4. CASE DrainToken
  BY <1>4, DrainTokenKeepsInv
<1>5. CASE BeginDrain \/ EndDrain \/ UNCHANGED mailboxVars
  <2>1. MailboxTypeOK'
    BY <1>5, MailboxNextType DEF MailboxNext, MailboxInv
  <2>2. UNCHANGED <<subscription, generation, allocated, slots, dirtyTokens, wire>>
    BY <1>5 DEF BeginDrain, EndDrain, mailboxVars
  <2> QED
    BY <2>1, <2>2 DEF MailboxInv, SlotsCurrent, DirtyIsHeld, TokensOwnDirtySlots,
       TokenValid, HeldProvesSubscribedOffsets, HeldUniverses, Agree
<1> QED
  BY <1>1, <1>2, <1>3, <1>4, <1>5 DEF MailboxNext

(* The inductive invariant (types, token ownership, held state) holds in   *)
(* every reachable state of the mailbox, for every value of the constants. *)
THEOREM MailboxInvariant == MailboxSpec => []MailboxInv
<1>1. MailboxInit => MailboxInv
  BY MailboxInitInv
<1>2. MailboxInv /\ [MailboxNext]_mailboxVars => MailboxInv'
  BY MailboxNextInv
<1> QED
  BY <1>1, <1>2, PTL DEF MailboxSpec

(* The dirty ring never overflows, holds no stale token and misses no      *)
(* dirty slot, for any number of universes.                                *)
THEOREM TokensAlwaysOwnDirtySlots == MailboxSpec => []TokensOwnDirtySlots
<1>1. MailboxInv => TokensOwnDirtySlots
  BY DEF MailboxInv
<1> QED
  BY <1>1, MailboxInvariant, PTL

(* Masked comparison, mask changes and session resets together never leave *)
(* held state that the wire did not carry.                                 *)
THEOREM HeldAlwaysProven == MailboxSpec => []HeldProvesSubscribedOffsets
<1>1. MailboxInv => HeldProvesSubscribedOffsets
  BY DEF MailboxInv
<1> QED
  BY <1>1, MailboxInvariant, PTL

(* Every step that adds a frame to a drain adds a current one. *)
LEMMA DrainedFrameIsCurrent ==
  ASSUME MailboxInv, [MailboxNext]_mailboxVars, Len(frames') > Len(frames)
  PROVE  LET f == frames'[Len(frames')] IN
         /\ subscription[f.universe] # {}
         /\ wire[f.universe] # NoPayload
         /\ Agree(f.data, wire[f.universe], subscription[f.universe])
<1> USE DEF MailboxInv
<1>1. frames \in Seq(Frame) /\ Len(frames) \in Nat
  BY DEF MailboxTypeOK
<1>2. frames' # frames /\ frames' # <<>>
  BY <1>1
<1>3. DrainToken
  <2>1. ASSUME NEW u \in Universes, NEW data \in Payload, Publish(u, data)
        PROVE  FALSE
    BY <1>2, <2>1 DEF Publish, PublishIgnored, PublishUnchanged,
       PublishCoalesced, PublishDirty, Receive
  <2>2. ~\E next \in Subscription : SetSubscription(next)
    BY <1>2 DEF SetSubscription
  <2>3. ~ResetSession /\ ~BeginDrain /\ ~EndDrain /\ ~UNCHANGED mailboxVars
    BY <1>2 DEF ResetSession, BeginDrain, EndDrain, mailboxVars
  <2> QED
    BY <2>1, <2>2, <2>3 DEF MailboxNext
<1>4. PICK t : t = Head(dirtyTokens)
  OBVIOUS
<1>5. /\ t.universe \in Universes
      /\ TokenValid(t)
      /\ frames' = Append(frames, FrameOf(t.universe))
  BY <1>2, <1>3, <1>4, DrainTokenEffect
<1>6. frames'[Len(frames')] = FrameOf(t.universe)
  BY <1>1, <1>5, FrameOfType
<1>7. t.universe \in HeldUniverses /\ subscription[t.universe] # {}
  BY <1>5 DEF TokenValid, DirtyIsHeld, SlotsCurrent, HeldUniverses
<1> QED
  BY <1>6, <1>7 DEF HeldProvesSubscribedOffsets, FrameOf

(* No drain resurrects input of a retired subscription or session. *)
THEOREM DrainsNeverResurrect == MailboxSpec => DrainNeverResurrects
<1>1. MailboxInv /\ [MailboxNext]_mailboxVars =>
        [ Len(frames') > Len(frames) =>
            LET f == frames'[Len(frames')] IN
            /\ subscription[f.universe] # {}
            /\ wire[f.universe] # NoPayload
            /\ Agree(f.data, wire[f.universe], subscription[f.universe])
        ]_mailboxVars
  BY DrainedFrameIsCurrent
<1> QED
  BY <1>1, MailboxInvariant, PTL DEF MailboxSpec, DrainNeverResurrects

-----------------------------------------------------------------------------
(* Playback: the inductive invariant *)

PlaybackTypeOK ==
  /\ running \in BOOLEAN /\ receiving \in BOOLEAN /\ inHand \in BOOLEAN
  /\ phase \in Phases
  /\ restart \in BOOLEAN /\ configured \in BOOLEAN /\ rehydrated \in BOOLEAN
  /\ interests \in Subscription
  /\ latest \in [Universes -> Payload]
  /\ pending \in [Universes -> BOOLEAN]
  /\ values \in [Universes -> Payload \cup {NoPayload}]

(* The RX thread lives from a start to the join of a stop, and a frame of   *)
(* the main thread gets past "idle" only in a configured session.           *)
SessionInv ==
  /\ running => receiving
  /\ inHand => receiving
  /\ phase = "joining" => ~running
  /\ phase \notin {"idle", "joining"} => running /\ configured
  /\ configured => subscription = interests

(* What a frame has drained or submitted is not left behind by it.          *)
FrameInv ==
  /\ draining <=> phase = "drain"
  /\ phase \notin {"drain", "submit"} => frames = <<>>
  /\ (\E u \in Universes : pending[u]) =>
       \/ phase = "consume"
       \/ rehydrated /\ phase \in {"pump", "drain", "submit"}

(* The newest state of u that left the mailbox: drained, submitted or shown. *)
Newest(u) ==
  IF u \in Drained THEN DrainedData(u)
  ELSE IF pending[u] THEN latest[u]
  ELSE values[u]

(* A universe with proven state is dirty, and so will be drained, or that   *)
(* state has left the mailbox already; only a configured session that has   *)
(* not rehydrated yet owes both.                                            *)
HeldOnItsWay ==
  configured /\ phase # "rehydrate" =>
    \A u \in HeldUniverses :
      \/ slots[u].dirty
      \/ /\ Newest(u) # NoPayload
         /\ Agree(Newest(u), slots[u].held, interests[u])

PlaybackInv ==
  /\ MailboxInv
  /\ PlaybackTypeOK
  /\ SessionInv
  /\ StoppedSessionHoldsNothing
  /\ FrameInv
  /\ HeldOnItsWay

-----------------------------------------------------------------------------
(* The frames of a drain *)

(* DrainedData, for any sequence of frames. *)
IsLast(fs, u, i) ==
  /\ i \in DOMAIN fs
  /\ fs[i].universe = u
  /\ \A j \in DOMAIN fs : fs[j].universe = u => j <= i
LastData(fs, u) ==
  LET last == CHOOSE i \in DOMAIN fs :
                /\ fs[i].universe = u
                /\ \A j \in DOMAIN fs : fs[j].universe = u => j <= i
  IN fs[last].data
Of(fs) == {fs[i].universe : i \in DOMAIN fs}

LEMMA DrainedIsLastData ==
  /\ Drained = Of(frames)
  /\ \A u : DrainedData(u) = LastData(frames, u)
BY DEF Drained, DrainedData, Of, LastData

LEMMA LastDataIs ==
  ASSUME NEW fs \in Seq(Frame), NEW u, NEW i, IsLast(fs, u, i)
  PROVE  LastData(fs, u) = fs[i].data /\ fs[i].data \in Payload
<1>1. DOMAIN fs = 1 .. Len(fs) /\ Len(fs) \in Nat
  OBVIOUS
<1>2. ASSUME NEW j \in DOMAIN fs, IsLast(fs, u, j) PROVE j = i
  <2>1. i <= j /\ j <= i /\ i \in Nat /\ j \in Nat
    BY <1>1, <1>2 DEF IsLast
  <2> QED
    BY <2>1
<1>3. i = CHOOSE j \in DOMAIN fs :
            /\ fs[j].universe = u
            /\ \A k \in DOMAIN fs : fs[k].universe = u => k <= j
  BY <1>2 DEF IsLast
<1>4. fs[i] \in Frame
  BY <1>1 DEF IsLast
<1> QED
  BY <1>3, <1>4 DEF LastData, Frame

(* A least element, by the well-foundedness of the sets 0 .. k under        *)
(* inclusion.                                                               *)
LEMMA SmallestOf ==
  ASSUME NEW S \in SUBSET Nat, S # {}
  PROVE  \E k \in S : \A m \in S : k <= m
<1> DEFINE T == {0 .. k : k \in S}
<1>1. T \subseteq FiniteSubsetsOf(Nat) /\ T # {}
  <2>1. \A k \in S : 0 .. k \in SUBSET Nat /\ IsFiniteSet(0 .. k)
    BY FS_Interval
  <2> QED
    BY <2>1 DEF FiniteSubsetsOf
<1>2. IsWellFoundedOn(StrictSubsetOrdering(Nat), FiniteSubsetsOf(Nat))
  BY FS_StrictSubsetOrderingWellFounded
<1> HIDE DEF T
<1>3. PICK x \in T : \A y \in T : ~(<<y, x>> \in StrictSubsetOrdering(Nat))
  BY <1>1, <1>2, WFMin
<1>4. PICK k \in S : x = 0 .. k
  BY DEF T
<1>5. ASSUME NEW m \in S PROVE k <= m
  <2>1. SUFFICES ASSUME m < k PROVE FALSE
    OBVIOUS
  <2>2. 0 .. m \in T
    BY DEF T
  <2>3. 0 .. m \subseteq 0 .. k /\ 0 .. m # 0 .. k
    BY <2>1
  <2>4. <<0 .. m, 0 .. k>> \in StrictSubsetOrdering(Nat)
    BY <2>3 DEF StrictSubsetOrdering
  <2> QED
    BY <1>3, <1>4, <2>2, <2>4
<1> QED
  BY <1>5

LEMMA LastExists ==
  ASSUME NEW fs \in Seq(Frame), NEW u \in Of(fs)
  PROVE  \E i : IsLast(fs, u, i)
<1> DEFINE n == Len(fs)
           S == {k \in 0 .. n : n - k \in DOMAIN fs /\ fs[n - k].universe = u}
<1>1. DOMAIN fs = 1 .. n /\ n \in Nat
  OBVIOUS
<1>2. PICK i \in DOMAIN fs : fs[i].universe = u
  BY DEF Of
<1>3. n - i \in S
  BY <1>1, <1>2
<1>4. S \in SUBSET Nat /\ S # {}
  BY <1>1, <1>3
<1> HIDE DEF S
<1>5. PICK k \in S : \A m \in S : k <= m
  BY <1>4, SmallestOf
<1>6. k \in 0 .. n /\ n - k \in DOMAIN fs /\ fs[n - k].universe = u
  BY <1>5 DEF S
<1>7. ASSUME NEW j \in DOMAIN fs, fs[j].universe = u PROVE j <= n - k
  <2>1. n - (n - j) = j /\ n - j \in 0 .. n
    BY <1>1
  <2>2. n - j \in S
    BY <1>7, <2>1 DEF S
  <2>3. k <= n - j
    BY <1>5, <2>2
  <2> QED
    BY <1>1, <1>6, <2>1, <2>3
<1> QED
  BY <1>6, <1>7 DEF IsLast

(* A frame that is appended is the last of its universe, and changes none   *)
(* of another one.                                                          *)
LEMMA AppendLast ==
  ASSUME NEW fs \in Seq(Frame), NEW f \in Frame
  PROVE  /\ Of(Append(fs, f)) = Of(fs) \cup {f.universe}
         /\ LastData(Append(fs, f), f.universe) = f.data
         /\ \A u \in Of(fs) \ {f.universe} :
              LastData(Append(fs, f), u) = LastData(fs, u)
<1> DEFINE gs == Append(fs, f)
           n == Len(fs)
<1>1. /\ n \in Nat /\ DOMAIN fs = 1 .. n
      /\ gs \in Seq(Frame) /\ DOMAIN gs = 1 .. n + 1
      /\ gs[n + 1] = f
      /\ \A i \in 1 .. n : gs[i] = fs[i]
  OBVIOUS
<1> HIDE DEF gs, n
<1>2. Of(gs) = Of(fs) \cup {f.universe}
  <2>1. \A u \in Of(gs) : u \in Of(fs) \cup {f.universe}
    BY <1>1 DEF Of
  <2>2. \A u \in Of(fs) \cup {f.universe} : u \in Of(gs)
    BY <1>1 DEF Of
  <2> QED
    BY <2>1, <2>2
<1>3. IsLast(gs, f.universe, n + 1)
  BY <1>1 DEF IsLast
<1>4. LastData(gs, f.universe) = f.data
  BY <1>1, <1>3, LastDataIs
<1>5. ASSUME NEW u \in Of(fs) \ {f.universe}
      PROVE  LastData(gs, u) = LastData(fs, u)
  <2>1. PICK i : IsLast(fs, u, i)
    BY LastExists
  <2>2. IsLast(gs, u, i)
    <3>1. i \in 1 .. n /\ gs[i].universe = u
      BY <1>1, <2>1 DEF IsLast
    <3>2. ASSUME NEW j \in 1 .. n + 1, gs[j].universe = u PROVE j <= i
      <4>1. j # n + 1
        BY <1>1, <1>5, <3>2
      <4>2. j \in 1 .. n
        BY <1>1, <4>1
      <4> QED
        BY <1>1, <2>1, <3>2, <4>2 DEF IsLast
    <3> QED
      BY <1>1, <3>1, <3>2 DEF IsLast
  <2>3. LastData(fs, u) = fs[i].data /\ LastData(gs, u) = gs[i].data
    BY <1>1, <2>1, <2>2, LastDataIs
  <2> QED
    BY <1>1, <2>1, <2>3 DEF IsLast
<1> QED
  BY <1>2, <1>4, <1>5 DEF gs

(* What is drained is a payload of a universe. *)
LEMMA DrainedType ==
  ASSUME MailboxTypeOK
  PROVE  /\ Drained \subseteq Universes
         /\ \A u \in Drained : DrainedData(u) \in Payload
<1>1. frames \in Seq(Frame)
  BY DEF MailboxTypeOK
<1>2. Drained \subseteq Universes
  <2>1. \A i \in DOMAIN frames : frames[i] \in Frame
    BY <1>1
  <2> QED
    BY <2>1 DEF Drained, Frame
<1>3. ASSUME NEW u \in Drained PROVE DrainedData(u) \in Payload
  BY <1>1, DrainedIsLastData, LastExists, LastDataIs
<1> QED
  BY <1>2, <1>3

LEMMA NothingDrained == frames = <<>> => Drained = {}
BY DEF Drained

-----------------------------------------------------------------------------
(* The mailbox in a playback *)

LEMMA PlaybackKeepsMailboxInv ==
  ASSUME MailboxInv, interests \in Subscription, [Next]_vars
  PROVE  MailboxInv'
<1>1. CASE [MailboxNext]_mailboxVars
  BY <1>1, MailboxNextInv
<1>2. CASE Submit
  <2>1. /\ frames' = <<>>
        /\ UNCHANGED <<subscription, generation, allocated, slots, dirtyTokens,
                       nextToken, draining, toConsume, now, wire>>
    BY <1>2 DEF Submit
  <2> QED
    BY <2>1 DEF MailboxInv, MailboxTypeOK, SlotsCurrent, DirtyIsHeld, TokensOwnDirtySlots,
       TokenValid, HeldProvesSubscribedOffsets, HeldUniverses, Agree
<1>3. CASE RxTake \/ (\E on \in BOOLEAN : Toggle(on))
             \/ (\E next \in Subscription : Refresh(next)) \/ Rehydrate \/ Consume
             \/ UNCHANGED vars
  <2>1. UNCHANGED mailboxVars
    BY <1>3 DEF RxTake, Toggle, Refresh, Rehydrate, Consume, vars
  <2> QED
    BY <1>1, <2>1
<1>4. CASE RxPublish \/ Join \/ Configure \/ Pump \/ Drain
  <2>1. MailboxNext
    BY <1>4 DEF RxPublish, Join, Configure, Pump, Drain, MailboxNext
  <2> QED
    BY <1>1, <2>1
<1> QED
  BY <1>2, <1>3, <1>4 DEF Next, MainStep

(* What a publish does to the slot of its universe: nothing that counts, or *)
(* the slot is dirty.                                                       *)
LEMMA PublishDirties ==
  ASSUME MailboxTypeOK, NEW u \in Universes, NEW data \in Payload, Publish(u, data)
  PROVE  /\ UNCHANGED <<subscription, generation, allocated, draining, frames>>
         /\ \A v \in Universes \ {u} : slots'[v] = slots[v]
         /\ \/ slots'[u].dirty
            \/ /\ ~slots[u].dirty
               /\ slots'[u].held = slots[u].held
               /\ slots'[u].initialized = slots[u].initialized
               /\ slots'[u].generation = slots[u].generation
<1>1. /\ slots \in [Universes -> Slot] /\ slots[u] \in Slot /\ now \in Nat
      /\ nextToken \in Nat
  BY MailboxTypeFacts
<1>2. UNCHANGED <<subscription, generation, allocated, draining, frames>>
  BY DEF Publish, PublishIgnored, PublishUnchanged, PublishCoalesced, PublishDirty, Receive
<1>3. CASE PublishIgnored(u, data)
  <2>1. UNCHANGED slots
    BY <1>3 DEF PublishIgnored
  <2> QED
    BY <1>2, <2>1
<1>4. CASE PublishUnchanged(u, data)
  <2>1. slots' = [slots EXCEPT ![u] = Touched(slots[u])]
    BY <1>4 DEF PublishUnchanged
  <2>2. slots[u].dirty \in BOOLEAN
    BY <1>1 DEF Slot
  <2> QED
    BY <1>1, <1>2, <2>1, <2>2, TouchedFields
<1>5. CASE PublishCoalesced(u, data)
  <2>1. slots' = [slots EXCEPT ![u] = Written(slots[u], data)] /\ slots[u].dirty
    BY <1>5 DEF PublishCoalesced
  <2> QED
    BY <1>1, <1>2, <2>1, WrittenFields
<1>6. CASE PublishDirty(u, data)
  <2>1. /\ Dirtied(slots[u], data) \in Slot /\ Dirtied(slots[u], data).dirty
        /\ Queued(Dirtied(slots[u], data)).dirty
    BY <1>1, DirtiedFields, QueuedFields
  <2>2. \/ slots' = [slots EXCEPT ![u] = Dirtied(slots[u], data)]
        \/ slots' = [slots EXCEPT ![u] = Queued(Dirtied(slots[u], data))]
    BY <1>6 DEF PublishDirty
  <2> QED
    BY <1>1, <1>2, <2>1, <2>2
<1> QED
  BY <1>3, <1>4, <1>5, <1>6 DEF Publish

(* A step that touches neither the mailbox nor the core leaves alone what   *)
(* is held and what has left the mailbox.                                   *)
LEMMA SameView ==
  /\ UNCHANGED <<subscription, generation, allocated, slots>>
       => HeldUniverses' = HeldUniverses
  /\ UNCHANGED <<frames, coreVars>> => \A u : Newest(u)' = Newest(u)
<1>1. UNCHANGED <<subscription, generation, allocated, slots>>
        => HeldUniverses' = HeldUniverses
  BY DEF HeldUniverses
<1>2. UNCHANGED <<frames, coreVars>> => \A u : Newest(u)' = Newest(u)
  BY DEF Newest, Drained, DrainedData, coreVars
<1> QED
  BY <1>1, <1>2

-----------------------------------------------------------------------------
(* The steps of the RX thread *)

LEMMA RxTakeKeepsInv == PlaybackInv /\ RxTake => PlaybackInv'
<1> SUFFICES ASSUME PlaybackInv, RxTake PROVE PlaybackInv'
  OBVIOUS
<1>1. UNCHANGED <<mailboxVars, running, receiving, mainVars, coreVars>> /\ receiving /\ inHand'
  BY DEF RxTake
<1>2. MailboxInv'
  BY PlaybackKeepsMailboxInv DEF PlaybackInv, PlaybackTypeOK, Next
<1>3. PlaybackTypeOK' /\ SessionInv' /\ FrameInv'
  BY <1>1 DEF RxTake, PlaybackInv, PlaybackTypeOK, SessionInv, FrameInv, mailboxVars, mainVars,
     coreVars
<1>4. StoppedSessionHoldsNothing' /\ HeldOnItsWay'
  BY <1>1, SameView DEF PlaybackInv, RxTake, StoppedSessionHoldsNothing, HeldOnItsWay, Agree,
     mailboxVars, mainVars
<1> QED
  BY <1>2, <1>3, <1>4 DEF PlaybackInv

LEMMA RxPublishKeepsInv == PlaybackInv /\ RxPublish => PlaybackInv'
<1> SUFFICES ASSUME PlaybackInv, NEW u \in Universes, NEW data \in Payload, Publish(u, data),
                    RxPublish
             PROVE  PlaybackInv'
  BY DEF RxPublish
<1>1. /\ UNCHANGED <<running, receiving, mainVars, coreVars>>
      /\ inHand /\ ~inHand' /\ inHand' \in BOOLEAN
  BY DEF RxPublish
<1>2. MailboxInv' /\ MailboxTypeOK
  BY PlaybackKeepsMailboxInv DEF PlaybackInv, PlaybackTypeOK, Next, MailboxInv
<1>3. UNCHANGED <<subscription, generation, allocated, draining, frames>>
  BY <1>2, PublishDirties
<1>4. PlaybackTypeOK' /\ SessionInv' /\ FrameInv'
  BY <1>1, <1>3
     DEF PlaybackInv, PlaybackTypeOK, SessionInv, FrameInv, mainVars, coreVars
<1>5. StoppedSessionHoldsNothing'
  BY <1>1 DEF PlaybackInv, SessionInv, StoppedSessionHoldsNothing
<1>6. \A v \in Universes : Newest(v)' = Newest(v)
  BY <1>1, <1>3 DEF Newest, Drained, DrainedData, coreVars
<1>7. HeldOnItsWay'
  <2>1. SUFFICES ASSUME configured', phase' # "rehydrate", NEW v \in HeldUniverses'
                 PROVE  \/ slots'[v].dirty
                        \/ /\ Newest(v)' # NoPayload
                           /\ Agree(Newest(v)', slots'[v].held, interests'[v])
    BY DEF HeldOnItsWay, Agree
  <2>2. v \in Universes
    BY DEF HeldUniverses
  <2>3. CASE slots'[v].dirty
    BY <2>3
  <2>4. CASE ~slots'[v].dirty
    <3>1. /\ slots'[v].held = slots[v].held
          /\ ~slots[v].dirty
          /\ v \in HeldUniverses
      BY <1>2, <1>3, <2>1, <2>2, <2>4, PublishDirties DEF HeldUniverses
    <3> QED
      BY <1>1, <1>6, <2>1, <2>2, <3>1 DEF PlaybackInv, HeldOnItsWay, mainVars, Agree
  <2> QED
    BY <2>3, <2>4
<1> QED
  BY <1>2, <1>4, <1>5, <1>7 DEF PlaybackInv

-----------------------------------------------------------------------------
(* The user's commands *)

(* NoPayload is no payload, and a packet of zeros is one. *)
LEMMA PayloadFacts ==
  /\ ZeroPayload \in Payload
  /\ \A data \in Payload : data # NoPayload
  /\ \A data \in Payload, offsets \in SUBSET Offsets :
       /\ Mask(data, offsets) \in Payload
       /\ \A o \in offsets : Mask(data, offsets)[o] = data[o]
<1>1. ZeroPayload \in Payload
  BY MailboxAssumption DEF ZeroPayload, Payload
<1>2. \A data \in Payload : data # NoPayload
  BY NoPayloadAssumption
<1>3. ASSUME NEW data \in Payload, NEW offsets \in SUBSET Offsets
      PROVE  /\ Mask(data, offsets) \in Payload
             /\ \A o \in offsets : Mask(data, offsets)[o] = data[o]
  BY MailboxAssumption DEF Mask, Payload
<1> QED
  BY <1>1, <1>2, <1>3

LEMMA ToggleKeepsInv ==
  ASSUME PlaybackInv, NEW on \in BOOLEAN, Toggle(on)
  PROVE  PlaybackInv'
<1>1. /\ UNCHANGED <<mailboxVars, receiving, inHand, interests, configured, rehydrated, coreVars>>
      /\ phase = "idle" /\ phase' = "joining" /\ ~running' /\ running' \in BOOLEAN
      /\ restart' \in BOOLEAN
  BY DEF Toggle
<1>2. MailboxInv'
  BY PlaybackKeepsMailboxInv DEF PlaybackInv, PlaybackTypeOK, Next
<1>3. PlaybackTypeOK' /\ SessionInv'
  BY <1>1 DEF PlaybackInv, PlaybackTypeOK, SessionInv, Phases, mailboxVars, coreVars
<1>4. FrameInv'
  BY <1>1 DEF PlaybackInv, FrameInv, mailboxVars, coreVars
<1>5. StoppedSessionHoldsNothing' /\ HeldOnItsWay'
  BY <1>1, SameView DEF PlaybackInv, StoppedSessionHoldsNothing, HeldOnItsWay, Agree, mailboxVars
<1> QED
  BY <1>2, <1>3, <1>4, <1>5 DEF PlaybackInv

(* A session that is reset holds nothing: its slots are no longer proven.   *)
LEMMA ResetHoldsNothing ==
  ASSUME MailboxInv, ResetSession
  PROVE  dirtyTokens' = <<>> /\ HeldUniverses' = {}
<1>1. dirtyTokens' = <<>> /\ UNCHANGED <<subscription, allocated>>
  BY DEF ResetSession
<1>2. ASSUME NEW u \in HeldUniverses' PROVE FALSE
  <2>1. u \in Universes /\ u \in allocated /\ slots'[u].initialized
    BY <1>1, <1>2 DEF HeldUniverses
  <2> QED
    BY <2>1, ResetSessionEffect DEF MailboxInv
<1> QED
  BY <1>1, <1>2

LEMMA JoinKeepsInv == PlaybackInv /\ Join => PlaybackInv'
<1> SUFFICES ASSUME PlaybackInv, Join PROVE PlaybackInv'
  OBVIOUS
<1>1. /\ UNCHANGED <<inHand, restart, interests, configured, coreVars>>
      /\ phase = "joining" /\ phase' = "idle" /\ ~inHand /\ rehydrated' = FALSE
      /\ ResetSession
      /\ UNCHANGED <<subscription, draining, frames>>
  BY DEF Join, ResetSession
<1>2. /\ running' \in BOOLEAN /\ receiving' \in BOOLEAN
      /\ running' => receiving'
  BY DEF Join
<1>3. MailboxInv'
  BY PlaybackKeepsMailboxInv DEF PlaybackInv, PlaybackTypeOK, Next, MainStep
<1>4. PlaybackTypeOK' /\ SessionInv'
  BY <1>1, <1>2 DEF PlaybackInv, PlaybackTypeOK, SessionInv, Phases, coreVars
<1>5. FrameInv'
  BY <1>1 DEF PlaybackInv, FrameInv, coreVars
<1>6. StoppedSessionHoldsNothing' /\ HeldOnItsWay'
  BY <1>1, ResetHoldsNothing DEF PlaybackInv, StoppedSessionHoldsNothing, HeldOnItsWay
<1> QED
  BY <1>3, <1>4, <1>5, <1>6 DEF PlaybackInv

LEMMA RefreshKeepsInv ==
  ASSUME PlaybackInv, NEW next \in Subscription, Refresh(next)
  PROVE  PlaybackInv'
<1>1. /\ UNCHANGED <<mailboxVars, running, receiving, inHand, phase, restart, rehydrated>>
      /\ phase = "idle" /\ interests' = next /\ configured' = FALSE
      /\ latest' = NoFrames /\ pending' = NoPending /\ values' = NoValues
  BY DEF Refresh
<1>2. MailboxInv'
  BY PlaybackKeepsMailboxInv DEF PlaybackInv, PlaybackTypeOK, Next
<1>3. PlaybackTypeOK'
  BY <1>1, PayloadFacts DEF PlaybackInv, PlaybackTypeOK, NoFrames, NoPending, NoValues
<1>4. SessionInv' /\ FrameInv'
  BY <1>1 DEF PlaybackInv, SessionInv, FrameInv, NoPending, mailboxVars
<1>5. StoppedSessionHoldsNothing' /\ HeldOnItsWay'
  BY <1>1, SameView DEF PlaybackInv, StoppedSessionHoldsNothing, HeldOnItsWay, mailboxVars
<1> QED
  BY <1>2, <1>3, <1>4, <1>5 DEF PlaybackInv

-----------------------------------------------------------------------------
(* A frame of the main thread *)

LEMMA ConfigureKeepsInv == PlaybackInv /\ Configure => PlaybackInv'
<1> SUFFICES ASSUME PlaybackInv, Configure PROVE PlaybackInv'
  OBVIOUS
<1>1. /\ UNCHANGED <<running, receiving, inHand, restart, interests, rehydrated, coreVars>>
      /\ phase = "idle" /\ running /\ ~configured /\ configured' = TRUE /\ phase' = "rehydrate"
      /\ subscription' = interests /\ UNCHANGED <<draining, frames>>
  BY DEF Configure, SetSubscription
<1>2. MailboxInv'
  BY PlaybackKeepsMailboxInv DEF PlaybackInv, PlaybackTypeOK, Next, MainStep
<1>3. PlaybackTypeOK' /\ SessionInv'
  BY <1>1 DEF PlaybackInv, PlaybackTypeOK, SessionInv, Phases, coreVars
<1>4. FrameInv'
  BY <1>1 DEF PlaybackInv, FrameInv, coreVars
<1>5. StoppedSessionHoldsNothing' /\ HeldOnItsWay'
  BY <1>1 DEF PlaybackInv, SessionInv, StoppedSessionHoldsNothing, HeldOnItsWay
<1> QED
  BY <1>2, <1>3, <1>4, <1>5 DEF PlaybackInv

LEMMA RehydrateKeepsInv == PlaybackInv /\ Rehydrate => PlaybackInv'
<1> SUFFICES ASSUME PlaybackInv, Rehydrate PROVE PlaybackInv'
  OBVIOUS
<1> DEFINE S == Compiled(HeldUniverses)
<1>1. /\ UNCHANGED <<mailboxVars, running, receiving, inHand, restart, interests, configured>>
      /\ phase = "rehydrate" /\ phase' = "pump" /\ rehydrated' = (HeldUniverses # {})
      /\ UNCHANGED values
      /\ latest' = [u \in Universes |-> IF u \in S THEN slots[u].held ELSE latest[u]]
      /\ pending' = [u \in Universes |-> u \in S \/ pending[u]]
  BY DEF Rehydrate, Submitted
<1>2. MailboxInv'
  BY PlaybackKeepsMailboxInv DEF PlaybackInv, PlaybackTypeOK, Next, MainStep
<1>3. \A u \in Universes : ~pending[u]
  BY <1>1 DEF PlaybackInv, FrameInv
<1>4. /\ frames = <<>> /\ running /\ configured /\ ~draining
      /\ subscription = interests
  BY <1>1 DEF PlaybackInv, FrameInv, SessionInv
<1>5. S = HeldUniverses
  BY <1>4 DEF Compiled, HeldUniverses
<1>6. PlaybackTypeOK'
  <2>1. \A u \in Universes : slots[u].held \in Payload
    BY MailboxTypeFacts DEF PlaybackInv, MailboxInv
  <2>2. latest' \in [Universes -> Payload]
    BY <1>1, <2>1 DEF PlaybackInv, PlaybackTypeOK
  <2>3. pending' \in [Universes -> BOOLEAN]
    BY <1>1, <1>3
  <2> QED
    BY <1>1, <2>2, <2>3 DEF PlaybackInv, PlaybackTypeOK, Phases
<1>7. SessionInv' /\ StoppedSessionHoldsNothing'
  BY <1>1, SameView DEF PlaybackInv, SessionInv, StoppedSessionHoldsNothing, mailboxVars
<1>8. FrameInv'
  BY <1>1, <1>3, <1>4, <1>5 DEF FrameInv, mailboxVars
<1>9. HeldOnItsWay'
  <2>1. ASSUME NEW u \in HeldUniverses
        PROVE  /\ Newest(u)' = slots[u].held
               /\ slots[u].held \in Payload
    <3>1. u \in Universes /\ frames' = <<>>
      BY <1>1, <1>4 DEF HeldUniverses, mailboxVars
    <3>2. u \notin Drained'
      BY <3>1 DEF Drained
    <3>3. pending'[u] /\ latest'[u] = slots[u].held
      BY <1>1, <1>5, <3>1
    <3> QED
      BY <3>1, <3>2, <3>3, MailboxTypeFacts DEF Newest, PlaybackInv, MailboxInv
  <2>2. HeldUniverses' = HeldUniverses /\ slots' = slots
    BY <1>1, SameView DEF mailboxVars
  <2> QED
    BY <2>1, <2>2, PayloadFacts DEF HeldOnItsWay, Agree
<1> QED
  BY <1>2, <1>6, <1>7, <1>8, <1>9 DEF PlaybackInv

LEMMA PumpKeepsInv == PlaybackInv /\ Pump => PlaybackInv'
<1> SUFFICES ASSUME PlaybackInv, Pump PROVE PlaybackInv'
  OBVIOUS
<1>1. /\ UNCHANGED <<running, receiving, inHand, restart, interests, configured, rehydrated,
                     coreVars>>
      /\ UNCHANGED <<subscription, generation, allocated, slots, dirtyTokens>>
      /\ (phase = "pump") \/ (phase = "idle" /\ running /\ configured)
      /\ phase' = "drain" /\ draining' = TRUE /\ frames' = <<>>
  BY DEF Pump, BeginDrain
<1>2. MailboxInv'
  BY PlaybackKeepsMailboxInv DEF PlaybackInv, PlaybackTypeOK, Next, MainStep
<1>3. frames = <<>>
  BY <1>1 DEF PlaybackInv, FrameInv
<1>4. PlaybackTypeOK' /\ SessionInv'
  BY <1>1 DEF PlaybackInv, PlaybackTypeOK, SessionInv, Phases, coreVars
<1>5. FrameInv'
  BY <1>1 DEF PlaybackInv, FrameInv, coreVars
<1>6. StoppedSessionHoldsNothing' /\ HeldOnItsWay'
  BY <1>1, <1>3, SameView DEF PlaybackInv, StoppedSessionHoldsNothing, HeldOnItsWay, Agree
<1> QED
  BY <1>2, <1>4, <1>5, <1>6 DEF PlaybackInv

(* The bytes a drained token leaves the mailbox with are those held.        *)
LEMMA DrainTokenKeepsView ==
  ASSUME PlaybackInv, DrainToken, UNCHANGED <<interests, coreVars>>
  PROVE  /\ HeldUniverses' = HeldUniverses
         /\ \E u \in Universes :
              /\ slots'[u].held = slots[u].held
              /\ Newest(u)' = slots[u].held
              /\ slots[u].held \in Payload
              /\ \A v \in Universes \ {u} : slots'[v] = slots[v] /\ Newest(v)' = Newest(v)
<1>1. MailboxTypeOK /\ TokensOwnDirtySlots
  BY DEF PlaybackInv, MailboxInv
<1>2. PICK t : t = Head(dirtyTokens)
  OBVIOUS
<1> DEFINE u == t.universe
<1>3. dirtyTokens # <<>> /\ u \in Universes
  BY <1>1, <1>2, DrainTokenEffect
<1>4. TokenValid(t)
  <2>1. 1 \in DOMAIN dirtyTokens /\ t = dirtyTokens[1]
    BY <1>1, <1>2, <1>3, MailboxTypeFacts
  <2> QED
    BY <1>1, <2>1 DEF TokensOwnDirtySlots
<1>5. /\ frames' = Append(frames, FrameOf(u))
      /\ slots' = [slots EXCEPT ![u] = Consumed(slots[u])]
  BY <1>1, <1>2, <1>4, DrainTokenEffect
<1> HIDE DEF u
<1>6. /\ slots[u] \in Slot /\ slots'[u] = Consumed(slots[u])
      /\ \A v \in Universes \ {u} : slots'[v] = slots[v]
  BY <1>1, <1>3, <1>5, MailboxTypeFacts
<1>7. HeldUniverses' = HeldUniverses
  <2>1. \A v \in Universes : /\ slots'[v].initialized = slots[v].initialized
                             /\ slots'[v].generation = slots[v].generation
    BY <1>6, ConsumedFields
  <2>2. UNCHANGED <<subscription, allocated, generation>>
    BY DEF DrainToken
  <2> QED
    BY <2>1, <2>2 DEF HeldUniverses
<1>8. /\ frames \in Seq(Frame) /\ FrameOf(u) \in Frame
      /\ FrameOf(u).universe = u /\ FrameOf(u).data = slots[u].held
  BY <1>1, <1>3, FrameOfType DEF MailboxTypeOK, FrameOf
<1>9. /\ Drained' = Drained \cup {u}
      /\ DrainedData(u)' = slots[u].held
      /\ \A v \in Drained \ {u} : DrainedData(v)' = DrainedData(v)
  <2>1. Drained' = Of(frames') /\ \A v : DrainedData(v)' = LastData(frames', v)
    BY DEF Drained, DrainedData, Of, LastData
  <2> QED
    BY <1>5, <1>8, <2>1, DrainedIsLastData, AppendLast
<1>10. Newest(u)' = slots[u].held
  BY <1>9 DEF Newest
<1>11. ASSUME NEW v \in Universes \ {u} PROVE Newest(v)' = Newest(v)
  BY <1>9 DEF Newest, coreVars
<1>12. slots'[u].held = slots[u].held /\ slots[u].held \in Payload
  BY <1>1, <1>3, <1>6, ConsumedFields, MailboxTypeFacts
<1> QED
  BY <1>3, <1>6, <1>7, <1>10, <1>11, <1>12

LEMMA DrainKeepsInv == PlaybackInv /\ Drain => PlaybackInv'
<1> SUFFICES ASSUME PlaybackInv, Drain PROVE PlaybackInv'
  OBVIOUS
<1>1. /\ UNCHANGED <<running, receiving, inHand, restart, interests, configured, rehydrated,
                     coreVars>>
      /\ phase = "drain"
  BY DEF Drain
<1>2. MailboxInv'
  BY PlaybackKeepsMailboxInv DEF PlaybackInv, PlaybackTypeOK, Next, MainStep
<1>3. /\ subscription' = subscription
      /\ \/ phase' = "drain" /\ draining' /\ draining' \in BOOLEAN
         \/ phase' = "submit" /\ draining' = FALSE
  BY DEF Drain, DrainToken, EndDrain, PlaybackInv, FrameInv
<1>4. running /\ configured /\ receiving
  BY <1>1 DEF PlaybackInv, SessionInv
<1>5. PlaybackTypeOK' /\ SessionInv'
  BY <1>1, <1>3 DEF PlaybackInv, PlaybackTypeOK, SessionInv, Phases, coreVars
<1>6. FrameInv' /\ StoppedSessionHoldsNothing'
  BY <1>1, <1>3, <1>4 DEF PlaybackInv, FrameInv, StoppedSessionHoldsNothing, coreVars
<1>7. HeldOnItsWay'
  <2>1. CASE DrainToken
    <3>1. PICK u \in Universes :
            /\ slots'[u].held = slots[u].held
            /\ Newest(u)' = slots[u].held
            /\ slots[u].held \in Payload
            /\ \A v \in Universes \ {u} : slots'[v] = slots[v] /\ Newest(v)' = Newest(v)
      BY <1>1, <2>1, DrainTokenKeepsView
    <3>2. HeldUniverses' = HeldUniverses
      BY <1>1, <2>1, DrainTokenKeepsView
    <3>3. ASSUME NEW v \in HeldUniverses
          PROVE  \/ slots'[v].dirty
                 \/ /\ Newest(v)' # NoPayload
                    /\ Agree(Newest(v)', slots'[v].held, interests[v])
      <4>1. CASE v = u
        BY <3>1, <4>1, PayloadFacts DEF Agree
      <4>2. CASE v # u
        <5>1. v \in Universes
          BY DEF HeldUniverses
        <5> QED
          BY <1>1, <1>4, <3>1, <4>2, <5>1 DEF PlaybackInv, HeldOnItsWay
      <4> QED
        BY <4>1, <4>2
    <3> QED
      BY <1>1, <3>2, <3>3 DEF HeldOnItsWay, Agree
  <2>2. CASE EndDrain
    <3>1. UNCHANGED <<subscription, generation, allocated, slots, frames>>
      BY <2>2 DEF EndDrain
    <3> QED
      BY <1>1, <3>1, SameView DEF PlaybackInv, HeldOnItsWay, Agree
  <2> QED
    BY <2>1, <2>2 DEF Drain
<1> QED
  BY <1>2, <1>5, <1>6, <1>7 DEF PlaybackInv

LEMMA SubmitKeepsInv == PlaybackInv /\ Submit => PlaybackInv'
<1> SUFFICES ASSUME PlaybackInv, Submit PROVE PlaybackInv'
  OBVIOUS
<1>1. /\ UNCHANGED <<running, receiving, inHand, restart, interests, configured, values>>
      /\ UNCHANGED <<subscription, generation, allocated, slots, dirtyTokens, draining>>
      /\ phase = "submit" /\ rehydrated' = FALSE /\ frames' = <<>>
      /\ phase' = IF rehydrated \/ frames # <<>> THEN "consume" ELSE "idle"
  BY DEF Submit, Submitted
<1>2. \A u \in Universes :
        /\ latest'[u] = IF u \in Compiled(Drained) THEN DrainedData(u) ELSE latest[u]
        /\ pending'[u] = (u \in Compiled(Drained) \/ pending[u])
  BY DEF Submit, Submitted, Compiled
<1>3. /\ DOMAIN latest' = Universes /\ latest' = [u \in Universes |-> latest'[u]]
      /\ DOMAIN pending' = Universes /\ pending' = [u \in Universes |-> pending'[u]]
  BY DEF Submit, Submitted
<1>4. MailboxInv' /\ MailboxTypeOK
  BY PlaybackKeepsMailboxInv DEF PlaybackInv, PlaybackTypeOK, Next, MainStep, MailboxInv
<1>5. PlaybackTypeOK'
  <2>1. \A u \in Universes : latest'[u] \in Payload
    BY <1>2, <1>4, DrainedType DEF Compiled, PlaybackInv, PlaybackTypeOK
  <2>2. latest' \in [Universes -> Payload]
    BY <1>3, <2>1
  <2>3. \A u \in Universes : pending'[u] \in BOOLEAN
    BY <1>2
  <2>4. pending' \in [Universes -> BOOLEAN]
    BY <1>3, <2>3
  <2> QED
    BY <1>1, <2>2, <2>4 DEF PlaybackInv, PlaybackTypeOK, Phases
<1>6. running /\ configured /\ receiving /\ subscription = interests /\ ~draining
  BY <1>1 DEF PlaybackInv, SessionInv, FrameInv
<1>7. SessionInv'
  BY <1>1, <1>6 DEF PlaybackInv, SessionInv
<1>8. FrameInv'
  <2>1. ASSUME NEW u \in Universes, pending'[u] PROVE phase' = "consume"
    <3>1. u \in Drained \/ pending[u]
      BY <1>2, <2>1 DEF Compiled
    <3> QED
      BY <1>1, <3>1, NothingDrained DEF PlaybackInv, FrameInv
  <2> QED
    BY <1>1, <1>6, <2>1 DEF FrameInv
<1>9. StoppedSessionHoldsNothing'
  BY <1>1, <1>6 DEF StoppedSessionHoldsNothing
<1>10. HeldOnItsWay'
  <2>1. HeldUniverses' = HeldUniverses
    BY <1>1, SameView
  <2>2. ASSUME NEW u \in HeldUniverses PROVE Newest(u)' = Newest(u)
    <3>1. u \in Universes /\ interests[u] # {}
      BY <1>6 DEF HeldUniverses
    <3>2. u \notin Drained'
      BY <1>1 DEF Drained
    <3>3. u \in Compiled(Drained) <=> u \in Drained
      BY <3>1 DEF Compiled
    <3>4. CASE u \in Drained
      BY <1>2, <3>1, <3>2, <3>3, <3>4 DEF Newest
    <3>5. CASE u \notin Drained
      BY <1>1, <1>2, <3>1, <3>2, <3>3, <3>5 DEF Newest
    <3> QED
      BY <3>4, <3>5
  <2> QED
    BY <1>1, <2>1, <2>2 DEF PlaybackInv, HeldOnItsWay, Agree
<1> QED
  BY <1>4, <1>5, <1>7, <1>8, <1>9, <1>10 DEF PlaybackInv

LEMMA ConsumeKeepsInv == PlaybackInv /\ Consume => PlaybackInv'
<1> SUFFICES ASSUME PlaybackInv, Consume PROVE PlaybackInv'
  OBVIOUS
<1>1. /\ UNCHANGED <<mailboxVars, running, receiving, inHand, restart, interests, configured,
                     rehydrated, latest>>
      /\ phase = "consume" /\ phase' = "idle" /\ pending' = NoPending
      /\ values' = [u \in Universes |->
                      IF pending[u] THEN Mask(latest[u], interests[u]) ELSE values[u]]
  BY DEF Consume
<1>2. MailboxInv'
  BY PlaybackKeepsMailboxInv DEF PlaybackInv, PlaybackTypeOK, Next, MainStep
<1>3. \A u \in Universes : latest[u] \in Payload /\ interests[u] \in SUBSET Offsets
  BY DEF PlaybackInv, PlaybackTypeOK, Subscription
<1>4. PlaybackTypeOK'
  <2>1. values' \in [Universes -> Payload \cup {NoPayload}]
    BY <1>1, <1>3, PayloadFacts DEF PlaybackInv, PlaybackTypeOK
  <2>2. pending' \in [Universes -> BOOLEAN]
    BY <1>1 DEF NoPending
  <2> QED
    BY <1>1, <2>1, <2>2 DEF PlaybackInv, PlaybackTypeOK, Phases
<1>5. frames = <<>> /\ ~draining
  BY <1>1 DEF PlaybackInv, FrameInv
<1>6. SessionInv' /\ FrameInv' /\ StoppedSessionHoldsNothing'
  BY <1>1, <1>5, SameView
     DEF PlaybackInv, SessionInv, FrameInv, StoppedSessionHoldsNothing, NoPending, mailboxVars
<1>7. HeldOnItsWay'
  <2>1. HeldUniverses' = HeldUniverses /\ slots' = slots /\ interests' = interests
    BY <1>1, SameView DEF mailboxVars
  <2>2. ASSUME NEW u \in HeldUniverses
        PROVE  IF pending[u] THEN Newest(u) = latest[u] /\ Newest(u)' = Mask(latest[u], interests[u])
                             ELSE Newest(u)' = Newest(u)
    <3>1. u \in Universes
      BY DEF HeldUniverses
    <3>2. u \notin Drained /\ u \notin Drained'
      BY <1>1, <1>5 DEF Drained, mailboxVars
    <3>3. ~pending'[u]
      BY <1>1, <3>1 DEF NoPending
    <3> QED
      BY <1>1, <3>1, <3>2, <3>3 DEF Newest
  <2>3. ASSUME NEW u \in HeldUniverses, ~slots[u].dirty
        PROVE  /\ Newest(u)' # NoPayload
               /\ Agree(Newest(u)', slots[u].held, interests[u])
    <3>1. Newest(u) # NoPayload /\ Agree(Newest(u), slots[u].held, interests[u]) /\ u \in Universes
      BY <1>1, <2>3 DEF PlaybackInv, SessionInv, HeldOnItsWay, HeldUniverses
    <3> QED
      BY <1>3, <2>2, <3>1, PayloadFacts DEF Agree
  <2> QED
    BY <2>1, <2>3 DEF HeldOnItsWay, Agree
<1> QED
  BY <1>2, <1>4, <1>6, <1>7 DEF PlaybackInv

LEMMA PlaybackInitInv == Init => PlaybackInv
<1> SUFFICES ASSUME Init PROVE PlaybackInv
  OBVIOUS
<1>1. MailboxInv
  BY MailboxInitInv DEF Init
<1>2. /\ subscription = NoInterest /\ dirtyTokens = <<>> /\ frames = <<>> /\ ~draining
      /\ draining \in BOOLEAN
  BY DEF Init, MailboxInit, NoInterest
<1>3. HeldUniverses = {}
  BY <1>2 DEF HeldUniverses, NoInterest
<1>4. PlaybackTypeOK
  BY PayloadFacts DEF Init, PlaybackTypeOK, Phases, Subscription, NoInterest, NoFrames, NoPending,
     NoValues
<1>5. SessionInv /\ StoppedSessionHoldsNothing /\ HeldOnItsWay
  BY <1>2, <1>3 DEF Init, SessionInv, StoppedSessionHoldsNothing, HeldOnItsWay
<1>6. FrameInv
  BY <1>2 DEF Init, FrameInv, NoPending
<1> QED
  BY <1>1, <1>4, <1>5, <1>6 DEF PlaybackInv

(* A step that does nothing. *)
LEMMA StutterKeepsInv == PlaybackInv /\ UNCHANGED vars => PlaybackInv'
<1> SUFFICES ASSUME PlaybackInv, UNCHANGED vars PROVE PlaybackInv'
  OBVIOUS
<1>1. UNCHANGED <<mailboxVars, running, receiving, inHand, mainVars, coreVars>>
  BY DEF vars
<1>2. MailboxInv'
  BY PlaybackKeepsMailboxInv DEF PlaybackInv, PlaybackTypeOK
<1>3. PlaybackTypeOK' /\ SessionInv' /\ FrameInv'
  BY <1>1 DEF PlaybackInv, PlaybackTypeOK, SessionInv, FrameInv, mailboxVars, mainVars,
     coreVars
<1>4. StoppedSessionHoldsNothing' /\ HeldOnItsWay'
  BY <1>1, SameView DEF PlaybackInv, StoppedSessionHoldsNothing, HeldOnItsWay, Agree,
     mailboxVars, mainVars
<1> QED
  BY <1>2, <1>3, <1>4 DEF PlaybackInv

LEMMA PlaybackNextInv == PlaybackInv /\ [Next]_vars => PlaybackInv'
BY RxTakeKeepsInv, RxPublishKeepsInv, ToggleKeepsInv, RefreshKeepsInv, JoinKeepsInv,
   ConfigureKeepsInv, RehydrateKeepsInv, PumpKeepsInv, DrainKeepsInv, SubmitKeepsInv,
   ConsumeKeepsInv, StutterKeepsInv
   DEF Next, MainStep

-----------------------------------------------------------------------------
(* Theorems *)

(* The inductive invariant of playback: whatever the RX thread, the user's  *)
(* commands and the main thread's frames interleave to, proven state is in  *)
(* the ring or on its way to the view.                                      *)
THEOREM PlaybackInvariant == Spec => []PlaybackInv
<1>1. Init => PlaybackInv
  BY PlaybackInitInv
<1>2. PlaybackInv /\ [Next]_vars => PlaybackInv'
  BY PlaybackNextInv
<1> QED
  BY <1>1, <1>2, PTL DEF Spec

(* Once the ring is drained and a frame has ended, what the scene is drawn  *)
(* from is the last packet at every offset of interest: no rebuild, mask    *)
(* change, rehydration or restart loses an update.                          *)
THEOREM SettledViewAlwaysMatchesWire == Spec => []SettledViewMatchesWire
<1>1. PlaybackInv => SettledViewMatchesWire
  <2> SUFFICES ASSUME PlaybackInv, phase = "idle", running, configured, dirtyTokens = <<>>,
                      NEW u \in HeldUniverses
               PROVE  /\ values[u] # NoPayload
                      /\ Agree(values[u], wire[u], interests[u])
    BY DEF SettledViewMatchesWire
  <2>1. ~slots[u].dirty
    BY DEF PlaybackInv, MailboxInv, TokensOwnDirtySlots, HeldUniverses
  <2>2. u \in Universes /\ frames = <<>> /\ ~pending[u]
    BY DEF PlaybackInv, FrameInv, HeldUniverses
  <2>3. Newest(u) = values[u]
    BY <2>2, NothingDrained DEF Newest
  <2>4. values[u] # NoPayload /\ Agree(values[u], slots[u].held, interests[u])
    BY <2>1, <2>3 DEF PlaybackInv, HeldOnItsWay
  <2>5. Agree(slots[u].held, wire[u], interests[u])
    BY DEF PlaybackInv, SessionInv, MailboxInv, HeldProvesSubscribedOffsets
  <2> QED
    BY <2>4, <2>5 DEF Agree
<1> QED
  BY <1>1, PlaybackInvariant, PTL

(* A stop that has joined the RX thread leaves nothing of the session.      *)
THEOREM StoppedSessionAlwaysHoldsNothing == Spec => []StoppedSessionHoldsNothing
<1>1. PlaybackInv => StoppedSessionHoldsNothing
  BY DEF PlaybackInv
<1> QED
  BY <1>1, PlaybackInvariant, PTL

(* The mailbox's own promises hold of the client the program is.            *)
THEOREM PlaybackTokensOwnDirtySlots == Spec => []TokensOwnDirtySlots
<1>1. PlaybackInv => TokensOwnDirtySlots
  BY DEF PlaybackInv, MailboxInv
<1> QED
  BY <1>1, PlaybackInvariant, PTL

(* What the mailbox holds is proven by the wire in every state of playback. *)
THEOREM PlaybackHeldIsProven == Spec => []HeldProvesSubscribedOffsets
<1>1. PlaybackInv => HeldProvesSubscribedOffsets
  BY DEF PlaybackInv, MailboxInv
<1> QED
  BY <1>1, PlaybackInvariant, PTL

-----------------------------------------------------------------------------
(* Playback implements LatestState *)

InTransit(u) ==
  IF u \in Compiled(Drained) THEN Mask(DrainedData(u), interests[u])
  ELSE IF pending[u] THEN Mask(latest[u], interests[u])
  ELSE NoPayload

LEMMA TransitIs == Transit = [u \in Universes |-> InTransit(u)]
BY DEF Transit, InTransit

LEMMA SameTransit ==
  UNCHANGED <<frames, interests, latest, pending>> => Transit' = Transit
BY DEF Transit, Compiled, Drained, DrainedData

(* Nothing is in transit of a universe that is neither drained nor pending. *)
LEMMA NothingInTransit ==
  ASSUME frames = <<>>, NEW u
  PROVE  InTransit(u) = IF pending[u] THEN Mask(latest[u], interests[u]) ELSE NoPayload
BY DEF InTransit, Compiled, Drained

(* Two payloads that agree on the offsets of interest are read as the same. *)
LEMMA AgreeMasks ==
  ASSUME NEW a, NEW b, NEW offsets, Agree(a, b, offsets)
  PROVE  Mask(a, offsets) = Mask(b, offsets)
BY DEF Agree, Mask

(* What is held of a universe is read as its last packet is.                *)
LEMMA HeldIsLatest ==
  ASSUME PlaybackInv, configured, NEW u \in HeldUniverses
  PROVE  /\ u \in Universes
         /\ interests[u] # {}
         /\ Mask(slots[u].held, interests[u]) = Abstract!Latest(u)
<1>1. u \in Universes /\ subscription = interests /\ interests[u] # {}
  BY DEF HeldUniverses, PlaybackInv, SessionInv
<1>2. Agree(slots[u].held, wire[u], interests[u])
  BY <1>1 DEF PlaybackInv, MailboxInv, HeldProvesSubscribedOffsets
<1>3. Abstract!Latest(u) = Mask(wire[u], interests[u])
  BY DEF Abstract!Latest, Abstract!Mask, Mask
<1> QED
  BY <1>1, <1>2, <1>3, AgreeMasks

LEMMA PlaybackRefinesInit == Init => Abstract!Init
<1> SUFFICES ASSUME Init PROVE Abstract!Init
  OBVIOUS
<1>1. HeldUniverses = {}
  BY DEF Init, MailboxInit, HeldUniverses
<1>2. \A u \in Universes : InTransit(u) = NoPayload
  BY NothingInTransit DEF Init, MailboxInit, NoPending
<1>3. Transit = [u \in Universes |-> NoPayload]
  BY <1>2, TransitIs
<1> QED
  BY <1>1, <1>3 DEF Abstract!Init, Abstract!Nothing, Init, MailboxInit, NoInterest, NoValues

(* A publish is a packet sent; its universe may become known by it.         *)
LEMMA PublishRefines ==
  ASSUME PlaybackInv, RxPublish
  PROVE  Abstract!Next
<1>1. PICK u \in Universes, data \in Payload : Publish(u, data)
  BY DEF RxPublish
<1>2. UNCHANGED <<subscription, generation, allocated, frames>>
  BY <1>1, PublishDirties DEF PlaybackInv, MailboxInv
<1>3. wire' = [wire EXCEPT ![u] = data]
  BY <1>1 DEF Publish, PublishIgnored, PublishUnchanged, PublishCoalesced, PublishDirty, Receive
<1>4. HeldUniverses' \in {HeldUniverses, HeldUniverses \cup {u}}
  <2>1. \A v \in Universes \ {u} : slots'[v] = slots[v]
    BY <1>1, PublishDirties DEF PlaybackInv, MailboxInv
  <2>2. u \in HeldUniverses => u \in HeldUniverses'
    <3>1. CASE slots' = slots
      BY <1>2, <3>1 DEF HeldUniverses
    <3>2. CASE slots' # slots
      <4>1. PICK w \in Slot : /\ slots' = [slots EXCEPT ![u] = w]
                              /\ w.generation = slots[u].generation
                              /\ w.initialized = slots[u].initialized \/ w.initialized
        BY <1>1, <3>2, PublishCases DEF PlaybackInv, MailboxInv
      <4>2. slots'[u] = w
        BY <4>1, MailboxTypeFacts DEF PlaybackInv, MailboxInv
      <4> QED
        BY <1>2, <4>1, <4>2 DEF HeldUniverses
    <3> QED
      BY <3>1, <3>2
  <2>3. \A v \in Universes \ {u} : v \in HeldUniverses' <=> v \in HeldUniverses
    BY <1>2, <2>1 DEF HeldUniverses
  <2>4. HeldUniverses \subseteq Universes /\ HeldUniverses' \subseteq Universes
    BY DEF HeldUniverses
  <2> QED
    BY <2>2, <2>3, <2>4
<1>5. UNCHANGED <<interests, values>> /\ Transit' = Transit
  BY <1>2, SameTransit DEF RxPublish, mainVars, coreVars
<1>6. Abstract!Send(u, data)
  BY <1>3, <1>4, <1>5 DEF Abstract!Send
<1> QED
  BY <1>1, <1>6 DEF Abstract!Next, Abstract!Payload, Payload

LEMMA JoinRefines ==
  ASSUME PlaybackInv, Join
  PROVE  Abstract!Next
<1>1. ResetSession /\ UNCHANGED <<interests, coreVars>>
  BY DEF Join
<1>2. HeldUniverses' = {}
  BY <1>1, ResetHoldsNothing DEF PlaybackInv
<1>3. wire' = [u \in Universes |-> NoPayload] /\ UNCHANGED frames
  BY <1>1 DEF ResetSession
<1>4. UNCHANGED <<interests, values>> /\ Transit' = Transit
  BY <1>1, <1>3, SameTransit DEF coreVars
<1>5. Abstract!EndSession
  BY <1>2, <1>3, <1>4 DEF Abstract!EndSession, Abstract!Nothing
<1> QED
  BY <1>5 DEF Abstract!Next

LEMMA RefreshRefines ==
  ASSUME PlaybackInv, NEW next \in Subscription, Refresh(next)
  PROVE  Abstract!Next
<1>1. /\ UNCHANGED mailboxVars /\ interests' = next
      /\ pending' = NoPending /\ values' = NoValues /\ phase = "idle"
  BY DEF Refresh
<1>2. frames' = <<>> /\ wire' = wire /\ HeldUniverses' = HeldUniverses
  BY <1>1, SameView DEF PlaybackInv, FrameInv, mailboxVars
<1>3. \A u \in Universes : InTransit(u)' = NoPayload
  BY <1>1, <1>2 DEF InTransit, Compiled, Drained, NoPending
<1>4. Transit' = [u \in Universes |-> NoPayload]
  BY <1>3 DEF Transit, InTransit
<1>5. Abstract!Refresh(next)
  BY <1>1, <1>2, <1>4 DEF Abstract!Refresh, Abstract!Nothing, NoValues
<1> QED
  BY <1>5 DEF Abstract!Next, Subscription

(* A mask that gained an offset proves too little, so its state is          *)
(* forgotten; no state becomes known by a subscription.                     *)
LEMMA ConfigureRefines ==
  ASSUME PlaybackInv, Configure
  PROVE  Abstract!Next
<1>1. SetSubscription(interests) /\ interests \in Subscription
  BY DEF Configure, PlaybackInv, PlaybackTypeOK
<1>2. UNCHANGED <<frames, wire, interests, coreVars>> /\ subscription' = interests
  BY DEF Configure, SetSubscription
<1>3. ASSUME NEW u \in HeldUniverses' PROVE u \in HeldUniverses
  <2>1. u \in Universes /\ interests[u] # {} /\ slots'[u].initialized
    BY <1>2 DEF HeldUniverses
  <2>2. slots[u].initialized /\ interests[u] \subseteq subscription[u]
    BY <1>1, <2>1, SetSubscriptionEffect DEF PlaybackInv, MailboxInv
  <2> QED
    BY <2>1, <2>2 DEF PlaybackInv, MailboxInv, SlotsCurrent, HeldUniverses
<1>4. HeldUniverses' = HeldUniverses \ (HeldUniverses \ HeldUniverses')
  BY <1>3
<1>5. UNCHANGED <<interests, values>> /\ Transit' = Transit
  BY <1>2, SameTransit DEF coreVars
<1>6. Abstract!Distrust(HeldUniverses \ HeldUniverses')
  BY <1>2, <1>4, <1>5 DEF Abstract!Distrust
<1>7. HeldUniverses \subseteq Universes
  BY DEF HeldUniverses
<1> QED
  BY <1>6, <1>7 DEF Abstract!Next

LEMMA RehydrateRefines ==
  ASSUME PlaybackInv, Rehydrate
  PROVE  Abstract!Next
<1>1. /\ UNCHANGED <<mailboxVars, interests, values>> /\ phase = "rehydrate"
      /\ latest' = [u \in Universes |-> IF u \in Compiled(HeldUniverses)
                                        THEN slots[u].held ELSE latest[u]]
      /\ pending' = [u \in Universes |-> u \in Compiled(HeldUniverses) \/ pending[u]]
  BY DEF Rehydrate, Submitted
<1>2. frames = <<>> /\ frames' = <<>> /\ configured
  BY <1>1 DEF PlaybackInv, FrameInv, SessionInv, mailboxVars
<1>3. HeldUniverses' = HeldUniverses /\ wire' = wire
  BY <1>1, SameView DEF mailboxVars
<1>4. ASSUME NEW u \in Universes
      PROVE  InTransit(u)' = IF u \in HeldUniverses THEN Abstract!Latest(u) ELSE InTransit(u)
  <2>1. InTransit(u)' = IF pending'[u] THEN Mask(latest'[u], interests'[u]) ELSE NoPayload
    BY <1>2 DEF InTransit, Compiled, Drained
  <2>2. CASE u \in HeldUniverses
    <3>1. u \in Compiled(HeldUniverses)
      BY <1>2, <2>2, HeldIsLatest DEF Compiled
    <3>2. pending'[u] /\ latest'[u] = slots[u].held
      BY <1>1, <3>1
    <3> QED
      BY <1>1, <1>2, <2>1, <2>2, <3>2, HeldIsLatest
  <2>3. CASE u \notin HeldUniverses
    <3>1. u \notin Compiled(HeldUniverses)
      BY <2>3 DEF Compiled
    <3>2. latest'[u] = latest[u] /\ (pending'[u] <=> pending[u])
      BY <1>1, <3>1
    <3> QED
      BY <1>1, <1>2, <2>1, <2>3, <3>2, NothingInTransit
  <2> QED
    BY <2>2, <2>3
<1>5. /\ Transit' = [u \in Universes |-> InTransit(u)']
      /\ \A u \in Universes : Transit[u] = InTransit(u)
  BY DEF Transit, InTransit
<1>6. Transit' = [u \in Universes |-> IF u \in HeldUniverses THEN Abstract!Latest(u)
                                                             ELSE Transit[u]]
  BY <1>4, <1>5
<1>7. Abstract!Fetch(HeldUniverses)
  BY <1>1, <1>3, <1>6 DEF Abstract!Fetch
<1>8. HeldUniverses \subseteq Universes
  BY DEF HeldUniverses
<1> QED
  BY <1>7, <1>8 DEF Abstract!Next

(* A drained token fetches the last packet of its universe; the end of the  *)
(* loop changes nothing of the view.                                        *)
LEMMA DrainRefines ==
  ASSUME PlaybackInv, Drain
  PROVE  Abstract!Next \/ UNCHANGED Abstract!vars
<1>1. /\ UNCHANGED <<interests, latest, pending, values>> /\ phase = "drain"
      /\ UNCHANGED <<subscription, generation, allocated, wire>>
  BY DEF Drain, DrainToken, EndDrain, coreVars
<1>2. configured /\ MailboxTypeOK
  BY <1>1 DEF PlaybackInv, SessionInv, MailboxInv
<1>3. CASE DrainToken
  <2>1. PICK t : t = Head(dirtyTokens)
    OBVIOUS
  <2>2. t.universe \in Universes /\ dirtyTokens # <<>>
    BY <1>2, <1>3, <2>1, DrainTokenEffect
  <2>3. PICK u \in Universes : u = t.universe
    BY <2>2
  <2>4. TokenValid(t)
    <3>1. 1 \in DOMAIN dirtyTokens /\ t = dirtyTokens[1]
      BY <1>2, <2>1, <2>2, MailboxTypeFacts
    <3> QED
      BY <3>1 DEF PlaybackInv, MailboxInv, TokensOwnDirtySlots
  <2>5. frames' = Append(frames, FrameOf(u))
    BY <1>2, <1>3, <2>1, <2>3, <2>4, DrainTokenEffect
  <2>6. u \in HeldUniverses
    BY <2>3, <2>4 DEF TokenValid, PlaybackInv, MailboxInv, DirtyIsHeld, SlotsCurrent,
       HeldUniverses
  <2>7. /\ frames \in Seq(Frame) /\ FrameOf(u) \in Frame
        /\ FrameOf(u).universe = u /\ FrameOf(u).data = slots[u].held
    BY <1>2, FrameOfType DEF MailboxTypeOK, FrameOf
  <2>8. /\ Drained' = Drained \cup {u}
        /\ DrainedData(u)' = slots[u].held
        /\ \A v \in Drained \ {u} : DrainedData(v)' = DrainedData(v)
    <3>1. Drained' = Of(frames') /\ \A v : DrainedData(v)' = LastData(frames', v)
      BY DEF Drained, DrainedData, Of, LastData
    <3> QED
      BY <2>5, <2>7, <3>1, DrainedIsLastData, AppendLast
  <2>9. InTransit(u)' = Abstract!Latest(u)
    <3>1. u \in Compiled(Drained)'
      BY <1>1, <1>2, <2>6, <2>8, HeldIsLatest DEF Compiled
    <3>2. InTransit(u)' = Mask(slots[u].held, interests[u])
      BY <1>1, <2>8, <3>1 DEF InTransit
    <3> QED
      BY <1>2, <2>6, <3>2, HeldIsLatest
  <2>10. ASSUME NEW v \in Universes \ {u} PROVE InTransit(v)' = InTransit(v)
    <3>1. v \in Compiled(Drained)' <=> v \in Compiled(Drained)
      BY <1>1, <2>8 DEF Compiled
    <3>2. v \in Compiled(Drained) => DrainedData(v)' = DrainedData(v)
      BY <2>8 DEF Compiled
    <3> QED
      BY <1>1, <3>1, <3>2 DEF InTransit
  <2>11. /\ Transit' = [v \in Universes |-> InTransit(v)']
         /\ \A v \in Universes : Transit[v] = InTransit(v)
    BY DEF Transit, InTransit
  <2>12. Transit' = [v \in Universes |-> IF v \in {u} THEN Abstract!Latest(v) ELSE Transit[v]]
    BY <2>9, <2>10, <2>11
  <2>13. HeldUniverses' = HeldUniverses
    BY <1>1, <1>3, DrainTokenKeepsView DEF coreVars
  <2>14. Abstract!Fetch({u})
    BY <1>1, <2>6, <2>12, <2>13 DEF Abstract!Fetch
  <2> QED
    BY <2>14 DEF Abstract!Next
<1>4. CASE EndDrain
  <2>1. UNCHANGED <<slots, frames>>
    BY <1>4 DEF EndDrain
  <2> QED
    BY <1>1, <2>1, SameView, SameTransit DEF Abstract!vars
<1> QED
  BY <1>3, <1>4 DEF Drain

(* What is submitted was in transit already.                                *)
LEMMA SubmitRefines ==
  ASSUME PlaybackInv, Submit
  PROVE  UNCHANGED Abstract!vars
<1>1. /\ UNCHANGED <<interests, values, subscription, generation, allocated, slots, wire>>
      /\ frames' = <<>>
  BY DEF Submit, Submitted
<1>2. \A u \in Universes :
        /\ latest'[u] = IF u \in Compiled(Drained) THEN DrainedData(u) ELSE latest[u]
        /\ pending'[u] = (u \in Compiled(Drained) \/ pending[u])
  BY DEF Submit, Submitted, Compiled
<1>3. ASSUME NEW u \in Universes PROVE InTransit(u)' = InTransit(u)
  <2>1. InTransit(u)' = IF pending'[u] THEN Mask(latest'[u], interests[u]) ELSE NoPayload
    BY <1>1 DEF InTransit, Compiled, Drained
  <2>2. CASE u \in Compiled(Drained)
    BY <1>2, <2>1, <2>2 DEF InTransit
  <2>3. CASE u \notin Compiled(Drained)
    BY <1>2, <2>1, <2>3 DEF InTransit
  <2> QED
    BY <2>2, <2>3
<1>4. Transit' = [u \in Universes |-> InTransit(u)'] /\ Transit = [u \in Universes |-> InTransit(u)]
  BY DEF Transit, InTransit
<1>5. Transit' = Transit
  BY <1>3, <1>4
<1> QED
  BY <1>1, <1>5, SameView DEF Abstract!vars

LEMMA ConsumeRefines ==
  ASSUME PlaybackInv, Consume
  PROVE  Abstract!Next
<1>1. /\ UNCHANGED <<mailboxVars, interests, latest>>
      /\ phase = "consume" /\ pending' = NoPending
      /\ values' = [u \in Universes |->
                      IF pending[u] THEN Mask(latest[u], interests[u]) ELSE values[u]]
  BY DEF Consume
<1>2. frames = <<>> /\ frames' = <<>>
  BY <1>1 DEF PlaybackInv, FrameInv, mailboxVars
<1>3. \A u \in Universes : Transit[u] = IF pending[u] THEN Mask(latest[u], interests[u])
                                                      ELSE NoPayload
  BY <1>2, NothingInTransit, TransitIs
<1>4. \A u \in Universes : Mask(latest[u], interests[u]) # NoPayload
  BY PayloadFacts DEF PlaybackInv, PlaybackTypeOK, Subscription
<1>5. values' = [u \in Universes |-> IF Transit[u] # NoPayload THEN Transit[u] ELSE values[u]]
  BY <1>1, <1>3, <1>4
<1>6. \A u \in Universes : InTransit(u)' = NoPayload
  BY <1>1, <1>2 DEF InTransit, Compiled, Drained, NoPending
<1>7. Transit' = [u \in Universes |-> NoPayload]
  BY <1>6 DEF Transit, InTransit
<1>8. Abstract!Show
  BY <1>1, <1>5, <1>7, SameView DEF Abstract!Show, Abstract!Nothing, mailboxVars
<1> QED
  BY <1>8 DEF Abstract!Next

(* The steps the promise does not see.                                      *)
LEMMA HiddenSteps ==
  ASSUME PlaybackInv,
         \/ RxTake
         \/ \E on \in BOOLEAN : Toggle(on)
         \/ Pump
         \/ UNCHANGED vars
  PROVE  UNCHANGED Abstract!vars
<1>1. /\ UNCHANGED <<interests, latest, pending, values>>
      /\ UNCHANGED <<subscription, generation, allocated, slots, wire>>
  BY DEF RxTake, Toggle, Pump, BeginDrain, vars, mailboxVars, mainVars, coreVars
<1>2. frames' = frames
  BY DEF RxTake, Toggle, Pump, BeginDrain, vars, mailboxVars, PlaybackInv, FrameInv
<1> QED
  BY <1>1, <1>2, SameView, SameTransit DEF Abstract!vars

(* Playback keeps the latest-state promise: every step of the RX thread,    *)
(* the main thread and the user is a packet, a fetch of the latest state,   *)
(* a show, a refresh, a distrust, the end of a session, or nothing the      *)
(* promise sees. That a stale state is fetched again is left to the runs.   *)
THEOREM PlaybackKeepsLatestState == Spec => Abstract!SafetySpec
<1>1. Init => Abstract!Init
  BY PlaybackRefinesInit
<1>2. PlaybackInv /\ [Next]_vars => [Abstract!Next]_(Abstract!vars)
  BY PublishRefines, JoinRefines, RefreshRefines, ConfigureRefines, RehydrateRefines,
     DrainRefines, SubmitRefines, ConsumeRefines, HiddenSteps
     DEF Next, MainStep
<1> QED
  BY <1>1, <1>2, PlaybackInvariant, PTL DEF Spec, Abstract!SafetySpec

(* No drain of a playback resurrects input of a retired subscription or of  *)
(* a stopped session: a drained frame is read while the wire still proves   *)
(* it.                                                                      *)
THEOREM PlaybackNeverResurrects == Spec => DrainNeverResurrects
<1>1. PlaybackInv /\ [Next]_vars =>
        [ Len(frames') > Len(frames) =>
            LET f == frames'[Len(frames')] IN
            /\ subscription[f.universe] # {}
            /\ wire[f.universe] # NoPayload
            /\ Agree(f.data, wire[f.universe], subscription[f.universe])
        ]_mailboxVars
  <2> SUFFICES ASSUME PlaybackInv, [Next]_vars, Len(frames') > Len(frames)
               PROVE  LET f == frames'[Len(frames')] IN
                      /\ subscription[f.universe] # {}
                      /\ wire[f.universe] # NoPayload
                      /\ Agree(f.data, wire[f.universe], subscription[f.universe])
    OBVIOUS
  <2>1. MailboxInv /\ frames \in Seq(Frame)
    BY DEF PlaybackInv, MailboxInv, MailboxTypeOK
  <2>2. ~Submit
    <3>1. Submit => Len(frames') = 0 /\ Len(frames) \in Nat
      BY <2>1 DEF Submit
    <3> QED
      BY <3>1
  <2>3. [MailboxNext]_mailboxVars
    <3>1. CASE RxTake \/ (\E on \in BOOLEAN : Toggle(on))
                 \/ (\E next \in Subscription : Refresh(next)) \/ Rehydrate \/ Consume
                 \/ UNCHANGED vars
      BY <3>1 DEF RxTake, Toggle, Refresh, Rehydrate, Consume, vars
    <3>2. CASE RxPublish \/ Join \/ Configure \/ Pump \/ Drain
      BY <3>2 DEF RxPublish, Join, Configure, Pump, Drain, MailboxNext, PlaybackInv,
         PlaybackTypeOK
    <3> QED
      BY <2>2, <3>1, <3>2 DEF Next, MainStep
  <2> QED
    BY <2>1, <2>3, DrainedFrameIsCurrent
<1> QED
  BY <1>1, PlaybackInvariant, PTL DEF Spec, DrainNeverResurrects
=============================================================================
