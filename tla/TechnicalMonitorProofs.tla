----------------------- MODULE TechnicalMonitorProofs -----------------------
(***************************************************************************)
(* Proofs about TechnicalMonitor, for any universes, payloads, channels    *)
(* and any allowance of the budget.                                        *)
(*                                                                         *)
(* The cache is never cleared: a slot outlives the capture that wrote it.  *)
(* What the monitor reads is right because the captures only grow, along   *)
(* heard, slot, RX thread and active generation (HeardInSlot, Carried and  *)
(* TypeOK).                                                                *)
(***************************************************************************)
EXTENDS TechnicalMonitor, SequenceTheorems, TLAPS

\* What was heard has its type.
HeardTyped ==
  heard \in [Universes -> [1 .. Channels -> [capture: Nat, value: Nat]]]

\* A slot without a frame has heard nothing. A slot shows exactly the
\* channels heard in its capture, and nothing was heard later.
HeardInSlot ==
  \A u \in Universes, c \in 1 .. Channels :
    IF slots[u] = None THEN heard[u][c].capture = 0
    ELSE /\ heard[u][c].capture <= slots[u].capture
         /\ c <= Len(slots[u].frame) <=>
              heard[u][c].capture = slots[u].capture
         /\ c <= Len(slots[u].frame) =>
              slots[u].frame[c] = heard[u][c].value

\* The capture a write carries is not older than any slot: the RX thread
\* reads the session for each datagram, and sessions only grow.
Carried ==
  rx.at = "writing" =>
    /\ rx.capture \in 1 .. active
    /\ \A u \in Universes : slots[u] # None => slots[u].capture <= rx.capture

\* The window reads the data of a universe it has selected.
FetchesSelected == ui = "fetching" => selected # None

IInv == TypeOK /\ HeardTyped /\ HeardInSlot /\ Carried /\ FetchesSelected

-----------------------------------------------------------------------------
(* A write. *)

\* A short payload replaces the head of a frame and keeps its tail.
LEMMA OverlayShows ==
  ASSUME NEW old \in Seq(Nat), NEW new \in Seq(Nat)
  PROVE  /\ Overlay(old, new) \in Seq(Nat)
         /\ Len(Overlay(old, new)) =
              IF Len(new) < Len(old) THEN Len(old) ELSE Len(new)
         /\ \A c \in 1 .. Len(Overlay(old, new)) :
              Overlay(old, new)[c] = IF c <= Len(new) THEN new[c] ELSE old[c]
<1> DEFINE tail == SubSeq(old, Len(new) + 1, Len(old))
<1>1. Len(old) \in Nat /\ Len(new) \in Nat
  OBVIOUS
<1>2. \A i \in Len(new) + 1 .. Len(old) : old[i] \in Nat
  BY <1>1
<1>3. /\ tail \in Seq(Nat)
      /\ Len(tail) = IF Len(new) < Len(old) THEN Len(old) - Len(new) ELSE 0
      /\ \A i \in 1 .. Len(tail) : tail[i] = old[Len(new) + i]
  <2>1. /\ tail \in Seq(Nat)
        /\ Len(tail) = IF Len(new) + 1 <= Len(old)
                       THEN Len(old) - (Len(new) + 1) + 1 ELSE 0
        /\ \A i \in 1 .. Len(old) - (Len(new) + 1) + 1 :
             tail[i] = old[(Len(new) + 1) + i - 1]
    BY <1>1, <1>2, SubSeqProperties
  <2> HIDE DEF tail
  <2>2. Len(tail) = IF Len(new) < Len(old) THEN Len(old) - Len(new) ELSE 0
    BY <1>1, <2>1
  <2>3. ASSUME NEW i \in 1 .. Len(tail) PROVE tail[i] = old[Len(new) + i]
    <3>1. i \in 1 .. Len(old) - (Len(new) + 1) + 1
      BY <1>1, <2>2
    <3>2. (Len(new) + 1) + i - 1 = Len(new) + i
      BY <1>1
    <3> QED BY <2>1, <3>1, <3>2
  <2> QED BY <2>1, <2>2, <2>3
<1> HIDE DEF tail
<1>4. /\ new \o tail \in Seq(Nat)
      /\ Len(new \o tail) = Len(new) + Len(tail)
      /\ \A c \in 1 .. Len(new) + Len(tail) : (new \o tail)[c] =
           IF c <= Len(new) THEN new[c] ELSE tail[c - Len(new)]
  BY <1>3, ConcatProperties
<1>5. Overlay(old, new) = new \o tail
  BY DEF Overlay, tail
<1>6. ASSUME NEW c \in 1 .. Len(new \o tail)
      PROVE  (new \o tail)[c] = IF c <= Len(new) THEN new[c] ELSE old[c]
  <2>1. CASE c <= Len(new)
    BY <1>4, <2>1
  <2>2. CASE c > Len(new)
    <3>1. c - Len(new) \in 1 .. Len(tail)
      BY <1>1, <1>3, <1>4, <2>2
    <3>2. tail[c - Len(new)] = old[Len(new) + (c - Len(new))]
      BY <1>3, <3>1
    <3>3. Len(new) + (c - Len(new)) = c
      BY <1>1
    <3> QED BY <1>1, <1>4, <2>2, <3>2, <3>3
  <2> QED BY <1>1, <2>1, <2>2
<1>7. Len(new \o tail) =
        IF Len(new) < Len(old) THEN Len(old) ELSE Len(new)
  BY <1>1, <1>3, <1>4
<1> QED BY <1>4, <1>5, <1>6, <1>7

\* The length and the values of a frame.
LEMMA FrameRange ==
  ASSUME NEW f, IsFrame(f)
  PROVE  /\ f \in Seq(Nat) /\ Len(f) \in 0 .. Channels
         /\ \A c \in 1 .. Len(f) : f[c] \in Nat
BY MonitorAssumption DEF IsFrame

\* What the new slot of the universe shows.
LEMMA WrittenSlot ==
  ASSUME IInv, WriteFrame
  PROVE  /\ rx.universe \in Universes /\ rx.payload \in Seq(Nat)
         /\ Len(rx.payload) \in 0 .. Channels
         /\ rx.capture \in 1 .. active
         /\ slots'[rx.universe].capture = rx.capture
         /\ IsFrame(slots'[rx.universe].frame)
         /\ slots'[rx.universe] # None
         /\ LET old == Kept(slots[rx.universe], rx.capture)
                new == slots'[rx.universe].frame
            IN  /\ IsFrame(old)
                /\ Len(new) = IF Len(rx.payload) < Len(old) THEN Len(old)
                              ELSE Len(rx.payload)
                /\ \A c \in 1 .. Len(new) :
                     new[c] = IF c <= Len(rx.payload) THEN rx.payload[c]
                              ELSE old[c]
<1> DEFINE u == rx.universe
           old == Kept(slots[u], rx.capture)
           new == Overlay(old, rx.payload)
<1>1. u \in Universes /\ rx.payload \in Payloads /\ rx.capture \in 1 .. active
  BY DEF IInv, TypeOK, Carried, WriteFrame
<1>2. rx.payload \in Seq(Nat) /\ Len(rx.payload) \in 0 .. Channels
  BY <1>1, MonitorAssumption
<1>3. IsFrame(old)
  <2>1. CASE slots[u] # None /\ slots[u].capture = rx.capture
    BY <1>1, <2>1 DEF IInv, TypeOK, Kept
  <2>2. CASE ~(slots[u] # None /\ slots[u].capture = rx.capture)
    <3>1. old = <<>>
      BY <2>2 DEF Kept
    <3> QED BY <3>1, MonitorAssumption DEF IsFrame
  <2> QED BY <2>1, <2>2
<1>4. old \in Seq(Nat) /\ Len(old) \in 0 .. Channels
  BY <1>3, FrameRange
<1>5. /\ new \in Seq(Nat)
      /\ Len(new) = IF Len(rx.payload) < Len(old) THEN Len(old)
                    ELSE Len(rx.payload)
      /\ \A c \in 1 .. Len(new) :
           new[c] = IF c <= Len(rx.payload) THEN rx.payload[c] ELSE old[c]
  BY <1>2, <1>4, OverlayShows
<1>6. IsFrame(new)
  BY <1>2, <1>4, <1>5 DEF IsFrame
<1>7. slots'[u] = [capture |-> rx.capture, frame |-> new]
  <2>1. slots' = [slots EXCEPT ![u] =
                   [capture |-> rx.capture, frame |-> new]]
    BY DEF WriteFrame
  <2>2. u \in DOMAIN slots
    BY <1>1 DEF IInv, TypeOK
  <2> QED BY <2>1, <2>2
<1>8. slots'[u].capture = rx.capture /\ slots'[u].frame = new
  BY <1>7
<1>9. slots'[u] # None
  <2>1. rx.capture \in Nat
    BY <1>1 DEF IInv, TypeOK
  <2>2. slots'[u] \in Slot
    BY <1>5, <1>7, <2>1 DEF Slot
  <2> QED BY <2>2, NoneAssumption
<1> HIDE DEF u, old, new
<1> QED BY <1>1, <1>2, <1>3, <1>5, <1>6, <1>8, <1>9 DEF u, old

-----------------------------------------------------------------------------
(* Every step keeps the invariant. *)

\* The invariant holds initially.
LEMMA InitInv == Init => IInv
<1> SUFFICES ASSUME Init PROVE IInv
  OBVIOUS
<1>1. TypeOK
  <2>1. rx.at = "stopped"
    BY DEF Init, At
  <2>2. /\ remaining \in 0 .. CapturesPerDrain
        /\ active \in Nat /\ session \in {0, active} /\ seen \in Nat
    BY MonitorAssumption DEF Init
  <2>3. /\ slots \in [Universes -> Slot \cup {None}]
        /\ \A u \in Universes : slots[u] = None
    BY DEF Init
  <2>4. packets \in [Universes -> Nat] /\ grid \in [1 .. Channels -> Nat]
    BY DEF Init
  <2>5. /\ running \in BOOLEAN /\ cooling \in BOOLEAN /\ visible \in BOOLEAN
        /\ ui \in {"idle", "begun", "shown", "fetching", "joining"}
        /\ buttons \subseteq Universes /\ selected \in Universes \cup {None}
    BY DEF Init
  <2> QED BY <2>1, <2>2, <2>3, <2>4, <2>5 DEF TypeOK
<1>2. HeardTyped
  BY DEF Init, HeardTyped
<1>3. HeardInSlot
  BY DEF Init, HeardInSlot
<1>4. Carried
  BY DEF Init, Carried, At
<1>5. FetchesSelected
  BY DEF Init, FetchesSelected
<1> QED BY <1>1, <1>2, <1>3, <1>4, <1>5 DEF IInv

\* What was heard and what the slots hold agree while neither changes.
LEMMA HeardUntouched ==
  ASSUME IInv, UNCHANGED <<slots, heard>>
  PROVE  HeardTyped' /\ HeardInSlot'
BY DEF IInv, HeardTyped, HeardInSlot

\* A step of the RX thread that takes no capture and writes nothing.
LEMMA RxQuietInv ==
  ASSUME IInv,
         \/ Wake \/ Loop \/ EndDrain \/ LeaveLoop \/ Skip
         \/ \E u \in Universes, p \in Payloads : Observe(u, p),
         UNCHANGED <<cooling, running, session, active, ui, windowVars>>
  PROVE  IInv'
<1>1. UNCHANGED <<slots, heard>>
  BY DEF Wake, Loop, EndDrain, LeaveLoop, Skip, Observe
<1>2. HeardTyped' /\ HeardInSlot'
  BY <1>1, HeardUntouched
<1>3. /\ rx'.at \in {"stopped", "waiting", "looping", "reading", "observed"}
      /\ rx'.at = "observed" =>
           rx'.universe \in Universes /\ rx'.payload \in Payloads
  BY DEF Wake, Loop, EndDrain, LeaveLoop, Skip, Observe, At
<1>4. remaining' \in 0 .. CapturesPerDrain
  BY MonitorAssumption
  DEF IInv, TypeOK, Wake, Loop, EndDrain, LeaveLoop, Skip, Observe
<1>5. packets' \in [Universes -> Nat]
  BY DEF IInv, TypeOK, Wake, Loop, EndDrain, LeaveLoop, Skip, Observe
<1>6. TypeOK'
  BY <1>1, <1>3, <1>4, <1>5 DEF IInv, TypeOK, windowVars, IsFrame
<1>7. Carried'
  BY <1>3 DEF Carried
<1>8. FetchesSelected'
  BY DEF IInv, FetchesSelected, windowVars
<1> QED BY <1>2, <1>6, <1>7, <1>8 DEF IInv

\* The RX thread reads the session and takes one of the budget.
LEMMA AcquireInv ==
  ASSUME IInv, Acquire, UNCHANGED <<running, session, active, ui, windowVars>>
  PROVE  IInv'
<1>1. UNCHANGED <<slots, heard>>
  BY DEF Acquire
<1>2. HeardTyped' /\ HeardInSlot'
  BY <1>1, HeardUntouched
<1>3. /\ rx' = [at |-> "writing", universe |-> rx.universe,
                payload |-> rx.payload, capture |-> session]
      /\ rx.universe \in Universes /\ rx.payload \in Payloads
  BY DEF IInv, TypeOK, Acquire
<1>4. session = active /\ active \in Nat \ {0}
  BY DEF IInv, TypeOK, Acquire, MayCapture
<1>5. remaining' \in 0 .. CapturesPerDrain
  BY MonitorAssumption DEF IInv, TypeOK, Acquire, MayCapture
<1>6. TypeOK'
  BY <1>1, <1>3, <1>5 DEF IInv, TypeOK, Acquire, windowVars, IsFrame
<1>7. Carried'
  <2>1. rx'.capture = active'
    BY <1>3, <1>4
  <2>2. \A u \in Universes : slots'[u] # None => slots'[u].capture <= active
    BY <1>1 DEF IInv, TypeOK
  <2> QED BY <1>4, <2>1, <2>2 DEF Carried
<1>8. FetchesSelected'
  BY DEF IInv, FetchesSelected, windowVars
<1> QED BY <1>2, <1>6, <1>7, <1>8 DEF IInv

\* The RX thread writes the payload.
LEMMA WriteFrameInv ==
  ASSUME IInv, WriteFrame,
         UNCHANGED <<cooling, running, session, active, ui, windowVars>>
  PROVE  IInv'
<1> DEFINE u == rx.universe
           old == Kept(slots[u], rx.capture)
<1>1. /\ u \in Universes
      /\ rx.payload \in Seq(Nat) /\ Len(rx.payload) \in 0 .. Channels
      /\ rx.capture \in 1 .. active
      /\ slots'[u].capture = rx.capture
      /\ IsFrame(slots'[u].frame)
      /\ slots'[u] # None
      /\ IsFrame(old)
      /\ Len(slots'[u].frame) =
           IF Len(rx.payload) < Len(old) THEN Len(old) ELSE Len(rx.payload)
      /\ \A c \in 1 .. Len(slots'[u].frame) : slots'[u].frame[c] =
           IF c <= Len(rx.payload) THEN rx.payload[c] ELSE old[c]
  BY WrittenSlot
<1>2. active \in Nat /\ rx.capture \in Nat
  BY <1>1 DEF IInv, TypeOK
<1>3. \A w \in Universes \ {u} :
        slots'[w] = slots[w] /\ heard'[w] = heard[w]
  BY DEF WriteFrame, IInv, TypeOK, HeardTyped
<1>4. \A c \in 1 .. Channels : heard'[u][c] =
        IF c <= Len(rx.payload)
        THEN [capture |-> rx.capture, value |-> rx.payload[c]]
        ELSE heard[u][c]
  BY <1>1 DEF WriteFrame, IInv, HeardTyped
<1>5. ASSUME NEW c \in 1 .. Channels, c <= Len(rx.payload)
      PROVE  /\ heard'[u][c] =
                  [capture |-> rx.capture, value |-> rx.payload[c]]
             /\ rx.payload[c] \in Nat
  <2>1. heard'[u][c] = [capture |-> rx.capture, value |-> rx.payload[c]]
    BY <1>4, <1>5
  <2>2. c \in 1 .. Len(rx.payload)
    BY <1>1, <1>5
  <2> QED BY <1>1, <2>1, <2>2
<1>6. HeardTyped'
  <2>1. DOMAIN heard' = Universes /\ heard' = [w \in Universes |-> heard'[w]]
    BY DEF WriteFrame, IInv, HeardTyped
  <2>2. heard'[u] = [c \in 1 .. Channels |->
          IF c <= Len(rx.payload)
          THEN [capture |-> rx.capture, value |-> rx.payload[c]]
          ELSE heard[u][c]]
    BY <1>1 DEF WriteFrame, IInv, HeardTyped
  <2>3. ASSUME NEW c \in 1 .. Channels
        PROVE  heard'[u][c] \in [capture: Nat, value: Nat]
    <3>1. CASE c <= Len(rx.payload)
      <4>1. /\ heard'[u][c] =
                 [capture |-> rx.capture, value |-> rx.payload[c]]
            /\ rx.payload[c] \in Nat
        BY <1>5, <3>1
      <4> QED BY <1>2, <4>1
    <3>2. CASE ~(c <= Len(rx.payload))
      BY <1>1, <1>4, <3>2 DEF IInv, HeardTyped
    <3> QED BY <3>1, <3>2
  <2>4. heard'[u] \in [1 .. Channels -> [capture: Nat, value: Nat]]
    BY <2>2, <2>3
  <2>5. ASSUME NEW w \in Universes
        PROVE  heard'[w] \in [1 .. Channels -> [capture: Nat, value: Nat]]
    BY <1>3, <2>4 DEF IInv, HeardTyped
  <2> QED BY <2>1, <2>5 DEF HeardTyped
<1>7. HeardInSlot'
  <2> SUFFICES ASSUME NEW w \in Universes, NEW c \in 1 .. Channels
               PROVE  IF slots'[w] = None THEN heard'[w][c].capture = 0
                      ELSE /\ heard'[w][c].capture <= slots'[w].capture
                           /\ c <= Len(slots'[w].frame) <=>
                                heard'[w][c].capture = slots'[w].capture
                           /\ c <= Len(slots'[w].frame) =>
                                slots'[w].frame[c] = heard'[w][c].value
    BY DEF HeardInSlot
  <2>1. CASE w # u
    BY <1>3, <2>1 DEF IInv, HeardInSlot
  <2>2. CASE w = u
    <3>1. /\ Len(old) \in Nat /\ Len(rx.payload) \in Nat
          /\ Len(slots'[u].frame) \in Nat
      BY <1>1, FrameRange
    <3>2. CASE c <= Len(rx.payload)
      <4>1. c <= Len(slots'[u].frame)
        BY <1>1, <3>1, <3>2
      <4>2. /\ heard'[u][c].capture = rx.capture
            /\ heard'[u][c].value = rx.payload[c]
        <5>1. heard'[u][c] =
                [capture |-> rx.capture, value |-> rx.payload[c]]
          BY <1>5, <3>2
        <5> QED BY <5>1
      <4>3. slots'[u].frame[c] = rx.payload[c]
        BY <1>1, <3>1, <3>2, <4>1
      <4> QED BY <1>1, <1>2, <2>2, <4>1, <4>2, <4>3
    <3>3. CASE ~(c <= Len(rx.payload))
      <4>1. heard'[u][c] = heard[u][c] /\ heard[u][c].capture \in Nat
        BY <1>1, <1>4, <3>3 DEF IInv, HeardTyped
      <4>2. c <= Len(slots'[u].frame) <=> c <= Len(old)
        BY <1>1, <3>1, <3>3
      <4>3. c <= Len(old) => slots'[u].frame[c] = old[c]
        BY <1>1, <3>1, <3>3, <4>2
      <4>4. CASE slots[u] # None /\ slots[u].capture = rx.capture
        <5>1. old = slots[u].frame
          BY <4>4 DEF Kept
        <5>2. /\ heard[u][c].capture <= slots[u].capture
              /\ c <= Len(slots[u].frame) <=>
                   heard[u][c].capture = slots[u].capture
              /\ c <= Len(slots[u].frame) =>
                   slots[u].frame[c] = heard[u][c].value
          BY <1>1, <4>4 DEF IInv, HeardInSlot
        <5> HIDE DEF old
        <5> QED BY <1>1, <2>2, <4>1, <4>2, <4>3, <4>4, <5>1, <5>2
      <4>5. CASE ~(slots[u] # None /\ slots[u].capture = rx.capture)
        <5>1. old = <<>>
          BY <4>5 DEF Kept
        <5>2. ~(c <= Len(old))
          BY <5>1
        <5>3. heard[u][c].capture < rx.capture
          <6>1. CASE slots[u] = None
            BY <1>1, <1>2, <6>1 DEF IInv, HeardInSlot
          <6>2. CASE slots[u] # None
            <7>1. slots[u].capture \in Nat /\ slots[u].capture < rx.capture
              BY <1>1, <1>2, <4>5, <6>2
              DEF IInv, TypeOK, Carried, WriteFrame
            <7>2. heard[u][c].capture <= slots[u].capture
              BY <1>1, <6>2 DEF IInv, HeardInSlot
            <7> QED BY <1>2, <4>1, <7>1, <7>2
          <6> QED BY <6>1, <6>2
        <5> HIDE DEF old
        <5> QED BY <1>1, <1>2, <2>2, <4>1, <4>2, <5>2, <5>3
      <4> QED BY <4>4, <4>5
    <3> QED BY <3>2, <3>3
  <2> QED BY <2>1, <2>2
<1>8. TypeOK'
  <2>1. slots' \in [Universes -> Slot \cup {None}]
    <3>1. slots'[u] \in Slot
      BY <1>1, <1>2 DEF WriteFrame, IInv, TypeOK, IsFrame, Slot
    <3> QED BY <3>1 DEF WriteFrame, IInv, TypeOK
  <2>2. \A w \in Universes : slots'[w] # None =>
          slots'[w].capture \in 1 .. active' /\ IsFrame(slots'[w].frame)
    <3> SUFFICES ASSUME NEW w \in Universes, slots'[w] # None
                 PROVE  /\ slots'[w].capture \in 1 .. active'
                        /\ IsFrame(slots'[w].frame)
      OBVIOUS
    <3>1. CASE w = u
      BY <1>1, <3>1
    <3>2. CASE w # u
      BY <1>3, <3>2 DEF IInv, TypeOK
    <3> QED BY <3>1, <3>2
  <2> QED BY <2>1, <2>2 DEF IInv, TypeOK, WriteFrame, At, windowVars, IsFrame
<1>9. Carried' /\ FetchesSelected'
  BY DEF IInv, Carried, FetchesSelected, WriteFrame, At, windowVars
<1> QED BY <1>6, <1>7, <1>8, <1>9 DEF IInv

\* The interval of the budget passes.
LEMMA ElapseInv ==
  ASSUME IInv, Elapse
  PROVE  IInv'
<1>1. UNCHANGED <<running, session, active, ui, rx, remaining, packets,
                  slots, heard, visible, buttons, selected, seen, grid>>
      /\ cooling' \in BOOLEAN
  BY DEF Elapse, rxVars, windowVars
<1>2. TypeOK'
  BY <1>1 DEF IInv, TypeOK, IsFrame
<1>3. Carried' /\ FetchesSelected'
  BY <1>1 DEF IInv, Carried, FetchesSelected
<1> QED BY <1>1, <1>2, <1>3, HeardUntouched DEF IInv

\* The receiver starts; no write is in flight, the RX thread is new.
LEMMA StartReceiverInv ==
  ASSUME IInv, StartReceiver
  PROVE  IInv'
<1>1. rx'.at = "waiting"
  BY DEF StartReceiver, At
<1>2. TypeOK'
  BY <1>1 DEF IInv, TypeOK, StartReceiver, windowVars, IsFrame
<1>3. Carried' /\ FetchesSelected'
  BY <1>1 DEF IInv, Carried, FetchesSelected, StartReceiver, windowVars
<1> QED BY <1>2, <1>3, HeardUntouched DEF IInv, StartReceiver

\* Steps of the main thread that open no capture and leave the RX thread and
\* its objects alone.
LEMMA WindowInv ==
  ASSUME IInv, UNCHANGED <<active, cooling, rxVars>>,
         running' \in BOOLEAN, visible' \in BOOLEAN, session' \in {0, active},
         ui' \in {"idle", "shown", "fetching", "joining"},
         buttons' \subseteq Universes, selected' \in Universes \cup {None},
         seen' \in Nat, grid' \in [1 .. Channels -> Nat],
         ui' = "fetching" => selected' # None
  PROVE  IInv'
<1>1. UNCHANGED <<rx, remaining, packets, slots, heard>>
  BY DEF rxVars
<1>2. TypeOK'
  BY <1>1 DEF IInv, TypeOK, IsFrame
<1>3. Carried' /\ FetchesSelected'
  BY <1>1 DEF IInv, Carried, FetchesSelected
<1> QED BY <1>1, <1>2, <1>3, HeardUntouched DEF IInv

\* A capture begins: every slot is of an earlier one.
LEMMA BeginInv ==
  ASSUME IInv, Press
  PROVE  /\ IInv'
         /\ active' # active => \A u \in Universes : Frame(u)' = <<>>
<1>1. CASE session # 0 /\ visible' = TRUE /\ ui' = "shown"
           /\ UNCHANGED active
  <2>1. UNCHANGED <<active, cooling, rxVars, running, session, buttons,
                    selected, seen, grid>>
    BY <1>1 DEF Press
  <2>2. /\ running \in BOOLEAN /\ session \in {0, active}
        /\ buttons \subseteq Universes /\ selected \in Universes \cup {None}
        /\ seen \in Nat /\ grid \in [1 .. Channels -> Nat]
    BY DEF IInv, TypeOK
  <2>3. IInv'
    BY <1>1, <2>1, <2>2, WindowInv
  <2> QED BY <1>1, <2>3
<1>2. CASE session = 0 /\ active' = active + 1 /\ ui' = "begun"
           /\ UNCHANGED visible
  <2>1. UNCHANGED <<running, session, cooling, rx, remaining, packets, slots,
                    heard, buttons, selected, seen, grid>>
    BY DEF Press, rxVars
  <2>2. active \in Nat
    BY DEF IInv, TypeOK
  <2>3. \A u \in Universes : slots[u] # None =>
          slots[u].capture \in 1 .. active /\ IsFrame(slots[u].frame)
    BY DEF IInv, TypeOK
  <2>4. TypeOK'
    BY <1>2, <2>1, <2>2, <2>3 DEF IInv, TypeOK, IsFrame
  <2>5. Carried' /\ FetchesSelected'
    BY <1>2, <2>1, <2>2 DEF IInv, Carried, FetchesSelected
  <2>6. \A u \in Universes : Frame(u)' = <<>>
    BY <1>2, <2>1, <2>2, <2>3 DEF Frame
  <2> QED BY <2>1, <2>4, <2>5, <2>6, HeardUntouched DEF IInv
<1> QED BY <1>1, <1>2 DEF Press

\* The window's read of its universe.
LEMMA FetchInv ==
  ASSUME IInv, Fetch
  PROVE  IInv'
<1>1. /\ selected \in Universes /\ ui' = "idle"
      /\ running \in BOOLEAN /\ visible \in BOOLEAN /\ session \in {0, active}
      /\ buttons \subseteq Universes /\ seen \in Nat
  BY DEF IInv, TypeOK, FetchesSelected, Fetch
<1>2. UNCHANGED <<active, cooling, rxVars, running, session, visible, buttons,
                  selected, seen>>
  BY DEF Fetch
<1>3. IsFrame(Frame(selected))
  BY <1>1, MonitorAssumption DEF IInv, TypeOK, Frame, IsFrame
<1>4. ASSUME NEW c \in 1 .. Channels
      PROVE  (IF c <= Len(Frame(selected)) THEN Frame(selected)[c] ELSE 0)
               \in Nat
  <2>1. CASE c <= Len(Frame(selected))
    <3>1. c \in 1 .. Len(Frame(selected))
      BY <1>3, <2>1, FrameRange
    <3>2. Frame(selected)[c] \in Nat
      BY <1>3, <3>1, FrameRange
    <3> QED BY <2>1, <3>2
  <2>2. CASE ~(c <= Len(Frame(selected)))
    BY <2>2
  <2> QED BY <2>1, <2>2
<1>5. grid' \in [1 .. Channels -> Nat]
  BY <1>4 DEF Fetch
<1> QED BY <1>1, <1>2, <1>5, WindowInv

\* Every step of the main thread.
LEMMA MainInv ==
  ASSUME IInv, Main
  PROVE  IInv'
<1>1. /\ running \in BOOLEAN /\ visible \in BOOLEAN /\ session \in {0, active}
      /\ ui \in {"idle", "begun", "shown", "fetching", "joining"}
      /\ buttons \subseteq Universes /\ selected \in Universes \cup {None}
      /\ seen \in Nat /\ grid \in [1 .. Channels -> Nat]
      /\ packets \in [Universes -> Nat]
  BY DEF IInv, TypeOK
<1>2. CASE StopReceiver
  BY <1>1, <1>2, WindowInv DEF StopReceiver, windowVars
<1>3. CASE Join
  BY <1>1, <1>3, WindowInv DEF Join, windowVars
<1>4. CASE Publish
  BY <1>1, <1>4, WindowInv DEF Publish
<1>5. CASE Close
  BY <1>1, <1>5, WindowInv DEF Close
<1>6. CASE RefreshOff
  BY <1>1, <1>6, WindowInv DEF RefreshOff, windowVars
<1>7. ASSUME NEW u \in Universes, Select(u) PROVE IInv'
  BY <1>1, <1>7, WindowInv DEF Select
<1>8. ASSUME NEW recent \in SUBSET {u \in Universes : packets[u] > 0},
             Refresh(recent)
      PROVE  IInv'
  <2>1. selected' \in Universes \cup {None} /\ buttons' \subseteq Universes
    BY <1>1, <1>8 DEF Refresh
  <2>2. /\ seen' \in Nat /\ ui' \in {"idle", "fetching"}
        /\ ui' = "fetching" => selected' # None
    BY <1>1, <1>8, <2>1 DEF Refresh
  <2>3. UNCHANGED <<active, cooling, rxVars, running, session, visible, grid>>
    BY <1>8 DEF Refresh
  <2> QED BY <1>1, <2>1, <2>2, <2>3, WindowInv
<1> QED BY <1>2, <1>3, <1>4, <1>5, <1>6, <1>7, <1>8, StartReceiverInv,
           BeginInv, FetchInv DEF Main

\* Every step keeps the invariant.
LEMMA StepInv == IInv /\ [Next]_vars => IInv'
<1> SUFFICES ASSUME IInv, [Next]_vars PROVE IInv'
  OBVIOUS
<1>1. CASE Rx
  BY <1>1, AcquireInv, WriteFrameInv, RxQuietInv DEF Rx
<1>2. CASE Elapse
  BY <1>2, ElapseInv
<1>3. CASE Main
  BY <1>3, MainInv
<1>4. CASE UNCHANGED vars
  <2>1. UNCHANGED <<running, session, active, ui, cooling, rxVars, visible,
                    buttons, selected, seen, grid>>
    BY <1>4 DEF vars, windowVars
  <2>2. UNCHANGED <<rx, remaining, packets, slots, heard>>
    BY <2>1 DEF rxVars
  <2>3. TypeOK'
    BY <2>1, <2>2 DEF IInv, TypeOK, IsFrame
  <2>4. Carried' /\ FetchesSelected'
    BY <2>1, <2>2 DEF IInv, Carried, FetchesSelected
  <2> QED BY <2>2, <2>3, <2>4, HeardUntouched DEF IInv
<1> QED BY <1>1, <1>2, <1>3, <1>4 DEF Next

-----------------------------------------------------------------------------
(* Theorems. *)

\* A slot always shows what its capture heard, and the RX thread never writes
\* an older capture over a newer one (dmx_universe_cache.cpp:31-75).
THEOREM MonitorInvariant == Spec => []IInv
BY InitInv, StepInv, PTL DEF Spec

\* Types, for every allowance and all payloads.
THEOREM MonitorTypeCorrect == Spec => []TypeOK
<1>1. IInv => TypeOK
  BY DEF IInv
<1> QED BY <1>1, MonitorInvariant, PTL

\* The monitor shows, channel for channel, what the current capture heard
\* last and nothing else (dmx_universe_cache.cpp:51-62, 91).
THEOREM MonitorAlwaysShowsCaptured == Spec => []MonitorShowsCaptured
<1>1. IInv => MonitorShowsCaptured
  <2> SUFFICES ASSUME IInv, NEW u \in Universes, NEW c \in 1 .. Channels
               PROVE  LET captured ==
                            active # 0 /\ heard[u][c].capture = active
                      IN  /\ c <= Len(Frame(u)) <=> captured
                          /\ captured => Frame(u)[c] = heard[u][c].value
    BY DEF MonitorShowsCaptured
  <2>1. active \in Nat /\ heard[u][c].capture \in Nat
    BY DEF IInv, TypeOK, HeardTyped
  <2>2. CASE slots[u] = None
    <3>1. ~(c <= Len(Frame(u)))
      BY <2>2 DEF Frame
    <3> QED BY <2>2, <3>1 DEF IInv, HeardInSlot
  <2>3. CASE slots[u] # None /\ slots[u].capture # active
    <3>1. ~(c <= Len(Frame(u)))
      BY <2>3 DEF Frame
    <3>2. slots[u].capture \in 1 .. active
      BY <2>3 DEF IInv, TypeOK
    <3>3. heard[u][c].capture <= slots[u].capture
      BY <2>3 DEF IInv, HeardInSlot
    <3> QED BY <2>1, <2>3, <3>1, <3>2, <3>3
  <2>4. CASE slots[u] # None /\ slots[u].capture = active
    <3>1. Frame(u) = slots[u].frame
      BY <2>4 DEF Frame
    <3>2. active # 0
      BY <2>1, <2>4 DEF IInv, TypeOK
    <3> QED BY <2>4, <3>1, <3>2 DEF IInv, HeardInSlot
  <2> QED BY <2>2, <2>3, <2>4
<1> QED BY <1>1, MonitorInvariant, PTL

\* Opening the monitor hides every earlier payload at once
\* (docs/realtime-dmx-runtime.md:23).
THEOREM OpeningAlwaysHidesEarlier == Spec => OpeningHidesEarlier
<1>1. ASSUME IInv, [Next]_vars
      PROVE  [active' # active =>
                \A u \in Universes : Frame(u)' = <<>>]_vars
  <2>1. CASE Press
    BY <1>1, <2>1, BeginInv
  <2>2. ASSUME ~Press, Next PROVE UNCHANGED active
    BY <2>2 DEF Next, Rx, Elapse, Main, StartReceiver, StopReceiver, Join,
       Publish, Close, Fetch, RefreshOff, Select, Refresh
  <2> QED BY <1>1, <2>1, <2>2
<1> QED BY <1>1, MonitorInvariant, PTL DEF Spec, OpeningHidesEarlier
=============================================================================
