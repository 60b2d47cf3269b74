-------------------------- MODULE TechnicalMonitor --------------------------
(***************************************************************************)
(* The payload capture of the Technical Monitor: the RX thread's drain     *)
(* loop (native/src/dmx/artnet_receiver.cpp), the capture budget, the      *)
(* universe cache, the packet count of the metadata cache and the monitor  *)
(* window on the main thread (scripts/dmx_monitor_window.gd).              *)
(*                                                                         *)
(* RX thread: one step for each object it touches on the way of a datagram *)
(* - the metadata, the capture session with the budget, the cache. The     *)
(* datagrams are the valid ones that ArtNetSequenceTracker accepts; what   *)
(* they do to the scene mailbox is RealtimeMailbox.                        *)
(* Main thread: ui says where it stands within a handler; handlers do not  *)
(* interleave with each other, only with the RX thread.                    *)
(*                                                                         *)
(* write_frame and try_get_frame hold frame_mutex, so a slot is one value. *)
(* Its counter, dirty mark, hash and times are left out: the window reads  *)
(* the metadata's count, whose content_hash is always 0.                   *)
(***************************************************************************)
EXTENDS Integers, Sequences

CONSTANTS
  Universes,         \* universe ids
  Payloads,          \* DMX payloads, sequences of slot values
  Channels,          \* cells of the window's grid, 512 in the code
  CapturesPerDrain,  \* captures_per_drain
  None,              \* no slot, no universe
  MaxPackets,        \* bound: packets of one universe
  MaxCaptures        \* bound: capture sessions

ASSUME MonitorAssumption ==
  /\ Channels \in Nat /\ CapturesPerDrain \in Nat
  /\ MaxPackets \in Nat /\ MaxCaptures \in Nat
  /\ Payloads \subseteq {p \in Seq(Nat) : Len(p) <= Channels}

Slot == [capture: Nat, frame: Seq(Nat)]
ASSUME NoneAssumption == None \notin Universes \cup Slot

VARIABLES
  running,     \* running_
  rx,          \* the RX thread: where it stands and what it carries
  remaining,   \* remaining_ of the capture budget
  cooling,     \* now_us < next_capture_us_
  packets,     \* packets per universe in the metadata cache
  session,     \* monitor_capture_session_, 0 when closed
  active,      \* active_capture_generation_
  slots,       \* slots_ of the universe cache
  ui,          \* the main thread within a handler
  visible,     \* the window is shown
  buttons,     \* universes the window has a button for
  selected,    \* _selected_universe
  seen,        \* _last_selected_counter, 0 before the first
  grid,        \* _channel_values
  gridOf,      \* history: universe and capture the grid was read from
  heard        \* history: per universe and channel, the value captured last

rxVars == <<rx, remaining, packets, slots, heard>>
windowVars == <<visible, buttons, selected, seen, grid, gridOf>>
vars == <<running, session, active, ui, cooling, rxVars, windowVars>>

At(place) == [at |-> place]
Nowhere == [universe |-> None, capture |-> 0]

Init ==
  /\ running = FALSE
  /\ rx = At("stopped")
  /\ remaining = CapturesPerDrain
  /\ cooling = FALSE
  /\ packets = [u \in Universes |-> 0]
  /\ session = 0 /\ active = 0
  /\ slots = [u \in Universes |-> None]
  /\ ui = "idle"
  /\ visible = FALSE
  /\ buttons = {}
  /\ selected = None
  /\ seen = 0
  /\ grid = [c \in 1 .. Channels |-> 0]
  /\ gridOf = Nowhere
  /\ heard = [u \in Universes |-> [c \in 1 .. Channels |->
                [capture |-> 0, value |-> 0]]]

-----------------------------------------------------------------------------
(* RX thread: ArtNetReceiver::run. *)

\* The wait ends with a readable socket: a drain begins with a new allowance.
Wake ==
  /\ rx.at = "waiting"
  /\ remaining' = CapturesPerDrain
  /\ rx' = At("looping")
  /\ UNCHANGED <<packets, slots, heard>>

\* The drain goes on while the receiver runs.
Loop ==
  /\ rx.at = "looping"
  /\ rx' = At(IF running THEN "reading" ELSE "stopped")
  /\ UNCHANGED <<remaining, packets, slots, heard>>

\* Nothing left to read, or the socket is closed.
EndDrain ==
  /\ rx.at = "reading"
  /\ rx' = At("waiting")
  /\ UNCHANGED <<remaining, packets, slots, heard>>

\* The wait ends without data in a receiver that was stopped.
LeaveLoop ==
  /\ rx.at = "waiting" /\ ~running
  /\ rx' = At("stopped")
  /\ UNCHANGED <<remaining, packets, slots, heard>>

\* A datagram is accepted and counted.
Observe(u, p) ==
  /\ rx.at = "reading"
  /\ packets[u] < MaxPackets
  /\ packets' = [packets EXCEPT ![u] = @ + 1]
  /\ rx' = [at |-> "observed", universe |-> u, payload |-> p]
  /\ UNCHANGED <<remaining, slots, heard>>

MayCapture == session # 0 /\ remaining > 0 /\ ~cooling

\* The session is read and the budget has room.
Acquire ==
  /\ rx.at = "observed" /\ MayCapture
  /\ remaining' = remaining - 1
  /\ cooling' = TRUE
  /\ rx' = [at |-> "writing", universe |-> rx.universe,
            payload |-> rx.payload, capture |-> session]
  /\ UNCHANGED <<packets, slots, heard>>

\* The monitor is closed or the budget spent.
Skip ==
  /\ rx.at = "observed" /\ ~MayCapture
  /\ rx' = At("looping")
  /\ UNCHANGED <<remaining, packets, slots, heard>>

Overlay(old, new) == new \o SubSeq(old, Len(new) + 1, Len(old))

MutKeptOfAnyCapture(slot, capture) ==
  IF slot # None THEN slot.frame ELSE <<>>

\* What a write leaves of the slot before it: its frame when it belongs to
\* the same capture, else nothing.
Kept(slot, capture) ==
  IF slot # None /\ slot.capture = capture THEN slot.frame ELSE <<>>

WriteFrame ==
  /\ rx.at = "writing"
  /\ slots' = [slots EXCEPT ![rx.universe] =
       [capture |-> rx.capture,
        frame |-> Overlay(Kept(@, rx.capture), rx.payload)]]
  /\ heard' = [heard EXCEPT ![rx.universe] = [c \in 1 .. Channels |->
       IF c <= Len(rx.payload)
       THEN [capture |-> rx.capture, value |-> rx.payload[c]] ELSE @[c]]]
  /\ rx' = At("looping")
  /\ UNCHANGED <<remaining, packets>>

Rx ==
  /\ \/ Acquire
     \/ /\ UNCHANGED cooling
        /\ \/ Wake \/ Loop \/ EndDrain \/ LeaveLoop \/ Skip \/ WriteFrame
           \/ \E u \in Universes, p \in Payloads : Observe(u, p)
  /\ UNCHANGED <<running, session, active, ui, windowVars>>

\* minimum_interval_us passes after a capture.
Elapse ==
  /\ cooling
  /\ cooling' = FALSE
  /\ UNCHANGED <<running, session, active, ui, rxVars, windowVars>>

-----------------------------------------------------------------------------
(* Main thread: the receiver's lifecycle and the monitor window. *)

StartReceiver ==
  /\ ui = "idle" /\ ~running
  /\ running' = TRUE
  /\ rx' = At("waiting")
  /\ UNCHANGED <<session, active, ui, cooling, remaining, packets, slots,
                 heard, windowVars>>

\* stop closes the socket and joins the RX thread.
StopReceiver ==
  /\ ui = "idle" /\ running
  /\ running' = FALSE
  /\ ui' = "joining"
  /\ UNCHANGED <<session, active, cooling, rxVars, windowVars>>

Join ==
  /\ ui = "joining" /\ rx.at = "stopped"
  /\ ui' = "idle"
  /\ UNCHANGED <<running, session, active, cooling, rxVars, windowVars>>

\* The monitor button: begin_capture_session unless a session is open.
Press ==
  /\ ui = "idle"
  /\ \/ /\ session = 0 /\ active < MaxCaptures
        /\ active' = active + 1
        /\ ui' = "begun"
        /\ UNCHANGED visible
     \/ /\ session # 0
        /\ visible' = TRUE
        /\ ui' = "shown"
        /\ UNCHANGED active
  /\ UNCHANGED <<running, session, cooling, rxVars, buttons, selected, seen,
                 grid, gridOf>>

\* The new session is published to the RX thread and the window pops up.
Publish ==
  /\ ui = "begun"
  /\ session' = active
  /\ visible' = TRUE
  /\ ui' = "shown"
  /\ UNCHANGED <<running, active, cooling, rxVars, buttons, selected, seen,
                 grid, gridOf>>

Close ==
  /\ ui = "idle" /\ visible
  /\ session' = 0
  /\ visible' = FALSE
  /\ UNCHANGED <<running, active, ui, cooling, rxVars, buttons, selected,
                 seen, grid, gridOf>>

Select(u) ==
  /\ ui = "idle" /\ visible /\ u \in buttons
  /\ selected' = u
  /\ UNCHANGED <<running, session, active, ui, cooling, rxVars, visible,
                 buttons, seen, grid, gridOf>>

\* refresh before its read of the data. recent are the universes with
\* packets in the last two seconds.
Refresh(recent) ==
  /\ ui \in {"idle", "shown"} /\ visible /\ running
  /\ buttons' = buttons \cup recent
  /\ selected' \in IF selected = None /\ recent # {} THEN recent
                   ELSE {selected}
  /\ IF selected' # None /\ packets[selected'] # seen
     THEN seen' = packets[selected'] /\ ui' = "fetching"
     ELSE seen' = seen /\ ui' = "idle"
  /\ UNCHANGED <<running, session, active, cooling, rxVars, visible, grid,
                 gridOf>>

\* refresh after the button was pressed while the receiver is off.
RefreshOff ==
  /\ ui = "shown" /\ ~running
  /\ ui' = "idle"
  /\ UNCHANGED <<running, session, active, cooling, rxVars, windowVars>>

MutFrameOfAnyCapture(u) == IF slots[u] # None THEN slots[u].frame ELSE <<>>

\* try_get_frame: only a slot of the current capture is shown.
Frame(u) ==
  IF slots[u] # None /\ slots[u].capture = active THEN slots[u].frame
  ELSE <<>>

\* refresh from get_universe_data on.
Fetch ==
  /\ ui = "fetching"
  /\ grid' = [c \in 1 .. Channels |->
       IF c <= Len(Frame(selected)) THEN Frame(selected)[c] ELSE 0]
  /\ gridOf' = [universe |-> selected, capture |-> active]
  /\ ui' = "idle"
  /\ UNCHANGED <<running, session, active, cooling, rxVars, visible, buttons,
                 selected, seen>>

Main ==
  \/ StartReceiver \/ StopReceiver \/ Join
  \/ Press \/ Publish \/ Close \/ Fetch \/ RefreshOff
  \/ \E u \in Universes : Select(u)
  \/ \E recent \in SUBSET {u \in Universes : packets[u] > 0} : Refresh(recent)

Next == Rx \/ Elapse \/ Main

Spec == Init /\ [][Next]_vars

-----------------------------------------------------------------------------
(* Properties. *)

IsFrame(f) == f \in Seq(Nat) /\ Len(f) <= Channels

\* Types; no slot is of a capture that has not begun, and an open session is
\* the newest capture.
TypeOK ==
  /\ running \in BOOLEAN /\ cooling \in BOOLEAN /\ visible \in BOOLEAN
  /\ rx.at \in {"stopped", "waiting", "looping", "reading", "observed",
                "writing"}
  /\ rx.at \in {"observed", "writing"} =>
       rx.universe \in Universes /\ rx.payload \in Payloads
  /\ remaining \in 0 .. CapturesPerDrain
  /\ packets \in [Universes -> Nat]
  /\ active \in Nat /\ session \in {0, active}
  /\ slots \in [Universes -> Slot \cup {None}]
  /\ \A u \in Universes : slots[u] # None =>
       slots[u].capture \in 1 .. active /\ IsFrame(slots[u].frame)
  /\ ui \in {"idle", "begun", "shown", "fetching", "joining"}
  /\ buttons \subseteq Universes /\ selected \in Universes \cup {None}
  /\ seen \in Nat /\ grid \in [1 .. Channels -> Nat]

\* What the monitor reads of a universe is, channel for channel, the value
\* captured last in the current capture, and nothing of a channel that this
\* capture has not heard: short packets keep the tail, a new capture keeps
\* nothing, a write that began in an earlier capture does not show
\* (dmx_universe_cache.cpp:31-75, 88-110).
MonitorShowsCaptured ==
  \A u \in Universes, c \in 1 .. Channels :
    LET captured == active # 0 /\ heard[u][c].capture = active
    IN  /\ c <= Len(Frame(u)) <=> captured
        /\ captured => Frame(u)[c] = heard[u][c].value

\* Opening the monitor makes every payload of earlier captures unavailable
\* at once, whatever the RX thread is writing
\* (docs/realtime-dmx-runtime.md:23).
OpeningHidesEarlier ==
  [][active' # active => \A u \in Universes : Frame(u)' = <<>>]_vars

\* While the window is shown and refreshed, the values in its grid were read
\* in this capture: "previous-session payloads immediately become unavailable,
\* and a universe appears only after a packet arrives in the new session"
\* (docs/realtime-dmx-runtime.md:23). The window skips the read when the
\* packet count of its universe is the one it saw before it was closed.
GridShowsNoEarlierCapture ==
  ( /\ ui = "idle" /\ visible /\ running
    /\ \E c \in 1 .. Channels : grid[c] # 0 ) => gridOf.capture = active
=============================================================================
