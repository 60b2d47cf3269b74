----------------------- MODULE ArtNetSequenceTracker -----------------------
(***************************************************************************)
(* ArtNetSequenceTracker: which ArtDmx datagrams the receiver takes        *)
(* (native/src/dmx/artnet_sequence_tracker.cpp), under the network it is   *)
(* written for.                                                            *)
(*                                                                         *)
(* A console numbers the datagrams of a universe; a datagram carries the   *)
(* number wrapped into 1..Cycle, or 0 when the console does not order it.  *)
(* The tracker sees only that byte and the endpoint. UDP may lose,         *)
(* duplicate and reorder: network holds every datagram ever sent, and any  *)
(* of them may be received next, any number of times or never. A console   *)
(* that restarts counts again from anywhere.                               *)
(*                                                                         *)
(* The tracker belongs to the RX thread, so accept is one step. start()    *)
(* clears it before it creates the thread. The counters of source changes  *)
(* and drops are statistics and left out.                                  *)
(***************************************************************************)
EXTENDS Integers, FiniteSets

CONSTANTS
  Universes,   \* universe ids
  Endpoints,   \* sender addresses and ports
  Cycle,       \* values of an ordered sequence, 255 in the code
  HalfCycle,   \* largest forward distance that counts as newer, 127
  None,        \* no datagram, or a stream that is not initialized
  MaxSent,     \* bound: datagrams sent
  MaxRuns      \* bound: times a console counts from a new start

ASSUME SequenceAssumption ==
  /\ Cycle \in Nat /\ HalfCycle \in Nat
  /\ 0 < HalfCycle /\ HalfCycle < Cycle
  /\ MaxSent \in Nat /\ MaxRuns \in Nat

Datagram == [universe: Universes, endpoint: Endpoints, run: Nat, number: Nat,
             sequence: 0 .. Cycle]
Stream == [endpoint: Endpoints, sequence: 0 .. Cycle, ordered: BOOLEAN]
ASSUME NoneAssumption == None \notin Datagram \cup Stream

VARIABLES
  sender,    \* per universe and endpoint: the run and the next number
  network,   \* every datagram sent
  states,    \* states_: the tracked stream of each universe
  newest,    \* history: the datagram each universe took last
  decision,  \* history: the last datagram received and the verdict
  refused    \* history: the last rejections in a row, see Refuse

vars == <<sender, network, states, newest, decision, refused>>

SequenceOf(number) == 1 + (number % Cycle)
NoRefusal == [last |-> None, count |-> 0]

Init ==
  /\ sender = [u \in Universes |->
                [e \in Endpoints |-> [run |-> 0, next |-> 0]]]
  /\ network = {}
  /\ states = [u \in Universes |-> None]
  /\ newest = [u \in Universes |-> None]
  /\ decision = None
  /\ refused = [u \in Universes |-> NoRefusal]

-----------------------------------------------------------------------------
(* The consoles and the network. *)

Send(u, e) ==
  /\ Cardinality(network) < MaxSent
  /\ \E sequence \in {0, SequenceOf(sender[u][e].next)} :
       network' = network \cup
         {[universe |-> u, endpoint |-> e, run |-> sender[u][e].run,
           number |-> sender[u][e].next, sequence |-> sequence]}
  /\ sender' = [sender EXCEPT ![u][e].next = @ + 1]
  /\ UNCHANGED <<states, newest, decision, refused>>

StartOver(u, e) ==
  /\ sender[u][e].run < MaxRuns
  /\ \E number \in 0 .. Cycle - 1 :
       sender' = [sender EXCEPT ![u][e] = [run |-> @.run + 1, next |-> number]]
  /\ UNCHANGED <<network, states, newest, decision, refused>>

-----------------------------------------------------------------------------
(* The tracker. *)

MutForwardCountsZero(previous, incoming) ==
  (incoming - previous + Cycle + 1) % (Cycle + 1)

\* How far incoming lies ahead of previous on the cycle.
Forward(previous, incoming) ==
  ((incoming - 1) - (previous - 1) + Cycle) % Cycle

MutAcceptsOnlyLarger(stream, d) ==
  (/\ stream # None /\ stream.endpoint = d.endpoint
   /\ stream.ordered /\ d.sequence # 0)
  => d.sequence > stream.sequence

\* Only a datagram that goes on with an ordered stream is asked for its age.
Accepts(stream, d) ==
  (/\ stream # None /\ stream.endpoint = d.endpoint
   /\ stream.ordered /\ d.sequence # 0)
  => Forward(stream.sequence, d.sequence) \in 1 .. HalfCycle

StreamOf(d) ==
  [endpoint |-> d.endpoint, sequence |-> d.sequence,
   ordered |-> d.sequence # 0]

\* The datagram sent next after d by the same console.
Follows(d, next) ==
  /\ next.endpoint = d.endpoint /\ next.run = d.run
  /\ next.number = d.number + 1

\* accept answers yes: the stream starts, is reseeded or moves on.
Accept(d) ==
  /\ Accepts(states[d.universe], d)
  /\ states' = [states EXCEPT ![d.universe] = StreamOf(d)]
  /\ newest' = [newest EXCEPT ![d.universe] = d]
  /\ refused' = [refused EXCEPT ![d.universe] = NoRefusal]

\* accept answers no. refused counts how many datagrams of one console, each
\* the next one it sent, were rejected without another in between.
Refuse(d) ==
  /\ ~Accepts(states[d.universe], d)
  /\ refused' = [refused EXCEPT ![d.universe] =
       [last |-> d,
        count |-> IF @.last # None /\ Follows(@.last, d) THEN @.count + 1
                  ELSE 1]]
  /\ UNCHANGED <<states, newest>>

Receive(d) ==
  /\ \/ Accept(d)
     \/ Refuse(d)
  /\ decision' = [datagram |-> d, accepted |-> Accepts(states[d.universe], d)]
  /\ UNCHANGED <<sender, network>>

\* ArtNetReceiver::start after a stop: reset clears every stream.
Reset ==
  /\ states' = [u \in Universes |-> None]
  /\ newest' = [u \in Universes |-> None]
  /\ decision' = None
  /\ refused' = [u \in Universes |-> NoRefusal]
  /\ UNCHANGED <<sender, network>>

Next ==
  \/ \E u \in Universes, e \in Endpoints : Send(u, e) \/ StartOver(u, e)
  \/ \E d \in network : Receive(d)
  \/ Reset

Spec == Init /\ [][Next]_vars

-----------------------------------------------------------------------------
(* Properties. *)

\* Types; the ordered mark of a stream says whether its sequence is not the
\* 0 that disables ordering.
TypeOK ==
  /\ sender \in [Universes -> [Endpoints -> [run: Nat, next: Nat]]]
  /\ network \subseteq Datagram
  /\ states \in [Universes -> Stream \cup {None}]
  /\ newest \in [Universes -> Datagram \cup {None}]
  /\ decision \in [datagram: Datagram, accepted: BOOLEAN] \cup {None}
  /\ refused \in [Universes -> [last: Datagram \cup {None}, count: Nat]]
  /\ \A u \in Universes :
       states[u] # None => (states[u].ordered <=> states[u].sequence # 0)

\* Two ordered datagrams of one run of one console: their numbers can be
\* compared.
Comparable(d, e) ==
  /\ d.endpoint = e.endpoint /\ d.run = e.run
  /\ d.sequence # 0 /\ e.sequence # 0

\* The window of ages the wrapped sequence can tell apart.
InWindow(number, base) ==
  /\ number - base <= HalfCycle
  /\ base - number < Cycle - HalfCycle

\* accept decides by age: a datagram at most HalfCycle numbers ahead of the
\* newest one taken is never dropped, and one that is not newer and less than
\* Cycle - HalfCycle behind is never taken, wherever the sequence wraps and
\* in whatever order the network delivers (artnet_sequence_tracker.cpp:23-29).
DecidesByAge ==
  [][\A u \in Universes :
       ( /\ decision' # decision /\ decision' # None
         /\ decision'.datagram.universe = u
         /\ newest[u] # None
         /\ Comparable(newest[u], decision'.datagram)
         /\ InWindow(decision'.datagram.number, newest[u].number) )
       => (decision'.accepted <=>
             decision'.datagram.number > newest[u].number)]_vars

\* A console that starts over within its old stream is heard again: of the
\* datagrams it sends in a row, at most Cycle - HalfCycle that arrive one
\* after the other are rejected ("bounded restart rejection",
\* artnet_sequence_tracker.cpp:5).
RestartRejectionBounded ==
  \A u \in Universes : refused[u].count <= Cycle - HalfCycle
=============================================================================
