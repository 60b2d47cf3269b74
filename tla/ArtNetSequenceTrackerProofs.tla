-------------------- MODULE ArtNetSequenceTrackerProofs --------------------
(***************************************************************************)
(* Proofs about ArtNetSequenceTracker, for every cycle, half cycle, set of *)
(* universes and endpoints. The arithmetic comes first: on the sequences   *)
(* of two numbers of one run, Forward is their difference modulo Cycle.    *)
(***************************************************************************)
EXTENDS ArtNetSequenceTracker, TLAPS

-----------------------------------------------------------------------------
(* Arithmetic of the cycle. *)

\* Division with remainder.
LEMMA DivMod ==
  ASSUME NEW a \in Int, NEW c \in Nat \ {0}
  PROVE  /\ a % c \in 0 .. c - 1
         /\ a \div c \in Int
         /\ a = c * (a \div c) + (a % c)
BY SMT

\* Multiples of c lie at least c apart.
LEMMA MultiplesApart ==
  ASSUME NEW c \in Nat \ {0}, NEW x \in Int, NEW y \in Int, x < y
  PROVE  c * x + c <= c * y
<1>1. x + 1 <= y
  OBVIOUS
<1>2. c * (x + 1) <= c * y
  BY <1>1, SMT
<1>3. c * (x + 1) = c * x + c
  BY SMT
<1> QED BY <1>2, <1>3

\* A remainder is the only number below c that differs by a multiple of c.
LEMMA RemainderUnique ==
  ASSUME NEW c \in Nat \ {0}, NEW q \in Int, NEW r \in 0 .. c - 1,
         NEW a \in Int, a = c * q + r
  PROVE  a % c = r
<1>1. /\ a % c \in 0 .. c - 1 /\ a \div c \in Int
      /\ a = c * (a \div c) + (a % c)
  BY DivMod
<1>2. CASE q < a \div c
  <2>1. c * q + c <= c * (a \div c)
    BY <1>1, <1>2, MultiplesApart
  <2> QED BY <1>1, <2>1
<1>3. CASE a \div c < q
  <2>1. c * (a \div c) + c <= c * q
    BY <1>1, <1>3, MultiplesApart
  <2> QED BY <1>1, <2>1
<1>4. CASE a \div c = q
  BY <1>1, <1>4
<1> QED BY <1>1, <1>2, <1>3, <1>4

\* Adding c does not change a remainder of c.
LEMMA RemainderShift ==
  ASSUME NEW c \in Nat \ {0}, NEW x \in - (c - 1) .. c - 1
  PROVE  (x + c) % c = IF x < 0 THEN x + c ELSE x
<1>1. CASE x < 0
  <2>1. x + c \in 0 .. c - 1 /\ x + c = c * 0 + (x + c)
    BY <1>1
  <2> QED BY <1>1, <2>1, RemainderUnique
<1>2. CASE x >= 0
  <2>1. x \in 0 .. c - 1 /\ x + c = c * 1 + x
    BY <1>2
  <2> QED BY <1>2, <2>1, RemainderUnique
<1> QED BY <1>1, <1>2

\* The successor goes round.
LEMMA RemainderNext ==
  ASSUME NEW c \in Nat \ {0}, NEW k \in Int
  PROVE  (k + 1) % c = IF k % c = c - 1 THEN 0 ELSE (k % c) + 1
<1>1. /\ k % c \in 0 .. c - 1 /\ k \div c \in Int
      /\ k = c * (k \div c) + (k % c)
  BY DivMod
<1>2. PICK a \in Int : a = k + 1
  OBVIOUS
<1>3. CASE k % c = c - 1
  <2>1. PICK q \in Int : q = k \div c + 1
    BY <1>1
  <2>2. c * q = c * (k \div c) + c
    BY <1>1, <2>1, SMT
  <2>3. a = c * q + 0 /\ 0 \in 0 .. c - 1
    BY <1>1, <1>2, <1>3, <2>2
  <2>4. a % c = 0
    BY <2>3, RemainderUnique
  <2> QED BY <1>2, <1>3, <2>4
<1>4. CASE k % c # c - 1
  <2>1. PICK q \in Int : q = k \div c
    BY <1>1
  <2>2. PICK r \in 0 .. c - 1 : r = (k % c) + 1
    BY <1>1, <1>4
  <2>3. a = c * q + r
    BY <1>1, <1>2, <2>1, <2>2
  <2>4. a % c = r
    BY <2>3, RemainderUnique
  <2> QED BY <1>2, <1>4, <2>2, <2>4
<1> QED BY <1>3, <1>4

\* The tracker's distance between the sequences of two numbers.
LEMMA ForwardIsDifference ==
  ASSUME NEW m \in Nat, NEW n \in Nat
  PROVE  Forward(SequenceOf(m), SequenceOf(n)) = (n - m) % Cycle
<1> DEFINE qm == m \div Cycle
           qn == n \div Cycle
           x == (n % Cycle) - (m % Cycle)
<1>0. Cycle \in Nat \ {0}
  BY SequenceAssumption
<1>1. /\ m % Cycle \in 0 .. Cycle - 1 /\ qm \in Int
      /\ m = Cycle * qm + (m % Cycle)
  BY <1>0, DivMod
<1>2. /\ n % Cycle \in 0 .. Cycle - 1 /\ qn \in Int
      /\ n = Cycle * qn + (n % Cycle)
  BY <1>0, DivMod
<1>3. x \in - (Cycle - 1) .. Cycle - 1
  BY <1>0, <1>1, <1>2
<1>4. Forward(SequenceOf(m), SequenceOf(n)) = (x + Cycle) % Cycle
  <2>1. (SequenceOf(n) - 1) - (SequenceOf(m) - 1) + Cycle = x + Cycle
    BY <1>0, <1>1, <1>2 DEF SequenceOf
  <2> QED BY <2>1 DEF Forward
<1>5. Cycle * (qn - qm) = Cycle * qn - Cycle * qm
  BY <1>0, <1>1, <1>2, SMT
<1>6. n - m = Cycle * (qn - qm) + x
  BY <1>0, <1>1, <1>2, <1>5
<1>7. PICK k \in Int : k = n - m
  OBVIOUS
<1>8. CASE x < 0
  <2>1. PICK q \in Int : q = qn - qm - 1
    BY <1>1, <1>2
  <2>2. Cycle * q = Cycle * (qn - qm) - Cycle
    BY <1>0, <1>1, <1>2, <2>1, SMT
  <2>3. PICK r \in 0 .. Cycle - 1 : r = x + Cycle
    BY <1>0, <1>3, <1>8
  <2>4. k = Cycle * q + r
    BY <1>0, <1>1, <1>2, <1>6, <1>7, <2>2, <2>3
  <2>5. k % Cycle = r
    BY <1>0, <2>4, RemainderUnique
  <2>6. (x + Cycle) % Cycle = x + Cycle
    BY <1>0, <1>3, <1>8, RemainderShift
  <2> QED BY <1>4, <1>7, <2>3, <2>5, <2>6
<1>9. CASE x >= 0
  <2>1. PICK q \in Int : q = qn - qm
    BY <1>1, <1>2
  <2>2. PICK r \in 0 .. Cycle - 1 : r = x
    BY <1>0, <1>3, <1>9
  <2>3. k = Cycle * q + r
    BY <1>0, <1>1, <1>2, <1>6, <1>7, <2>1, <2>2
  <2>4. k % Cycle = r
    BY <1>0, <2>3, RemainderUnique
  <2>5. (x + Cycle) % Cycle = x
    <3>1. (r + Cycle) % Cycle = r
      BY <1>0, RemainderShift
    <3> QED BY <2>2, <3>1
  <2> QED BY <1>4, <1>7, <2>2, <2>4, <2>5
<1> QED BY <1>3, <1>8, <1>9

\* Within the window the distance tells newer from older.
LEMMA WindowDecides ==
  ASSUME NEW m \in Nat, NEW n \in Nat, InWindow(n, m)
  PROVE  Forward(SequenceOf(m), SequenceOf(n)) \in 1 .. HalfCycle <=> n > m
<1> DEFINE k == n - m
<1>0. /\ Cycle \in Nat \ {0} /\ HalfCycle \in Nat
      /\ 0 < HalfCycle /\ HalfCycle < Cycle /\ k \in Int
  BY SequenceAssumption
<1>1. k <= HalfCycle /\ - k < Cycle - HalfCycle
  BY DEF InWindow
<1>2. Forward(SequenceOf(m), SequenceOf(n)) = k % Cycle
  BY ForwardIsDifference
<1>3. CASE k >= 0
  <2>1. k \in 0 .. Cycle - 1 /\ k = Cycle * 0 + k
    BY <1>0, <1>1, <1>3
  <2>2. k % Cycle = k
    BY <1>0, <2>1, RemainderUnique
  <2> QED BY <1>0, <1>1, <1>2, <1>3, <2>2
<1>4. CASE k < 0
  <2>1. PICK r \in 0 .. Cycle - 1 : r = k + Cycle
    BY <1>0, <1>1, <1>4
  <2>2. k = Cycle * (- 1) + r
    BY <1>0, <2>1
  <2>3. k % Cycle = r
    BY <1>0, <2>2, RemainderUnique
  <2>4. r > HalfCycle
    BY <1>0, <1>1, <2>1
  <2> QED BY <1>0, <1>2, <1>4, <2>3, <2>4
<1> QED BY <1>0, <1>3, <1>4

-----------------------------------------------------------------------------
(* The inductive invariant. *)

\* What is on the network carries the wrapped number it was sent with.
NetworkIsWrapped ==
  \A d \in network : d.sequence \in {0, SequenceOf(d.number)}

\* The tracked stream is what the datagram taken last says, no more.
StreamIsNewest ==
  \A u \in Universes :
    /\ states[u] = None <=> newest[u] = None
    /\ newest[u] # None =>
         newest[u] \in network /\ states[u] = StreamOf(newest[u])

\* The last datagram of a row of rejections is one the stream refuses, and
\* the row is no longer than the part of the refused distances behind it.
RowIsShort(u) ==
  LET distance == Forward(states[u].sequence, refused[u].last.sequence)
  IN  /\ refused[u].last \in network /\ refused[u].last.sequence # 0
      /\ states[u] # None /\ states[u].ordered
      /\ states[u].endpoint = refused[u].last.endpoint
      /\ \/ distance = 0 /\ refused[u].count <= Cycle - HalfCycle
         \/ /\ HalfCycle < distance /\ distance < Cycle
            /\ refused[u].count <= distance - HalfCycle

RefusedRows ==
  \A u \in Universes :
    IF refused[u].last = None THEN refused[u].count = 0 ELSE RowIsShort(u)

IInv == TypeOK /\ NetworkIsWrapped /\ StreamIsNewest /\ RefusedRows

\* A sequence fits its byte.
LEMMA SequenceRange ==
  ASSUME NEW n \in Nat
  PROVE  SequenceOf(n) \in 1 .. Cycle
<1>1. Cycle \in Nat \ {0}
  BY SequenceAssumption
<1>2. n % Cycle \in 0 .. Cycle - 1
  BY <1>1, DivMod
<1> QED BY <1>1, <1>2 DEF SequenceOf

\* A distance lies on the cycle.
LEMMA ForwardRange ==
  ASSUME NEW p \in Int, NEW q \in Int
  PROVE  Forward(p, q) \in 0 .. Cycle - 1
<1>1. Cycle \in Nat \ {0}
  BY SequenceAssumption
<1>2. PICK a \in Int : a = (q - 1) - (p - 1) + Cycle
  BY <1>1
<1>3. a % Cycle \in 0 .. Cycle - 1
  BY <1>1, DivMod
<1> QED BY <1>2, <1>3 DEF Forward

\* The next number is one step further on the cycle.
LEMMA ForwardNext ==
  ASSUME NEW m \in Nat, NEW n \in Nat
  PROVE  Forward(SequenceOf(m), SequenceOf(n + 1)) =
           LET f == Forward(SequenceOf(m), SequenceOf(n))
           IN  IF f = Cycle - 1 THEN 0 ELSE f + 1
<1>1. Cycle \in Nat \ {0}
  BY SequenceAssumption
<1>2. PICK k \in Int : k = n - m
  OBVIOUS
<1>3. (k + 1) % Cycle = IF k % Cycle = Cycle - 1 THEN 0 ELSE (k % Cycle) + 1
  BY <1>1, RemainderNext
<1>4. Forward(SequenceOf(m), SequenceOf(n)) = k % Cycle
  BY <1>2, ForwardIsDifference
<1>5. PICK l \in Nat : l = n + 1
  OBVIOUS
<1>6. Forward(SequenceOf(m), SequenceOf(l)) = (l - m) % Cycle
  BY ForwardIsDifference
<1>7. l - m = k + 1
  BY <1>2, <1>5
<1> QED BY <1>3, <1>4, <1>5, <1>6, <1>7

\* The invariant holds initially.
LEMMA InitInv == Init => IInv
<1> SUFFICES ASSUME Init PROVE IInv
  OBVIOUS
<1>1. TypeOK
  BY DEF Init, TypeOK, NoRefusal
<1>2. NetworkIsWrapped
  BY DEF Init, NetworkIsWrapped
<1>3. StreamIsNewest
  BY DEF Init, StreamIsNewest
<1>4. RefusedRows
  BY DEF Init, RefusedRows, NoRefusal
<1> QED BY <1>1, <1>2, <1>3, <1>4 DEF IInv

\* Nothing the consoles do disturbs the tracker's part of the invariant.
LEMMA TrackerUntouched ==
  ASSUME IInv, network \subseteq network',
         UNCHANGED <<states, newest, refused>>
  PROVE  StreamIsNewest' /\ RefusedRows'
<1>1. StreamIsNewest'
  BY DEF IInv, StreamIsNewest, StreamOf
<1>2. RefusedRows'
  BY DEF IInv, RefusedRows, RowIsShort, Forward
<1> QED BY <1>1, <1>2

\* A console sends its next number.
LEMMA SendInv ==
  ASSUME IInv, NEW u \in Universes, NEW e \in Endpoints, Send(u, e)
  PROVE  IInv'
<1>1. sender[u][e].next \in Nat /\ sender[u][e].run \in Nat
  BY DEF IInv, TypeOK
<1>2. PICK sequence \in {0, SequenceOf(sender[u][e].next)} :
        network' = network \cup
          {[universe |-> u, endpoint |-> e, run |-> sender[u][e].run,
            number |-> sender[u][e].next, sequence |-> sequence]}
  BY DEF Send
<1>3. sequence \in 0 .. Cycle
  BY <1>1, SequenceRange, SequenceAssumption
<1>4. TypeOK'
  <2>1. network' \subseteq Datagram
    BY <1>1, <1>2, <1>3 DEF IInv, TypeOK, Datagram
  <2>2. sender' \in [Universes -> [Endpoints -> [run: Nat, next: Nat]]]
    BY <1>1 DEF IInv, TypeOK, Send
  <2> QED BY <2>1, <2>2 DEF IInv, TypeOK, Send
<1>5. NetworkIsWrapped'
  BY <1>2 DEF IInv, NetworkIsWrapped, SequenceOf
<1>6. StreamIsNewest' /\ RefusedRows'
  BY <1>2, TrackerUntouched DEF Send
<1> QED BY <1>4, <1>5, <1>6 DEF IInv

\* A console starts over.
LEMMA StartOverInv ==
  ASSUME IInv, NEW u \in Universes, NEW e \in Endpoints, StartOver(u, e)
  PROVE  IInv'
<1>1. TypeOK'
  <2>1. PICK number \in 0 .. Cycle - 1 :
          sender' = [sender EXCEPT
            ![u][e] = [run |-> sender[u][e].run + 1, next |-> number]]
    BY DEF StartOver
  <2>2. number \in Nat /\ sender[u][e].run + 1 \in Nat
    BY DEF IInv, TypeOK
  <2>3. sender' \in [Universes -> [Endpoints -> [run: Nat, next: Nat]]]
    BY <2>1, <2>2 DEF IInv, TypeOK
  <2> QED BY <2>3 DEF IInv, TypeOK, StartOver
<1>2. NetworkIsWrapped'
  BY DEF IInv, NetworkIsWrapped, StartOver, SequenceOf
<1>3. StreamIsNewest' /\ RefusedRows'
  BY TrackerUntouched DEF StartOver
<1> QED BY <1>1, <1>2, <1>3 DEF IInv

\* The receiver starts a session.
LEMMA ResetInv ==
  ASSUME IInv, Reset
  PROVE  IInv'
<1>1. TypeOK'
  BY DEF IInv, TypeOK, Reset, NoRefusal
<1>2. NetworkIsWrapped'
  BY DEF IInv, NetworkIsWrapped, Reset, SequenceOf
<1>3. StreamIsNewest'
  BY DEF StreamIsNewest, Reset
<1>4. RefusedRows'
  BY DEF RefusedRows, Reset, NoRefusal
<1> QED BY <1>1, <1>2, <1>3, <1>4 DEF IInv

\* A datagram is taken.
LEMMA AcceptInv ==
  ASSUME IInv, NEW d \in network, Receive(d), Accept(d)
  PROVE  IInv'
<1> DEFINE u == d.universe
<1>1. d \in Datagram /\ u \in Universes
  BY DEF IInv, TypeOK, Datagram
<1>2. StreamOf(d) \in Stream /\ StreamOf(d) # None
  <2>1. d.endpoint \in Endpoints /\ d.sequence \in 0 .. Cycle
    BY <1>1 DEF Datagram
  <2>2. (d.sequence # 0) \in BOOLEAN
    OBVIOUS
  <2>3. StreamOf(d) \in Stream
    BY <2>1, <2>2 DEF Stream, StreamOf
  <2> QED BY <2>3, NoneAssumption
<1>3. d # None
  BY <1>1, NoneAssumption
<1>4. TypeOK'
  <2>1. decision' \in [datagram: Datagram, accepted: BOOLEAN]
    BY <1>1 DEF Receive, Accepts
  <2>2. states' \in [Universes -> Stream \cup {None}]
    BY <1>2 DEF IInv, TypeOK, Accept
  <2>3. newest' \in [Universes -> Datagram \cup {None}]
    BY <1>1 DEF IInv, TypeOK, Accept
  <2>4. refused' \in [Universes -> [last: Datagram \cup {None}, count: Nat]]
    BY DEF IInv, TypeOK, Accept, NoRefusal
  <2>5. \A w \in Universes : states'[w] # None =>
          (states'[w].ordered <=> states'[w].sequence # 0)
    BY DEF IInv, TypeOK, Accept, StreamOf
  <2> QED BY <2>1, <2>2, <2>3, <2>4, <2>5 DEF IInv, TypeOK, Receive
<1>5. NetworkIsWrapped'
  BY DEF IInv, NetworkIsWrapped, Receive, SequenceOf
<1>6. StreamIsNewest'
  <2> SUFFICES ASSUME NEW w \in Universes
               PROVE  /\ states'[w] = None <=> newest'[w] = None
                      /\ newest'[w] # None =>
                           /\ newest'[w] \in network'
                           /\ states'[w] = StreamOf(newest'[w])
    BY DEF StreamIsNewest, StreamOf
  <2>1. CASE w = u
    BY <1>1, <1>2, <1>3, <2>1 DEF IInv, TypeOK, Accept, Receive
  <2>2. CASE w # u
    BY <2>2 DEF IInv, TypeOK, StreamIsNewest, Accept, Receive
  <2> QED BY <2>1, <2>2
<1>7. RefusedRows'
  <2> SUFFICES ASSUME NEW w \in Universes
               PROVE  (IF refused[w].last = None THEN refused[w].count = 0
                       ELSE RowIsShort(w))'
    BY DEF RefusedRows
  <2>1. CASE w = u
    BY <2>1 DEF IInv, TypeOK, Accept, NoRefusal
  <2>2. CASE w # u
    <3>1. refused'[w] = refused[w] /\ states'[w] = states[w]
      BY <2>2 DEF IInv, TypeOK, Accept
    <3>2. network' = network
      BY DEF Receive
    <3> QED BY <3>1, <3>2 DEF IInv, RefusedRows, RowIsShort, Forward
  <2> QED BY <2>1, <2>2
<1> QED BY <1>4, <1>5, <1>6, <1>7 DEF IInv

\* A datagram is rejected: the row of rejections stays short, because each
\* further one is a step nearer to the distances that are accepted.
LEMMA RefuseInv ==
  ASSUME IInv, NEW d \in network, Receive(d), Refuse(d)
  PROVE  IInv'
<1> DEFINE u == d.universe
           distance == Forward(states[u].sequence, d.sequence)
<1>0. /\ Cycle \in Nat \ {0} /\ HalfCycle \in Nat
      /\ 0 < HalfCycle /\ HalfCycle < Cycle
  BY SequenceAssumption
<1>1. d \in Datagram /\ u \in Universes /\ d.number \in Nat
  BY DEF IInv, TypeOK, Datagram
<1>2. /\ states[u] # None /\ states[u].endpoint = d.endpoint
      /\ states[u].ordered /\ d.sequence # 0
      /\ distance \notin 1 .. HalfCycle
  BY DEF Refuse, Accepts
<1>3. /\ newest[u] \in network /\ newest[u] \in Datagram
      /\ states[u] = StreamOf(newest[u])
      /\ newest[u].sequence # 0 /\ newest[u].number \in Nat
  BY <1>1, <1>2 DEF IInv, TypeOK, StreamIsNewest, StreamOf, Datagram
<1>4. /\ d.sequence = SequenceOf(d.number)
      /\ states[u].sequence = SequenceOf(newest[u].number)
  BY <1>2, <1>3 DEF IInv, NetworkIsWrapped, StreamOf
<1>5. /\ distance \in Int
      /\ distance = 0 \/ (HalfCycle < distance /\ distance < Cycle)
  <2>1. SequenceOf(d.number) \in Int /\ SequenceOf(newest[u].number) \in Int
    BY <1>0, <1>1, <1>3, SequenceRange
  <2>2. distance \in 0 .. Cycle - 1
    BY <1>4, <2>1, ForwardRange
  <2> QED BY <1>0, <1>2, <2>2
<1>6. UNCHANGED <<network, states, newest>>
  BY DEF Receive, Refuse
<1>7. PICK n \in Nat :
        /\ refused' = [refused EXCEPT ![u] = [last |-> d, count |-> n]]
        /\ n = IF refused[u].last # None /\ Follows(refused[u].last, d)
               THEN refused[u].count + 1 ELSE 1
  <2> DEFINE m == IF refused[u].last # None /\ Follows(refused[u].last, d)
                  THEN refused[u].count + 1 ELSE 1
  <2>1. refused[u].count \in Nat
    BY <1>1 DEF IInv, TypeOK
  <2>2. m \in Nat
    BY <2>1
  <2>3. refused' = [refused EXCEPT ![u] = [last |-> d, count |-> m]]
    BY DEF Refuse
  <2> QED BY <2>2, <2>3
<1>8. \/ distance = 0 /\ n <= Cycle - HalfCycle
      \/ HalfCycle < distance /\ distance < Cycle /\ n <= distance - HalfCycle
  <2>1. CASE refused[u].last # None /\ Follows(refused[u].last, d)
    <3> DEFINE last == refused[u].last
               before == Forward(states[u].sequence, last.sequence)
    <3>1. RowIsShort(u)
      BY <1>1, <2>1 DEF IInv, RefusedRows
    <3>2. last \in network /\ last.sequence # 0 /\ last.number \in Nat
      BY <3>1 DEF IInv, TypeOK, RowIsShort, Datagram
    <3>3. last.sequence = SequenceOf(last.number)
      BY <3>2 DEF IInv, NetworkIsWrapped
    <3>4. d.number = last.number + 1
      BY <2>1 DEF Follows
    <3>5. distance = IF before = Cycle - 1 THEN 0 ELSE before + 1
      BY <1>3, <1>4, <3>2, <3>3, <3>4, ForwardNext
    <3>6. n = refused[u].count + 1
      BY <1>7, <2>1
    <3>7. refused[u].count \in Nat
      BY <1>1 DEF IInv, TypeOK
    <3>8. \/ before = 0 /\ refused[u].count <= Cycle - HalfCycle
          \/ /\ HalfCycle < before /\ before < Cycle
             /\ refused[u].count <= before - HalfCycle
      BY <3>1 DEF RowIsShort
    <3>9. before \in 0 .. Cycle - 1
      <4>1. SequenceOf(last.number) \in Int /\ SequenceOf(newest[u].number) \in Int
        BY <1>0, <1>3, <3>2, SequenceRange
      <4> QED BY <1>4, <3>3, <4>1, ForwardRange
    <3>10. before # 0
      BY <1>0, <1>5, <3>5
    <3> QED BY <1>0, <1>5, <3>5, <3>6, <3>7, <3>8, <3>9, <3>10
  <2>2. CASE ~(refused[u].last # None /\ Follows(refused[u].last, d))
    <3>1. n = 1
      BY <1>7, <2>2
    <3>2. PICK k \in Int : k = distance
      BY <1>5
    <3> QED BY <1>0, <1>5, <3>1, <3>2
  <2> QED BY <2>1, <2>2
<1>9. TypeOK'
  <2>1. decision' \in [datagram: Datagram, accepted: BOOLEAN]
    BY <1>1 DEF Receive, Accepts
  <2>2. refused' \in [Universes -> [last: Datagram \cup {None}, count: Nat]]
    BY <1>1, <1>7 DEF IInv, TypeOK
  <2> QED BY <1>6, <2>1, <2>2 DEF IInv, TypeOK, Receive
<1>10. NetworkIsWrapped'
  BY <1>6 DEF IInv, NetworkIsWrapped, SequenceOf
<1>11. StreamIsNewest'
  BY <1>6 DEF IInv, StreamIsNewest, StreamOf
<1>12. RefusedRows'
  <2> SUFFICES ASSUME NEW w \in Universes
               PROVE  (IF refused[w].last = None THEN refused[w].count = 0
                       ELSE RowIsShort(w))'
    BY DEF RefusedRows
  <2>1. CASE w = u
    <3>1. refused'[w] = [last |-> d, count |-> n]
      BY <1>1, <1>7, <2>1 DEF IInv, TypeOK
    <3>2. d # None
      BY <1>1, NoneAssumption
    <3>3. RowIsShort(w)'
      BY <1>2, <1>6, <1>8, <2>1, <3>1 DEF RowIsShort, Forward
    <3> QED BY <3>1, <3>2, <3>3
  <2>2. CASE w # u
    <3>1. refused'[w] = refused[w]
      BY <1>7, <2>2 DEF IInv, TypeOK
    <3> QED BY <1>6, <3>1 DEF IInv, RefusedRows, RowIsShort, Forward
  <2> QED BY <2>1, <2>2
<1> QED BY <1>9, <1>10, <1>11, <1>12 DEF IInv

\* Every step keeps the invariant.
LEMMA StepInv == IInv /\ [Next]_vars => IInv'
<1> SUFFICES ASSUME IInv, [Next]_vars PROVE IInv'
  OBVIOUS
<1>1. ASSUME NEW u \in Universes, NEW e \in Endpoints,
             Send(u, e) \/ StartOver(u, e)
      PROVE  IInv'
  BY <1>1, SendInv, StartOverInv
<1>2. ASSUME NEW d \in network, Receive(d) PROVE IInv'
  BY <1>2, AcceptInv, RefuseInv DEF Receive
<1>3. CASE Reset
  BY <1>3, ResetInv
<1>4. CASE UNCHANGED vars
  <2>1. UNCHANGED <<sender, network, states, newest, decision, refused>>
    BY <1>4 DEF vars
  <2>2. TypeOK' /\ NetworkIsWrapped'
    BY <2>1 DEF IInv, TypeOK, NetworkIsWrapped, SequenceOf
  <2> QED BY <2>1, <2>2, TrackerUntouched DEF IInv
<1> QED BY <1>1, <1>2, <1>3, <1>4 DEF Next

-----------------------------------------------------------------------------
(* Theorems. *)

\* The tracker always holds exactly what the datagram taken last says, and a
\* row of rejections is as short as its distance allows.
THEOREM SequenceInvariant == Spec => []IInv
BY InitInv, StepInv, PTL DEF Spec

\* Types, for every cycle and every network.
THEOREM SequenceTypeCorrect == Spec => []TypeOK
<1>1. IInv => TypeOK
  BY DEF IInv
<1> QED BY <1>1, SequenceInvariant, PTL

\* One received datagram is judged by its age.
LEMMA ReceiveDecidesByAge ==
  ASSUME IInv, NEW d \in network, Receive(d),
         newest[d.universe] # None, Comparable(newest[d.universe], d),
         InWindow(d.number, newest[d.universe].number)
  PROVE  Accepts(states[d.universe], d) <=>
           d.number > newest[d.universe].number
<1> DEFINE base == newest[d.universe]
<1>1. d \in Datagram /\ d.universe \in Universes /\ d.number \in Nat
  BY DEF IInv, TypeOK, Datagram
<1>2. /\ base \in network /\ base.number \in Nat
      /\ states[d.universe] = StreamOf(base)
  BY <1>1 DEF IInv, TypeOK, StreamIsNewest, Datagram
<1>3. /\ d.sequence = SequenceOf(d.number)
      /\ base.sequence = SequenceOf(base.number)
  BY <1>2 DEF IInv, NetworkIsWrapped, Comparable
<1>4. states[d.universe] # None
  BY <1>1 DEF IInv, StreamIsNewest
<1>5. Accepts(states[d.universe], d) <=>
        Forward(base.sequence, d.sequence) \in 1 .. HalfCycle
  <2>1. base.endpoint = d.endpoint /\ base.sequence # 0 /\ d.sequence # 0
    BY DEF Comparable
  <2>2. /\ states[d.universe].endpoint = base.endpoint
        /\ states[d.universe].sequence = base.sequence
        /\ states[d.universe].ordered = (base.sequence # 0)
    BY <1>2 DEF StreamOf
  <2>3. states[d.universe].ordered
    BY <2>1, <2>2
  <2> QED BY <1>4, <2>1, <2>2, <2>3 DEF Accepts
<1> QED BY <1>1, <1>2, <1>3, <1>5, WindowDecides

\* Within the window of ages the sequence can tell apart, the tracker takes
\* exactly the newer datagrams, for every cycle and half cycle.
THEOREM AlwaysDecidesByAge == Spec => DecidesByAge
<1> DEFINE ByAge(u) ==
      ( /\ decision' # decision /\ decision' # None
        /\ decision'.datagram.universe = u
        /\ newest[u] # None
        /\ Comparable(newest[u], decision'.datagram)
        /\ InWindow(decision'.datagram.number, newest[u].number) )
      => (decision'.accepted <=>
            decision'.datagram.number > newest[u].number)
<1>1. ASSUME IInv, [Next]_vars PROVE [\A u \in Universes : ByAge(u)]_vars
  <2> SUFFICES ASSUME Next, NEW u \in Universes PROVE ByAge(u)
    BY <1>1
  <2>1. CASE \E w \in Universes, e \in Endpoints :
               Send(w, e) \/ StartOver(w, e)
    BY <2>1 DEF Send, StartOver
  <2>2. ASSUME NEW d \in network, Receive(d) PROVE ByAge(u)
    BY <1>1, <2>2, ReceiveDecidesByAge DEF Receive
  <2>3. CASE Reset
    BY <2>3 DEF Reset
  <2> QED BY <2>1, <2>2, <2>3 DEF Next
<1> QED BY <1>1, SequenceInvariant, PTL DEF Spec, DecidesByAge

\* A restarted console is rejected at most Cycle - HalfCycle times in a row,
\* 128 in the code.
THEOREM RestartAlwaysBounded == Spec => []RestartRejectionBounded
<1>1. IInv => RestartRejectionBounded
  <2> SUFFICES ASSUME IInv, NEW u \in Universes
               PROVE  refused[u].count <= Cycle - HalfCycle
    BY DEF RestartRejectionBounded
  <2>1. /\ Cycle \in Nat /\ HalfCycle \in Nat /\ HalfCycle < Cycle
        /\ refused[u].count \in Nat
    BY SequenceAssumption DEF IInv, TypeOK
  <2>2. CASE refused[u].last = None
    BY <2>1, <2>2 DEF IInv, RefusedRows
  <2>3. CASE refused[u].last # None
    <3>1. RowIsShort(u)
      BY <2>3 DEF IInv, RefusedRows
    <3>2. refused[u].last.sequence \in Int /\ states[u].sequence \in Int
      BY <3>1, SequenceAssumption
      DEF IInv, TypeOK, RowIsShort, Datagram, Stream
    <3>3. PICK k \in 0 .. Cycle - 1 :
            k = Forward(states[u].sequence, refused[u].last.sequence)
      BY <3>2, ForwardRange
    <3> QED BY <2>1, <3>1, <3>3 DEF RowIsShort
  <2> QED BY <2>2, <2>3
<1> QED BY <1>1, SequenceInvariant, PTL
=============================================================================
