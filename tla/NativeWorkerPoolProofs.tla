----------------------- MODULE NativeWorkerPoolProofs -----------------------
(* Proofs about NativeWorkerPool, for every number of threads, items and   *)
(* batches: the barrier and the exclusive ranges.                          *)
EXTENDS NativeWorkerPool, TLAPS, FiniteSetTheorems

(* What a worker copies that takes the batch now. *)
CurrentJob == [batch |-> dispatches, count |-> count, used |-> participants]

(* The workers that have joined the barrier of the batch. *)
JoinedBarrier == {w \in Workers : observed[w] = epoch /\ state[w] # "work"}

(* A worker is only ever in the batch the coordinator waits for. *)
WorkersInBatch ==
  \A w \in Workers :
    /\ observed[w] <= epoch
    /\ state[w] = "work" => /\ observed[w] = epoch
                            /\ caller \in Waiting
                            /\ job[w] = CurrentJob

(* completed counts the workers that have joined. *)
CompletedCounts ==
  caller \in Waiting => completed = Cardinality(JoinedBarrier)

BarrierInv == TypeOK /\ WorkersInBatch /\ CompletedCounts /\ BarrierJoinsAll

(* What a worker has still to do in the batch: its whole range as long as  *)
(* it has not taken it.                                                    *)
ToDo(w) ==
  IF observed[w] # epoch
  THEN RangeStart(CurrentJob, w)..(RangeEnd(CurrentJob, w) - 1)
  ELSE IF HasItem(w) THEN next[w]..(RangeEnd(CurrentJob, w) - 1)
  ELSE {}

(* Nothing of what is still to do has a result of this call.               *)
ToDoUntouched ==
  /\ \A i \in Items : result[i] <= dispatches
  /\ caller \in Waiting =>
       \A w \in Workers, i \in Items : i \in ToDo(w) => result[i] # dispatches

(* A worker in a batch goes on from the start of its range.                *)
WorksInRange ==
  \A w \in Workers : state[w] = "work" => next[w] >= RangeStart(CurrentJob, w)

PoolInv == BarrierInv /\ ToDoUntouched /\ WorksInRange

------(* The range of a worker in the batch. *)
MyRange(w) == RangeStart(CurrentJob, w)..(RangeEnd(CurrentJob, w) - 1)

(* The coordinator waits for the batch it was called with.                 *)
WaitsForCall ==
  caller \in Waiting => total = count /\ cursor = 0 /\ participants > 0

(* An item of a range is still to do, lost to a failure or has a result of *)
(* this call.                                                              *)
RangesComputed ==
  caller \in Waiting =>
    \A w \in Workers, i \in Items :
      i \in MyRange(w) => i \in ToDo(w) \/ failed[w] \/ result[i] = dispatches

(* A serial pass leaves no item behind. *)
SerialComputed ==
  caller \in Serial => \A i \in Items : i < cursor => result[i] = dispatches

ResultInv == WaitsForCall /\ RangesComputed /\ SerialComputed

-----------------------------------------------------------------------
(* Arithmetic of the ranges                                                *)

(* What Euclidean division promises. *)
LEMMA DivisionBounds ==
  ASSUME NEW x \in Nat, NEW u \in Nat, u > 0
  PROVE  x \div u \in Nat /\ u * (x \div u) <= x /\ x < u * ((x \div u) + 1)
BY SMT

(* Products keep the order. *)
LEMMA ProductMonotone ==
  ASSUME NEW x \in Nat, NEW y \in Nat, NEW c \in Nat, x <= y
  PROVE  c * x \in Nat /\ c * y \in Nat /\ c * x <= c * y
BY SMT

(* Division keeps the order. *)
LEMMA DivisionMonotone ==
  ASSUME NEW x \in Nat, NEW y \in Nat, NEW u \in Nat, u > 0, x <= y
  PROVE  x \div u <= y \div u
<1> DEFINE p == x \div u
           q == y \div u
<1>1. p \in Nat /\ q \in Nat /\ u * p <= x /\ y < u * (q + 1)
  BY DivisionBounds
<1> HIDE DEF p, q
<1>2. ~(q + 1 <= p)
  <2> SUFFICES ASSUME q + 1 <= p PROVE FALSE
    OBVIOUS
  <2>1. u * (q + 1) <= u * p
    BY <1>1, ProductMonotone
  <2>2. u * p \in Nat /\ u * (q + 1) \in Nat
    BY <1>1
  <2> QED
    BY <1>1, <2>1, <2>2
<1>3. p <= q
  BY <1>1, <1>2
<1> QED
  BY <1>3 DEF p, q

(* Division undoes a product. *)
LEMMA DivisionOfProduct ==
  ASSUME NEW c \in Nat, NEW u \in Nat, u > 0
  PROVE  (c * u) \div u = c
BY SMT

(* The ranges of worker lie in the batch: fn gets no index past count.     *)
LEMMA RangesInBatch ==
  ASSUME NEW j \in Job, NEW w \in Nat
  PROVE  /\ RangeStart(j, w) \in 0..j.count
         /\ RangeEnd(j, w) \in 0..j.count
<1>0. j.count \in Nat /\ j.used \in Nat
  BY DEF Job
<1>1. CASE w < j.used
  <2>1. j.used > 0 /\ w <= j.used /\ w + 1 \in Nat /\ w + 1 <= j.used
    BY <1>0, <1>1
  <2>2. /\ j.count * w \in Nat /\ j.count * (w + 1) \in Nat
        /\ j.count * j.used \in Nat
        /\ j.count * w <= j.count * j.used
        /\ j.count * (w + 1) <= j.count * j.used
    BY <1>0, <2>1, ProductMonotone
  <2>3. (j.count * j.used) \div j.used = j.count
    BY <1>0, <2>1, DivisionOfProduct
  <2>4. /\ (j.count * w) \div j.used \in Nat
        /\ (j.count * (w + 1)) \div j.used \in Nat
    BY <1>0, <2>1, <2>2, DivisionBounds
  <2>5. (j.count * w) \div j.used <= j.count
    BY <1>0, <2>1, <2>2, <2>3, DivisionMonotone
  <2>6. (j.count * (w + 1)) \div j.used <= j.count
    BY <1>0, <2>1, <2>2, <2>3, DivisionMonotone
  <2> QED
    BY <1>0, <1>1, <2>4, <2>5, <2>6 DEF RangeStart, RangeEnd
<1>2. CASE ~(w < j.used)
  BY <1>0, <1>2 DEF RangeStart, RangeEnd
<1> QED
  BY <1>1, <1>2

(* The range of a thread ends before the range of a later one starts, or   *)
(* the later one has none.                                                 *)
LEMMA RangesInOrder ==
  ASSUME NEW j \in Job, NEW v \in Nat, NEW w \in Nat, v < w
  PROVE  RangeEnd(j, v) <= RangeStart(j, w) \/ RangeEnd(j, w) = 0
<1>0. j.count \in Nat /\ j.used \in Nat
  BY DEF Job
<1>1. CASE w < j.used
  <2>1. j.used > 0 /\ v < j.used /\ v + 1 \in Nat /\ v + 1 <= w
    BY <1>0, <1>1
  <2>2. /\ j.count * (v + 1) \in Nat /\ j.count * w \in Nat
        /\ j.count * (v + 1) <= j.count * w
    BY <1>0, <2>1, ProductMonotone
  <2>3. (j.count * (v + 1)) \div j.used <= (j.count * w) \div j.used
    BY <1>0, <2>1, <2>2, DivisionMonotone
  <2> QED
    BY <1>1, <2>1, <2>3 DEF RangeStart, RangeEnd
<1>2. CASE ~(w < j.used)
  BY <1>2 DEF RangeEnd
<1> QED
  BY <1>1, <1>2

------(* Every item of a batch is in the range of a participant.                 *)
LEMMA RangesCover ==
  ASSUME NEW j \in Job, j.used > 0, NEW i \in Nat, i < j.count
  PROVE  \E w \in Nat : /\ w < j.used
                        /\ i \in RangeStart(j, w)..(RangeEnd(j, w) - 1)
<1> DEFINE c == j.count
           u == j.used
           x == u * (i + 1) - 1
           w == x \div c
<1>1. c \in Nat /\ u \in Nat /\ c > 0 /\ u > 0 /\ i + 1 <= c
  BY DEF Job
<1> HIDE DEF c, u
<1>2. u * (i + 1) \in Nat /\ u * (i + 1) <= u * c /\ x \in Nat /\ x + 1 = u * (i + 1)
  <2>1. u * (i + 1) \in Nat /\ u * (i + 1) <= u * c
    BY <1>1, ProductMonotone
  <2>2. u * 1 <= u * (i + 1)
    BY <1>1, ProductMonotone
  <2> QED
    BY <1>1, <2>1, <2>2
<1> HIDE DEF x
<1>3. w \in Nat /\ c * w <= x /\ x < c * (w + 1)
  BY <1>1, <1>2, DivisionBounds
<1> HIDE DEF w
<1>4. w < u
  <2> SUFFICES ASSUME u <= w PROVE FALSE
    BY <1>1, <1>3
  <2>1. c * u <= c * w
    BY <1>1, <1>3, ProductMonotone
  <2>2. c * u = u * c /\ c * u \in Nat /\ c * w \in Nat
    BY <1>1, <1>3
  <2> QED
    BY <1>2, <1>3, <2>1, <2>2
<1>5. (c * w) \div u \in Nat /\ (c * w) \div u <= i
  <2> DEFINE p == (c * w) \div u
  <2>1. c * w \in Nat
    BY <1>1, <1>3
  <2>2. p \in Nat /\ u * p <= c * w
    BY <1>1, <2>1, DivisionBounds
  <2> HIDE DEF p
  <2>3. ~(i + 1 <= p)
    <3> SUFFICES ASSUME i + 1 <= p PROVE FALSE
      OBVIOUS
    <3>1. u * (i + 1) <= u * p /\ u * p \in Nat
      BY <1>1, <2>2, ProductMonotone
    <3> QED
      BY <1>2, <1>3, <2>1, <2>2, <3>1
  <2>4. p \in Nat /\ p <= i
    BY <2>2, <2>3
  <2> QED
    BY <2>4 DEF p
<1>6. (c * (w + 1)) \div u \in Nat /\ i + 1 <= (c * (w + 1)) \div u
  <2>1. c * (w + 1) \in Nat /\ u * (i + 1) <= c * (w + 1)
    BY <1>1, <1>2, <1>3
  <2>2. (u * (i + 1)) \div u <= (c * (w + 1)) \div u
    BY <1>1, <1>2, <2>1, DivisionMonotone
  <2>3. (u * (i + 1)) \div u = i + 1
    <3>1. u * (i + 1) = (i + 1) * u
      BY <1>1
    <3> QED
      BY <1>1, <3>1, DivisionOfProduct
  <2>4. (c * (w + 1)) \div u \in Nat
    BY <1>1, <2>1, DivisionBounds
  <2> QED
    BY <2>2, <2>3, <2>4
<1>7. RangeStart(j, w) = (c * w) \div u /\ RangeEnd(j, w) = (c * (w + 1)) \div u
  BY <1>4 DEF RangeStart, RangeEnd, c, u
<1>8. w < j.used
  BY <1>4 DEF u
<1>9. i \in RangeStart(j, w)..(RangeEnd(j, w) - 1)
  BY <1>5, <1>6, <1>7
<1> QED
  BY <1>3, <1>8, <1>9

-----------------------------------------------------------------------
(* Threads                                                                 *)

(* There are as many workers as threads. *)
LEMMA WorkersFinite ==
  /\ IsFiniteSet(Workers) /\ Cardinality(Workers) = Threads
  /\ Workers \subseteq Nat
<1>1. CASE Threads = 0
  BY <1>1, FS_EmptySet DEF Workers
<1>2. CASE Threads # 0
  <2>1. 0 \in Int /\ Threads - 1 \in Int /\ ~(0 > Threads - 1)
    BY <1>2, PoolAssumption
  <2>2. IsFiniteSet(0..(Threads - 1)) /\ Cardinality(0..(Threads - 1)) = Threads
    BY <2>1, PoolAssumption, FS_Interval
  <2> QED
    BY <1>2, <2>1, <2>2 DEF Workers
<1> QED
  BY <1>1, <1>2

-----------------------------------------------------------------------------
(* Types                                                                   *)

(* The constructor, also one that gives up.                                *)
LEMMA PoolInit == Init => PoolInv
<1> SUFFICES ASSUME Init PROVE PoolInv
  OBVIOUS
<1>1. TypeOK
  <2>1. state \in [Workers -> States] /\ stopping \in BOOLEAN /\ caller \in Callers
    <3>1. CASE stopping = FALSE /\ caller = "none" /\ state = [w \in Workers |-> "check"]
      BY <3>1 DEF States, Callers, Returned
    <3>2. ASSUME stopping = TRUE, caller = "joining", NEW started \in Workers,
                 state = [w \in Workers |-> IF w < started THEN "check" ELSE "gone"]
          PROVE  state \in [Workers -> States] /\ stopping \in BOOLEAN /\ caller \in Callers
      <4>1. \A w \in Workers : (IF w < started THEN "check" ELSE "gone") \in States
        BY DEF States
      <4> QED
        BY <3>2, <4>1 DEF Callers
    <3> QED
      BY <3>1, <3>2 DEF Init
  <2>2. job \in [Workers -> Job]
    BY DEF Init, Job
  <2> QED
    BY <2>1, <2>2, PoolAssumption DEF Init, TypeOK
<1>2. WorkersInBatch /\ CompletedCounts /\ BarrierJoinsAll /\ WorksInRange
  BY DEF Init, WorkersInBatch, CompletedCounts, BarrierJoinsAll, WorksInRange, Waiting
<1>3. ToDoUntouched
  BY DEF Init, ToDoUntouched, Waiting
<1> QED
  BY <1>1, <1>2, <1>3 DEF PoolInv, BarrierInv

(* A worker that works has its copy of the batch and stays inside it.      *)
LEMMA WorkerFacts ==
  ASSUME PoolInv, NEW w \in Workers
  PROVE  /\ CurrentJob \in Job /\ w \in Nat
         /\ RangeStart(CurrentJob, w) \in 0..count
         /\ RangeEnd(CurrentJob, w) \in 0..count
         /\ state[w] = "work" => job[w] = CurrentJob
         /\ next[w] \in Nat
         /\ HasItem(w) => /\ next[w] < RangeEnd(CurrentJob, w)
                          /\ next[w] \in Items
<1>0. count \in 0..MaxItems /\ participants \in 0..Threads /\ next[w] \in 0..MaxItems
  BY DEF PoolInv, BarrierInv, TypeOK
<1>1. CurrentJob \in Job /\ CurrentJob.count = count /\ w \in Nat
  BY <1>0, PoolAssumption, WorkersFinite DEF CurrentJob, Job, PoolInv, BarrierInv, TypeOK
<1>2. RangeStart(CurrentJob, w) \in 0..count /\ RangeEnd(CurrentJob, w) \in 0..count
  BY <1>1, RangesInBatch
<1>3. state[w] = "work" => job[w] = CurrentJob
  BY DEF PoolInv, BarrierInv, WorkersInBatch
<1>4. HasItem(w) => next[w] < RangeEnd(CurrentJob, w) /\ next[w] \in Items
  BY <1>0, <1>2, <1>3, PoolAssumption DEF HasItem, Items
<1> QED
  BY <1>0, <1>1, <1>2, <1>3, <1>4

(* The workers that have joined are finitely many.                         *)
LEMMA JoinedFinite ==
  /\ IsFiniteSet(JoinedBarrier) /\ Cardinality(JoinedBarrier) \in 0..Threads
  /\ Cardinality(JoinedBarrier) = Threads => JoinedBarrier = Workers
<1>1. JoinedBarrier \in SUBSET Workers
  BY DEF JoinedBarrier
<1>2. /\ IsFiniteSet(JoinedBarrier) /\ Cardinality(JoinedBarrier) <= Threads
      /\ Cardinality(JoinedBarrier) = Threads => JoinedBarrier = Workers
  BY <1>1, WorkersFinite, FS_Subset
<1> QED
  BY <1>2, FS_CardinalityType, PoolAssumption

(* The worker that finishes is one more to have joined.                    *)
LEMMA FinishJoins ==
  ASSUME PoolInv, NEW v \in Workers, FinishJob(v)
  PROVE  /\ Cardinality(JoinedBarrier') = Cardinality(JoinedBarrier) + 1
         /\ completed' = Cardinality(JoinedBarrier) + 1
         /\ completed' \in 0..Threads
<1>1. v \notin JoinedBarrier
  BY DEF FinishJob, JoinedBarrier
<1>2. /\ state[v] = "work" /\ observed[v] = epoch /\ caller \in Waiting
      /\ state \in [Workers -> States]
  BY DEF FinishJob, PoolInv, BarrierInv, WorkersInBatch, TypeOK
<1>3. JoinedBarrier' = JoinedBarrier \cup {v}
  BY <1>2 DEF FinishJob, JoinedBarrier
<1>4. Cardinality(JoinedBarrier') = Cardinality(JoinedBarrier) + 1
  BY <1>1, <1>3, JoinedFinite, FS_AddElement
<1>5. completed' = Cardinality(JoinedBarrier) + 1
  BY <1>2 DEF FinishJob, PoolInv, BarrierInv, CompletedCounts
<1>6. Cardinality(JoinedBarrier) # Threads
  BY <1>1, JoinedFinite
<1> QED
  BY <1>4, <1>5, <1>6, JoinedFinite, PoolAssumption

(* Every step keeps the types; completed stays within the threads because  *)
(* each worker joins a batch once.                                         *)
LEMMA PoolNextType ==
  ASSUME PoolInv, Next
  PROVE  TypeOK'
<1> USE PoolAssumption DEF poolVars, workerVars, callVars, TypeOK, States,
        Callers, Waiting, Serial, Returned
<1>0. PoolInv /\ TypeOK
  BY DEF PoolInv, BarrierInv
<1>1. ASSUME NEW n \in 0..MaxItems, RunSerial(n)
      PROVE TypeOK'
  BY <1>0, <1>1
     DEF RunSerial, BeginRun
<1>2. ASSUME NEW n \in 0..MaxItems, NEW used \in 2..Threads,
         used <= n, RunParallel(n, used)
      PROVE TypeOK'
  BY <1>0, <1>2
     DEF RunParallel, BeginRun, NotifyAll
<1>3. CASE Destroy
  BY <1>0, <1>3
     DEF Destroy, NotifyAll
<1>4. CASE AwaitDone
  BY <1>0, <1>4
     DEF AwaitDone
<1>5. CASE Barrier
  <2>1. caller' \in {"retry", "returned"}
    BY <1>5 DEF Barrier
  <2>2. UNCHANGED <<poolVars, workerVars, total, cursor, dispatches, failures, result>>
    BY <1>5 DEF Barrier
  <2> QED
    BY <1>0, <2>1, <2>2
<1>6. CASE ComputeSerially
  <2>1. cursor' \in 0..MaxItems /\ result' \in [Items -> Nat]
    <3>1. /\ cursor < total /\ cursor' = cursor + 1
          /\ result' = [result EXCEPT ![cursor] = dispatches]
      BY <1>6 DEF ComputeSerially
    <3>2. total \in 0..MaxItems /\ cursor \in 0..MaxItems
      BY <1>0
    <3>3. cursor' \in 0..MaxItems
      BY <3>1, <3>2
    <3>4. result' \in [Items -> Nat]
      BY <1>0, <3>1
    <3> QED
      BY <3>3, <3>4
  <2>2. UNCHANGED <<poolVars, workerVars, caller, total, dispatches, failures>>
    BY <1>6 DEF ComputeSerially
  <2> QED
    BY <1>0, <2>1, <2>2
<1>7. CASE ReturnSerially
  BY <1>0, <1>7
     DEF ReturnSerially
<1>8. CASE ThrowSerially
  BY <1>0, <1>8
     DEF ThrowSerially
<1>9. CASE Joined
  BY <1>0, <1>9
     DEF Joined
<1>10. ASSUME NEW v \in Workers, AwaitWork(v)
      PROVE TypeOK'
  BY <1>0, <1>10
     DEF AwaitWork
<1>11. ASSUME NEW v \in Workers, WorkerStops(v)
      PROVE TypeOK'
  BY <1>0, <1>11
     DEF WorkerStops
<1>12. ASSUME NEW v \in Workers, TakeJob(v)
      PROVE TypeOK'
  <2>1. CurrentJob \in Job /\ RangeStart(CurrentJob, v) \in 0..MaxItems
    BY <1>0, WorkerFacts
  <2>2. job' \in [Workers -> Job] /\ next' \in [Workers -> 0..MaxItems]
    BY <1>0, <1>12, <2>1 DEF TakeJob, CurrentJob
  <2> QED
    BY <1>0, <1>12, <2>2 DEF TakeJob
<1>13. ASSUME NEW v \in Workers, Compute(v)
      PROVE TypeOK'
  <2>1. /\ next[v] < RangeEnd(CurrentJob, v) /\ RangeEnd(CurrentJob, v) \in 0..count
        /\ job[v] = CurrentJob /\ next[v] \in Items
    BY <1>0, <1>13, WorkerFacts DEF Compute, HasItem
  <2>2. next[v] + 1 \in 0..MaxItems /\ job[v].batch \in Nat
    BY <1>0, <2>1 DEF CurrentJob
  <2> QED
    BY <1>0, <1>13, <2>2 DEF Compute
<1>14. ASSUME NEW v \in Workers, CatchFailure(v)
      PROVE TypeOK'
  BY <1>0, <1>14
     DEF CatchFailure
<1>15. ASSUME NEW v \in Workers, FinishJob(v)
      PROVE TypeOK'
  BY <1>0, <1>15, FinishJoins DEF FinishJob
<1>16. CASE WakeSpuriously
  BY <1>0, <1>16
     DEF WakeSpuriously
<1> QED
  BY <1>1, <1>2, <1>3, <1>4, <1>5, <1>6, <1>7, <1>8, <1>9, <1>10, <1>11,
     <1>12, <1>13, <1>14, <1>15, <1>16
     DEF Next, Coordinator, Worker

-----------------------------------------------------------------------------
(* The barrier                                                             *)

(* With everybody counted nobody is left in the batch.                     *)
LEMMA AllJoined ==
  ASSUME PoolInv, caller = "check", completed = Threads
  PROVE  \A w \in Workers : state[w] # "work" /\ observed[w] = epoch
<1>1. Cardinality(JoinedBarrier) = Threads
  BY DEF PoolInv, BarrierInv, CompletedCounts, Waiting
<1>2. JoinedBarrier = Workers
  BY <1>1, JoinedFinite
<1> QED
  BY <1>2 DEF JoinedBarrier

(* run starts a batch when no worker is in one, and takes its way out of   *)
(* the wait when none is left.                                             *)
LEMMA NextWorkersInBatch ==
  ASSUME PoolInv, Next
  PROVE  WorkersInBatch'
<1> USE PoolAssumption DEF poolVars, workerVars, callVars, WorkersInBatch,
        CurrentJob, Waiting, Serial, Returned
<1>0. TypeOK /\ WorkersInBatch /\ BarrierJoinsAll
  BY DEF PoolInv, BarrierInv
<1>1. ASSUME NEW n \in 0..MaxItems, RunSerial(n)
      PROVE WorkersInBatch'
  BY <1>0, <1>1
     DEF RunSerial, BeginRun, TypeOK, BarrierJoinsAll
<1>2. ASSUME NEW n \in 0..MaxItems, NEW used \in 2..Threads,
         used <= n, RunParallel(n, used)
      PROVE WorkersInBatch'
  BY <1>0, <1>2
     DEF RunParallel, BeginRun, NotifyAll, TypeOK, BarrierJoinsAll
<1>3. CASE Destroy
  BY <1>0, <1>3
     DEF Destroy, NotifyAll, TypeOK, BarrierJoinsAll
<1>4. CASE AwaitDone
  BY <1>0, <1>4
     DEF AwaitDone, TypeOK, BarrierJoinsAll
<1>5. CASE Barrier
  <2>1. \A w \in Workers : state[w] # "work"
    BY <1>5, AllJoined DEF Barrier
  <2> QED
    BY <1>0, <1>5, <2>1 DEF Barrier
<1>6. CASE ComputeSerially
  BY <1>0, <1>6
     DEF ComputeSerially, TypeOK, BarrierJoinsAll
<1>7. CASE ReturnSerially
  BY <1>0, <1>7
     DEF ReturnSerially, TypeOK, BarrierJoinsAll
<1>8. CASE ThrowSerially
  BY <1>0, <1>8
     DEF ThrowSerially, TypeOK, BarrierJoinsAll
<1>9. CASE Joined
  BY <1>0, <1>9
     DEF Joined, TypeOK, BarrierJoinsAll
<1>10. ASSUME NEW v \in Workers, AwaitWork(v)
      PROVE WorkersInBatch'
  BY <1>0, <1>10
     DEF AwaitWork, TypeOK, BarrierJoinsAll
<1>11. ASSUME NEW v \in Workers, WorkerStops(v)
      PROVE WorkersInBatch'
  BY <1>0, <1>11
     DEF WorkerStops, TypeOK, BarrierJoinsAll
<1>12. ASSUME NEW v \in Workers, TakeJob(v)
      PROVE WorkersInBatch'
  BY <1>0, <1>12
     DEF TakeJob, TypeOK, BarrierJoinsAll
<1>13. ASSUME NEW v \in Workers, Compute(v)
      PROVE WorkersInBatch'
  BY <1>0, <1>13
     DEF Compute, TypeOK, BarrierJoinsAll
<1>14. ASSUME NEW v \in Workers, CatchFailure(v)
      PROVE WorkersInBatch'
  BY <1>0, <1>14
     DEF CatchFailure, TypeOK, BarrierJoinsAll
<1>15. ASSUME NEW v \in Workers, FinishJob(v)
      PROVE WorkersInBatch'
  BY <1>0, <1>15
     DEF FinishJob, TypeOK, BarrierJoinsAll
<1>16. CASE WakeSpuriously
  BY <1>0, <1>16
     DEF WakeSpuriously, TypeOK, BarrierJoinsAll
<1> QED
  BY <1>1, <1>2, <1>3, <1>4, <1>5, <1>6, <1>7, <1>8, <1>9, <1>10, <1>11,
     <1>12, <1>13, <1>14, <1>15, <1>16
     DEF Next, Coordinator, Worker

(* A notification or a waiting worker changes nothing of the count, taking a *)
(* batch neither, since a worker that takes it had not joined yet.         *)
LEMMA NextCompletedCounts ==
  ASSUME PoolInv, Next
  PROVE  CompletedCounts'
<1> USE PoolAssumption DEF poolVars, workerVars, callVars, CompletedCounts,
        WorkersInBatch, Waiting, Serial, Returned
<1>0. PoolInv /\ TypeOK /\ WorkersInBatch /\ CompletedCounts
  BY DEF PoolInv, BarrierInv
<1>1. ASSUME NEW n \in 0..MaxItems, RunSerial(n)
      PROVE CompletedCounts'
  BY <1>1 DEF RunSerial
<1>2. ASSUME NEW n \in 0..MaxItems, NEW used \in 2..Threads,
         used <= n, RunParallel(n, used)
      PROVE CompletedCounts'
  <2>1. JoinedBarrier' = {}
    BY <1>0, <1>2 DEF RunParallel, BeginRun, NotifyAll, JoinedBarrier, TypeOK
  <2> QED
    BY <1>0, <1>2, <2>1, FS_EmptySet DEF RunParallel
<1>3. CASE Destroy
  BY <1>3 DEF Destroy
<1>4. CASE AwaitDone
  <2>1. JoinedBarrier' = JoinedBarrier
    BY <1>0, <1>4 DEF AwaitDone, JoinedBarrier, TypeOK
  <2> QED
    BY <1>0, <1>4, <2>1 DEF AwaitDone
<1>5. CASE Barrier
  BY <1>5 DEF Barrier
<1>6. CASE ComputeSerially
  BY <1>6 DEF ComputeSerially
<1>7. CASE ReturnSerially
  BY <1>7 DEF ReturnSerially
<1>8. CASE ThrowSerially
  BY <1>8 DEF ThrowSerially
<1>9. CASE Joined
  BY <1>9 DEF Joined
<1>10. ASSUME NEW v \in Workers, AwaitWork(v)
      PROVE CompletedCounts'
  <2>1. JoinedBarrier' = JoinedBarrier
    BY <1>0, <1>10 DEF AwaitWork, JoinedBarrier, TypeOK
  <2> QED
    BY <1>0, <1>10, <2>1 DEF AwaitWork
<1>11. ASSUME NEW v \in Workers, WorkerStops(v)
      PROVE CompletedCounts'
  <2>1. JoinedBarrier' = JoinedBarrier
    BY <1>0, <1>11 DEF WorkerStops, JoinedBarrier, TypeOK
  <2> QED
    BY <1>0, <1>11, <2>1 DEF WorkerStops
<1>12. ASSUME NEW v \in Workers, TakeJob(v)
      PROVE CompletedCounts'
  <2>1. JoinedBarrier' = JoinedBarrier
    BY <1>0, <1>12 DEF TakeJob, JoinedBarrier, TypeOK
  <2> QED
    BY <1>0, <1>12, <2>1 DEF TakeJob
<1>13. ASSUME NEW v \in Workers, Compute(v)
      PROVE CompletedCounts'
  <2>1. JoinedBarrier' = JoinedBarrier
    BY <1>0, <1>13 DEF Compute, JoinedBarrier, TypeOK
  <2> QED
    BY <1>0, <1>13, <2>1 DEF Compute
<1>14. ASSUME NEW v \in Workers, CatchFailure(v)
      PROVE CompletedCounts'
  <2>1. JoinedBarrier' = JoinedBarrier
    BY <1>0, <1>14 DEF CatchFailure, JoinedBarrier, TypeOK
  <2> QED
    BY <1>0, <1>14, <2>1 DEF CatchFailure
<1>15. ASSUME NEW v \in Workers, FinishJob(v)
      PROVE CompletedCounts'
  BY <1>0, <1>15, FinishJoins
<1>16. CASE WakeSpuriously
  <2>1. JoinedBarrier' = JoinedBarrier
    BY <1>0, <1>16 DEF WakeSpuriously, JoinedBarrier, TypeOK
  <2> QED
    BY <1>0, <1>16, <2>1 DEF WakeSpuriously
<1> QED
  BY <1>1, <1>2, <1>3, <1>4, <1>5, <1>6, <1>7, <1>8, <1>9, <1>10, <1>11,
     <1>12, <1>13, <1>14, <1>15, <1>16
     DEF Next, Coordinator, Worker

(* Only Barrier leaves the wait, and only when all have joined.            *)
LEMMA NextBarrierJoinsAll ==
  ASSUME PoolInv, Next
  PROVE  BarrierJoinsAll'
<1> USE PoolAssumption DEF poolVars, workerVars, callVars, BarrierJoinsAll,
        Waiting, Serial, Returned
<1>0. TypeOK /\ WorkersInBatch /\ BarrierJoinsAll
  BY DEF PoolInv, BarrierInv
<1>1. ASSUME NEW n \in 0..MaxItems, RunSerial(n)
      PROVE BarrierJoinsAll'
  BY <1>0, <1>1
     DEF RunSerial, BeginRun, TypeOK, WorkersInBatch
<1>2. ASSUME NEW n \in 0..MaxItems, NEW used \in 2..Threads,
         used <= n, RunParallel(n, used)
      PROVE BarrierJoinsAll'
  BY <1>0, <1>2
     DEF RunParallel, BeginRun, NotifyAll, TypeOK, WorkersInBatch
<1>3. CASE Destroy
  BY <1>0, <1>3
     DEF Destroy, NotifyAll, TypeOK, WorkersInBatch
<1>4. CASE AwaitDone
  BY <1>0, <1>4
     DEF AwaitDone, TypeOK, WorkersInBatch
<1>5. CASE Barrier
  BY <1>0, <1>5, AllJoined DEF Barrier
<1>6. CASE ComputeSerially
  BY <1>0, <1>6
     DEF ComputeSerially, TypeOK, WorkersInBatch
<1>7. CASE ReturnSerially
  BY <1>0, <1>7
     DEF ReturnSerially, TypeOK, WorkersInBatch
<1>8. CASE ThrowSerially
  BY <1>0, <1>8
     DEF ThrowSerially, TypeOK, WorkersInBatch
<1>9. CASE Joined
  BY <1>0, <1>9
     DEF Joined, TypeOK, WorkersInBatch
<1>10. ASSUME NEW v \in Workers, AwaitWork(v)
      PROVE BarrierJoinsAll'
  BY <1>0, <1>10
     DEF AwaitWork, TypeOK, WorkersInBatch
<1>11. ASSUME NEW v \in Workers, WorkerStops(v)
      PROVE BarrierJoinsAll'
  BY <1>0, <1>11
     DEF WorkerStops, TypeOK, WorkersInBatch
<1>12. ASSUME NEW v \in Workers, TakeJob(v)
      PROVE BarrierJoinsAll'
  BY <1>0, <1>12
     DEF TakeJob, TypeOK, WorkersInBatch
<1>13. ASSUME NEW v \in Workers, Compute(v)
      PROVE BarrierJoinsAll'
  BY <1>0, <1>13
     DEF Compute, TypeOK, WorkersInBatch
<1>14. ASSUME NEW v \in Workers, CatchFailure(v)
      PROVE BarrierJoinsAll'
  BY <1>0, <1>14
     DEF CatchFailure, TypeOK, WorkersInBatch
<1>15. ASSUME NEW v \in Workers, FinishJob(v)
      PROVE BarrierJoinsAll'
  BY <1>0, <1>15
     DEF FinishJob, TypeOK, WorkersInBatch
<1>16. CASE WakeSpuriously
  BY <1>0, <1>16
     DEF WakeSpuriously, TypeOK, WorkersInBatch
<1> QED
  BY <1>1, <1>2, <1>3, <1>4, <1>5, <1>6, <1>7, <1>8, <1>9, <1>10, <1>11,
     <1>12, <1>13, <1>14, <1>15, <1>16
     DEF Next, Coordinator, Worker

-----------------------------------------------------------------------------
(* The ranges                                                              *)

(* What is to do changes with the range, the batch and the epoch only.      *)
LEMMA ToDoUnchanged ==
  ASSUME PoolInv, NEW w \in Workers,
         UNCHANGED <<epoch, count, participants, dispatches, result>>,
         UNCHANGED <<observed[w], job[w], next[w], failed[w]>>,
         state'[w] = "work" <=> state[w] = "work"
  PROVE  ToDo(w)' = ToDo(w)
<1>1. HasItem(w)' = HasItem(w)
  BY DEF HasItem, RangeEnd
<1> QED
  BY <1>1 DEF ToDo, CurrentJob, RangeStart, RangeEnd

(* What a worker has still to do is of its range.                          *)
LEMMA ToDoInRange ==
  ASSUME PoolInv, NEW w \in Workers
  PROVE  ToDo(w) \subseteq RangeStart(CurrentJob, w)..(RangeEnd(CurrentJob, w) - 1)
<1>1. HasItem(w) => next[w] >= RangeStart(CurrentJob, w)
  BY DEF PoolInv, WorksInRange, HasItem
<1>2. /\ RangeStart(CurrentJob, w) \in Nat /\ RangeEnd(CurrentJob, w) \in Nat
      /\ next[w] \in Nat /\ count \in Nat
  BY WorkerFacts DEF PoolInv, BarrierInv, TypeOK
<1> QED
  BY <1>1, <1>2 DEF ToDo

(* Two workers have nothing in common to do.                               *)
LEMMA ToDoExclusive ==
  ASSUME PoolInv, NEW v \in Workers, NEW w \in Workers, v # w
  PROVE  ToDo(v) \cap ToDo(w) = {}
<1>0. /\ CurrentJob \in Job /\ v \in Nat /\ w \in Nat
      /\ RangeStart(CurrentJob, v) \in Nat /\ RangeEnd(CurrentJob, v) \in Nat
      /\ RangeStart(CurrentJob, w) \in Nat /\ RangeEnd(CurrentJob, w) \in Nat
  <2>1. count \in Nat
    BY DEF PoolInv, BarrierInv, TypeOK
  <2> QED
    BY <2>1, WorkerFacts
<1>1. CASE v < w
  <2>1. \/ RangeEnd(CurrentJob, v) <= RangeStart(CurrentJob, w)
        \/ RangeEnd(CurrentJob, w) = 0
    BY <1>0, <1>1, RangesInOrder
  <2> QED
    BY <1>0, <2>1, ToDoInRange
<1>2. CASE w < v
  <2>1. \/ RangeEnd(CurrentJob, w) <= RangeStart(CurrentJob, v)
        \/ RangeEnd(CurrentJob, v) = 0
    BY <1>0, <1>2, RangesInOrder
  <2> QED
    BY <1>0, <2>1, ToDoInRange
<1> QED
  BY <1>0, <1>1, <1>2

(* While the batch lasts and nothing is computed, less to do is no worse.  *)
LEMMA LessToDo ==
  ASSUME PoolInv, UNCHANGED <<dispatches, result>>,
         caller' \in Waiting => caller \in Waiting,
         caller' \in Waiting => \A w \in Workers : ToDo(w)' \subseteq ToDo(w)
  PROVE  ToDoUntouched'
BY DEF PoolInv, ToDoUntouched

(* A worker computes items of its own range only, a retry starts when nobody *)
(* has anything to do, and no result is of a batch that has not begun.     *)
LEMMA NextToDoUntouched ==
  ASSUME PoolInv, Next
  PROVE  ToDoUntouched'
<1> USE PoolAssumption DEF poolVars, workerVars, callVars, Waiting, Serial,
        Returned
<1>0. PoolInv /\ TypeOK /\ WorkersInBatch /\ BarrierJoinsAll /\ ToDoUntouched
  BY DEF PoolInv, BarrierInv
<1>1. ASSUME NEW n \in 0..MaxItems, RunSerial(n)
      PROVE ToDoUntouched'
  <2>1. \A i \in Items : result'[i] <= dispatches'
    BY <1>0, <1>1 DEF RunSerial, BeginRun, ToDoUntouched, TypeOK
  <2> QED
    BY <1>1, <2>1 DEF RunSerial, ToDoUntouched
<1>2. ASSUME NEW n \in 0..MaxItems, NEW used \in 2..Threads,
         used <= n, RunParallel(n, used)
      PROVE ToDoUntouched'
  <2>1. \A i \in Items : result'[i] <= dispatches' /\ result'[i] # dispatches'
    BY <1>0, <1>2 DEF RunParallel, BeginRun, ToDoUntouched, TypeOK
  <2> QED
    BY <2>1 DEF ToDoUntouched
<1>3. CASE Destroy
  BY <1>0, <1>3, LessToDo DEF Destroy
<1>4. CASE AwaitDone
  <2>1. \A w \in Workers : ToDo(w)' = ToDo(w)
    BY <1>0, <1>4, ToDoUnchanged DEF AwaitDone, TypeOK
  <2> QED
    BY <1>0, <1>4, <2>1, LessToDo DEF AwaitDone
<1>5. CASE Barrier
  BY <1>0, <1>5, LessToDo DEF Barrier
<1>6. CASE ComputeSerially
  <2>1. \A i \in Items : result'[i] <= dispatches'
    BY <1>0, <1>6 DEF ComputeSerially, ToDoUntouched, TypeOK
  <2> QED
    BY <1>6, <2>1 DEF ComputeSerially, ToDoUntouched
<1>7. CASE ReturnSerially
  BY <1>0, <1>7, LessToDo DEF ReturnSerially
<1>8. CASE ThrowSerially
  BY <1>0, <1>8, LessToDo DEF ThrowSerially
<1>9. CASE Joined
  BY <1>0, <1>9, LessToDo DEF Joined
<1>10. ASSUME NEW v \in Workers, AwaitWork(v)
      PROVE ToDoUntouched'
  <2>1. \A w \in Workers : ToDo(w)' = ToDo(w)
    BY <1>0, <1>10, ToDoUnchanged DEF AwaitWork, TypeOK
  <2> QED
    BY <1>0, <1>10, <2>1, LessToDo DEF AwaitWork
<1>11. ASSUME NEW v \in Workers, WorkerStops(v)
      PROVE ToDoUntouched'
  <2>1. \A w \in Workers : ToDo(w)' = ToDo(w)
    BY <1>0, <1>11, ToDoUnchanged DEF WorkerStops, TypeOK
  <2> QED
    BY <1>0, <1>11, <2>1, LessToDo DEF WorkerStops
<1>12. ASSUME NEW v \in Workers, TakeJob(v)
      PROVE ToDoUntouched'
  <2>1. ASSUME NEW w \in Workers PROVE ToDo(w)' \subseteq ToDo(w)
    <3>1. CASE w = v
      <4>1. /\ CurrentJob' = CurrentJob /\ job'[v] = CurrentJob
            /\ next'[v] = RangeStart(CurrentJob, v)
            /\ observed'[v] = epoch' /\ observed[v] # epoch
        BY <1>0, <1>12 DEF TakeJob, CurrentJob, TypeOK
      <4>2. ToDo(v) = RangeStart(CurrentJob, v)..(RangeEnd(CurrentJob, v) - 1)
        BY <4>1 DEF ToDo
      <4>3. RangeEnd(CurrentJob, v)' = RangeEnd(CurrentJob, v)
        BY <4>1 DEF RangeEnd
      <4> QED
        BY <3>1, <4>1, <4>2, <4>3 DEF ToDo
    <3>2. CASE w # v
      BY <1>0, <1>12, <3>2, ToDoUnchanged DEF TakeJob, TypeOK
    <3> QED
      BY <3>1, <3>2
  <2> QED
    BY <1>0, <1>12, <2>1, LessToDo DEF TakeJob
<1>13. ASSUME NEW v \in Workers, Compute(v)
      PROVE ToDoUntouched'
  <2>1. /\ next[v] \in Items /\ next[v] \in ToDo(v)
        /\ next[v] \in Nat /\ RangeEnd(CurrentJob, v) \in Nat
        /\ job[v] = CurrentJob /\ observed[v] = epoch
    <3>1. HasItem(v) /\ observed[v] = epoch /\ count \in Nat
      BY <1>0, <1>13 DEF Compute, HasItem, WorkersInBatch, TypeOK
    <3> QED
      BY <1>0, <3>1, WorkerFacts DEF ToDo, HasItem
  <2>2. /\ \A i \in Items : i # next[v] => result'[i] = result[i]
        /\ \A i \in Items : result'[i] <= dispatches'
    BY <1>0, <1>13, <2>1 DEF Compute, CurrentJob, ToDoUntouched, TypeOK
  <2>3. ToDo(v)' \subseteq ToDo(v) \ {next[v]}
    <3>1. CurrentJob' = CurrentJob /\ next'[v] = next[v] + 1 /\ observed'[v] = epoch'
      BY <1>0, <1>13, <2>1 DEF Compute, CurrentJob, TypeOK
    <3>2. RangeEnd(CurrentJob, v)' = RangeEnd(CurrentJob, v)
      BY <3>1 DEF RangeEnd
    <3>3. HasItem(v) /\ ToDo(v) = next[v]..(RangeEnd(CurrentJob, v) - 1)
      BY <1>13, <2>1 DEF Compute, ToDo
    <3> QED
      BY <2>1, <3>1, <3>2, <3>3 DEF ToDo
  <2>4. ASSUME NEW w \in Workers, w # v PROVE ToDo(w)' = ToDo(w) /\ next[v] \notin ToDo(w)
    <3>1. HasItem(w)' = HasItem(w)
      BY <1>0, <1>13, <2>4 DEF Compute, HasItem, RangeEnd, TypeOK
    <3>2. ToDo(w)' = ToDo(w)
      BY <1>0, <1>13, <2>4, <3>1
         DEF Compute, ToDo, CurrentJob, RangeStart, RangeEnd, TypeOK
    <3> QED
      BY <1>0, <2>1, <2>4, <3>2, ToDoExclusive
  <2>5. ASSUME NEW w \in Workers, NEW i \in Items, i \in ToDo(w)', caller' \in Waiting
        PROVE  result'[i] # dispatches'
    <3>1. i \in ToDo(w) /\ i # next[v]
      BY <2>3, <2>4, <2>5
    <3>2. result[i] # dispatches
      BY <1>0, <1>13, <2>5, <3>1 DEF Compute, ToDoUntouched
    <3> QED
      BY <1>13, <2>2, <3>1, <3>2 DEF Compute
  <2> QED
    BY <2>2, <2>5 DEF ToDoUntouched
<1>14. ASSUME NEW v \in Workers, CatchFailure(v)
      PROVE ToDoUntouched'
  <2>1. ASSUME NEW w \in Workers PROVE ToDo(w)' \subseteq ToDo(w)
    <3>1. CASE w = v
      <4>1. observed'[v] = epoch' /\ failed'[v]
        BY <1>0, <1>14 DEF CatchFailure, HasItem, WorkersInBatch, TypeOK
      <4> QED
        BY <3>1, <4>1 DEF ToDo, HasItem
    <3>2. CASE w # v
      BY <1>0, <1>14, <3>2, ToDoUnchanged DEF CatchFailure, TypeOK
    <3> QED
      BY <3>1, <3>2
  <2> QED
    BY <1>0, <1>14, <2>1, LessToDo DEF CatchFailure
<1>15. ASSUME NEW v \in Workers, FinishJob(v)
      PROVE ToDoUntouched'
  <2>1. ASSUME NEW w \in Workers PROVE ToDo(w)' \subseteq ToDo(w)
    <3>1. CASE w = v
      <4>1. observed'[v] = epoch' /\ state'[v] # "work"
        BY <1>0, <1>15 DEF FinishJob, WorkersInBatch, TypeOK
      <4> QED
        BY <3>1, <4>1 DEF ToDo, HasItem
    <3>2. CASE w # v
      BY <1>0, <1>15, <3>2, ToDoUnchanged DEF FinishJob, TypeOK
    <3> QED
      BY <3>1, <3>2
  <2> QED
    BY <1>0, <1>15, <2>1, LessToDo DEF FinishJob, WorkersInBatch
<1>16. CASE WakeSpuriously
  <2>1. \A w \in Workers : ToDo(w)' = ToDo(w)
    BY <1>0, <1>16, ToDoUnchanged DEF WakeSpuriously, TypeOK
  <2> QED
    BY <1>0, <1>16, <2>1, LessToDo DEF WakeSpuriously
<1> QED
  BY <1>1, <1>2, <1>3, <1>4, <1>5, <1>6, <1>7, <1>8, <1>9, <1>10, <1>11,
     <1>12, <1>13, <1>14, <1>15, <1>16
     DEF Next, Coordinator, Worker

(* A worker starts at the start of its range and goes up.                  *)
LEMMA NextWorksInRange ==
  ASSUME PoolInv, Next
  PROVE  WorksInRange'
<1> USE PoolAssumption DEF poolVars, workerVars, callVars, Waiting, Serial,
        Returned
<1>0. PoolInv /\ TypeOK /\ WorkersInBatch /\ BarrierJoinsAll /\ WorksInRange
  BY DEF PoolInv, BarrierInv
<1>1. ASSUME NEW n \in 0..MaxItems, RunSerial(n)
      PROVE WorksInRange'
  <2>1. \A w \in Workers : state'[w] # "work"
    BY <1>0, <1>1 DEF RunSerial, BeginRun, NotifyAll, BarrierJoinsAll, TypeOK
  <2> QED
    BY <2>1 DEF WorksInRange
<1>2. ASSUME NEW n \in 0..MaxItems, NEW used \in 2..Threads,
         used <= n, RunParallel(n, used)
      PROVE WorksInRange'
  <2>1. \A w \in Workers : state'[w] # "work"
    BY <1>0, <1>2 DEF RunParallel, BeginRun, NotifyAll, BarrierJoinsAll, TypeOK
  <2> QED
    BY <2>1 DEF WorksInRange
<1>3. CASE Destroy
  <2>1. UNCHANGED CurrentJob
    BY <1>3 DEF Destroy, CurrentJob
  <2>2. \A w \in Workers : state'[w] = "work" => state[w] = "work" /\ next'[w] = next[w]
    BY <1>0, <1>3 DEF Destroy, NotifyAll, TypeOK
  <2> QED
    BY <1>0, <2>1, <2>2 DEF WorksInRange, RangeStart
<1>4. CASE AwaitDone
  <2>1. UNCHANGED CurrentJob
    BY <1>4 DEF AwaitDone, CurrentJob
  <2>2. \A w \in Workers : state'[w] = "work" => state[w] = "work" /\ next'[w] = next[w]
    BY <1>0, <1>4 DEF AwaitDone, TypeOK
  <2> QED
    BY <1>0, <2>1, <2>2 DEF WorksInRange, RangeStart
<1>5. CASE Barrier
  <2>1. UNCHANGED CurrentJob
    BY <1>5 DEF Barrier, CurrentJob
  <2>2. \A w \in Workers : state'[w] = "work" => state[w] = "work" /\ next'[w] = next[w]
    BY <1>0, <1>5 DEF Barrier, TypeOK
  <2> QED
    BY <1>0, <2>1, <2>2 DEF WorksInRange, RangeStart
<1>6. CASE ComputeSerially
  <2>1. UNCHANGED CurrentJob
    BY <1>6 DEF ComputeSerially, CurrentJob
  <2>2. \A w \in Workers : state'[w] = "work" => state[w] = "work" /\ next'[w] = next[w]
    BY <1>0, <1>6 DEF ComputeSerially, TypeOK
  <2> QED
    BY <1>0, <2>1, <2>2 DEF WorksInRange, RangeStart
<1>7. CASE ReturnSerially
  <2>1. UNCHANGED CurrentJob
    BY <1>7 DEF ReturnSerially, CurrentJob
  <2>2. \A w \in Workers : state'[w] = "work" => state[w] = "work" /\ next'[w] = next[w]
    BY <1>0, <1>7 DEF ReturnSerially, TypeOK
  <2> QED
    BY <1>0, <2>1, <2>2 DEF WorksInRange, RangeStart
<1>8. CASE ThrowSerially
  <2>1. UNCHANGED CurrentJob
    BY <1>8 DEF ThrowSerially, CurrentJob
  <2>2. \A w \in Workers : state'[w] = "work" => state[w] = "work" /\ next'[w] = next[w]
    BY <1>0, <1>8 DEF ThrowSerially, TypeOK
  <2> QED
    BY <1>0, <2>1, <2>2 DEF WorksInRange, RangeStart
<1>9. CASE Joined
  <2>1. UNCHANGED CurrentJob
    BY <1>9 DEF Joined, CurrentJob
  <2>2. \A w \in Workers : state'[w] = "work" => state[w] = "work" /\ next'[w] = next[w]
    BY <1>0, <1>9 DEF Joined, TypeOK
  <2> QED
    BY <1>0, <2>1, <2>2 DEF WorksInRange, RangeStart
<1>10. ASSUME NEW v \in Workers, AwaitWork(v)
      PROVE WorksInRange'
  <2>1. UNCHANGED CurrentJob
    BY <1>10 DEF AwaitWork, CurrentJob
  <2>2. \A w \in Workers : state'[w] = "work" => state[w] = "work" /\ next'[w] = next[w]
    BY <1>0, <1>10 DEF AwaitWork, TypeOK
  <2> QED
    BY <1>0, <2>1, <2>2 DEF WorksInRange, RangeStart
<1>11. ASSUME NEW v \in Workers, WorkerStops(v)
      PROVE WorksInRange'
  <2>1. UNCHANGED CurrentJob
    BY <1>11 DEF WorkerStops, CurrentJob
  <2>2. \A w \in Workers : state'[w] = "work" => state[w] = "work" /\ next'[w] = next[w]
    BY <1>0, <1>11 DEF WorkerStops, TypeOK
  <2> QED
    BY <1>0, <2>1, <2>2 DEF WorksInRange, RangeStart
<1>12. ASSUME NEW v \in Workers, TakeJob(v)
      PROVE WorksInRange'
  <2>1. UNCHANGED CurrentJob
    BY <1>12 DEF TakeJob, CurrentJob
  <2>2. next'[v] = RangeStart(CurrentJob, v)
    BY <1>0, <1>12 DEF TakeJob, HasItem, CurrentJob, TypeOK
  <2>3. \A w \in Workers : w # v => state'[w] = state[w] /\ next'[w] = next[w]
    BY <1>0, <1>12 DEF TakeJob, TypeOK
  <2>4. RangeStart(CurrentJob, v) \in Nat /\ next[v] \in Nat
    <3>1. count \in Nat
      BY <1>0 DEF TypeOK
    <3> QED
      BY <1>0, <3>1, WorkerFacts
  <2>5. next'[v] >= RangeStart(CurrentJob, v)
    BY <1>0, <2>2, <2>4 DEF WorksInRange
  <2> QED
    BY <1>0, <2>1, <2>3, <2>5 DEF WorksInRange, RangeStart
<1>13. ASSUME NEW v \in Workers, Compute(v)
      PROVE WorksInRange'
  <2>1. UNCHANGED CurrentJob
    BY <1>13 DEF Compute, CurrentJob
  <2>2. state[v] = "work" /\ next'[v] = next[v] + 1
    BY <1>0, <1>13 DEF Compute, HasItem, CurrentJob, TypeOK
  <2>3. \A w \in Workers : w # v => state'[w] = state[w] /\ next'[w] = next[w]
    BY <1>0, <1>13 DEF Compute, TypeOK
  <2>4. RangeStart(CurrentJob, v) \in Nat /\ next[v] \in Nat
    <3>1. count \in Nat
      BY <1>0 DEF TypeOK
    <3> QED
      BY <1>0, <3>1, WorkerFacts
  <2>5. next'[v] >= RangeStart(CurrentJob, v)
    BY <1>0, <2>2, <2>4 DEF WorksInRange
  <2> QED
    BY <1>0, <2>1, <2>3, <2>5 DEF WorksInRange, RangeStart
<1>14. ASSUME NEW v \in Workers, CatchFailure(v)
      PROVE WorksInRange'
  <2>1. UNCHANGED CurrentJob
    BY <1>14 DEF CatchFailure, CurrentJob
  <2>2. \A w \in Workers : state'[w] = "work" => state[w] = "work" /\ next'[w] = next[w]
    BY <1>0, <1>14 DEF CatchFailure, TypeOK
  <2> QED
    BY <1>0, <2>1, <2>2 DEF WorksInRange, RangeStart
<1>15. ASSUME NEW v \in Workers, FinishJob(v)
      PROVE WorksInRange'
  <2>1. UNCHANGED CurrentJob
    BY <1>15 DEF FinishJob, CurrentJob
  <2>2. \A w \in Workers : state'[w] = "work" => state[w] = "work" /\ next'[w] = next[w]
    BY <1>0, <1>15 DEF FinishJob, TypeOK
  <2> QED
    BY <1>0, <2>1, <2>2 DEF WorksInRange, RangeStart
<1>16. CASE WakeSpuriously
  <2>1. UNCHANGED CurrentJob
    BY <1>16 DEF WakeSpuriously, CurrentJob
  <2>2. \A w \in Workers : state'[w] = "work" => state[w] = "work" /\ next'[w] = next[w]
    BY <1>0, <1>16 DEF WakeSpuriously, TypeOK
  <2> QED
    BY <1>0, <2>1, <2>2 DEF WorksInRange, RangeStart
<1> QED
  BY <1>1, <1>2, <1>3, <1>4, <1>5, <1>6, <1>7, <1>8, <1>9, <1>10, <1>11,
     <1>12, <1>13, <1>14, <1>15, <1>16
     DEF Next, Coordinator, Worker

-----------------------------------------------------------------------------
(* Results                                                                 *)

(* run keeps its arguments while it waits, and a serial pass goes item by  *)
(* item from the first.                                                    *)
LEMMA NextCallAccounted ==
  ASSUME PoolInv, ResultInv, Next
  PROVE  (WaitsForCall /\ SerialComputed)'
<1> USE PoolAssumption DEF poolVars, workerVars, callVars, Waiting, Serial,
        Returned
<1>0. /\ PoolInv /\ TypeOK /\ BarrierJoinsAll
      /\ WaitsForCall /\ SerialComputed
  BY DEF PoolInv, BarrierInv, ResultInv
<1>1. ASSUME NEW n \in 0..MaxItems, RunSerial(n)
      PROVE (WaitsForCall /\ SerialComputed)'
  <2>1. cursor' = 0 /\ caller' = "serial"
    BY <1>1 DEF RunSerial, BeginRun
  <2>2. \A i \in Items : ~(i < 0)
    BY PoolAssumption DEF Items
  <2> QED
    BY <2>1, <2>2 DEF WaitsForCall, SerialComputed
<1>2. ASSUME NEW n \in 0..MaxItems, NEW used \in 2..Threads,
         used <= n, RunParallel(n, used)
      PROVE (WaitsForCall /\ SerialComputed)'
  BY <1>0, <1>2
     DEF RunParallel, BeginRun, NotifyAll, WaitsForCall, SerialComputed
<1>3. CASE Destroy
  BY <1>0, <1>3
     DEF Destroy, NotifyAll, WaitsForCall, SerialComputed
<1>4. CASE AwaitDone
  BY <1>0, <1>4
     DEF AwaitDone, WaitsForCall, SerialComputed
<1>5. CASE Barrier
  <2>1. cursor' = 0 /\ caller' \in {"retry", "returned"}
    BY <1>0, <1>5 DEF Barrier, WaitsForCall
  <2>2. \A i \in Items : ~(i < 0)
    BY PoolAssumption DEF Items
  <2> QED
    BY <2>1, <2>2 DEF WaitsForCall, SerialComputed
<1>6. CASE ComputeSerially
  <2>1. /\ cursor < total /\ caller \in Serial /\ cursor' = cursor + 1
        /\ UNCHANGED <<caller, dispatches>> /\ cursor \in Nat
        /\ result' = [result EXCEPT ![cursor] = dispatches]
        /\ result \in [Items -> Nat]
    BY <1>0, <1>6 DEF ComputeSerially, TypeOK
  <2>2. ASSUME NEW i \in Items, i < cursor' PROVE result'[i] = dispatches
    <3>1. CASE i = cursor
      BY <2>1, <3>1
    <3>2. CASE i # cursor
      <4>1. i < cursor
        BY <2>1, <2>2, <3>2, PoolAssumption DEF Items
      <4> QED
        BY <1>0, <2>1, <3>2, <4>1 DEF SerialComputed
    <3> QED
      BY <3>1, <3>2
  <2> QED
    BY <2>1, <2>2 DEF WaitsForCall, SerialComputed
<1>7. CASE ReturnSerially
  BY <1>0, <1>7
     DEF ReturnSerially, WaitsForCall, SerialComputed
<1>8. CASE ThrowSerially
  BY <1>0, <1>8
     DEF ThrowSerially, WaitsForCall, SerialComputed
<1>9. CASE Joined
  BY <1>0, <1>9
     DEF Joined, WaitsForCall, SerialComputed
<1>10. ASSUME NEW v \in Workers, AwaitWork(v)
      PROVE (WaitsForCall /\ SerialComputed)'
  BY <1>0, <1>10
     DEF AwaitWork, WaitsForCall, SerialComputed
<1>11. ASSUME NEW v \in Workers, WorkerStops(v)
      PROVE (WaitsForCall /\ SerialComputed)'
  BY <1>0, <1>11
     DEF WorkerStops, WaitsForCall, SerialComputed
<1>12. ASSUME NEW v \in Workers, TakeJob(v)
      PROVE (WaitsForCall /\ SerialComputed)'
  BY <1>0, <1>12
     DEF TakeJob, WaitsForCall, SerialComputed
<1>13. ASSUME NEW v \in Workers, Compute(v)
      PROVE (WaitsForCall /\ SerialComputed)'
  <2>1. caller \in Waiting
    BY <1>0, <1>13 DEF Compute, HasItem, BarrierJoinsAll
  <2> QED
    BY <1>0, <1>13, <2>1 DEF Compute, WaitsForCall, SerialComputed
<1>14. ASSUME NEW v \in Workers, CatchFailure(v)
      PROVE (WaitsForCall /\ SerialComputed)'
  BY <1>0, <1>14
     DEF CatchFailure, WaitsForCall, SerialComputed
<1>15. ASSUME NEW v \in Workers, FinishJob(v)
      PROVE (WaitsForCall /\ SerialComputed)'
  BY <1>0, <1>15
     DEF FinishJob, WaitsForCall, SerialComputed
<1>16. CASE WakeSpuriously
  BY <1>0, <1>16
     DEF WakeSpuriously, WaitsForCall, SerialComputed
<1> QED
  BY <1>1, <1>2, <1>3, <1>4, <1>5, <1>6, <1>7, <1>8, <1>9, <1>10, <1>11,
     <1>12, <1>13, <1>14, <1>15, <1>16
     DEF Next, Coordinator, Worker

(* While the batch lasts, nothing is computed and no worker has less to    *)
(* do or a failure less, no item is lost.                                  *)
LEMMA NoItemLost ==
  ASSUME ResultInv, UNCHANGED <<count, participants, dispatches, result>>,
         caller' \in Waiting => caller \in Waiting,
         caller' \in Waiting =>
           \A w \in Workers : /\ ToDo(w) \subseteq ToDo(w)'
                              /\ failed[w] => failed'[w]
  PROVE  RangesComputed'
<1>1. \A w \in Workers : MyRange(w)' = MyRange(w)
  BY DEF MyRange, CurrentJob, RangeStart, RangeEnd
<1> QED
  BY <1>1 DEF ResultInv, RangesComputed

(* A worker that takes the batch has its whole range to do, and an item    *)
(* leaves what is to do only with its result or with a failure.            *)
LEMMA NextRangesComputed ==
  ASSUME PoolInv, ResultInv, Next
  PROVE  RangesComputed'
<1> USE PoolAssumption DEF poolVars, workerVars, callVars, Waiting, Serial,
        Returned
<1>0. PoolInv /\ TypeOK /\ WorkersInBatch /\ BarrierJoinsAll /\ RangesComputed
  BY DEF PoolInv, BarrierInv, ResultInv
<1>1. ASSUME NEW n \in 0..MaxItems, RunSerial(n)
      PROVE RangesComputed'
  BY <1>0, <1>1 DEF RunSerial, BeginRun, RangesComputed
<1>2. ASSUME NEW n \in 0..MaxItems, NEW used \in 2..Threads,
         used <= n, RunParallel(n, used)
      PROVE RangesComputed'
  <2>1. \A w \in Workers : observed'[w] # epoch'
    BY <1>0, <1>2 DEF RunParallel, BarrierJoinsAll, BeginRun, TypeOK
  <2>2. \A w \in Workers : ToDo(w)' = MyRange(w)'
    BY <2>1 DEF ToDo, MyRange
  <2> QED
    BY <2>2 DEF RangesComputed
<1>3. CASE Destroy
  BY <1>0, <1>3 DEF Destroy, RangesComputed
<1>4. CASE AwaitDone
  <2>1. \A w \in Workers : ToDo(w)' = ToDo(w)
    BY <1>0, <1>4, ToDoUnchanged DEF AwaitDone, TypeOK
  <2> QED
    BY <1>0, <1>4, <2>1, NoItemLost DEF AwaitDone
<1>5. CASE Barrier
  BY <1>0, <1>5 DEF Barrier, RangesComputed
<1>6. CASE ComputeSerially
  BY <1>0, <1>6 DEF ComputeSerially, RangesComputed
<1>7. CASE ReturnSerially
  BY <1>0, <1>7 DEF ReturnSerially, RangesComputed
<1>8. CASE ThrowSerially
  BY <1>0, <1>8 DEF ThrowSerially, RangesComputed
<1>9. CASE Joined
  BY <1>0, <1>9 DEF Joined, RangesComputed
<1>10. ASSUME NEW v \in Workers, AwaitWork(v)
      PROVE RangesComputed'
  <2>1. \A w \in Workers : ToDo(w)' = ToDo(w)
    BY <1>0, <1>10, ToDoUnchanged DEF AwaitWork, TypeOK
  <2> QED
    BY <1>0, <1>10, <2>1, NoItemLost DEF AwaitWork
<1>11. ASSUME NEW v \in Workers, WorkerStops(v)
      PROVE RangesComputed'
  <2>1. \A w \in Workers : ToDo(w)' = ToDo(w)
    BY <1>0, <1>11, ToDoUnchanged DEF WorkerStops, TypeOK
  <2> QED
    BY <1>0, <1>11, <2>1, NoItemLost DEF WorkerStops
<1>12. ASSUME NEW v \in Workers, TakeJob(v)
      PROVE RangesComputed'
  <2>1. CurrentJob' = CurrentJob /\ \A w \in Workers : MyRange(w)' = MyRange(w)
    BY <1>12 DEF TakeJob, CurrentJob, MyRange, RangeStart, RangeEnd
  <2>2. /\ job'[v] = CurrentJob' /\ next'[v] = RangeStart(CurrentJob, v)
        /\ observed'[v] = epoch' /\ ~failed'[v] /\ state'[v] = "work"
    BY <1>0, <1>12 DEF TakeJob, CurrentJob, TypeOK
  <2>3. MyRange(v)' \subseteq ToDo(v)'
    <3>1. RangeStart(CurrentJob, v) \in Nat /\ RangeEnd(CurrentJob, v) \in Nat
      <4>1. count \in Nat
        BY <1>0 DEF TypeOK
      <4> QED
        BY <1>0, <4>1, WorkerFacts
    <3>2. /\ RangeStart(CurrentJob, v)' = RangeStart(CurrentJob, v)
          /\ RangeEnd(CurrentJob, v)' = RangeEnd(CurrentJob, v)
      BY <2>1 DEF RangeStart, RangeEnd
    <3>3. HasItem(v)' <=> RangeStart(CurrentJob, v) < RangeEnd(CurrentJob, v)
      BY <2>2, <3>2 DEF HasItem
    <3> QED
      BY <2>2, <3>1, <3>2, <3>3 DEF ToDo, MyRange
  <2>4. ASSUME NEW w \in Workers, w # v
        PROVE  ToDo(w)' = ToDo(w) /\ failed'[w] = failed[w]
    <3>1. HasItem(w)' = HasItem(w)
      BY <1>0, <1>12, <2>4 DEF TakeJob, HasItem, RangeEnd, TypeOK
    <3> QED
      BY <1>0, <1>12, <2>1, <2>4, <3>1 DEF TakeJob, ToDo, RangeStart, RangeEnd, TypeOK
  <2>5. UNCHANGED <<caller, result, dispatches>>
    BY <1>12 DEF TakeJob
  <2> QED
    BY <1>0, <2>1, <2>3, <2>4, <2>5 DEF RangesComputed
<1>13. ASSUME NEW v \in Workers, Compute(v)
      PROVE RangesComputed'
  <2>1. CurrentJob' = CurrentJob /\ \A w \in Workers : MyRange(w)' = MyRange(w)
    BY <1>13 DEF Compute, CurrentJob, MyRange, RangeStart, RangeEnd
  <2>2. /\ next[v] \in Items /\ next[v] \in Nat /\ RangeEnd(CurrentJob, v) \in Nat
        /\ job[v] = CurrentJob /\ observed[v] = epoch /\ HasItem(v)
    <3>1. HasItem(v) /\ observed[v] = epoch /\ count \in Nat
      BY <1>0, <1>13 DEF Compute, HasItem, WorkersInBatch, TypeOK
    <3> QED
      BY <1>0, <3>1, WorkerFacts DEF HasItem
  <2>3. ToDo(v) \ {next[v]} \subseteq ToDo(v)'
    <3>1. /\ next'[v] = next[v] + 1 /\ observed'[v] = epoch' /\ job'[v] = job[v]
          /\ state'[v] = "work" /\ ~failed'[v]
      BY <1>0, <1>13, <2>2 DEF Compute, HasItem, TypeOK
    <3>2. RangeEnd(CurrentJob, v)' = RangeEnd(CurrentJob, v)
      BY <2>1 DEF RangeEnd
    <3>3. ToDo(v) = next[v]..(RangeEnd(CurrentJob, v) - 1)
      BY <2>2 DEF ToDo
    <3>4. HasItem(v)' <=> next[v] + 1 < RangeEnd(CurrentJob, v)
      BY <2>1, <2>2, <3>1, <3>2 DEF HasItem
    <3> QED
      BY <2>2, <3>1, <3>2, <3>3, <3>4 DEF ToDo
  <2>4. ASSUME NEW w \in Workers, w # v
        PROVE  ToDo(w)' = ToDo(w) /\ failed'[w] = failed[w]
    <3>1. HasItem(w)' = HasItem(w)
      BY <1>0, <1>13, <2>4 DEF Compute, HasItem, RangeEnd, TypeOK
    <3> QED
      BY <1>0, <1>13, <2>1, <2>4, <3>1 DEF Compute, ToDo, RangeStart, RangeEnd, TypeOK
  <2>5. /\ UNCHANGED <<caller, failed, dispatches>> /\ result'[next[v]] = dispatches
        /\ \A i \in Items : i # next[v] => result'[i] = result[i]
    BY <1>0, <1>13, <2>2 DEF Compute, CurrentJob, TypeOK
  <2>6. ASSUME NEW w \in Workers, NEW i \in Items, i \in MyRange(w)', caller' \in Waiting
        PROVE  i \in ToDo(w)' \/ failed'[w] \/ result'[i] = dispatches'
    <3>1. i \in ToDo(w) \/ failed[w] \/ result[i] = dispatches
      BY <1>0, <2>1, <2>5, <2>6 DEF RangesComputed
    <3> QED
      BY <2>3, <2>4, <2>5, <3>1
  <2> QED
    BY <2>6 DEF RangesComputed
<1>14. ASSUME NEW v \in Workers, CatchFailure(v)
      PROVE RangesComputed'
  <2>1. CurrentJob' = CurrentJob /\ \A w \in Workers : MyRange(w)' = MyRange(w)
    BY <1>14 DEF CatchFailure, CurrentJob, MyRange, RangeStart, RangeEnd
  <2>2. failed'[v]
    BY <1>0, <1>14 DEF CatchFailure, TypeOK
  <2>4. ASSUME NEW w \in Workers, w # v
        PROVE  ToDo(w)' = ToDo(w) /\ failed'[w] = failed[w]
    <3>1. HasItem(w)' = HasItem(w)
      BY <1>0, <1>14, <2>4 DEF CatchFailure, HasItem, RangeEnd, TypeOK
    <3> QED
      BY <1>0, <1>14, <2>1, <2>4, <3>1 DEF CatchFailure, ToDo, RangeStart, RangeEnd, TypeOK
  <2>5. UNCHANGED <<caller, result, dispatches>>
    BY <1>14 DEF CatchFailure
  <2> QED
    BY <1>0, <2>1, <2>2, <2>4, <2>5 DEF RangesComputed
<1>15. ASSUME NEW v \in Workers, FinishJob(v)
      PROVE RangesComputed'
  <2>1. ASSUME NEW w \in Workers
        PROVE  ToDo(w) \subseteq ToDo(w)' /\ (failed[w] => failed'[w])
    <3>1. CASE w = v
      BY <1>0, <1>15, <3>1 DEF FinishJob, ToDo, WorkersInBatch, TypeOK
    <3>2. CASE w # v
      BY <1>0, <1>15, <3>2, ToDoUnchanged DEF FinishJob, TypeOK
    <3> QED
      BY <3>1, <3>2
  <2> QED
    BY <1>0, <1>15, <2>1, NoItemLost DEF FinishJob, WorkersInBatch
<1>16. CASE WakeSpuriously
  <2>1. \A w \in Workers : ToDo(w)' = ToDo(w)
    BY <1>0, <1>16, ToDoUnchanged DEF WakeSpuriously, TypeOK
  <2> QED
    BY <1>0, <1>16, <2>1, NoItemLost DEF WakeSpuriously
<1> QED
  BY <1>1, <1>2, <1>3, <1>4, <1>5, <1>6, <1>7, <1>8, <1>9, <1>10, <1>11,
     <1>12, <1>13, <1>14, <1>15, <1>16
     DEF Next, Coordinator, Worker

(* Without a failure the barrier leaves every item computed.               *)
LEMMA BarrierComputesAll ==
  ASSUME PoolInv, ResultInv, caller = "check", completed = Threads,
         ~ \E w \in Workers : w < participants /\ failed[w]
  PROVE  \A i \in Items : i < total => result[i] = dispatches
<1> SUFFICES ASSUME NEW i \in Items, i < total PROVE result[i] = dispatches
  OBVIOUS
<1>0. /\ CurrentJob \in Job /\ CurrentJob.count = count /\ CurrentJob.used = participants
      /\ participants \in 0..Threads /\ count \in 0..MaxItems
  BY PoolAssumption DEF PoolInv, BarrierInv, TypeOK, CurrentJob, Job
<1>1. total = count /\ participants > 0
  BY DEF ResultInv, WaitsForCall, Waiting
<1>2. i \in Nat
  BY PoolAssumption DEF Items
<1>3. PICK w \in Nat : w < participants /\ i \in MyRange(w)
  BY <1>0, <1>1, <1>2, RangesCover DEF MyRange
<1>4. w \in Workers
  BY <1>0, <1>3, PoolAssumption DEF Workers
<1>5. ToDo(w) = {}
  BY <1>4, AllJoined DEF ToDo, HasItem
<1>6. i \in ToDo(w) \/ failed[w] \/ result[i] = dispatches
  BY <1>3, <1>4 DEF ResultInv, RangesComputed, Waiting
<1> QED
  BY <1>3, <1>4, <1>5, <1>6

-----------------------------------------------------------------------------
(* Theorems                                                                *)

(* The constructor has no call running. *)
LEMMA ResultInit == Init => ResultInv
BY DEF Init, ResultInv, WaitsForCall, RangesComputed, SerialComputed, Waiting, Serial

(* Barrier, counts, ranges and results, for any threads and batches.       *)
THEOREM PoolInvariant == Spec => [](PoolInv /\ ResultInv)
<1>1. PoolInv /\ ResultInv /\ [Next]_vars => (PoolInv /\ ResultInv)'
  <2> SUFFICES ASSUME PoolInv, ResultInv, [Next]_vars PROVE (PoolInv /\ ResultInv)'
    OBVIOUS
  <2>1. CASE Next
    BY <2>1, PoolNextType, NextWorkersInBatch, NextCompletedCounts,
       NextBarrierJoinsAll, NextToDoUntouched, NextWorksInRange,
       NextCallAccounted, NextRangesComputed
       DEF PoolInv, BarrierInv, ResultInv
  <2>2. CASE UNCHANGED vars
    <3>1. TypeOK'
      BY <2>2 DEF PoolInv, BarrierInv, TypeOK, vars, poolVars, workerVars, callVars
    <3>2. WorkersInBatch' /\ CompletedCounts' /\ BarrierJoinsAll'
      BY <2>2 DEF PoolInv, BarrierInv, WorkersInBatch, CompletedCounts,
         BarrierJoinsAll, CurrentJob, JoinedBarrier, vars, poolVars, workerVars,
         callVars
    <3>3. ToDoUntouched' /\ WorksInRange'
      BY <2>2 DEF PoolInv, ToDoUntouched, WorksInRange, ToDo, HasItem, CurrentJob,
         RangeStart, RangeEnd, vars, poolVars, workerVars, callVars
    <3>4. ResultInv'
      BY <2>2 DEF ResultInv, WaitsForCall, RangesComputed, SerialComputed, MyRange,
         ToDo, HasItem, CurrentJob, RangeStart, RangeEnd, vars, poolVars,
         workerVars, callVars
    <3> QED
      BY <3>1, <3>2, <3>3, <3>4 DEF PoolInv, BarrierInv
  <2> QED
    BY <2>1, <2>2
<1> QED
  BY <1>1, PoolInit, ResultInit, PTL DEF Spec

(* completed never exceeds the threads, no worker leaves its range.        *)
THEOREM PoolTypeCorrect == Spec => []TypeOK
<1>1. PoolInv => TypeOK
  BY DEF PoolInv, BarrierInv
<1> QED
  BY <1>1, PoolInvariant, PTL

(* run leaves its wait, to retry or return, when no worker is left.        *)
THEOREM BarrierAlwaysJoinsAll == Spec => []BarrierJoinsAll
<1>1. PoolInv => BarrierJoinsAll
  BY DEF PoolInv, BarrierInv
<1> QED
  BY <1>1, PoolInvariant, PTL

(* fn is called on disjoint ranges of the batch of the running call.       *)
THEOREM RangesAlwaysExclusive == Spec => []RangesExclusive
<1>1. PoolInv => RangesExclusive
  <2> SUFFICES ASSUME PoolInv, NEW w \in Workers, HasItem(w)
               PROVE  LET mine == next[w]..(RangeEnd(job[w], w) - 1) IN
                      /\ job[w].batch = dispatches
                      /\ \A i \in mine : result[i] # dispatches
                      /\ \A v \in Workers \ {w} : HasItem(v) =>
                           mine \cap (next[v]..(RangeEnd(job[v], v) - 1)) = {}
    BY DEF RangesExclusive
  <2>1. \A v \in Workers : HasItem(v) =>
          /\ job[v] = CurrentJob /\ caller \in Waiting
          /\ ToDo(v) = next[v]..(RangeEnd(job[v], v) - 1)
    BY DEF PoolInv, BarrierInv, WorkersInBatch, ToDo, HasItem
  <2>2. ToDo(w) \subseteq Items
    <3>1. /\ RangeEnd(job[w], w) \in 0..count /\ next[w] \in Nat
          /\ count \in 0..MaxItems
      BY <2>1, WorkerFacts DEF PoolInv, BarrierInv, TypeOK
    <3> QED
      BY <2>1, <3>1, PoolAssumption DEF Items
  <2>3. \A i \in ToDo(w) : result[i] # dispatches
    BY <2>1, <2>2 DEF PoolInv, ToDoUntouched
  <2>4. \A v \in Workers \ {w} : ToDo(w) \cap ToDo(v) = {}
    BY ToDoExclusive
  <2>5. job[w].batch = dispatches
    BY <2>1 DEF CurrentJob
  <2> QED
    BY <2>1, <2>3, <2>4, <2>5
<1> QED
  BY <1>1, PoolInvariant, PTL

-----------------------------------------------------------------------------
(* Refinement                                                              *)

(* A step that the caller cannot see. *)
LEMMA Hidden ==
  ASSUME UNCHANGED <<dispatches, total, result>>, CallOf' = CallOf
  PROVE  [Executor!Next]_(Executor!vars)
<1>1. UNCHANGED Executor!vars
  BY DEF Executor!vars, CallOf
<1> QED
  BY <1>1

(* An item computed, by a worker or in a serial pass. *)
LEMMA ItemComputed ==
  ASSUME NEW i \in Items, i < total, CallOf = "running", CallOf' = "running",
         UNCHANGED <<dispatches, total>>,
         result' = [result EXCEPT ![i] = dispatches]
  PROVE  [Executor!Next]_(Executor!vars)
<1>1. Executor!Compute(i)
  BY DEF Executor!Compute, CallOf
<1> QED
  BY <1>1 DEF Executor!Next

(* The end of a call with all items computed. *)
LEMMA CallReturns ==
  ASSUME CallOf = "running", CallOf' = "returned",
         UNCHANGED <<dispatches, total, result>>,
         \A i \in Items : i < total => result[i] = dispatches
  PROVE  [Executor!Next]_(Executor!vars)
<1>1. Executor!Return
  BY DEF Executor!Return, CallOf
<1> QED
  BY <1>1 DEF Executor!Next

(* The start of a call, serial or parallel. *)
LEMMA CallBegins ==
  ASSUME NEW n \in 0..MaxItems, caller \in Returned, caller' \in Waiting \cup Serial,
         dispatches' = dispatches + 1, total' = n, UNCHANGED result
  PROVE  [Executor!Next]_(Executor!vars)
<1>1. CallOf \in {"none", "returned", "threw"} /\ CallOf' = "running"
  BY DEF CallOf, Returned, Waiting, Serial
<1>2. {i \in Items : i < n} \in SUBSET Items
  OBVIOUS
<1>3. Executor!Call({i \in Items : i < n})
  BY <1>1 DEF Executor!Call, Executor!Idle, CallOf
<1> QED
  BY <1>2, <1>3 DEF Executor!Next

(* Whatever the threads do, the caller sees a step of the abstract call or *)
(* nothing.                                                                *)
LEMMA NextRefines ==
  ASSUME PoolInv, ResultInv, Next
  PROVE  [Executor!Next]_(Executor!vars)
<1> USE PoolAssumption DEF poolVars, workerVars, callVars, Waiting, Serial,
        Returned
<1>0. PoolInv /\ ResultInv /\ TypeOK
  BY DEF PoolInv, BarrierInv
<1>1. ASSUME NEW n \in 0..MaxItems, RunSerial(n)
      PROVE [Executor!Next]_(Executor!vars)
  BY <1>1, CallBegins DEF RunSerial, BeginRun
<1>2. ASSUME NEW n \in 0..MaxItems, NEW used \in 2..Threads,
         used <= n, RunParallel(n, used)
      PROVE [Executor!Next]_(Executor!vars)
  BY <1>2, CallBegins DEF RunParallel, BeginRun
<1>3. CASE Destroy
  <2>1. CallOf \in {"none", "returned", "threw"} /\ CallOf' = "closed"
    BY <1>3 DEF Destroy, CallOf
  <2>2. Executor!Close
    BY <1>3, <2>1 DEF Destroy, Executor!Close, Executor!Idle, CallOf
  <2> QED
    BY <2>2 DEF Executor!Next
<1>4. CASE AwaitDone
  <2>1. CallOf' = CallOf /\ UNCHANGED <<dispatches, total, result>>
    BY <1>4 DEF AwaitDone, CallOf
  <2> QED
    BY <2>1, Hidden
<1>5. CASE Barrier
  <2>0. caller = "check" /\ completed = Threads /\ UNCHANGED <<dispatches, total, result>>
    BY <1>5 DEF Barrier
  <2>1. CASE \E w \in Workers : w < participants /\ failed[w]
    <3>1. caller' = "retry"
      BY <1>5, <2>1 DEF Barrier
    <3>2. CallOf' = CallOf
      BY <2>0, <3>1 DEF CallOf
    <3> QED
      BY <2>0, <3>2, Hidden
  <2>2. CASE ~ \E w \in Workers : w < participants /\ failed[w]
    <3>1. caller' = "returned"
      BY <1>5, <2>2 DEF Barrier
    <3>2. CallOf = "running" /\ CallOf' = "returned"
      BY <2>0, <3>1 DEF CallOf
    <3>3. \A i \in Items : i < total => result[i] = dispatches
      BY <1>0, <2>0, <2>2, BarrierComputesAll
    <3> QED
      BY <2>0, <3>2, <3>3, CallReturns
  <2> QED
    BY <2>1, <2>2
<1>6. CASE ComputeSerially
  <2>1. /\ CallOf = "running" /\ CallOf' = "running" /\ cursor < total
        /\ UNCHANGED <<dispatches, total>>
        /\ result' = [result EXCEPT ![cursor] = dispatches]
    BY <1>6 DEF ComputeSerially, CallOf
  <2>2. cursor \in Items
    BY <1>0, <2>1, PoolAssumption DEF TypeOK, Items
  <2> QED
    BY <2>1, <2>2, ItemComputed
<1>7. CASE ReturnSerially
  <2>1. /\ CallOf = "running" /\ CallOf' = "returned"
        /\ UNCHANGED <<dispatches, total, result>>
    BY <1>7 DEF ReturnSerially, CallOf
  <2>2. \A i \in Items : i < total => result[i] = dispatches
    BY <1>0, <1>7 DEF ReturnSerially, ResultInv, SerialComputed
  <2> QED
    BY <2>1, <2>2, CallReturns
<1>8. CASE ThrowSerially
  <2>1. /\ CallOf = "running" /\ CallOf' = "threw" /\ cursor < total
        /\ UNCHANGED <<dispatches, total, result>>
    BY <1>8 DEF ThrowSerially, CallOf
  <2>2. cursor \in Items
    BY <1>0, <2>1, PoolAssumption DEF TypeOK, Items
  <2>3. Executor!Throw
    BY <2>1, <2>2 DEF Executor!Throw, CallOf
  <2> QED
    BY <2>3 DEF Executor!Next
<1>9. CASE Joined
  <2>1. CallOf' = CallOf /\ UNCHANGED <<dispatches, total, result>>
    BY <1>9 DEF Joined, CallOf
  <2> QED
    BY <2>1, Hidden
<1>10. ASSUME NEW v \in Workers, AwaitWork(v)
      PROVE [Executor!Next]_(Executor!vars)
  <2>1. CallOf' = CallOf /\ UNCHANGED <<dispatches, total, result>>
    BY <1>10 DEF AwaitWork, CallOf
  <2> QED
    BY <2>1, Hidden
<1>11. ASSUME NEW v \in Workers, WorkerStops(v)
      PROVE [Executor!Next]_(Executor!vars)
  <2>1. CallOf' = CallOf /\ UNCHANGED <<dispatches, total, result>>
    BY <1>11 DEF WorkerStops, CallOf
  <2> QED
    BY <2>1, Hidden
<1>12. ASSUME NEW v \in Workers, TakeJob(v)
      PROVE [Executor!Next]_(Executor!vars)
  <2>1. CallOf' = CallOf /\ UNCHANGED <<dispatches, total, result>>
    BY <1>12 DEF TakeJob, CallOf
  <2> QED
    BY <2>1, Hidden
<1>13. ASSUME NEW v \in Workers, Compute(v)
      PROVE [Executor!Next]_(Executor!vars)
  <2>1. HasItem(v) /\ state[v] = "work"
    BY <1>13 DEF Compute, HasItem
  <2>2. job[v] = CurrentJob /\ caller \in Waiting
    BY <1>0, <2>1 DEF PoolInv, BarrierInv, WorkersInBatch
  <2>3. next[v] \in Items /\ next[v] < total
    <3>1. /\ next[v] \in Items /\ next[v] \in Nat /\ next[v] < RangeEnd(CurrentJob, v)
          /\ RangeEnd(CurrentJob, v) \in 0..count /\ count \in Nat
      BY <1>0, <2>1, WorkerFacts DEF TypeOK
    <3>2. total = count
      BY <1>0, <2>2 DEF ResultInv, WaitsForCall
    <3> QED
      BY <3>1, <3>2
  <2>4. /\ CallOf = "running" /\ CallOf' = "running"
        /\ UNCHANGED <<dispatches, total>>
        /\ result' = [result EXCEPT ![next[v]] = dispatches]
    BY <1>13, <2>2 DEF Compute, CallOf, CurrentJob
  <2> QED
    BY <2>3, <2>4, ItemComputed
<1>14. ASSUME NEW v \in Workers, CatchFailure(v)
      PROVE [Executor!Next]_(Executor!vars)
  <2>1. CallOf' = CallOf /\ UNCHANGED <<dispatches, total, result>>
    BY <1>14 DEF CatchFailure, CallOf
  <2> QED
    BY <2>1, Hidden
<1>15. ASSUME NEW v \in Workers, FinishJob(v)
      PROVE [Executor!Next]_(Executor!vars)
  <2>1. CallOf' = CallOf /\ UNCHANGED <<dispatches, total, result>>
    BY <1>15 DEF FinishJob, CallOf
  <2> QED
    BY <2>1, Hidden
<1>16. CASE WakeSpuriously
  <2>1. CallOf' = CallOf /\ UNCHANGED <<dispatches, total, result>>
    BY <1>16 DEF WakeSpuriously, CallOf
  <2> QED
    BY <2>1, Hidden
<1> QED
  BY <1>1, <1>2, <1>3, <1>4, <1>5, <1>6, <1>7, <1>8, <1>9, <1>10, <1>11,
     <1>12, <1>13, <1>14, <1>15, <1>16
     DEF Next, Coordinator, Worker

(* The pool refines the synchronous call: run returns with a result of     *)
(* this call for every item or throws. That it ends is left to the runs.   *)
THEOREM PoolImplementsCall == Spec => Executor!SafetySpec
<1>1. Init => Executor!Init
  <2> SUFFICES ASSUME Init PROVE Executor!Init
    OBVIOUS
  <2>1. caller \in {"none", "joining"} /\ total = 0 /\ dispatches = 0
        /\ result = [i \in Items |-> 0]
    BY DEF Init
  <2>2. CallOf \in {"none", "closed"}
    BY <2>1 DEF CallOf, Waiting, Serial, Returned
  <2>3. {i \in Items : i < total} = {}
    BY <2>1, PoolAssumption DEF Items
  <2> QED
    BY <2>1, <2>2, <2>3 DEF Executor!Init, CallOf
<1>2. PoolInv /\ ResultInv /\ [Next]_vars => [Executor!Next]_(Executor!vars)
  <2>1. ASSUME UNCHANGED vars PROVE UNCHANGED Executor!vars
    BY <2>1 DEF vars, callVars, Executor!vars, CallOf
  <2> QED
    BY <2>1, NextRefines
<1> QED
  BY <1>1, <1>2, PoolInvariant, PTL DEF Spec, Executor!SafetySpec
=============================================================================
