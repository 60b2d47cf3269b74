-------------------------- MODULE NativeWorkerPool --------------------------
(***************************************************************************)
(* NativeWorkerPool (native/src/runtime/native_worker_pool.cpp): threads   *)
(* that split a batch into ranges, a barrier at the end of each batch, and *)
(* a serial retry when a range fails.                                      *)
(*                                                                         *)
(* One thread, the coordinator, calls run and later the destructor. Each   *)
(* critical section of mutex is one step. A thread blocked on a condition  *)
(* variable is "waiting" until a notification or a spurious wake-up makes  *)
(* it "check" its predicate again. The callback computes one item per step *)
(* and may throw before any of them.                                       *)
(*                                                                         *)
(* Timing decides whether a batch is worth splitting and among how many    *)
(* threads: both are choices within the limits the code sets.              *)
(***************************************************************************)
EXTENDS Naturals, FiniteSets

CONSTANTS
  Threads,      \* threads.size(), at most four in the code
  MaxItems,     \* bound: items of a batch
  MaxBatches,   \* bound: calls of run
  MaxFailures   \* bound: exceptions of the callback

ASSUME PoolAssumption ==
  /\ Threads \in Nat /\ MaxItems \in Nat
  /\ MaxBatches \in Nat /\ MaxFailures \in Nat

Workers == IF Threads = 0 THEN {} ELSE 0..(Threads - 1)
Items == IF MaxItems = 0 THEN {} ELSE 0..(MaxItems - 1)

VARIABLES
  \* under mutex
  stopping, epoch, count, participants, completed,
  \* workers
  state,        \* where a worker is
  observed,     \* observed
  job,          \* its copies: batch (function and context), count, participants
  next,         \* the next item of its range
  failed,       \* results[index].failure
  \* coordinator
  caller,       \* where the coordinator is
  total,        \* count, the argument of run
  cursor,       \* the next item of a serial pass
  dispatches,   \* dispatches, the number of the call
  failures,     \* history: exceptions so far
  result        \* history: the call that computed an item last

poolVars == <<stopping, epoch, count, participants, completed>>
workerVars == <<state, observed, job, next, failed>>
callVars == <<caller, total, cursor, dispatches>>
vars == <<poolVars, workerVars, callVars, failures, result>>

States == {"check", "waiting", "work", "gone"}
Waiting == {"check", "waiting"}
Serial == {"serial", "retry"}
Returned == {"none", "returned", "threw"}
Callers == Waiting \cup Serial \cup Returned \cup {"joining", "destroyed"}

Job == [batch : Nat, count : Nat, used : Nat]

(* A constructor that cannot start a thread stops those it started. *)
Init ==
  /\ \/ /\ stopping = FALSE /\ caller = "none"
        /\ state = [w \in Workers |-> "check"]
     \/ /\ stopping = TRUE /\ caller = "joining"
        /\ \E started \in Workers :
             state = [w \in Workers |-> IF w < started THEN "check" ELSE "gone"]
  /\ epoch = 0 /\ count = 0 /\ participants = 0 /\ completed = 0
  /\ observed = [w \in Workers |-> 0]
  /\ job = [w \in Workers |-> [batch |-> 0, count |-> 0, used |-> 0]]
  /\ next = [w \in Workers |-> 0]
  /\ failed = [w \in Workers |-> FALSE]
  /\ total = 0 /\ cursor = 0 /\ dispatches = 0
  /\ failures = 0
  /\ result = [i \in Items |-> 0]

NotifyAll == state' = [w \in Workers |->
                         IF state[w] = "waiting" THEN "check" ELSE state[w]]

-----------------------------------------------------------------------------
(* run, up to the barrier.                                                 *)

BeginRun(n) ==
  /\ caller \in Returned
  /\ dispatches < MaxBatches
  /\ dispatches' = dispatches + 1
  /\ total' = n /\ cursor' = 0

RunSerial(n) ==
  /\ BeginRun(n)
  /\ caller' = "serial"
  /\ UNCHANGED <<poolVars, workerVars, failures, result>>

(* worthwhile needs two threads and two items, and the participants are at *)
(* least two and at most the threads and the items. The predicate of the   *)
(* wait is false when it is first looked at.                               *)
RunParallel(n, used) ==
  /\ Threads >= 2 /\ n >= 2
  /\ BeginRun(n)
  /\ count' = n /\ participants' = used
  /\ completed' = 0 /\ epoch' = epoch + 1
  /\ NotifyAll
  /\ caller' = "waiting"
  /\ UNCHANGED <<stopping, observed, job, next, failed, failures, result>>

AwaitDone ==
  /\ caller = "check"
  /\ completed # Threads
  /\ caller' = "waiting"
  /\ UNCHANGED <<poolVars, workerVars, total, cursor, dispatches, failures, result>>

(* Bug: the barrier waits for the participants only. *)
MutBarrierCountsParticipants ==
  /\ caller = "check"
  /\ completed >= participants
  /\ caller' = IF \E w \in Workers : w < participants /\ failed[w]
               THEN "retry" ELSE "returned"
  /\ UNCHANGED <<poolVars, workerVars, total, cursor, dispatches, failures, result>>

(* Bug: the results of a failed batch are returned. *)
MutBarrierIgnoresFailure ==
  /\ caller = "check"
  /\ completed = Threads
  /\ caller' = "returned"
  /\ UNCHANGED <<poolVars, workerVars, total, cursor, dispatches, failures, result>>

(* The failures of the participants decide whether there is a retry. *)
Barrier ==
  /\ caller = "check"
  /\ completed = Threads
  /\ caller' = IF \E w \in Workers : w < participants /\ failed[w]
               THEN "retry" ELSE "returned"
  /\ UNCHANGED <<poolVars, workerVars, total, cursor, dispatches, failures, result>>

-----------------------------------------------------------------------------
(* A serial pass of the coordinator, the first one or the retry.           *)

ComputeSerially ==
  /\ caller \in Serial
  /\ cursor < total
  /\ result' = [result EXCEPT ![cursor] = dispatches]
  /\ cursor' = cursor + 1
  /\ UNCHANGED <<poolVars, workerVars, caller, total, dispatches, failures>>

ReturnSerially ==
  /\ caller \in Serial
  /\ cursor = total
  /\ caller' = "returned"
  /\ UNCHANGED <<poolVars, workerVars, total, cursor, dispatches, failures, result>>

(* Nobody catches what the callback throws now. *)
ThrowSerially ==
  /\ caller \in Serial
  /\ cursor < total
  /\ failures < MaxFailures
  /\ failures' = failures + 1
  /\ caller' = "threw"
  /\ UNCHANGED <<poolVars, workerVars, total, cursor, dispatches, result>>

-----------------------------------------------------------------------------
(* The destructor, when the coordinator's work has stopped.                *)

(* Bug: stopping is set and the workers are not notified. *)
MutDestroyWakesNobody ==
  /\ caller \in Returned
  /\ stopping' = TRUE
  /\ caller' = "joining"
  /\ UNCHANGED <<epoch, count, participants, completed, workerVars, total, cursor,
                 dispatches, failures, result>>

Destroy ==
  /\ caller \in Returned
  /\ stopping' = TRUE
  /\ NotifyAll
  /\ caller' = "joining"
  /\ UNCHANGED <<epoch, count, participants, completed, observed, job, next, failed,
                 total, cursor, dispatches, failures, result>>

Joined ==
  /\ caller = "joining"
  /\ \A w \in Workers : state[w] = "gone"
  /\ caller' = "destroyed"
  /\ UNCHANGED <<poolVars, workerVars, total, cursor, dispatches, failures, result>>

-----------------------------------------------------------------------------
(* worker.                                                                 *)

RangeStart(j, w) == IF w < j.used THEN (j.count * w) \div j.used ELSE 0

(* Bug: the end of a range is rounded up, its start down. *)
MutRangeEndRoundsUp(j, w) ==
  IF w < j.used THEN (j.count * (w + 1) + j.used - 1) \div j.used ELSE 0

RangeEnd(j, w) == IF w < j.used THEN (j.count * (w + 1)) \div j.used ELSE 0

AwaitWork(w) ==
  /\ state[w] = "check"
  /\ ~stopping /\ epoch = observed[w]
  /\ state' = [state EXCEPT ![w] = "waiting"]
  /\ UNCHANGED <<poolVars, observed, job, next, failed, callVars, failures, result>>

WorkerStops(w) ==
  /\ state[w] = "check"
  /\ stopping
  /\ state' = [state EXCEPT ![w] = "gone"]
  /\ UNCHANGED <<poolVars, observed, job, next, failed, callVars, failures, result>>

(* A worker that does not participate gets an empty range. *)
TakeJob(w) ==
  /\ state[w] = "check"
  /\ ~stopping /\ epoch # observed[w]
  /\ LET j == [batch |-> dispatches, count |-> count, used |-> participants]
     IN  /\ job' = [job EXCEPT ![w] = j]
         /\ next' = [next EXCEPT ![w] = RangeStart(j, w)]
  /\ observed' = [observed EXCEPT ![w] = epoch]
  /\ failed' = [failed EXCEPT ![w] = FALSE]
  /\ state' = [state EXCEPT ![w] = "work"]
  /\ UNCHANGED <<poolVars, callVars, failures, result>>

HasItem(w) == state[w] = "work" /\ ~failed[w] /\ next[w] < RangeEnd(job[w], w)

Compute(w) ==
  /\ HasItem(w)
  /\ result' = [result EXCEPT ![next[w]] = job[w].batch]
  /\ next' = [next EXCEPT ![w] = next[w] + 1]
  /\ UNCHANGED <<poolVars, state, observed, job, failed, callVars, failures>>

CatchFailure(w) ==
  /\ HasItem(w)
  /\ failures < MaxFailures
  /\ failures' = failures + 1
  /\ failed' = [failed EXCEPT ![w] = TRUE]
  /\ UNCHANGED <<poolVars, state, observed, job, next, callVars, result>>

FinishJob(w) ==
  /\ state[w] = "work" /\ ~HasItem(w)
  /\ completed' = completed + 1
  /\ state' = [state EXCEPT ![w] = "check"]
  /\ caller' = IF completed + 1 = Threads /\ caller = "waiting"
               THEN "check" ELSE caller
  /\ UNCHANGED <<stopping, epoch, count, participants, observed, job, next, failed,
                 total, cursor, dispatches, failures, result>>

-----------------------------------------------------------------------------
(* Both condition variables may wake a waiter for no reason. *)
WakeSpuriously ==
  \/ /\ \E w \in Workers : /\ state[w] = "waiting"
                           /\ state' = [state EXCEPT ![w] = "check"]
     /\ UNCHANGED <<poolVars, observed, job, next, failed, callVars, failures, result>>
  \/ /\ caller = "waiting" /\ caller' = "check"
     /\ UNCHANGED <<poolVars, workerVars, total, cursor, dispatches, failures, result>>

Worker(w) ==
  \/ AwaitWork(w) \/ WorkerStops(w) \/ TakeJob(w)
  \/ Compute(w) \/ CatchFailure(w) \/ FinishJob(w)

Coordinator ==
  \/ AwaitDone \/ Barrier
  \/ ComputeSerially \/ ReturnSerially \/ ThrowSerially
  \/ Joined

Next ==
  \/ \E n \in 0..MaxItems : RunSerial(n)
  \/ \E n \in 0..MaxItems, used \in 2..Threads : used <= n /\ RunParallel(n, used)
  \/ Destroy
  \/ Coordinator
  \/ \E w \in Workers : Worker(w)
  \/ WakeSpuriously

(* The scheduler runs every thread that can run. No call has to be made    *)
(* and no wake-up comes unasked for.                                       *)
Fairness == WF_vars(Coordinator) /\ \A w \in Workers : WF_vars(Worker(w))

Spec == Init /\ [][Next]_vars /\ Fairness

-----------------------------------------------------------------------------
(* Properties *)

(* Every variable has its type.                                            *)
TypeOK ==
  /\ stopping \in BOOLEAN
  /\ epoch \in Nat /\ count \in 0..MaxItems /\ participants \in 0..Threads
  /\ completed \in 0..Threads
  /\ state \in [Workers -> States]
  /\ observed \in [Workers -> Nat]
  /\ job \in [Workers -> Job]
  /\ next \in [Workers -> 0..MaxItems]
  /\ failed \in [Workers -> BOOLEAN]
  /\ caller \in Callers
  /\ total \in 0..MaxItems /\ cursor \in 0..MaxItems
  /\ dispatches \in Nat /\ failures \in Nat
  /\ result \in [Items -> Nat]

(* "All workers have joined the barrier, so a serial retry can safely      *)
(* replace every result slot" (native_worker_pool.cpp:154): outside the    *)
(* wait of run no worker is in a batch, however late it started or woke,   *)
(* and none of them will join one that is over.                            *)
BarrierJoinsAll ==
  caller \notin Waiting =>
    \A w \in Workers : state[w] # "work" /\ observed[w] = epoch

(* "callbacks own disjoint [begin,end) result ranges" (native_batch_       *)
(* executor.h:11): what a worker has still to do in the batch of the call  *)
(* is computed by nobody else and is not another worker's.                 *)
RangesExclusive ==
  \A w \in Workers : HasItem(w) =>
    LET mine == next[w]..(RangeEnd(job[w], w) - 1) IN
    /\ job[w].batch = dispatches
    /\ \A i \in mine : result[i] # dispatches
    /\ \A v \in Workers \ {w} : HasItem(v) =>
         mine \cap (next[v]..(RangeEnd(job[v], v) - 1)) = {}

(* The destructor ends: every worker hears of the stop.                    *)
DestructorEnds == caller = "joining" ~> caller = "destroyed"

(* The call, as the coordinator sees it. *)
CallOf == IF caller \in Waiting \cup Serial THEN "running"
          ELSE IF caller \in Returned THEN caller ELSE "closed"

Executor == INSTANCE BatchExecutor WITH
  call <- CallOf,
  batch <- dispatches,
  todo <- {i \in Items : i < total}

(* Epochs, barrier and retry together are a synchronous call: run returns  *)
(* only with a result of this very call for every item, and it ends.       *)
ImplementsExecutor == Executor!Spec
=============================================================================
