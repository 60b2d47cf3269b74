------------------------- MODULE MvrXchangeTransfer -------------------------
(***************************************************************************)
(* MvrXchangeTransferClient (mvr_xchange_transfer.cpp): the one worker     *)
(* thread that joins a station or requests a file from it, the commits,    *)
(* the queue of events and the received file on disk.                      *)
(*                                                                         *)
(* A commit is kept under the key it arrived with: the service name of the *)
(* station a join went to, the station UUID of a message the station sent  *)
(* by itself. Errors are the events that report them; their texts and all  *)
(* counters are left out. Of the queued events the model keeps what a poll *)
(* makes of them: the type of the last one.                                *)
(***************************************************************************)
EXTENDS MvrXchangeProtocol

CONSTANTS
  Stations,       \* stations of the network, this program's own among them
  Self,           \* the own station
  MaxRevisions,   \* bound: revisions a station publishes
  Paths,          \* target paths
  Absent          \* no commit, no file, no job

ASSUME RevisionsAssumption == MaxRevisions \in Nat

VARIABLES
  busy,           \* busy_
  worker,         \* the worker thread: where it stands, its job, its reply
  targets,        \* stations_: the stations a job may name
  commits,        \* commits_
  event,          \* events_: the type of the last one, Absent when empty
  final, part,    \* the target files and their .part files
  published       \* external: revisions each station has committed

transferVars ==
  <<busy, worker, targets, commits, event, final, part>>

Revisions == 1 .. MaxRevisions
ServiceKey(s) == <<"service", s>>
UuidKey(s) == <<"uuid", s>>
Keys == {ServiceKey(s) : s \in Stations} \cup {UuidKey(s) : s \in Stations}

\* A received archive: what its bytes look like and the revision in it.
Archive(r) == [zip |-> TRUE, scene |-> TRUE, revision |-> r]
\* growing: still written; short: closed, but the disk had no room for all.
Files == [revision: Revisions, bytes: {"growing", "short", "whole"}]
NoJob == [station |-> Absent, file |-> NoRevision, path |-> Absent,
          request |-> FALSE, before |-> Absent]

TransferInit ==
  /\ busy = FALSE
  /\ worker = [at |-> "none", job |-> NoJob, reply |-> <<>>]
  /\ targets = {}
  /\ commits = [k \in Keys |-> Absent]
  /\ event = Absent
  /\ final = [p \in Paths |-> Absent]
  /\ part = [p \in Paths |-> Absent]
  /\ published = [s \in Stations |-> NoRevision]

-----------------------------------------------------------------------------
(* Main thread. *)

\* The worker thread has not returned: join waits for it.
Running == worker.at \notin {"none", "ended"}

\* busy_ refuses a second job; otherwise the thread of the last one is joined
\* (it is past its last store to busy_, the wait is short) before the next
\* one takes its place. An unknown station gives the flag back.
StartWorker(job) ==
  \/ busy /\ UNCHANGED <<busy, worker>>
  \/ /\ ~busy /\ ~Running
     /\ IF job.station \in targets'
        THEN /\ worker' = [at |-> "begin", job |-> job, reply |-> <<>>]
             /\ busy' = TRUE
        ELSE /\ worker' = [worker EXCEPT !.at = "none"]
             /\ UNCHANGED busy

JoinJob(s) == [NoJob EXCEPT !.station = s]
RequestJob(s, r, p) ==
  [station |-> s, file |-> r, path |-> p, request |-> TRUE,
   before |-> final[p]]   \* before: history

\* request_latest_mvr: the revision it would ask for.
LatestFor(s) == commits[ServiceKey(s)]

-----------------------------------------------------------------------------
(* Worker thread. *)

Worker(from, to) ==
  /\ worker.at = from
  /\ worker' = [worker EXCEPT !.at = to]
Push(type) == event' = type
Failed == IF worker.job.request THEN "transfer_failed" ELSE "join_failed"

WorkerBegin ==
  /\ Worker("begin", "connect")
  /\ Push(IF worker.job.request THEN "transfer_started" ELSE "join_started")
  /\ UNCHANGED <<busy, targets, commits, final, part>>

MutWorkerFails ==
  /\ worker.at \in {"connect", "talk"}
  /\ worker' = [worker EXCEPT !.at = "clear"]
  /\ UNCHANGED <<busy, targets, commits, event, final, part>>

\* The station has no endpoint yet, cannot be reached, or sending fails.
WorkerFails ==
  /\ worker.at \in {"connect", "talk"}
  /\ worker' = [worker EXCEPT !.at = "clear"]
  /\ Push(Failed)
  /\ UNCHANGED <<busy, targets, commits, final, part>>

WorkerConnects ==
  /\ Worker("connect", "talk")
  /\ UNCHANGED <<busy, targets, commits, event, final, part>>

\* external: a station lists its revisions, the newest first; the own one
\* lists none.
Listed(s) ==
  [i \in 1 .. published[s] |-> UuidText(published[s] + 1 - i)]

\* external: what arrives before the peer closes or is silent for a second.
Replies(job) ==
  {<<>>, <<[Package(Absent) EXCEPT !.header = FALSE]>>}
  \cup IF job.request
       THEN {<<Package(Json("MVR_REQUEST_RET", <<>>))>>,
             <<Package(Binary(Archive(job.file)))>>,
             <<[Package(Binary(Archive(job.file))) EXCEPT !.whole = FALSE]>>}
       ELSE {<<Package(Json("MVR_JOIN_RET", Listed(job.station)))>>}

\* read_all and parse_mvr_packages. Bytes without one package are malformed;
\* no bytes at all are not, so a silent peer has accepted the join.
WorkerReceives ==
  /\ worker.at = "talk"
  /\ \E stream \in Replies(worker.job) :
       LET messages == ParsePackages(stream)
       IN IF stream # <<>> /\ messages = <<>>
          THEN /\ worker' = [worker EXCEPT !.at = "clear"]
               /\ Push(Failed)
          ELSE IF worker.job.request
          THEN /\ worker' = [worker EXCEPT
                    !.at = IF Acceptable(PayloadOf(messages)) THEN "write"
                           ELSE "failed"]
               /\ UNCHANGED event
          ELSE /\ worker' = [worker EXCEPT !.at = "joined",
                                           !.reply = messages]
               /\ Push("join_succeeded")
  /\ UNCHANGED <<busy, targets, commits, final, part>>

\* A message of the reply to a join that announces a commit.
WorkerCommits ==
  /\ worker.at = "joined" /\ worker.reply # <<>>
  /\ worker' = [worker EXCEPT !.reply = Tail(worker.reply)]
  /\ IF AnnouncesCommit(Head(worker.reply))
     THEN /\ commits' = [commits EXCEPT ![ServiceKey(worker.job.station)] =
                           CommitOf(Head(worker.reply))]
          /\ Push("commit_available")
     ELSE UNCHANGED <<commits, event>>
  /\ UNCHANGED <<busy, targets, final, part>>

WorkerJoined ==
  /\ Worker("joined", "clear") /\ worker.reply = <<>>
  /\ UNCHANGED <<busy, targets, commits, event, final, part>>

MutWorkerOpens ==
  /\ Worker("write", "writing")
  /\ final' = [final EXCEPT ![worker.job.path] =
                 [revision |-> worker.job.file, bytes |-> "growing"]]
  /\ UNCHANGED <<busy, targets, commits, event, part>>

\* The .part file is created, or not.
WorkerOpens ==
  /\ \/ /\ Worker("write", "writing")
        /\ part' = [part EXCEPT ![worker.job.path] =
                      [revision |-> worker.job.file, bytes |-> "growing"]]
     \/ Worker("write", "failed") /\ UNCHANGED part
  /\ UNCHANGED <<busy, targets, commits, event, final>>

\* Bytes that do not fit on the disk are lost without notice: the state of
\* the stream is not looked at.
WorkerCloses ==
  /\ Worker("writing", "remove")
  /\ \E bytes \in {"whole", "short"} :
       part' = [part EXCEPT ![worker.job.path].bytes = bytes]
  /\ UNCHANGED <<busy, targets, commits, event, final>>

WorkerRemoves ==
  /\ Worker("remove", "rename")
  /\ final' = [final EXCEPT ![worker.job.path] = Absent]
  /\ UNCHANGED <<busy, targets, commits, event, part>>

WorkerRenames ==
  /\ \/ /\ Worker("rename", "finished")
        /\ final' = [final EXCEPT ![worker.job.path] = part[worker.job.path]]
     \/ Worker("rename", "failed") /\ UNCHANGED final
  /\ part' = [part EXCEPT ![worker.job.path] = Absent]
  /\ UNCHANGED <<busy, targets, commits, event>>

MutWorkerReports ==
  /\ Worker("finished", "clear") \/ Worker("failed", "clear")
  /\ busy' = FALSE
  /\ UNCHANGED <<targets, commits, event, final, part>>

WorkerReports ==
  /\ \/ Worker("finished", "clear") /\ Push("transfer_finished")
     \/ Worker("failed", "clear") /\ Push("transfer_failed")
  /\ UNCHANGED <<busy, targets, commits, final, part>>

\* busy_ is cleared last; the thread still runs, its locals are of no use.
WorkerClears ==
  /\ worker.at = "clear"
  /\ worker' = [at |-> "exit", job |-> NoJob, reply |-> <<>>]
  /\ busy' = FALSE
  /\ UNCHANGED <<targets, commits, event, final, part>>

WorkerExits ==
  /\ Worker("exit", "ended")
  /\ UNCHANGED <<busy, targets, commits, event, final, part>>

WorkerStep ==
  \/ WorkerBegin \/ WorkerFails \/ WorkerConnects \/ WorkerReceives
  \/ WorkerCommits \/ WorkerJoined \/ WorkerOpens \/ WorkerCloses
  \/ WorkerRemoves \/ WorkerRenames \/ WorkerReports \/ WorkerClears
  \/ WorkerExits
=============================================================================
