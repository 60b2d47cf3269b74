-------------------------- MODULE MvrXchangeProofs --------------------------
(* Proofs about MvrXchange, for every set of stations and paths, any number *)
(* of revisions and any number of starts.                                   *)
EXTENDS MvrXchange, TLAPS

-----------------------------------------------------------------------------
(* The inductive invariant *)

Connecting == {"begin", "connect", "talk"}
Downloading == {"write", "writing", "remove", "rename", "finished", "failed"}
Returning == {"none", "exit", "ended"}
WorkerPlaces == Connecting \cup Downloading \cup Returning \cup {"joined", "clear"}

Jobs == [station: Stations \cup {Absent}, file: Revisions \cup {NoRevision},
         path: Paths \cup {Absent}, request: BOOLEAN,
         before: Files \cup {Absent}]
Texts == [revision: Revisions \cup {NoRevision}, digits: Nat]
JoinReply == [kind: {"json"}, type: {"MVR_JOIN_RET"}, texts: Seq(Texts)]

UiPlaces == {"idle", "poll", "stop_discovery", "stop_tcp", "stop_mdns",
             "stop_worker"}
UiStates == {"disconnected", "discovering", "joining", "joined", "error",
             "revision_available", "requesting", "receiving", "received"}

(* Shape of what TypeOK leaves open: the worker, the threads, the user      *)
(* interface.                                                               *)
ShapeOK ==
  /\ worker \in [at: WorkerPlaces, job: Jobs, reply: Seq(JoinReply)]
  /\ published \in [Stations -> 0 .. MaxRevisions]
  /\ discovery \in [running: BOOLEAN,
                    thread: {"none", "open", "loop", "ended"},
                    failed: BOOLEAN]
  /\ local \in [running: BOOLEAN, open: BOOLEAN,
                tcp: {"none", "check", "accept", "ended"},
                mdns: {"none", "open", "receive", "ended"}]
  /\ ui \in [at: UiPlaces, timer: BOOLEAN, running: BOOLEAN,
             state: UiStates, selected: Stations \cup {Absent}]

(* A worker that is not about to return has a job it can do: a station, and *)
(* for a request, which alone writes a file, a revision and a path.         *)
JobFits ==
  /\ worker.at \notin Returning => worker.job.station \in Stations
  /\ worker.at \in Downloading => worker.job.request
  /\ worker.job.request => /\ worker.job.file \in Revisions
                           /\ worker.job.path \in Paths
                           /\ worker.at # "joined"

(* Where the two files of a transfer are at each point of it: the target is *)
(* the one found when the job was given until it is removed, and is absent  *)
(* until the .part file, closed by then, is renamed.                        *)
TransferStage ==
  /\ worker.at = "writing" => part[worker.job.path] \in Files
  /\ worker.at \in {"remove", "rename"} =>
       /\ part[worker.job.path] \in Files
       /\ part[worker.job.path].bytes # "growing"
  /\ worker.job.request
     /\ worker.at \in Connecting \cup {"write", "writing", "remove"} =>
       final[worker.job.path] = worker.job.before
  /\ worker.at = "rename" => final[worker.job.path] = Absent

(* A service that does not run has no thread, or its stop is at the join of *)
(* that thread, or discovery gave up.                                       *)
StoppedMeansJoined ==
  /\ ~discovery.running =>
       \/ discovery.thread = "none"
       \/ discovery.failed
       \/ ui.at = "stop_discovery"
  /\ ~local.running =>
       /\ local.tcp = "none" \/ ui.at = "stop_tcp"
       /\ local.mdns = "none" \/ ui.at \in {"stop_tcp", "stop_mdns"}

WorkerInv == IdleMeansQuiet /\ JobFits /\ TransferStage /\ FinalFilesSafe
ServiceInv == StoppedMeansJoined /\ (alive \/ discovery.failed)

XchangeInv == TypeOK /\ ShapeOK /\ WorkerInv /\ ServiceInv

-----------------------------------------------------------------------------
(* What the operators on messages return *)

(* A stream without a package, and a stream of one package, which is        *)
(* delivered when its header is right and it arrived whole.                 *)
LEMMA ParseNothing == ParsePackages(<<>>) = <<>>
BY DEF ParsePackages

LEMMA ParseOne ==
  ASSUME NEW package
  PROVE  ParsePackages(<<package>>) =
           IF package.header /\ package.whole THEN <<package.message>> ELSE <<>>
<1> DEFINE stream == <<package>>
           broken == {i \in DOMAIN stream : ~stream[i].header \/ ~stream[i].whole}
           end == IF broken = {} THEN Len(stream)
                  ELSE (CHOOSE i \in broken : \A j \in broken : i <= j) - 1
<1>1. DOMAIN stream = {1} /\ stream[1] = package /\ Len(stream) = 1
  OBVIOUS
<1>2. ParsePackages(stream) = [i \in 1 .. end |-> stream[i].message]
  BY DEF ParsePackages
<1>3. CASE package.header /\ package.whole
  <2>1. broken = {} /\ end = 1
    BY <1>1, <1>3
  <2> QED
    BY <1>1, <1>2, <1>3, <2>1
<1>4. CASE ~(package.header /\ package.whole)
  <2>1. broken = {1}
    BY <1>1, <1>4
  <2>2. (CHOOSE i \in broken : \A j \in broken : i <= j) = 1
    BY <2>1
  <2>3. end = 0
    BY <2>1, <2>2
  <2> QED
    BY <1>2, <1>4, <2>3
<1> QED
  BY <1>3, <1>4

(* A commit names a revision or none, whoever sent it. *)
LEMMA CommitType ==
  ASSUME NEW message, message.texts \in Seq(Texts)
  PROVE  CommitOf(message) \in Revisions \cup {NoRevision}
<1>1. CASE message.texts = <<>>
  BY <1>1 DEF CommitOf, CanonicalUuid, FirstText, NoRevision
<1>2. CASE message.texts # <<>>
  <2>1. Head(message.texts) \in Texts
    BY <1>2
  <2>2. FirstText(message) \in Texts
    BY <1>2, <2>1 DEF FirstText
  <2> QED
    BY <2>2 DEF CommitOf, CanonicalUuid, Texts
<1> QED
  BY <1>1, <1>2

(* The list in a station's reply to a join. *)
LEMMA ListedType ==
  ASSUME ShapeOK, NEW s \in Stations
  PROVE  Listed(s) \in Seq(Texts)
<1>1. published[s] \in Nat /\ published[s] <= MaxRevisions
  BY RevisionsAssumption DEF ShapeOK
<1>2. ASSUME NEW i \in 1 .. published[s]
      PROVE  UuidText(published[s] + 1 - i) \in Texts
  BY <1>1, RevisionsAssumption DEF UuidText, Texts, Revisions, NoRevision
<1> QED
  BY <1>1, <1>2 DEF Listed

(* The reply to a join that the worker goes through. *)
LEMMA ReplyType ==
  ASSUME ShapeOK, JobFits, worker.at = "talk", ~worker.job.request,
         NEW stream \in Replies(worker.job)
  PROVE  ParsePackages(stream) \in Seq(JoinReply)
<1> DEFINE reply == Json("MVR_JOIN_RET", Listed(worker.job.station))
<1>1. worker.job.station \in Stations
  BY DEF JobFits, Returning
<1>2. reply \in JoinReply
  BY <1>1, ListedType DEF Json, JoinReply
<1>3. \/ stream = <<>>
      \/ stream = <<[Package(Absent) EXCEPT !.header = FALSE]>>
      \/ stream = <<Package(reply)>>
  BY DEF Replies
<1> HIDE DEF reply
<1>4. CASE stream = <<>>
  <2>1. ParsePackages(stream) = <<>>
    BY <1>4, ParseNothing
  <2> QED
    BY <2>1
<1>5. CASE stream = <<[Package(Absent) EXCEPT !.header = FALSE]>>
  <2>1. ParsePackages(stream) = <<>>
    BY <1>5, ParseOne DEF Package
  <2> QED
    BY <2>1
<1>6. CASE stream = <<Package(reply)>>
  <2>1. PICK package : package = Package(reply)
    OBVIOUS
  <2>2. package.header /\ package.whole /\ package.message = reply
    BY <2>1 DEF Package
  <2>3. stream = <<package>>
    BY <1>6, <2>1
  <2>4. ParsePackages(stream) = <<reply>>
    BY <2>2, <2>3, ParseOne
  <2> QED
    BY <1>2, <2>4
<1> QED
  BY <1>3, <1>4, <1>5, <1>6

-----------------------------------------------------------------------------
(* The steps of the worker *)

LEMMA InitInv == Init => XchangeInv
<1> SUFFICES ASSUME Init PROVE XchangeInv
  OBVIOUS
<1>1. NoJob \in Jobs
  BY DEF NoJob, Jobs
<1>2. worker \in [at: WorkerPlaces, job: Jobs, reply: Seq(JoinReply)]
  BY <1>1 DEF Init, TransferInit, WorkerPlaces, Returning
<1>3. TypeOK
  BY DEF Init, TransferInit, TypeOK, NoUi
<1>4. ShapeOK
  BY <1>2, RevisionsAssumption
     DEF Init, TransferInit, ShapeOK, NoUi, UiPlaces, UiStates, NoRevision
<1>5. WorkerInv
  BY DEF Init, TransferInit, WorkerInv, IdleMeansQuiet, JobFits, TransferStage,
     FinalFilesSafe, NoJob, Returning, Downloading
<1>6. ServiceInv
  BY DEF Init, ServiceInv, StoppedMeansJoined
<1> QED
  BY <1>3, <1>4, <1>5, <1>6 DEF XchangeInv

(* Steps that leave the worker and the files alone. *)
LEMMA WorkerFrame ==
  ASSUME WorkerInv, UNCHANGED <<busy, worker, final, part>>
  PROVE  WorkerInv'
BY DEF WorkerInv, IdleMeansQuiet, JobFits, TransferStage, FinalFilesSafe

(* What is known of the worker, in a form its steps can use. *)
LEMMA WorkerFacts ==
  ASSUME ShapeOK
  PROVE  /\ worker = [at |-> worker.at, job |-> worker.job, reply |-> worker.reply]
         /\ worker.at \in WorkerPlaces
         /\ worker.job \in Jobs
         /\ worker.reply \in Seq(JoinReply)
BY DEF ShapeOK

(* A step of the worker to another place keeps its job and its reply. *)
LEMMA WorkerMoves ==
  ASSUME ShapeOK, NEW from, NEW to, Worker(from, to)
  PROVE  /\ worker.at = from
         /\ worker'.at = to
         /\ worker'.job = worker.job
         /\ worker'.reply = worker.reply
         /\ to \in WorkerPlaces =>
              worker' \in [at: WorkerPlaces, job: Jobs, reply: Seq(JoinReply)]
BY DEF ShapeOK, Worker

LEMMA MovesWithoutFiles ==
  ASSUME XchangeInv, NEW from \in WorkerPlaces, NEW to \in WorkerPlaces, Worker(from, to),
         UNCHANGED <<busy, final, part>>,
         \/ from = "begin" /\ to = "connect"
         \/ from = "connect" /\ to = "talk"
         \/ from \in {"connect", "talk"} /\ to = "clear"
         \/ from = "talk" /\ to \in {"write", "failed"} /\ worker.job.request
         \/ from = "talk" /\ to = "joined" /\ ~worker.job.request
         \/ from = "joined" /\ to = "clear"
         \/ from = "write" /\ to = "failed"
         \/ from \in {"finished", "failed"} /\ to = "clear"
         \/ from = "exit" /\ to = "ended"
  PROVE  WorkerInv'
<1>1. /\ worker.at = from /\ worker'.at = to
      /\ worker'.job = worker.job
  BY WorkerMoves DEF XchangeInv
<1>2. IdleMeansQuiet'
  BY <1>1 DEF XchangeInv, WorkerInv, IdleMeansQuiet
<1>3. JobFits'
  BY <1>1 DEF XchangeInv, WorkerInv, JobFits, Returning, Downloading
<1>4. TransferStage'
  BY <1>1 DEF XchangeInv, WorkerInv, TransferStage, JobFits, Connecting, Downloading
<1>5. FinalFilesSafe'
  BY <1>1 DEF XchangeInv, WorkerInv, FinalFilesSafe, TransferStage, Connecting, JobFits, Downloading
<1> QED
  BY <1>2, <1>3, <1>4, <1>5 DEF WorkerInv

(* The steps that touch the files of a transfer. *)
LEMMA WritingKeepsInv ==
  ASSUME XchangeInv, WorkerOpens \/ WorkerCloses \/ WorkerRemoves \/ WorkerRenames
  PROVE  /\ WorkerInv'
         /\ worker' \in [at: WorkerPlaces, job: Jobs, reply: Seq(JoinReply)]
         /\ final' \in [Paths -> Files \cup {Absent}]
         /\ part' \in [Paths -> Files \cup {Absent}]
<1> USE DEF XchangeInv
<1> DEFINE p == worker.job.path
           growing == [revision |-> worker.job.file, bytes |-> "growing"]
<1>1. /\ final \in [Paths -> Files \cup {Absent}]
      /\ part \in [Paths -> Files \cup {Absent}]
  BY DEF TypeOK
<1>2. ASSUME worker.at \in Downloading
      PROVE  worker.job.request /\ p \in Paths /\ growing \in Files
  BY <1>2 DEF WorkerInv, JobFits, Files
<1>3. CASE WorkerOpens
  <2>1. CASE Worker("write", "failed") /\ UNCHANGED part
    <3>1. UNCHANGED <<busy, final, part>>
      BY <1>3, <2>1 DEF WorkerOpens
    <3>2. "write" \in WorkerPlaces /\ "failed" \in WorkerPlaces
      BY DEF WorkerPlaces, Downloading
    <3> QED
      BY <1>1, <2>1, <3>1, <3>2, MovesWithoutFiles, WorkerMoves
  <2>2. CASE Worker("write", "writing") /\ part' = [part EXCEPT ![p] = growing]
    <3>1. /\ worker.at = "write" /\ worker'.at = "writing"
          /\ worker'.job = worker.job
          /\ worker' \in [at: WorkerPlaces, job: Jobs, reply: Seq(JoinReply)]
      BY <2>2, WorkerMoves DEF WorkerPlaces, Downloading
    <3>2. UNCHANGED <<busy, final>>
      BY <1>3 DEF WorkerOpens
    <3>3. p \in Paths /\ growing \in Files /\ worker.job.request
      BY <1>2, <3>1 DEF Downloading
    <3>4. part' \in [Paths -> Files \cup {Absent}] /\ part'[p] \in Files
      BY <1>1, <2>2, <3>3
    <3>5. WorkerInv'
      BY <3>1, <3>2, <3>3, <3>4
         DEF WorkerInv, IdleMeansQuiet, JobFits, TransferStage, FinalFilesSafe,
             Returning, Downloading, Connecting
    <3> QED
      BY <1>1, <3>1, <3>2, <3>4, <3>5
  <2> QED
    BY <1>3, <2>1, <2>2 DEF WorkerOpens
<1>4. CASE WorkerCloses
  <2>1. /\ worker.at = "writing" /\ worker'.at = "remove"
        /\ worker'.job = worker.job
        /\ worker' \in [at: WorkerPlaces, job: Jobs, reply: Seq(JoinReply)]
    BY <1>4, WorkerMoves DEF WorkerCloses, WorkerPlaces, Downloading
  <2>2. UNCHANGED <<busy, final>>
    BY <1>4 DEF WorkerCloses
  <2>3. p \in Paths /\ part[p] \in Files /\ worker.job.request
    BY <1>2, <2>1 DEF Downloading, WorkerInv, TransferStage
  <2>4. PICK bytes \in {"whole", "short"} :
          part' = [part EXCEPT ![p] = [part[p] EXCEPT !.bytes = bytes]]
    BY <1>4 DEF WorkerCloses
  <2>5. /\ [part[p] EXCEPT !.bytes = bytes] \in Files
        /\ [part[p] EXCEPT !.bytes = bytes].bytes # "growing"
    BY <2>3 DEF Files
  <2>6. /\ part' \in [Paths -> Files \cup {Absent}]
        /\ part'[p] \in Files /\ part'[p].bytes # "growing"
    BY <1>1, <2>3, <2>4, <2>5
  <2>7. WorkerInv'
    BY <2>1, <2>2, <2>3, <2>6
       DEF WorkerInv, IdleMeansQuiet, JobFits, TransferStage, FinalFilesSafe,
           Returning, Downloading, Connecting
  <2> QED
    BY <1>1, <2>1, <2>2, <2>6, <2>7
<1>5. CASE WorkerRemoves
  <2>1. /\ worker.at = "remove" /\ worker'.at = "rename"
        /\ worker'.job = worker.job
        /\ worker' \in [at: WorkerPlaces, job: Jobs, reply: Seq(JoinReply)]
    BY <1>5, WorkerMoves DEF WorkerRemoves, WorkerPlaces, Downloading
  <2>2. UNCHANGED <<busy, part>> /\ final' = [final EXCEPT ![p] = Absent]
    BY <1>5 DEF WorkerRemoves
  <2>3. p \in Paths /\ worker.job.request
    BY <1>2, <2>1 DEF Downloading
  <2>4. /\ final' \in [Paths -> Files \cup {Absent}]
        /\ \A q \in Paths : final'[q] = IF q = p THEN Absent ELSE final[q]
    BY <1>1, <2>2, <2>3
  <2>5. FinalFilesSafe'
    BY <2>1, <2>4 DEF WorkerInv, FinalFilesSafe
  <2>6. WorkerInv'
    BY <2>1, <2>2, <2>3, <2>4, <2>5
       DEF WorkerInv, IdleMeansQuiet, JobFits, TransferStage,
           Returning, Downloading, Connecting
  <2> QED
    BY <1>1, <2>1, <2>2, <2>4, <2>6
<1>6. CASE WorkerRenames
  <2>1. PICK to \in {"finished", "failed"} :
          /\ Worker("rename", to)
          /\ final' = IF to = "finished" THEN [final EXCEPT ![p] = part[p]] ELSE final
    BY <1>6 DEF WorkerRenames
  <2>2. /\ worker.at = "rename" /\ worker'.at = to
        /\ worker'.job = worker.job
        /\ worker' \in [at: WorkerPlaces, job: Jobs, reply: Seq(JoinReply)]
    BY <2>1, WorkerMoves DEF WorkerPlaces, Downloading
  <2>3. UNCHANGED busy /\ part' = [part EXCEPT ![p] = Absent]
    BY <1>6 DEF WorkerRenames
  <2>4. /\ p \in Paths /\ worker.job.request /\ final[p] = Absent
        /\ part[p] \in Files /\ part[p].bytes # "growing"
    BY <1>2, <2>2 DEF Downloading, WorkerInv, TransferStage
  <2>5. /\ final' \in [Paths -> Files \cup {Absent}]
        /\ part' \in [Paths -> Files \cup {Absent}]
        /\ to = "failed" => final'[p] = Absent
        /\ \A q \in Paths : final'[q] = final[q] \/ final'[q] = part[p]
    BY <1>1, <2>1, <2>3, <2>4
  <2>6. FinalFilesSafe'
    BY <2>2, <2>4, <2>5 DEF WorkerInv, FinalFilesSafe
  <2>7. WorkerInv'
    BY <2>2, <2>3, <2>4, <2>6
       DEF WorkerInv, IdleMeansQuiet, JobFits, TransferStage,
           Returning, Downloading, Connecting
  <2> QED
    BY <2>2, <2>5, <2>7
<1> QED
  BY <1>3, <1>4, <1>5, <1>6

(* The worker looks at what has arrived. *)
LEMMA ReceivesKeepsInv ==
  ASSUME XchangeInv, WorkerReceives
  PROVE  /\ WorkerInv'
         /\ worker' \in [at: WorkerPlaces, job: Jobs, reply: Seq(JoinReply)]
         /\ event' \in DOMAIN StateOf \cup {Absent}
<1> USE DEF XchangeInv
<1>1. worker.at = "talk" /\ UNCHANGED <<busy, final, part>>
  BY DEF WorkerReceives
<1>2. PICK stream \in Replies(worker.job) :
        LET messages == ParsePackages(stream) IN
        \/ /\ worker' = [worker EXCEPT !.at = "clear"] /\ Push(Failed)
        \/ /\ worker.job.request /\ UNCHANGED event
           /\ worker' = [worker EXCEPT !.at = IF Acceptable(PayloadOf(messages))
                                             THEN "write" ELSE "failed"]
        \/ /\ ~worker.job.request /\ Push("join_succeeded")
           /\ worker' = [worker EXCEPT !.at = "joined", !.reply = messages]
  BY DEF WorkerReceives
<1> DEFINE messages == ParsePackages(stream)
<1>3. /\ {"talk", "clear", "write", "failed", "joined"} \subseteq WorkerPlaces
      /\ event \in DOMAIN StateOf \cup {Absent}
  BY DEF WorkerPlaces, Connecting, Downloading, TypeOK
<1>4. CASE worker' = [worker EXCEPT !.at = "clear"] /\ Push(Failed)
  <2>1. Worker("talk", "clear")
    BY <1>1, <1>4 DEF Worker
  <2>2. event' \in DOMAIN StateOf
    BY <1>4 DEF Push, Failed, StateOf
  <2> QED
    BY <1>1, <1>3, <2>1, <2>2, MovesWithoutFiles, WorkerMoves
<1>5. CASE /\ worker.job.request /\ UNCHANGED event
           /\ worker' = [worker EXCEPT !.at = IF Acceptable(PayloadOf(messages))
                                             THEN "write" ELSE "failed"]
  <2>1. PICK to \in {"write", "failed"} : Worker("talk", to)
    BY <1>1, <1>5 DEF Worker
  <2> QED
    BY <1>1, <1>3, <1>5, <2>1, MovesWithoutFiles, WorkerMoves
<1>6. CASE /\ ~worker.job.request /\ Push("join_succeeded")
           /\ worker' = [worker EXCEPT !.at = "joined", !.reply = messages]
  <2>1. messages \in Seq(JoinReply)
    BY <1>1, <1>6, ReplyType DEF WorkerInv
  <2>2. /\ worker'.at = "joined" /\ worker'.job = worker.job
        /\ worker' \in [at: WorkerPlaces, job: Jobs, reply: Seq(JoinReply)]
    BY <1>3, <1>6, <2>1, WorkerFacts
  <2>3. event' \in DOMAIN StateOf
    BY <1>6 DEF Push, StateOf
  <2>4. WorkerInv'
    BY <1>1, <1>6, <2>2
       DEF WorkerInv, IdleMeansQuiet, JobFits, TransferStage, FinalFilesSafe,
           Returning, Downloading, Connecting
  <2> QED
    BY <2>2, <2>3, <2>4
<1> QED
  BY <1>2, <1>4, <1>5, <1>6

(* The steps that only move on, with or without an event. *)
LEMMA MovingKeepsInv ==
  ASSUME XchangeInv,
         WorkerBegin \/ WorkerFails \/ WorkerConnects \/ WorkerJoined
           \/ WorkerReports \/ WorkerExits
  PROVE  /\ WorkerInv'
         /\ worker' \in [at: WorkerPlaces, job: Jobs, reply: Seq(JoinReply)]
         /\ event' \in DOMAIN StateOf \cup {Absent}
<1> USE DEF XchangeInv
<1>1. PICK from \in WorkerPlaces, to \in WorkerPlaces :
        /\ Worker(from, to)
        /\ UNCHANGED <<busy, final, part>>
        /\ \/ from = "begin" /\ to = "connect"
           \/ from = "connect" /\ to = "talk"
           \/ from \in {"connect", "talk"} /\ to = "clear"
           \/ from = "joined" /\ to = "clear"
           \/ from \in {"finished", "failed"} /\ to = "clear"
           \/ from = "exit" /\ to = "ended"
  <2>1. ASSUME WorkerFails PROVE Worker(worker.at, "clear")
    BY <2>1 DEF WorkerFails, Worker
  <2> QED
    BY <2>1 DEF WorkerBegin, WorkerFails, WorkerConnects, WorkerJoined, WorkerReports,
       WorkerExits, Worker, WorkerPlaces, Connecting, Downloading, Returning
<1>2. WorkerInv'
  BY <1>1, MovesWithoutFiles
<1>3. worker' \in [at: WorkerPlaces, job: Jobs, reply: Seq(JoinReply)]
  BY <1>1, WorkerMoves
<1>4. event' \in DOMAIN StateOf \cup {Absent}
  BY DEF TypeOK, StateOf, WorkerBegin, WorkerFails, WorkerConnects, WorkerJoined,
     WorkerReports, WorkerExits, Push, Failed
<1> QED
  BY <1>2, <1>3, <1>4

(* A message of the reply to a join, and the end of the worker's job. *)
LEMMA CommitsKeepInv ==
  ASSUME XchangeInv, WorkerCommits
  PROVE  /\ WorkerInv'
         /\ worker' \in [at: WorkerPlaces, job: Jobs, reply: Seq(JoinReply)]
         /\ event' \in DOMAIN StateOf \cup {Absent}
         /\ commits' \in [Keys -> Revisions \cup {Absent, NoRevision}]
<1> USE DEF XchangeInv
<1>1. /\ worker.at = "joined" /\ worker.reply # <<>>
      /\ worker' = [worker EXCEPT !.reply = Tail(worker.reply)]
      /\ UNCHANGED <<busy, final, part>>
  BY DEF WorkerCommits
<1>2. /\ Head(worker.reply) \in JoinReply
      /\ Tail(worker.reply) \in Seq(JoinReply)
  BY <1>1, WorkerFacts
<1>3. /\ worker' \in [at: WorkerPlaces, job: Jobs, reply: Seq(JoinReply)]
      /\ worker'.at = worker.at /\ worker'.job = worker.job
  BY <1>1, <1>2, WorkerFacts
<1>4. WorkerInv'
  BY <1>1, <1>3
     DEF WorkerInv, IdleMeansQuiet, JobFits, TransferStage, FinalFilesSafe,
         Returning, Downloading, Connecting
<1>5. event' \in DOMAIN StateOf \cup {Absent}
  BY DEF WorkerCommits, Push, TypeOK, StateOf
<1>6. CommitOf(Head(worker.reply)) \in Revisions \cup {NoRevision}
  BY <1>2, CommitType DEF JoinReply
<1>7. ServiceKey(worker.job.station) \in Keys
  BY <1>1 DEF WorkerInv, JobFits, Returning, Keys
<1>8. commits' \in [Keys -> Revisions \cup {Absent, NoRevision}]
  BY <1>6, <1>7 DEF WorkerCommits, TypeOK
<1> QED
  BY <1>3, <1>4, <1>5, <1>8

LEMMA ClearsKeepsInv ==
  ASSUME XchangeInv, WorkerClears
  PROVE  /\ WorkerInv'
         /\ worker' \in [at: WorkerPlaces, job: Jobs, reply: Seq(JoinReply)]
<1>1. NoJob \in Jobs /\ ~NoJob.request
  BY DEF NoJob, Jobs
<1>2. /\ worker' = [at |-> "exit", job |-> NoJob, reply |-> <<>>]
      /\ UNCHANGED <<final, part>>
  BY DEF WorkerClears
<1>3. worker' \in [at: WorkerPlaces, job: Jobs, reply: Seq(JoinReply)]
  BY <1>1, <1>2 DEF WorkerPlaces, Returning
<1>4. WorkerInv'
  BY <1>1, <1>2 DEF XchangeInv, WorkerInv, IdleMeansQuiet, JobFits, TransferStage,
     FinalFilesSafe, Returning, Downloading, Connecting
<1> QED
  BY <1>3, <1>4

LEMMA TransferKeepsInv == XchangeInv /\ Transfer => XchangeInv'
<1> SUFFICES ASSUME XchangeInv, Transfer PROVE XchangeInv'
  OBVIOUS
<1> USE DEF XchangeInv
<1> DEFINE WorkerShape == [at: WorkerPlaces, job: Jobs, reply: Seq(JoinReply)]
<1>1. UNCHANGED <<published, alive, discovery, stations, local, ui, starts>>
  BY DEF Transfer
<1>2. UNCHANGED targets /\ busy' \in BOOLEAN
  BY DEF Transfer, WorkerStep, WorkerBegin, WorkerFails, WorkerConnects, WorkerReceives,
     WorkerCommits, WorkerJoined, WorkerOpens, WorkerCloses, WorkerRemoves, WorkerRenames,
     WorkerReports, WorkerClears, WorkerExits, TypeOK
<1>3. /\ WorkerInv' /\ worker' \in WorkerShape
      /\ event' \in DOMAIN StateOf \cup {Absent}
      /\ commits' \in [Keys -> Revisions \cup {Absent, NoRevision}]
      /\ final' \in [Paths -> Files \cup {Absent}]
      /\ part' \in [Paths -> Files \cup {Absent}]
  <2>1. CASE WorkerOpens \/ WorkerCloses \/ WorkerRemoves \/ WorkerRenames
    <3>1. UNCHANGED <<event, commits>>
      BY <2>1 DEF WorkerOpens, WorkerCloses, WorkerRemoves, WorkerRenames
    <3> QED
      BY <2>1, <3>1, WritingKeepsInv DEF TypeOK
  <2>2. CASE WorkerReceives
    <3>1. UNCHANGED <<commits, final, part>>
      BY <2>2 DEF WorkerReceives
    <3> QED
      BY <2>2, <3>1, ReceivesKeepsInv DEF TypeOK
  <2>3. CASE WorkerBegin \/ WorkerFails \/ WorkerConnects \/ WorkerJoined
               \/ WorkerReports \/ WorkerExits
    <3>1. UNCHANGED <<commits, final, part>>
      BY <2>3 DEF WorkerBegin, WorkerFails, WorkerConnects, WorkerJoined, WorkerReports,
         WorkerExits
    <3> QED
      BY <2>3, <3>1, MovingKeepsInv DEF TypeOK
  <2>4. CASE WorkerCommits
    <3>1. UNCHANGED <<final, part>>
      BY <2>4 DEF WorkerCommits
    <3> QED
      BY <2>4, <3>1, CommitsKeepInv DEF TypeOK
  <2>5. CASE WorkerClears
    <3>1. UNCHANGED <<event, commits, final, part>>
      BY <2>5 DEF WorkerClears
    <3> QED
      BY <2>5, <3>1, ClearsKeepsInv DEF TypeOK
  <2> QED
    BY <2>1, <2>2, <2>3, <2>4, <2>5 DEF Transfer, WorkerStep
<1>4. TypeOK'
  BY <1>1, <1>2, <1>3 DEF TypeOK
<1>5. ShapeOK'
  BY <1>1, <1>3 DEF ShapeOK
<1>6. ServiceInv'
  BY <1>1 DEF ServiceInv, StoppedMeansJoined
<1> QED
  BY <1>3, <1>4, <1>5, <1>6

-----------------------------------------------------------------------------
(* The threads of discovery and of the local station *)

LEMMA DiscoveryKeepsInv == XchangeInv /\ Discovery => XchangeInv'
<1> SUFFICES ASSUME XchangeInv, Discovery PROVE XchangeInv'
  OBVIOUS
<1> USE DEF XchangeInv
<1>1. UNCHANGED discoveryOnly
  BY DEF Discovery, DiscoveryOpens, DiscoveryEnds, RecordArrives
<1>2. WorkerInv'
  BY <1>1, WorkerFrame DEF discoveryOnly, transferVars
<1>3. stations' \subseteq Stations
  BY DEF Discovery, DiscoveryOpens, DiscoveryEnds, RecordArrives, Upsert, TypeOK
<1>4. TypeOK'
  BY <1>1, <1>3 DEF TypeOK, discoveryOnly, transferVars
<1> DEFINE DiscoveryShape == [running: BOOLEAN,
                              thread: {"none", "open", "loop", "ended"},
                              failed: BOOLEAN]
<1>5. /\ discovery' \in DiscoveryShape
      /\ \/ discovery'.running = discovery.running /\ discovery'.failed = discovery.failed
         \/ discovery'.failed
      /\ discovery.thread = "none" => discovery' = discovery
  <2>1. discovery \in DiscoveryShape
    BY DEF ShapeOK
  <2>2. CASE \E thread \in {"loop", "ended"} :
               /\ discovery.thread # "none"
               /\ discovery' = [discovery EXCEPT !.thread = thread]
    BY <2>1, <2>2
  <2>3. CASE /\ discovery.thread = "open"
             /\ discovery' = [running |-> FALSE, thread |-> "ended", failed |-> TRUE]
    BY <2>1, <2>3
  <2>4. CASE UNCHANGED discovery
    BY <2>1, <2>4
  <2> QED
    BY <2>2, <2>3, <2>4 DEF Discovery, DiscoveryOpens, DiscoveryEnds, RecordArrives
<1>6. ShapeOK'
  BY <1>1, <1>5 DEF ShapeOK, discoveryOnly, transferVars
<1>7. ServiceInv'
  BY <1>1, <1>5 DEF ServiceInv, StoppedMeansJoined, discoveryOnly
<1> QED
  BY <1>2, <1>4, <1>6, <1>7

(* What a step of the local station's threads leaves to show. *)
LEMMA LocalFrame ==
  ASSUME XchangeInv, UNCHANGED localOnly,
         commits' \in [Keys -> Revisions \cup {Absent, NoRevision}],
         event' \in DOMAIN StateOf \cup {Absent},
         NEW tcp \in {"none", "check", "accept", "ended"},
         NEW mdns \in {"none", "open", "receive", "ended"},
         local' = [local EXCEPT !.tcp = tcp, !.mdns = mdns],
         local.tcp = "none" => tcp = "none",
         local.mdns = "none" => mdns = "none"
  PROVE  XchangeInv'
<1> USE DEF XchangeInv
<1>1. WorkerInv'
  BY WorkerFrame DEF localOnly
<1>2. TypeOK'
  BY DEF TypeOK, localOnly
<1>3. /\ local' \in [running: BOOLEAN, open: BOOLEAN,
                      tcp: {"none", "check", "accept", "ended"},
                      mdns: {"none", "open", "receive", "ended"}]
      /\ local'.running = local.running /\ local'.tcp = tcp /\ local'.mdns = mdns
  BY DEF ShapeOK
<1>4. ShapeOK'
  BY <1>3 DEF ShapeOK, localOnly
<1>5. ServiceInv'
  BY <1>3 DEF ServiceInv, StoppedMeansJoined, localOnly
<1> QED
  BY <1>1, <1>2, <1>4, <1>5

(* What a connection to the local station leaves. *)
LEMMA HandlesKeepsInv ==
  ASSUME XchangeInv, NEW s \in Stations, NEW message, message.texts \in Seq(Texts),
         TcpHandles(s, message)
  PROVE  XchangeInv'
<1>1. local.tcp = "accept" /\ local' = [local EXCEPT !.tcp = "check"]
  BY DEF TcpHandles
<1>2. local' = [local EXCEPT !.tcp = "check", !.mdns = local.mdns]
  BY <1>1 DEF XchangeInv, ShapeOK
<1>3. UuidKey(s) \in Keys
  BY DEF Keys
<1>4. /\ commits' \in [Keys -> Revisions \cup {Absent, NoRevision}]
      /\ event' \in DOMAIN StateOf \cup {Absent}
  BY <1>3, CommitType DEF TcpHandles, XchangeInv, TypeOK, StateOf
<1> QED
  BY <1>1, <1>2, <1>4, LocalFrame DEF TcpHandles, XchangeInv, ShapeOK

LEMMA StationKeepsInv ==
  ASSUME XchangeInv, TcpChecks \/ TcpInterrupted \/ Mdns
  PROVE  XchangeInv'
<1>1. UNCHANGED <<commits, event, localOnly>>
  BY DEF TcpChecks, TcpInterrupted, Mdns, MdnsOpens, MdnsFails, MdnsReceives
<1>2. PICK tcp \in {"none", "check", "accept", "ended"},
           mdns \in {"none", "open", "receive", "ended"} :
        /\ local' = [local EXCEPT !.tcp = tcp, !.mdns = mdns]
        /\ local.tcp = "none" => tcp = "none"
        /\ local.mdns = "none" => mdns = "none"
  <2>1. local \in [running: BOOLEAN, open: BOOLEAN,
                   tcp: {"none", "check", "accept", "ended"},
                   mdns: {"none", "open", "receive", "ended"}]
    BY DEF XchangeInv, ShapeOK
  <2>2. CASE \E tcp \in {"check", "accept", "ended"} :
               local.tcp # "none" /\ local' = [local EXCEPT !.tcp = tcp]
    <3>1. local' = [local EXCEPT !.tcp = local'.tcp, !.mdns = local.mdns]
      BY <2>1, <2>2
    <3> QED
      BY <2>1, <2>2, <3>1
  <2>3. CASE \E mdns \in {"receive", "ended"} :
               local.mdns # "none" /\ local' = [local EXCEPT !.mdns = mdns]
    <3>1. local' = [local EXCEPT !.tcp = local.tcp, !.mdns = local'.mdns]
      BY <2>1, <2>3
    <3> QED
      BY <2>1, <2>3, <3>1
  <2> QED
    BY <2>2, <2>3 DEF TcpChecks, TcpInterrupted, Mdns, MdnsOpens, MdnsFails, MdnsReceives
<1> QED
  BY <1>1, <1>2, LocalFrame DEF XchangeInv, TypeOK

LEMMA OthersKeepInv == XchangeInv /\ Others => XchangeInv'
<1> SUFFICES ASSUME XchangeInv, NEW s \in Stations, Publish(s) \/ Join(s) \/ Announce(s)
             PROVE  XchangeInv'
  BY DEF Others
<1>1. CASE Publish(s)
  <2>1. published' \in [Stations -> 0 .. MaxRevisions]
    BY <1>1, RevisionsAssumption DEF Publish, XchangeInv, ShapeOK
  <2>2. UNCHANGED <<transferVars, alive, discovery, stations, local, ui, starts>>
    BY <1>1 DEF Publish
  <2>3. WorkerInv'
    BY <2>2, WorkerFrame DEF XchangeInv, transferVars
  <2> QED
    BY <2>1, <2>2, <2>3
       DEF XchangeInv, TypeOK, ShapeOK, ServiceInv, StoppedMeansJoined, transferVars
<1>2. CASE Join(s)
  <2>1. Json("MVR_JOIN", <<>>).texts \in Seq(Texts)
    BY DEF Json
  <2> QED
    BY <1>2, <2>1, HandlesKeepsInv DEF Join
<1>3. CASE Announce(s)
  <2> DEFINE texts == IF published[s] = 0 THEN <<[UuidText(0) EXCEPT !.digits = 8]>>
                      ELSE <<UuidText(published[s])>>
  <2>1. published[s] \in 0 .. MaxRevisions
    BY DEF XchangeInv, ShapeOK
  <2>2. /\ [UuidText(0) EXCEPT !.digits = 8] \in Texts
        /\ UuidText(published[s]) \in Texts
    BY <2>1, RevisionsAssumption DEF UuidText, Texts, Revisions, NoRevision
  <2>3. texts \in Seq(Texts)
    BY <2>2
  <2>4. Json("MVR_COMMIT", texts).texts = texts
    BY DEF Json
  <2>5. TcpHandles(s, Json("MVR_COMMIT", texts))
    BY <1>3 DEF Announce
  <2> QED
    BY <2>3, <2>4, <2>5, HandlesKeepsInv
<1> QED
  BY <1>1, <1>2, <1>3

-----------------------------------------------------------------------------
(* The main thread *)

(* Starting a worker, or being refused: a job finds no other one at work. *)
LEMMA StartKeepsWorkerInv ==
  ASSUME XchangeInv, NEW job \in Jobs, StartWorker(job), UNCHANGED <<final, part>>,
         job.station \in Stations,
         job.request => /\ job.file \in Revisions /\ job.path \in Paths
                        /\ job.before = final[job.path]
  PROVE  /\ WorkerInv' /\ busy' \in BOOLEAN
         /\ worker' \in [at: WorkerPlaces, job: Jobs, reply: Seq(JoinReply)]
<1> USE DEF XchangeInv
<1>1. worker \in [at: WorkerPlaces, job: Jobs, reply: Seq(JoinReply)] /\ busy \in BOOLEAN
  BY DEF ShapeOK, TypeOK
<1>2. CASE UNCHANGED <<busy, worker>>
  BY <1>1, <1>2, WorkerFrame
<1>3. CASE worker' = [at |-> "begin", job |-> job, reply |-> <<>>] /\ busy' = TRUE
  <2>1. worker' \in [at: WorkerPlaces, job: Jobs, reply: Seq(JoinReply)]
    BY <1>3 DEF WorkerPlaces, Connecting
  <2>2. WorkerInv'
    BY <1>3 DEF WorkerInv, IdleMeansQuiet, JobFits, TransferStage, FinalFilesSafe,
       Returning, Downloading, Connecting
  <2> QED
    BY <1>3, <2>1, <2>2
<1>4. CASE ~busy /\ ~Running /\ worker' = [worker EXCEPT !.at = "none"] /\ UNCHANGED busy
  <2>1. /\ worker'.at = "none" /\ worker'.job = worker.job
        /\ worker' \in [at: WorkerPlaces, job: Jobs, reply: Seq(JoinReply)]
    BY <1>1, <1>4 DEF WorkerPlaces, Returning
  <2>2. WorkerInv'
    BY <1>4, <2>1 DEF WorkerInv, IdleMeansQuiet, JobFits, TransferStage, FinalFilesSafe,
       Returning, Downloading, Connecting
  <2> QED
    BY <1>1, <1>4, <2>1, <2>2
<1> QED
  BY <1>2, <1>3, <1>4 DEF StartWorker

DiscoveryShape == [running: BOOLEAN, thread: {"none", "open", "loop", "ended"},
                   failed: BOOLEAN]
LocalShape == [running: BOOLEAN, open: BOOLEAN,
               tcp: {"none", "check", "accept", "ended"},
               mdns: {"none", "open", "receive", "ended"}]
UiShape == [at: UiPlaces, timer: BOOLEAN, running: BOOLEAN, state: UiStates,
            selected: Stations \cup {Absent}]

LEMMA ShapeFacts ==
  ASSUME ShapeOK
  PROVE  discovery \in DiscoveryShape /\ local \in LocalShape /\ ui \in UiShape
BY DEF ShapeOK, DiscoveryShape, LocalShape, UiShape

(* start: the handles that it assigns are those of services that are idle. *)
LEMMA StartKeepsInv == XchangeInv /\ alive /\ Start => XchangeInv'
<1> SUFFICES ASSUME XchangeInv, alive, Start PROVE XchangeInv'
  OBVIOUS
<1> USE DEF XchangeInv
<1>1. /\ discovery \in DiscoveryShape /\ local \in LocalShape /\ ui \in UiShape
      /\ ui.at = "idle"
  BY ShapeFacts DEF Start
<1>2. UNCHANGED <<mainOnly, busy, worker, targets>>
  BY DEF Start
<1>3. /\ local' \in LocalShape
      /\ local' = local \/ local'.running
  BY <1>1 DEF Start, StartedStation, LocalShape
<1>4. /\ ui' \in UiShape /\ ui'.selected = ui.selected
      /\ ui'.at = "poll"
  BY <1>1 DEF Start, UiShape, UiPlaces, UiStates
<1>5. \/ UNCHANGED <<alive, discovery, stations>>
      \/ ~discovery.running /\ discovery.thread # "none"
         /\ alive' = FALSE /\ UNCHANGED <<discovery, stations>>
      \/ discovery' = StartedDiscovery /\ stations' = {} /\ UNCHANGED alive
  BY DEF Start
<1>6. WorkerInv'
  BY <1>2, WorkerFrame DEF mainOnly
<1>7. TypeOK'
  BY <1>2, <1>4, <1>5 DEF TypeOK, mainOnly
<1>8. discovery' \in DiscoveryShape
  <2>1. StartedDiscovery \in DiscoveryShape
    BY DEF StartedDiscovery, DiscoveryShape
  <2> QED
    BY <1>1, <1>5, <2>1
<1>9. ShapeOK'
  BY <1>2, <1>3, <1>4, <1>8 DEF ShapeOK, mainOnly, DiscoveryShape, LocalShape, UiShape
<1>10. StoppedMeansJoined'
  <2>1. ~local'.running => local'.tcp = "none" /\ local'.mdns = "none"
    BY <1>1, <1>3 DEF ServiceInv, StoppedMeansJoined
  <2>2. ~discovery'.running => discovery'.thread = "none" \/ discovery'.failed
    <3>1. CASE UNCHANGED discovery
      BY <1>1, <3>1 DEF ServiceInv, StoppedMeansJoined
    <3>2. CASE discovery' = StartedDiscovery
      <4>1. StartedDiscovery.running
        BY DEF StartedDiscovery
      <4> QED
        BY <3>2, <4>1
    <3> QED
      BY <1>5, <3>1, <3>2
  <2> QED
    BY <2>1, <2>2 DEF StoppedMeansJoined
<1>11. alive' \/ discovery'.failed
  <2>1. CASE UNCHANGED alive
    BY <2>1
  <2>2. CASE ~discovery.running /\ discovery.thread # "none" /\ UNCHANGED discovery
    BY <1>1, <2>2 DEF ServiceInv, StoppedMeansJoined
  <2> QED
    BY <1>5, <2>1, <2>2
<1> QED
  BY <1>6, <1>7, <1>9, <1>10, <1>11 DEF ServiceInv

(* stop, and each of its joins, which waits for a thread of a service that  *)
(* was told to end.                                                         *)
LEMMA StopKeepsInv ==
  ASSUME XchangeInv,
         Stop \/ StopJoinsDiscovery \/ StopJoinsTcp \/ StopJoinsMdns \/ StopJoinsWorker
  PROVE  XchangeInv'
<1> USE DEF XchangeInv
<1>1. discovery \in DiscoveryShape /\ local \in LocalShape /\ ui \in UiShape
  BY ShapeFacts
<1>2. UNCHANGED <<mainOnly, targets, alive, stations>>
  BY DEF Stop, StopJoinsDiscovery, StopJoinsTcp, StopJoinsMdns, StopJoinsWorker
<1>3. /\ WorkerInv' /\ busy' \in BOOLEAN
      /\ worker' \in [at: WorkerPlaces, job: Jobs, reply: Seq(JoinReply)]
  <2>1. worker \in [at: WorkerPlaces, job: Jobs, reply: Seq(JoinReply)] /\ busy \in BOOLEAN
    BY DEF ShapeOK, TypeOK
  <2>2. CASE UNCHANGED <<busy, worker>>
    BY <1>2, <2>1, <2>2, WorkerFrame DEF mainOnly
  <2>3. CASE StopJoinsWorker
    <3>1. /\ worker' = [worker EXCEPT !.at = "none"] /\ busy' = FALSE
          /\ worker.at \in {"none", "ended"}
      BY <2>3 DEF StopJoinsWorker, Running
    <3>2. /\ worker'.at = "none" /\ worker'.job = worker.job
          /\ worker' \in [at: WorkerPlaces, job: Jobs, reply: Seq(JoinReply)]
      BY <2>1, <3>1 DEF WorkerPlaces, Returning
    <3>3. UNCHANGED <<final, part>>
      BY <1>2 DEF mainOnly
    <3> QED
      BY <3>1, <3>2, <3>3 DEF WorkerInv, IdleMeansQuiet, JobFits, TransferStage,
         FinalFilesSafe, Returning, Downloading, Connecting
  <2> QED
    BY <2>2, <2>3 DEF Stop, StopJoinsDiscovery, StopJoinsTcp, StopJoinsMdns
<1>4. /\ discovery' \in DiscoveryShape /\ local' \in LocalShape /\ ui' \in UiShape
      /\ StoppedMeansJoined' /\ discovery'.failed = discovery.failed
  <2>1. CASE Stop
    <3>1. /\ discovery' = [discovery EXCEPT !.running = FALSE]
          /\ ui' = [ui EXCEPT !.at = "stop_discovery", !.timer = FALSE]
          /\ UNCHANGED local /\ ui.at = "idle"
      BY <2>1 DEF Stop
    <3>2. /\ discovery' \in DiscoveryShape /\ discovery'.failed = discovery.failed
          /\ ui' \in UiShape /\ ui'.at = "stop_discovery"
      BY <1>1, <3>1 DEF DiscoveryShape, UiShape, UiPlaces
    <3> QED
      BY <1>1, <3>1, <3>2 DEF ServiceInv, StoppedMeansJoined
  <2>2. CASE StopJoinsDiscovery
    <3>1. /\ discovery' = [discovery EXCEPT !.thread = "none"]
          /\ local' = [local EXCEPT !.running = FALSE, !.open = FALSE]
          /\ ui' = [ui EXCEPT !.at = "stop_tcp"]
      BY <2>2 DEF StopJoinsDiscovery
    <3>2. /\ discovery' \in DiscoveryShape /\ discovery'.failed = discovery.failed
          /\ discovery'.thread = "none"
          /\ local' \in LocalShape
          /\ ui' \in UiShape /\ ui'.at = "stop_tcp"
      BY <1>1, <3>1 DEF DiscoveryShape, LocalShape, UiShape, UiPlaces
    <3> QED
      BY <3>2 DEF StoppedMeansJoined
  <2>3. CASE StopJoinsTcp
    <3>1. /\ local' = [local EXCEPT !.tcp = "none"]
          /\ ui' = [ui EXCEPT !.at = "stop_mdns"]
          /\ UNCHANGED discovery /\ ui.at = "stop_tcp"
      BY <2>3 DEF StopJoinsTcp
    <3>2. /\ local' \in LocalShape /\ local'.tcp = "none"
          /\ ui' \in UiShape /\ ui'.at = "stop_mdns"
      BY <1>1, <3>1 DEF LocalShape, UiShape, UiPlaces
    <3> QED
      BY <1>1, <3>1, <3>2 DEF ServiceInv, StoppedMeansJoined
  <2>4. CASE StopJoinsMdns
    <3>1. /\ local' = [local EXCEPT !.mdns = "none"]
          /\ ui' = [ui EXCEPT !.at = "stop_worker"]
          /\ UNCHANGED discovery /\ ui.at = "stop_mdns"
      BY <2>4 DEF StopJoinsMdns
    <3>2. /\ local' \in LocalShape /\ local'.mdns = "none"
          /\ local'.tcp = local.tcp /\ local'.running = local.running
          /\ ui' \in UiShape /\ ui'.at = "stop_worker"
      BY <1>1, <3>1 DEF LocalShape, UiShape, UiPlaces
    <3> QED
      BY <1>1, <3>1, <3>2 DEF ServiceInv, StoppedMeansJoined
  <2>5. CASE StopJoinsWorker
    <3>1. ui' = NoUi /\ UNCHANGED <<discovery, local>> /\ ui.at = "stop_worker"
      BY <2>5 DEF StopJoinsWorker
    <3>2. ui' \in UiShape /\ ui'.at = "idle"
      BY <3>1 DEF NoUi, UiShape, UiPlaces, UiStates
    <3> QED
      BY <1>1, <3>1, <3>2 DEF ServiceInv, StoppedMeansJoined
  <2> QED
    BY <2>1, <2>2, <2>3, <2>4, <2>5
<1>5. TypeOK'
  BY <1>2, <1>3, <1>4 DEF TypeOK, mainOnly, UiShape
<1>6. ShapeOK'
  BY <1>2, <1>3, <1>4 DEF ShapeOK, mainOnly, DiscoveryShape, LocalShape, UiShape
<1>7. ServiceInv'
  BY <1>2, <1>4 DEF ServiceInv
<1> QED
  BY <1>3, <1>5, <1>6, <1>7

(* The rest of the main thread: what a step that leaves the services alone  *)
(* and does not stop leaves to show.                                        *)
LEMMA PolledFrame ==
  ASSUME XchangeInv, ui.at \in {"idle", "poll"},
         UNCHANGED <<final, part, commits, published, alive, discovery, stations, local>>,
         event' \in DOMAIN StateOf \cup {Absent}, targets' \subseteq Stations,
         ui' \in UiShape, WorkerInv', busy' \in BOOLEAN,
         worker' \in [at: WorkerPlaces, job: Jobs, reply: Seq(JoinReply)]
  PROVE  XchangeInv'
<1> USE DEF XchangeInv
<1>1. TypeOK'
  BY DEF TypeOK, UiShape
<1>2. ShapeOK'
  BY DEF ShapeOK, UiShape
<1>3. ServiceInv'
  BY DEF ServiceInv, StoppedMeansJoined
<1> QED
  BY <1>1, <1>2, <1>3

LEMMA JoinJobType ==
  ASSUME NEW s \in Stations
  PROVE  /\ JoinJob(s) \in Jobs /\ JoinJob(s).station = s
         /\ ~JoinJob(s).request
BY DEF JoinJob, NoJob, Jobs

(* Selecting a station, from a poll or by the user. *)
LEMMA SelectKeepsInv ==
  ASSUME XchangeInv, ui.at \in {"idle", "poll"}, NEW s \in Stations, NEW shown \in UiShape,
         Select(s, shown), event' \in DOMAIN StateOf \cup {Absent},
         UNCHANGED <<final, part, commits, published, alive, discovery, stations, local>>
  PROVE  XchangeInv'
<1>1. targets' \subseteq Stations
  BY DEF Select, XchangeInv, TypeOK
<1>2. ui' \in UiShape
  BY DEF Select, UiShape, UiStates
<1>3. StartWorker(JoinJob(s))
  BY DEF Select
<1>4. /\ WorkerInv' /\ busy' \in BOOLEAN
      /\ worker' \in [at: WorkerPlaces, job: Jobs, reply: Seq(JoinReply)]
  BY <1>3, JoinJobType, StartKeepsWorkerInv
<1> QED
  BY <1>1, <1>2, <1>4, PolledFrame

LEMMA PollKeepsInv == XchangeInv /\ Poll => XchangeInv'
<1> SUFFICES ASSUME XchangeInv, Poll PROVE XchangeInv'
  OBVIOUS
<1> DEFINE shown == [ui EXCEPT !.at = "idle", !.running = discovery.running,
                               !.state = StateThen]
<1>1. /\ ui.at \in {"idle", "poll"} /\ event' = Absent
      /\ UNCHANGED <<final, part, commits, published, alive, discovery, stations, local>>
  BY DEF Poll
<1>2. ui \in UiShape /\ discovery \in DiscoveryShape
  BY ShapeFacts DEF XchangeInv
<1>3. StateThen \in UiStates
  <2>1. event \in DOMAIN StateOf => StateOf[event] \in UiStates
    BY DEF StateOf, UiStates
  <2>2. ui.state \in UiStates
    BY <1>2 DEF UiShape
  <2> QED
    BY <2>1, <2>2 DEF StateThen, XchangeInv, TypeOK
<1>4. shown \in UiShape
  BY <1>2, <1>3 DEF UiShape, UiPlaces, DiscoveryShape
<1>5. CASE \E s \in stations : Select(s, shown)
  <2>1. stations \subseteq Stations
    BY DEF XchangeInv, TypeOK
  <2> HIDE DEF shown
  <2> QED
    BY <1>1, <1>4, <1>5, <2>1, SelectKeepsInv
<1>6. CASE targets' = targets \cup stations /\ ui' = shown /\ UNCHANGED <<busy, worker>>
  <2>1. WorkerInv'
    BY <1>1, <1>6, WorkerFrame DEF XchangeInv
  <2>2. /\ busy' \in BOOLEAN /\ targets' \subseteq Stations
        /\ worker' \in [at: WorkerPlaces, job: Jobs, reply: Seq(JoinReply)]
    BY <1>6 DEF XchangeInv, TypeOK, ShapeOK
  <2>3. ui' \in UiShape
    BY <1>4, <1>6
  <2> QED
    BY <1>1, <2>1, <2>2, <2>3, PolledFrame
<1> QED
  BY <1>5, <1>6 DEF Poll

LEMMA PressedKeepsInv ==
  ASSUME XchangeInv,
         (\E p \in Paths : RequestUpdate(p)) \/ (\E s \in Stations : PickStation(s))
  PROVE  XchangeInv'
<1>1. ui \in UiShape /\ event \in DOMAIN StateOf \cup {Absent}
  BY ShapeFacts DEF XchangeInv, TypeOK
<1>2. ASSUME NEW s \in Stations, PickStation(s) PROVE XchangeInv'
  <2>1. /\ ui.at = "idle" /\ Select(s, ui)
        /\ UNCHANGED <<mainOnly, alive, discovery, stations, local>>
    BY <1>2 DEF PickStation, Pressed
  <2> QED
    BY <1>1, <2>1, SelectKeepsInv DEF mainOnly
<1>3. ASSUME NEW p \in Paths, RequestUpdate(p) PROVE XchangeInv'
  <2> DEFINE s == ui.selected
             job == RequestJob(s, LatestFor(s), p)
  <2>1. /\ ui.at = "idle" /\ s # Absent /\ LatestFor(s) \notin {Absent, NoRevision}
        /\ targets' = targets \cup stations /\ StartWorker(job)
        /\ ui' = [ui EXCEPT !.state = "requesting"]
        /\ UNCHANGED <<mainOnly, alive, discovery, stations, local>>
    BY <1>3 DEF RequestUpdate, Pressed
  <2>2. s \in Stations
    BY <1>1, <2>1 DEF UiShape
  <2>3. LatestFor(s) \in Revisions
    BY <2>1, <2>2 DEF LatestFor, Keys, XchangeInv, TypeOK
  <2>4. final[p] \in Files \cup {Absent}
    BY DEF XchangeInv, TypeOK
  <2>5. /\ job \in Jobs /\ job.station = s /\ job.file = LatestFor(s)
        /\ job.path = p /\ job.before = final[p]
    BY <2>2, <2>3, <2>4 DEF RequestJob, Jobs
  <2>6. UNCHANGED <<final, part>>
    BY <2>1 DEF mainOnly
  <2> HIDE DEF job, s
  <2>7. /\ WorkerInv' /\ busy' \in BOOLEAN
        /\ worker' \in [at: WorkerPlaces, job: Jobs, reply: Seq(JoinReply)]
    BY <2>1, <2>2, <2>3, <2>5, <2>6, StartKeepsWorkerInv
  <2>8. ui' \in UiShape /\ targets' \subseteq Stations
    BY <1>1, <2>1 DEF UiShape, UiStates, XchangeInv, TypeOK
  <2> QED
    BY <1>1, <2>1, <2>7, <2>8, PolledFrame DEF mainOnly
<1> QED
  BY <1>2, <1>3

-----------------------------------------------------------------------------
(* Theorems *)

LEMMA NextInv == XchangeInv /\ [Next]_vars => XchangeInv'
<1> SUFFICES ASSUME XchangeInv, [Next]_vars PROVE XchangeInv'
  OBVIOUS
<1>1. CASE alive /\ Main
  BY <1>1, StartKeepsInv, StopKeepsInv, PollKeepsInv, PressedKeepsInv DEF Main
<1>2. CASE Discovery
  BY <1>2, DiscoveryKeepsInv
<1>3. CASE TcpChecks \/ TcpInterrupted \/ Mdns
  BY <1>3, StationKeepsInv
<1>4. CASE Transfer
  BY <1>4, TransferKeepsInv
<1>5. CASE Others
  BY <1>5, OthersKeepInv
<1>6. CASE UNCHANGED vars
  <2>1. UNCHANGED <<transferVars, published, alive, discovery, stations, local, ui>>
    BY <1>6 DEF vars
  <2>2. WorkerInv'
    BY <2>1, WorkerFrame DEF transferVars, XchangeInv
  <2> QED
    BY <2>1, <2>2 DEF XchangeInv, TypeOK, ShapeOK, ServiceInv, StoppedMeansJoined, transferVars
<1> QED
  BY <1>1, <1>2, <1>3, <1>4, <1>5, <1>6 DEF Next

(* The inductive invariant holds in every reachable state, for every value  *)
(* of the constants.                                                        *)
THEOREM XchangeInvariant == Spec => []XchangeInv
<1> QED
  BY InitInv, NextInv, PTL DEF Spec

(* The client's state keeps its shape, whatever stations send: a commit     *)
(* names a revision or none, and every event has a state to be shown as.    *)
THEOREM XchangeTypeCorrect == Spec => []TypeOK
<1>1. XchangeInv => TypeOK
  BY DEF XchangeInv
<1> QED
  BY <1>1, XchangeInvariant, PTL

(* Received-file storage (write_completed_mvr_file): a file under its final *)
(* name was closed before, at every moment and so after a crash at any.     *)
THEOREM FinalFilesAlwaysSafe == Spec => []FinalFilesSafe
<1>1. XchangeInv => FinalFilesSafe
  BY DEF XchangeInv, WorkerInv
<1> QED
  BY <1>1, XchangeInvariant, PTL

(* busy_ is cleared only by a worker that touches nothing any more          *)
(* (start_worker).                                                          *)
THEOREM IdleAlwaysQuiet == Spec => []IdleMeansQuiet
<1>1. XchangeInv => IdleMeansQuiet
  BY DEF XchangeInv, WorkerInv
<1> QED
  BY <1>1, XchangeInvariant, PTL

(* However often the client is started and stopped, no handle is assigned   *)
(* over a thread, but for that of a discovery that gave up.                 *)
THEOREM HandlesAlwaysJoined == Spec => []HandlesJoinedBeforeReuse
<1>1. XchangeInv => HandlesJoinedBeforeReuse
  BY DEF XchangeInv, ServiceInv, StoppedMeansJoined, HandlesJoinedBeforeReuse
<1> QED
  BY <1>1, XchangeInvariant, PTL
=============================================================================
