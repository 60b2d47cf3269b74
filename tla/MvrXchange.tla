----------------------------- MODULE MvrXchange -----------------------------
(***************************************************************************)
(* MVR-xchange as a whole: the transfer client of MvrXchangeTransfer with  *)
(* discovery (mvr_xchange_discovery.cpp), the local station                *)
(* (mvr_xchange_local_station.cpp), the client object that owns them       *)
(* (peraviz_mvr_xchange_client.cpp) and the controller that polls it       *)
(* (scripts/controllers/mvr_xchange_controller.gd).                        *)
(*                                                                         *)
(* Threads: the main thread, discovery, the TCP server and the mDNS        *)
(* responder of the local station, and the transfer worker. A std::thread  *)
(* assigned to a handle that was not joined ends the process. Main-thread  *)
(* handlers do not interleave with each other; ui.at is where the main     *)
(* thread stands within one.                                               *)
(***************************************************************************)
EXTENDS MvrXchangeTransfer

CONSTANTS
  NameOf,        \* service instance names of the other stations
  Group,         \* the group discovery is started for
  MaxStarts      \* bound: presses of the start button

VARIABLES
  alive,         \* the process runs
  discovery,     \* running_ and thread of MvrXchangeDiscovery
  stations,      \* its stations_
  local,         \* running_, socket and threads of MvrXchangeLocalStation
  ui,            \* MvrXchangeController, and where the main thread stands
  starts         \* history: for the bound

StateOf == [join_started |-> "joining", join_succeeded |-> "joined",
            join_failed |-> "error", commit_available |->
            "revision_available", transfer_started |-> "receiving",
            transfer_finished |-> "received", transfer_failed |-> "error",
            protocol_error |-> "error"]

vars == <<transferVars, published, alive, discovery, stations, local, ui,
          starts>>

NoUi == [at |-> "idle", timer |-> FALSE, running |-> FALSE,
         state |-> "disconnected", selected |-> Absent]

Init ==
  /\ TransferInit
  /\ alive = TRUE
  /\ discovery = [running |-> FALSE, thread |-> "none", failed |-> FALSE]
  /\ stations = {}
  /\ local = [running |-> FALSE, open |-> FALSE, tcp |-> "none",
              mdns |-> "none"]
  /\ ui = NoUi
  /\ starts = 0

-----------------------------------------------------------------------------
(* Discovery thread. *)

discoveryOnly == <<transferVars, published, alive, local, ui, starts>>

\* Without a socket the thread clears running_ by itself and returns.
DiscoveryOpens ==
  /\ discovery.thread = "open"
  /\ \/ discovery' = [discovery EXCEPT !.thread = "loop"]
     \/ discovery' = [running |-> FALSE, thread |-> "ended", failed |-> TRUE]
  /\ UNCHANGED <<stations, discoveryOnly>>

\* The local station advertises itself while its responder answers.
OwnName == [at |-> TRUE, station |-> "Peraviz",
            group |-> NormalizeGroup(Group)]
Advertises(s) == s = Self => local.mdns = "receive"
InstanceOf(s) == IF s = Self THEN OwnName ELSE NameOf[s]

\* The upserts. Instances of other groups are dropped; what else the records
\* say decides whether a worker can connect.
Upsert(name, s) ==
  LET parsed == ParseServiceName(name)
  IN /\ parsed.valid /\ parsed.group = NormalizeGroup(Group)
     /\ stations' = stations \cup {s}

\* A pointer, service or text record that names an instance.
RecordArrives(s) ==
  /\ discovery.thread = "loop" /\ discovery.running
  /\ Advertises(s) /\ Upsert(InstanceOf(s), s)
  /\ UNCHANGED <<discovery, discoveryOnly>>

DiscoveryEnds ==
  /\ discovery.thread = "loop" /\ ~discovery.running
  /\ discovery' = [discovery EXCEPT !.thread = "ended"]
  /\ UNCHANGED <<stations, discoveryOnly>>

-----------------------------------------------------------------------------
(* Threads of the local station. *)

localOnly == <<busy, worker, targets, final, part, published,
               alive, discovery, stations, ui, starts>>

MutTcpChecks ==
  /\ local.tcp = "check"
  /\ local' = [local EXCEPT !.tcp = "accept"]
  /\ UNCHANGED <<commits, event, localOnly>>

\* The loop condition, then accept with the handle as it is.
TcpChecks ==
  /\ local.tcp = "check"
  /\ local' = [local EXCEPT !.tcp = IF local.running THEN "accept"
                                    ELSE "ended"]
  /\ UNCHANGED <<commits, event, localOnly>>

\* A platform may end a pending accept when its socket is closed.
TcpInterrupted ==
  /\ local.tcp = "accept" /\ ~local.open
  /\ local' = [local EXCEPT !.tcp = "check"]
  /\ UNCHANGED <<commits, event, localOnly>>

MutTcpHandles(s, message) ==
  /\ local.tcp = "accept"
  /\ local' = [local EXCEPT !.tcp = "check"]
  /\ event' = IF message.type = "MVR_COMMIT" THEN "commit_received" ELSE event
  /\ UNCHANGED <<commits, localOnly>>

\* A station connects - the socket stays open for an accept that waits - and
\* handle_tcp_client reads what it sends. The callback of start_local_station
\* keeps a commit under the UUID its sender gave; one without a file UUID is
\* a protocol error. A join is only answered.
TcpHandles(s, message) ==
  /\ local.tcp = "accept"
  /\ local' = [local EXCEPT !.tcp = "check"]
  /\ CASE message.type # "MVR_COMMIT" -> UNCHANGED <<commits, event>>
     [] CommitOf(message) = NoRevision ->
          event' = "protocol_error" /\ UNCHANGED commits
     [] OTHER ->
          /\ commits' = [commits EXCEPT ![UuidKey(s)] = CommitOf(message)]
          /\ event' = "commit_available"
  /\ UNCHANGED localOnly

MdnsOpens ==
  /\ local.mdns = "open"
  /\ local' = [local EXCEPT !.mdns = IF local.running THEN "receive"
                                     ELSE "ended"]
  /\ UNCHANGED <<commits, event, localOnly>>

MdnsFails ==
  /\ local.mdns = "open"
  /\ local' = [local EXCEPT !.mdns = "ended"]
  /\ UNCHANGED <<commits, event, localOnly>>

\* recvfrom has no timeout and stop does not close its socket: it returns
\* when a datagram comes, and only then the loop condition is read.
MdnsReceives ==
  /\ local.mdns = "receive" /\ ~local.running
  /\ local' = [local EXCEPT !.mdns = "ended"]
  /\ UNCHANGED <<commits, event, localOnly>>

-----------------------------------------------------------------------------
(* Main thread. *)

mainOnly == <<final, part, event, commits, published>>

StartedDiscovery ==
  [running |-> TRUE, thread |-> "open", failed |-> FALSE]
StartedStation(l) == [l EXCEPT !.running = TRUE, !.open = TRUE,
                               !.tcp = "check", !.mdns = "open"]

\* start of the client: the local station, then discovery, each only when it
\* does not run. A thread of discovery that gave up was never joined.
Start ==
  /\ ui.at = "idle" /\ ~ui.running /\ starts < MaxStarts
  /\ starts' = starts + 1
  /\ \E bound \in IF local.running THEN {TRUE} ELSE BOOLEAN :
       /\ local' = IF bound /\ ~local.running THEN StartedStation(local)
                   ELSE local
       /\ ui' = IF bound
                THEN [ui EXCEPT !.at = "poll", !.timer = TRUE,
                                !.state = "discovering"]
                ELSE [ui EXCEPT !.at = "poll"]
  /\ IF discovery.running
     THEN UNCHANGED <<alive, discovery, stations>>
     ELSE IF discovery.thread # "none"
     THEN alive' = FALSE /\ UNCHANGED <<discovery, stations>>
     ELSE /\ discovery' = StartedDiscovery
          /\ stations' = {}
          /\ UNCHANGED alive
  /\ UNCHANGED <<mainOnly, busy, worker, targets>>

\* stop of the client. Each join is a wait of its own.
Stop ==
  /\ ui.at = "idle" /\ ui.running
  /\ discovery' = [discovery EXCEPT !.running = FALSE]
  /\ ui' = [ui EXCEPT !.at = "stop_discovery", !.timer = FALSE]
  /\ UNCHANGED <<mainOnly, busy, worker, targets, alive, stations, local, starts>>

MutStopJoinsDiscovery ==
  /\ ui.at = "stop_discovery"
  /\ local' = [local EXCEPT !.running = FALSE, !.open = FALSE]
  /\ ui' = [ui EXCEPT !.at = "stop_tcp"]
  /\ UNCHANGED <<mainOnly, busy, worker, targets, alive, discovery,
                 stations, starts>>

StopJoinsDiscovery ==
  /\ ui.at = "stop_discovery" /\ discovery.thread = "ended"
  /\ discovery' = [discovery EXCEPT !.thread = "none"]
  /\ local' = [local EXCEPT !.running = FALSE, !.open = FALSE]
  /\ ui' = [ui EXCEPT !.at = "stop_tcp"]
  /\ UNCHANGED <<mainOnly, busy, worker, targets, alive, stations,
                 starts>>

StopJoinsTcp ==
  /\ ui.at = "stop_tcp" /\ local.tcp \in {"none", "ended"}
  /\ local' = [local EXCEPT !.tcp = "none"]
  /\ ui' = [ui EXCEPT !.at = "stop_mdns"]
  /\ UNCHANGED <<mainOnly, busy, worker, targets, alive, discovery,
                 stations, starts>>

StopJoinsMdns ==
  /\ ui.at = "stop_mdns" /\ local.mdns \in {"none", "ended"}
  /\ local' = [local EXCEPT !.mdns = "none"]
  /\ ui' = [ui EXCEPT !.at = "stop_worker"]
  /\ UNCHANGED <<mainOnly, busy, worker, targets, alive, discovery,
                 stations, starts>>

\* The controller then forgets what it showed; the events stay queued.
StopJoinsWorker ==
  /\ ui.at = "stop_worker" /\ ~Running
  /\ worker' = [worker EXCEPT !.at = "none"]
  /\ busy' = FALSE
  /\ ui' = NoUi
  /\ UNCHANGED <<mainOnly, targets, alive, discovery, stations, local, starts>>

\* _handle_events: the last event decides the state. A finished transfer is
\* also handed to the import of the scene.
StateThen == IF event = Absent THEN ui.state ELSE StateOf[event]

\* select_station, after a set_stations that never removes one: the state
\* says joining whatever join_station returns.
Select(s, shown) ==
  /\ targets' = targets \cup stations
  /\ StartWorker(JoinJob(s))
  /\ ui' = [shown EXCEPT !.selected = s, !.state = "joining"]

\* One poll: stations, events, and without a selection the first station of
\* an unordered map.
Poll ==
  LET shown == [ui EXCEPT !.at = "idle", !.running = discovery.running,
                          !.state = StateThen]
  IN /\ ui.at = "poll" \/ (ui.at = "idle" /\ ui.timer)
     /\ event' = Absent
     /\ IF ui.selected = Absent /\ stations # {}
        THEN \E s \in stations : Select(s, shown)
        ELSE /\ targets' = targets \cup stations
             /\ ui' = shown
             /\ UNCHANGED <<busy, worker>>
     /\ UNCHANGED <<final, part, commits, published, alive,
                    discovery, stations, local, starts>>

Pressed == ui.at = "idle" /\ ui.timer

\* The user picks a station of the list.
PickStation(s) ==
  /\ Pressed /\ s \in stations /\ Select(s, ui)
  /\ UNCHANGED <<mainOnly, alive, discovery, stations, local,
                 starts>>

\* request_update and request_latest_mvr: refused without a revision that
\* has a UUID.
RequestUpdate(path) ==
  LET s == ui.selected
  IN /\ Pressed /\ ui.state = "revision_available" /\ s # Absent /\ ~busy
     /\ LatestFor(s) \notin {Absent, NoRevision}
     /\ targets' = targets \cup stations
     /\ StartWorker(RequestJob(s, LatestFor(s), path))
     /\ ui' = [ui EXCEPT !.state = "requesting"]
     /\ UNCHANGED <<mainOnly, alive, discovery, stations, local, starts>>

-----------------------------------------------------------------------------
(* The other stations. *)

Publish(s) ==
  /\ s # Self /\ published[s] < MaxRevisions
  /\ published' = [published EXCEPT ![s] = @ + 1]
  /\ UNCHANGED <<transferVars, alive, discovery, stations, local, ui, starts>>

Join(s) == TcpHandles(s, Json("MVR_JOIN", <<>>))

\* A commit names the newest revision, or has a text that is no UUID.
Announce(s) ==
  s # Self /\ TcpHandles(s, Json("MVR_COMMIT",
    IF published[s] = 0 THEN <<[UuidText(0) EXCEPT !.digits = 8]>>
    ELSE <<UuidText(published[s])>>))

-----------------------------------------------------------------------------
Main == Start \/ Stop \/ StopJoinsDiscovery \/ StopJoinsTcp \/ StopJoinsMdns
        \/ StopJoinsWorker \/ Poll \/ \E p \in Paths : RequestUpdate(p)
        \/ \E s \in Stations : PickStation(s)
Discovery == DiscoveryOpens \/ DiscoveryEnds
             \/ \E s \in Stations : RecordArrives(s)
Mdns == MdnsOpens \/ MdnsFails \/ MdnsReceives
Transfer == /\ WorkerStep
            /\ UNCHANGED <<published, alive, discovery, stations, local, ui,
                           starts>>
Others == \E s \in Stations : Publish(s) \/ Join(s) \/ Announce(s)

Next == alive /\ (Main \/ Discovery \/ TcpChecks \/ TcpInterrupted \/ Mdns
                  \/ Transfer \/ Others)

Spec == Init /\ [][Next]_vars

\* Each thread runs; the poll timer fires; somebody on the network goes on
\* connecting and sending datagrams (MdnsReceives). A pending accept is not
\* assumed to end with its socket.
FairSpec ==
  /\ Spec
  /\ WF_vars(alive /\ DiscoveryOpens) /\ WF_vars(alive /\ DiscoveryEnds)
  /\ WF_vars(alive /\ TcpChecks) /\ WF_vars(alive /\ Mdns)
  /\ WF_vars(alive /\ Transfer) /\ WF_vars(alive /\ Poll)
  /\ WF_vars(alive /\ (StopJoinsDiscovery \/ StopJoinsTcp \/ StopJoinsMdns
                       \/ StopJoinsWorker))
  /\ WF_vars(alive /\ \E s \in Stations : Join(s))

-----------------------------------------------------------------------------
(* Properties. *)

\* Shape of the state of the client; every event has a state in the controller.
TypeOK ==
  /\ busy \in BOOLEAN /\ alive \in BOOLEAN
  /\ targets \subseteq Stations /\ stations \subseteq Stations
  /\ event \in DOMAIN StateOf \cup {Absent}
  /\ commits \in [Keys -> Revisions \cup {Absent, NoRevision}]
  /\ final \in [Paths -> Files \cup {Absent}]
  /\ part \in [Paths -> Files \cup {Absent}]
  /\ ui.selected \in Stations \cup {Absent}

\* Received-file storage: at every moment, so also after a crash at any of
\* them, a file under its final name was closed before it got that name; and
\* a failed transfer has not put another file in the place of the one before.
FinalFilesSafe ==
  /\ \A p \in Paths : final[p] # Absent => final[p].bytes # "growing"
  /\ worker.at = "failed" =>
       final[worker.job.path] \in {worker.job.before, Absent}

\* busy_ false means that no worker can still touch a file, a commit or the
\* events: what start_worker relies on when it overwrites the current job.
IdleMeansQuiet == ~busy => worker.at \in {"none", "exit", "ended"}

\* No thread handle is assigned while it holds a thread that was not joined,
\* but for a discovery that could not open its socket: whenever a start may
\* assign the handles of a service that does not run, they are empty.
HandlesJoinedBeforeReuse ==
  /\ alive \/ discovery.failed
  /\ ui.at = "idle" /\ ~discovery.running =>
       discovery.thread = "none" \/ discovery.failed
  /\ ui.at = "idle" /\ ~local.running =>
       local.tcp = "none" /\ local.mdns = "none"

\* stop ends for the user interface, which waits in it: as long as others on
\* the network connect and send.
StopReturns == ui.at = "stop_discovery" ~> ui.at = "idle" \/ ~alive

\* An update the user asked for does not stay pending: it is received, it
\* fails, or what the user or a station did since has replaced it.
Pending == ui.state \in {"requesting", "receiving"}
UpdateAnswered == Pending ~> ~Pending \/ ~alive

\* request_latest_mvr asks for the newest revision the station is known to
\* have: "Requests the most recent known MVR for a station".
LatestIsMostRecent ==
  \A s \in Stations :
    commits[UuidKey(s)] # Absent =>
      /\ LatestFor(s) # Absent
      /\ LatestFor(s) >= commits[UuidKey(s)]
=============================================================================
