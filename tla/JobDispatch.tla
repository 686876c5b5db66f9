---------------------------- MODULE JobDispatch ----------------------------
(***************************************************************************)
(* One machine of the execution gateway: its jobs in PostgreSQL (jobs.rs), *)
(* the session task that owns its WebSocket (connections.rs), the gateway  *)
(* process that can stop and recover (main.rs), and the host daemon with   *)
(* its request tasks and receipts (connection.rs, receipts.rs).            *)
(*                                                                         *)
(* A database transaction is one step; everything the session task does    *)
(* between two awaits on different transactions is one step with the       *)
(* transaction before it, since nothing else reads its local state.  Jobs  *)
(* are numbered in order of creation, so created_at is the number.  Every  *)
(* message carries the generation of the connection's hello; the two ends  *)
(* of one connection are the same runtime, so that field is left out.      *)
(***************************************************************************)
EXTENDS Integers, Sequences, FiniteSets

CONSTANTS
  NumJobs,                  \* bound: jobs submitted in a behaviour
  ControlJobs,              \* the jobs that carry execution.terminate_run
  PinnedJobs,               \* the jobs submitted with expected_generation_id
  MaxOutstanding,           \* unfinished jobs a user may have (256)
  MaxPendingRequests,       \* requests of one session (32)
  ReservedControlRequests,  \* further requests for control jobs (4)
  MaxRequests,              \* tasks the daemon runs at once (32)
  MaxControlRequests,       \* further tasks for control requests (4)
  MaxReceipts,              \* receipts the daemon retains (128)
  MaxReservations,          \* frame-sized reservations that fit its bytes (32)
  HostRecovery,             \* request_recovery of the hosts: a set of BOOLEAN
  MaxGeneration,            \* bound: host processes started
  MaxVersion,               \* bound: credential versions issued
  MaxFaults                 \* bound: crashes and connection losses

Jobs == 1..NumJobs

ASSUME JobsAssumption ==
  /\ NumJobs \in Nat
  /\ ControlJobs \subseteq Jobs
  /\ PinnedJobs \subseteq Jobs

ASSUME LimitsAssumption ==
  /\ MaxOutstanding \in Nat
  /\ MaxPendingRequests \in Nat
  /\ ReservedControlRequests \in Nat
  /\ MaxRequests \in Nat
  /\ MaxControlRequests \in Nat
  /\ MaxReceipts \in Nat
  /\ MaxReservations \in Nat

ASSUME BoundsAssumption ==
  /\ HostRecovery \subseteq BOOLEAN
  /\ MaxGeneration \in Nat
  /\ MaxVersion \in Nat
  /\ MaxFaults \in Nat

VARIABLES
  job,        \* the jobs table: Jobs -> JobRow
  machine,    \* the machines row (and the owner's enabled flag)
  gateway,    \* the gateway process
  session,    \* the machine's entry in Connections.live and its task
  revoking,   \* a committed register or remove has yet to call revoke()
  toHost,     \* frames on their way to the daemon
  toGateway,  \* frames on their way to the session
  host,       \* the daemon process and its end of the connection
  receipts,   \* the daemon's Receipts: Jobs -> ReceiptState
  tasks,      \* the daemon's JoinSet: Jobs -> TaskState
  attached,   \* tasks of a host without recovery whose socket is still there
  sent,       \* responses this connection has already carried
  starts,     \* history: how often the work of a job was started
  outcome,    \* history: what that work returned
  faults      \* faults left

dbVars == <<job, machine>>
gatewayVars == <<gateway, session, revoking>>
wire == <<toHost, toGateway>>
hostVars == <<host, receipts, tasks, attached, sent>>
history == <<starts, outcome>>
vars == <<dbVars, gatewayVars, wire, hostVars, history, faults>>

-----------------------------------------------------------------------------
(* The jobs table.  A job's code abstracts its response and error columns. *)

InflightStatus == {"dispatching", "waiting_response"}
TerminalStatus == {"succeeded", "failed", "unknown"}
Status == {"absent", "queued"} \cup InflightStatus \cup TerminalStatus
Deadline == {"none", "armed", "expired"}
Code == {"none", "response", "machine_disabled", "generation_mismatch",
         "dispatch_timeout", "recovery_unavailable", "runtime_replaced",
         "gateway_restarted", "connection_lost", "receipt_missing"}

JobRow == [status : Status, expected : Nat, generation : Nat,
           recovery : BOOLEAN, deadline : Deadline, code : Code]

NoRow == [status |-> "absent", expected |-> 0, generation |-> 0,
          recovery |-> FALSE, deadline |-> "none", code |-> "none"]

terminal(status) == status \in TerminalStatus
Inflight(j) == job[j].status \in InflightStatus
Expired(j) == job[j].deadline = "expired"

\* Faulty variant: the update forgets its WHERE status IN (...).
FinishedRowAlways(row, status, code) ==
  [row EXCEPT !.status = status, !.code = code, !.deadline = "none"]

\* Faulty variant: the update leaves recovery_expires_at.
FinishedRowDeadline(row, status, code) ==
  IF row.status \in {"queued"} \cup InflightStatus
  THEN [row EXCEPT !.status = status, !.code = code]
  ELSE row

\* finish_tx: the update applies to an unfinished row and clears the deadline.
FinishedRow(row, status, code) ==
  IF row.status \in {"queued"} \cup InflightStatus
  THEN [row EXCEPT !.status = status, !.code = code, !.deadline = "none"]
  ELSE row

finish(j, status, code) == job' = [job EXCEPT ![j] = FinishedRow(@, status, code)]

\* COALESCE(recovery_expires_at, now + 24 hours)
Armed(row) == [row EXCEPT !.deadline = IF @ = "none" THEN "armed" ELSE @]

-----------------------------------------------------------------------------
(* Sessions and frames. *)

Phases == {"none", "hello", "reconciling", "ready", "closing", "leaving"}

SessionState ==
  [phase : Phases, gen : Nat, recovery : BOOLEAN, version : Nat,
   revoked : BOOLEAN, pending : SUBSET Jobs, recovering : SUBSET Jobs,
   plan : [Jobs -> Code]]

NoSession ==
  [phase |-> "none", gen |-> 0, recovery |-> FALSE, version |-> 0,
   revoked |-> FALSE, pending |-> {}, recovering |-> {},
   plan |-> [j \in Jobs |-> "none"]]

Result == {"ok", "err"}
GatewayFrame == [type : {"welcome", "disconnect"}]
                \cup [type : {"request", "recover", "acknowledge"}, job : Jobs]
HostFrame == [type : {"accepted", "missing"}, job : Jobs]
             \cup [type : {"response"}, job : Jobs, result : Result]

Connected == host.conn \in {"hello", "on"}
Listening == session.phase \in {"hello", "reconciling", "ready"}

\* A frame written to a socket whose other end is gone is lost.
SendToHost(frame) == toHost' = IF Connected THEN Append(toHost, frame) ELSE toHost
SendToGateway(frame) ==
  toGateway' = IF Listening THEN Append(toGateway, frame) ELSE toGateway

First(S) == CHOOSE j \in S : \A i \in S : j <= i

-----------------------------------------------------------------------------
(* Admission and the machine row. *)

Outstanding == {j \in Jobs : job[j].status \in {"queued"} \cup InflightStatus}

\* Connections::generation is known: the machine is online.
Online == session.phase = "ready" /\ ~session.revoked

\* submit: a repeated key changes nothing, so a job is created once.
submit(j) ==
  /\ gateway = "up"
  /\ job[j].status = "absent"
  /\ \A i \in Jobs : i < j => job[i].status # "absent"
  /\ machine.enabled /\ ~machine.deleted
  /\ Online
  /\ Cardinality(Outstanding) < MaxOutstanding
  /\ job' = [job EXCEPT ![j].status = "queued",
                        ![j].expected = IF j \in PinnedJobs THEN session.gen ELSE 0]
  /\ UNCHANGED <<machine, gatewayVars, wire, hostVars, history, faults>>

\* machines::update and users::patch_user: administrative disablement.
setEnabled(b) ==
  /\ gateway = "up"
  /\ ~machine.deleted /\ machine.enabled # b
  /\ machine' = [machine EXCEPT !.enabled = b]
  /\ UNCHANGED <<job, gatewayVars, wire, hostVars, history, faults>>

\* machines::register commits the new credential, then calls revoke().
register ==
  /\ gateway = "up" /\ ~revoking
  /\ machine.enabled /\ ~machine.deleted /\ machine.version < MaxVersion
  /\ machine' = [machine EXCEPT !.version = @ + 1]
  /\ revoking' = TRUE
  /\ UNCHANGED <<job, gateway, session, wire, hostVars, history, faults>>

\* machines::remove commits the deletion, then calls revoke(); a repeated call
\* only does the latter.
remove ==
  /\ gateway = "up" /\ ~revoking
  /\ machine.deleted \/ machine.version < MaxVersion
  /\ machine' = IF machine.deleted THEN machine
                ELSE [machine EXCEPT !.enabled = FALSE, !.deleted = TRUE,
                                     !.version = @ + 1]
  /\ revoking' = TRUE
  /\ UNCHANGED <<job, gateway, session, wire, hostVars, history, faults>>

\* Connections::revoke cancels the token of the session that is live now.
revoke ==
  /\ revoking
  /\ revoking' = FALSE
  /\ session' = [session EXCEPT !.revoked = session.phase # "none"]
  /\ UNCHANGED <<dbVars, gateway, wire, hostVars, history, faults>>

CredentialCurrent == ~machine.deleted /\ session.version = machine.version

-----------------------------------------------------------------------------
(* The handshake: upgrade, hello, reconnect, welcome. *)

\* upgrade reads the credential; the hello arrives later.
upgrade ==
  /\ gateway = "up" /\ host.conn = "off"
  /\ ~machine.deleted /\ host.version = machine.version
  /\ host' = [host EXCEPT !.conn = "upgrading"]
  /\ UNCHANGED <<dbVars, gatewayVars, wire, receipts, tasks, attached, sent,
                 history, faults>>

\* The first part of session: the hello takes the machine's slot in live.
hello ==
  /\ gateway = "up" /\ session.phase = "none"
  /\ host.conn = "upgrading"
  /\ session' = [NoSession EXCEPT !.phase = "hello", !.gen = host.gen,
                                  !.recovery = host.recovery,
                                  !.version = host.version]
  /\ host' = [host EXCEPT !.conn = "hello"]
  /\ toHost' = <<>> /\ toGateway' = <<>>
  /\ UNCHANGED <<dbVars, gateway, revoking, receipts, tasks, attached, sent,
                 history, faults>>

\* upgrade answers 401: the daemon stops and its runtime with it.
HostDown == [host EXCEPT !.conn = "down"]
StopRuntime ==
  /\ host' = HostDown
  /\ receipts' = [j \in Jobs |-> "none"]
  /\ tasks' = [j \in Jobs |-> "none"]
  /\ attached' = {}
  /\ sent' = {}
  /\ toHost' = <<>>

upgradeRejected ==
  /\ gateway = "up" /\ host.conn = "off"
  /\ machine.deleted \/ host.version # machine.version
  /\ StopRuntime
  /\ UNCHANGED <<dbVars, gatewayVars, toGateway, history, faults>>

\* jobs::reconnect reads the unfinished jobs once and decides for each.
ReconnectCode(j) ==
  IF Expired(j) THEN "recovery_unavailable"
  ELSE IF session.recovery /\ job[j].recovery /\ job[j].generation = session.gen
  THEN "none"
  ELSE "runtime_replaced"

reconnect ==
  /\ session.phase = "hello"
  /\ IF CredentialCurrent
     THEN session' = [session EXCEPT
            !.phase = "reconciling",
            !.plan = [j \in Jobs |-> IF Inflight(j) THEN ReconnectCode(j) ELSE "none"],
            !.recovering = {j \in Jobs : Inflight(j) /\ ReconnectCode(j) = "none"}]
     ELSE session' = [session EXCEPT !.phase = "closing"]
  /\ UNCHANGED <<dbVars, gateway, revoking, wire, hostVars, history, faults>>

Planned == {j \in Jobs : session.plan[j] # "none"}

\* Faulty variant: the work of a replaced runtime is queued again.
reconnectRequeue(j) ==
  /\ session.phase = "reconciling"
  /\ j \in Planned /\ j = First(Planned)
  /\ job' = [job EXCEPT ![j].status = "queued", ![j].deadline = "none"]
  /\ session' = [session EXCEPT !.plan[j] = "none"]
  /\ UNCHANGED <<machine, gateway, revoking, wire, hostVars, history, faults>>

reconnectFinish(j) ==
  /\ session.phase = "reconciling"
  /\ j \in Planned /\ j = First(Planned)
  /\ finish(j, "unknown", session.plan[j])
  /\ session' = [session EXCEPT !.plan[j] = "none"]
  /\ UNCHANGED <<machine, gateway, revoking, wire, hostVars, history, faults>>

welcome ==
  /\ session.phase = "reconciling" /\ Planned = {}
  /\ session' = [session EXCEPT !.phase = "ready", !.pending = session.recovering]
  /\ SendToHost([type |-> "welcome"])
  /\ UNCHANGED <<dbVars, gateway, revoking, toGateway, hostVars, history, faults>>

-----------------------------------------------------------------------------
(* The dispatch tick of connected. *)

sendRecover ==
  /\ session.phase = "ready" /\ session.recovering # {}
  /\ LET j == First(session.recovering) IN
     /\ session' = [session EXCEPT !.recovering = @ \ {j}]
     /\ IF j \in session.pending
        THEN SendToHost([type |-> "recover", job |-> j])
        ELSE UNCHANGED toHost
  /\ UNCHANGED <<dbVars, gateway, revoking, toGateway, hostVars, history, faults>>

\* Faulty variant: the reserved slots are open to every job.
CandidatesAny == {j \in Jobs : job[j].status = "queued"}

\* dispatch_next: control jobs first, and only they in the reserved slots.
Candidates ==
  {j \in Jobs : /\ job[j].status = "queued"
                /\ Cardinality(session.pending) >= MaxPendingRequests => j \in ControlJobs}

NextJob == First(IF Candidates \cap ControlJobs # {}
                 THEN Candidates \cap ControlJobs ELSE Candidates)

usable == machine.enabled /\ CredentialCurrent

GenerationMatches(j) == job[j].expected \in {0, session.gen}

DispatchTick(j) ==
  /\ session.phase = "ready" /\ session.recovering = {}
  /\ Cardinality(session.pending) < MaxPendingRequests + ReservedControlRequests
  /\ j \in Candidates /\ j = NextJob

dispatchRejected(j) ==
  /\ DispatchTick(j)
  /\ ~usable \/ ~GenerationMatches(j)
  /\ finish(j, "failed", IF usable THEN "generation_mismatch" ELSE "machine_disabled")
  /\ UNCHANGED <<machine, gatewayVars, wire, hostVars, history, faults>>

\* Faulty variant: the request is sent without pinning the generation.
dispatchUnpinned(j) ==
  /\ DispatchTick(j)
  /\ usable /\ GenerationMatches(j)
  /\ job' = [job EXCEPT ![j].status = "dispatching", ![j].recovery = session.recovery]
  /\ session' = [session EXCEPT !.pending = @ \cup {j}]
  /\ SendToHost([type |-> "request", job |-> j])
  /\ UNCHANGED <<machine, gateway, revoking, toGateway, hostVars, history, faults>>

dispatch_next(j) ==
  /\ DispatchTick(j)
  /\ usable /\ GenerationMatches(j)
  /\ job' = [job EXCEPT ![j].status = "dispatching",
                        ![j].generation = session.gen,
                        ![j].recovery = session.recovery]
  /\ session' = [session EXCEPT !.pending = @ \cup {j}]
  /\ SendToHost([type |-> "request", job |-> j])
  /\ UNCHANGED <<machine, gateway, revoking, toGateway, hostVars, history, faults>>

-----------------------------------------------------------------------------
(* Frames from the daemon. *)

Incoming(type) ==
  /\ session.phase = "ready" /\ toGateway # <<>>
  /\ Head(toGateway).type = type

\* connected and jobs::response accept a response only for a dispatched job.
ResponseMatches(j) ==
  /\ session.recovery \/ j \in session.pending
  /\ job[j].generation = session.gen
  /\ job[j].status \notin {"absent", "queued"}

\* Faulty variant: any response counts as success.
ResponseRowAlwaysOk(row, result) == FinishedRow(row, "succeeded", "response")

ResponseRow(row, result) ==
  IF row.deadline = "expired"
  THEN FinishedRow(row, "unknown", "recovery_unavailable")
  ELSE FinishedRow(row, IF result = "ok" THEN "succeeded" ELSE "failed", "response")

\* Faulty variant: a late or duplicate response is dropped unacknowledged.
responseUnacknowledged ==
  /\ Incoming("response")
  /\ LET j == Head(toGateway).job IN
     /\ job' = [job EXCEPT ![j] = ResponseRow(@, Head(toGateway).result)]
     /\ session' = [session EXCEPT !.pending = @ \ {j}]
     /\ IF session.recovery /\ ~terminal(job[j].status)
        THEN SendToHost([type |-> "acknowledge", job |-> j])
        ELSE UNCHANGED toHost
  /\ toGateway' = Tail(toGateway)
  /\ UNCHANGED <<machine, gateway, revoking, hostVars, history, faults>>

\* The result is committed, then the receipt is acknowledged.
response ==
  /\ Incoming("response")
  /\ LET j == Head(toGateway).job IN
     IF ResponseMatches(j)
     THEN /\ job' = [job EXCEPT ![j] = ResponseRow(@, Head(toGateway).result)]
          /\ session' = [session EXCEPT !.pending = @ \ {j}]
          /\ IF session.recovery
             THEN SendToHost([type |-> "acknowledge", job |-> j])
             ELSE UNCHANGED toHost
          /\ toGateway' = Tail(toGateway)
     ELSE /\ session' = [session EXCEPT !.phase = "closing"]
          /\ toGateway' = <<>>
          /\ UNCHANGED <<job, toHost>>
  /\ UNCHANGED <<machine, gateway, revoking, hostVars, history, faults>>

\* Faulty variant: the host's word for the state is stored as the status.
AcceptedRowVerbatim(row) == [row EXCEPT !.status = "accepted", !.deadline = "none"]

AcceptedRow(row) ==
  IF /\ row.generation = session.gen /\ row.recovery
     /\ row.deadline # "expired" /\ row.status \in InflightStatus
  THEN [row EXCEPT !.status = "waiting_response", !.deadline = "none"]
  ELSE row

accepted ==
  /\ Incoming("accepted")
  /\ LET j == Head(toGateway).job IN
     job' = IF j \in session.pending THEN [job EXCEPT ![j] = AcceptedRow(@)] ELSE job
  /\ toGateway' = Tail(toGateway)
  /\ UNCHANGED <<machine, gatewayVars, toHost, hostVars, history, faults>>

missing ==
  /\ Incoming("missing")
  /\ LET j == Head(toGateway).job IN
     IF j \in session.pending
     THEN /\ session' = [session EXCEPT !.pending = @ \ {j}]
          /\ finish(j, "unknown", "receipt_missing")
     ELSE UNCHANGED <<session, job>>
  /\ toGateway' = Tail(toGateway)
  /\ UNCHANGED <<machine, gateway, revoking, toHost, hostVars, history, faults>>

\* pending gives the job up before its finish, and that transaction fails.
missingFails ==
  /\ Incoming("missing") /\ faults > 0
  /\ Head(toGateway).job \in session.pending
  /\ session' = [session EXCEPT !.pending = @ \ {Head(toGateway).job}, !.phase = "closing"]
  /\ toGateway' = <<>>
  /\ faults' = faults - 1
  /\ UNCHANGED <<dbVars, gateway, revoking, toHost, hostVars, history>>

-----------------------------------------------------------------------------
(* The end of a session. *)

\* The heartbeat finds the credential replaced.
heartbeat ==
  /\ session.phase = "ready" /\ ~session.revoked /\ ~CredentialCurrent
  /\ session' = [session EXCEPT !.revoked = TRUE]
  /\ UNCHANGED <<dbVars, gateway, revoking, wire, hostVars, history, faults>>

CloseGatewaySide ==
  /\ session' = [session EXCEPT !.phase = "closing"]
  /\ toGateway' = <<>>

\* The revoke token ends the loop after a disconnect frame.
revoked ==
  /\ session.phase = "ready" /\ session.revoked
  /\ CloseGatewaySide
  /\ SendToHost([type |-> "disconnect"])
  /\ UNCHANGED <<dbVars, gateway, revoking, hostVars, history, faults>>

\* The socket, the writer, the heartbeat or a query fails.
sessionLost ==
  /\ Listening
  /\ \/ ~Connected /\ UNCHANGED faults
     \/ Connected /\ faults > 0 /\ faults' = faults - 1
  /\ CloseGatewaySide
  /\ UNCHANGED <<dbVars, gateway, revoking, toHost, hostVars, history>>

SavesReceipts == session.recovery /\ ~session.revoked

\* Faulty variant: only accepted jobs receive a recovery deadline.
DisconnectedRowAccepted(row) ==
  IF /\ row.generation = session.gen /\ row.recovery
     /\ row.status = "waiting_response"
  THEN Armed(row) ELSE row

DisconnectedRow(row) ==
  IF /\ row.generation = session.gen /\ row.recovery
     /\ row.status \in InflightStatus
  THEN Armed(row) ELSE row

\* jobs::disconnected
disconnected ==
  /\ session.phase = "closing" /\ SavesReceipts
  /\ job' = [j \in Jobs |-> DisconnectedRow(job[j])]
  /\ session' = [session EXCEPT !.phase = "leaving"]
  /\ UNCHANGED <<machine, gateway, revoking, wire, hostVars, history, faults>>

\* Without receipts to recover, every pending job becomes unknown.
connectionLost(j) ==
  /\ session.phase = "closing" /\ ~SavesReceipts
  /\ j \in session.pending
  /\ finish(j, "unknown", "connection_lost")
  /\ session' = [session EXCEPT !.pending = @ \ {j}]
  /\ UNCHANGED <<machine, gateway, revoking, wire, hostVars, history, faults>>

\* The slot in live is free again.
leave ==
  /\ \/ session.phase = "leaving"
     \/ session.phase = "closing" /\ ~SavesReceipts /\ session.pending = {}
  /\ session' = NoSession
  /\ UNCHANGED <<dbVars, gateway, revoking, wire, hostVars, history, faults>>

-----------------------------------------------------------------------------
(* Time, maintenance, and the gateway process. *)

\* 24 hours pass.
deadlinePasses(j) ==
  /\ job[j].deadline = "armed"
  /\ job' = [job EXCEPT ![j].deadline = "expired"]
  /\ UNCHANGED <<machine, gatewayVars, wire, hostVars, history, faults>>

\* Faulty variant: the list of late jobs is used without the second look.
housekeepStale(j) ==
  /\ gateway = "up" /\ job[j].status \in {"queued", "dispatching"}
  /\ finish(j, "failed", "dispatch_timeout")
  /\ UNCHANGED <<machine, gatewayVars, wire, hostVars, history, faults>>

\* A queued job older than 30 seconds; time is not modelled further.
housekeepQueued(j) ==
  /\ gateway = "up" /\ job[j].status = "queued"
  /\ finish(j, "failed", "dispatch_timeout")
  /\ UNCHANGED <<machine, gatewayVars, wire, hostVars, history, faults>>

\* Faulty variant: an expired recovery is reported as a failure.
housekeepInflightFailed(j) ==
  /\ gateway = "up" /\ Inflight(j)
  /\ Expired(j) \/ machine.deleted
  /\ finish(j, "failed", "recovery_unavailable")
  /\ UNCHANGED <<machine, gatewayVars, wire, hostVars, history, faults>>

housekeepInflight(j) ==
  /\ gateway = "up" /\ Inflight(j)
  /\ Expired(j) \/ machine.deleted
  /\ finish(j, "unknown", "recovery_unavailable")
  /\ UNCHANGED <<machine, gatewayVars, wire, hostVars, history, faults>>

\* A crash, or the end of a shutdown: everything in memory is gone.
gatewayStops ==
  /\ gateway # "down" /\ faults > 0
  /\ gateway' = "down"
  /\ session' = NoSession
  /\ revoking' = FALSE
  /\ toGateway' = <<>>
  /\ host' = [host EXCEPT !.conn = IF @ = "upgrading" THEN "off" ELSE @]
  /\ faults' = faults - 1
  /\ UNCHANGED <<dbVars, toHost, receipts, tasks, attached, sent, history>>

\* recover_inflight arms the recoverable jobs before anything is served.
recover_inflight ==
  /\ gateway = "down"
  /\ gateway' = "recovering"
  /\ job' = [j \in Jobs |-> IF Inflight(j) /\ job[j].recovery
                            THEN Armed(job[j]) ELSE job[j]]
  /\ UNCHANGED <<machine, session, revoking, wire, hostVars, history, faults>>

Unrecoverable == {j \in Jobs : Inflight(j) /\ ~job[j].recovery}

recoverUnknown(j) ==
  /\ gateway = "recovering" /\ j \in Unrecoverable
  /\ finish(j, "unknown", "gateway_restarted")
  /\ UNCHANGED <<machine, gatewayVars, wire, hostVars, history, faults>>

serve ==
  /\ gateway = "recovering" /\ Unrecoverable = {}
  /\ gateway' = "up"
  /\ UNCHANGED <<dbVars, session, revoking, wire, hostVars, history, faults>>

-----------------------------------------------------------------------------
(* The daemon. *)

ReceiptState == {"none", "accepted"} \cup Result
TaskState == {"none", "running", "finished"}
HostState == [conn : {"down", "off", "upgrading", "hello", "on"}, gen : Nat,
              recovery : BOOLEAN, version : Nat]

\* A new process: a new generation, and the credential of the store, which
\* register returns only after it has called revoke().
hostStarts ==
  /\ host.conn = "down" /\ host.gen < MaxGeneration
  /\ ~revoking
  /\ \E r \in HostRecovery :
       host' = [conn |-> "off", gen |-> host.gen + 1, recovery |-> r,
                version |-> machine.version]
  /\ UNCHANGED <<dbVars, gatewayVars, wire, receipts, tasks, attached, sent,
                 history, faults>>

hostCrashes ==
  /\ host.conn # "down" /\ faults > 0
  /\ faults' = faults - 1
  /\ StopRuntime
  /\ UNCHANGED <<dbVars, gatewayVars, toGateway, history>>

\* The connection ends at the daemon, which noticed that the gateway closed or
\* refused it, or lost it; request tasks belong to the runtime.
GatewayClosed ==
  IF host.conn = "upgrading" THEN session.phase # "none" ELSE ~Listening

hostDisconnects ==
  /\ host.conn \in {"upgrading", "hello", "on"}
  /\ \/ GatewayClosed /\ UNCHANGED faults
     \/ ~GatewayClosed /\ faults > 0 /\ faults' = faults - 1
  /\ host' = [host EXCEPT !.conn = "off"]
  /\ toHost' = <<>>
  /\ attached' = {}
  /\ sent' = {}
  /\ UNCHANGED <<dbVars, gatewayVars, toGateway, receipts, tasks, history>>

Arriving(type) ==
  /\ Connected /\ toHost # <<>>
  /\ Head(toHost).type = type

onWelcome ==
  /\ Arriving("welcome") /\ host.conn = "hello"
  /\ host' = [host EXCEPT !.conn = "on"]
  /\ toHost' = Tail(toHost)
  /\ UNCHANGED <<dbVars, gatewayVars, toGateway, receipts, tasks, attached,
                 sent, history, faults>>

\* DisconnectCode::Revoked stops the daemon.
onDisconnect ==
  /\ Arriving("disconnect")
  /\ StopRuntime
  /\ UNCHANGED <<dbVars, gatewayVars, toGateway, history, faults>>

ReceiptMessage(j) ==
  CASE receipts[j] \in Result -> [type |-> "response", job |-> j, result |-> receipts[j]]
    [] receipts[j] = "accepted" -> [type |-> "accepted", job |-> j]
    [] OTHER -> [type |-> "missing", job |-> j]

RequestLimit(j) == MaxRequests + IF j \in ControlJobs THEN MaxControlRequests ELSE 0
Busy(j) == Cardinality({i \in Jobs : tasks[i] # "none"}) >= RequestLimit(j)
Held == {i \in Jobs : receipts[i] # "none"}

\* An unfinished receipt reserves a frame; a finished one what its text takes.
MustRefuse(j) ==
  \/ Busy(j)
  \/ host.recovery /\ Cardinality(Held) >= MaxReceipts
  \/ host.recovery /\ Cardinality({i \in Held : receipts[i] = "accepted"}) >= MaxReservations
MayRefuse(j) == MustRefuse(j) \/ (host.recovery /\ Cardinality(Held) >= MaxReservations)

Request(j) ==
  /\ Arriving("request") /\ j = Head(toHost).job
  /\ toHost' = Tail(toHost)

\* Runner::accept with Admission::New, and the path without recovery.
StartTask(j) ==
  /\ tasks' = [tasks EXCEPT ![j] = "running"]
  /\ starts' = [starts EXCEPT ![j] = @ + 1]

acceptNew(j) ==
  /\ Request(j)
  /\ receipts[j] = "none" /\ ~MustRefuse(j)
  /\ StartTask(j)
  /\ IF host.recovery
     THEN /\ receipts' = [receipts EXCEPT ![j] = "accepted"]
          /\ SendToGateway([type |-> "accepted", job |-> j])
          /\ UNCHANGED attached
     ELSE /\ attached' = attached \cup {j}
          /\ UNCHANGED <<receipts, toGateway>>
  /\ UNCHANGED <<dbVars, gatewayVars, host, sent, outcome, faults>>

\* Admission::Full: the answer is an error and no receipt is kept.  With
\* Admission::Existing the receipt itself is the answer.
acceptFull(j) ==
  /\ Request(j)
  /\ receipts[j] # "none" \/ MayRefuse(j)
  /\ SendToGateway(IF receipts[j] # "none" THEN ReceiptMessage(j)
                   ELSE [type |-> "response", job |-> j, result |-> "err"])
  /\ UNCHANGED <<dbVars, gatewayVars, hostVars, history, faults>>

\* The task of an accepted request ends.
complete(j, result) ==
  /\ tasks[j] = "running"
  /\ tasks' = [tasks EXCEPT ![j] = "finished"]
  /\ outcome' = [outcome EXCEPT ![j] = result]
  /\ IF host.recovery
     THEN /\ receipts' = [receipts EXCEPT ![j] = result]
          /\ UNCHANGED <<toGateway, attached>>
     ELSE /\ attached' = attached \ {j}
          /\ IF j \in attached
             THEN SendToGateway([type |-> "response", job |-> j, result |-> result])
             ELSE UNCHANGED toGateway
          /\ UNCHANGED receipts
  /\ UNCHANGED <<dbVars, gatewayVars, toHost, host, sent, starts, faults>>

\* join_next
reap(j) ==
  /\ tasks[j] = "finished"
  /\ tasks' = [tasks EXCEPT ![j] = "none"]
  /\ UNCHANGED <<dbVars, gatewayVars, wire, host, receipts, attached, sent,
                 history, faults>>

\* Faulty variant: a receipt is dropped once its response is on the wire.
nextResponseForgets(j) ==
  /\ host.conn = "on" /\ host.recovery
  /\ receipts[j] \in Result /\ j \notin sent
  /\ SendToGateway(ReceiptMessage(j))
  /\ sent' = sent \cup {j}
  /\ receipts' = [receipts EXCEPT ![j] = "none"]
  /\ UNCHANGED <<dbVars, gatewayVars, toHost, host, tasks, attached, history,
                 faults>>

\* The responses tick: next_response(sent).
next_response(j) ==
  /\ host.conn = "on" /\ host.recovery
  /\ receipts[j] \in Result /\ j \notin sent
  /\ SendToGateway(ReceiptMessage(j))
  /\ sent' = sent \cup {j}
  /\ UNCHANGED <<dbVars, gatewayVars, toHost, host, receipts, tasks, attached,
                 history, faults>>

onRecover ==
  /\ Arriving("recover")
  /\ LET j == Head(toHost).job IN
     /\ SendToGateway(ReceiptMessage(j))
     /\ sent' = sent \ {j}
  /\ toHost' = Tail(toHost)
  /\ UNCHANGED <<dbVars, gatewayVars, host, receipts, tasks, attached, history,
                 faults>>

\* Receipts::acknowledge releases a completed receipt.
acknowledge ==
  /\ Arriving("acknowledge")
  /\ LET j == Head(toHost).job IN
     /\ receipts' = IF receipts[j] \in Result
                    THEN [receipts EXCEPT ![j] = "none"] ELSE receipts
     /\ sent' = sent \ {j}
  /\ toHost' = Tail(toHost)
  /\ UNCHANGED <<dbVars, gatewayVars, toGateway, host, tasks, attached, history,
                 faults>>

-----------------------------------------------------------------------------
Init ==
  /\ job = [j \in Jobs |-> NoRow]
  /\ machine = [enabled |-> TRUE, deleted |-> FALSE, version |-> 1]
  /\ gateway = "up"
  /\ session = NoSession
  /\ revoking = FALSE
  /\ toHost = <<>> /\ toGateway = <<>>
  /\ host = [conn |-> "down", gen |-> 0, recovery |-> FALSE, version |-> 0]
  /\ receipts = [j \in Jobs |-> "none"]
  /\ tasks = [j \in Jobs |-> "none"]
  /\ attached = {} /\ sent = {}
  /\ starts = [j \in Jobs |-> 0]
  /\ outcome = [j \in Jobs |-> "none"]
  /\ faults = MaxFaults

Administration == (\E b \in BOOLEAN : setEnabled(b)) \/ register \/ remove

GatewayJobStep(j) ==
  \/ reconnectFinish(j) \/ dispatchRejected(j) \/ dispatch_next(j)
  \/ connectionLost(j) \/ housekeepQueued(j) \/ housekeepInflight(j)
  \/ recoverUnknown(j)

GatewayStep ==
  \/ revoke \/ reconnect \/ welcome \/ sendRecover
  \/ response \/ accepted \/ missing \/ missingFails
  \/ heartbeat \/ revoked \/ sessionLost \/ disconnected \/ leave
  \/ gatewayStops \/ recover_inflight \/ serve

HostJobStep(j) ==
  \/ acceptNew(j) \/ acceptFull(j) \/ reap(j) \/ next_response(j)
  \/ \E result \in Result : complete(j, result)

HostStep ==
  \/ upgrade \/ upgradeRejected \/ hello \/ hostStarts \/ hostCrashes \/ hostDisconnects
  \/ onWelcome \/ onDisconnect \/ onRecover \/ acknowledge

Next ==
  \/ Administration \/ GatewayStep \/ HostStep
  \/ \E j \in Jobs : submit(j) \/ deadlinePasses(j) \/ GatewayJobStep(j) \/ HostJobStep(j)

Spec == Init /\ [][Next]_vars

-----------------------------------------------------------------------------
(* Correctness. *)

\* Every variable keeps its shape; in particular a row holds only statuses the
\* CHECK constraint of the jobs table admits.
TypeOK ==
  /\ job \in [Jobs -> JobRow]
  /\ machine \in [enabled : BOOLEAN, deleted : BOOLEAN, version : Nat]
  /\ gateway \in {"down", "recovering", "up"}
  /\ session \in SessionState
  /\ revoking \in BOOLEAN
  /\ toHost \in Seq(GatewayFrame)
  /\ toGateway \in Seq(HostFrame)
  /\ host \in HostState
  /\ receipts \in [Jobs -> ReceiptState]
  /\ tasks \in [Jobs -> TaskState]
  /\ attached \subseteq Jobs
  /\ sent \subseteq Jobs
  /\ starts \in [Jobs -> Nat]
  /\ outcome \in [Jobs -> {"none"} \cup Result]
  /\ faults \in Nat

\* The work of a job is started at most once, over every mix of reconnects,
\* gateway restarts, daemon restarts and recoveries: dispatch_next claims only
\* queued work and nothing puts a job back ("There is no automatic replay").
AtMostOnce == \A j \in Jobs : starts[j] <= 1

Unclaimed == {"absent", "queued"}
Requested == {j \in Jobs : \E i \in 1..Len(toHost) :
                toHost[i] = [type |-> "request", job |-> j]}

\* Why AtMostOnce holds: a request is on the wire at most once, and only for a
\* job that dispatch_next has claimed and whose work no host has started.
RequestsAreFresh ==
  /\ \A j \in Jobs : job[j].status \in Unclaimed => starts[j] = 0 /\ j \notin Requested
  /\ \A j \in Requested : starts[j] = 0
  /\ \A i, k \in 1..Len(toHost) :
       toHost[i].type = "request" /\ toHost[k] = toHost[i] => i = k

\* The error codes that tell a client the work did not run.
NeverRanCodes == {"machine_disabled", "generation_mismatch", "dispatch_timeout",
                  "receipt_missing"}

\* A client may resubmit a job that ended with one of those codes: its work has
\* not run and, the request being gone, never will.  receipt_missing is among
\* them because a receipt outlives its task until the result is committed.
GatewayFailureNeverRan ==
  \A j \in Jobs : job[j].code \in NeverRanCodes => starts[j] = 0

\* succeeded is only stored for work whose run on the host returned success.
SucceededDidRun ==
  \A j \in Jobs : job[j].status = "succeeded" => outcome[j] = "ok"

\* connected commits before it acknowledges: as long as the host process that
\* ran a job lives, either it still holds the receipt or the job is terminal.
ReceiptHeldUntilDurable ==
  \A j \in Jobs :
    /\ starts[j] > 0 /\ host.recovery /\ host.conn # "down"
    /\ job[j].generation = host.gen /\ receipts[j] = "none"
    => terminal(job[j].status)

\* Every unfinished dispatched job has someone who will end it: while the
\* gateway serves, either a recovery deadline runs or the live session holds
\* the job in its pending set.
NoOrphan ==
  gateway = "up" =>
    \A j \in Jobs : Inflight(j) /\ job[j].deadline = "none" =>
      /\ session.phase \in {"ready", "closing"}
      /\ j \in session.pending

\* A recovery deadline runs only for dispatched work that has not ended: finish_tx
\* clears it, so it never expires over a terminal job or one still in the queue.
DeadlineOnlyInflight ==
  \A j \in Jobs : job[j].deadline # "none" => Inflight(j)

\* No answer a well-behaved daemon sends makes connected or jobs::response
\* reject it as unmatched and drop the session.
ResponsesMatch ==
  session.phase = "ready" =>
    \A i \in 1..Len(toGateway) :
      toGateway[i].type = "response" => ResponseMatches(toGateway[i].job)

\* Ordinary work never takes the slots reserved for execution.terminate_run,
\* also after a reconnect refills the pending set from the table.
ControlSlotsReserved ==
  /\ Cardinality(session.pending \ ControlJobs) <= MaxPendingRequests
  /\ Cardinality(session.pending) <= MaxPendingRequests + ReservedControlRequests

\* Terminal jobs are immutable: a late or duplicate response, an expired
\* deadline or a restart never changes a row that has ended.
TerminalImmutable ==
  [][\A j \in Jobs : terminal(job[j].status) => job'[j] = job[j]]_vars

\* architecture.md says that execution.terminate_run has "four additional reserved
\* slots, so long-running runs cannot consume all cancellation capacity": while
\* only running work holds receipts, a control request is refused only when the
\* ordinary and the reserved slots are all taken.  (The byte budget of receipts.rs
\* is MAX_REQUESTS frames, so MaxReservations = MaxRequests.)
CancellationCapacity ==
  [][\A j \in ControlJobs :
       /\ acceptFull(j) /\ receipts[j] = "none"
       /\ \A i \in Held : receipts[i] = "accepted"
       => Busy(j)]_vars

-----------------------------------------------------------------------------
(* Refinement: the machine implements the life of a job. *)

Lifecycle == INSTANCE JobLifecycle WITH
  status <- [j \in Jobs |-> IF Inflight(j) THEN "inflight" ELSE job[j].status],
  ticket <- Requested

\* Every step of the gateway, the wire and the host is a step of JobLifecycle,
\* or none: unknown is the only end of work that may still be running.
ImplementsLifecycle == Lifecycle!Spec

-----------------------------------------------------------------------------
(* Progress.  Operators, clients and faults owe nothing; loops, timers,     *)
(* maintenance and the supervisor that restarts the gateway do.             *)

Fairness ==
  /\ WF_vars(upgrade) /\ WF_vars(upgradeRejected)
  /\ WF_vars(revoke) /\ WF_vars(hello) /\ WF_vars(reconnect) /\ WF_vars(welcome)
  /\ WF_vars(sendRecover) /\ WF_vars(response) /\ WF_vars(accepted) /\ WF_vars(missing)
  /\ WF_vars(revoked) /\ WF_vars(~Connected /\ sessionLost)
  /\ WF_vars(disconnected) /\ WF_vars(leave)
  /\ WF_vars(recover_inflight) /\ WF_vars(serve)
  /\ WF_vars(GatewayClosed /\ hostDisconnects) /\ WF_vars(onWelcome)
  /\ WF_vars(onDisconnect) /\ WF_vars(onRecover) /\ WF_vars(acknowledge)
  /\ \A j \in Jobs :
       /\ WF_vars(deadlinePasses(j)) /\ WF_vars(housekeepQueued(j))
       /\ WF_vars(housekeepInflight(j)) /\ WF_vars(reconnectFinish(j))
       /\ WF_vars(connectionLost(j)) /\ WF_vars(recoverUnknown(j))
       /\ WF_vars(acceptNew(j) \/ acceptFull(j)) /\ WF_vars(next_response(j))
       /\ WF_vars(\E result \in Result : complete(j, result))

FairSpec == Spec /\ Fairness

\* Every admitted job reaches a terminal state once faults stop: through its
\* response, its recovery deadline, the dispatch timeout or a restart.
EventuallyTerminal ==
  \A j \in Jobs : job[j].status # "absent" ~> terminal(job[j].status)

\* Every receipt of the daemon is released in the end, so its bounded table
\* cannot fill with answers nobody will acknowledge.
ReceiptEventuallyReleased ==
  \A j \in Jobs : receipts[j] # "none" ~> receipts[j] = "none"
=============================================================================
