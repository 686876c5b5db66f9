------------------------- MODULE JobDispatchProofs -------------------------
(***************************************************************************)
(* Theorems about JobDispatch, for any number of jobs, any limits and any  *)
(* number of generations, credential versions and faults.                  *)
(*                                                                         *)
(* The first part, with DispatchInv, is about types, and about starts that *)
(* happen once.  The second, with SafetyInv, has the rest: outcomes are    *)
(* honest, receipts outlive the commit, every dispatched job has an owner, *)
(* every answer matches, control keeps its slots; and every step of the    *)
(* machine is a step of JobLifecycle.                                      *)
(***************************************************************************)
EXTENDS JobDispatch, FiniteSetTheorems, TLAPS

-----------------------------------------------------------------------------
(* What the helpers of the model return. *)

\* finish_tx keeps a row a row.
LEMMA FinishedRowType ==
  ASSUME NEW row \in JobRow, NEW s \in Status, NEW c \in Code
  PROVE  FinishedRow(row, s, c) \in JobRow
  BY DEF FinishedRow, JobRow, Deadline

\* The table keeps its shape when finish ends one of its jobs.
LEMMA FinishType ==
  ASSUME job \in [Jobs -> JobRow], NEW j \in Jobs, NEW s \in Status, NEW c \in Code,
         finish(j, s, c)
  PROVE  job' \in [Jobs -> JobRow]
  <1>1. FinishedRow(job[j], s, c) \in JobRow
    BY FinishedRowType
  <1> QED BY <1>1 DEF finish

\* Arming the recovery deadline keeps a row a row.
LEMMA ArmedType ==
  ASSUME NEW row \in JobRow
  PROVE  Armed(row) \in JobRow
  BY DEF Armed, JobRow, Deadline

\* Claiming a job for a session keeps a row a row.
LEMMA ClaimedRowType ==
  ASSUME NEW row \in JobRow, NEW g \in Nat, NEW r \in BOOLEAN
  PROVE  [row EXCEPT !.status = "dispatching", !.generation = g, !.recovery = r] \in JobRow
  <1>1. "dispatching" \in Status
    BY DEF Status, InflightStatus
  <1> QED BY <1>1 DEF JobRow

\* The gateway only puts frames of the protocol on the wire.
LEMMA SendToHostType ==
  ASSUME toHost \in Seq(GatewayFrame), NEW f \in GatewayFrame, SendToHost(f)
  PROVE  toHost' \in Seq(GatewayFrame)
  BY DEF SendToHost

\* So does the host.
LEMMA SendToGatewayType ==
  ASSUME toGateway \in Seq(HostFrame), NEW f \in HostFrame, SendToGateway(f)
  PROVE  toGateway' \in Seq(HostFrame)
  BY DEF SendToGateway

\* The frame at the head of a nonempty queue, and the queue behind it.
LEMMA HeadTail ==
  ASSUME NEW S, NEW q \in Seq(S), q # <<>>
  PROVE  Head(q) \in S /\ Tail(q) \in Seq(S)
  OBVIOUS

\* Every frame of the host names a job.
LEMMA HostFrameJob ==
  ASSUME NEW f \in HostFrame
  PROVE  f.job \in Jobs
  BY DEF HostFrame

\* A response carries a result.
LEMMA HostFrameResult ==
  ASSUME NEW f \in HostFrame, f.type = "response"
  PROVE  f.result \in Result
  BY DEF HostFrame

\* The frames of the gateway that name a job.
LEMMA GatewayFrameJob ==
  ASSUME NEW f \in GatewayFrame, f.type \in {"request", "recover", "acknowledge"}
  PROVE  f.job \in Jobs
  BY DEF GatewayFrame

\* The answer to a recover frame is a frame.
LEMMA ReceiptMessageType ==
  ASSUME NEW j \in Jobs
  PROVE  ReceiptMessage(j) \in HostFrame
  BY DEF ReceiptMessage, HostFrame

-----------------------------------------------------------------------------
(* Type correctness, one step per action. *)

\* The initial state is well typed.
LEMMA TypeInit == Init => TypeOK
  <1> SUFFICES ASSUME Init PROVE TypeOK
    OBVIOUS
  <1>1. NoRow \in JobRow
    BY DEF NoRow, JobRow, Status, InflightStatus, TerminalStatus, Deadline, Code
  <1>2. NoSession \in SessionState
    BY DEF NoSession, SessionState, Phases, Code
  <1>3. host \in HostState
    BY DEF Init, HostState
  <1>4. machine \in [enabled : BOOLEAN, deleted : BOOLEAN, version : Nat]
    BY DEF Init
  <1>5. /\ job \in [Jobs -> JobRow]
        /\ starts \in [Jobs -> Nat]
        /\ faults \in Nat
    BY <1>1, BoundsAssumption DEF Init
  <1>6. /\ receipts \in [Jobs -> ReceiptState]
        /\ tasks \in [Jobs -> TaskState]
        /\ outcome \in [Jobs -> {"none"} \cup Result]
    BY DEF Init, ReceiptState, TaskState
  <1>7. toHost \in Seq(GatewayFrame) /\ toGateway \in Seq(HostFrame)
    BY DEF Init
  <1> QED
    BY <1>2, <1>3, <1>4, <1>5, <1>6, <1>7 DEF Init, TypeOK

\* Administrative calls change the machine row, and revoke the token.
LEMMA TypeAdministration ==
  ASSUME TypeOK, Administration \/ revoke
  PROVE  TypeOK'
  <1> USE DEF dbVars, gatewayVars, wire, hostVars, history
  <1>1. machine.version + 1 \in Nat
    BY DEF TypeOK
  <1>2. ASSUME NEW b \in BOOLEAN, setEnabled(b) PROVE TypeOK'
    BY <1>2 DEF TypeOK, setEnabled
  <1>3. CASE register
    <2>1. machine' \in [enabled : BOOLEAN, deleted : BOOLEAN, version : Nat]
      BY <1>1, <1>3 DEF TypeOK, register
    <2> QED BY <1>3, <2>1 DEF TypeOK, register
  <1>4. CASE remove
    <2>1. machine' \in [enabled : BOOLEAN, deleted : BOOLEAN, version : Nat]
      BY <1>1, <1>4 DEF TypeOK, remove
    <2> QED BY <1>4, <2>1 DEF TypeOK, remove
  <1>5. CASE revoke
    <2>1. session' \in SessionState
      BY <1>5 DEF TypeOK, revoke, SessionState
    <2> QED BY <1>5, <2>1 DEF TypeOK, revoke
  <1> QED BY <1>2, <1>3, <1>4, <1>5 DEF Administration

\* Leaving the loop of connected keeps the session a session.
LEMMA CloseType ==
  ASSUME TypeOK, CloseGatewaySide
  PROVE  session' \in SessionState /\ toGateway' \in Seq(HostFrame)
  <1>1. [session EXCEPT !.phase = "closing"] \in SessionState
    BY DEF TypeOK, SessionState, Phases
  <1>2. <<>> \in Seq(HostFrame)
    OBVIOUS
  <1> QED BY <1>1, <1>2 DEF CloseGatewaySide

\* The handshake and the dispatch tick.
LEMMA TypeSession ==
  ASSUME TypeOK,
         \/ reconnect \/ welcome \/ sendRecover \/ heartbeat \/ revoked \/ sessionLost
         \/ leave \/ missingFails
  PROVE  TypeOK'
  <1> USE DEF dbVars, gatewayVars, wire, hostVars, history
  <1>1. CASE reconnect
    <2>1. \A j \in Jobs : ReconnectCode(j) \in Code
      BY DEF ReconnectCode, Code
    <2>2. [j \in Jobs |-> IF Inflight(j) THEN ReconnectCode(j) ELSE "none"] \in [Jobs -> Code]
      BY <2>1 DEF Code
    <2> DEFINE kept == {j \in Jobs : Inflight(j) /\ ReconnectCode(j) = "none"}
               plan == [j \in Jobs |-> IF Inflight(j) THEN ReconnectCode(j) ELSE "none"]
               joined == [session EXCEPT !.phase = "reconciling", !.plan = plan,
                                         !.recovering = kept]
    <2>3. joined \in SessionState
      <3>1. kept \in SUBSET Jobs /\ plan \in [Jobs -> Code]
        BY <2>2
      <3> HIDE DEF kept, plan
      <3> QED BY <3>1 DEF TypeOK, SessionState, Phases
    <2>4. [session EXCEPT !.phase = "closing"] \in SessionState
      BY DEF TypeOK, SessionState, Phases
    <2>5. session' \in SessionState
      BY <1>1, <2>3, <2>4 DEF reconnect
    <2> QED BY <1>1, <2>5 DEF TypeOK, reconnect
  <1>2. CASE welcome
    <2>1. session' \in SessionState
      BY <1>2 DEF TypeOK, welcome, SessionState, Phases
    <2>2. toHost' \in Seq(GatewayFrame)
      BY <1>2, SendToHostType DEF TypeOK, welcome, GatewayFrame
    <2> QED BY <1>2, <2>1, <2>2 DEF TypeOK, welcome
  <1>3. CASE sendRecover
    <2>1. session' \in SessionState
      BY <1>3 DEF TypeOK, sendRecover, SessionState
    <2>2. session.pending \subseteq Jobs
      BY DEF TypeOK, SessionState
    <2>3. toHost' \in Seq(GatewayFrame)
      BY <1>3, <2>2, SendToHostType DEF TypeOK, sendRecover, GatewayFrame
    <2> QED BY <1>3, <2>1, <2>3 DEF TypeOK, sendRecover
  <1>4. CASE heartbeat
    <2>1. session' \in SessionState
      BY <1>4 DEF TypeOK, heartbeat, SessionState
    <2> QED BY <1>4, <2>1 DEF TypeOK, heartbeat
  <1>5. CASE revoked
    <2>1. session' \in SessionState /\ toGateway' \in Seq(HostFrame)
      BY <1>5, CloseType DEF revoked
    <2>2. toHost' \in Seq(GatewayFrame)
      BY <1>5, SendToHostType DEF TypeOK, revoked, GatewayFrame
    <2> QED BY <1>5, <2>1, <2>2 DEF TypeOK, revoked
  <1>6. CASE sessionLost
    <2>1. session' \in SessionState /\ toGateway' \in Seq(HostFrame)
      BY <1>6, CloseType DEF sessionLost
    <2>2. faults' \in Nat
      BY <1>6 DEF TypeOK, sessionLost
    <2> QED BY <1>6, <2>1, <2>2 DEF TypeOK, sessionLost
  <1>7. CASE leave
    <2>1. NoSession \in SessionState
      BY DEF NoSession, SessionState, Phases, Code
    <2> QED BY <1>7, <2>1 DEF TypeOK, leave
  <1>8. CASE missingFails
    <2>1. session' \in SessionState
      BY <1>8 DEF TypeOK, missingFails, SessionState, Phases
    <2>2. faults' \in Nat /\ toGateway' \in Seq(HostFrame)
      BY <1>8 DEF TypeOK, missingFails
    <2> QED BY <1>8, <2>1, <2>2 DEF TypeOK, missingFails
  <1> QED BY <1>1, <1>2, <1>3, <1>4, <1>5, <1>6, <1>7, <1>8

\* The steps that end one job, or claim it.
LEMMA TypeJobStep ==
  ASSUME TypeOK, NEW j \in Jobs, submit(j) \/ deadlinePasses(j) \/ GatewayJobStep(j)
  PROVE  TypeOK'
  <1> USE DEF dbVars, gatewayVars, wire, hostVars, history
  <1>0. {"failed", "unknown"} \subseteq Status
    BY DEF Status, TerminalStatus
  <1>1. CASE submit(j)
    <2>1. PICK expected \in Nat : expected = IF j \in PinnedJobs THEN session.gen ELSE 0
      BY DEF TypeOK, SessionState
    <2>2. PICK row : row = [job[j] EXCEPT !.status = "queued", !.expected = expected]
      OBVIOUS
    <2>3. job' = [job EXCEPT ![j] = row]
      BY <1>1, <2>1, <2>2 DEF submit
    <2>4. job[j] \in JobRow /\ "queued" \in Status
      BY DEF TypeOK, Status
    <2>5. row \in JobRow
      BY <2>1, <2>2, <2>4 DEF JobRow
    <2>6. job' \in [Jobs -> JobRow]
      BY <2>3, <2>5 DEF TypeOK
    <2> QED BY <1>1, <2>6 DEF TypeOK, submit
  <1>2. CASE deadlinePasses(j)
    <2>1. PICK row : row = [job[j] EXCEPT !.deadline = "expired"]
      OBVIOUS
    <2>2. job[j] \in JobRow /\ "expired" \in Deadline
      BY DEF TypeOK, Deadline
    <2>3. row \in JobRow
      BY <2>1, <2>2 DEF JobRow
    <2>4. job' = [job EXCEPT ![j] = row]
      BY <1>2, <2>1 DEF deadlinePasses
    <2>5. job' \in [Jobs -> JobRow]
      BY <2>3, <2>4 DEF TypeOK
    <2> QED BY <1>2, <2>5 DEF TypeOK, deadlinePasses
  <1>3. CASE reconnectFinish(j)
    <2>1. session.plan[j] \in Code
      BY DEF TypeOK, SessionState
    <2>2. job' \in [Jobs -> JobRow]
      BY <1>0, <1>3, <2>1, FinishType DEF TypeOK, reconnectFinish
    <2>3. session' \in SessionState
      BY <1>3 DEF TypeOK, reconnectFinish, SessionState, Code
    <2> QED BY <1>3, <2>2, <2>3 DEF TypeOK, reconnectFinish
  <1>4. CASE dispatchRejected(j)
    <2>1. {"generation_mismatch", "machine_disabled"} \subseteq Code
      BY DEF Code
    <2>2. job' \in [Jobs -> JobRow]
      BY <1>0, <1>4, <2>1, FinishType DEF TypeOK, dispatchRejected
    <2> QED BY <1>4, <2>2 DEF TypeOK, dispatchRejected
  <1>5. CASE dispatch_next(j)
    <2>1. session.gen \in Nat /\ session.recovery \in BOOLEAN
      BY DEF TypeOK, SessionState
    <2> DEFINE row == [job[j] EXCEPT !.status = "dispatching",
                         !.generation = session.gen, !.recovery = session.recovery]
    <2>a. job' = [job EXCEPT ![j] = row]
      BY <1>5 DEF dispatch_next
    <2>b. row \in JobRow
      BY <2>1, ClaimedRowType DEF TypeOK
    <2>2. job' \in [Jobs -> JobRow]
      BY <2>a, <2>b DEF TypeOK
    <2>3. session' \in SessionState
      BY <1>5 DEF TypeOK, dispatch_next, SessionState
    <2>4. toHost' \in Seq(GatewayFrame)
      BY <1>5, SendToHostType DEF TypeOK, dispatch_next, GatewayFrame
    <2> QED BY <1>5, <2>2, <2>3, <2>4 DEF TypeOK, dispatch_next
  <1>6. CASE connectionLost(j)
    <2>1. job' \in [Jobs -> JobRow]
      BY <1>0, <1>6, FinishType DEF TypeOK, connectionLost, Code
    <2>2. session' \in SessionState
      BY <1>6 DEF TypeOK, connectionLost, SessionState
    <2> QED BY <1>6, <2>1, <2>2 DEF TypeOK, connectionLost
  <1>7. CASE housekeepQueued(j)
    <2>1. job' \in [Jobs -> JobRow]
      BY <1>0, <1>7, FinishType DEF TypeOK, housekeepQueued, Code
    <2> QED BY <1>7, <2>1 DEF TypeOK, housekeepQueued
  <1>8. CASE housekeepInflight(j)
    <2>1. job' \in [Jobs -> JobRow]
      BY <1>0, <1>8, FinishType DEF TypeOK, housekeepInflight, Code
    <2> QED BY <1>8, <2>1 DEF TypeOK, housekeepInflight
  <1>9. CASE recoverUnknown(j)
    <2>1. job' \in [Jobs -> JobRow]
      BY <1>0, <1>9, FinishType DEF TypeOK, recoverUnknown, Code
    <2> QED BY <1>9, <2>1 DEF TypeOK, recoverUnknown
  <1> QED
    BY <1>1, <1>2, <1>3, <1>4, <1>5, <1>6, <1>7, <1>8, <1>9 DEF GatewayJobStep

\* The frames that arrive from the daemon.
LEMMA TypeIncoming ==
  ASSUME TypeOK, response \/ accepted \/ missing
  PROVE  TypeOK'
  <1> USE DEF dbVars, gatewayVars, wire, hostVars, history
  <1> DEFINE f == Head(toGateway)
             j == f.job
  <1>1. /\ toGateway # <<>>
        /\ f.type \in {"response", "accepted", "missing"}
    BY DEF response, accepted, missing, Incoming
  <1>2. f \in HostFrame /\ Tail(toGateway) \in Seq(HostFrame)
    BY <1>1, HeadTail DEF TypeOK
  <1>3. j \in Jobs
    BY <1>2, HostFrameJob
  <1>4. [session EXCEPT !.pending = @ \ {j}] \in SessionState
    BY <1>3 DEF TypeOK, SessionState
  <1>5. [session EXCEPT !.phase = "closing"] \in SessionState
    BY DEF TypeOK, SessionState, Phases
  <1>6. job[j] \in JobRow
    BY <1>3 DEF TypeOK
  <1> HIDE DEF f
  <1>7. CASE response
    <2>1. ResponseRow(job[j], f.result) \in JobRow
      BY <1>6, FinishedRowType DEF ResponseRow, Status, TerminalStatus, Code
    <2>2. [job EXCEPT ![j] = ResponseRow(@, f.result)] \in [Jobs -> JobRow]
      BY <1>3, <2>1 DEF TypeOK
    <2>3. [type |-> "acknowledge", job |-> j] \in GatewayFrame
      BY <1>3 DEF GatewayFrame
    <2>4. CASE ResponseMatches(j)
      <3>1. /\ job' = [job EXCEPT ![j] = ResponseRow(@, f.result)]
            /\ session' = [session EXCEPT !.pending = @ \ {j}]
            /\ toGateway' = Tail(toGateway)
            /\ SendToHost([type |-> "acknowledge", job |-> j]) \/ UNCHANGED toHost
        BY <1>7, <2>4 DEF response, f
      <3>2. toHost' \in Seq(GatewayFrame)
        BY <2>3, <3>1, SendToHostType DEF TypeOK
      <3> QED BY <1>2, <1>4, <1>7, <2>2, <3>1, <3>2 DEF TypeOK, response
    <2>5. CASE ~ResponseMatches(j)
      <3>1. /\ session' = [session EXCEPT !.phase = "closing"]
            /\ toGateway' = <<>>
            /\ UNCHANGED <<job, toHost>>
        BY <1>7, <2>5 DEF response, f
      <3>2. toGateway' \in Seq(HostFrame)
        BY <3>1
      <3> QED BY <1>5, <1>7, <3>1, <3>2 DEF TypeOK, response
    <2> QED BY <2>4, <2>5
  <1>8. CASE accepted
    <2>1. AcceptedRow(job[j]) \in JobRow
      BY <1>6 DEF AcceptedRow, JobRow, Status, InflightStatus, Deadline
    <2>2. job' \in [Jobs -> JobRow]
      BY <1>3, <1>8, <2>1 DEF TypeOK, accepted, f
    <2> QED BY <1>2, <1>8, <2>2 DEF TypeOK, accepted
  <1>9. CASE missing
    <2>1. session' \in SessionState
      BY <1>4, <1>9 DEF TypeOK, missing, f
    <2>2. job' \in [Jobs -> JobRow]
      BY <1>3, <1>9, FinishType DEF TypeOK, missing, Status, TerminalStatus, Code, f
    <2> QED BY <1>2, <1>9, <2>1, <2>2 DEF TypeOK, missing
  <1> QED BY <1>7, <1>8, <1>9

\* The end of a session, and the stop and start of the gateway.
LEMMA TypeGatewayProcess ==
  ASSUME TypeOK, disconnected \/ gatewayStops \/ recover_inflight \/ serve
  PROVE  TypeOK'
  <1> USE DEF dbVars, gatewayVars, wire, hostVars, history
  <1>1. CASE disconnected
    <2>1. \A j \in Jobs : DisconnectedRow(job[j]) \in JobRow
      BY ArmedType DEF TypeOK, DisconnectedRow
    <2>2. job' \in [Jobs -> JobRow]
      BY <1>1, <2>1 DEF disconnected
    <2>3. session' \in SessionState
      BY <1>1 DEF TypeOK, disconnected, SessionState, Phases
    <2> QED BY <1>1, <2>2, <2>3 DEF TypeOK, disconnected
  <1>2. CASE gatewayStops
    <2>1. NoSession \in SessionState
      BY DEF NoSession, SessionState, Phases, Code
    <2>2. host' \in HostState
      BY <1>2 DEF TypeOK, gatewayStops, HostState
    <2>3. faults' \in Nat /\ toGateway' \in Seq(HostFrame)
      BY <1>2 DEF TypeOK, gatewayStops
    <2> QED BY <1>2, <2>1, <2>2, <2>3 DEF TypeOK, gatewayStops
  <1>3. CASE recover_inflight
    <2>1. job' \in [Jobs -> JobRow]
      BY <1>3, ArmedType DEF TypeOK, recover_inflight
    <2> QED BY <1>3, <2>1 DEF TypeOK, recover_inflight
  <1>4. CASE serve
    BY <1>4 DEF TypeOK, serve
  <1> QED BY <1>1, <1>2, <1>3, <1>4

\* The end of the daemon's runtime clears what it holds.
LEMMA StopRuntimeType ==
  ASSUME TypeOK, StopRuntime
  PROVE  /\ host' \in HostState
         /\ receipts' \in [Jobs -> ReceiptState]
         /\ tasks' \in [Jobs -> TaskState]
         /\ attached' \subseteq Jobs
         /\ sent' \subseteq Jobs
         /\ toHost' \in Seq(GatewayFrame)
  <1>1. HostDown \in HostState
    BY DEF HostDown, TypeOK, HostState
  <1>2. "none" \in ReceiptState /\ "none" \in TaskState
    BY DEF ReceiptState, TaskState
  <1> QED BY <1>1, <1>2 DEF StopRuntime

\* The daemon connects, stops and starts.
LEMMA TypeHostProcess ==
  ASSUME TypeOK,
         upgrade \/ upgradeRejected \/ hello \/ hostStarts \/ hostCrashes \/ hostDisconnects
  PROVE  TypeOK'
  <1> USE DEF dbVars, gatewayVars, wire, hostVars, history
  <1>1. CASE upgrade
    <2>1. host' \in HostState
      BY <1>1 DEF TypeOK, upgrade, HostState
    <2> QED BY <1>1, <2>1 DEF TypeOK, upgrade
  <1>2. CASE upgradeRejected
    BY <1>2, StopRuntimeType DEF TypeOK, upgradeRejected
  <1>3. CASE hello
    <2>1. host' \in HostState
      BY <1>3 DEF TypeOK, hello, HostState
    <2>2. host.gen \in Nat /\ host.recovery \in BOOLEAN /\ host.version \in Nat
      BY DEF TypeOK, HostState
    <2>3. NoSession \in SessionState
      BY DEF NoSession, SessionState, Phases, Code
    <2>4. session' \in SessionState
      BY <1>3, <2>2, <2>3 DEF hello, SessionState, Phases
    <2>5. toHost' \in Seq(GatewayFrame) /\ toGateway' \in Seq(HostFrame)
      BY <1>3 DEF hello
    <2> QED BY <1>3, <2>1, <2>4, <2>5 DEF TypeOK, hello
  <1>4. CASE hostStarts
    <2>1. host.gen + 1 \in Nat /\ machine.version \in Nat
      BY DEF TypeOK, HostState
    <2>2. host' \in HostState
      BY <1>4, <2>1, BoundsAssumption DEF hostStarts, HostState
    <2> QED BY <1>4, <2>2 DEF TypeOK, hostStarts
  <1>5. CASE hostCrashes
    <2>1. faults' \in Nat
      BY <1>5 DEF TypeOK, hostCrashes
    <2> QED BY <1>5, <2>1, StopRuntimeType DEF TypeOK, hostCrashes
  <1>6. CASE hostDisconnects
    <2>1. host' \in HostState
      BY <1>6 DEF TypeOK, hostDisconnects, HostState
    <2>2. faults' \in Nat /\ toHost' \in Seq(GatewayFrame)
      BY <1>6 DEF TypeOK, hostDisconnects
    <2> QED BY <1>6, <2>1, <2>2 DEF TypeOK, hostDisconnects
  <1> QED BY <1>1, <1>2, <1>3, <1>4, <1>5, <1>6

\* The frames that arrive from the gateway.
LEMMA TypeArriving ==
  ASSUME TypeOK, onWelcome \/ onDisconnect \/ onRecover \/ acknowledge
  PROVE  TypeOK'
  <1> USE DEF dbVars, gatewayVars, wire, hostVars, history
  <1> DEFINE f == Head(toHost)
             j == f.job
  <1>1. toHost # <<>>
    BY DEF onWelcome, onDisconnect, onRecover, acknowledge, Arriving
  <1>2. f \in GatewayFrame /\ Tail(toHost) \in Seq(GatewayFrame)
    BY <1>1, HeadTail DEF TypeOK
  <1> HIDE DEF f
  <1>3. CASE onWelcome
    <2>1. host' \in HostState
      BY <1>3 DEF TypeOK, onWelcome, HostState
    <2> QED BY <1>2, <1>3, <2>1 DEF TypeOK, onWelcome
  <1>4. CASE onDisconnect
    BY <1>4, StopRuntimeType DEF TypeOK, onDisconnect
  <1>5. CASE onRecover
    <2>1. j \in Jobs
      BY <1>2, <1>5, GatewayFrameJob DEF onRecover, Arriving, f
    <2>2. toGateway' \in Seq(HostFrame)
      BY <1>5, <2>1, ReceiptMessageType, SendToGatewayType DEF TypeOK, onRecover, f
    <2> QED BY <1>2, <1>5, <2>2 DEF TypeOK, onRecover
  <1>6. CASE acknowledge
    <2>1. receipts' \in [Jobs -> ReceiptState]
      BY <1>6 DEF TypeOK, acknowledge, ReceiptState
    <2> QED BY <1>2, <1>6, <2>1 DEF TypeOK, acknowledge
  <1> QED BY <1>3, <1>4, <1>5, <1>6

\* The daemon accepts, refuses, runs and answers requests.
LEMMA TypeHostJobStep ==
  ASSUME TypeOK, NEW j \in Jobs, HostJobStep(j)
  PROVE  TypeOK'
  <1> USE DEF dbVars, gatewayVars, wire, hostVars, history
  <1>0. /\ [type |-> "accepted", job |-> j] \in HostFrame
        /\ \A r \in Result : [type |-> "response", job |-> j, result |-> r] \in HostFrame
        /\ ReceiptMessage(j) \in HostFrame
    BY ReceiptMessageType DEF HostFrame
  <1>1. ASSUME Request(j) PROVE toHost' \in Seq(GatewayFrame)
    BY <1>1, HeadTail DEF TypeOK, Request, Arriving
  <1>2. CASE acceptNew(j)
    <2>1. tasks' \in [Jobs -> TaskState] /\ starts' \in [Jobs -> Nat]
      BY <1>2 DEF TypeOK, acceptNew, StartTask, TaskState
    <2>2. toGateway' \in Seq(HostFrame)
      BY <1>0, <1>2, SendToGatewayType DEF TypeOK, acceptNew
    <2>3. receipts' \in [Jobs -> ReceiptState] /\ attached' \subseteq Jobs
      BY <1>2 DEF TypeOK, acceptNew, ReceiptState
    <2> QED BY <1>1, <1>2, <2>1, <2>2, <2>3 DEF TypeOK, acceptNew
  <1>3. CASE acceptFull(j)
    <2>1. toGateway' \in Seq(HostFrame)
      BY <1>0, <1>3, SendToGatewayType DEF TypeOK, acceptFull, Result
    <2> QED BY <1>1, <1>3, <2>1 DEF TypeOK, acceptFull
  <1>4. CASE reap(j)
    <2>1. tasks' \in [Jobs -> TaskState]
      BY <1>4 DEF TypeOK, reap, TaskState
    <2> QED BY <1>4, <2>1 DEF TypeOK, reap
  <1>5. CASE next_response(j)
    <2>1. toGateway' \in Seq(HostFrame)
      BY <1>0, <1>5, SendToGatewayType DEF TypeOK, next_response
    <2> QED BY <1>5, <2>1 DEF TypeOK, next_response
  <1>6. ASSUME NEW r \in Result, complete(j, r) PROVE TypeOK'
    <2>1. tasks' \in [Jobs -> TaskState] /\ outcome' \in [Jobs -> {"none"} \cup Result]
      BY <1>6 DEF TypeOK, complete, TaskState
    <2>2. toGateway' \in Seq(HostFrame)
      BY <1>0, <1>6, SendToGatewayType DEF TypeOK, complete
    <2>3. receipts' \in [Jobs -> ReceiptState] /\ attached' \subseteq Jobs
      BY <1>6 DEF TypeOK, complete, ReceiptState
    <2> QED BY <1>6, <2>1, <2>2, <2>3 DEF TypeOK, complete
  <1> QED BY <1>2, <1>3, <1>4, <1>5, <1>6 DEF HostJobStep

\* Every step keeps every variable in its type.
LEMMA TypeStep == TypeOK /\ [Next]_vars => TypeOK'
  <1>1. CASE UNCHANGED vars
    BY <1>1 DEF TypeOK, vars, dbVars, gatewayVars, wire, hostVars, history
  <1>2. ASSUME TypeOK, Next PROVE TypeOK'
    BY <1>2, TypeAdministration, TypeSession, TypeJobStep, TypeIncoming,
       TypeGatewayProcess, TypeHostProcess, TypeArriving, TypeHostJobStep
    DEF Next, GatewayStep, HostStep
  <1> QED BY <1>1, <1>2

\* Type correctness holds for every number of jobs and every limit: no step of
\* the gateway, the wire or the daemon leaves a row, session or frame of another
\* shape, so each status stored is one the jobs table admits.
THEOREM TypeCorrect == Spec => []TypeOK
  <1>1. Init => TypeOK
    BY TypeInit
  <1>2. TypeOK /\ [Next]_vars => TypeOK'
    BY TypeStep
  <1> QED BY <1>1, <1>2, PTL DEF Spec

-----------------------------------------------------------------------------
(* At most one start.  RequestsAreFresh is inductive with the types: only    *)
(* dispatch_next sends a request and only acceptNew starts one; every other  *)
(* step is Quiet.                                                            *)

Quiet ==
  /\ UNCHANGED starts
  /\ \A j \in Jobs : job'[j].status \in Unclaimed => job[j].status \in Unclaimed
  /\ \/ toHost' \in {toHost, <<>>}
     \/ toHost # <<>> /\ toHost' = Tail(toHost)
     \/ \E f \in GatewayFrame : f.type # "request" /\ toHost' = Append(toHost, f)

\* A step that sends no request and starts nothing keeps requests fresh.
LEMMA QuietKeepsFresh ==
  ASSUME TypeOK, TypeOK', RequestsAreFresh, Quiet
  PROVE  RequestsAreFresh'
  <1>1. toHost \in Seq(GatewayFrame) /\ toHost' \in Seq(GatewayFrame)
    BY DEF TypeOK
  <1>2. CASE toHost' = toHost
    <2>1. Requested' = Requested
      BY <1>2 DEF Requested
    <2> QED BY <1>2, <2>1 DEF RequestsAreFresh, Quiet
  <1>3. CASE toHost' = <<>>
    <2>1. Requested' = {}
      BY <1>3 DEF Requested
    <2> QED BY <1>3, <2>1 DEF RequestsAreFresh, Quiet
  <1>4. CASE toHost # <<>> /\ toHost' = Tail(toHost)
    <2>1. /\ Len(toHost') = Len(toHost) - 1
          /\ \A i \in 1..Len(toHost') : i + 1 \in 1..Len(toHost) /\ toHost'[i] = toHost[i + 1]
      BY <1>1, <1>4
    <2>2. Requested' \subseteq Requested
      BY <2>1 DEF Requested
    <2>3. ASSUME NEW i \in 1..Len(toHost'), NEW k \in 1..Len(toHost'),
                 toHost'[i].type = "request", toHost'[k] = toHost'[i]
          PROVE  i = k
      <3>1. i + 1 = k + 1
        BY <2>1, <2>3 DEF RequestsAreFresh
      <3> QED BY <1>1, <3>1
    <2> QED BY <2>2, <2>3 DEF RequestsAreFresh, Quiet
  <1>5. ASSUME NEW f \in GatewayFrame, f.type # "request", toHost' = Append(toHost, f)
        PROVE  RequestsAreFresh'
    <2>1. /\ Len(toHost') = Len(toHost) + 1
          /\ \A i \in 1..Len(toHost) : toHost'[i] = toHost[i]
          /\ toHost'[Len(toHost) + 1] = f
          /\ Len(toHost) \in Nat
      BY <1>1, <1>5
    <2>2. \A i \in 1..Len(toHost') : toHost'[i].type = "request" => i \in 1..Len(toHost)
      BY <1>5, <2>1
    <2>3. Requested' \subseteq Requested
      BY <2>1, <2>2 DEF Requested
    <2>4. ASSUME NEW i \in 1..Len(toHost'), NEW k \in 1..Len(toHost'),
                 toHost'[i].type = "request", toHost'[k] = toHost'[i]
          PROVE  i = k
      BY <2>1, <2>2, <2>4 DEF RequestsAreFresh
    <2> QED BY <2>3, <2>4 DEF RequestsAreFresh, Quiet
  <1> QED BY <1>2, <1>3, <1>4, <1>5 DEF Quiet

\* dispatch_next sends the only request of a job that no host has started.
LEMMA DispatchKeepsFresh ==
  ASSUME TypeOK, TypeOK', RequestsAreFresh, NEW j \in Jobs, dispatch_next(j)
  PROVE  RequestsAreFresh'
  <1> DEFINE f == [type |-> "request", job |-> j]
  <1>1. toHost \in Seq(GatewayFrame) /\ toHost' \in Seq(GatewayFrame)
    BY DEF TypeOK
  <1>2. job[j].status = "queued" /\ UNCHANGED starts
    BY DEF dispatch_next, DispatchTick, Candidates, history
  <1>3. /\ job'[j].status = "dispatching"
        /\ \A i \in Jobs \ {j} : job'[i] = job[i]
    BY DEF dispatch_next, TypeOK, JobRow
  <1>4. starts[j] = 0 /\ j \notin Requested
    BY <1>2 DEF RequestsAreFresh, Unclaimed
  <1>5. toHost' = toHost \/ toHost' = Append(toHost, f)
    BY DEF dispatch_next, SendToHost
  <1>6. CASE toHost' = toHost
    <2>1. Requested' = Requested
      BY <1>6 DEF Requested
    <2> QED BY <1>2, <1>3, <1>6, <2>1 DEF RequestsAreFresh, Unclaimed
  <1>7. CASE toHost' = Append(toHost, f)
    <2>1. /\ Len(toHost') = Len(toHost) + 1
          /\ \A i \in 1..Len(toHost) : toHost'[i] = toHost[i] /\ toHost[i] # f
          /\ toHost'[Len(toHost) + 1] = f
          /\ Len(toHost) \in Nat
      BY <1>1, <1>4, <1>7 DEF Requested
    <2>2. Requested' \subseteq Requested \cup {j}
      BY <2>1 DEF Requested
    <2>3. ASSUME NEW i \in 1..Len(toHost'), NEW k \in 1..Len(toHost'),
                 toHost'[i].type = "request", toHost'[k] = toHost'[i]
          PROVE  i = k
      BY <2>1, <2>3 DEF RequestsAreFresh
    <2> QED BY <1>2, <1>3, <1>4, <2>2, <2>3 DEF RequestsAreFresh, Unclaimed
  <1> QED BY <1>5, <1>6, <1>7

\* acceptNew takes the only request of its job off the wire and starts it.
LEMMA AcceptKeepsFresh ==
  ASSUME TypeOK, TypeOK', RequestsAreFresh, NEW j \in Jobs, acceptNew(j)
  PROVE  /\ RequestsAreFresh'
         /\ starts[j] = 0
         /\ starts' = [starts EXCEPT ![j] = 1]
  <1>1. toHost \in Seq(GatewayFrame) /\ toHost # <<>> /\ toHost' = Tail(toHost)
    BY DEF TypeOK, acceptNew, Request, Arriving
  <1>2. toHost[1] = [type |-> "request", job |-> j] /\ 1 \in 1..Len(toHost)
    BY <1>1, HeadTail DEF acceptNew, Request, Arriving, GatewayFrame
  <1>3. starts[j] = 0 /\ job[j].status \notin Unclaimed
    BY <1>2 DEF RequestsAreFresh, Requested
  <1>4. starts' = [starts EXCEPT ![j] = 1] /\ UNCHANGED job
    BY <1>3 DEF acceptNew, StartTask, dbVars
  <1>5. /\ Len(toHost') = Len(toHost) - 1
        /\ \A i \in 1..Len(toHost') : i + 1 \in 1..Len(toHost) /\ toHost'[i] = toHost[i + 1]
    BY <1>1
  <1>6. \A i \in 1..Len(toHost') : toHost'[i] # toHost[1]
    BY <1>2, <1>5 DEF RequestsAreFresh
  <1>7. Requested' \subseteq Requested \ {j}
    BY <1>2, <1>5, <1>6 DEF Requested
  <1>8. ASSUME NEW i \in 1..Len(toHost'), NEW k \in 1..Len(toHost'),
               toHost'[i].type = "request", toHost'[k] = toHost'[i]
        PROVE  i = k
    <2>1. i + 1 = k + 1
      BY <1>5, <1>8 DEF RequestsAreFresh
    <2> QED BY <1>1, <2>1
  <1>9. \A i \in Jobs \ {j} : starts'[i] = starts[i]
    BY <1>4 DEF TypeOK
  <1>10. \A i \in Jobs : job'[i].status \in Unclaimed => starts'[i] = 0 /\ i \notin Requested'
    BY <1>3, <1>4, <1>7, <1>9 DEF RequestsAreFresh
  <1>11. \A i \in Requested' : starts'[i] = 0
    BY <1>7, <1>9 DEF RequestsAreFresh, Requested
  <1> QED BY <1>3, <1>4, <1>8, <1>10, <1>11 DEF RequestsAreFresh

-----------------------------------------------------------------------------
(* What a step may do to a row: a job that left the queue does not return, a *)
(* terminal row stays as it is, and only work in flight has a deadline.      *)

Timed(row) == row.deadline # "none" => row.status \in InflightStatus

RowForward(old, new) ==
  /\ new.status \in Unclaimed => old.status \in Unclaimed
  /\ terminal(old.status) => new = old
  /\ Timed(new)

TableForward == \A i \in Jobs : RowForward(job[i], job'[i])

\* finish_tx moves its row forward.
LEMMA FinishedRowForward ==
  ASSUME NEW row \in JobRow, Timed(row), NEW s \in TerminalStatus, NEW c \in Code
  PROVE  RowForward(row, FinishedRow(row, s, c))
  BY DEF RowForward, Timed, FinishedRow, JobRow, Unclaimed, terminal, InflightStatus,
         TerminalStatus

\* A response, timely, late or repeated, moves its row forward.
LEMMA ResponseRowForward ==
  ASSUME NEW row \in JobRow, Timed(row), NEW r
  PROVE  RowForward(row, ResponseRow(row, r))
  BY FinishedRowForward DEF ResponseRow, TerminalStatus, Code

\* An accepted frame moves its row forward.
LEMMA AcceptedRowForward ==
  ASSUME NEW row \in JobRow, Timed(row)
  PROVE  RowForward(row, AcceptedRow(row))
  BY DEF RowForward, Timed, AcceptedRow, JobRow, Unclaimed, terminal, InflightStatus,
         TerminalStatus

\* Arming the deadline of work in flight moves its row forward.
LEMMA ArmedForward ==
  ASSUME NEW row \in JobRow, row.status \in InflightStatus
  PROVE  RowForward(row, Armed(row))
  BY DEF RowForward, Timed, Armed, JobRow, Unclaimed, terminal, InflightStatus,
         TerminalStatus

\* A row that is left alone moves forward.
LEMMA SameRowForward ==
  ASSUME NEW row, Timed(row)
  PROVE  RowForward(row, row)
  BY DEF RowForward

\* So does the table when one of its rows does.
LEMMA OneRowForward ==
  ASSUME TypeOK, DeadlineOnlyInflight, NEW j \in Jobs, NEW new,
         RowForward(job[j], new), job' = [job EXCEPT ![j] = new]
  PROVE  TableForward
  <1>1. \A i \in Jobs : Timed(job[i])
    BY DEF DeadlineOnlyInflight, Timed, Inflight
  <1>2. job'[j] = new /\ \A i \in Jobs \ {j} : job'[i] = job[i]
    BY DEF TypeOK
  <1> QED BY <1>1, <1>2, SameRowForward DEF TableForward

\* finish moves the table forward.
LEMMA FinishForward ==
  ASSUME TypeOK, DeadlineOnlyInflight, NEW j \in Jobs, NEW s \in TerminalStatus,
         NEW c \in Code, finish(j, s, c)
  PROVE  TableForward
  <1>1. job[j] \in JobRow /\ Timed(job[j])
    BY DEF TypeOK, DeadlineOnlyInflight, Timed, Inflight
  <1>2. RowForward(job[j], FinishedRow(job[j], s, c))
    BY <1>1, FinishedRowForward
  <1> QED BY <1>2, OneRowForward DEF finish

\* Every step moves the table forward.
LEMMA StepMovesForward ==
  ASSUME TypeOK, DeadlineOnlyInflight, [Next]_vars
  PROVE  TableForward
  <1> USE DEF dbVars
  <1>0. /\ {"failed", "unknown"} \subseteq TerminalStatus
        /\ \A i \in Jobs : job[i] \in JobRow /\ Timed(job[i])
    BY DEF TerminalStatus, TypeOK, DeadlineOnlyInflight, Timed, Inflight
  <1>1. ASSUME UNCHANGED job PROVE TableForward
    BY <1>0, <1>1, SameRowForward DEF TableForward
  <1>2. ASSUME NEW j \in Jobs, submit(j) PROVE TableForward
    <2> DEFINE row == [job[j] EXCEPT !.status = "queued",
                         !.expected = IF j \in PinnedJobs THEN session.gen ELSE 0]
    <2>1. job' = [job EXCEPT ![j] = row]
      BY <1>2 DEF submit
    <2>2. job[j].status = "absent"
      BY <1>2 DEF submit
    <2>3. RowForward(job[j], row)
      BY <1>0, <2>2 DEF RowForward, Timed, JobRow, Unclaimed, terminal, InflightStatus,
                        TerminalStatus
    <2> QED BY <2>1, <2>3, OneRowForward
  <1>3. ASSUME NEW j \in Jobs, dispatch_next(j) PROVE TableForward
    <2> DEFINE row == [job[j] EXCEPT !.status = "dispatching",
                         !.generation = session.gen, !.recovery = session.recovery]
    <2>1. job' = [job EXCEPT ![j] = row]
      BY <1>3 DEF dispatch_next
    <2>2. job[j].status = "queued"
      BY <1>3 DEF dispatch_next, DispatchTick, Candidates
    <2>3. RowForward(job[j], row)
      BY <1>0, <2>2 DEF RowForward, Timed, JobRow, Unclaimed, terminal, InflightStatus,
                        TerminalStatus
    <2> QED BY <2>1, <2>3, OneRowForward
  <1>4. ASSUME NEW j \in Jobs, deadlinePasses(j) PROVE TableForward
    <2> DEFINE row == [job[j] EXCEPT !.deadline = "expired"]
    <2>1. job' = [job EXCEPT ![j] = row]
      BY <1>4 DEF deadlinePasses
    <2>2. job[j].status \in InflightStatus
      BY <1>0, <1>4 DEF deadlinePasses, Timed
    <2>3. RowForward(job[j], row)
      BY <1>0, <2>2 DEF RowForward, Timed, JobRow, Unclaimed, terminal, InflightStatus,
                        TerminalStatus
    <2> QED BY <2>1, <2>3, OneRowForward
  <1>5. CASE response \/ accepted \/ missing
    <2> DEFINE f == Head(toGateway)
    <2>1. f \in HostFrame
      BY <1>5, HeadTail DEF response, accepted, missing, Incoming, TypeOK
    <2>2. f.job \in Jobs
      BY <2>1, HostFrameJob
    <2>3. \/ UNCHANGED job
          \/ job' = [job EXCEPT ![f.job] = ResponseRow(job[f.job], f.result)]
          \/ job' = [job EXCEPT ![f.job] = AcceptedRow(job[f.job])]
          \/ finish(f.job, "unknown", "receipt_missing")
      BY <1>5 DEF response, accepted, missing
    <2> HIDE DEF f
    <2>4. "receipt_missing" \in Code
      BY DEF Code
    <2> QED BY <1>0, <1>1, <2>2, <2>3, <2>4, FinishForward, ResponseRowForward,
               AcceptedRowForward, OneRowForward
  <1>6. CASE disconnected
    <2>1. \A i \in Jobs : RowForward(job[i], DisconnectedRow(job[i]))
      BY <1>0, ArmedForward, SameRowForward DEF DisconnectedRow
    <2> QED BY <1>6, <2>1 DEF disconnected, TableForward
  <1>7. CASE recover_inflight
    BY <1>0, <1>7, ArmedForward, SameRowForward
    DEF recover_inflight, Inflight, TableForward
  <1>8. ASSUME NEW j \in Jobs, GatewayJobStep(j) PROVE TableForward
    <2>1. session.plan[j] \in Code
      BY DEF TypeOK, SessionState
    <2>2. dispatch_next(j) \/ \E s \in TerminalStatus, c \in Code : finish(j, s, c)
      BY <1>0, <1>8, <2>1 DEF GatewayJobStep, reconnectFinish, dispatchRejected,
         connectionLost, housekeepQueued, housekeepInflight, recoverUnknown, Code
    <2> QED BY <1>3, <2>2, FinishForward
  <1>9. ASSUME NEW j \in Jobs, HostJobStep(j) PROVE UNCHANGED job
    BY <1>9 DEF HostJobStep, acceptNew, acceptFull, reap, next_response, complete
  <1>10. ASSUME Administration \/ HostStep PROVE UNCHANGED job
    BY <1>10 DEF Administration, HostStep, setEnabled, register, remove, upgrade,
       upgradeRejected, hello, hostStarts, hostCrashes, hostDisconnects, onWelcome,
       onDisconnect, onRecover, acknowledge
  <1>11. CASE GatewayStep
    <2>1. \/ response \/ accepted \/ missing \/ disconnected \/ recover_inflight
          \/ UNCHANGED job
      BY <1>11 DEF GatewayStep, revoke, reconnect, welcome, sendRecover, heartbeat,
         revoked, sessionLost, leave, missingFails, gatewayStops, serve
    <2> QED BY <1>1, <1>5, <1>6, <1>7, <2>1
  <1>12. CASE UNCHANGED vars
    BY <1>1, <1>12 DEF vars
  <1> QED
    BY <1>1, <1>2, <1>4, <1>8, <1>9, <1>10, <1>11, <1>12 DEF Next

\* Only dispatch_next sends a request, and only acceptNew starts one.
LEMMA StepQuiet ==
  ASSUME TypeOK, DeadlineOnlyInflight, [Next]_vars
  PROVE  Quiet \/ \E j \in Jobs : dispatch_next(j) \/ acceptNew(j)
  <1> USE DEF dbVars, gatewayVars, wire, hostVars, history
  <1> DEFINE Kept == toHost' \in {toHost, <<>>}
             Taken == toHost # <<>> /\ toHost' = Tail(toHost)
             Sent == \E f \in GatewayFrame : f.type # "request" /\ toHost' = Append(toHost, f)
  <1>1. \A j \in Jobs : job'[j].status \in Unclaimed => job[j].status \in Unclaimed
    BY StepMovesForward DEF TableForward, RowForward
  <1>2. SUFFICES ASSUME ~\E j \in Jobs : dispatch_next(j) \/ acceptNew(j)
                 PROVE  UNCHANGED starts /\ (Kept \/ Taken \/ Sent)
    BY <1>1 DEF Quiet
  <1>3. ASSUME NEW f \in GatewayFrame, f.type # "request", SendToHost(f)
        PROVE  Kept \/ Sent
    BY <1>3 DEF SendToHost
  <1>4. CASE UNCHANGED vars
    BY <1>4 DEF vars
  <1>5. CASE Administration
    BY <1>5 DEF Administration, setEnabled, register, remove
  <1>6. ASSUME NEW j \in Jobs, submit(j) \/ deadlinePasses(j) \/ GatewayJobStep(j)
        PROVE  UNCHANGED starts /\ Kept
    BY <1>2, <1>6 DEF submit, deadlinePasses, GatewayJobStep, reconnectFinish,
       dispatchRejected, connectionLost, housekeepQueued, housekeepInflight, recoverUnknown
  <1>7. ASSUME NEW j \in Jobs, HostJobStep(j) PROVE UNCHANGED starts /\ (Kept \/ Taken)
    <2>1. acceptFull(j) \/ reap(j) \/ next_response(j) \/ \E r \in Result : complete(j, r)
      BY <1>2, <1>7 DEF HostJobStep
    <2>2. CASE acceptFull(j)
      BY <2>2 DEF acceptFull, Request, Arriving
    <2>3. CASE reap(j) \/ next_response(j) \/ \E r \in Result : complete(j, r)
      BY <2>3 DEF reap, next_response, complete
    <2> QED BY <2>1, <2>2, <2>3
  <1>8. CASE HostStep
    <2>1. CASE upgrade \/ hello \/ hostStarts \/ hostDisconnects
      BY <2>1 DEF upgrade, hello, hostStarts, hostDisconnects
    <2>2. CASE upgradeRejected \/ hostCrashes \/ onDisconnect
      BY <2>2 DEF upgradeRejected, hostCrashes, onDisconnect, StopRuntime
    <2>3. CASE onWelcome \/ onRecover \/ acknowledge
      BY <2>3 DEF onWelcome, onRecover, acknowledge, Arriving
    <2> QED BY <1>8, <2>1, <2>2, <2>3 DEF HostStep
  <1>9. CASE GatewayStep
    <2>1. CASE \/ revoke \/ reconnect \/ accepted \/ missing \/ heartbeat \/ sessionLost
               \/ missingFails \/ disconnected \/ leave \/ gatewayStops \/ recover_inflight
               \/ serve
      BY <2>1 DEF revoke, reconnect, accepted, missing, heartbeat, sessionLost,
         missingFails, disconnected, leave, gatewayStops, recover_inflight, serve
    <2>2. CASE welcome
      BY <1>3, <2>2 DEF welcome, GatewayFrame
    <2>3. CASE sendRecover
      <3>1. session.pending \subseteq Jobs
        BY DEF TypeOK, SessionState
      <3> QED BY <1>3, <2>3, <3>1 DEF sendRecover, GatewayFrame
    <2>4. CASE revoked
      BY <1>3, <2>4 DEF revoked, GatewayFrame
    <2>5. CASE response
      <3>1. Head(toGateway).job \in Jobs
        BY <2>5, HeadTail, HostFrameJob DEF response, Incoming, TypeOK
      <3> QED BY <1>3, <2>5, <3>1 DEF response, GatewayFrame
    <2> QED BY <1>9, <2>1, <2>2, <2>3, <2>4, <2>5 DEF GatewayStep
  <1> QED BY <1>4, <1>5, <1>6, <1>7, <1>8, <1>9 DEF Next

-----------------------------------------------------------------------------
(* The theorems. *)

DispatchInv == TypeOK /\ DeadlineOnlyInflight /\ RequestsAreFresh /\ AtMostOnce

\* DispatchInv is inductive.
LEMMA DispatchInvStep == DispatchInv /\ [Next]_vars => DispatchInv'
  <1> SUFFICES ASSUME DispatchInv, [Next]_vars PROVE DispatchInv'
    OBVIOUS
  <1>1. TypeOK /\ DeadlineOnlyInflight /\ RequestsAreFresh /\ AtMostOnce
    BY DEF DispatchInv
  <1>2. TypeOK'
    BY <1>1, TypeStep
  <1>3. DeadlineOnlyInflight'
    <2>1. TableForward
      BY <1>1, StepMovesForward
    <2> QED BY <2>1 DEF TableForward, RowForward, Timed, DeadlineOnlyInflight, Inflight
  <1>4. CASE Quiet
    <2>1. RequestsAreFresh'
      BY <1>1, <1>2, <1>4, QuietKeepsFresh
    <2>2. AtMostOnce'
      BY <1>1, <1>4 DEF Quiet, AtMostOnce
    <2> QED BY <1>2, <1>3, <2>1, <2>2 DEF DispatchInv
  <1>5. ASSUME NEW j \in Jobs, dispatch_next(j) PROVE DispatchInv'
    <2>1. RequestsAreFresh'
      BY <1>1, <1>2, <1>5, DispatchKeepsFresh
    <2>2. AtMostOnce'
      BY <1>1, <1>5 DEF dispatch_next, history, AtMostOnce
    <2> QED BY <1>2, <1>3, <2>1, <2>2 DEF DispatchInv
  <1>6. ASSUME NEW j \in Jobs, acceptNew(j) PROVE DispatchInv'
    <2>1. RequestsAreFresh' /\ starts' = [starts EXCEPT ![j] = 1]
      BY <1>1, <1>2, <1>6, AcceptKeepsFresh
    <2>2. AtMostOnce'
      BY <1>1, <2>1 DEF AtMostOnce, TypeOK
    <2> QED BY <1>2, <1>3, <2>1, <2>2 DEF DispatchInv
  <1> QED BY <1>1, <1>4, <1>5, <1>6, StepQuiet

\* DispatchInv holds initially.
LEMMA DispatchInvInit == Init => DispatchInv
  <1> SUFFICES ASSUME Init PROVE DispatchInv
    OBVIOUS
  <1>1. TypeOK
    BY TypeInit
  <1>2. DeadlineOnlyInflight
    BY DEF Init, DeadlineOnlyInflight, NoRow
  <1>3. RequestsAreFresh
    BY DEF Init, RequestsAreFresh, Requested
  <1>4. AtMostOnce
    BY DEF Init, AtMostOnce
  <1> QED BY <1>1, <1>2, <1>3, <1>4 DEF DispatchInv

\* It holds in every reachable state.
LEMMA DispatchInvariant == Spec => []DispatchInv
  BY DispatchInvInit, DispatchInvStep, PTL DEF Spec

\* dispatch_next claims only queued work, no step returns a job to the queue and a
\* request frame reaches at most one acceptance, so whatever crashes, reconnects
\* and recoveries happen, no job's work is started twice.
THEOREM AtMostOnceAlways == Spec => []AtMostOnce
  <1>1. DispatchInv => AtMostOnce
    BY DEF DispatchInv
  <1> QED BY <1>1, DispatchInvariant, PTL

\* A request on the wire is the only one of its job and its work has not started.
THEOREM RequestsAlwaysFresh == Spec => []RequestsAreFresh
  <1>1. DispatchInv => RequestsAreFresh
    BY DEF DispatchInv
  <1> QED BY <1>1, DispatchInvariant, PTL

\* No deadline runs over a job that has ended or is still queued.
THEOREM DeadlinesOnlyInflight == Spec => []DeadlineOnlyInflight
  <1>1. DispatchInv => DeadlineOnlyInflight
    BY DEF DispatchInv
  <1> QED BY <1>1, DispatchInvariant, PTL

\* Terminal jobs are immutable: no response, deadline, restart or reconnect
\* changes a row once finish_tx has ended it.
THEOREM TerminalForever == Spec => TerminalImmutable
  <1>1. DispatchInv /\ [Next]_vars
        => [\A j \in Jobs : terminal(job[j].status) => job'[j] = job[j]]_vars
    BY StepMovesForward DEF DispatchInv, TableForward, RowForward
  <1> QED BY <1>1, DispatchInvariant, PTL DEF Spec, TerminalImmutable

-----------------------------------------------------------------------------
(* The second part.  Its invariant speaks of facts that, once true of a     *)
(* job, stay true: that it was claimed, has started, has ended, will never  *)
(* start.  What the frames, the receipts and the session know of a job is   *)
(* made of these.                                                           *)

Claimed(j) == job[j].status \notin Unclaimed

\* The work has not started and never will.
GivenUp(j) == Claimed(j) /\ starts[j] = 0 /\ j \notin Requested

\* Nothing of the job is on its way to a start, and if it has not started its
\* recovery deadline runs until it ends.
Recovering(j) ==
  /\ Claimed(j) /\ j \notin Requested
  /\ starts[j] = 0 /\ Inflight(j) => job[j].deadline # "none"

Frames(q) == {q[i] : i \in 1..Len(q)}

-----------------------------------------------------------------------------
(* The host: what a process holds is of this process. *)

WorkIsRecorded ==
  \A j \in Jobs :
    /\ starts[j] = 0 => /\ outcome[j] = "none" /\ tasks[j] = "none"
                        /\ receipts[j] = "none" /\ j \notin attached
    /\ tasks[j] = "running" => outcome[j] = "none"
    /\ receipts[j] \in Result => outcome[j] = receipts[j]

HostHoldsItsOwn ==
  /\ \A j \in Jobs :
       tasks[j] # "none" \/ receipts[j] # "none" \/ j \in attached
       => job[j].generation = host.gen /\ host.conn # "down"
  /\ ~Connected => attached = {} /\ toHost = <<>>

GenerationsKnown ==
  /\ host.gen = 0 => ~host.recovery
  /\ \A j \in Jobs :
       /\ job[j].generation <= host.gen
       /\ job[j].generation = host.gen => job[j].recovery = host.recovery
       /\ ~Claimed(j) => job[j].generation = 0 /\ ~job[j].recovery

-----------------------------------------------------------------------------
(* The session, and the host it was made with. *)

SessionIsOfHost ==
  /\ gateway # "up" => session.phase = "none"
  /\ session.phase # "none" =>
       /\ session.gen <= host.gen
       /\ session.gen = host.gen => session.recovery = host.recovery
       /\ Connected => session.gen = host.gen
  /\ session.phase \in {"hello", "reconciling"} =>
       /\ toHost = <<>> /\ toGateway = <<>> /\ attached = {} /\ host.conn # "on"
       /\ session.pending = {}
  /\ session.phase \in {"none", "hello"} => session.recovering = {} /\ Planned = {}
  /\ ~Listening => toGateway = <<>>

SessionKnowsJobs ==
  \A j \in Jobs :
    /\ session.plan[j] \in {"none", "recovery_unavailable", "runtime_replaced"}
    /\ session.plan[j] # "none" => Claimed(j)
    /\ j \in session.pending \cup session.recovering =>
         /\ Claimed(j) /\ job[j].generation = session.gen
         /\ job[j].recovery = session.recovery
    /\ j \in session.recovering => session.recovery /\ Recovering(j)

-----------------------------------------------------------------------------
(* The wire: what a frame says is true, and stays true while it travels. *)

ToHostIsTrue ==
  \A f \in Frames(toHost) :
    /\ f.type \in {"request", "recover"} =>
         Claimed(f.job) /\ job[f.job].generation = host.gen
    /\ f.type = "recover" => host.recovery /\ Recovering(f.job)
    /\ f.type = "acknowledge" => terminal(job[f.job].status)

ToGatewayIsTrue ==
  \A f \in Frames(toGateway) :
    /\ Claimed(f.job) /\ job[f.job].generation = session.gen
    /\ f.type = "response" =>
         outcome[f.job] = f.result \/ (f.result = "err" /\ GivenUp(f.job))
    /\ f.type = "accepted" => starts[f.job] > 0
    /\ f.type = "missing" =>
         /\ session.recovery /\ Recovering(f.job)
         /\ starts[f.job] = 0 \/ terminal(job[f.job].status)

\* Without receipts an answer is written once, for a job that is pending.
AnsweredOnce ==
  session.phase = "ready" /\ ~session.recovery =>
    /\ attached \cup Requested \subseteq session.pending
    /\ \A i, k \in 1..Len(toGateway) :
         toGateway[i].type = "response" /\ toGateway[k].type = "response"
         /\ toGateway[i].job = toGateway[k].job => i = k
    /\ \A f \in Frames(toGateway) :
         f.type = "response" =>
           f.job \in session.pending /\ f.job \notin attached \cup Requested

-----------------------------------------------------------------------------
(* The rows. *)

RowsAreHonest ==
  \A j \in Jobs :
    /\ job[j].status = "succeeded" => outcome[j] = "ok"
    /\ job[j].status = "failed" => outcome[j] = "err" \/ GivenUp(j)
    /\ job[j].code \in NeverRanCodes => GivenUp(j) /\ terminal(job[j].status)

InflightIsWatched ==
  \A j \in Jobs : Inflight(j) =>
    /\ session.phase = "reconciling" => j \in session.recovering \/ session.plan[j] # "none"
    /\ session.phase = "ready" => j \in session.pending
    /\ gateway = "up" /\ job[j].deadline = "none" =>
         session.phase \in {"ready", "closing"} /\ j \in session.pending
    /\ gateway = "recovering" /\ job[j].recovery => job[j].deadline # "none"

Fits(S) ==
  /\ Cardinality(S \ ControlJobs) <= MaxPendingRequests
  /\ Cardinality(S) <= MaxPendingRequests + ReservedControlRequests

SlotsFit ==
  Fits({j \in Jobs : Inflight(j)}) /\ Fits(session.pending) /\ Fits(session.recovering)

SafetyInv ==
  /\ DispatchInv
  /\ WorkIsRecorded /\ HostHoldsItsOwn /\ GenerationsKnown
  /\ SessionIsOfHost /\ SessionKnowsJobs
  /\ ToHostIsTrue /\ ToGatewayIsTrue /\ AnsweredOnce
  /\ RowsAreHonest /\ ReceiptHeldUntilDurable /\ InflightIsWatched /\ SlotsFit

-----------------------------------------------------------------------------
(* Frames of a queue that grows, shrinks or is lost. *)

\* A frame written to a socket is behind the others.
LEMMA FramesAppend ==
  ASSUME NEW S, NEW q \in Seq(S), NEW f \in S
  PROVE  Frames(Append(q, f)) = Frames(q) \cup {f}
  <1>1. Len(Append(q, f)) = Len(q) + 1 /\ Len(q) \in Nat
    OBVIOUS
  <1>2. \A i \in 1..Len(q) : Append(q, f)[i] = q[i]
    OBVIOUS
  <1>3. Append(q, f)[Len(q) + 1] = f
    OBVIOUS
  <1>4. 1..(Len(q) + 1) = 1..Len(q) \cup {Len(q) + 1}
    BY <1>1
  <1> HIDE DEF Frames
  <1>5. ASSUME NEW g \in Frames(Append(q, f)) PROVE g \in Frames(q) \cup {f}
    BY <1>1, <1>2, <1>3, <1>4 DEF Frames
  <1>6. ASSUME NEW g \in Frames(q) \cup {f} PROVE g \in Frames(Append(q, f))
    <2>1. CASE g \in Frames(q)
      <3>1. PICK i \in 1..Len(q) : g = q[i]
        BY <2>1 DEF Frames
      <3> QED BY <1>1, <1>2, <1>4, <3>1 DEF Frames
    <2>2. CASE g = f
      <3>1. Len(q) + 1 \in 1..Len(Append(q, f))
        BY <1>1
      <3> QED BY <1>3, <2>2, <3>1 DEF Frames
    <2> QED BY <1>6, <2>1, <2>2
  <1> QED BY <1>5, <1>6

\* The frame that is read was there, and the others stay.
LEMMA FramesTail ==
  ASSUME NEW S, NEW q \in Seq(S), q # <<>>
  PROVE  Head(q) \in Frames(q) /\ Frames(Tail(q)) \subseteq Frames(q)
  <1>1. Len(q) \in Nat \ {0} /\ Head(q) = q[1]
    OBVIOUS
  <1>2. /\ Len(Tail(q)) = Len(q) - 1
        /\ \A i \in 1..Len(Tail(q)) : i + 1 \in 1..Len(q) /\ Tail(q)[i] = q[i + 1]
    BY <1>1
  <1> QED BY <1>1, <1>2 DEF Frames

\* Nothing is on a new connection.
LEMMA FramesNone == Frames(<<>>) = {}
  BY DEF Frames

\* What is on its way is a frame of the protocol.
LEMMA FramesType ==
  ASSUME NEW S, NEW q \in Seq(S)
  PROVE  Frames(q) \subseteq S
  BY DEF Frames

\* A job is requested when its request is among the frames.
LEMMA RequestedFrames ==
  ASSUME NEW j \in Jobs
  PROVE  j \in Requested <=> [type |-> "request", job |-> j] \in Frames(toHost)
  BY DEF Requested, Frames

-----------------------------------------------------------------------------
(* What a step may do to a row, a start, an outcome and a request. *)

\* The codes of an end that is not known to have been one.
LostCodes == {"recovery_unavailable", "runtime_replaced", "gateway_restarted",
              "connection_lost"}

ByFrame(i) ==
  /\ session.phase = "ready" /\ toGateway # <<>> /\ i = Head(toGateway).job
  /\ \/ /\ response /\ ResponseMatches(i) /\ Head(toGateway).type = "response"
        /\ job'[i] = ResponseRow(job[i], Head(toGateway).result)
     \/ /\ accepted /\ i \in session.pending /\ Head(toGateway).type = "accepted"
        /\ job'[i] = AcceptedRow(job[i])
     \/ /\ missing /\ i \in session.pending /\ Head(toGateway).type = "missing"
        /\ job'[i] = FinishedRow(job[i], "unknown", "receipt_missing")

ByFinish(i) ==
  \/ /\ job[i].status = "queued"
     /\ \E c \in NeverRanCodes : job'[i] = FinishedRow(job[i], "failed", c)
  \/ /\ Inflight(i) \/ i \in Planned \cup session.pending
     /\ \E c \in LostCodes \cup {session.plan[i]} :
          c # "none" /\ job'[i] = FinishedRow(job[i], "unknown", c)

ByClock(i) ==
  \/ deadlinePasses(i) /\ job'[i] = [job[i] EXCEPT !.deadline = "expired"]
  \/ Inflight(i) /\ job'[i] = Armed(job[i])

\* Every change of a row is of one of these kinds.
RowStep(i) ==
  \/ job'[i] = job[i]
  \/ submit(i) /\ job[i].status = "absent" /\ job'[i].status = "queued"
     /\ job'[i].generation = job[i].generation /\ job'[i].recovery = job[i].recovery
     /\ job'[i].deadline = job[i].deadline /\ job'[i].code = job[i].code
  \/ dispatch_next(i) /\ job[i].status = "queued"
     /\ job'[i] = [job[i] EXCEPT !.status = "dispatching", !.generation = session.gen,
                                 !.recovery = session.recovery]
  \/ ByFrame(i) \/ ByFinish(i) \/ ByClock(i)

\* An update of one row leaves the others.
LEMMA OneRow ==
  ASSUME TypeOK, NEW j \in Jobs, NEW row, job' = [job EXCEPT ![j] = row]
  PROVE  job'[j] = row /\ \A i \in Jobs \ {j} : job'[i] = job[i]
  BY DEF TypeOK

\* The rows, by action.
LEMMA RowSteps ==
  ASSUME TypeOK, [Next]_vars
  PROVE  \A i \in Jobs : RowStep(i)
  <1> USE DEF dbVars
  <1>1. ASSUME UNCHANGED job PROVE \A i \in Jobs : RowStep(i)
    BY <1>1 DEF RowStep
  <1>2. ASSUME NEW j \in Jobs, submit(j) PROVE \A i \in Jobs : RowStep(i)
    <2> DEFINE row == [job[j] EXCEPT !.status = "queued",
                         !.expected = IF j \in PinnedJobs THEN session.gen ELSE 0]
    <2>1. job' = [job EXCEPT ![j] = row] /\ job[j].status = "absent"
      BY <1>2 DEF submit
    <2>2. job'[j] = row /\ \A i \in Jobs \ {j} : job'[i] = job[i]
      BY <2>1, OneRow
    <2>3. job[j] \in JobRow
      BY DEF TypeOK
    <2>4. RowStep(j)
      BY <1>2, <2>1, <2>2, <2>3 DEF RowStep, JobRow
    <2> QED BY <2>2, <2>4 DEF RowStep
  <1>3. ASSUME NEW j \in Jobs, dispatch_next(j) PROVE \A i \in Jobs : RowStep(i)
    <2> DEFINE row == [job[j] EXCEPT !.status = "dispatching",
                         !.generation = session.gen, !.recovery = session.recovery]
    <2>1. job' = [job EXCEPT ![j] = row] /\ job[j].status = "queued"
      BY <1>3 DEF dispatch_next, DispatchTick, Candidates
    <2>2. job'[j] = row /\ \A i \in Jobs \ {j} : job'[i] = job[i]
      BY <2>1, OneRow
    <2> QED BY <1>3, <2>1, <2>2 DEF RowStep
  <1>4. ASSUME NEW j \in Jobs, deadlinePasses(j) PROVE \A i \in Jobs : RowStep(i)
    <2> DEFINE row == [job[j] EXCEPT !.deadline = "expired"]
    <2>1. job' = [job EXCEPT ![j] = row]
      BY <1>4 DEF deadlinePasses
    <2>2. job'[j] = row /\ \A i \in Jobs \ {j} : job'[i] = job[i]
      BY <2>1, OneRow
    <2> QED BY <1>4, <2>2 DEF RowStep, ByClock
  <1>5. CASE response \/ accepted \/ missing
    <2> DEFINE f == Head(toGateway)
    <2>1. f \in HostFrame /\ session.phase = "ready" /\ toGateway # <<>>
      BY <1>5, HeadTail DEF response, accepted, missing, Incoming, TypeOK
    <2>2. f.job \in Jobs
      BY <2>1, HostFrameJob
    <2>3. CASE response
      <3>1. CASE ResponseMatches(f.job)
        <4>1. job' = [job EXCEPT ![f.job] = ResponseRow(job[f.job], f.result)]
              /\ f.type = "response"
          BY <2>3, <3>1 DEF response, Incoming
        <4>2. /\ job'[f.job] = ResponseRow(job[f.job], f.result)
              /\ \A i \in Jobs \ {f.job} : job'[i] = job[i]
          BY <2>2, <4>1, OneRow
        <4>3. ByFrame(f.job)
          BY <2>1, <2>3, <3>1, <4>1, <4>2 DEF ByFrame
        <4> QED BY <4>2, <4>3 DEF RowStep
      <3>2. CASE ~ResponseMatches(f.job)
        BY <1>1, <2>3, <3>2 DEF response
      <3> QED BY <3>1, <3>2
    <2>4. CASE accepted
      <3>1. CASE f.job \in session.pending
        <4>1. job' = [job EXCEPT ![f.job] = AcceptedRow(job[f.job])] /\ f.type = "accepted"
          BY <2>4, <3>1 DEF accepted, Incoming
        <4>2. /\ job'[f.job] = AcceptedRow(job[f.job])
              /\ \A i \in Jobs \ {f.job} : job'[i] = job[i]
          BY <2>2, <4>1, OneRow
        <4>3. ByFrame(f.job)
          BY <2>1, <2>4, <3>1, <4>1, <4>2 DEF ByFrame
        <4> QED BY <4>2, <4>3 DEF RowStep
      <3>2. CASE f.job \notin session.pending
        BY <1>1, <2>4, <3>2 DEF accepted
      <3> QED BY <3>1, <3>2
    <2>5. CASE missing
      <3>1. CASE f.job \in session.pending
        <4>1. /\ job' = [job EXCEPT ![f.job] =
                           FinishedRow(job[f.job], "unknown", "receipt_missing")]
              /\ f.type = "missing"
          BY <2>5, <3>1 DEF missing, Incoming, finish
        <4>2. /\ job'[f.job] = FinishedRow(job[f.job], "unknown", "receipt_missing")
              /\ \A i \in Jobs \ {f.job} : job'[i] = job[i]
          BY <2>2, <4>1, OneRow
        <4>3. ByFrame(f.job)
          BY <2>1, <2>5, <3>1, <4>1, <4>2 DEF ByFrame
        <4> QED BY <4>2, <4>3 DEF RowStep
      <3>2. CASE f.job \notin session.pending
        BY <1>1, <2>5, <3>2 DEF missing
      <3> QED BY <3>1, <3>2
    <2> QED BY <1>5, <2>3, <2>4, <2>5
  <1>6. CASE disconnected
    BY <1>6 DEF disconnected, DisconnectedRow, RowStep, ByClock, Inflight
  <1>7. CASE recover_inflight
    BY <1>7 DEF recover_inflight, RowStep, ByClock
  <1>8. ASSUME NEW j \in Jobs, GatewayJobStep(j) PROVE \A i \in Jobs : RowStep(i)
    <2>1. CASE dispatch_next(j)
      BY <1>3, <2>1
    <2>2. ASSUME NEW st \in {"failed", "unknown"}, NEW c, finish(j, st, c),
                 \/ st = "failed" /\ job[j].status = "queued" /\ c \in NeverRanCodes
                 \/ /\ st = "unknown" /\ (Inflight(j) \/ j \in Planned \cup session.pending)
                    /\ c \in LostCodes \cup {session.plan[j]} /\ c # "none"
          PROVE  \A i \in Jobs : RowStep(i)
      <3>1. job' = [job EXCEPT ![j] = FinishedRow(job[j], st, c)]
        BY <2>2 DEF finish
      <3>2. /\ job'[j] = FinishedRow(job[j], st, c)
            /\ \A i \in Jobs \ {j} : job'[i] = job[i]
        BY <3>1, OneRow
      <3>3. ByFinish(j)
        BY <2>2, <3>2 DEF ByFinish
      <3> QED BY <3>2, <3>3 DEF RowStep
    <2>3. CASE dispatchRejected(j) \/ housekeepQueued(j)
      <3>1. /\ job[j].status = "queued"
            /\ \E c \in NeverRanCodes : finish(j, "failed", c)
        BY <2>3 DEF dispatchRejected, housekeepQueued, DispatchTick, Candidates,
           NeverRanCodes
      <3> QED BY <2>2, <3>1
    <2>4. CASE connectionLost(j) \/ housekeepInflight(j) \/ recoverUnknown(j)
      <3>1. /\ Inflight(j) \/ j \in session.pending
            /\ \E c \in LostCodes : c # "none" /\ finish(j, "unknown", c)
        BY <2>4 DEF connectionLost, housekeepInflight, recoverUnknown, Unrecoverable,
           LostCodes
      <3> QED BY <2>2, <3>1
    <2>5. CASE reconnectFinish(j)
      <3>1. j \in Planned /\ session.plan[j] # "none" /\ finish(j, "unknown", session.plan[j])
        BY <2>5 DEF reconnectFinish, Planned
      <3> QED BY <2>2, <3>1
    <2> QED BY <1>8, <2>1, <2>3, <2>4, <2>5 DEF GatewayJobStep
  <1>9. ASSUME NEW j \in Jobs, HostJobStep(j) PROVE UNCHANGED job
    BY <1>9 DEF HostJobStep, acceptNew, acceptFull, reap, next_response, complete
  <1>10. ASSUME Administration \/ HostStep PROVE UNCHANGED job
    BY <1>10 DEF Administration, HostStep, setEnabled, register, remove, upgrade,
       upgradeRejected, hello, hostStarts, hostCrashes, hostDisconnects, onWelcome,
       onDisconnect, onRecover, acknowledge
  <1>11. CASE GatewayStep
    <2>1. \/ response \/ accepted \/ missing \/ disconnected \/ recover_inflight
          \/ UNCHANGED job
      BY <1>11 DEF GatewayStep, revoke, reconnect, welcome, sendRecover, heartbeat,
         revoked, sessionLost, leave, missingFails, gatewayStops, serve
    <2> QED BY <1>1, <1>5, <1>6, <1>7, <2>1
  <1>12. CASE UNCHANGED vars
    BY <1>1, <1>12 DEF vars
  <1> QED
    BY <1>1, <1>2, <1>4, <1>8, <1>9, <1>10, <1>11, <1>12 DEF Next

-----------------------------------------------------------------------------
(* First. *)

\* A set of jobs that is not empty has a first one.
LEMMA FirstIsIn ==
  ASSUME NEW S \in SUBSET Jobs, S # {}
  PROVE  First(S) \in S
  <1> DEFINE R == OpToRel(<, Nat)
  <1>1. S \subseteq Nat
    BY JobsAssumption DEF Jobs
  <1>2. IsWellFoundedOn(R, Nat)
    BY NatLessThanWellFounded
  <1>3. \A x, y \in Nat : <<y, x>> \notin R => x <= y
    BY DEF OpToRel
  <1> HIDE DEF R
  <1>4. PICK n \in S : \A m \in S : <<m, n>> \notin R
    BY <1>1, <1>2, WFMin
  <1>5. n \in S /\ \A m \in S : n <= m
    BY <1>1, <1>3, <1>4
  <1> QED BY <1>5 DEF First

-----------------------------------------------------------------------------
(* What a step may write. *)

\* Why the gateway writes a frame.
Written(f) ==
  \/ f.type = "welcome" /\ welcome
  \/ f.type = "disconnect" /\ revoked
  \/ f.type = "request" /\ f.job \in Jobs /\ dispatch_next(f.job)
  \/ /\ f.type = "recover" /\ sendRecover /\ session.phase = "ready"
     /\ f.job \in session.recovering \cap session.pending
  \/ /\ f.type = "acknowledge" /\ response /\ toGateway # <<>>
     /\ f.job = Head(toGateway).job /\ ResponseMatches(f.job)
     /\ job' = [job EXCEPT ![f.job] = ResponseRow(@, Head(toGateway).result)]

\* The queue to the host is left, lost, read or written.
LEMMA ToHostSteps ==
  ASSUME TypeOK, [Next]_vars
  PROVE  \/ toHost' \in {toHost, <<>>}
         \/ toHost # <<>> /\ toHost' = Tail(toHost)
         \/ /\ Connected
            /\ \E f \in GatewayFrame : Written(f) /\ toHost' = Append(toHost, f)
  <1> USE DEF dbVars, gatewayVars, wire, hostVars, history
  <1> DEFINE Kept == toHost' \in {toHost, <<>>}
             Taken == toHost # <<>> /\ toHost' = Tail(toHost)
             Sent == /\ Connected
                     /\ \E f \in GatewayFrame : Written(f) /\ toHost' = Append(toHost, f)
  <1> SUFFICES Kept \/ Taken \/ Sent
    OBVIOUS
  <1>1. ASSUME NEW f \in GatewayFrame, Written(f), SendToHost(f)
        PROVE  Kept \/ Sent
    BY <1>1 DEF SendToHost
  <1>2. session.pending \subseteq Jobs
    BY DEF TypeOK, SessionState
  <1> HIDE DEF Sent
  <1>3. CASE UNCHANGED vars
    BY <1>3 DEF vars
  <1>4. CASE Administration
    BY <1>4 DEF Administration, setEnabled, register, remove
  <1>5. ASSUME NEW j \in Jobs, dispatch_next(j) PROVE Kept \/ Sent
    <2> DEFINE f == [type |-> "request", job |-> j]
    <2>1. f \in GatewayFrame /\ f.type = "request" /\ f.job = j
      BY DEF GatewayFrame
    <2>2. SendToHost(f)
      BY <1>5 DEF dispatch_next
    <2> HIDE DEF f
    <2>3. Written(f)
      BY <1>5, <2>1 DEF Written
    <2> QED BY <1>1, <2>1, <2>2, <2>3
  <1>6. ASSUME NEW j \in Jobs, submit(j) \/ deadlinePasses(j) \/ GatewayJobStep(j)
        PROVE  Kept \/ Sent
    BY <1>5, <1>6 DEF submit, deadlinePasses, GatewayJobStep, reconnectFinish,
       dispatchRejected, connectionLost, housekeepQueued, housekeepInflight, recoverUnknown
  <1>7. ASSUME NEW j \in Jobs, HostJobStep(j) PROVE Kept \/ Taken
    <2>1. CASE acceptFull(j) \/ acceptNew(j)
      BY <2>1 DEF acceptFull, acceptNew, Request, Arriving
    <2>2. CASE reap(j) \/ next_response(j) \/ \E r \in Result : complete(j, r)
      BY <2>2 DEF reap, next_response, complete
    <2> QED BY <1>7, <2>1, <2>2 DEF HostJobStep
  <1>8. CASE HostStep
    <2>1. CASE upgrade \/ hello \/ hostStarts \/ hostDisconnects
      BY <2>1 DEF upgrade, hello, hostStarts, hostDisconnects
    <2>2. CASE upgradeRejected \/ hostCrashes \/ onDisconnect
      BY <2>2 DEF upgradeRejected, hostCrashes, onDisconnect, StopRuntime
    <2>3. CASE onWelcome \/ onRecover \/ acknowledge
      BY <2>3 DEF onWelcome, onRecover, acknowledge, Arriving
    <2> QED BY <1>8, <2>1, <2>2, <2>3 DEF HostStep
  <1>9. CASE GatewayStep
    <2>1. CASE \/ revoke \/ reconnect \/ accepted \/ missing \/ heartbeat \/ sessionLost
               \/ missingFails \/ disconnected \/ leave \/ gatewayStops \/ recover_inflight
               \/ serve
      BY <2>1 DEF revoke, reconnect, accepted, missing, heartbeat, sessionLost,
         missingFails, disconnected, leave, gatewayStops, recover_inflight, serve
    <2>2. CASE welcome
      <3>a. [type |-> "welcome"] \in GatewayFrame
        BY DEF GatewayFrame
      <3>1. PICK f \in GatewayFrame : f = [type |-> "welcome"]
        BY <3>a
      <3>2. SendToHost(f)
        BY <2>2, <3>1 DEF welcome
      <3>3. Written(f)
        BY <2>2, <3>1 DEF Written
      <3> QED BY <1>1, <3>2, <3>3
    <2>3. CASE sendRecover
      <3>a. session.recovering \subseteq Jobs /\ session.recovering # {}
        BY <2>3 DEF sendRecover, TypeOK, SessionState
      <3>b. PICK j \in session.recovering : j = First(session.recovering)
        BY <3>a, FirstIsIn
      <3>1. CASE j \in session.pending
        <4>a. [type |-> "recover", job |-> j] \in GatewayFrame
          BY <1>2, <3>1 DEF GatewayFrame
        <4>1. PICK f \in GatewayFrame : f = [type |-> "recover", job |-> j]
          BY <4>a
        <4>2. SendToHost(f) /\ session.phase = "ready"
          BY <2>3, <3>b, <3>1, <4>1 DEF sendRecover
        <4>3. Written(f)
          BY <2>3, <3>1, <4>1, <4>2 DEF Written
        <4> QED BY <1>1, <4>2, <4>3
      <3>2. CASE j \notin session.pending
        BY <2>3, <3>b, <3>2 DEF sendRecover
      <3> QED BY <3>1, <3>2
    <2>4. CASE revoked
      <3>a. [type |-> "disconnect"] \in GatewayFrame
        BY DEF GatewayFrame
      <3>1. PICK f \in GatewayFrame : f = [type |-> "disconnect"]
        BY <3>a
      <3>2. SendToHost(f)
        BY <2>4, <3>1 DEF revoked
      <3>3. Written(f)
        BY <2>4, <3>1 DEF Written
      <3> QED BY <1>1, <3>2, <3>3
    <2>5. CASE response
      <3>a. Head(toGateway).job \in Jobs /\ toGateway # <<>>
        BY <2>5, HeadTail, HostFrameJob DEF response, Incoming, TypeOK
      <3>1. PICK j \in Jobs : j = Head(toGateway).job
        BY <3>a
      <3>b. [type |-> "acknowledge", job |-> j] \in GatewayFrame
        BY <3>1 DEF GatewayFrame
      <3>2. PICK f \in GatewayFrame : f = [type |-> "acknowledge", job |-> j]
        BY <3>b
      <3>3. \/ UNCHANGED toHost
            \/ /\ SendToHost(f) /\ ResponseMatches(j)
               /\ job' = [job EXCEPT ![j] = ResponseRow(@, Head(toGateway).result)]
        BY <2>5, <3>1, <3>2 DEF response
      <3>4. CASE UNCHANGED toHost
        BY <3>4
      <3>5. CASE /\ SendToHost(f) /\ ResponseMatches(j)
                 /\ job' = [job EXCEPT ![j] = ResponseRow(@, Head(toGateway).result)]
        <4>1. Written(f)
          BY <2>5, <3>a, <3>1, <3>2, <3>5 DEF Written
        <4> QED BY <1>1, <3>5, <4>1
      <3> QED BY <3>3, <3>4, <3>5
    <2> QED BY <1>9, <2>1, <2>2, <2>3, <2>4, <2>5 DEF GatewayStep
  <1> QED BY <1>3, <1>4, <1>6, <1>7, <1>8, <1>9 DEF Next, Sent

\* Why the host writes a frame.
Answered(f) ==
  \/ f.type = "accepted" /\ acceptNew(f.job)
  \/ /\ acceptFull(f.job) /\ Arriving("request") /\ f.job = Head(toHost).job
     /\ \/ receipts[f.job] # "none" /\ f = ReceiptMessage(f.job)
        \/ receipts[f.job] = "none" /\ f.type = "response" /\ f.result = "err"
  \/ /\ f.type = "response" /\ complete(f.job, f.result) /\ f.job \in attached
     /\ ~host.recovery
  \/ next_response(f.job) /\ f = ReceiptMessage(f.job)
  \/ /\ onRecover /\ Arriving("recover") /\ f.job = Head(toHost).job
     /\ f = ReceiptMessage(f.job)

\* The queue to the gateway is left, lost, read or written.
LEMMA ToGatewaySteps ==
  ASSUME TypeOK, [Next]_vars
  PROVE  \/ toGateway' \in {toGateway, <<>>}
         \/ toGateway # <<>> /\ toGateway' = Tail(toGateway) /\ session.phase = "ready"
         \/ /\ Listening /\ session' = session
            /\ \E f \in HostFrame : Answered(f) /\ toGateway' = Append(toGateway, f)
  <1> USE DEF dbVars, gatewayVars, wire, hostVars, history
  <1> DEFINE Kept == toGateway' \in {toGateway, <<>>}
             Taken == toGateway # <<>> /\ toGateway' = Tail(toGateway)
                      /\ session.phase = "ready"
             Sent == /\ Listening /\ session' = session
                     /\ \E f \in HostFrame : Answered(f) /\ toGateway' = Append(toGateway, f)
  <1> SUFFICES Kept \/ Taken \/ Sent
    OBVIOUS
  <1>1. ASSUME NEW f \in HostFrame, Answered(f), SendToGateway(f), session' = session
        PROVE  Kept \/ Sent
    BY <1>1 DEF SendToGateway
  <1>2. \A j \in Jobs : ReceiptMessage(j) \in HostFrame /\ ReceiptMessage(j).job = j
    BY ReceiptMessageType DEF ReceiptMessage
  <1> HIDE DEF Sent
  <1>3. CASE UNCHANGED vars
    BY <1>3 DEF vars
  <1>4. CASE Administration
    BY <1>4 DEF Administration, setEnabled, register, remove
  <1>5. ASSUME NEW j \in Jobs, submit(j) \/ deadlinePasses(j) \/ GatewayJobStep(j)
        PROVE  Kept
    BY <1>5 DEF submit, deadlinePasses, GatewayJobStep, reconnectFinish, dispatch_next,
       dispatchRejected, connectionLost, housekeepQueued, housekeepInflight, recoverUnknown
  <1>6. ASSUME NEW j \in Jobs, HostJobStep(j) PROVE Kept \/ Sent
    <2>1. CASE reap(j)
      BY <2>1 DEF reap
    <2>2. CASE acceptNew(j)
      <3> DEFINE f == [type |-> "accepted", job |-> j]
      <3>1. f \in HostFrame /\ f.type = "accepted" /\ f.job = j
        BY DEF HostFrame
      <3>2. SendToGateway(f) \/ UNCHANGED toGateway
        BY <2>2 DEF acceptNew
      <3>3. session' = session
        BY <2>2 DEF acceptNew
      <3> HIDE DEF f
      <3>4. Answered(f)
        BY <2>2, <3>1 DEF Answered
      <3> QED BY <1>1, <3>1, <3>2, <3>3, <3>4
    <2>3. CASE acceptFull(j)
      <3>1. session' = session /\ Arriving("request") /\ j = Head(toHost).job
        BY <2>3 DEF acceptFull, Request
      <3>2. CASE receipts[j] # "none"
        <4>1. PICK f \in HostFrame : f = ReceiptMessage(j) /\ f.job = j
          BY <1>2
        <4>2. SendToGateway(f)
          BY <2>3, <3>2, <4>1 DEF acceptFull
        <4>3. Answered(f)
          BY <2>3, <3>1, <3>2, <4>1 DEF Answered
        <4> QED BY <1>1, <3>1, <4>1, <4>2, <4>3
      <3>3. CASE receipts[j] = "none"
        <4> DEFINE f == [type |-> "response", job |-> j, result |-> "err"]
        <4>1. SendToGateway(f)
          BY <2>3, <3>3 DEF acceptFull
        <4>2. f \in HostFrame /\ f.type = "response" /\ f.job = j /\ f.result = "err"
          BY DEF HostFrame, Result
        <4> HIDE DEF f
        <4>3. Answered(f)
          BY <2>3, <3>1, <3>3, <4>2 DEF Answered
        <4> QED BY <1>1, <3>1, <4>1, <4>2, <4>3
      <3> QED BY <3>2, <3>3
    <2>4. CASE next_response(j)
      <3>1. PICK f \in HostFrame : f = ReceiptMessage(j) /\ f.job = j
        BY <1>2
      <3>2. session' = session /\ SendToGateway(f)
        BY <2>4, <3>1 DEF next_response
      <3>3. Answered(f)
        BY <2>4, <3>1 DEF Answered
      <3> QED BY <1>1, <3>1, <3>2, <3>3
    <2>5. ASSUME NEW r \in Result, complete(j, r) PROVE Kept \/ Sent
      <3> DEFINE f == [type |-> "response", job |-> j, result |-> r]
      <3>1. f \in HostFrame /\ f.type = "response" /\ f.job = j /\ f.result = r
        BY DEF HostFrame
      <3>2. session' = session
        BY <2>5 DEF complete
      <3>3. UNCHANGED toGateway \/ (~host.recovery /\ j \in attached /\ SendToGateway(f))
        BY <2>5 DEF complete
      <3> HIDE DEF f
      <3>4. CASE ~host.recovery /\ j \in attached /\ SendToGateway(f)
        <4>1. Answered(f)
          BY <2>5, <3>1, <3>4 DEF Answered
        <4> QED BY <1>1, <3>1, <3>2, <3>4, <4>1
      <3> QED BY <3>3, <3>4
    <2> QED BY <1>6, <2>1, <2>2, <2>3, <2>4, <2>5 DEF HostJobStep
  <1>7. CASE HostStep
    <2>1. CASE onRecover
      <3>a. Head(toHost).job \in Jobs /\ Arriving("recover")
        BY <2>1, HeadTail, GatewayFrameJob DEF onRecover, Arriving, TypeOK
      <3>1. PICK j \in Jobs : j = Head(toHost).job
        BY <3>a
      <3>2. PICK f \in HostFrame : f = ReceiptMessage(j) /\ f.job = j
        BY <1>2
      <3>3. session' = session /\ SendToGateway(f)
        BY <2>1, <3>1, <3>2 DEF onRecover
      <3>4. Answered(f)
        BY <2>1, <3>a, <3>1, <3>2 DEF Answered
      <3> QED BY <1>1, <3>2, <3>3, <3>4
    <2>2. CASE ~onRecover
      BY <1>7, <2>2 DEF HostStep, upgrade, upgradeRejected, hello, hostStarts, hostCrashes,
         hostDisconnects, onWelcome, onDisconnect, acknowledge
    <2> QED BY <2>1, <2>2
  <1>8. CASE GatewayStep
    <2>1. CASE response \/ accepted \/ missing
      BY <2>1 DEF response, accepted, missing, Incoming
    <2>2. CASE ~(response \/ accepted \/ missing)
      BY <1>8, <2>2 DEF GatewayStep, revoke, reconnect, welcome, sendRecover, heartbeat,
         revoked, sessionLost, missingFails, disconnected, leave, gatewayStops,
         recover_inflight, serve, CloseGatewaySide
    <2> QED BY <2>1, <2>2
  <1> QED BY <1>3, <1>4, <1>5, <1>6, <1>7, <1>8 DEF Next, Sent

\* A frame is on its way because it was, or because it was written now.
LEMMA NewFrames ==
  ASSUME TypeOK, [Next]_vars
  PROVE  /\ \A f \in Frames(toHost)' :
              f \in Frames(toHost) \/ (Connected /\ f \in GatewayFrame /\ Written(f))
         /\ \A f \in Frames(toGateway)' :
              \/ f \in Frames(toGateway)
              \/ Listening /\ session' = session /\ f \in HostFrame /\ Answered(f)
  <1>1. toHost \in Seq(GatewayFrame) /\ toGateway \in Seq(HostFrame)
    BY DEF TypeOK
  <1>2. ASSUME NEW f \in Frames(toHost')
        PROVE  f \in Frames(toHost) \/ (Connected /\ f \in GatewayFrame /\ Written(f))
    <2>1. CASE toHost' \in {toHost, <<>>}
      BY <1>2, <2>1, FramesNone
    <2>2. CASE toHost # <<>> /\ toHost' = Tail(toHost)
      BY <1>1, <1>2, <2>2, FramesTail
    <2>3. ASSUME NEW g \in GatewayFrame, Connected, Written(g), toHost' = Append(toHost, g)
          PROVE  f \in Frames(toHost) \/ (Connected /\ f \in GatewayFrame /\ Written(f))
      <3>1. f \in Frames(toHost) \/ f = g
        BY <1>1, <1>2, <2>3, FramesAppend
      <3> QED BY <2>3, <3>1
    <2> QED BY <2>1, <2>2, <2>3, ToHostSteps
  <1>3. ASSUME NEW f \in Frames(toGateway')
        PROVE  \/ f \in Frames(toGateway)
               \/ Listening /\ session' = session /\ f \in HostFrame /\ Answered(f)
    <2>1. CASE toGateway' \in {toGateway, <<>>}
      BY <1>3, <2>1, FramesNone
    <2>2. CASE toGateway # <<>> /\ toGateway' = Tail(toGateway)
      BY <1>1, <1>3, <2>2, FramesTail
    <2>3. ASSUME NEW g \in HostFrame, Listening, session' = session, Answered(g),
                 toGateway' = Append(toGateway, g)
          PROVE  \/ f \in Frames(toGateway)
                 \/ Listening /\ session' = session /\ f \in HostFrame /\ Answered(f)
      <3>1. f \in Frames(toGateway) \/ f = g
        BY <1>1, <1>3, <2>3, FramesAppend
      <3> QED BY <2>3, <3>1
    <2> QED BY <2>1, <2>2, <2>3, ToGatewaySteps
  <1>4. Frames(toHost)' = Frames(toHost') /\ Frames(toGateway)' = Frames(toGateway')
    BY DEF Frames
  <1> QED BY <1>2, <1>3, <1>4

-----------------------------------------------------------------------------
(* What a step may do to the work of a job, the host and the session. *)

\* Whatever work there was is kept or lost with its process; a receipt that a
\* living host drops was acknowledged.
WorkKept(i) ==
  /\ starts'[i] = starts[i] /\ outcome'[i] = outcome[i]
  /\ tasks'[i] \in {tasks[i], "none"}
  /\ i \in attached' => i \in attached
  /\ \/ receipts'[i] = receipts[i]
     \/ /\ receipts'[i] = "none"
        /\ \/ host'.conn = "down"
           \/ acknowledge /\ Arriving("acknowledge") /\ i = Head(toHost).job

WorkStarts(i) ==
  /\ acceptNew(i) /\ Request(i) /\ receipts[i] = "none"
  /\ tasks'[i] = "running" /\ starts'[i] = starts[i] + 1 /\ outcome'[i] = outcome[i]
  /\ receipts'[i] = IF host.recovery THEN "accepted" ELSE receipts[i]
  /\ i \in attached' => i \in attached \/ ~host.recovery

WorkEnds(i) ==
  \E r \in Result :
    /\ complete(i, r) /\ tasks[i] = "running"
    /\ tasks'[i] = "finished" /\ starts'[i] = starts[i] /\ outcome'[i] = r
    /\ receipts'[i] = IF host.recovery THEN r ELSE receipts[i]
    /\ i \in attached' => i \in attached

\* The work of a job, by action.
LEMMA WorkSteps ==
  ASSUME TypeOK, [Next]_vars
  PROVE  \A i \in Jobs : WorkKept(i) \/ WorkStarts(i) \/ WorkEnds(i)
  <1> USE DEF hostVars, history
  <1>1. ASSUME UNCHANGED <<starts, outcome, tasks, attached, receipts>>
        PROVE  \A i \in Jobs : WorkKept(i)
    BY <1>1 DEF WorkKept
  <1>2. CASE UNCHANGED vars
    BY <1>1, <1>2 DEF vars
  <1>3. CASE Administration \/ GatewayStep
    BY <1>1, <1>3 DEF Administration, setEnabled, register, remove, GatewayStep, revoke,
       reconnect, welcome, sendRecover, response, accepted, missing, missingFails, heartbeat,
       revoked, sessionLost, disconnected, leave, gatewayStops, recover_inflight, serve
  <1>4. ASSUME NEW j \in Jobs, submit(j) \/ deadlinePasses(j) \/ GatewayJobStep(j)
        PROVE  \A i \in Jobs : WorkKept(i)
    BY <1>1, <1>4 DEF submit, deadlinePasses, GatewayJobStep, reconnectFinish, dispatch_next,
       dispatchRejected, connectionLost, housekeepQueued, housekeepInflight, recoverUnknown
  <1>5. ASSUME NEW j \in Jobs, HostJobStep(j)
        PROVE  \A i \in Jobs : WorkKept(i) \/ WorkStarts(i) \/ WorkEnds(i)
    <2>1. CASE acceptNew(j)
      <3>1. WorkStarts(j)
        BY <2>1 DEF WorkStarts, acceptNew, StartTask, TypeOK
      <3>2. ASSUME NEW i \in Jobs \ {j} PROVE WorkKept(i)
        BY <2>1, <3>2 DEF WorkKept, acceptNew, StartTask, TypeOK
      <3> QED BY <3>1, <3>2
    <2>2. ASSUME NEW r \in Result, complete(j, r)
          PROVE  \A i \in Jobs : WorkKept(i) \/ WorkEnds(i)
      <3>1. WorkEnds(j)
        BY <2>2 DEF WorkEnds, complete, TypeOK
      <3>2. ASSUME NEW i \in Jobs \ {j} PROVE WorkKept(i)
        BY <2>2, <3>2 DEF WorkKept, complete, TypeOK
      <3> QED BY <3>1, <3>2
    <2>3. CASE reap(j)
      BY <2>3 DEF WorkKept, reap, TypeOK
    <2>4. CASE acceptFull(j) \/ next_response(j)
      BY <1>1, <2>4 DEF acceptFull, next_response
    <2> QED BY <1>5, <2>1, <2>2, <2>3, <2>4 DEF HostJobStep
  <1>6. CASE HostStep
    <2>1. CASE upgradeRejected \/ hostCrashes \/ onDisconnect
      BY <2>1 DEF WorkKept, upgradeRejected, hostCrashes, onDisconnect, StopRuntime, HostDown,
         TypeOK, HostState
    <2>2. CASE hostDisconnects
      BY <2>2 DEF WorkKept, hostDisconnects
    <2>3. CASE acknowledge
      BY <2>3 DEF WorkKept, acknowledge, TypeOK
    <2>4. CASE upgrade \/ hello \/ hostStarts \/ onWelcome \/ onRecover
      BY <1>1, <2>4 DEF upgrade, hello, hostStarts, onWelcome, onRecover
    <2> QED BY <1>6, <2>1, <2>2, <2>3, <2>4 DEF HostStep
  <1> QED BY <1>2, <1>3, <1>4, <1>5, <1>6 DEF Next

HostGoes ==
  /\ host'.conn = "down" /\ tasks' = [j \in Jobs |-> "none"]
  /\ receipts' = [j \in Jobs |-> "none"] /\ attached' = {} /\ toHost' = <<>>
HostLeaves ==
  host.conn # "down" /\ host'.conn = "off" /\ attached' = {} /\ toHost' = <<>>

\* The host starts, and otherwise stays what it is: it goes down with all it
\* holds, loses its connection, or makes one.
LEMMA HostSteps ==
  ASSUME TypeOK, [Next]_vars
  PROVE  \/ /\ hostStarts /\ host.conn = "down" /\ host'.conn = "off"
            /\ host'.gen = host.gen + 1 /\ UNCHANGED <<job, session, gateway>>
            /\ UNCHANGED <<receipts, tasks, attached, wire>>
         \/ /\ host'.gen = host.gen /\ host'.recovery = host.recovery
            /\ \/ host' = host \/ HostGoes \/ HostLeaves
               \/ upgrade /\ host.conn = "off" /\ host'.conn = "upgrading"
               \/ hello /\ host.conn = "upgrading" /\ host'.conn = "hello"
               \/ onWelcome /\ Arriving("welcome") /\ host.conn = "hello" /\ host'.conn = "on"
               \/ gatewayStops /\ host.conn = "upgrading" /\ host'.conn = "off"
  <1> USE DEF hostVars, wire, dbVars, gatewayVars, TypeOK, HostState
  <1>1. CASE UNCHANGED vars
    BY <1>1 DEF vars
  <1>2. CASE Administration
    BY <1>2 DEF Administration, setEnabled, register, remove
  <1>3. CASE GatewayStep
    <2>1. CASE gatewayStops
      BY <2>1 DEF gatewayStops
    <2>2. CASE ~gatewayStops
      BY <1>3, <2>2 DEF GatewayStep, revoke, reconnect, welcome, sendRecover, response,
         accepted, missing, missingFails, heartbeat, revoked, sessionLost, disconnected,
         leave, recover_inflight, serve
    <2> QED BY <2>1, <2>2
  <1>4. ASSUME NEW j \in Jobs, submit(j) \/ deadlinePasses(j) \/ GatewayJobStep(j)
        PROVE  host' = host
    BY <1>4 DEF submit, deadlinePasses, GatewayJobStep, reconnectFinish, dispatch_next,
       dispatchRejected, connectionLost, housekeepQueued, housekeepInflight, recoverUnknown
  <1>5. ASSUME NEW j \in Jobs, HostJobStep(j) PROVE host' = host
    BY <1>5 DEF HostJobStep, acceptNew, acceptFull, reap, next_response, complete
  <1>6. CASE HostStep
    <2>1. CASE upgradeRejected \/ hostCrashes \/ onDisconnect
      BY <2>1 DEF upgradeRejected, hostCrashes, onDisconnect, StopRuntime, HostDown, HostGoes
    <2>2. CASE hostDisconnects
      BY <2>2 DEF hostDisconnects, HostLeaves
    <2>3. CASE acknowledge \/ onRecover
      BY <2>3 DEF acknowledge, onRecover
    <2>4. CASE upgrade \/ hello \/ hostStarts \/ onWelcome
      BY <2>4 DEF upgrade, hello, hostStarts, onWelcome
    <2> QED BY <1>6, <2>1, <2>2, <2>3, <2>4 DEF HostStep
  <1> QED BY <1>1, <1>2, <1>3, <1>4, <1>5, <1>6 DEF Next

\* The session of the same connection, with these fields.
SessionWith(phase, pending, recovering, plan) ==
  /\ session'.phase = phase /\ session'.pending = pending
  /\ session'.recovering = recovering /\ session'.plan = plan
  /\ session'.gen = session.gen /\ session'.recovery = session.recovery

SessionCloses ==
  /\ Listening /\ UNCHANGED job
  /\ toGateway' = <<>> \/ (session.phase = "hello" /\ UNCHANGED toGateway)
  /\ \E pending \in SUBSET session.pending :
       /\ SessionWith("closing", pending, session.recovering, session.plan)
       /\ \A j \in session.pending \ pending : missingFails /\ j = Head(toGateway).job

\* A job is pending until its answer is stored.
SessionHears ==
  /\ session.phase = "ready" /\ toGateway # <<>> /\ Head(toGateway).job \in Jobs
  /\ toGateway' = Tail(toGateway)
  /\ SessionWith("ready", session.pending \ {Head(toGateway).job},
                 session.recovering, session.plan)
  /\ \/ /\ response /\ Head(toGateway).type = "response"
        /\ ResponseMatches(Head(toGateway).job)
        /\ job'[Head(toGateway).job] =
             ResponseRow(job[Head(toGateway).job], Head(toGateway).result)
     \/ /\ missing /\ Head(toGateway).type = "missing"
        /\ job'[Head(toGateway).job] =
             FinishedRow(job[Head(toGateway).job], "unknown", "receipt_missing")

SessionStep ==
  \/ SessionWith(session.phase, session.pending, session.recovering, session.plan)
  \/ session' = NoSession /\ (leave \/ gatewayStops) /\ UNCHANGED job
  \/ /\ hello /\ session.phase = "none" /\ gateway = "up" /\ UNCHANGED <<job, attached>>
     /\ session' = [NoSession EXCEPT !.phase = "hello", !.gen = host.gen,
                                     !.recovery = host.recovery, !.version = host.version]
     /\ toHost' = <<>> /\ toGateway' = <<>>
  \/ /\ reconnect /\ session.phase = "hello" /\ UNCHANGED <<job, wire>>
     /\ SessionWith("reconciling", session.pending,
                    {j \in Jobs : Inflight(j) /\ ReconnectCode(j) = "none"},
                    [j \in Jobs |-> IF Inflight(j) THEN ReconnectCode(j) ELSE "none"])
  \/ /\ session.phase = "reconciling" /\ UNCHANGED wire
     /\ \E j \in Planned :
          /\ reconnectFinish(j) /\ job'[j] = FinishedRow(job[j], "unknown", session.plan[j])
          /\ SessionWith("reconciling", session.pending, session.recovering,
                         [session.plan EXCEPT ![j] = "none"])
  \/ /\ welcome /\ session.phase = "reconciling" /\ Planned = {} /\ UNCHANGED job
     /\ SessionWith("ready", session.recovering, session.recovering, session.plan)
  \/ /\ sendRecover /\ session.phase = "ready" /\ UNCHANGED job
     /\ SessionWith("ready", session.pending,
                    session.recovering \ {First(session.recovering)}, session.plan)
  \/ /\ session.phase = "ready"
     /\ \E j \in Jobs :
          /\ dispatch_next(j)
          /\ SessionWith("ready", session.pending \cup {j}, session.recovering, session.plan)
  \/ SessionHears
  \/ SessionCloses
  \/ /\ disconnected /\ session.phase = "closing"
     /\ SessionWith("leaving", session.pending, session.recovering, session.plan)
  \/ /\ session.phase = "closing"
     /\ \E j \in Jobs :
          /\ connectionLost(j) /\ job'[j] = FinishedRow(job[j], "unknown", "connection_lost")
          /\ SessionWith("closing", session.pending \ {j}, session.recovering, session.plan)

\* The session, by action.
LEMMA SessionSteps ==
  ASSUME TypeOK, [Next]_vars
  PROVE  SessionStep
  <1> USE DEF gatewayVars, dbVars, wire
  <1>0. session \in SessionState /\ job \in [Jobs -> JobRow]
    BY DEF TypeOK
  <1>1. ASSUME UNCHANGED session PROVE SessionStep
    BY <1>1 DEF SessionStep, SessionWith
  <1>c. ASSUME Listening, UNCHANGED job,
               toGateway' = <<>> \/ (session.phase = "hello" /\ UNCHANGED toGateway),
               SessionWith("closing", session.pending, session.recovering, session.plan)
        PROVE  SessionStep
    <2>1. session.pending \in SUBSET session.pending
          /\ session.pending \ session.pending = {}
      OBVIOUS
    <2>2. SessionCloses
      BY <1>c, <2>1 DEF SessionCloses
    <2> QED BY <2>2 DEF SessionStep
  <1>2. CASE UNCHANGED vars
    BY <1>1, <1>2 DEF vars
  <1>3. CASE Administration
    BY <1>1, <1>3 DEF Administration, setEnabled, register, remove
  <1>4. ASSUME NEW j \in Jobs, submit(j) \/ deadlinePasses(j) \/ GatewayJobStep(j)
        PROVE  SessionStep
    <2>1. CASE dispatch_next(j)
      <3>1. session.phase = "ready"
            /\ SessionWith("ready", session.pending \cup {j}, session.recovering, session.plan)
        BY <1>0, <2>1 DEF dispatch_next, DispatchTick, SessionWith, SessionState
      <3> QED BY <2>1, <3>1 DEF SessionStep
    <2>2. CASE reconnectFinish(j)
      <3>1. /\ session.phase = "reconciling" /\ j \in Planned /\ UNCHANGED wire
            /\ job'[j] = FinishedRow(job[j], "unknown", session.plan[j])
            /\ SessionWith("reconciling", session.pending, session.recovering,
                           [session.plan EXCEPT ![j] = "none"])
        BY <1>0, <2>2 DEF reconnectFinish, finish, SessionWith, SessionState
      <3> QED BY <2>2, <3>1 DEF SessionStep
    <2>3. CASE connectionLost(j)
      <3>1. /\ session.phase = "closing"
            /\ job'[j] = FinishedRow(job[j], "unknown", "connection_lost")
            /\ SessionWith("closing", session.pending \ {j}, session.recovering, session.plan)
        BY <1>0, <2>3 DEF connectionLost, finish, SessionWith, SessionState
      <3> QED BY <2>3, <3>1 DEF SessionStep
    <2>4. CASE ~(dispatch_next(j) \/ reconnectFinish(j) \/ connectionLost(j))
      BY <1>1, <1>4, <2>4 DEF submit, deadlinePasses, GatewayJobStep,
         dispatchRejected, housekeepQueued, housekeepInflight, recoverUnknown
    <2> QED BY <2>1, <2>2, <2>3, <2>4
  <1>5. ASSUME NEW j \in Jobs, HostJobStep(j) PROVE SessionStep
    BY <1>1, <1>5 DEF HostJobStep, acceptNew, acceptFull, reap, next_response, complete
  <1>6. CASE HostStep
    <2>1. CASE hello
      BY <2>1 DEF hello, SessionStep
    <2>2. CASE ~hello
      BY <1>1, <1>6, <2>2 DEF HostStep, upgrade, upgradeRejected, hostStarts, hostCrashes,
         hostDisconnects, onWelcome, onDisconnect, onRecover, acknowledge
    <2> QED BY <2>1, <2>2
  <1>7. CASE accepted \/ recover_inflight \/ serve
    BY <1>1, <1>7 DEF accepted, recover_inflight, serve
  <1>8. CASE revoke \/ heartbeat
    <2>1. SessionWith(session.phase, session.pending, session.recovering, session.plan)
      BY <1>0, <1>8 DEF revoke, heartbeat, SessionWith, SessionState
    <2> QED BY <2>1 DEF SessionStep
  <1>9. CASE leave \/ gatewayStops
    BY <1>9 DEF leave, gatewayStops, SessionStep
  <1>10. CASE reconnect
    <2>1. CASE CredentialCurrent
      <3>1. /\ session.phase = "hello" /\ UNCHANGED <<job, wire>>
            /\ SessionWith("reconciling", session.pending,
                    {j \in Jobs : Inflight(j) /\ ReconnectCode(j) = "none"},
                    [j \in Jobs |-> IF Inflight(j) THEN ReconnectCode(j) ELSE "none"])
        BY <1>0, <1>10, <2>1 DEF reconnect, SessionWith, SessionState
      <3> QED BY <1>10, <3>1 DEF SessionStep
    <2>2. CASE ~CredentialCurrent
      <3>1. /\ session.phase = "hello" /\ UNCHANGED <<job, wire>>
            /\ SessionWith("closing", session.pending, session.recovering, session.plan)
        BY <1>0, <1>10, <2>2 DEF reconnect, SessionWith, SessionState
      <3> QED BY <1>c, <3>1 DEF Listening
    <2> QED BY <2>1, <2>2
  <1>11. CASE welcome
    <2>1. /\ session.phase = "reconciling" /\ Planned = {} /\ UNCHANGED job
          /\ SessionWith("ready", session.recovering, session.recovering, session.plan)
      BY <1>0, <1>11 DEF welcome, SessionWith, SessionState
    <2> QED BY <1>11, <2>1 DEF SessionStep
  <1>12. CASE sendRecover
    <2>1. /\ session.phase = "ready" /\ UNCHANGED job
          /\ SessionWith("ready", session.pending,
                         session.recovering \ {First(session.recovering)}, session.plan)
      BY <1>0, <1>12 DEF sendRecover, SessionWith, SessionState
    <2> QED BY <1>12, <2>1 DEF SessionStep
  <1>13. CASE revoked \/ sessionLost
    <2>1. /\ Listening /\ toGateway' = <<>> /\ UNCHANGED job
          /\ SessionWith("closing", session.pending, session.recovering, session.plan)
      BY <1>0, <1>13 DEF revoked, sessionLost, CloseGatewaySide, Listening, SessionWith,
         SessionState
    <2> QED BY <1>c, <2>1
  <1>14. CASE disconnected
    <2>1. /\ session.phase = "closing"
          /\ SessionWith("leaving", session.pending, session.recovering, session.plan)
      BY <1>0, <1>14 DEF disconnected, SessionWith, SessionState
    <2> QED BY <1>14, <2>1 DEF SessionStep
  <1>15. CASE missingFails
    <2>1. /\ Listening /\ toGateway' = <<>> /\ UNCHANGED job
          /\ SessionWith("closing", session.pending \ {Head(toGateway).job},
                         session.recovering, session.plan)
      BY <1>0, <1>15 DEF missingFails, Incoming, Listening, SessionWith, SessionState
    <2> QED BY <1>15, <2>1 DEF SessionStep, SessionCloses
  <1>16. CASE response \/ missing
    <2>1. session.phase = "ready" /\ toGateway # <<>> /\ Head(toGateway).job \in Jobs
      BY <1>16, HeadTail, HostFrameJob DEF response, missing, Incoming, TypeOK
    <2>2. PICK j \in Jobs : j = Head(toGateway).job
      BY <2>1
    <2>3. CASE response /\ ResponseMatches(j)
      <3>1. /\ toGateway' = Tail(toGateway) /\ Head(toGateway).type = "response"
            /\ job'[j] = ResponseRow(job[j], Head(toGateway).result)
            /\ SessionWith("ready", session.pending \ {j}, session.recovering, session.plan)
        BY <1>0, <2>1, <2>2, <2>3 DEF response, Incoming, SessionWith, SessionState
      <3> QED BY <2>1, <2>2, <2>3, <3>1 DEF SessionStep, SessionHears
    <2>4. CASE response /\ ~ResponseMatches(j)
      <3>1. /\ Listening /\ toGateway' = <<>> /\ UNCHANGED job
            /\ SessionWith("closing", session.pending, session.recovering, session.plan)
        BY <1>0, <2>1, <2>2, <2>4 DEF response, Listening, SessionWith, SessionState
      <3> QED BY <1>c, <3>1
    <2>5. CASE missing /\ j \in session.pending
      <3>1. /\ toGateway' = Tail(toGateway) /\ Head(toGateway).type = "missing"
            /\ job'[j] = FinishedRow(job[j], "unknown", "receipt_missing")
            /\ SessionWith("ready", session.pending \ {j}, session.recovering, session.plan)
        BY <1>0, <2>1, <2>2, <2>5 DEF missing, Incoming, finish, SessionWith, SessionState
      <3> QED BY <2>1, <2>2, <2>5, <3>1 DEF SessionStep, SessionHears
    <2>6. CASE missing /\ j \notin session.pending
      BY <1>1, <2>2, <2>6 DEF missing
    <2> QED BY <1>16, <2>3, <2>4, <2>5, <2>6
  <1> QED
    BY <1>2, <1>3, <1>4, <1>5, <1>6, <1>7, <1>8, <1>9, <1>10, <1>11, <1>12, <1>13, <1>14,
       <1>15, <1>16 DEF Next, GatewayStep

-----------------------------------------------------------------------------
(* What stays true of a job. *)

\* The parts of the invariant by name.
LEMMA SafetyParts ==
  ASSUME SafetyInv
  PROVE  /\ TypeOK /\ DeadlineOnlyInflight /\ RequestsAreFresh
         /\ WorkIsRecorded /\ HostHoldsItsOwn /\ GenerationsKnown
         /\ SessionIsOfHost /\ SessionKnowsJobs
         /\ ToHostIsTrue /\ ToGatewayIsTrue /\ AnsweredOnce
         /\ RowsAreHonest /\ ReceiptHeldUntilDurable /\ InflightIsWatched /\ SlotsFit
  BY DEF SafetyInv, DispatchInv

\* The frame at the head of the queue to the gateway is one of its frames.
LEMMA HeadOfToGateway ==
  ASSUME TypeOK, toGateway # <<>>
  PROVE  /\ Head(toGateway) \in Frames(toGateway) /\ Head(toGateway) \in HostFrame
         /\ Head(toGateway).job \in Jobs
  <1>1. toGateway \in Seq(HostFrame)
    BY DEF TypeOK
  <1> QED BY <1>1, FramesTail, HeadTail, HostFrameJob

\* So is the one at the head of the queue to the host.
LEMMA HeadOfToHost ==
  ASSUME TypeOK, toHost # <<>>
  PROVE  Head(toHost) \in Frames(toHost) /\ Head(toHost) \in GatewayFrame
  <1>1. toHost \in Seq(GatewayFrame)
    BY DEF TypeOK
  <1> QED BY <1>1, FramesTail, HeadTail

\* A row in the table has one of the eight statuses.
LEMMA RowStatus ==
  ASSUME TypeOK, NEW j \in Jobs
  PROVE  /\ job[j] \in JobRow
         /\ Claimed(j) <=> Inflight(j) \/ terminal(job[j].status)
         /\ ~(Inflight(j) /\ terminal(job[j].status))
  <1>1. job[j] \in JobRow
    BY DEF TypeOK
  <1>2. job[j].status \in {"absent", "queued"} \cup InflightStatus \cup TerminalStatus
    BY <1>1 DEF JobRow, Status
  <1> QED BY <1>1, <1>2 DEF Claimed, Inflight, terminal, Unclaimed, InflightStatus,
             TerminalStatus

\* finish_tx ends every job that has been admitted.
LEMMA EndedByFinish ==
  ASSUME NEW row \in JobRow, row.status # "absent", NEW s \in TerminalStatus, NEW c
  PROVE  terminal(FinishedRow(row, s, c).status)
  BY DEF FinishedRow, terminal, JobRow, Status

\* So does a response.
LEMMA EndedByResponse ==
  ASSUME NEW row \in JobRow, row.status # "absent", NEW r
  PROVE  terminal(ResponseRow(row, r).status)
  BY EndedByFinish DEF ResponseRow, TerminalStatus

\* A claimed job keeps its generation, an ended one its row, and only dispatch_next
\* puts a job in flight.
LEMMA RowStable ==
  ASSUME TypeOK, DeadlineOnlyInflight, [Next]_vars, NEW j \in Jobs
  PROVE  /\ Claimed(j) => /\ Claimed(j)' /\ job'[j].generation = job[j].generation
                          /\ job'[j].recovery = job[j].recovery
         /\ terminal(job[j].status) => job'[j] = job[j]
         /\ Inflight(j)' => Inflight(j) \/ dispatch_next(j)
         /\ \/ /\ job'[j].generation = job[j].generation
               /\ job'[j].recovery = job[j].recovery
            \/ /\ dispatch_next(j) /\ ~Claimed(j) /\ session.phase = "ready"
               /\ job'[j].generation = session.gen /\ job'[j].recovery = session.recovery
  <1>1. RowForward(job[j], job'[j])
    BY StepMovesForward DEF TableForward
  <1>2. RowStep(j)
    BY RowSteps
  <1>3. job[j] \in JobRow /\ job'[j] \in JobRow
    BY TypeStep DEF TypeOK
  <1>4. CASE dispatch_next(j) /\ job[j].status = "queued"
             /\ job'[j] = [job[j] EXCEPT !.status = "dispatching",
                             !.generation = session.gen, !.recovery = session.recovery]
    <2>1. session.phase = "ready"
      BY <1>4 DEF dispatch_next, DispatchTick
    <2> QED BY <1>3, <1>4, <2>1 DEF JobRow, Claimed, Inflight, Unclaimed, InflightStatus,
               terminal, TerminalStatus
  <1>5. CASE job'[j].generation = job[j].generation /\ job'[j].recovery = job[j].recovery
             /\ (job'[j].status \in InflightStatus => job[j].status \in InflightStatus)
    BY <1>1, <1>5 DEF RowForward, Claimed, Inflight
  <1>6. \A s, c : FinishedRow(job[j], s, c).generation = job[j].generation
                  /\ FinishedRow(job[j], s, c).recovery = job[j].recovery
                  /\ (s \in TerminalStatus /\ FinishedRow(job[j], s, c).status \in InflightStatus
                      => job[j].status \in InflightStatus)
    BY <1>3 DEF FinishedRow, JobRow, InflightStatus, TerminalStatus
  <1>7. CASE job'[j] = job[j]
    BY <1>5, <1>7
  <1>8. CASE job[j].status = "absent" /\ job'[j].status = "queued"
             /\ job'[j].generation = job[j].generation /\ job'[j].recovery = job[j].recovery
    BY <1>5, <1>8 DEF InflightStatus
  <1>9. CASE ByFrame(j)
    <2>1. CASE \E st \in TerminalStatus, c \in Code : job'[j] = FinishedRow(job[j], st, c)
      BY <1>5, <1>6, <2>1
    <2>2. CASE job'[j] = AcceptedRow(job[j])
      BY <1>3, <1>5, <2>2 DEF AcceptedRow, JobRow
    <2>3. CASE job'[j] = ResponseRow(job[j], Head(toGateway).result)
      BY <2>1, <2>3 DEF ResponseRow, TerminalStatus, Code
    <2>4. CASE job'[j] = FinishedRow(job[j], "unknown", "receipt_missing")
      BY <2>1, <2>4 DEF TerminalStatus, Code
    <2> QED BY <1>9, <2>2, <2>3, <2>4 DEF ByFrame
  <1>10. CASE ByFinish(j)
    BY <1>5, <1>6, <1>10 DEF ByFinish, TerminalStatus
  <1>11. CASE ByClock(j)
    BY <1>3, <1>5, <1>11 DEF ByClock, Armed, JobRow
  <1> QED BY <1>2, <1>4, <1>7, <1>8, <1>9, <1>10, <1>11 DEF RowStep

\* The only request of a job is the one that is taken.
LEMMA RequestTaken ==
  ASSUME TypeOK, RequestsAreFresh, NEW j \in Jobs, Request(j)
  PROVE  j \in Requested /\ j \notin Requested' /\ starts[j] = 0 /\ Connected
         /\ [type |-> "request", job |-> j] \in Frames(toHost)
  <1>1. toHost \in Seq(GatewayFrame) /\ toHost # <<>> /\ toHost' = Tail(toHost)
    BY DEF TypeOK, Request, Arriving
  <1>2. toHost[1] = [type |-> "request", job |-> j] /\ 1 \in 1..Len(toHost)
    BY <1>1, HeadTail DEF Request, Arriving, GatewayFrame
  <1>3. /\ Len(toHost') = Len(toHost) - 1
        /\ \A i \in 1..Len(toHost') : i + 1 \in 1..Len(toHost) /\ toHost'[i] = toHost[i + 1]
    BY <1>1
  <1>4. \A i \in 1..Len(toHost') : toHost'[i] # toHost[1]
    BY <1>2, <1>3 DEF RequestsAreFresh
  <1>5. j \in Requested /\ j \notin Requested'
    BY <1>2, <1>4 DEF Requested
  <1>6. Connected
    BY DEF Request, Arriving
  <1> QED BY <1>2, <1>5, <1>6 DEF RequestsAreFresh, Frames

\* A job is requested because it was, or because it is dispatched now.
LEMMA RequestedSteps ==
  ASSUME TypeOK, [Next]_vars, NEW j \in Jobs, j \in Requested'
  PROVE  j \in Requested \/ dispatch_next(j)
  <1> DEFINE f == [type |-> "request", job |-> j]
  <1>1. f \in Frames(toHost)'
    BY DEF Requested, Frames
  <1>2. f.type = "request" /\ f.job = j
    OBVIOUS
  <1>3. PICK g \in Frames(toHost)' : g = f
    BY <1>1
  <1>4. g \in Frames(toHost) \/ Written(g)
    BY NewFrames
  <1>5. g \in Frames(toHost) => j \in Requested
    BY <1>3, RequestedFrames
  <1>6. Written(g) => dispatch_next(j)
    BY <1>2, <1>3 DEF Written
  <1> QED BY <1>4, <1>5, <1>6

\* Work starts from a request, once; its outcome is final; the host that holds
\* something of a job has started it.
LEMMA WorkStable ==
  ASSUME TypeOK, RequestsAreFresh, WorkIsRecorded, [Next]_vars, NEW j \in Jobs
  PROVE  /\ \/ starts'[j] = starts[j]
            \/ acceptNew(j) /\ j \in Requested /\ starts[j] = 0 /\ starts'[j] = 1
         /\ starts[j] > 0 => starts'[j] = starts[j]
         /\ outcome[j] # "none" => outcome'[j] = outcome[j]
         /\ starts'[j] = 0 => starts[j] = 0
  <1>1. WorkKept(j) \/ WorkStarts(j) \/ WorkEnds(j)
    BY WorkSteps
  <1>2. starts[j] \in Nat
    BY DEF TypeOK
  <1>3. CASE WorkKept(j)
    BY <1>2, <1>3 DEF WorkKept
  <1>4. CASE WorkStarts(j)
    <2>1. j \in Requested /\ starts[j] = 0
      BY <1>4, RequestTaken DEF WorkStarts
    <2> QED BY <1>4, <2>1 DEF WorkStarts
  <1>5. CASE WorkEnds(j)
    BY <1>2, <1>5 DEF WorkEnds, WorkIsRecorded
  <1> QED BY <1>1, <1>3, <1>4, <1>5

\* An accepted request has started.
LEMMA AcceptStarts ==
  ASSUME TypeOK, NEW j \in Jobs, acceptNew(j)
  PROVE  starts'[j] > 0
  BY DEF TypeOK, acceptNew, StartTask

\* Work given up is never started.
LEMMA GivenUpStable ==
  ASSUME SafetyInv, [Next]_vars, NEW j \in Jobs, GivenUp(j)
  PROVE  GivenUp(j)'
  <1>1. Claimed(j) /\ starts[j] = 0 /\ j \notin Requested
    BY DEF GivenUp
  <1>2. Claimed(j)'
    BY <1>1, SafetyParts, RowStable
  <1>3. starts'[j] = 0
    BY <1>1, SafetyParts, WorkStable
  <1>4. ~dispatch_next(j)
    BY <1>1 DEF dispatch_next, DispatchTick, Candidates, Claimed, Unclaimed
  <1>5. j \notin Requested'
    BY <1>1, <1>4, SafetyParts, RequestedSteps
  <1> QED BY <1>2, <1>3, <1>5 DEF GivenUp

\* The deadline of work that never started runs until the job ends.
LEMMA RecoveringStable ==
  ASSUME SafetyInv, [Next]_vars, NEW j \in Jobs, Recovering(j)
  PROVE  Recovering(j)'
  <1>1. Claimed(j) /\ j \notin Requested /\ TypeOK /\ ToGatewayIsTrue
    BY SafetyParts DEF Recovering
  <1>2. Claimed(j)'
    BY <1>1, SafetyParts, RowStable
  <1>4. ~dispatch_next(j)
    BY <1>1 DEF dispatch_next, DispatchTick, Candidates, Claimed, Unclaimed
  <1>5. j \notin Requested'
    BY <1>1, <1>4, SafetyParts, RequestedSteps
  <1>6. ASSUME starts'[j] = 0, Inflight(j)' PROVE job'[j].deadline # "none"
    <2>1. starts[j] = 0
      BY <1>6, SafetyParts, WorkStable
    <2>2. Inflight(j)
      BY <1>4, <1>6, SafetyParts, RowStable
    <2>3. job[j].deadline # "none" /\ job[j] \in JobRow
      BY <1>1, <2>1, <2>2 DEF Recovering, TypeOK
    <2>4. \A s \in TerminalStatus : \A c : job'[j] # FinishedRow(job[j], s, c)
      BY <1>6, <2>2, <2>3 DEF FinishedRow, Inflight, JobRow, InflightStatus, TerminalStatus
    <2>5. CASE ByFrame(j)
      <3>1. Head(toGateway).type # "accepted"
        BY <1>1, <2>1, <2>5, HeadOfToGateway DEF ByFrame, ToGatewayIsTrue
      <3>2. job'[j] # ResponseRow(job[j], Head(toGateway).result)
        BY <2>4 DEF ResponseRow, TerminalStatus
      <3> QED BY <2>4, <2>5, <3>1, <3>2 DEF ByFrame, TerminalStatus
    <2>6. CASE ByFinish(j)
      BY <2>4, <2>6 DEF ByFinish, TerminalStatus
    <2>7. CASE ByClock(j)
      BY <2>3, <2>7 DEF ByClock, Armed, JobRow
    <2>8. CASE submit(j)
      BY <2>2, <2>8 DEF submit, Inflight, InflightStatus
    <2> QED BY <1>1, <1>4, <2>3, <2>5, <2>6, <2>7, <2>8, RowSteps DEF RowStep
  <1> QED BY <1>2, <1>5, <1>6 DEF Recovering

\* What is held of a job is held of a claimed one, by a host that has started it.
LEMMA HeldIsClaimed ==
  ASSUME SafetyInv, NEW j \in Jobs,
         starts[j] > 0 \/ tasks[j] # "none" \/ receipts[j] # "none" \/ j \in attached
  PROVE  Claimed(j) /\ starts[j] > 0
  <1>1. RequestsAreFresh /\ WorkIsRecorded /\ starts[j] \in Nat
    BY SafetyParts DEF TypeOK
  <1> QED BY <1>1 DEF RequestsAreFresh, WorkIsRecorded, Claimed

-----------------------------------------------------------------------------
(* The steps keep each part of the invariant. *)

\* The host's records.
LEMMA KeepsWorkIsRecorded ==
  ASSUME SafetyInv, [Next]_vars
  PROVE  WorkIsRecorded'
  <1>1. TypeOK /\ WorkIsRecorded
    BY SafetyParts
  <1>2. SUFFICES ASSUME NEW j \in Jobs
        PROVE  /\ starts'[j] = 0 => /\ outcome'[j] = "none" /\ tasks'[j] = "none"
                                    /\ receipts'[j] = "none" /\ j \notin attached'
               /\ tasks'[j] = "running" => outcome'[j] = "none"
               /\ receipts'[j] \in Result => outcome'[j] = receipts'[j]
    BY DEF WorkIsRecorded
  <1>3. /\ starts[j] \in Nat
        /\ starts[j] = 0 => /\ outcome[j] = "none" /\ tasks[j] = "none"
                            /\ receipts[j] = "none" /\ j \notin attached
        /\ tasks[j] = "running" => outcome[j] = "none"
        /\ receipts[j] \in Result => outcome[j] = receipts[j]
    BY <1>1 DEF WorkIsRecorded, TypeOK
  <1>4. "none" \notin Result /\ "accepted" \notin Result
    BY DEF Result
  <1>5. CASE WorkKept(j)
    BY <1>3, <1>4, <1>5 DEF WorkKept
  <1>6. CASE WorkStarts(j)
    <2>1. starts[j] = 0
      BY <1>6, SafetyParts, RequestTaken DEF WorkStarts
    <2> QED BY <1>3, <1>4, <1>6, <2>1 DEF WorkStarts
  <1>7. CASE WorkEnds(j)
    BY <1>3, <1>4, <1>7 DEF WorkEnds
  <1> QED BY <1>1, <1>5, <1>6, <1>7, WorkSteps

\* A host holds only work of its own generation.
LEMMA KeepsHostHoldsItsOwn ==
  ASSUME SafetyInv, [Next]_vars
  PROVE  HostHoldsItsOwn'
  <1>1. TypeOK /\ HostHoldsItsOwn /\ DeadlineOnlyInflight /\ ToHostIsTrue
    BY SafetyParts
  <1>2. ASSUME NEW j \in Jobs, tasks'[j] # "none" \/ receipts'[j] # "none" \/ j \in attached'
        PROVE  job'[j].generation = host'.gen /\ host'.conn # "down"
    <2>1. CASE tasks[j] # "none" \/ receipts[j] # "none" \/ j \in attached
      <3>1. job[j].generation = host.gen /\ host.conn # "down" /\ Claimed(j)
        BY <1>1, <2>1, HeldIsClaimed DEF HostHoldsItsOwn
      <3>2. job'[j].generation = host.gen
        BY <1>1, <3>1, RowStable
      <3>3. ~HostGoes
        BY <1>2 DEF HostGoes
      <3> QED BY <1>1, <3>1, <3>2, <3>3, HostSteps DEF HostLeaves
    <2>2. CASE ~(tasks[j] # "none" \/ receipts[j] # "none" \/ j \in attached)
      <3>1. WorkStarts(j)
        BY <1>1, <1>2, <2>2, WorkSteps DEF WorkKept, WorkEnds
      <3>2. PICK f \in Frames(toHost) : f = [type |-> "request", job |-> j]
        BY <3>1, SafetyParts, RequestTaken DEF WorkStarts
      <3>3. Claimed(j) /\ job[j].generation = host.gen
        BY <1>1, <3>2 DEF ToHostIsTrue
      <3>4. Connected /\ UNCHANGED <<job, host>>
        BY <3>1 DEF WorkStarts, acceptNew, Request, Arriving, dbVars
      <3> QED BY <3>3, <3>4 DEF Connected
    <2> QED BY <2>1, <2>2
  <1>3. ASSUME ~Connected' PROVE attached' = {} /\ toHost' = <<>>
    <2>1. CASE Connected
      BY <1>1, <1>3, <2>1, HostSteps DEF Connected, HostGoes, HostLeaves
    <2>2. CASE ~Connected
      <3>1. attached = {} /\ toHost = <<>>
        BY <1>1, <2>2 DEF HostHoldsItsOwn
      <3>2. toHost' = <<>>
        BY <1>1, <2>2, <3>1, ToHostSteps
      <3>3. \A j \in Jobs : ~WorkStarts(j)
        BY <3>1 DEF WorkStarts, Request, Arriving
      <3>4. attached' \subseteq Jobs
        BY <1>1, TypeStep DEF TypeOK
      <3>5. attached' = {}
        BY <1>1, <3>1, <3>3, <3>4, WorkSteps DEF WorkKept, WorkEnds
      <3> QED BY <3>2, <3>5
    <2> QED BY <2>1, <2>2
  <1> QED BY <1>2, <1>3 DEF HostHoldsItsOwn, Connected

\* Generations only grow, and each is of one kind.
LEMMA KeepsGenerationsKnown ==
  ASSUME SafetyInv, [Next]_vars
  PROVE  GenerationsKnown'
  <1>1. TypeOK /\ DeadlineOnlyInflight /\ GenerationsKnown /\ SessionIsOfHost
    BY SafetyParts
  <1>2. /\ host.gen \in Nat
        /\ \A j \in Jobs : job[j].generation \in Nat
    BY <1>1 DEF TypeOK, HostState, JobRow
  <1>3. CASE host'.gen = host.gen + 1 /\ UNCHANGED job
    <2>1. host'.gen # 0 /\ \A j \in Jobs : job'[j].generation < host'.gen
      BY <1>1, <1>2, <1>3 DEF GenerationsKnown
    <2>2. \A j \in Jobs : job'[j].generation <= host'.gen
      BY <1>2, <1>3, <2>1
    <2> QED BY <1>1, <1>2, <1>3, <2>1, <2>2 DEF GenerationsKnown, Claimed
  <1>4. CASE host'.gen = host.gen /\ host'.recovery = host.recovery
    <2>1. ASSUME NEW j \in Jobs
          PROVE  /\ job'[j].generation <= host'.gen
                 /\ job'[j].generation = host'.gen => job'[j].recovery = host'.recovery
                 /\ ~Claimed(j)' => job'[j].generation = 0 /\ ~job'[j].recovery
      <3>1. CASE dispatch_next(j) /\ session.phase = "ready" /\ job'[j].generation = session.gen
                 /\ job'[j].recovery = session.recovery
        <4>1. Claimed(j)'
          <5>1. job'[j].status = "dispatching"
            BY <1>1, <3>1 DEF dispatch_next, TypeOK, JobRow
          <5> QED BY <5>1 DEF Claimed, Unclaimed
        <4> QED BY <1>1, <1>4, <3>1, <4>1 DEF SessionIsOfHost
      <3>2. CASE job'[j].generation = job[j].generation /\ job'[j].recovery = job[j].recovery
        <4>1. Claimed(j) => Claimed(j)'
          BY <1>1, RowStable
        <4> QED BY <1>1, <1>4, <3>2, <4>1 DEF GenerationsKnown
      <3> QED BY <1>1, <3>1, <3>2, RowStable
    <2> QED BY <1>1, <1>4, <2>1 DEF GenerationsKnown
  <1> QED BY <1>1, <1>3, <1>4, HostSteps

\* The gateway process goes down, recovers and serves; otherwise it stays what it is.
LEMMA GatewaySteps ==
  ASSUME [Next]_vars
  PROVE  \/ gateway' = gateway
         \/ gatewayStops /\ session' = NoSession /\ gateway' = "down" /\ toGateway' = <<>>
         \/ /\ recover_inflight /\ gateway = "down" /\ gateway' = "recovering"
            /\ session' = session
         \/ /\ serve /\ gateway = "recovering" /\ Unrecoverable = {} /\ gateway' = "up"
            /\ session' = session /\ job' = job
  <1> USE DEF gatewayVars, dbVars
  <1>1. CASE UNCHANGED vars
    BY <1>1 DEF vars
  <1>2. CASE Administration
    BY <1>2 DEF Administration, setEnabled, register, remove
  <1>3. CASE GatewayStep
    <2>1. CASE gatewayStops \/ recover_inflight \/ serve
      BY <2>1 DEF gatewayStops, recover_inflight, serve
    <2>2. CASE ~(gatewayStops \/ recover_inflight \/ serve)
      BY <1>3, <2>2 DEF GatewayStep, revoke, reconnect, welcome, sendRecover, response,
         accepted, missing, missingFails, heartbeat, revoked, sessionLost, disconnected, leave
    <2> QED BY <2>1, <2>2
  <1>4. ASSUME NEW j \in Jobs, submit(j) \/ deadlinePasses(j) \/ GatewayJobStep(j)
        PROVE  gateway' = gateway
    BY <1>4 DEF submit, deadlinePasses, GatewayJobStep, reconnectFinish, dispatch_next,
       dispatchRejected, connectionLost, housekeepQueued, housekeepInflight, recoverUnknown
  <1>5. ASSUME NEW j \in Jobs, HostJobStep(j) PROVE gateway' = gateway
    BY <1>5 DEF HostJobStep, acceptNew, acceptFull, reap, next_response, complete
  <1>6. CASE HostStep
    BY <1>6 DEF HostStep, upgrade, upgradeRejected, hello, hostStarts, hostCrashes,
       hostDisconnects, onWelcome, onDisconnect, onRecover, acknowledge
  <1> QED BY <1>1, <1>2, <1>3, <1>4, <1>5, <1>6 DEF Next

\* A session keeps the host it was made with until it is gone.
LEMMA SessionIdentity ==
  ASSUME TypeOK, [Next]_vars
  PROVE  \/ session' = NoSession
         \/ /\ hello /\ session.phase = "none" /\ gateway = "up" /\ session'.phase = "hello"
            /\ session'.gen = host.gen /\ session'.recovery = host.recovery
            /\ session'.pending = {} /\ session'.recovering = {}
            /\ \A j \in Jobs : session'.plan[j] = "none"
            /\ toHost' = <<>> /\ toGateway' = <<>> /\ UNCHANGED <<job, attached>>
         \/ /\ session'.gen = session.gen /\ session'.recovery = session.recovery
            /\ session'.phase # "none" <=> session.phase # "none"
            /\ session'.phase = "hello" => session.phase = "hello"
  <1>1. SessionStep
    BY SessionSteps
  <1>2. ASSUME NEW phase, NEW pending, NEW recovering, NEW plan,
               SessionWith(phase, pending, recovering, plan),
               phase # "none" <=> session.phase # "none", phase = "hello" => session.phase = "hello"
        PROVE  /\ session'.gen = session.gen /\ session'.recovery = session.recovery
               /\ session'.phase # "none" <=> session.phase # "none"
               /\ session'.phase = "hello" => session.phase = "hello"
    BY <1>2 DEF SessionWith
  <1>3. CASE SessionCloses \/ SessionHears
    BY <1>2, <1>3 DEF SessionCloses, SessionHears, Listening
  <1>4. CASE /\ hello /\ session.phase = "none" /\ gateway = "up" /\ UNCHANGED <<job, attached>>
             /\ session' = [NoSession EXCEPT !.phase = "hello", !.gen = host.gen,
                                   !.recovery = host.recovery, !.version = host.version]
             /\ toHost' = <<>> /\ toGateway' = <<>>
    BY <1>4 DEF NoSession
  <1> QED BY <1>1, <1>2, <1>3, <1>4 DEF SessionStep

\* While the session is new, nothing has been written or asked.
LEMMA NewSessionIsQuiet ==
  ASSUME SafetyInv, [Next]_vars, session.phase \in {"hello", "reconciling"},
         session'.phase \in {"hello", "reconciling"}
  PROVE  toHost' = <<>> /\ toGateway' = <<>> /\ attached' = {} /\ host'.conn # "on"
  <1>1. /\ TypeOK
        /\ toHost = <<>> /\ toGateway = <<>> /\ attached = {} /\ host.conn # "on"
    BY SafetyParts DEF SessionIsOfHost
  <1>2. \A f : f.type = "welcome" /\ welcome => FALSE
    <2>1. welcome => session'.phase = "ready"
      BY <1>1 DEF welcome, TypeOK, SessionState
    <2> QED BY <2>1
  <1>3. toHost' = <<>>
    <2>1. ASSUME NEW f, Written(f) PROVE FALSE
      <3>1. revoked => session'.phase = "closing"
        BY <1>1 DEF revoked, CloseGatewaySide, TypeOK, SessionState
      <3>2. \A j : ~dispatch_next(j)
        BY DEF dispatch_next, DispatchTick
      <3>3. ~response
        BY DEF response, Incoming
      <3> QED BY <1>2, <2>1, <3>1, <3>2, <3>3 DEF Written
    <2> QED BY <1>1, <2>1, ToHostSteps
  <1>4. \A j : ~Request(j) /\ ~acceptNew(j) /\ ~acceptFull(j)
    BY <1>1 DEF acceptNew, acceptFull, Request, Arriving
  <1>5. attached' = {}
    <2>1. attached' \subseteq Jobs
      BY <1>1, TypeStep DEF TypeOK
    <2> QED BY <1>1, <1>4, <2>1, WorkSteps DEF WorkKept, WorkStarts, WorkEnds
  <1>6. host'.conn # "on"
    BY <1>1, HostSteps DEF Arriving, HostGoes, HostLeaves
  <1>7. toGateway' = <<>>
    <2>1. ASSUME NEW f, Answered(f) PROVE FALSE
      <3>1. ~onRecover
        BY <1>1 DEF onRecover, Arriving
      <3>2. \A j : ~next_response(j)
        BY <1>1 DEF next_response
      <3> QED BY <1>1, <1>4, <2>1, <3>1, <3>2 DEF Answered
    <2> QED BY <1>1, <2>1, ToGatewaySteps
  <1> QED BY <1>3, <1>5, <1>6, <1>7

\* The session knows its host.
LEMMA KeepsSessionIsOfHost ==
  ASSUME SafetyInv, [Next]_vars
  PROVE  SessionIsOfHost'
  <1>1. TypeOK /\ SessionIsOfHost /\ HostHoldsItsOwn
    BY SafetyParts
  <1>2. session.gen \in Nat /\ host.gen \in Nat
    BY <1>1 DEF TypeOK, SessionState, HostState
  <1>3. NoSession.phase = "none" /\ NoSession.recovering = {}
        /\ \A j \in Jobs : NoSession.plan[j] = "none"
    BY DEF NoSession
  <1>4. gateway' # "up" => session'.phase = "none"
    BY <1>1, <1>3, GatewaySteps, SessionIdentity DEF SessionIsOfHost
  <1>5. ASSUME session'.phase # "none"
        PROVE  /\ session'.gen <= host'.gen
               /\ session'.gen = host'.gen => session'.recovery = host'.recovery
               /\ Connected' => session'.gen = host'.gen
    <2>1. CASE hello /\ session'.gen = host.gen /\ session'.recovery = host.recovery
      <3>1. host'.gen = host.gen /\ host'.recovery = host.recovery
        BY <1>1, <2>1 DEF hello, TypeOK, HostState
      <3> QED BY <1>2, <2>1, <3>1
    <2>2. CASE /\ session'.gen = session.gen /\ session'.recovery = session.recovery
               /\ session.phase # "none"
      <3>1. /\ session.gen <= host.gen
            /\ session.gen = host.gen => session.recovery = host.recovery
            /\ Connected => session.gen = host.gen
        BY <1>1, <2>2 DEF SessionIsOfHost
      <3>2. CASE host'.gen = host.gen + 1 /\ host'.conn = "off"
        BY <1>2, <2>2, <3>1, <3>2 DEF Connected
      <3>3. CASE host'.gen = host.gen /\ host'.recovery = host.recovery /\ (Connected' => Connected)
        BY <2>2, <3>1, <3>3
      <3>4. ~hello
        BY <2>2 DEF hello
      <3> QED BY <1>1, <3>2, <3>3, <3>4, HostSteps DEF Connected, HostGoes, HostLeaves
    <2> QED BY <1>1, <1>3, <1>5, <2>1, <2>2, SessionIdentity
  <1>6. ASSUME session'.phase \in {"hello", "reconciling"}
        PROVE  /\ toHost' = <<>> /\ toGateway' = <<>> /\ attached' = {} /\ host'.conn # "on"
               /\ session'.pending = {}
    <2>1. CASE hello
      <3>1. attached = {} /\ host'.conn = "hello"
        BY <1>1, <2>1 DEF hello, HostHoldsItsOwn, Connected, TypeOK, HostState
      <3> QED BY <2>1, <3>1 DEF hello, NoSession, hostVars
    <2>2. CASE ~hello
      <3>1. session.phase \in {"hello", "reconciling"} /\ session'.pending = session.pending
        <4>1. ~SessionHears /\ ~SessionCloses /\ session' # NoSession
          BY <1>6 DEF SessionHears, SessionCloses, SessionWith, NoSession
        <4> QED BY <1>1, <1>3, <1>6, <2>2, <4>1, SessionSteps DEF SessionStep, SessionWith
      <3> QED BY <1>1, <1>6, <3>1, NewSessionIsQuiet DEF SessionIsOfHost
    <2> QED BY <2>1, <2>2
  <1>7. ASSUME session'.phase \in {"none", "hello"}
        PROVE  session'.recovering = {} /\ Planned' = {}
    <2>1. session'.recovering = {} /\ \A j \in Jobs : session'.plan[j] = "none"
      <3>1. CASE session' = NoSession \/ hello
        <4>1. CASE session' = NoSession
          BY <1>3, <4>1
        <4>2. CASE hello
          <5>1. session' = [NoSession EXCEPT !.phase = "hello", !.gen = host.gen,
                                             !.recovery = host.recovery,
                                             !.version = host.version]
            BY <4>2 DEF hello
          <5>2. session'.recovering = NoSession.recovering /\ session'.plan = NoSession.plan
            BY <5>1 DEF NoSession
          <5> QED BY <1>3, <5>2
        <4> QED BY <3>1, <4>1, <4>2
      <3>2. CASE session' # NoSession /\ ~hello
        <4>1. SessionWith(session.phase, session.pending, session.recovering, session.plan)
              /\ session.phase \in {"none", "hello"}
          BY <1>1, <1>7, <3>2, SessionSteps
          DEF SessionStep, SessionWith, SessionHears, SessionCloses
        <4> QED BY <1>1, <4>1 DEF SessionWith, SessionIsOfHost, Planned
      <3> QED BY <3>1, <3>2
    <2> QED BY <2>1 DEF Planned
  <1>8. ASSUME ~Listening' PROVE toGateway' = <<>>
    <2>1. CASE Listening
      <3>1. SessionCloses \/ (session' = NoSession /\ gatewayStops)
        BY <1>1, <1>3, <1>8, <2>1, SessionSteps
        DEF SessionStep, SessionWith, SessionHears, Listening, leave
      <3> QED BY <1>1, <3>1 DEF SessionCloses, gatewayStops, SessionIsOfHost
    <2>2. CASE ~Listening
      BY <1>1, <2>2, ToGatewaySteps DEF SessionIsOfHost
    <2> QED BY <2>1, <2>2
  <1> QED BY <1>4, <1>5, <1>6, <1>7, <1>8 DEF SessionIsOfHost, Connected, Listening, Planned

\* reconnect reads the job, in flight, from the table.
Reconciles(j) ==
  /\ reconnect /\ session.phase = "hello" /\ session'.phase = "reconciling"
  /\ Inflight(j) /\ UNCHANGED <<job, wire>>

\* Where the session's jobs come from: reconnect, the tick, and what it had.
LEMMA SessionJobs ==
  ASSUME TypeOK, [Next]_vars, NEW j \in Jobs
  PROVE  /\ \/ session'.plan[j] \in {"none", session.plan[j]}
            \/ Reconciles(j) /\ session'.plan[j] = ReconnectCode(j)
         /\ j \in session'.pending \cup session'.recovering =>
              /\ session'.gen = session.gen /\ session'.recovery = session.recovery
              /\ \/ j \in session.pending \cup session.recovering
                 \/ dispatch_next(j)
                 \/ Reconciles(j) /\ ReconnectCode(j) = "none"
         /\ j \in session'.recovering =>
              j \in session.recovering \/ (Reconciles(j) /\ ReconnectCode(j) = "none")
  <1>1. SessionStep
    BY SessionSteps
  <1>2. session.plan \in [Jobs -> Code]
    BY DEF TypeOK, SessionState
  <1>3. CASE session' = NoSession \/ hello
    <2>1. NoSession.plan[j] = "none" /\ NoSession.pending = {} /\ NoSession.recovering = {}
      BY DEF NoSession
    <2>2. ASSUME hello
          PROVE  /\ session'.plan = NoSession.plan /\ session'.pending = NoSession.pending
                 /\ session'.recovering = NoSession.recovering
      BY <2>2 DEF hello, NoSession
    <2> QED BY <1>3, <2>1, <2>2
  <1>4. CASE /\ reconnect /\ session.phase = "hello" /\ UNCHANGED <<job, wire>>
             /\ SessionWith("reconciling", session.pending,
                    {i \in Jobs : Inflight(i) /\ ReconnectCode(i) = "none"},
                    [i \in Jobs |-> IF Inflight(i) THEN ReconnectCode(i) ELSE "none"])
    BY <1>4 DEF SessionWith, Reconciles
  <1>5. ASSUME NEW i \in Planned,
               SessionWith("reconciling", session.pending, session.recovering,
                           [session.plan EXCEPT ![i] = "none"])
        PROVE  /\ session'.plan[j] \in {"none", session.plan[j]}
               /\ session'.pending = session.pending /\ session'.recovering = session.recovering
               /\ session'.gen = session.gen /\ session'.recovery = session.recovery
    BY <1>2, <1>5 DEF SessionWith
  <1>6. ASSUME NEW phase, NEW pending, NEW recovering \in SUBSET session.recovering,
               SessionWith(phase, pending, recovering, session.plan),
               j \in pending => j \in session.pending \cup session.recovering \/ dispatch_next(j)
        PROVE  /\ session'.plan[j] \in {"none", session.plan[j]}
               /\ j \in session'.pending \cup session'.recovering =>
                    /\ session'.gen = session.gen /\ session'.recovery = session.recovery
                    /\ j \in session.pending \cup session.recovering \/ dispatch_next(j)
               /\ j \in session'.recovering => j \in session.recovering
    BY <1>6 DEF SessionWith
  <1>7. CASE SessionHears \/ SessionCloses
    BY <1>6, <1>7 DEF SessionHears, SessionCloses
  <1>8. ASSUME NEW i \in Jobs, dispatch_next(i),
               SessionWith("ready", session.pending \cup {i}, session.recovering, session.plan)
        PROVE  /\ session'.plan[j] \in {"none", session.plan[j]}
               /\ j \in session'.pending \cup session'.recovering =>
                    /\ session'.gen = session.gen /\ session'.recovery = session.recovery
                    /\ j \in session.pending \cup session.recovering \/ dispatch_next(j)
               /\ j \in session'.recovering => j \in session.recovering
    BY <1>6, <1>8
  <1>9. session.recovering \in SUBSET session.recovering
        /\ session.recovering \ {First(session.recovering)} \in SUBSET session.recovering
    OBVIOUS
  <1> QED BY <1>1, <1>3, <1>4, <1>5, <1>6, <1>7, <1>8, <1>9 DEF SessionStep

\* The session's lists speak of claimed jobs of its own generation.
LEMMA KeepsSessionKnowsJobs ==
  ASSUME SafetyInv, [Next]_vars
  PROVE  SessionKnowsJobs'
  <1>1. /\ TypeOK /\ DeadlineOnlyInflight /\ SessionKnowsJobs /\ SessionIsOfHost
        /\ InflightIsWatched
    BY SafetyParts
  <1>2. SUFFICES ASSUME NEW j \in Jobs
        PROVE  /\ session'.plan[j] \in {"none", "recovery_unavailable", "runtime_replaced"}
               /\ session'.plan[j] # "none" => Claimed(j)'
               /\ j \in session'.pending \cup session'.recovering =>
                    /\ Claimed(j)' /\ job'[j].generation = session'.gen
                    /\ job'[j].recovery = session'.recovery
               /\ j \in session'.recovering => session'.recovery /\ Recovering(j)'
    BY DEF SessionKnowsJobs, Claimed, Recovering, Inflight, Requested
  <1>3. /\ session.plan[j] \in {"none", "recovery_unavailable", "runtime_replaced"}
        /\ session.plan[j] # "none" => Claimed(j)
        /\ j \in session.pending \cup session.recovering =>
             /\ Claimed(j) /\ job[j].generation = session.gen
             /\ job[j].recovery = session.recovery
        /\ j \in session.recovering => session.recovery /\ Recovering(j)
    BY <1>1 DEF SessionKnowsJobs
  <1>4. /\ Claimed(j) => /\ Claimed(j)' /\ job'[j].generation = job[j].generation
                         /\ job'[j].recovery = job[j].recovery
        /\ Recovering(j) => Recovering(j)'
    BY <1>1, RowStable, RecoveringStable
  <1>5. Inflight(j) => Claimed(j)
    BY <1>1, RowStatus
  <1>6. ASSUME dispatch_next(j)
        PROVE  /\ Claimed(j)' /\ job'[j].generation = session.gen
               /\ job'[j].recovery = session.recovery
    <2>1. /\ job'[j].status = "dispatching" /\ job'[j].generation = session.gen
          /\ job'[j].recovery = session.recovery
      BY <1>1, <1>6 DEF dispatch_next, TypeOK, JobRow
    <2> QED BY <2>1 DEF Claimed, Unclaimed
  <1>7. ASSUME session.phase = "hello", Inflight(j), ReconnectCode(j) = "none"
        PROVE  /\ session.recovery /\ Recovering(j) /\ job[j].generation = session.gen
               /\ job[j].recovery
    <2>1. session.recovery /\ job[j].recovery /\ job[j].generation = session.gen
      BY <1>7 DEF ReconnectCode
    <2>2. gateway = "up" /\ toHost = <<>>
      BY <1>1, <1>7 DEF SessionIsOfHost
    <2>3. job[j].deadline # "none"
      BY <1>1, <1>7, <2>2 DEF InflightIsWatched
    <2>4. j \notin Requested
      BY <2>2 DEF Requested
    <2> QED BY <1>5, <1>7, <2>1, <2>3, <2>4 DEF Recovering
  <1>8. session.recovery \in BOOLEAN /\ job[j].recovery \in BOOLEAN
    BY <1>1 DEF TypeOK, SessionState, JobRow
  <1>9. ReconnectCode(j) \in {"none", "recovery_unavailable", "runtime_replaced"}
    BY DEF ReconnectCode
  <1>10. session'.plan[j] \in {"none", "recovery_unavailable", "runtime_replaced"}
         /\ (session'.plan[j] # "none" => Claimed(j)')
    BY <1>1, <1>3, <1>4, <1>5, <1>9, SessionJobs DEF Reconciles
  <1>11. ASSUME j \in session'.pending \cup session'.recovering
         PROVE  /\ Claimed(j)' /\ job'[j].generation = session'.gen
                /\ job'[j].recovery = session'.recovery
    BY <1>1, <1>3, <1>4, <1>5, <1>6, <1>7, <1>8, <1>11, SessionJobs DEF Reconciles
  <1>12. ASSUME j \in session'.recovering
         PROVE  session'.recovery /\ Recovering(j)'
    BY <1>1, <1>3, <1>4, <1>7, <1>12, SessionJobs DEF Reconciles
  <1> QED BY <1>10, <1>11, <1>12

\* What is on its way to the host is true when it is written and stays true.
LEMMA KeepsToHostIsTrue ==
  ASSUME SafetyInv, [Next]_vars
  PROVE  ToHostIsTrue'
  <1>1. /\ TypeOK /\ DeadlineOnlyInflight /\ ToHostIsTrue /\ SessionKnowsJobs
        /\ SessionIsOfHost /\ HostHoldsItsOwn /\ ToGatewayIsTrue
    BY SafetyParts
  <1>2. SUFFICES ASSUME NEW f \in Frames(toHost)'
        PROVE  /\ f.type \in {"request", "recover"} =>
                    Claimed(f.job)' /\ job'[f.job].generation = host'.gen
               /\ f.type = "recover" => host'.recovery /\ Recovering(f.job)'
               /\ f.type = "acknowledge" => terminal(job'[f.job].status)
    BY DEF ToHostIsTrue, Claimed, Recovering, Inflight, Requested
  <1>3. toHost \in Seq(GatewayFrame)
    BY <1>1 DEF TypeOK
  <1>4. CASE f \in Frames(toHost)
    <2>1. f \in GatewayFrame /\ toHost # <<>>
      BY <1>3, <1>4, FramesType, FramesNone
    <2>2. host'.gen = host.gen /\ host'.recovery = host.recovery
      BY <1>1, <2>1, HostSteps DEF HostHoldsItsOwn, Connected
    <2>3. ASSUME f.type \in {"request", "recover", "acknowledge"}
          PROVE  /\ f.type \in {"request", "recover"} =>
                      Claimed(f.job)' /\ job'[f.job].generation = host'.gen
                 /\ f.type = "recover" => host'.recovery /\ Recovering(f.job)'
                 /\ f.type = "acknowledge" => terminal(job'[f.job].status)
      <3>1. f.job \in Jobs
        BY <2>1, <2>3, GatewayFrameJob
      <3>2. PICK j \in Jobs : j = f.job
        BY <3>1
      <3>3. /\ f.type \in {"request", "recover"} =>
                 Claimed(j) /\ job[j].generation = host.gen
            /\ f.type = "recover" => host.recovery /\ Recovering(j)
            /\ f.type = "acknowledge" => terminal(job[j].status)
        BY <1>1, <1>4, <3>2 DEF ToHostIsTrue
      <3>4. /\ Claimed(j) => Claimed(j)' /\ job'[j].generation = job[j].generation
            /\ Recovering(j) => Recovering(j)'
            /\ terminal(job[j].status) => job'[j] = job[j]
        BY <1>1, RowStable, RecoveringStable
      <3>5. /\ f.type \in {"request", "recover"} =>
                 Claimed(j)' /\ job'[j].generation = host'.gen
            /\ f.type = "recover" => host'.recovery /\ Recovering(j)'
            /\ f.type = "acknowledge" => terminal(job'[j].status)
        BY <2>2, <3>3, <3>4
      <3> QED BY <3>2, <3>5
    <2> QED BY <2>3
  <1>5. CASE Connected /\ f \in GatewayFrame /\ Written(f)
    <2>1. CASE f.type \in {"welcome", "disconnect"}
      BY <2>1
    <2>2. CASE f.type = "request" /\ f.job \in Jobs /\ dispatch_next(f.job)
      <3>1. PICK j \in Jobs : j = f.job
        BY <2>2
      <3>2. /\ job'[j].status = "dispatching" /\ job'[j].generation = session.gen
            /\ host' = host /\ session.phase = "ready"
        BY <1>1, <2>2, <3>1 DEF dispatch_next, DispatchTick, TypeOK, JobRow, hostVars
      <3>3. session.gen = host.gen
        BY <1>1, <1>5, <3>2 DEF SessionIsOfHost
      <3>4. Claimed(j)' /\ job'[j].generation = host'.gen
        BY <3>2, <3>3 DEF Claimed, Unclaimed
      <3> QED BY <2>2, <3>1, <3>4
    <2>3. CASE /\ f.type = "recover" /\ sendRecover /\ session.phase = "ready"
               /\ f.job \in session.recovering \cap session.pending
      <3>1. session.pending \subseteq Jobs
        BY <1>1 DEF TypeOK, SessionState
      <3>2. PICK j \in Jobs : j = f.job
        BY <2>3, <3>1
      <3>3. /\ Claimed(j) /\ job[j].generation = session.gen /\ session.recovery
            /\ Recovering(j)
        BY <1>1, <2>3, <3>2 DEF SessionKnowsJobs
      <3>4. session.gen = host.gen /\ session.recovery = host.recovery
        BY <1>1, <1>5, <2>3 DEF SessionIsOfHost
      <3>5. UNCHANGED <<job, host>>
        BY <2>3 DEF sendRecover, dbVars, hostVars
      <3>6. Claimed(j)' /\ Recovering(j)'
        BY <1>1, <3>3, RowStable, RecoveringStable
      <3>7. Claimed(j)' /\ job'[j].generation = host'.gen /\ host'.recovery /\ Recovering(j)'
        BY <3>3, <3>4, <3>5, <3>6
      <3> QED BY <2>3, <3>2, <3>7
    <2>4. CASE /\ f.type = "acknowledge" /\ response /\ toGateway # <<>>
               /\ f.job = Head(toGateway).job /\ ResponseMatches(f.job)
               /\ job' = [job EXCEPT ![f.job] = ResponseRow(@, Head(toGateway).result)]
      <3>1. PICK j \in Jobs : j = f.job
        BY <1>1, <2>4, HeadOfToGateway
      <3>2. job'[j] = ResponseRow(job[j], Head(toGateway).result)
        BY <1>1, <2>4, <3>1 DEF TypeOK
      <3>3. Claimed(j) /\ job[j] \in JobRow
        BY <1>1, <2>4, <3>1, RowStatus DEF ResponseMatches, Claimed, Unclaimed
      <3>4. terminal(job'[j].status)
        BY <1>1, <3>2, <3>3, RowStatus, EndedByResponse DEF Claimed, Unclaimed
      <3> QED BY <2>4, <3>1, <3>4
    <2> QED BY <1>5, <2>1, <2>2, <2>3, <2>4 DEF Written
  <1> QED BY <1>1, <1>2, <1>4, <1>5, NewFrames

\* What a receipt says of a claimed job is true; what it cannot say is that work
\* which may be running has not been started.
LEMMA ReceiptIsTrue ==
  ASSUME SafetyInv, NEW j \in Jobs, NEW f, f = ReceiptMessage(j)
  PROVE  /\ f.job = j /\ f.type \in {"response", "accepted", "missing"}
         /\ f.type = "response" => f.result \in Result /\ outcome[j] = f.result
         /\ f.type = "accepted" => starts[j] > 0
         /\ f.type = "missing" <=> receipts[j] = "none"
  <1>1. WorkIsRecorded /\ receipts[j] \in ReceiptState /\ starts[j] \in Nat
    BY SafetyParts DEF TypeOK
  <1>2. "none" \notin Result /\ "accepted" \notin Result
    BY DEF Result
  <1>3. CASE receipts[j] \in Result
    BY <1>1, <1>2, <1>3 DEF ReceiptMessage, WorkIsRecorded
  <1>4. CASE receipts[j] = "accepted"
    BY <1>1, <1>2, <1>4 DEF ReceiptMessage, WorkIsRecorded
  <1>5. CASE receipts[j] = "none"
    BY <1>2, <1>5 DEF ReceiptMessage
  <1> QED BY <1>1, <1>3, <1>4, <1>5 DEF ReceiptState

\* An answer is about a claimed job of the connection's generation, and true.
AnswerIsTrue(f) ==
  /\ Claimed(f.job) /\ job[f.job].generation = session.gen
  /\ f.type = "response" =>
       outcome[f.job] = f.result \/ (f.result = "err" /\ GivenUp(f.job))
  /\ f.type = "accepted" => starts[f.job] > 0
  /\ f.type = "missing" =>
       /\ session.recovery /\ Recovering(f.job)
       /\ starts[f.job] = 0 \/ terminal(job[f.job].status)

\* An answer of the host is true when it is written.
LEMMA NewAnswerIsTrue ==
  ASSUME SafetyInv, [Next]_vars, Listening, session' = session,
         NEW f \in HostFrame, Answered(f)
  PROVE  AnswerIsTrue(f)'
  <1>1. /\ TypeOK /\ DeadlineOnlyInflight /\ ToHostIsTrue /\ SessionIsOfHost
        /\ HostHoldsItsOwn /\ RequestsAreFresh /\ WorkIsRecorded /\ ReceiptHeldUntilDurable
    BY SafetyParts
  <1>2. PICK j \in Jobs : j = f.job
    BY HostFrameJob
  <1>3. Connected => session.gen = host.gen /\ session.recovery = host.recovery
    BY <1>1 DEF SessionIsOfHost, Listening
  <1>4. /\ Claimed(j) => Claimed(j)' /\ job'[j].generation = job[j].generation
        /\ Recovering(j) => Recovering(j)'
        /\ terminal(job[j].status) => job'[j] = job[j]
    BY <1>1, RowStable, RecoveringStable
  <1>5. /\ starts[j] > 0 => starts'[j] > 0
        /\ outcome[j] # "none" => outcome'[j] = outcome[j]
        /\ starts[j] \in Nat
    BY <1>1, WorkStable DEF TypeOK
  <1>6. "none" \notin Result
    BY DEF Result
  <1>7. CASE f.type = "accepted" /\ acceptNew(j)
    <2>1. Request(j)
      BY <1>7 DEF acceptNew
    <2>2. PICK g \in Frames(toHost) : g = [type |-> "request", job |-> j]
      BY <1>1, <2>1, RequestTaken
    <2>3. Claimed(j) /\ job[j].generation = session.gen
      BY <1>1, <1>3, <2>1, <2>2, RequestTaken DEF ToHostIsTrue
    <2>4. starts'[j] > 0
      BY <1>1, <1>7, AcceptStarts
    <2> QED BY <1>2, <1>4, <1>7, <2>3, <2>4 DEF AnswerIsTrue
  <1>8. CASE acceptFull(j)
             /\ \/ receipts[j] # "none" /\ f = ReceiptMessage(j)
                \/ receipts[j] = "none" /\ f.type = "response" /\ f.result = "err"
    <2>1. Request(j) /\ UNCHANGED <<job, starts>>
      BY <1>8 DEF acceptFull, dbVars, history
    <2>2. PICK g \in Frames(toHost) : g = [type |-> "request", job |-> j]
      BY <1>1, <2>1, RequestTaken
    <2>3. /\ Claimed(j) /\ job[j].generation = session.gen
          /\ starts[j] = 0 /\ j \notin Requested'
      BY <1>1, <1>3, <2>1, <2>2, RequestTaken DEF ToHostIsTrue
    <2>4. receipts[j] = "none"
      BY <1>1, <2>3 DEF WorkIsRecorded
    <2>5. GivenUp(j)'
      BY <1>4, <2>1, <2>3 DEF GivenUp
    <2> QED BY <1>2, <1>4, <1>8, <2>3, <2>4, <2>5 DEF AnswerIsTrue
  <1>9. CASE f.type = "response" /\ complete(j, f.result) /\ j \in attached
    <2>1. outcome'[j] = f.result
      BY <1>1, <1>9 DEF complete, TypeOK
    <2>2. Connected
      BY <1>1, <1>9 DEF HostHoldsItsOwn
    <2>3. Claimed(j) /\ job[j].generation = session.gen
      BY <1>1, <1>3, <1>9, <2>2, HeldIsClaimed DEF HostHoldsItsOwn
    <2> QED BY <1>2, <1>4, <1>9, <2>1, <2>3 DEF AnswerIsTrue
  <1>10. CASE next_response(j) /\ f = ReceiptMessage(j)
    <2>1. Connected /\ receipts[j] # "none"
      BY <1>6, <1>10 DEF next_response, Connected
    <2>2. Claimed(j) /\ job[j].generation = session.gen
      BY <1>1, <1>3, <2>1, HeldIsClaimed DEF HostHoldsItsOwn
    <2>3. /\ f.type = "response" => outcome'[j] = f.result
          /\ f.type = "accepted" => starts'[j] > 0
          /\ f.type # "missing"
      BY <1>5, <1>6, <1>10, <2>1, ReceiptIsTrue
    <2> QED BY <1>2, <1>4, <2>2, <2>3 DEF AnswerIsTrue
  <1>11. CASE onRecover /\ Arriving("recover") /\ j = Head(toHost).job /\ f = ReceiptMessage(j)
    <2>1. Connected /\ toHost # <<>> /\ Head(toHost).type = "recover"
      BY <1>11 DEF Arriving
    <2>2. /\ Claimed(j) /\ job[j].generation = host.gen
          /\ host.recovery /\ Recovering(j)
      BY <1>1, <1>11, <2>1, HeadOfToHost DEF ToHostIsTrue
    <2>3. /\ f.type = "response" => outcome'[j] = f.result
          /\ f.type = "accepted" => starts'[j] > 0
      BY <1>5, <1>6, <1>11, ReceiptIsTrue
    <2>4. ASSUME f.type = "missing"
          PROVE  session'.recovery /\ (starts'[j] = 0 \/ terminal(job'[j].status))
      <3>1. receipts[j] = "none"
        BY <1>11, <2>4, ReceiptIsTrue
      <3>2. starts[j] > 0 => terminal(job[j].status)
        BY <1>1, <2>1, <2>2, <3>1 DEF ReceiptHeldUntilDurable, Connected
      <3>3. starts'[j] = starts[j]
        BY <1>11 DEF onRecover, history
      <3>4. session'.recovery
        BY <1>3, <2>1, <2>2
      <3>5. starts[j] = 0 \/ starts[j] > 0
        BY <1>5
      <3> QED BY <1>4, <3>2, <3>3, <3>4, <3>5
    <2> QED BY <1>2, <1>3, <1>4, <2>1, <2>2, <2>3, <2>4 DEF AnswerIsTrue
  <1> QED BY <1>2, <1>7, <1>8, <1>9, <1>10, <1>11 DEF Answered

\* What is on its way to the gateway is true when it is written and stays true.
LEMMA KeepsToGatewayIsTrue ==
  ASSUME SafetyInv, [Next]_vars
  PROVE  ToGatewayIsTrue'
  <1>1. /\ TypeOK /\ DeadlineOnlyInflight /\ ToGatewayIsTrue /\ SessionIsOfHost
        /\ WorkIsRecorded /\ RequestsAreFresh
    BY SafetyParts
  <1>2. toGateway \in Seq(HostFrame)
    BY <1>1 DEF TypeOK
  <1>3. ASSUME NEW f \in Frames(toGateway), Frames(toGateway)' # {} PROVE AnswerIsTrue(f)'
    <2>1. f \in HostFrame /\ toGateway # <<>>
      BY <1>2, <1>3, FramesType, FramesNone
    <2>2. PICK j \in Jobs : j = f.job
      BY <2>1, HostFrameJob
    <2>3. session'.gen = session.gen /\ session'.recovery = session.recovery
      <3>1. session.phase # "none" /\ Listening
        BY <1>1, <2>1 DEF SessionIsOfHost, Listening
      <3>2. session' # NoSession
        <4>1. SUFFICES ASSUME session' = NoSession PROVE FALSE
          OBVIOUS
        <4>2. toGateway' = <<>>
          BY <1>1, <4>1, KeepsSessionIsOfHost DEF NoSession, Listening, SessionIsOfHost
        <4> QED BY <1>3, <4>2 DEF Frames
      <3> QED BY <1>1, <3>1, <3>2, SessionIdentity
    <2>4. AnswerIsTrue(f)
      BY <1>1 DEF ToGatewayIsTrue, AnswerIsTrue
    <2>5. /\ Claimed(j) => Claimed(j)' /\ job'[j].generation = job[j].generation
          /\ Recovering(j) => Recovering(j)'
          /\ GivenUp(j) => GivenUp(j)'
          /\ terminal(job[j].status) => job'[j] = job[j]
      BY <1>1, RowStable, RecoveringStable, GivenUpStable
    <2>6. /\ starts[j] > 0 => starts'[j] > 0
          /\ outcome[j] # "none" => outcome'[j] = outcome[j]
          /\ starts'[j] = starts[j] \/ j \in Requested
          /\ starts[j] \in Nat
      BY <1>1, WorkStable DEF TypeOK
    <2>7. f.type = "response" => f.result # "none"
      BY <2>1, HostFrameResult DEF Result
    <2>8. Recovering(j) => j \notin Requested
      BY DEF Recovering
    <2> QED BY <2>2, <2>3, <2>4, <2>5, <2>6, <2>7, <2>8 DEF AnswerIsTrue
  <1>4. \A f \in Frames(toGateway)' : AnswerIsTrue(f)'
    BY <1>1, <1>3, NewAnswerIsTrue, NewFrames
  <1> QED BY <1>4 DEF ToGatewayIsTrue, AnswerIsTrue

\* A living host drops a receipt only once the row has ended.
LEMMA KeepsReceiptHeldUntilDurable ==
  ASSUME SafetyInv, [Next]_vars
  PROVE  ReceiptHeldUntilDurable'
  <1>1. /\ TypeOK /\ DeadlineOnlyInflight /\ ReceiptHeldUntilDurable /\ ToHostIsTrue
        /\ RequestsAreFresh /\ WorkIsRecorded /\ GenerationsKnown
    BY SafetyParts
  <1>2. SUFFICES ASSUME NEW j \in Jobs, starts'[j] > 0, host'.recovery, host'.conn # "down",
                        job'[j].generation = host'.gen, receipts'[j] = "none"
                 PROVE  terminal(job[j].status) /\ job'[j] = job[j]
    BY DEF ReceiptHeldUntilDurable, terminal
  <1>3. starts[j] \in Nat /\ host.gen \in Nat /\ job[j].generation \in Nat
    BY <1>1 DEF TypeOK, HostState, JobRow
  <1>4. SUFFICES terminal(job[j].status)
    BY <1>1, RowStable
  <1>5. host'.gen = host.gen /\ host'.recovery = host.recovery /\ host.conn # "down"
    <2>1. ~(host'.gen = host.gen + 1 /\ UNCHANGED job)
      BY <1>1, <1>2, <1>3 DEF GenerationsKnown
    <2> QED BY <1>1, <1>2, <2>1, HostSteps DEF HostGoes, HostLeaves, Arriving,
               Connected
  <1>6. ASSUME starts[j] > 0, receipts[j] = "none" PROVE terminal(job[j].status)
    <2>1. job[j].generation = host.gen
      BY <1>1, <1>2, <1>5, <1>6, HeldIsClaimed, RowStable
    <2> QED BY <1>1, <1>2, <1>5, <1>6, <2>1 DEF ReceiptHeldUntilDurable
  <1>7. "none" \notin Result
    BY DEF Result
  <1>8. CASE WorkKept(j)
    <2>1. starts[j] > 0
      BY <1>2, <1>8 DEF WorkKept
    <2>2. CASE receipts[j] # "none"
      <3>1. Arriving("acknowledge") /\ j = Head(toHost).job
        BY <1>2, <1>8, <2>2 DEF WorkKept
      <3> QED BY <1>1, <3>1, HeadOfToHost DEF Arriving, ToHostIsTrue
    <2> QED BY <1>6, <2>1, <2>2
  <1>9. CASE WorkStarts(j)
    BY <1>2, <1>5, <1>9 DEF WorkStarts
  <1>10. CASE WorkEnds(j)
    BY <1>2, <1>5, <1>7, <1>10 DEF WorkEnds
  <1> QED BY <1>1, <1>8, <1>9, <1>10, WorkSteps

\* What the row of an unfinished job is when finish ends it.
LEMMA FinishedRowFields ==
  ASSUME NEW row \in JobRow, NEW s \in TerminalStatus, NEW c
  PROVE  \/ FinishedRow(row, s, c) = row /\ row.status \notin {"queued"} \cup InflightStatus
         \/ /\ FinishedRow(row, s, c).status = s /\ FinishedRow(row, s, c).code = c
            /\ row.status \in {"queued"} \cup InflightStatus
  BY DEF FinishedRow, JobRow

\* A row says how its job ended.
LEMMA KeepsRowsAreHonest ==
  ASSUME SafetyInv, [Next]_vars
  PROVE  RowsAreHonest'
  <1>1. /\ TypeOK /\ DeadlineOnlyInflight /\ RowsAreHonest /\ ToGatewayIsTrue
        /\ RequestsAreFresh /\ WorkIsRecorded /\ SessionKnowsJobs
    BY SafetyParts
  <1>2. SUFFICES ASSUME NEW j \in Jobs
        PROVE  /\ job'[j].status = "succeeded" => outcome'[j] = "ok"
               /\ job'[j].status = "failed" => outcome'[j] = "err" \/ GivenUp(j)'
               /\ job'[j].code \in NeverRanCodes => GivenUp(j)' /\ terminal(job'[j].status)
    BY DEF RowsAreHonest, GivenUp, Claimed, Requested, terminal
  <1>3. /\ GivenUp(j) => GivenUp(j)'
        /\ outcome[j] # "none" => outcome'[j] = outcome[j]
        /\ Claimed(j) => Claimed(j)'
        /\ job[j] \in JobRow
    BY <1>1, GivenUpStable, WorkStable, RowStable, RowStatus
  <1>4. ASSUME job'[j].status = job[j].status, job'[j].code = job[j].code
        PROVE  /\ job'[j].status = "succeeded" => outcome'[j] = "ok"
               /\ job'[j].status = "failed" => outcome'[j] = "err" \/ GivenUp(j)'
               /\ job'[j].code \in NeverRanCodes => GivenUp(j)' /\ terminal(job'[j].status)
    BY <1>1, <1>3, <1>4 DEF RowsAreHonest
  <1>5. ASSUME ~terminal(job[j].status) PROVE job[j].code \notin NeverRanCodes
    BY <1>1, <1>5 DEF RowsAreHonest
  <1>6. ASSUME job'[j].status \notin {"succeeded", "failed"}, job'[j].code \notin NeverRanCodes
        PROVE  /\ job'[j].status = "succeeded" => outcome'[j] = "ok"
               /\ job'[j].status = "failed" => outcome'[j] = "err" \/ GivenUp(j)'
               /\ job'[j].code \in NeverRanCodes => GivenUp(j)' /\ terminal(job'[j].status)
    BY <1>6
  <1>7. CASE submit(j) /\ job[j].status = "absent" /\ job'[j].status = "queued"
             /\ job'[j].code = job[j].code
    BY <1>5, <1>6, <1>7 DEF terminal, TerminalStatus
  <1>8. CASE dispatch_next(j) /\ job[j].status = "queued"
             /\ job'[j] = [job[j] EXCEPT !.status = "dispatching", !.generation = session.gen,
                                         !.recovery = session.recovery]
    <2>1. job'[j].status = "dispatching" /\ job'[j].code = job[j].code
      BY <1>3, <1>8 DEF JobRow
    <2> QED BY <1>5, <1>6, <1>8, <2>1 DEF terminal, TerminalStatus
  <1>9. CASE ByClock(j)
    <2>1. job'[j].status = job[j].status /\ job'[j].code = job[j].code
      BY <1>3, <1>9 DEF ByClock, Armed, JobRow
    <2> QED BY <1>4, <2>1
  <1>10. ASSUME NEW s \in TerminalStatus, NEW c, job'[j] = FinishedRow(job[j], s, c),
                job[j].status \in {"queued"} \cup InflightStatus =>
                  /\ s = "succeeded" => outcome'[j] = "ok"
                  /\ s = "failed" => outcome'[j] = "err" \/ GivenUp(j)'
                  /\ c \in NeverRanCodes => GivenUp(j)'
         PROVE  /\ job'[j].status = "succeeded" => outcome'[j] = "ok"
                /\ job'[j].status = "failed" => outcome'[j] = "err" \/ GivenUp(j)'
                /\ job'[j].code \in NeverRanCodes => GivenUp(j)' /\ terminal(job'[j].status)
    <2>1. CASE job'[j] = job[j]
      BY <1>4, <2>1
    <2>2. CASE /\ job'[j].status = s /\ job'[j].code = c
               /\ job[j].status \in {"queued"} \cup InflightStatus
      BY <1>10, <2>2 DEF terminal
    <2> QED BY <1>3, <1>10, <2>1, <2>2, FinishedRowFields
  <1>11. CASE ByFrame(j)
    <2>1. /\ toGateway # <<>> /\ j = Head(toGateway).job
          /\ AnswerIsTrue(Head(toGateway)) /\ Head(toGateway) \in HostFrame
      BY <1>1, <1>11, HeadOfToGateway DEF ByFrame, ToGatewayIsTrue, AnswerIsTrue
    <2>2. CASE /\ Head(toGateway).type = "response"
               /\ job'[j] = ResponseRow(job[j], Head(toGateway).result)
      <3>1. /\ Head(toGateway).result \in Result
            /\ \/ outcome'[j] = Head(toGateway).result
               \/ Head(toGateway).result = "err" /\ GivenUp(j)'
        BY <1>3, <2>1, <2>2, HostFrameResult DEF AnswerIsTrue, Result
      <3>2. CASE job[j].deadline = "expired"
        <4>1. job'[j] = FinishedRow(job[j], "unknown", "recovery_unavailable")
          BY <2>2, <3>2 DEF ResponseRow
        <4> QED BY <1>10, <4>1 DEF TerminalStatus, NeverRanCodes
      <3>3. CASE job[j].deadline # "expired" /\ Head(toGateway).result = "ok"
        <4>1. job'[j] = FinishedRow(job[j], "succeeded", "response")
          BY <2>2, <3>3 DEF ResponseRow
        <4> QED BY <1>10, <3>1, <3>3, <4>1 DEF TerminalStatus, NeverRanCodes
      <3>4. CASE job[j].deadline # "expired" /\ Head(toGateway).result = "err"
        <4>1. job'[j] = FinishedRow(job[j], "failed", "response")
          BY <2>2, <3>4 DEF ResponseRow
        <4> QED BY <1>10, <3>1, <3>4, <4>1 DEF TerminalStatus, NeverRanCodes
      <3> QED BY <3>1, <3>2, <3>3, <3>4 DEF Result
    <2>3. CASE Head(toGateway).type = "accepted" /\ job'[j] = AcceptedRow(job[j])
      <3>1. CASE job'[j] = job[j]
        BY <1>4, <3>1
      <3>2. CASE /\ job'[j].status = "waiting_response" /\ job'[j].code = job[j].code
                 /\ job[j].status \in InflightStatus
        BY <1>5, <1>6, <3>2 DEF terminal, TerminalStatus, InflightStatus
      <3> QED BY <1>3, <2>3, <3>1, <3>2 DEF AcceptedRow, JobRow
    <2>4. CASE /\ Head(toGateway).type = "missing"
               /\ job'[j] = FinishedRow(job[j], "unknown", "receipt_missing")
      <3>1. Recovering(j) /\ (starts[j] = 0 \/ terminal(job[j].status))
        BY <2>1, <2>4 DEF AnswerIsTrue
      <3>2. job[j].status \in {"queued"} \cup InflightStatus => GivenUp(j)'
        BY <1>3, <3>1 DEF GivenUp, Recovering, terminal, TerminalStatus, InflightStatus
      <3> QED BY <1>10, <2>4, <3>2 DEF TerminalStatus
    <2> QED BY <1>11, <2>2, <2>3, <2>4 DEF ByFrame
  <1>12. CASE ByFinish(j)
    <2>1. ASSUME NEW c \in NeverRanCodes, job[j].status = "queued",
                 job'[j] = FinishedRow(job[j], "failed", c)
          PROVE  GivenUp(j)'
      <3>1. starts[j] = 0 /\ j \notin Requested
        BY <1>1, <2>1 DEF RequestsAreFresh, Unclaimed
      <3>2. job'[j].status = "failed"
        BY <1>3, <2>1, FinishedRowFields DEF TerminalStatus
      <3>3. starts'[j] = 0
        BY <1>1, <3>1, WorkStable
      <3>4. ~dispatch_next(j)
        BY <1>1, <3>2 DEF dispatch_next, TypeOK, JobRow
      <3>5. j \notin Requested'
        BY <1>1, <3>1, <3>4, RequestedSteps
      <3> QED BY <3>2, <3>3, <3>5 DEF GivenUp, Claimed, Unclaimed
    <2>2. CASE job[j].status = "queued"
               /\ \E c \in NeverRanCodes : job'[j] = FinishedRow(job[j], "failed", c)
      BY <1>10, <2>1, <2>2 DEF TerminalStatus
    <2>3. ASSUME NEW c \in LostCodes \cup {session.plan[j]}, c # "none",
                 job'[j] = FinishedRow(job[j], "unknown", c)
          PROVE  /\ job'[j].status = "succeeded" => outcome'[j] = "ok"
                 /\ job'[j].status = "failed" => outcome'[j] = "err" \/ GivenUp(j)'
                 /\ job'[j].code \in NeverRanCodes => GivenUp(j)' /\ terminal(job'[j].status)
      <3>1. c \notin NeverRanCodes
        BY <1>1, <2>3 DEF SessionKnowsJobs, LostCodes, NeverRanCodes
      <3> QED BY <1>10, <2>3, <3>1 DEF TerminalStatus
    <2> QED BY <1>12, <2>2, <2>3 DEF ByFinish
  <1> QED BY <1>1, <1>4, <1>7, <1>8, <1>9, <1>11, <1>12, RowSteps DEF RowStep

\* Work that is still in flight has not been finished.
LEMMA StillInflight ==
  ASSUME TypeOK, NEW j \in Jobs, Inflight(j), Inflight(j)'
  PROVE  /\ \A s \in TerminalStatus : \A c : job'[j] # FinishedRow(job[j], s, c)
         /\ \A r : job'[j] # ResponseRow(job[j], r)
  <1>1. job[j] \in JobRow /\ job[j].status # "absent"
    BY DEF TypeOK, Inflight, InflightStatus
  <1>2. ~terminal(job'[j].status)
    BY DEF Inflight, terminal, InflightStatus, TerminalStatus
  <1>3. \A s \in TerminalStatus : \A c : terminal(FinishedRow(job[j], s, c).status)
    BY <1>1, EndedByFinish
  <1>4. \A r : terminal(ResponseRow(job[j], r).status)
    BY <1>1, EndedByResponse
  <1> QED BY <1>2, <1>3, <1>4

\* Only the host's word that it has the job stops its recovery deadline.
LEMMA DeadlineKept ==
  ASSUME TypeOK, [Next]_vars, NEW j \in Jobs, Inflight(j), Inflight(j)',
         job[j].deadline # "none"
  PROVE  \/ job'[j].deadline # "none"
         \/ accepted /\ session.phase = "ready" /\ j \in session.pending
  <1>1. job[j] \in JobRow
    BY DEF TypeOK
  <1>2. CASE ByFrame(j)
    BY <1>2, StillInflight DEF ByFrame, TerminalStatus
  <1>3. CASE ByFinish(j)
    BY <1>3, StillInflight DEF ByFinish, TerminalStatus
  <1>4. CASE ByClock(j)
    BY <1>1, <1>4 DEF ByClock, Armed, JobRow
  <1>5. ~submit(j) /\ ~dispatch_next(j)
    BY DEF submit, dispatch_next, DispatchTick, Candidates, Inflight, InflightStatus
  <1> QED BY <1>2, <1>3, <1>4, <1>5, RowSteps DEF RowStep

\* The phase each kind of step leaves the session in.
LEMMA NextPhase ==
  /\ \A phase, pending, recovering, plan :
       SessionWith(phase, pending, recovering, plan) => session'.phase = phase
  /\ session' = NoSession => session'.phase = "none"
  /\ hello => session'.phase = "hello"
  /\ SessionHears => session.phase = "ready" /\ session'.phase = "ready"
  /\ SessionCloses => session'.phase = "closing"
  <1>1. ASSUME NEW phase, NEW pending, NEW recovering, NEW plan,
               SessionWith(phase, pending, recovering, plan)
        PROVE  session'.phase = phase
    BY <1>1 DEF SessionWith
  <1>2. session' = NoSession => session'.phase = "none"
    BY DEF NoSession
  <1>3. hello => session'.phase = "hello"
    BY DEF hello, NoSession
  <1>4. SessionHears => session.phase = "ready" /\ session'.phase = "ready"
    BY <1>1 DEF SessionHears
  <1>5. SessionCloses => session'.phase = "closing"
    BY <1>1 DEF SessionCloses
  <1> QED BY <1>1, <1>2, <1>3, <1>4, <1>5

\* A session is reconciling after reconnect, and until its plan is carried out.
LEMMA ReconcilingSteps ==
  ASSUME TypeOK, [Next]_vars, session'.phase = "reconciling"
  PROVE  \/ /\ session.phase = "hello"
            /\ SessionWith("reconciling", session.pending,
                    {i \in Jobs : Inflight(i) /\ ReconnectCode(i) = "none"},
                    [i \in Jobs |-> IF Inflight(i) THEN ReconnectCode(i) ELSE "none"])
         \/ /\ session.phase = "reconciling"
            /\ session'.plan = session.plan /\ session'.recovering = session.recovering
         \/ /\ session.phase = "reconciling"
            /\ \E i \in Planned :
                 /\ job'[i] = FinishedRow(job[i], "unknown", session.plan[i])
                 /\ SessionWith("reconciling", session.pending, session.recovering,
                                [session.plan EXCEPT ![i] = "none"])
  <1>1. CASE SessionWith(session.phase, session.pending, session.recovering, session.plan)
    BY <1>1 DEF SessionWith
  <1>2. SessionStep
    BY SessionSteps
  <1> QED BY <1>1, <1>2, NextPhase DEF SessionStep

\* It is ready after welcome.
LEMMA ReadySteps ==
  ASSUME TypeOK, [Next]_vars, session'.phase = "ready"
  PROVE  \/ /\ session.phase = "ready"
            /\ \/ session.pending \subseteq session'.pending
               \/ SessionHears /\ session'.pending = session.pending \ {Head(toGateway).job}
         \/ /\ welcome /\ session.phase = "reconciling" /\ Planned = {}
            /\ session'.pending = session.recovering
  <1>1. CASE SessionWith(session.phase, session.pending, session.recovering, session.plan)
    BY <1>1 DEF SessionWith
  <1>2. CASE /\ welcome /\ session.phase = "reconciling" /\ Planned = {} /\ UNCHANGED job
             /\ SessionWith("ready", session.recovering, session.recovering, session.plan)
    BY <1>2 DEF SessionWith
  <1>3. CASE /\ session.phase = "ready"
             /\ SessionWith("ready", session.pending,
                            session.recovering \ {First(session.recovering)}, session.plan)
    BY <1>3 DEF SessionWith
  <1>4. ASSUME NEW j \in Jobs, session.phase = "ready",
               SessionWith("ready", session.pending \cup {j}, session.recovering, session.plan)
        PROVE  session.pending \subseteq session'.pending
    BY <1>4 DEF SessionWith
  <1>5. CASE SessionHears
    BY <1>5 DEF SessionHears, SessionWith
  <1>6. SessionStep
    BY SessionSteps
  <1> QED BY <1>1, <1>2, <1>3, <1>4, <1>5, <1>6, NextPhase DEF SessionStep

\* Every job in flight has someone who will end it.
LEMMA KeepsInflightIsWatched ==
  ASSUME SafetyInv, [Next]_vars
  PROVE  InflightIsWatched'
  <1>1. /\ TypeOK /\ DeadlineOnlyInflight /\ InflightIsWatched /\ SessionIsOfHost
        /\ SessionKnowsJobs /\ ToGatewayIsTrue
    BY SafetyParts
  <1> DEFINE Watched(j) ==
        /\ session'.phase = "reconciling" =>
             j \in session'.recovering \/ session'.plan[j] # "none"
        /\ session'.phase = "ready" => j \in session'.pending
        /\ gateway' = "up" /\ job'[j].deadline = "none" =>
             session'.phase \in {"ready", "closing"} /\ j \in session'.pending
        /\ gateway' = "recovering" /\ job'[j].recovery => job'[j].deadline # "none"
  <1>2. SUFFICES ASSUME NEW j \in Jobs, Inflight(j)' PROVE Watched(j)
    BY DEF InflightIsWatched, Inflight
  <1>3. session \in SessionState
    BY <1>1 DEF TypeOK
  <1>4. CASE dispatch_next(j)
    <2>1. session.phase = "ready" /\ session'.phase = "ready" /\ j \in session'.pending
          /\ gateway' = gateway
      BY <1>3, <1>4 DEF dispatch_next, DispatchTick, SessionState
    <2>2. gateway = "up"
      BY <1>1, <2>1 DEF SessionIsOfHost
    <2> QED BY <2>1, <2>2
  <1>5. CASE ~dispatch_next(j)
    <2>1. Inflight(j)
      BY <1>1, <1>2, <1>5, RowStable
    <2>2. /\ session.phase = "reconciling" => j \in session.recovering \/ session.plan[j] # "none"
          /\ session.phase = "ready" => j \in session.pending
          /\ gateway = "up" /\ job[j].deadline = "none" =>
               session.phase \in {"ready", "closing"} /\ j \in session.pending
          /\ gateway = "recovering" /\ job[j].recovery => job[j].deadline # "none"
      BY <1>1, <2>1 DEF InflightIsWatched
    <2>3. /\ \A s \in TerminalStatus : \A c : job'[j] # FinishedRow(job[j], s, c)
          /\ \A r : job'[j] # ResponseRow(job[j], r)
      BY <1>1, <1>2, <2>1, StillInflight
    <2>4. SessionStep
      BY <1>1, SessionSteps
    <2>5. SessionHears => j # Head(toGateway).job
      BY <2>3 DEF SessionHears, TerminalStatus
    <2>6. ASSUME session'.phase = "reconciling"
          PROVE  j \in session'.recovering \/ session'.plan[j] # "none"
      <3>1. CASE SessionWith("reconciling", session.pending,
                    {i \in Jobs : Inflight(i) /\ ReconnectCode(i) = "none"},
                    [i \in Jobs |-> IF Inflight(i) THEN ReconnectCode(i) ELSE "none"])
        BY <2>1, <3>1 DEF SessionWith
      <3>2. CASE session.phase = "reconciling" /\ session'.plan = session.plan
                 /\ session'.recovering = session.recovering
        BY <2>2, <3>2
      <3>3. ASSUME NEW i \in Planned,
                   job'[i] = FinishedRow(job[i], "unknown", session.plan[i]),
                   SessionWith("reconciling", session.pending, session.recovering,
                               [session.plan EXCEPT ![i] = "none"]),
                   session.phase = "reconciling"
            PROVE  j \in session'.recovering \/ session'.plan[j] # "none"
        <4>1. i # j
          BY <2>3, <3>3 DEF TerminalStatus
        <4>2. session'.plan[j] = session.plan[j] /\ session'.recovering = session.recovering
          BY <1>3, <3>3, <4>1 DEF SessionWith, SessionState
        <4> QED BY <2>2, <3>3, <4>2
      <3> QED BY <1>1, <2>6, <3>1, <3>2, <3>3, ReconcilingSteps
    <2>7. ASSUME session'.phase = "ready" PROVE j \in session'.pending
      BY <1>1, <2>2, <2>5, <2>7, ReadySteps DEF Planned
    <2>8. ASSUME gateway' = "up", job'[j].deadline = "none"
          PROVE  session'.phase \in {"ready", "closing"} /\ j \in session'.pending
      <3>1. gateway = "up"
        <4>1. ~(serve /\ gateway = "recovering" /\ Unrecoverable = {} /\ job' = job)
          BY <2>1, <2>2, <2>8 DEF Unrecoverable
        <4> QED BY <2>8, <4>1, GatewaySteps
      <3>2. CASE accepted /\ session.phase = "ready" /\ j \in session.pending
        BY <3>2 DEF accepted, gatewayVars
      <3>3. CASE job[j].deadline = "none"
        <4>1. session.phase \in {"ready", "closing"} /\ j \in session.pending
          BY <2>2, <3>1, <3>3
        <4>2. ~disconnected
          <5>1. SUFFICES ASSUME disconnected PROVE FALSE
            OBVIOUS
          <5>2. session.recovery /\ job'[j] = DisconnectedRow(job[j])
            BY <5>1 DEF disconnected, SavesReceipts
          <5>3. job[j].generation = session.gen /\ job[j].recovery
            BY <1>1, <4>1, <5>2 DEF SessionKnowsJobs
          <5>4. job'[j] = Armed(job[j])
            BY <2>1, <5>2, <5>3 DEF DisconnectedRow, Inflight
          <5>5. job[j] \in JobRow
            BY <1>1 DEF TypeOK
          <5> QED BY <2>8, <5>4, <5>5 DEF Armed, JobRow
        <4>3. ~(missingFails /\ j = Head(toGateway).job)
          <5>1. SUFFICES ASSUME missingFails, j = Head(toGateway).job PROVE FALSE
            OBVIOUS
          <5>2. Recovering(j) /\ (starts[j] = 0 \/ terminal(job[j].status))
            BY <1>1, <5>1, HeadOfToGateway DEF missingFails, Incoming, ToGatewayIsTrue
          <5> QED BY <1>1, <2>1, <3>3, <5>2, RowStatus DEF Recovering
        <4>4. ~leave /\ ~gatewayStops
          BY <2>8, <4>1 DEF leave, gatewayStops
        <4>5. ASSUME NEW i \in Jobs, job'[i] = FinishedRow(job[i], "unknown", "connection_lost")
              PROVE  i # j
          BY <2>3, <4>5 DEF TerminalStatus
        <4>6. CASE SessionCloses
          BY <4>1, <4>3, <4>6 DEF SessionCloses, SessionWith
        <4>7. CASE ~SessionCloses
          BY <2>4, <2>5, <4>1, <4>2, <4>4, <4>5, <4>7 DEF SessionStep, SessionWith, SessionHears
        <4> QED BY <4>6, <4>7
      <3> QED BY <1>1, <1>2, <2>1, <2>8, <3>2, <3>3, DeadlineKept
    <2>9. ASSUME gateway' = "recovering", job'[j].recovery PROVE job'[j].deadline # "none"
      <3>1. job[j].recovery
        BY <1>1, <1>5, <2>9, RowStable
      <3>2. CASE recover_inflight
        <4>1. job'[j] = Armed(job[j]) /\ job[j] \in JobRow
          BY <1>1, <2>1, <3>1, <3>2 DEF recover_inflight, TypeOK
        <4> QED BY <4>1 DEF Armed, JobRow
      <3>3. CASE gateway = "recovering"
        <4>1. session.phase = "none"
          BY <1>1, <3>3 DEF SessionIsOfHost
        <4> QED BY <1>1, <1>2, <2>1, <2>2, <3>1, <3>3, <4>1, DeadlineKept
      <3> QED BY <2>9, <3>2, <3>3, GatewaySteps
    <2> QED BY <2>6, <2>7, <2>8, <2>9
  <1> QED BY <1>4, <1>5

-----------------------------------------------------------------------------
(* The slots. *)

\* A set of jobs is finite.
LEMMA JobsFinite ==
  ASSUME NEW S \in SUBSET Jobs
  PROVE  IsFiniteSet(S) /\ Cardinality(S) \in Nat
  <1>1. IsFiniteSet(Jobs)
    BY JobsAssumption, FS_Interval DEF Jobs
  <1>2. IsFiniteSet(S)
    BY <1>1, FS_Subset
  <1> QED BY <1>2, FS_CardinalityType

\* A smaller set of jobs fits.
LEMMA FitsSubset ==
  ASSUME NEW T \in SUBSET Jobs, NEW S \in SUBSET T, Fits(T)
  PROVE  Fits(S)
  <1>1. T \ ControlJobs \in SUBSET Jobs /\ S \ ControlJobs \in SUBSET (T \ ControlJobs)
        /\ S \in SUBSET Jobs /\ S \ ControlJobs \in SUBSET Jobs
    OBVIOUS
  <1>2. IsFiniteSet(T) /\ IsFiniteSet(T \ ControlJobs)
    BY <1>1, JobsFinite
  <1>3. Cardinality(S) <= Cardinality(T)
    BY <1>2, FS_Subset
  <1>4. Cardinality(S \ ControlJobs) <= Cardinality(T \ ControlJobs)
    BY <1>1, <1>2, FS_Subset
  <1>5. /\ Cardinality(S) \in Nat /\ Cardinality(T) \in Nat
        /\ Cardinality(S \ ControlJobs) \in Nat /\ Cardinality(T \ ControlJobs) \in Nat
    BY <1>1, JobsFinite
  <1> QED BY <1>3, <1>4, <1>5, LimitsAssumption DEF Fits

\* The tick adds a job only where a slot of its kind is free.
LEMMA FitsAdd ==
  ASSUME NEW S \in SUBSET Jobs, NEW j \in Jobs, Fits(S),
         Cardinality(S) < MaxPendingRequests + ReservedControlRequests,
         Cardinality(S) >= MaxPendingRequests => j \in ControlJobs
  PROVE  Fits(S \cup {j})
  <1>1. IsFiniteSet(S) /\ IsFiniteSet(S \ ControlJobs)
        /\ Cardinality(S) \in Nat /\ Cardinality(S \ ControlJobs) \in Nat
    BY JobsFinite
  <1>2. Cardinality(S \cup {j}) \in {Cardinality(S), Cardinality(S) + 1}
    BY <1>1, FS_AddElement
  <1>3. Cardinality(S \cup {j}) <= MaxPendingRequests + ReservedControlRequests
    BY <1>1, <1>2, LimitsAssumption
  <1>4. CASE j \in ControlJobs
    <2>1. (S \cup {j}) \ ControlJobs = S \ ControlJobs
      BY <1>4
    <2> QED BY <1>3, <2>1 DEF Fits
  <1>5. CASE j \notin ControlJobs
    <2>1. (S \cup {j}) \ ControlJobs = (S \ ControlJobs) \cup {j}
      BY <1>5
    <2>2. Cardinality((S \ ControlJobs) \cup {j})
            \in {Cardinality(S \ ControlJobs), Cardinality(S \ ControlJobs) + 1}
      BY <1>1, FS_AddElement
    <2>3. Cardinality(S \ ControlJobs) <= Cardinality(S)
      <3>1. S \ ControlJobs \in SUBSET S
        OBVIOUS
      <3> QED BY <1>1, <3>1, FS_Subset
    <2>4. Cardinality(S) < MaxPendingRequests
      BY <1>1, <1>5, LimitsAssumption
    <2>5. Cardinality((S \cup {j}) \ ControlJobs) <= MaxPendingRequests
      BY <1>1, <2>1, <2>2, <2>3, <2>4, LimitsAssumption
    <2> QED BY <1>3, <2>5 DEF Fits
  <1> QED BY <1>4, <1>5

\* No job at all fits.
LEMMA FitsNone == Fits({})
  <1>1. {} \ ControlJobs = {}
    OBVIOUS
  <1> QED BY <1>1, FS_EmptySet, LimitsAssumption DEF Fits

\* The jobs in flight, and the session's, never outgrow the slots: the tick counts
\* the pending set, which holds every job in flight once the session is ready.
LEMMA KeepsSlotsFit ==
  ASSUME SafetyInv, [Next]_vars
  PROVE  SlotsFit'
  <1>1. /\ TypeOK /\ DeadlineOnlyInflight /\ InflightIsWatched /\ SlotsFit
        /\ SessionIsOfHost /\ TypeOK'
    BY SafetyParts, TypeStep
  <1> DEFINE live == {i \in Jobs : Inflight(i)}
  <1>2. /\ session.pending \in SUBSET Jobs /\ session.recovering \in SUBSET Jobs
        /\ session'.pending \in SUBSET Jobs /\ session'.recovering \in SUBSET Jobs
    BY <1>1 DEF TypeOK, SessionState
  <1>3. Fits(live) /\ Fits(session.pending) /\ Fits(session.recovering)
    BY <1>1 DEF SlotsFit
  <1>4. CASE \E j \in Jobs : dispatch_next(j)
    <2>1. PICK j \in Jobs : dispatch_next(j)
      BY <1>4
    <2>2. /\ session.phase = "ready"
          /\ session'.pending = session.pending \cup {j}
          /\ session'.recovering = session.recovering
          /\ job' = [job EXCEPT ![j].status = "dispatching", ![j].generation = session.gen,
                                ![j].recovery = session.recovery]
      BY <1>1, <2>1 DEF dispatch_next, DispatchTick, TypeOK, SessionState
    <2>3. /\ Cardinality(session.pending) < MaxPendingRequests + ReservedControlRequests
          /\ Cardinality(session.pending) >= MaxPendingRequests => j \in ControlJobs
      BY <2>1 DEF dispatch_next, DispatchTick, Candidates
    <2>4. Fits(session.pending \cup {j})
      BY <1>2, <1>3, <2>3, FitsAdd
    <2>5. live \subseteq session.pending
      BY <1>1, <2>2 DEF InflightIsWatched
    <2>6. live' \subseteq session.pending \cup {j}
      <3>1. \A i \in Jobs \ {j} : job'[i] = job[i]
        BY <1>1, <2>2 DEF TypeOK
      <3> QED BY <2>5, <3>1 DEF Inflight
    <2>7. Fits(live')
      BY <1>2, <2>4, <2>6, FitsSubset
    <2> QED BY <1>3, <2>2, <2>4, <2>7 DEF SlotsFit, Fits
  <1>5. CASE ~ \E j \in Jobs : dispatch_next(j)
    <2>1. live' \subseteq live
      BY <1>1, <1>5, RowStable DEF Inflight
    <2>2. Fits(live')
      BY <1>3, <2>1, FitsSubset
    <2>3. \/ session'.pending \subseteq session.pending
          \/ session'.pending \subseteq session.recovering
          \/ session'.pending = {}
      <3>1. SessionStep
        BY <1>1, SessionSteps
      <3>2. ASSUME NEW p, NEW q, NEW r, NEW pl, SessionWith(q, p, r, pl)
            PROVE  session'.pending = p
        BY <3>2 DEF SessionWith
      <3>3. hello => session'.pending = {}
        BY DEF hello, NoSession
      <3>4. NoSession.pending = {}
        BY DEF NoSession
      <3> QED BY <1>5, <3>1, <3>2, <3>3, <3>4 DEF SessionStep, SessionHears, SessionCloses
    <2>4. Fits(session'.pending)
      BY <1>2, <1>3, <2>3, FitsSubset, FitsNone
    <2>5. session'.recovering \subseteq session.recovering \/ session'.recovering \subseteq live
      <3>1. \A i \in session'.recovering :
              i \in session.recovering \/ (session.phase = "hello" /\ Inflight(i))
        BY <1>1, <1>2, SessionJobs DEF Reconciles
      <3>2. session.phase = "hello" => session.recovering = {}
        BY <1>1 DEF SessionIsOfHost
      <3> QED BY <1>2, <3>1, <3>2
    <2>6. Fits(session'.recovering)
      BY <1>2, <1>3, <2>5, FitsSubset
    <2> QED BY <2>2, <2>4, <2>6 DEF SlotsFit, Fits
  <1> QED BY <1>4, <1>5

-----------------------------------------------------------------------------
(* The one answer of a job whose host keeps no receipts. *)

\* It is written when the job leaves the request or the task that owed it.
LEMMA AnswerSettles ==
  ASSUME SafetyInv, [Next]_vars, session.phase = "ready", ~session.recovery,
         NEW f \in HostFrame, Answered(f), f.type = "response"
  PROVE  f.job \in attached \cup Requested /\ f.job \notin attached' \cup Requested'
  <1>1. /\ TypeOK /\ RequestsAreFresh /\ WorkIsRecorded /\ SessionIsOfHost /\ ToHostIsTrue
    BY SafetyParts
  <1>2. f.job \in Jobs
    BY HostFrameJob
  <1>3. Connected => ~host.recovery
    BY <1>1 DEF SessionIsOfHost
  <1>4. CASE acceptFull(f.job)
    <2>1. Request(f.job) /\ attached' = attached
      BY <1>4 DEF acceptFull, hostVars
    <2>2. f.job \in Requested /\ f.job \notin Requested' /\ starts[f.job] = 0
      BY <1>1, <1>2, <2>1, RequestTaken
    <2>3. f.job \notin attached
      BY <1>1, <1>2, <2>2 DEF WorkIsRecorded
    <2> QED BY <2>1, <2>2, <2>3
  <1>5. CASE complete(f.job, f.result) /\ f.job \in attached /\ ~host.recovery
    <2>1. attached' = attached \ {f.job} /\ toHost' = toHost
      BY <1>5 DEF complete
    <2>2. starts[f.job] # 0
      BY <1>1, <1>2, <1>5 DEF WorkIsRecorded
    <2>3. f.job \notin Requested
      BY <1>1, <2>2 DEF RequestsAreFresh
    <2>4. Requested' = Requested
      BY <2>1 DEF Requested
    <2> QED BY <1>5, <2>1, <2>3, <2>4
  <1>6. ~next_response(f.job)
    BY <1>3 DEF next_response, Connected
  <1>7. ~onRecover
    <2>1. SUFFICES ASSUME onRecover PROVE FALSE
      OBVIOUS
    <2>2. Connected /\ toHost # <<>> /\ Head(toHost).type = "recover"
      BY <2>1 DEF onRecover, Arriving
    <2>3. Head(toHost) \in Frames(toHost)
      BY <1>1, <2>2, HeadOfToHost
    <2> QED BY <1>1, <1>3, <2>2, <2>3 DEF ToHostIsTrue
  <1> QED BY <1>4, <1>5, <1>6, <1>7 DEF Answered

\* Who owes an answer owed it before, unless the job is dispatched now.
LEMMA OwedBefore ==
  ASSUME SafetyInv, [Next]_vars, NEW j \in Jobs, j \in attached' \cup Requested'
  PROVE  j \in attached \cup Requested \/ dispatch_next(j)
  <1>1. TypeOK /\ RequestsAreFresh
    BY SafetyParts
  <1>2. CASE j \in Requested'
    BY <1>1, <1>2, RequestedSteps
  <1>3. CASE j \in attached'
    <2>1. WorkStarts(j) => j \in Requested
      BY <1>1, RequestTaken DEF WorkStarts
    <2>2. WorkKept(j) \/ WorkStarts(j) \/ WorkEnds(j)
      BY <1>1, WorkSteps
    <2> QED BY <1>3, <2>1, <2>2 DEF WorkKept, WorkEnds
  <1> QED BY <1>2, <1>3

\* What a ready session without receipts knows of the answers.
AnswersMatch ==
  /\ attached \cup Requested \subseteq session.pending
  /\ \A i, k \in 1..Len(toGateway) :
       toGateway[i].type = "response" /\ toGateway[k].type = "response"
       /\ toGateway[i].job = toGateway[k].job => i = k
  /\ \A f \in Frames(toGateway) :
       f.type = "response" =>
         f.job \in session.pending /\ f.job \notin attached \cup Requested

\* Such a session stays ready: it gains jobs, or its head answer settles one.
LEMMA PendingSettles ==
  ASSUME SafetyInv, [Next]_vars, session.phase = "ready", session'.phase = "ready",
         ~session.recovery, AnswersMatch
  PROVE  \/ session.pending \subseteq session'.pending
         \/ /\ toGateway # <<>> /\ toGateway' = Tail(toGateway)
            /\ Head(toGateway).type = "response"
            /\ session'.pending = session.pending \ {Head(toGateway).job}
            /\ Head(toGateway).job \notin attached \cup Requested
  <1>1. TypeOK /\ ToGatewayIsTrue
    BY SafetyParts
  <1>2. CASE SessionHears /\ session'.pending = session.pending \ {Head(toGateway).job}
    <2>1. /\ toGateway # <<>> /\ toGateway' = Tail(toGateway)
          /\ Head(toGateway).type \in {"response", "missing"}
      BY <1>2 DEF SessionHears
    <2>2. Head(toGateway) \in Frames(toGateway)
      BY <1>1, <2>1, HeadOfToGateway
    <2>3. Head(toGateway).type # "missing"
      BY <1>1, <2>2 DEF ToGatewayIsTrue
    <2> QED BY <1>2, <2>1, <2>2, <2>3 DEF AnswersMatch
  <1> QED BY <1>1, <1>2, ReadySteps

\* The answers still match after a step of a ready session.
LEMMA AnswersStillMatch ==
  ASSUME SafetyInv, [Next]_vars, session.phase = "ready", session'.phase = "ready",
         ~session.recovery, AnswersMatch
  PROVE  AnswersMatch'
  <1>1. /\ TypeOK /\ DeadlineOnlyInflight /\ ToGatewayIsTrue /\ attached' \subseteq Jobs
        /\ toGateway \in Seq(HostFrame)
    BY SafetyParts, TypeStep DEF TypeOK
  <1>2. Requested' \subseteq Jobs
    BY DEF Requested
  <1>3. \A j \in Jobs : dispatch_next(j) => j \in session'.pending /\ ~Claimed(j)
    BY <1>1 DEF dispatch_next, DispatchTick, Candidates, TypeOK, SessionState, Claimed, Unclaimed
  <1>4. \A j \in attached' \cup Requested' : j \in attached \cup Requested \/ dispatch_next(j)
    BY <1>1, <1>2, OwedBefore
  <1> DEFINE Settles ==
        /\ toGateway # <<>> /\ toGateway' = Tail(toGateway)
        /\ Head(toGateway).type = "response"
        /\ session'.pending = session.pending \ {Head(toGateway).job}
        /\ Head(toGateway).job \notin attached \cup Requested
  <1>5. session.pending \subseteq session'.pending \/ Settles
    BY PendingSettles
  <1>6. attached' \cup Requested' \subseteq session'.pending
    BY <1>1, <1>2, <1>3, <1>4, <1>5 DEF AnswersMatch
  \* An answer on its way is not owed again.
  <1>7. ASSUME NEW f \in Frames(toGateway), f.type = "response"
        PROVE  f.job \notin attached' \cup Requested'
    <2>1. f.job \notin attached \cup Requested /\ Claimed(f.job)
      BY <1>1, <1>7 DEF AnswersMatch, ToGatewayIsTrue
    <2>2. f \in HostFrame
      BY <1>1, FramesType
    <2>3. f.job \in Jobs
      BY <2>2, HostFrameJob
    <2> QED BY <1>3, <1>4, <2>1, <2>3
  <1> DEFINE Once(q) == \A i, k \in 1..Len(q) :
                          q[i].type = "response" /\ q[k].type = "response"
                          /\ q[i].job = q[k].job => i = k
             Pending(q) == \A f \in Frames(q) : f.type = "response" =>
                             f.job \in session'.pending /\ f.job \notin attached' \cup Requested'
  <1>8. Once(toGateway)
    BY DEF AnswersMatch
  <1>9. CASE toGateway' = <<>>
    BY <1>6, <1>9, FramesNone DEF AnswersMatch, Frames
  <1>10. CASE toGateway' = toGateway /\ toGateway # <<>>
    <2>1. ~Settles
      <3>1. toGateway # <<>> => Len(Tail(toGateway)) # Len(toGateway)
        BY <1>1
      <3> QED BY <1>10, <3>1
    <2>2. \A f \in Frames(toGateway) : f.type = "response" => f.job \in session'.pending
      BY <1>5, <2>1 DEF AnswersMatch
    <2> QED BY <1>6, <1>7, <1>8, <1>10, <2>2 DEF AnswersMatch, Frames
  <1>11. CASE toGateway # <<>> /\ toGateway' = Tail(toGateway)
    <2>1. /\ Len(toGateway') = Len(toGateway) - 1 /\ Head(toGateway) = toGateway[1]
          /\ 1 \in 1..Len(toGateway)
          /\ \A i \in 1..Len(toGateway') :
               i \in Int /\ i + 1 \in 1..Len(toGateway) /\ i + 1 # 1
               /\ toGateway'[i] = toGateway[i + 1]
      BY <1>1, <1>11
    <2> DEFINE q == toGateway'
    <2>2. Once(q)
      BY <1>8, <2>1
    <2>3. ASSUME NEW i \in 1..Len(q), q[i].type = "response"
          PROVE  q[i].job \in session'.pending /\ q[i].job \notin attached' \cup Requested'
      <3>1. q[i] = toGateway[i + 1] /\ i + 1 \in 1..Len(toGateway) /\ i + 1 # 1
        BY <2>1
      <3>2. q[i] \in Frames(toGateway)
        BY <3>1 DEF Frames
      <3>3. q[i].job \in session.pending /\ q[i].job \notin attached' \cup Requested'
        BY <1>7, <2>3, <3>2 DEF AnswersMatch
      <3>4. Settles => q[i].job # Head(toGateway).job
        BY <1>8, <2>1, <2>3, <3>1
      <3> QED BY <1>5, <3>3, <3>4
    <2> QED BY <1>6, <2>2, <2>3 DEF AnswersMatch, Frames
  <1>12. ASSUME session' = session, NEW f \in HostFrame, Answered(f),
                toGateway' = Append(toGateway, f)
         PROVE  AnswersMatch'
    <2>1. f.type = "response" =>
            f.job \in attached \cup Requested /\ f.job \notin attached' \cup Requested'
      BY <1>12, AnswerSettles
    <2>2. PICK q \in Seq(HostFrame) : q = toGateway'
      BY <1>1, <1>12
    <2>3. /\ Len(q) = Len(toGateway) + 1 /\ Len(toGateway) \in Nat
          /\ \A i \in 1..Len(toGateway) : q[i] = toGateway[i]
          /\ q[Len(q)] = f
      BY <1>1, <1>12, <2>2
    <2>4. \A i \in 1..Len(toGateway) : f.type = "response" /\ toGateway[i].type = "response"
                                       => toGateway[i].job # f.job
      BY <2>1 DEF AnswersMatch, Frames
    <2>5. \A i \in 1..Len(q) : i \in 1..Len(toGateway) \/ i = Len(q)
      BY <2>3
    <2>6. Once(q)
      BY <1>8, <2>3, <2>4, <2>5
    <2>7. Frames(q) = Frames(toGateway) \cup {f}
      BY <1>1, <1>12, <2>2, FramesAppend
    <2>8. ASSUME NEW g \in Frames(q), g.type = "response"
          PROVE  g.job \in session'.pending /\ g.job \notin attached' \cup Requested'
      <3>1. CASE g = f
        BY <1>12, <2>1, <2>8, <3>1 DEF AnswersMatch
      <3>2. CASE g \in Frames(toGateway)
        BY <1>7, <1>12, <2>8, <3>2 DEF AnswersMatch
      <3> QED BY <2>7, <3>1, <3>2
    <2> QED BY <1>6, <2>2, <2>6, <2>8 DEF AnswersMatch, Frames
  <1> QED BY <1>1, <1>9, <1>10, <1>11, <1>12, ToGatewaySteps

\* Answers match from welcome on.
LEMMA KeepsAnsweredOnce ==
  ASSUME SafetyInv, [Next]_vars
  PROVE  AnsweredOnce'
  <1>1. TypeOK /\ SessionIsOfHost /\ AnsweredOnce
    BY SafetyParts
  <1>2. SUFFICES ASSUME session'.phase = "ready", ~session'.recovery PROVE AnswersMatch'
    BY DEF AnsweredOnce, AnswersMatch
  <1>3. CASE welcome /\ session.phase = "reconciling"
    <2>1. toHost = <<>> /\ toGateway = <<>> /\ attached = {}
      BY <1>1, <1>3 DEF SessionIsOfHost
    <2>2. attached' = {} /\ toGateway' = <<>>
      BY <1>3, <2>1 DEF welcome, hostVars
    <2>3. Requested = {}
      BY <2>1 DEF Requested
    <2>4. \A j \in Jobs : ~dispatch_next(j)
      BY <1>3 DEF dispatch_next, DispatchTick
    <2>5. Requested' = {}
      <3>1. Requested' \subseteq Jobs
        BY DEF Requested
      <3> QED BY <1>1, <2>3, <2>4, <3>1, RequestedSteps
    <2> QED BY <2>2, <2>5, FramesNone DEF AnswersMatch, Frames
  <1>4. CASE session.phase = "ready"
    <2>1. session'.recovery = session.recovery
      <3>1. NoSession.phase = "none"
        BY DEF NoSession
      <3> QED BY <1>1, <1>2, <3>1, SessionIdentity
    <2>2. AnswersMatch
      BY <1>1, <1>2, <1>4, <2>1 DEF AnsweredOnce, AnswersMatch
    <2> QED BY <1>2, <1>4, <2>1, <2>2, AnswersStillMatch
  <1> QED BY <1>1, <1>2, <1>3, <1>4, ReadySteps

-----------------------------------------------------------------------------
(* The invariant, and what it says. *)

\* SafetyInv holds of the empty table, the stopped host and no session.
LEMMA SafetyInvInit == Init => SafetyInv
  <1> SUFFICES ASSUME Init PROVE SafetyInv
    OBVIOUS
  <1>1. DispatchInv
    BY DispatchInvInit
  <1>2. /\ \A j \in Jobs : /\ job[j] = NoRow /\ starts[j] = 0 /\ outcome[j] = "none"
                           /\ tasks[j] = "none" /\ receipts[j] = "none"
                           /\ session.plan[j] = "none"
        /\ toHost = <<>> /\ toGateway = <<>> /\ attached = {}
        /\ host.conn = "down" /\ host.gen = 0 /\ host.recovery = FALSE
        /\ gateway = "up" /\ session.phase = "none" /\ session.recovery = FALSE
        /\ session.pending = {} /\ session.recovering = {}
    BY DEF Init, NoSession
  <1>3. \A j \in Jobs : /\ ~Claimed(j) /\ ~Inflight(j) /\ job[j].generation = 0
                        /\ job[j].recovery = FALSE /\ job[j].status = "absent"
                        /\ job[j].code = "none"
    BY <1>2 DEF NoRow, Claimed, Unclaimed, Inflight, InflightStatus
  <1>4. WorkIsRecorded /\ HostHoldsItsOwn
    BY <1>2, <1>3 DEF WorkIsRecorded, HostHoldsItsOwn, Result
  <1>10. GenerationsKnown
    <2>1. \A j \in Jobs : job[j].generation <= host.gen
      BY <1>2, <1>3
    <2>2. ~host.recovery /\ \A j \in Jobs : job[j].recovery = host.recovery /\ ~job[j].recovery
      BY <1>2, <1>3
    <2> QED BY <1>3, <2>1, <2>2 DEF GenerationsKnown
  <1>5. SessionIsOfHost /\ SessionKnowsJobs
    BY <1>2, <1>3 DEF SessionIsOfHost, SessionKnowsJobs, Planned
  <1>6. ToHostIsTrue /\ ToGatewayIsTrue /\ AnsweredOnce
    BY <1>2, FramesNone DEF ToHostIsTrue, ToGatewayIsTrue, AnsweredOnce
  <1>7. RowsAreHonest /\ ReceiptHeldUntilDurable /\ InflightIsWatched
    BY <1>2, <1>3 DEF RowsAreHonest, ReceiptHeldUntilDurable, InflightIsWatched, NeverRanCodes
  <1>8. {j \in Jobs : Inflight(j)} = {}
    BY <1>3
  <1>9. SlotsFit
    BY <1>2, <1>8, FitsNone DEF SlotsFit
  <1> QED BY <1>1, <1>4, <1>5, <1>6, <1>7, <1>9, <1>10 DEF SafetyInv

\* SafetyInv is inductive, part by part.
LEMMA SafetyInvStep == SafetyInv /\ [Next]_vars => SafetyInv'
  <1> SUFFICES ASSUME SafetyInv, [Next]_vars PROVE SafetyInv'
    OBVIOUS
  <1>1. DispatchInv'
    BY DispatchInvStep DEF SafetyInv
  <1>2. WorkIsRecorded' /\ HostHoldsItsOwn' /\ GenerationsKnown'
    BY KeepsWorkIsRecorded, KeepsHostHoldsItsOwn, KeepsGenerationsKnown
  <1>3. SessionIsOfHost' /\ SessionKnowsJobs'
    BY KeepsSessionIsOfHost, KeepsSessionKnowsJobs
  <1>4. ToHostIsTrue' /\ ToGatewayIsTrue' /\ AnsweredOnce'
    BY KeepsToHostIsTrue, KeepsToGatewayIsTrue, KeepsAnsweredOnce
  <1>5. RowsAreHonest' /\ ReceiptHeldUntilDurable'
    BY KeepsRowsAreHonest, KeepsReceiptHeldUntilDurable
  <1>6. InflightIsWatched' /\ SlotsFit'
    BY KeepsInflightIsWatched, KeepsSlotsFit
  <1> QED BY <1>1, <1>2, <1>3, <1>4, <1>5, <1>6 DEF SafetyInv

\* It holds in every reachable state.
LEMMA SafetyInvariant == Spec => []SafetyInv
  BY SafetyInvInit, SafetyInvStep, PTL DEF Spec

\* jobs::response: succeeded is stored only for work that ran and returned
\* success, for any mix of reconnects, crashes and late answers.
THEOREM SuccessIsReal == Spec => []SucceededDidRun
  <1>1. SafetyInv => SucceededDidRun
    BY DEF SafetyInv, RowsAreHonest, SucceededDidRun
  <1> QED BY <1>1, SafetyInvariant, PTL

\* A job that ended with a code of the gateway alone has not run: its client may
\* submit it again.
THEOREM RefusedWorkNeverRan == Spec => []GatewayFailureNeverRan
  <1>1. SafetyInv => GatewayFailureNeverRan
    BY DEF SafetyInv, RowsAreHonest, GatewayFailureNeverRan, GivenUp
  <1> QED BY <1>1, SafetyInvariant, PTL

\* connected acknowledges after the commit: a living host that ran a job holds its
\* receipt until the row is terminal.
THEOREM ReceiptsOutliveTheCommit == Spec => []ReceiptHeldUntilDurable
  <1>1. SafetyInv => ReceiptHeldUntilDurable
    BY DEF SafetyInv
  <1> QED BY <1>1, SafetyInvariant, PTL

\* While the gateway serves, every dispatched job has a deadline or a session that
\* will end it.
THEOREM EveryJobHasAnOwner == Spec => []NoOrphan
  <1>1. SafetyInv => NoOrphan
    BY DEF SafetyInv, InflightIsWatched, NoOrphan
  <1> QED BY <1>1, SafetyInvariant, PTL

\* dispatch_next and reconnect leave the reserved slots to execution.terminate_run.
THEOREM SlotsReservedForControl == Spec => []ControlSlotsReserved
  <1>1. SafetyInv => ControlSlotsReserved
    BY DEF SafetyInv, SlotsFit, Fits, ControlSlotsReserved
  <1> QED BY <1>1, SafetyInvariant, PTL

\* No answer the daemon sends is one that connected or jobs::response rejects.
THEOREM AnswersAlwaysMatch == Spec => []ResponsesMatch
  <1>1. SafetyInv => ResponsesMatch
    <2>1. SUFFICES ASSUME SafetyInv, session.phase = "ready", NEW i \in 1..Len(toGateway),
                          toGateway[i].type = "response"
                   PROVE  ResponseMatches(toGateway[i].job)
      BY DEF ResponsesMatch
    <2>2. ToGatewayIsTrue /\ AnsweredOnce /\ toGateway[i] \in Frames(toGateway)
      BY <2>1, SafetyParts DEF Frames
    <2>3. Claimed(toGateway[i].job) /\ job[toGateway[i].job].generation = session.gen
      BY <2>2 DEF ToGatewayIsTrue
    <2>4. session.recovery \/ toGateway[i].job \in session.pending
      BY <2>1, <2>2 DEF AnsweredOnce
    <2> QED BY <2>3, <2>4 DEF ResponseMatches, Claimed, Unclaimed
  <1> QED BY <1>1, SafetyInvariant, PTL

-----------------------------------------------------------------------------
(* Refinement: every step is a step of JobLifecycle, or none. *)

\* What JobLifecycle sees of the table.
Shown == [j \in Jobs |-> IF Inflight(j) THEN "inflight" ELSE job[j].status]

\* Work that ends or a request that is lost is seen; nothing else of it is.
LEMMA LifecycleSkips ==
  ASSUME Shown' = Shown, UNCHANGED history, Requested' \subseteq Requested
  PROVE  Lifecycle!Next
  <1>1. Lifecycle!Withdraw
    BY DEF Lifecycle!Withdraw, Shown, history
  <1> QED BY <1>1 DEF Lifecycle!Next

\* One row that changes its status is seen as that.
LEMMA ShownUpdate ==
  ASSUME TypeOK, NEW j \in Jobs, NEW row, job' = [job EXCEPT ![j] = row]
  PROVE  Shown' = [Shown EXCEPT ![j] = IF row.status \in InflightStatus
                                       THEN "inflight" ELSE row.status]
  <1>1. job'[j] = row /\ \A i \in Jobs \ {j} : job'[i] = job[i]
    BY OneRow
  <1>2. \A i \in Jobs :
          Shown'[i] = IF job'[i].status \in InflightStatus THEN "inflight" ELSE job'[i].status
    BY DEF Shown, Inflight
  <1>3. \A i \in Jobs :
          Shown[i] = IF job[i].status \in InflightStatus THEN "inflight" ELSE job[i].status
    BY DEF Shown, Inflight
  <1>4. \A i \in Jobs : Shown'[i] = [Shown EXCEPT ![j] = IF row.status \in InflightStatus
                                       THEN "inflight" ELSE row.status][i]
    BY <1>1, <1>2, <1>3 DEF Shown
  <1> QED BY <1>4 DEF Shown

\* Every finish of the code is an end JobLifecycle allows, given its evidence.
LEMMA LifecycleEnds ==
  ASSUME TypeOK, NEW j \in Jobs, NEW s \in TerminalStatus, NEW c,
         job' = [job EXCEPT ![j] = FinishedRow(job[j], s, c)],
         UNCHANGED history, Requested' = Requested,
         job[j].status = "queued" => s = "failed",
         Inflight(j) /\ s = "succeeded" => outcome[j] = "ok",
         Inflight(j) /\ s = "failed" =>
           outcome[j] = "err" \/ (starts[j] = 0 /\ j \notin Requested)
  PROVE  Lifecycle!Next
  <1>1. job[j] \in JobRow
    BY DEF TypeOK
  <1>2. CASE FinishedRow(job[j], s, c) = job[j]
    <2>1. job' = job
      BY <1>2 DEF TypeOK
    <2>2. Shown' = Shown
      BY <2>1 DEF Shown, Inflight
    <2> QED BY <2>2, LifecycleSkips
  <1>3. CASE /\ FinishedRow(job[j], s, c).status = s
             /\ job[j].status \in {"queued"} \cup InflightStatus
    <2>1. Shown' = [Shown EXCEPT ![j] = s]
      <3> DEFINE row == FinishedRow(job[j], s, c)
      <3>1. job' = [job EXCEPT ![j] = row] /\ row.status = s
        BY <1>3
      <3>2. s \notin InflightStatus
        BY DEF TerminalStatus, InflightStatus
      <3> HIDE DEF row
      <3>3. Shown' = [Shown EXCEPT ![j] = IF row.status \in InflightStatus
                                          THEN "inflight" ELSE row.status]
        BY <3>1, ShownUpdate
      <3> QED BY <3>1, <3>2, <3>3
    <2>2. Shown[j] = IF Inflight(j) THEN "inflight" ELSE "queued"
      BY <1>3 DEF Shown, Inflight
    <2>3. Inflight(j) \/ (job[j].status = "queued" /\ ~Inflight(j))
      BY <1>3 DEF Inflight, InflightStatus
    <2>4. Lifecycle!Resolve(j, s)
      BY <2>1 DEF Lifecycle!Resolve, Shown, history
    <2>5. Shown[j] = "inflight" \/ (Shown[j] = "queued" /\ s = "failed")
      BY <2>2, <2>3
    <2>6. CASE s = "succeeded"
      <3>1. Shown[j] = "inflight" /\ outcome[j] = "ok"
        BY <2>2, <2>5, <2>6
      <3>2. Lifecycle!Succeed(j)
        BY <2>4, <2>6, <3>1 DEF Lifecycle!Succeed, Shown
      <3> QED BY <3>2 DEF Lifecycle!Next
    <2>7. CASE s = "failed"
      <3>1. \/ Shown[j] = "queued"
            \/ /\ Shown[j] = "inflight"
               /\ outcome[j] = "err" \/ (starts[j] = 0 /\ j \notin Requested)
        BY <2>2, <2>5, <2>7
      <3>2. Lifecycle!Fail(j)
        BY <2>4, <2>7, <3>1 DEF Lifecycle!Fail, Shown
      <3> QED BY <3>2 DEF Lifecycle!Next
    <2>8. CASE s = "unknown"
      <3>1. Shown[j] = "inflight"
        BY <2>5, <2>8
      <3>2. Lifecycle!Lose(j)
        BY <2>4, <2>8, <3>1 DEF Lifecycle!Lose, Shown
      <3> QED BY <3>2 DEF Lifecycle!Next
    <2> QED BY <2>6, <2>7, <2>8 DEF TerminalStatus
  <1> QED BY <1>1, <1>2, <1>3, FinishedRowFields

\* A frame that is no request changes nobody's ticket.
LEMMA OtherFrames ==
  ASSUME TypeOK, NEW f \in GatewayFrame, SendToHost(f)
  PROVE  /\ f.type # "request" => Requested' = Requested
         /\ \A j \in Jobs : f = [type |-> "request", job |-> j]
                            => Requested' \in {Requested, Requested \cup {j}}
  <1>1. CASE toHost' = toHost
    BY <1>1 DEF Requested
  <1>2. CASE toHost' = Append(toHost, f)
    <2>1. PICK q \in Seq(GatewayFrame) : q = toHost'
      <3>1. toHost \in Seq(GatewayFrame)
        BY DEF TypeOK
      <3>2. Append(toHost, f) \in Seq(GatewayFrame)
        BY <3>1
      <3> QED BY <1>2, <3>2
    <2>2. Frames(q) = Frames(toHost) \cup {f}
      BY <1>2, <2>1, FramesAppend DEF TypeOK
    <2>3. /\ Requested = {j \in Jobs : [type |-> "request", job |-> j] \in Frames(toHost)}
          /\ Requested' = {j \in Jobs : [type |-> "request", job |-> j] \in Frames(q)}
      BY <2>1 DEF Requested, Frames
    <2>4. ASSUME f.type # "request" PROVE Requested' = Requested
      <3>1. \A j \in Jobs : [type |-> "request", job |-> j] # f
        BY <2>4
      <3> QED BY <2>2, <2>3, <3>1
    <2>5. ASSUME NEW j \in Jobs, f = [type |-> "request", job |-> j]
          PROVE  Requested' = Requested \cup {j}
      <3>1. \A i \in Jobs : [type |-> "request", job |-> i] = f <=> i = j
        BY <2>5
      <3> QED BY <2>2, <2>3, <3>1
    <2> QED BY <2>4, <2>5
  <1> QED BY <1>1, <1>2 DEF SendToHost

\* submit and dispatch_next are Admit and Claim.
LEMMA LifecycleBegins ==
  ASSUME TypeOK, NEW j \in Jobs, submit(j) \/ dispatch_next(j)
  PROVE  Lifecycle!Next
  <1>1. CASE submit(j)
    <2> DEFINE row == [job[j] EXCEPT !.status = "queued",
                         !.expected = IF j \in PinnedJobs THEN session.gen ELSE 0]
    <2>a. job' = [job EXCEPT ![j] = row] /\ job[j].status = "absent"
      BY <1>1 DEF submit
    <2>b. job[j] \in JobRow
      BY DEF TypeOK
    <2>c. row.status = "queued"
      BY <2>b DEF JobRow
    <2>1. job' = [job EXCEPT ![j] = row] /\ job[j].status = "absent" /\ row.status = "queued"
      BY <2>a, <2>c
    <2>2. toHost' = toHost /\ UNCHANGED history
      BY <1>1 DEF submit, wire
    <2> HIDE DEF row
    <2>3. Shown' = [Shown EXCEPT ![j] = "queued"]
      <3>1. Shown' = [Shown EXCEPT ![j] = IF row.status \in InflightStatus
                                          THEN "inflight" ELSE row.status]
        BY <2>1, ShownUpdate
      <3>2. "queued" \notin InflightStatus
        BY DEF InflightStatus
      <3> QED BY <2>1, <3>1, <3>2
    <2>4. Shown[j] = "absent" /\ Requested' = Requested
      BY <2>1, <2>2 DEF Shown, Inflight, InflightStatus, Requested
    <2>5. Lifecycle!Admit(j)
      BY <2>2, <2>3, <2>4 DEF Lifecycle!Admit, Shown, history
    <2> QED BY <2>5 DEF Lifecycle!Next
  <1>2. CASE dispatch_next(j)
    <2> DEFINE row == [job[j] EXCEPT !.status = "dispatching",
                         !.generation = session.gen, !.recovery = session.recovery]
               f == [type |-> "request", job |-> j]
    <2>a. job' = [job EXCEPT ![j] = row] /\ job[j].status = "queued"
      BY <1>2 DEF dispatch_next, DispatchTick, Candidates
    <2>b. job[j] \in JobRow
      BY DEF TypeOK
    <2>c. row.status = "dispatching"
      BY <2>b DEF JobRow
    <2>1. /\ job' = [job EXCEPT ![j] = row] /\ job[j].status = "queued"
          /\ row.status = "dispatching"
      BY <2>a, <2>c
    <2>2. SendToHost(f) /\ UNCHANGED history
      BY <1>2 DEF dispatch_next
    <2>3. f \in GatewayFrame
      BY DEF GatewayFrame
    <2> HIDE DEF row
    <2>4. Shown' = [Shown EXCEPT ![j] = "inflight"]
      BY <2>1, ShownUpdate DEF InflightStatus
    <2>5. Shown[j] = "queued"
      BY <2>1 DEF Shown, Inflight, InflightStatus
    <2>6. Requested' \in {Requested, Requested \cup {j}}
      BY <2>2, <2>3, OtherFrames
    <2>7. Lifecycle!Claim(j)
      BY <2>2, <2>4, <2>5, <2>6 DEF Lifecycle!Claim, Shown, history
    <2> QED BY <2>7 DEF Lifecycle!Next
  <1> QED BY <1>1, <1>2

\* The host's part: acceptNew and complete are Start and Return.
LEMMA LifecycleWorks ==
  ASSUME SafetyInv, NEW j \in Jobs,
         acceptNew(j) \/ \E result \in Result : complete(j, result)
  PROVE  Lifecycle!Next
  <1>1. TypeOK /\ RequestsAreFresh /\ WorkIsRecorded
    BY SafetyParts
  <1>2. job' = job
    BY DEF acceptNew, complete, dbVars
  <1>3. Shown' = Shown
    BY <1>2 DEF Shown, Inflight
  <1>4. CASE acceptNew(j)
    <2>1. Request(j) /\ starts' = [starts EXCEPT ![j] = starts[j] + 1] /\ outcome' = outcome
      BY <1>4 DEF acceptNew, StartTask
    <2>2. j \in Requested /\ j \notin Requested'
      BY <1>1, <2>1, RequestTaken
    <2>3. toHost \in Seq(GatewayFrame) /\ toHost # <<>> /\ toHost' = Tail(toHost)
          /\ Head(toHost).job = j
      BY <1>1, <2>1 DEF TypeOK, Request, Arriving
    <2>4. /\ toHost[1].job = j
          /\ Len(toHost) \in Nat /\ Len(toHost') = Len(toHost) - 1
          /\ \A i \in 1..Len(toHost') : i + 1 \in 1..Len(toHost) /\ toHost'[i] = toHost[i + 1]
      BY <2>3
    <2>5. ASSUME NEW i \in Requested \ {j} PROVE i \in Requested'
      <3>1. PICK k \in 1..Len(toHost) : toHost[k] = [type |-> "request", job |-> i]
        BY <2>5 DEF Requested
      <3>2. k # 1
        BY <2>4, <2>5, <3>1
      <3>3. k - 1 \in 1..Len(toHost') /\ (k - 1) + 1 = k
        BY <2>4, <3>1, <3>2
      <3>4. toHost'[k - 1] = [type |-> "request", job |-> i] /\ i \in Jobs
        BY <2>4, <2>5, <3>1, <3>3 DEF Requested
      <3> QED BY <3>3, <3>4 DEF Requested
    <2>6. ASSUME NEW i \in Requested' PROVE i \in Requested
      <3>1. PICK k \in 1..Len(toHost') : toHost'[k] = [type |-> "request", job |-> i]
        BY <2>6 DEF Requested
      <3>2. i \in Jobs
        BY <2>6 DEF Requested
      <3> QED BY <2>4, <3>1, <3>2 DEF Requested
    <2>7. Requested' = Requested \ {j}
      BY <2>2, <2>5, <2>6
    <2>8. Lifecycle!Start(j)
      BY <1>3, <2>1, <2>2, <2>7 DEF Lifecycle!Start, Shown
    <2> QED BY <2>8 DEF Lifecycle!Next
  <1>5. ASSUME NEW r \in Result, complete(j, r) PROVE Lifecycle!Next
    <2>1. starts' = starts /\ toHost' = toHost /\ outcome' = [outcome EXCEPT ![j] = r]
          /\ tasks[j] = "running"
      BY <1>5 DEF complete
    <2>2. outcome[j] = "none" /\ starts[j] # 0 /\ starts[j] \in Nat
      BY <1>1, <2>1 DEF WorkIsRecorded, TypeOK
    <2>3. starts[j] > 0
      BY <2>2
    <2>4. Requested' = Requested
      BY <2>1 DEF Requested
    <2>5. Lifecycle!Return(j, r)
      BY <1>3, <2>1, <2>2, <2>3, <2>4 DEF Lifecycle!Return, Shown
    <2> QED BY <2>5 DEF Lifecycle!Next, Result
  <1> QED BY <1>4, <1>5

\* The answers of the host: each end of a job has its evidence.
LEMMA LifecycleHears ==
  ASSUME SafetyInv, [Next]_vars, response \/ missing
  PROVE  Lifecycle!Next
  <1> DEFINE f == Head(toGateway)
             j == f.job
  <1>1. /\ TypeOK /\ ToGatewayIsTrue /\ session.phase = "ready" /\ toGateway # <<>>
        /\ UNCHANGED history
    BY SafetyParts DEF response, missing, Incoming
  <1>2. f \in Frames(toGateway) /\ f \in HostFrame /\ j \in Jobs
    BY <1>1, HeadOfToGateway
  <1>3. /\ Claimed(j)
        /\ f.type = "response" =>
             outcome[j] = f.result \/ (f.result = "err" /\ GivenUp(j))
    BY <1>1, <1>2 DEF ToGatewayIsTrue
  <1>4. job[j].status # "queued"
    BY <1>3 DEF Claimed, Unclaimed
  <1> HIDE DEF f, j
  <1>5. ASSUME UNCHANGED job, Requested' \subseteq Requested PROVE Lifecycle!Next
    <2>1. Shown' = Shown
      BY <1>5 DEF Shown, Inflight
    <2> QED BY <1>1, <1>5, <2>1, LifecycleSkips
  <1>6. CASE missing
    <2>1. toHost' = toHost
      BY <1>6 DEF missing
    <2>2. Requested' = Requested
      BY <2>1 DEF Requested
    <2>3. UNCHANGED job \/ job' = [job EXCEPT ![j] = FinishedRow(job[j], "unknown", "receipt_missing")]
      BY <1>6 DEF missing, finish, j, f
    <2> QED BY <1>1, <1>2, <1>4, <1>5, <2>2, <2>3, LifecycleEnds DEF TerminalStatus
  <1>7. CASE response
    <2>1. f.type = "response"
      BY <1>7 DEF response, Incoming, f
    <2>2. f.result \in Result
      BY <1>2, <2>1, HostFrameResult
    <2> DEFINE g == [type |-> "acknowledge", job |-> j]
    <2>3. g \in GatewayFrame /\ g.type # "request"
      BY <1>2 DEF GatewayFrame
    <2>4. UNCHANGED toHost \/ SendToHost(g)
      BY <1>7 DEF response, j, f
    <2>5. Requested' = Requested
      <3>1. UNCHANGED toHost => Requested' = Requested
        BY DEF Requested
      <3> QED BY <1>1, <2>3, <2>4, <3>1, OtherFrames
    <2>6. UNCHANGED job \/ job' = [job EXCEPT ![j] = ResponseRow(job[j], f.result)]
      BY <1>7 DEF response, j, f
    <2>7. CASE job' = [job EXCEPT ![j] = ResponseRow(job[j], f.result)]
      <3>1. CASE job[j].deadline = "expired"
        <4>1. job' = [job EXCEPT ![j] = FinishedRow(job[j], "unknown", "recovery_unavailable")]
          BY <2>7, <3>1 DEF ResponseRow
        <4> QED BY <1>1, <1>2, <1>4, <2>5, <4>1, LifecycleEnds DEF TerminalStatus
      <3>2. CASE job[j].deadline # "expired" /\ f.result = "ok"
        <4>1. job' = [job EXCEPT ![j] = FinishedRow(job[j], "succeeded", "response")]
          BY <2>7, <3>2 DEF ResponseRow
        <4>2. outcome[j] = "ok"
          BY <1>3, <2>1, <3>2
        <4> QED BY <1>1, <1>2, <1>4, <2>5, <4>1, <4>2, LifecycleEnds DEF TerminalStatus
      <3>3. CASE job[j].deadline # "expired" /\ f.result = "err"
        <4>1. job' = [job EXCEPT ![j] = FinishedRow(job[j], "failed", "response")]
          BY <2>7, <3>3 DEF ResponseRow
        <4>2. outcome[j] = "err" \/ (starts[j] = 0 /\ j \notin Requested)
          BY <1>3, <2>1, <3>3 DEF GivenUp
        <4> QED BY <1>1, <1>2, <1>4, <2>5, <4>1, <4>2, LifecycleEnds DEF TerminalStatus
      <3> QED BY <2>2, <3>1, <3>2, <3>3 DEF Result
    <2> QED BY <1>5, <2>5, <2>6, <2>7
  <1> QED BY <1>6, <1>7

\* finish, by the gateway alone: queued work fails, claimed work is lost.
LEMMA LifecycleGivesUp ==
  ASSUME SafetyInv, [Next]_vars, NEW j \in Jobs,
         \/ reconnectFinish(j) \/ dispatchRejected(j) \/ connectionLost(j)
         \/ housekeepQueued(j) \/ housekeepInflight(j) \/ recoverUnknown(j)
  PROVE  Lifecycle!Next
  <1>1. TypeOK /\ SessionKnowsJobs
    BY SafetyParts
  <1>2. toHost' = toHost /\ UNCHANGED history
    BY DEF reconnectFinish, dispatchRejected, connectionLost, housekeepQueued,
           housekeepInflight, recoverUnknown, wire
  <1>3. Requested' = Requested
    BY <1>2 DEF Requested
  <1>4. ASSUME NEW c, job[j].status = "queued", finish(j, "failed", c)
        PROVE  Lifecycle!Next
    <2>1. ~Inflight(j)
      BY <1>4 DEF Inflight, InflightStatus
    <2>2. job' = [job EXCEPT ![j] = FinishedRow(job[j], "failed", c)]
      BY <1>4 DEF finish
    <2> QED BY <1>1, <1>2, <1>3, <2>1, <2>2, LifecycleEnds DEF TerminalStatus
  <1>5. ASSUME NEW c, Claimed(j), finish(j, "unknown", c)
        PROVE  Lifecycle!Next
    <2>1. job[j].status # "queued"
      BY <1>5 DEF Claimed, Unclaimed
    <2>2. job' = [job EXCEPT ![j] = FinishedRow(job[j], "unknown", c)]
      BY <1>5 DEF finish
    <2> QED BY <1>1, <1>2, <1>3, <2>1, <2>2, LifecycleEnds DEF TerminalStatus
  <1>6. Inflight(j) \/ j \in session.pending \/ j \in Planned => Claimed(j)
    BY <1>1, RowStatus DEF SessionKnowsJobs, Planned
  <1>7. CASE dispatchRejected(j) \/ housekeepQueued(j)
    BY <1>4, <1>7 DEF dispatchRejected, DispatchTick, Candidates, housekeepQueued
  <1>8. CASE reconnectFinish(j)
    BY <1>5, <1>6, <1>8 DEF reconnectFinish
  <1>9. CASE connectionLost(j) \/ housekeepInflight(j) \/ recoverUnknown(j)
    BY <1>5, <1>6, <1>9 DEF connectionLost, housekeepInflight, recoverUnknown, Unrecoverable
  <1> QED BY <1>7, <1>8, <1>9

\* accepted and the deadlines change nothing that is seen.
LEMMA LifecycleUnseen ==
  ASSUME TypeOK, accepted \/ disconnected \/ recover_inflight
                 \/ \E j \in Jobs : deadlinePasses(j)
  PROVE  Shown' = Shown
  <1>1. \A j \in Jobs : job[j] \in JobRow
    BY DEF TypeOK
  <1>2. \A i \in Jobs : Shown'[i] = IF job'[i].status \in InflightStatus
                                    THEN "inflight" ELSE job'[i].status
    BY DEF Shown, Inflight
  <1>3. \A i \in Jobs : Shown[i] = IF job[i].status \in InflightStatus
                                   THEN "inflight" ELSE job[i].status
    BY DEF Shown, Inflight
  <1>4. SUFFICES ASSUME NEW i \in Jobs
                 PROVE  \/ job'[i].status = job[i].status
                        \/ job'[i].status \in InflightStatus /\ job[i].status \in InflightStatus
    <2>1. \A i \in Jobs : Shown'[i] = Shown[i]
      BY <1>2, <1>3, <1>4
    <2> QED BY <2>1 DEF Shown
  <1>5. Armed(job[i]).status = job[i].status
    BY <1>1 DEF Armed, JobRow
  <1>6. CASE disconnected \/ recover_inflight
    BY <1>5, <1>6 DEF disconnected, DisconnectedRow, recover_inflight
  <1>7. ASSUME NEW j \in Jobs, deadlinePasses(j) PROVE job'[i].status = job[i].status
    BY <1>1, <1>7 DEF deadlinePasses, TypeOK, JobRow
  <1>8. CASE accepted
    <2>1. UNCHANGED job \/ job' = [job EXCEPT ![Head(toGateway).job] =
                                     AcceptedRow(job[Head(toGateway).job])]
      BY <1>8 DEF accepted
    <2>2. job'[i] = job[i] \/ job'[i] = AcceptedRow(job[i])
      BY <2>1 DEF TypeOK
    <2>3. job[i] \in JobRow
      BY <1>1
    <2>4. \/ AcceptedRow(job[i]).status = job[i].status
          \/ /\ AcceptedRow(job[i]).status \in InflightStatus
             /\ job[i].status \in InflightStatus
      BY <2>3 DEF AcceptedRow, JobRow, InflightStatus
    <2> QED BY <2>2, <2>4
  <1> QED BY <1>6, <1>7, <1>8

\* Every step, seen as one of JobLifecycle.
LEMMA LifecycleSteps ==
  ASSUME SafetyInv, [Next]_vars
  PROVE  [Lifecycle!Next]_Lifecycle!vars
  <1>1. TypeOK
    BY SafetyParts
  <1>2. ASSUME ~ \E j \in Jobs : dispatch_next(j) PROVE Requested' \subseteq Requested
    <2>1. Requested' \subseteq Jobs
      BY DEF Requested
    <2> QED BY <1>1, <1>2, <2>1, RequestedSteps
  <1>3. ASSUME UNCHANGED job PROVE Shown' = Shown
    BY <1>3 DEF Shown, Inflight
  <1>4. CASE \E j \in Jobs : submit(j) \/ dispatch_next(j)
    BY <1>1, <1>4, LifecycleBegins
  <1>5. CASE \E j \in Jobs : acceptNew(j) \/ \E r \in Result : complete(j, r)
    BY <1>5, LifecycleWorks
  <1>6. CASE response \/ missing
    BY <1>6, LifecycleHears
  <1>7. CASE \E j \in Jobs : \/ reconnectFinish(j) \/ dispatchRejected(j) \/ connectionLost(j)
                             \/ housekeepQueued(j) \/ housekeepInflight(j) \/ recoverUnknown(j)
    BY <1>7, LifecycleGivesUp
  <1>8. CASE ~ \E j \in Jobs : dispatch_next(j)
    <2>1. CASE accepted \/ disconnected \/ recover_inflight \/ \E j \in Jobs : deadlinePasses(j)
      <3>1. UNCHANGED history
        BY <2>1 DEF accepted, disconnected, recover_inflight, deadlinePasses
      <3> QED BY <1>1, <1>2, <1>8, <2>1, <3>1, LifecycleSkips, LifecycleUnseen
    <2>2. ASSUME UNCHANGED job, UNCHANGED history PROVE Lifecycle!Next
      BY <1>2, <1>3, <1>8, <2>2, LifecycleSkips
    <2>3. CASE UNCHANGED vars
      BY <2>2, <2>3 DEF vars, dbVars
    <2>4. CASE Administration
      BY <2>2, <2>4 DEF Administration, setEnabled, register, remove
    <2>5. CASE \/ revoke \/ reconnect \/ welcome \/ sendRecover \/ missingFails
               \/ heartbeat \/ revoked \/ sessionLost \/ leave \/ gatewayStops \/ serve
      BY <2>2, <2>5 DEF revoke, reconnect, welcome, sendRecover, missingFails, heartbeat,
                        revoked, sessionLost, leave, gatewayStops, serve, dbVars
    <2>6. CASE HostStep
      BY <2>2, <2>6 DEF HostStep, upgrade, upgradeRejected, hello, hostStarts, hostCrashes,
                        hostDisconnects, onWelcome, onDisconnect, onRecover, acknowledge, dbVars
    <2>7. CASE \E j \in Jobs : acceptFull(j) \/ reap(j) \/ next_response(j)
      BY <2>2, <2>7 DEF acceptFull, reap, next_response, dbVars
    <2> QED BY <1>4, <1>5, <1>6, <1>7, <1>8, <2>1, <2>3, <2>4, <2>5, <2>6, <2>7
            DEF Next, GatewayStep, GatewayJobStep, HostJobStep
  <1> QED BY <1>4, <1>8

\* The empty table is the beginning of every job's life.
LEMMA LifecycleInitially == Init => Lifecycle!Init
  <1> SUFFICES ASSUME Init PROVE Lifecycle!Init
    OBVIOUS
  <1>1. \A j \in Jobs : ~Inflight(j) /\ job[j].status = "absent"
    BY DEF Init, NoRow, Inflight, InflightStatus
  <1>2. Requested = {}
    BY DEF Init, Requested
  <1> QED BY <1>1, <1>2 DEF Init, Lifecycle!Init

\* Each job of a machine lives as JobLifecycle says, whatever fails: admitted once,
\* claimed once, started at most once, and ended with the evidence its state needs.
THEOREM ImplementsTheLifecycle == Spec => ImplementsLifecycle
  <1>1. Init => Lifecycle!Init
    BY LifecycleInitially
  <1>2. SafetyInv /\ [Next]_vars => [Lifecycle!Next]_Lifecycle!vars
    BY LifecycleSteps
  <1> QED BY <1>1, <1>2, SafetyInvariant, PTL DEF Spec, ImplementsLifecycle, Lifecycle!Spec
=============================================================================
