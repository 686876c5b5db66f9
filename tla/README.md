# Verification of execution-provider

TLA+ specifications of the execution provider: a gateway that accepts jobs over
HTTP and keeps them in PostgreSQL, and host daemons that hold one WebSocket to the
gateway and run the work. The modules are written from the Rust source; TLC
checks them on small instances, and TLAPS proves most of what they promise for every
instance. Paths below are relative to the repository.

1. [The system](#1-the-system)
2. [The modules](#2-the-modules)
3. [The runs](#3-the-runs)
4. [Fairness](#4-fairness)
5. [Proofs](#5-proofs)
6. [Findings](#6-findings)
7. [What is abstracted, and what is not modelled](#7-what-is-abstracted-and-what-is-not-modelled)
8. [Plan](#8-plan)

## 1. The system

```
 client --HTTP--> gateway process -------- PostgreSQL (jobs, machines, outbox)
                   |  session task per machine      |
                   |  maintenance, webhooks --------+--> webhook receivers
                   | WebSocket: request, recover, acknowledge  /  accepted, response, missing
                 host daemon: request tasks, receipts
                   | calls
                 core runtime: registry of executions, one task per child process
```

| Component | State | Operations | What is hard | What makes it correct |
|---|---|---|---|---|
| Gateway jobs (`execution-gateway/src/jobs.rs`) | the `jobs` table: status, generation, recovery flag and deadline, result | submit, dispatch_next, accepted, response, missing, reconnect, disconnected, housekeep, recover_inflight | every operation is a transaction of its own; the session, maintenance, the API and a restart interleave between them | a job ends once, its work starts at most once, its status says no more than is known |
| Gateway connections (`connections.rs`) | per machine: generation, revoke token, pending set, recovering queue, socket | upgrade, hello, reconcile, welcome, dispatch tick, frames, heartbeat, cleanup | cleanup of one session against the next; results in flight while the socket dies | every dispatched job has an owner; results are durable before they are acknowledged |
| Gateway process (`main.rs`) | everything in memory | stop, recover, serve | a crash between any two transactions | nothing is replayed, nothing is forgotten |
| Machines and users (`machines.rs`, `users.rs`) | enabled, deleted, credential version; registration tokens | enable, disable, register, remove | commit first, revoke the live session afterwards | no dispatch from a revoked credential; tokens are used once |
| Daemon connection (`process-execution-host-daemon/src/connection.rs`) | tasks, responses sent on this connection | accept a request, run it, answer, recover, acknowledge | tasks outlive the connection; answers are lost and sent again | one run per request; an answer is kept until it is acknowledged |
| Receipts (`receipts.rs`) | receipts, bytes reserved | accept, complete, recover, acknowledge | two limits that meet | cancellation always gets through |
| Execution registry (`process-execution-core/src/runtime.rs`) | five maps, pending terminations, shutdown flag | run_execution, start_execution, terminate, shutdown, cleanup | work between two acquisitions of the lock | maps agree; shutdown leaves no execution unfinished |
| Execution session (`session.rs`) | state, stop reason, child | spawn, stop, grace, kill, drain, finish | four reasons to stop race; system calls fail | what is told to stop finishes, and leaves nothing running in its process group or job object |
| Output journal, spool, stdin (`journal.rs`, `session.rs`) | a ring of output with cursors; an input queue and receipts | append, read, write, close | readers behind the ring; close behind input | a reader is told of every gap; input is applied once and in order |
| File mutations (`filesystem.rs`, `filesystem/patch.rs`) | mutation receipts under one lock | write, remove, apply a patch | a dropped request after the write; a patch that stops half way | a mutation has one answer, and a retry gets it; the receipt names what was written |
| Webhook outbox (`webhooks.rs`) | deliveries, leases, attempts | claim, deliver, retry, redeliver | a lease expires during the attempt | one live claim; a cycle ends |
| Job completion (`job_completion.rs`) | waiters, counters | subscribe, notify, time out | notification before subscription | no waiter leaks, none sleeps on a finished job for longer than its timeout |
| Enrollment (`machines.rs`) | registration tokens | issue, redeem | two redemptions | a token is redeemed once |
| Batches, protocol (`process-execution-protocol`) | none | decode, run operations with dependencies | skipping after a failure | what depends on a failure does not run |
| Shell discovery and snapshots (`shell.rs`, `shell_snapshot.rs`) | a cache | look up, capture | capture under way twice | the cached environment is the captured one |
| Process backends (`backend/`) | process groups, job objects | spawn, signal, wait | operating system | external to the models |
| Local server and client (`apps/process-execution`) | none beyond the runtime | one request per connection | shutdown with requests under way | external to the models for now |
| Daemon installation (`store.rs`, `registration.rs`, `service.rs`, `update.rs`, `main.rs`) | the lock of the state directory, identity, credential, executable, user service | register, configure, run, status, connect, disconnect, update | commands that look, own and replace at once; a lock that is a question and an answer | one identity, the credential the gateway accepts, no old executable after an update |
| HTTP layer (`lib.rs`, `crypto.rs`, `db.rs`) | none | route, authenticate, page | – | not modelled |

Interactions that carry the difficulty: the session task writes rows that
maintenance and the API write too (shared table, separate transactions); the API
revokes a session through a cancellation token after its own commit; the daemon and
the gateway share nothing but an ordered, lossy stream; the daemon's process is
identified by a *generation*, and a job is tied to the generation it was sent to;
the registry's callers hold its lock for part of an operation only.

`PROJECT.json` lists the hazards line by line, with the properties that would notice
each of them going wrong.

## 2. The modules

| Module | Stands for |
|---|---|
| `JobLifecycle` | the abstract specification: what the gateway promises about a job |
| `JobDispatch` | one machine: table, session, gateway process, wire, daemon, receipts |
| `Admission` | the transactions of machines, tokens, credentials and submissions, with their locks |
| `JobEvents` | the ending transaction of a job with what follows from it; extends the next two |
| `JobCompletion` | the calls that wait for a job, the registry of waiters, the listener |
| `WebhookOutbox` | deliveries, attempts and leases, the workers and the receivers |
| `JobUsers` | the constants the two share: jobs and the users who own them |
| `ExecutionRuntime` | the runtime inside a host: registry and session tasks |
| `ExecutionIO` | input and output of one execution: readers, writer, owner, observers; extends the next |
| `OutputJournal` | the journal and the spool as functions on values |
| `FileMutations` | writes, removals and patches on a disk that others change too; extends the next |
| `PatchText` | reading a patch, placing hunks, replacing text: functions on sequences |
| `HostInstallation` | the commands and the daemon of one host on one state directory, with the user's service |
| `MCAdmission`, `MCJobEvents`, `MCExecutionIO`, `MCFileMutations`, `MCHostInstallation` | instances for the checker |
| `JobLifecycleProofs`, `JobDispatchProofs`, `JobEventsProofs`, `AdmissionProofs`, `ExecutionRuntimeProofs`, `ExecutionIOProofs`, `FileMutationsProofs`, `HostInstallationProofs` | the theorems about each component |

`JobDispatch` composes what interacts; the abstract module is reached by
`INSTANCE JobLifecycle WITH status <- ..., ticket <- Requested`.
`JobEvents` composes the waits and the outbox through the one transaction both depend on.
`Admission` looks at the same tables as `JobDispatch` from the other side: `JobDispatch` takes the transactions of one machine
as single steps and follows the session; `Admission` takes them apart, several at a time, and leaves the session out.
`ExecutionIO` does the same for an execution: what is a single step of the session task in
`ExecutionRuntime` meets readers, writer and observers there.
Definitions whose comment begins with *Faulty variant* are not part of any
next-state relation: each is a definition of the model with one plausible mistake in
it, and `PROJECT.json` ("mutants") says which property notices the mistake.

### JobDispatch

**Granularity.** One database transaction is one step. What the session task does to its
local state between two transactions belongs to the step of the first, since nothing
else reads that state. The writer task, the sockets and the daemon's loop are
separate: a frame is appended to `toHost` or `toGateway` and read by a later step.

| In the code | In the model |
|---|---|
| row of `jobs` | `job[j]`: status, expected and assigned generation, recovery flag, `recovery_expires_at` as *none / armed / expired*, and a code for the response or error column |
| row of `machines`, and `users.enabled` | `machine`: one `enabled` for both, since every query asks for their conjunction |
| entry in `Connections.live`, local variables of `session` and `connected` | `session`: phase, generation, credential version, revoke token, `pending`, `recovering`, and the decisions of `reconnect` not yet carried out |
| between the commit of `register` or `remove` and `Connections::revoke` | `revoking` |
| daemon process and its connection state | `host`; a new process has a new generation |
| `Receipts`, `JoinSet` | `receipts`, `tasks` |
| a request task's sender when the host keeps no receipts | `attached` |
| `responses_sent` of one connection | `sent` |
| – | `starts`, `outcome`: history of the work itself |

A session goes `none -> hello -> reconciling -> ready -> closing (-> leaving) -> none`.
`reconnect` reads the unfinished jobs in one query and ends them one
at a time (`reconnectFinish`), so that the clock, maintenance and the API act in between.
The cleanup of a session is one update when receipts can be recovered
(`disconnected`) and one transaction per job otherwise (`connectionLost`);
the slot is freed after that (`leave`), which is why the next connection of the same
machine cannot be overtaken by it.

Faults: `gatewayStops` (a crash or the end of a shutdown, at any point),
`hostCrashes`, the loss of the connection noticed by either end at its own time
(`sessionLost`, `hostDisconnects`) with the loss of what is on the wire, and a
transaction that fails after `pending` has given the job up (`missingFails`). A
frame sent to an end that is gone is lost without notice.

### ExecutionRuntime

One step is what a thread does while it holds a lock. `run_execution` is admitted under
the registry's lock (`admitted`) and launched after it (`launch`);
`terminate_run` takes the lock once to look (`terminate_run`) and then either the
session's lock (`stopsRun`) or the registry's again (`retains`). Every
locked operation begins with `cleanup`. The session task is `spawns`/`spawnFails`,
`stopGracefully`/`stopForcibly`, `graceEnds`, `rootExits`/`waitFails`, `killsRest`,
`finishes`; `CallsWork` says whether signals and waits may fail. `process` is the child and what is in its
process group, or job object: descendants there die only when the group is killed (`Killed`), or leave it (`leaveGroup`) and are out of reach.

### Admission

A call arrives (authenticated, which is not looked at again), takes its locks one after another,
and ends with a commit, a refusal or an abort (a dropped request, a stopping process). `locks` holds what
PostgreSQL would: `FOR UPDATE` and `FOR SHARE` of rows and the advisory lock of a user; the statements
after a lock read what cannot change while it is held (`found`), and those without a lock read
the committed rows at the moment they run. `patch_user` and `update` are single
statements and wait for the row (`Unlocked`). A token is named after the call that issued it.
The order of the locks is machine before user, and the advisory lock before both, which is why the
run checks deadlock.

### JobEvents, JobCompletion, WebhookOutbox

`finish_tx` (`jobs.rs`) is the one step that ends a job, publishes its wake-up and inserts its delivery, in one transaction.

- *Waiting* is the route `jobs::wait`: read, subscribe, read again, sleep, answer. The mutex of the registry is a step
  (`Notified`, `Removed`, `subscribe`). A notification published while the listener is disconnected is lost, and
  so are those it had not received; `lost` is history.
- *The outbox*: a worker claims, sends and finalizes in three steps; it may stop between any two (`dies`). A lease is its
  attempt's number, and may be over at any moment (`leaseExpires`), as may the 24 hours of a cycle
  (`cycleExpires`). `deliver` takes whatever the receiver makes of it.

### OutputJournal, ExecutionIO

A byte of output is its position, so that order, loss and repetition show. `append`, `read`, `spoolAppend`, `preview` and
`run_result` are the functions of `journal.rs` and `session.rs`; `ExecutionIO` applies them
where the code holds the session's lock. What happens after the unlock is a step of its own: a
thread that changed something owes a notification (`owed`), and until it is sent an observer may read,
sleep or arm. An observer arms its notification, reads, then sleeps, as `observe_session` does. An observer
that loses an answer asks again with the cursor it had.

### PatchText, FileMutations

Texts are sequences of characters of a small alphabet in which line ends, blanks, a byte order mark and one character that
`punctuation` maps are kept apart. `parse_codex` reads a patch by folding `ReadLine`
over its lines, `seek` takes the strictest of its four passes that finds a place, `apply_codex` and `apply_replacements` work
from a plan of edits applied from the back.

A mutation is a blocking task: `begins` takes the receipts' lock and starts it, `finishes` records its outcome and answers.
One step of the task is one look at the disk or one change of it: following links, reading before a write, reading
again once the content is staged, the rename, the removal, and, for a patch, each section planned, each path verified and
each step written. Between any two another program may write (`outside`), a call of the file system may fail, the caller may
leave, and the process may restart. A failed rename or removal may have taken effect or not.

### HostInstallation

A process is a command of the user (`Calls`) or the daemon of the service; `pc` names what it does next. `open` tries the lock once and
reads the identity, `names` writes it if there was none; `register` asks the gateway, `stores` replaces the file. A look (`looks`,
then what is done with the answer) takes the lock if it is free and lets it go with the answer, as `inspect` does. The service manager
(`daemonEnded`, `managerStarts`, `jobDone`) is external and follows the unit that `service.rs` writes: a killed daemon is started again, one that
ended with code 0 or 2 is not. A job of the manager, a stop or a restart, is done one at a time and goes on when its caller dies. `found`, the
holder of the lock at the last try, is history except for whether there was one.

## 3. The runs

| Run | Instance | Distinct states | Question |
|---|---|---|---|
| `recovery` | two jobs, one of them pinned and ordinary, one control; two daemon processes; one fault | 417,508 | Is anything replayed, forged or lost when something fails once, anywhere? |
| `slots` | three jobs, one control; one ordinary and one reserved slot; one fault | 2.1 million | Do reserved slots stay reserved, also when a reconnect fills `pending`? |
| `ending` | one pinned job; three daemon processes with and without receipts; a second credential, removal; two faults, fair | 357,443 | Does every dispatched job keep an owner, does every honest answer match, does every job end and every receipt go? |
| `runtime` | one run identity, one start identity; one caller, one terminator; two executions over time, fair | 675,070 | Does the registry agree with itself and with the processes, and does what is told to stop finish, shutdown included? |
| `admission` | one user, two machines, four calls of five kinds, two idempotency keys, one edit, one abort | 523,763 | Are tokens, credentials and jobs granted once, and only while allowed; do the locks ever block each other? |
| `events` | two users with a job each; three waits under limits of two and one; two workers, two attempts, one redelivery, one death, one edit, fair | 242,911 | Is a waiter missed or leaked; do attempts and delivery agree; does a delivery end? |
| `files` | a file, a free name and a link; three writes and removals, nine patches; any two of an outside write, a failure, a caller that leaves, a restart | 274,327 | Is a mutation answered once, an update lost, a patch misapplied or misreported? |
| `io` | two streams, three bytes, a journal and a preview of two; three inputs for a queue of two bytes; one fault, one control | 1,014,906 | Is output skipped in silence, a wake-up lost, input reordered, a partial file called complete? |
| `installation` | three commands of seven kinds, the service, one fault | 1,018,705 | Do enrollments, daemons and updates that share a directory keep one identity, the right credential and the new executable? |
| `cancellation`, `runtime_race`, `look_refuses` | a small instance that shows the finding | – | see [Findings](#6-findings) |

**The properties.** `AtMostOnce`: no replay. `RequestsAreFresh`: why. `DeadlineOnlyInflight`: the
recovery clock runs only over dispatched work. `GatewayFailureNeverRan`: an error that invites a
second submission is honest. `SucceededDidRun`: so is success. `ReceiptHeldUntilDurable`: there is
no moment at which a result exists nowhere. `TerminalImmutable`: an ended row never changes.
`NoOrphan`: a running deadline or the live session's pending set covers every dispatched job.
`ResponsesMatch`: a daemon that follows the protocol is never dropped for an answer.
`ControlSlotsReserved`: cancellation gets its slots at the gateway. `ImplementsLifecycle`: every step of the
whole is a step of `JobLifecycle` or none. In the runtime: `RegistrySound` (the five maps agree,
unfinished work is always reachable by its identity, and the limits hold), `CancelledNeverSpawns`,
`GroupLeftEmpty` (a finished execution that is not *lost* has nothing running in its process group or job object; it says nothing of descendants that have
left the group), `ShutdownIsFinal`, `FirstStopWins` (of the reason, from which the result is made); `StopsComplete`: again and again, nothing that was told to
stop is still running and no shutdown is waiting.

`OneOfEach`: one use per token, one outstanding token per machine, one job per key, no more jobs than allowed, and a removed machine keeps neither
token nor credential. `GrantedWhileAllowed`: no step issues a token, grants a credential or admits a job for a machine that is disabled or removed at
that moment, the last two also for a disabled user. `NoMissedWakeup`: a call that sleeps on an ended job has its wake-up on the way, or lost with the
connection. `WaiterAccounts`: the counters are the waiters. `AttemptsTellDelivery`: the attempt that is open is the one that holds the lease, the last
attempt of a *delivered* delivery is a success of its cycle, and one that waits to be tried again has a failed attempt behind it. `CycleBounded`: a cycle has no more than its attempts. `DeliveryEnds`:
a delivery reaches *delivered* or *failed*, though workers stop, if its user stays enabled. `OneAnswerPerMutation`: an identity has one answer in a process. `NoLostUpdate`:
a conditional write replaces what its caller saw unless another writer came after the last look.
`PatchReportsTruth`: a receipt lists the changes made, and says so if it cannot be sure. `AppliedAsPlanned`: what an undisturbed patch leaves is what its
plan saw. `CodexAgrees`, `ReplacementsAgree`: the algorithms agree with a definition by decomposition of the text, which has no cursor and no order of edits.
`NothingSilentlySkipped`: an answer and the next cursor account for every byte, by output, gap or `has_more`. `NoLostWakeup`: a sleeping observer with
something to see is notified or will be. `InputOnceInOrder`: what the child read is a prefix of what was accepted with the end behind it, and what waits fits the queue.
`EnrollmentCurrent`: what an enrollment told the gateway, and what it was given, are what the directory holds, unless an answer was
lost or the credential revoked. `RestartedRunsNew`: an update that says it restarted the service left no older executable running in it.
`CompleteFileIsWhole`: a file or preview that says it is complete holds the whole output.

**Bounds.** `NumJobs`, `MaxGeneration`, `MaxVersion`, `MaxFaults` and
`MaxSequence` bound a behaviour, the other constants are limits of the code
scaled down. Jobs interact in two ways only: they compete for slots and they are handled in
order of creation. Two jobs show the second and the control preference; three jobs with
one slot of each kind show the first. One job is enough where the question is about one
row (`ending`), and the freed states pay for more faults. Three generations are needed to see a
replaced runtime being replaced again while its job is reconciled; two credential versions
to see a revoked and a fresh one; two faults to see a crash during the
recovery from a crash. `MaxOutstanding` is smaller than `NumJobs` in `slots`, so that the
limit is met. In the gateway's constants 32 requests of 8 MiB fill the
256 MiB of receipts exactly, hence `MaxReservations = MaxRequests` everywhere.
Two executions over time with one retained show ageing, reuse of an identity, and the
limits at their boundary; one value of `Args` suffices there, since a call that repeats an identity with other arguments only
does the housekeeping and is refused.

*admission*: a token needs an issue and two redemptions to be used twice, and a removal beside them makes four calls; two machines
give two submissions of one user different rows to lock; `MaxOutstanding = 1` makes the second submission meet the limit. *events*:
a wait can be missed in one way per job, and limits of two and one are met by three waits; two workers and two attempts
let a late finalization meet a newer claim, and one redelivery starts a second cycle. The waits and the outbox share only `finish_tx`, so
`MCInit` starts three scenarios: all waits; workers that stop; an edited user. *files*: each patch was chosen for the branches it reaches: a hunk with
two matches, an anchor, a trailing blank line, the end of the file, a move onto itself, a move onto a name and a section that builds on it, one file under
two names, an insertion, ranges that touch and ranges that overlap, and texts with trailing blanks, a byte
order mark, CRLF and lone CR. One receipt is enough to fill the registry. *io*: three bytes through a journal of two discard under
a reader at each of its offsets; a queue of two bytes rejects the third input; three scenarios (`MCInit`) watch, capture with faults, and
feed input with faults, since an observer touches neither the file nor the queue. *installation*: two enrollments, or an
update and two commands that start or stop what it restarts, make three calls; `Init` takes both a new directory and an enrolled one, with and without a unit.

**Deadlock.** The configurations of `JobDispatch` switch the check off: with all jobs done and the
bounds on generations, versions and faults used up, nothing has to happen.
Those of `ExecutionRuntime`, `Admission` and `HostInstallation` check it; in the last two a state in
which no call is under way may stay (`quiet`), so that only calls that wait for one another are reported.
`JobEvents`, `FileMutations` and `ExecutionIO` stop when all jobs, requests or the execution are done.

## 4. Fairness

Weak fairness is assumed of what the process itself schedules, never of a user or a fault.

- `JobDispatch`: the daemon's connection loop (it reconnects with back-off), the session's loop and its timers,
  the cleanup of a session, reading a frame from a live socket, a request task ending, the 24 hours of a recovery deadline, maintenance, the call of `revoke` after a
  commit, and the supervisor that restarts the gateway (`recover_inflight`, `recoverUnknown`,
  `serve`). An end notices that the other one has gone
  (`~Connected /\ sessionLost`, `GatewayClosed /\ hostDisconnects`) through the heartbeat.
- Nothing is assumed of `submit`, `setEnabled`, `register`, `remove`, of starting a daemon, of any
  fault, nor of `dispatch_next`: a queued job that nobody dispatches ends by the dispatch timeout.
- `ExecutionRuntime`: the tasks and timers of the runtime. Nothing is assumed of the command
  (`childExits`) or of callers. `StopsComplete` excuses an execution whose kill or wait has failed
  (`owner.failed`): a child that ignores everything then keeps its session, and shutdown does wait for it for ever.
- `JobEvents`: a worker that can claim, send or finalize does (`webhooks::run` loops, and goes on after an error and after a
  restart), a scheduled attempt comes due and a lease expires. Nothing is assumed of receivers, of redelivery, of
  the edits of a user or of the death of a worker.

One of these is an assumption about clients rather than about the code: `timeout_ms` of a
`run_execution` is optional, and a job whose command never ends and has no timeout stays
unfinished as long as its daemon is connected. `EventuallyTerminal` speaks of the others, whose request tasks end.

## 5. Proofs

`tlapm JobDispatchProofs.tla`, and likewise for the other modules whose name ends in `Proofs`, checks the theorems of a component
for every value of its constants: any number of jobs, calls, observers, inputs and daemon processes, any limits
and sizes, any number of faults. The longest, `FileMutationsProofs`, takes about fifteen minutes, `ExecutionIOProofs` five. What is assumed of the constants is what their
meaning requires:

| Module | Assumptions |
|---|---|
| `JobDispatch` | `JobsAssumption` (control and pinned jobs are jobs), `LimitsAssumption`, `BoundsAssumption` (limits and bounds are natural numbers) |
| `JobEvents` | `JobsHaveOwners`, `WaitsHaveJobs` (the limits are numbers, too), `CyclesHaveAttempts` (a cycle has at least one attempt) |
| `Admission` | `MachinesHaveOwners` (and calls are not named as machines), `LimitIsNumber` |
| `ExecutionRuntime` | `KeysAssumption` (run and start identities differ), `LimitsAssumption`, `CallsAssumption`, `RequestsAssumption` (there is something to ask for) |
| `ExecutionIO` | `SizesAreBytes` (sizes, capacities and limits are numbers, an input is not empty), `EndIsNoInput` (the end of the input is not one of the inputs) |
| `FileMutations` | `RequestsHaveKinds` (writes, removals and patches), `PatchesNamePaths` (a patch is a sequence of lines or files, and names paths), `TextsAreSequences` (the texts of the first disk, of the other programs and of the requests are finite sequences of characters), `LinksEnd` (a link leads to a path, another program's too, and at the start two links in a row lead to what is no link: longer chains are abstracted, see 7) |
| `HostInstallation` | `CommandsAreKnown` (the commands are those of `cli.rs`; the daemon is none of them) |

| Theorem | States | Says |
|---|---|---|
| **JobLifecycle** | | |
| `LifecyclePromises` | – | the abstract specification keeps its promises: one start, and honest outcomes |
| **JobDispatch** | | |
| `TypeCorrect` | `TypeOK` | the variables keep their shapes |
| `AtMostOnceAlways` | `AtMostOnce` | the work of a job starts at most once |
| `RequestsAlwaysFresh` | `RequestsAreFresh` | a request is on the wire at most once, and only for claimed work that has not started |
| `DeadlinesOnlyInflight` | `DeadlineOnlyInflight` | a recovery deadline runs only over dispatched work |
| `TerminalForever` | `TerminalImmutable` | no step of any actor changes an ended row |
| `SuccessIsReal` | `SucceededDidRun` | *succeeded* means that the work ran to a success |
| `RefusedWorkNeverRan` | `GatewayFailureNeverRan` | an error that invites a second submission means that the work never ran and never will |
| `ReceiptsOutliveTheCommit` | `ReceiptHeldUntilDurable` | the daemon keeps a result until the table has it |
| `EveryJobHasAnOwner` | `NoOrphan` | a dispatched job is in a session's `pending` or under a deadline |
| `AnswersAlwaysMatch` | `ResponsesMatch` | an honest daemon's answer never costs it the session |
| `SlotsReservedForControl` | `ControlSlotsReserved` | ordinary work does not take the reserved slots |
| `ImplementsTheLifecycle` | `ImplementsLifecycle` | every step of the whole is one of `JobLifecycle` or leaves it alone |
| **JobEvents** | | |
| `NoWakeupMissed` | `NoMissedWakeup` | who sleeps on an ended job has a wake-up coming, or it was lost with the listener's connection |
| `AccountsBalance` | `WaiterAccounts` | the counters are the waiters, within both limits |
| `AttemptsAlwaysTell` | `AttemptsTellDelivery` | attempts and delivery agree, whichever worker wrote last |
| `CyclesAlwaysBounded` | `CycleBounded` | a cycle has no more than its attempts |
| **Admission** | | |
| `NothingTwice` | `OneOfEach` | one outstanding token per machine, one use of it, one job per key, no job over the limit, nothing left to a removed machine |
| `NothingOverrun` | `GrantedWhileAllowed` | nothing is granted that machine and user do not allow at the moment of the commit |
| **ExecutionRuntime** | | |
| `RuntimeTyped` | `TypeOK` | the variables keep their shapes |
| `RegistryAlwaysSound` | `RegistrySound` | the maps of the registry agree, within its limits |
| `GroupAlwaysLeftEmpty` | `GroupLeftEmpty` | an execution that finished, and was not *lost*, has left neither the child nor a descendant in its process group or job object |
| `ShutdownEndsAll` | `ShutdownIsFinal` | after a shutdown no execution is unfinished, no session task runs and nothing starts |
| `CancelledStaysUnspawned` | `CancelledNeverSpawns` | a run cancelled before its admission never spawns |
| `FirstStopDecides` | `FirstStopWins` | the first reason to stop is never replaced by a later one |
| **ExecutionIO** | | |
| `NoWakeupLost` | `NoLostWakeup` | a sleeping observer has nothing to see, or is notified or will be |
| `NothingEverSkipped` | `NothingSilentlySkipped` | answers follow one another byte for byte or say that there is a gap; the last comes with the last byte |
| `InputAlwaysInOrder` | `InputOnceInOrder` | the child reads the accepted inputs once, in order, the end behind all of them |
| `CompleteIsWhole` | `CompleteFileIsWhole` | a file or preview called complete is the whole output |
| **FileMutations** | | |
| `OneAnswerAlways` | `OneAnswerPerMutation` | an identity has one answer in a process |
| `NoUpdateLost` | `NoLostUpdate` | a change replaces only what it has seen, unless overtaken after its last look |
| `ReceiptsTellTheTruth` | `PatchReportsTruth` | the receipt of a patch lists what it has done, in order, whatever failed half-way; if it says *inexact*, at most one call more |
| `PatchesApplyAsPlanned` | `AppliedAsPlanned` | a patch that says *applied*, with nobody else writing, leaves at every path what its plan says |
| `UpdatesAgree` | `CodexAgrees` | for any file and any hunks, an update that is planned puts the hunks, in order, on lines they describe, the insertions at the end, and keeps every other line |
| `ReplacementsAgreeAlways` | `ReplacementsAgree` | for any file and any replacements, each old text is at one place, the places are apart, all are replaced at once, and the rest stays, but for its line ends, which all take the style of the first one (a lone CR becomes one too); a byte order mark stays |
| **HostInstallation** | | |
| `EnrollmentAlwaysCurrent` | `EnrollmentCurrent` | identity and credential in the directory are those the gateway was told and gave, unless it revoked them or its answer was lost |
| `RestartedAlwaysNew` | `RestartedRunsNew` | after a restart by an update no older executable runs |

None of these properties is inductive as it stands. What follows names the invariant that is, and why
each step keeps it.

**JobDispatch, the wire.** `AtMostOnce` fails one step after a request on the wire for work that
has started. Inductive is

    DispatchInv == TypeOK /\ DeadlineOnlyInflight /\ RequestsAreFresh /\ AtMostOnce

`RequestsAreFresh` says that a request is on the wire only once, that its work has not
started, and that a job nobody has claimed has neither a request nor a start.
Two facts about steps carry the proof. *Rows move forward*
(`StepMovesForward`): no step returns a row to *absent* or *queued*, changes a terminal row, or
leaves a deadline on a row that is not dispatched; it has a lemma for each helper that rewrites
a row. *Most steps are quiet* (`StepQuiet`): they start nothing and put
no request on the wire, so that the frames of the next state are among those of this one,
in order (`QuietKeepsFresh`). Two actions are not quiet: `dispatch_next`, which claims a
queued job and therefore one without a request (`DispatchKeepsFresh`), and
`acceptNew`, which takes the one request off the wire as it starts the work
(`AcceptKeepsFresh`). `TerminalForever` is the first fact again, as an action property.

**JobDispatch, the outcome.** That the row is true rests on everything that reports to the gateway being true:

    SafetyInv == DispatchInv /\ WorkIsRecorded /\ HostHoldsItsOwn /\ GenerationsKnown /\ SessionIsOfHost
                 /\ SessionKnowsJobs /\ ToHostIsTrue /\ ToGatewayIsTrue /\ AnsweredOnce
                 /\ RowsAreHonest /\ ReceiptHeldUntilDurable /\ InflightIsWatched /\ SlotsFit

A receipt and a task belong to work that this daemon process started (`WorkIsRecorded`, `HostHoldsItsOwn`); a live session is of
a generation the daemon has had, and of the current one while the daemon is connected (`SessionIsOfHost`). What a frame
says holds when it is written and *stays true while it travels* (`ToHostIsTrue`, `ToGatewayIsTrue`): a response names the outcome of the work, or
an error of work that was given up without a start; *missing* names work of this generation whose request is no longer on the wire and that has
not started, or whose row has ended. Without receipts an answer is written once (`AnsweredOnce`), which is why it
finds its job in `pending`. `RowStep` names the ways a row may change: by a frame, by the end of a session, by a clock; in each of them what the row
says of the work is what is known. The refinement (`ImplementsTheLifecycle`) reads the same cases as steps of `JobLifecycle`, with
`Requested` for its tickets.
For `JobLifecycle` itself the inductive invariant is
`LifecycleInv == TypeOK /\ TicketsAreFresh /\ AtMostOnce /\ HonestOutcome`.

**JobEvents.** `CompletionInv` adds to `NoMissedWakeup` that a wait is in the registry exactly from its subscription to its removal
(`RegistryExact`) and that the counters are cardinalities (`CountersExact`). The second read makes `NoMissedWakeup` inductive: a call registered before the
end of its job is seen by the end, a call registered after it sees the end. `OutboxInv` is, for each event, that the attempts tell the
delivery (`Told`), that a cycle starts within them and is bounded (`Bounded`), and that cycles and claims are ordered (`Ordered`): a worker that comes late
finds that the open attempt is no longer its own.

**Admission.** `AdmissionInv` has the locks exclude one another (`LocksExclude`) and says of each call, by what it does, what it holds and
that *what it has read under a lock is still so* (`WriterInv`, `SubmitInv`); tokens, machines and jobs follow (`TokensInv`, `MachinesInv`,
`JobsInv`). `GrantedWhileAllowed` is then an action property: at the commit the flags read under the lock are those of the rows, and
those read again are read in the same step.

**ExecutionRuntime.** `RuntimeInv` relates the state of a session to where its task is and to what is left of its process
(`SessionOK`), the registry and the calls to the sessions created (`EntriesInv`, `CallsInv`, `StopsInv`), and a shutdown to
the sessions it has collected (`ShutdownInv`: nothing is created once it has begun, so all that is live is among them). The kill that follows the exit
of the child empties its group unless it fails, and what may happen there afterwards, a descendant that leaves it, adds nothing to it
(`LeaveGroupKeeps`). Steps fall into
those that move sessions forward (`SessionsProgress`) and those that only forget (`RegistryShrinks`).

**ExecutionIO.** 
`WatchInv`: also a call *about to sleep* is served, which is why it arms before it reads.
`InputInv`: what was written, what the writer holds and what waits are consecutive stretches of what was accepted with the
end behind it; `PermitsInv`: their sizes fit the queue.
`OutputInv`: the journal holds a stretch of the output that ends where the output ends, whatever was cut and appended (`JournalInv`), the spool
has counted all of it and its file and preview are what their limits leave of it (`CapturedInv`), and nothing is left in a pipe unless
the output is marked incomplete (`ReadersInv`).
`ToldInv`: every answer kept by an observer was true of the output as it was, and stays true as it grows.
The chunks of a journal and the sums of sizes are data of any length. The induction theorems of the library cannot be
instantiated by the provers here; an induction is done as the absence of a least exception
(`Least`, `NatSetInduction`, `SubsetInduction`), from the well-foundedness of the natural numbers.

**FileMutations.** `MutationInv`: the holder of the receipts' lock has a task and no receipt yet (`HolderInv`), every other task
was left by its caller and is counted (`LeftInv`), an answer given is the one on record (`AnswersInv`), and a task between its last look and its
change sees what it expects, unless it was overtaken (`PreparedInv`). `NoLostUpdate` is the last of these at the moment of the change.

`ReportInv` follows the task of a patch through its phases. While it plans there is a step for each section before the one it is at, and nothing
is done (`IsPlanning`, `IsPlanned`). While it writes, what was done is exactly what the recorded changes tell
(`IsDoing`) but for one interval: a move has written its destination and has still to verify and delete its source, and
records its change only then. A failure in that interval, or one of which nobody knows whether it had an effect, makes the receipt inexact; that is why
`IsReported` allows one call that is not told, and why it allows no second.

`PlannedInv` relates the disk to the plan. It speaks of nothing once another program has written or a caller has left;
until then `LeftInv` leaves one task, and only its own steps change the disk. Steps are about paths that are no links
(`IsPlainStep`), because planning follows them, and no change of the task makes a link or ends in one. Of the steps taken so far, the *last* that
changes a path decides what is there (`Shows`, `IsLatest`), except for the destination of a move whose source is not yet deleted (`Carried`); the view the
later sections are planned on is the same function of the plan (`ShowsLatest`). At the end both are functions of the same last steps, so they agree.
Here, too, the sequences are data of any length: a fold is a function on a set of numbers whose least exception does not exist.

`TextInv` carries the last two theorems: what is on the disk, whoever wrote it, and what a plan has read and makes, are texts, and each step
of a plan has the result that its reference asks for. It needs nothing of the lock: a plan is made from texts, and other programs write texts. What is left
is a fact about three algorithms, for every text.
*Edits* (`SplicedAll`): edits whose ranges are apart, made one after the other from the back, leave what they would leave at once (`Pieces`):
at each position the new elements that belong there, in the order of the edits because the code's sort is stable, and then the old element unless some
range covers it.
*Placement* (`LaidIsPlacement`): a hunk that `PlanChunk` accepts is at lines that the most tolerant pass of `seek` accepts, too, and
behind the cursor, therefore behind the hunks before it, so the ranges are apart; the blank line that `Place` may drop from a
hunk is the `short` of the reference.
*Line ends* (`NormalizedIs`, `CrlfIs`): what `Normalized` leaves has no carriage return, and `Crlf` puts one before every line end and nowhere
else, which `Normalized` undoes; so the line ends of a result are of one style, that of the text's first one, whatever they were. An occurrence that `match_indices` would skip overlaps the first one, which is what the reference says of it.
The folds of the library are functions of sets of places, chosen with `CHOOSE`. That there is such a function is proved once for every operator that
is folded here (`FoldExists`, `Applied`); what it says of a sequence is a run, one result after the other.

**HostInstallation.** `HostInv`: who is past the lock holds it (`LocksHeld`), who has read an identity has read the one there is
(`Identified`), the credential on disk is the gateway's but for the cases the property names, with the answer that is
being stored among them (`Enrolled`), and no process is newer than the executable, and the running daemon is no older than an update that restarted it (`Versions`).

**Only model-checked.** Every invariant and every action property that the passing runs check is also a theorem, the refinement of `JobLifecycle` included.
Liveness (`EventuallyTerminal`, `ReceiptEventuallyReleased`, `StopsComplete`, `DeliveryEnds`) rests on fairness and `ENABLED`, which the prover does not
handle, and stays with TLC.

## 6. Findings

1. `cancellation`. `apps/execution-gateway/docs/architecture.md` says that four reserved slots keep
   long-running runs from consuming "all cancellation capacity". Each accepted request reserves a frame of 8 MiB
   of the 256 MiB of receipts: 32 running requests exhaust the budget, and the
   33rd, a cancellation with its slot free, is refused.
2. `runtime_race`. "An early cancellation is retained for a racing run"
   (`runtime.rs`). A run admitted between the two locks of `terminate_run` has not seen the termination that is then
   retained, and runs on until it ends or its own timeout does.
3. `look_refuses`. `inspect` learns whether a daemon runs by taking `daemon.lock` and keeps it until it returns; `Store::open` tries
   the lock once. A daemon that starts during a look is told that "another daemon or configuration operation owns this state
   directory" when there is none, ends with code 2, and is not started again, since the unit prevents that for code 2. One `connect`
   suffices: it looks every 100 ms for the daemon that it has just had started. The window is the reading of `status.json`.

Observations that no run is about, kept here for a reader of the code:

- `architecture.md` says that revoking a credential "prevents further state updates or dispatch from that credential". Dispatch
  checks the version in its transaction; `jobs::response` does not. A response that arrives between the commit of the
  new credential and the revocation of the session is stored. The outcome stored is the true one.
- The daemon's README says that `connect` "waits for the daemon process to acquire its state lock". It waits for anybody to
  hold it: a registration, a configuration, or the look of `status`. No property catches this.
- The same README says that at an update "a disconnected installation remains disconnected". `apply` asks
  for the lock, not for the service: with a `configure` that waits for its input, it stops a service that does not run, and starts it
  after the replacement.
- A caller that drops its request future releases the receipts' lock while the blocking write goes on
  (`filesystem.rs`, the `await` of `spawn_blocking`); the comment at the second check says that mutations within a
  runtime are serialized by that lock. Only a library caller can do this, since the daemon's tasks are not
  dropped. A retry then runs the mutation a second time, beside the first. `NoLostUpdate` and `OneAnswerPerMutation` allow
  for it (`raced`, `orphan`): the second run is no violation of either, since the first gave no answer.
- `match_indices` skips an occurrence whole, so that `aa` in `aaa` is not ambiguous to `apply_replacements`.
- A hunk whose expected lines end with a blank one may match without it anywhere in the file, not at its end only.
- A registration whose answer is lost has used its token: a new one has to be issued. `issue_registration` and
  `create` do not look at the user again, `register` does.
- An update that fails after it stopped the service (the directory stays locked, the rename fails) leaves it stopped.

## 7. What is abstracted, and what is not modelled

- *Payloads*: requests, results and error messages are their kinds. Jobs are numbered in order of creation, so
  `created_at` is the number; identifiers, fingerprints and idempotency keys are the job itself,
  hence a repeated submission is a stutter.
- *Generation on frames*: both ends of a connection exchange it in the hello and every frame repeats it; the two ends
  of one connection are the same runtime, so the field is left out.
- *Time*: a dispatch timeout, a heartbeat, a grace period, a retention may elapse at any moment,
  and a recovery deadline at any moment after it was armed. The 30 seconds of the dispatch timeout
  may be over as soon as a job is queued.
- *Bytes of receipts*: a running request reserves a whole frame, a finished one what its text takes.
  `MustRefuse` holds when the running ones alone fill the budget and `MayRefuse` when they could
  with the finished ones; between the two the daemon may accept or refuse.
- *A failing database*: an error in a session's queries ends the session (`sessionLost`,
  `missingFails`); an error in its cleanup makes the process shut down, which is `gatewayStops`.
- *A graceful shutdown* has the effect of `gatewayStops`: sessions are closed and cleaned up or, after the
  drain, dropped.
- *A hello that is refused* (protocol, identity, a machine already connected) ends the attempt
  like the loss of the connection; the daemon's output queue of eight frames and the gateway's of forty are taken
  to be large enough.
- *Several machines*: their rows, sessions and daemons are disjoint, except for
  the user's limit on unfinished jobs, which `MaxOutstanding` gives to the one machine.
- *Runtime*: validation, shell discovery and output files precede the lock and change nothing shared; an
  output file that cannot be created is the `k \in RunIds` of `refused`. Observation, resize, journals,
  spools and stdin are the subject of `ExecutionIO`; listing, interrupts and labels are left out.
- *Processes*: the runtime signals a process group (`unix.rs`), or ends a job object (`native.rs`), and no more. The child is
  taken to stay in the group that it leads; of its descendants the model knows only whether some are in that group (`rest`). Those that make a
  group or session of their own (`leaveGroup`; the core's README says that they can) are followed no further: they may outlive an execution
  with any result, and no property speaks of them. A member of the group that may not be signalled counts as having left it.
- *Admission*: API keys and webhook secrets are single statements without a limit or a state of their own; names and
  listing are left out; the presence of a machine's session at a submission is in `JobDispatch`. A registration
  token may be late at any moment.
- *Outbox*: the signature, the payload and its versions, the lengths of back-offs; a receiver's `Retry-After` is whether the next attempt
  is still within the 24 hours. Two gateway processes may overlap for a moment after the ownership connection is
  lost (`main.rs`), which the two workers cover.
- *Waits*: the timeout of a wait may be over at any moment, which also stands for the shutdown.
- *Files*: hashes are contents; directories, permissions and temporary files only as calls that may fail; sizes
  and the matching work only as limits that may be met (`fails`); files that are not text, the diff of a receipt and reading for
  callers are left out. So is a panic of the blocking work (`JoinError`), where the code answers with an error and records no receipt. The characters that `trim` removes are a blank and CR. A chain of links has at most two (`LinksEnd`),
  where the code follows forty and refuses longer ones; links to directories and relative links are left out.
- *ExecutionIO*: cursors that are rejected are not enumerated; an empty input leaves only its receipt; a write to the child succeeds whole or fails; the
  terminal's interrupt character and interrupts with their receipts, the creation, hash and removal of the output file are left out.
- *HostInstallation*: the unit is that of Linux; macOS does not restart a daemon, and Windows replaces the executable in a helper process. A release is
  fetched and verified, or the update fails before it changed anything (checksum, size and archive are not modelled). Files are
  replaced whole or not at all, as `write_json` renames; `status.json`, the comparison of the gateway's address and what `connect` quotes into the unit are left
  out. A directory that does not exist yet is one without identity, whose lock may be taken. The manager queues jobs, where it might
  cancel one for another; that is a failed call (`breaks`).

The components of section 1 without a module are listed in `PROJECT.json` with the reason: planned (below), or system
calls and input/output without a protocol of their own.

## 8. Plan

No safety property of a run is left without a theorem. A refinement for liveness, with the ranking of each actor's steps as a safety
property of its own, would bring part of `EventuallyTerminal` and `DeliveryEnds` within the prover's reach.

Each component's theorems are in a module of their own; a lemma about an operator stays with the theorems that cite it.

Candidates for further modules: dependent batches and skipping (`batch.rs`), as a function compared with a
definition by paths; the shell-snapshot cache; the shutdown of the local server.
