-------------------------- MODULE ExecutionRuntime --------------------------
(***************************************************************************)
(* The process runtime inside a host: the registry of executions           *)
(* (runtime.rs) and the task that owns one child process (session.rs).     *)
(*                                                                         *)
(* A step is what one thread does while it holds a lock.  What happens     *)
(* before the lock (validation, shell discovery, the profile snapshot)     *)
(* changes no shared state, so a call begins where it takes the lock.      *)
(* Journals, spools and stdin are left out; retention periods, grace       *)
(* periods and timeouts may elapse at any time.                            *)
(***************************************************************************)
EXTENDS Integers, FiniteSets

CONSTANTS
  RunIds,        \* run_id values of run_execution
  StartIds,      \* start_id values of start_execution
  Args,          \* the arguments a request may carry
  Callers,       \* tasks that call run_execution or start_execution
  Terminators,   \* tasks that call terminate_run
  MaxSequence,   \* bound: executions created
  MaxActive,     \* limits.max_active_executions
  MaxRetained,   \* limits.max_retained_executions
  CallsWork      \* whether kill, terminate and wait work: a set of BOOLEAN

Keys == RunIds \cup StartIds
Sequences == 1..MaxSequence

ASSUME KeysAssumption == RunIds \cap StartIds = {}
ASSUME LimitsAssumption ==
  MaxSequence \in Nat /\ MaxActive \in Nat /\ MaxRetained \in Nat
ASSUME CallsAssumption == CallsWork \subseteq BOOLEAN
ASSUME RequestsAssumption == RunIds # {} /\ Args # {}

VARIABLES
  sessions,   \* Sequences -> Session, in order of creation
  entries,    \* registry.entries: the sequences it retains
  index,      \* registry.starts and registry.runs: Keys -> sequence or 0
  pending,    \* registry.pending_run_terminations
  aged,       \* finished executions whose retention has elapsed
  stale,      \* retained terminations whose retention has elapsed
  shutdown,   \* how far a call of shutdown has come
  calls,      \* Callers -> what the call is about to do
  stops,      \* Terminators -> what the call is about to do
  owner,      \* Sequences -> the task that runs the session
  process     \* Sequences -> the child and the descendants in its process group

registry == <<entries, index, pending, aged, stale>>
callers == <<calls, stops, shutdown>>
vars == <<sessions, registry, callers, owner, process>>

-----------------------------------------------------------------------------
States == {"absent", "starting", "running", "stopping", "finished"}
StopReasons == {"none", "explicit", "timeout", "shutdown"}
Results == {"none", "exited", "terminated", "timed_out", "start_failed", "lost"}

Session == [key : Keys, args : Args, state : States, stop : StopReasons,
            rootExited : BOOLEAN, cancelled : BOOLEAN, result : Results]

NoSession == [key |-> CHOOSE k \in Keys : TRUE, args |-> CHOOSE a \in Args : TRUE,
              state |-> "absent", stop |-> "none", rootExited |-> FALSE,
              cancelled |-> FALSE, result |-> "none"]

Owner == [at : {"none", "spawn", "loop", "exited", "drain", "done"},
          stopping : BOOLEAN, killed : BOOLEAN, failed : BOOLEAN, timer : BOOLEAN]
NoOwner == [at |-> "none", stopping |-> FALSE, killed |-> FALSE, failed |-> FALSE,
            timer |-> FALSE]

\* The child, which leads a process group, or on Windows is in a job object, and
\* stays there; rest: descendants are in that group too.  Those that have left it
\* may live on, but no signal of the runtime reaches them: they are not followed.
Process == [root : {"none", "alive", "dead"}, rest : BOOLEAN]
NoProcess == [root |-> "none", rest |-> FALSE]

Call == [at : {"idle", "launch", "waiting"}, seq : Sequences \cup {0}]
Stop == [at : {"idle", "found", "missing"}, key : RunIds, seq : Sequences \cup {0}]
Shutdown == [at : {"no", "called", "done"}, left : SUBSET Sequences, all : SUBSET Sequences]

Unfinished(s) == sessions[s].state \in {"starting", "running", "stopping"}
Launched(s) == owner[s].at \notin {"none", "spawn"} \/ sessions[s].state = "finished"
Closing == shutdown.at # "no"

-----------------------------------------------------------------------------
(* Registry::cleanup, which every locked operation of the registry runs. *)

Kept == entries \ aged
KeptIndex == [k \in Keys |-> IF index[k] \in aged THEN 0 ELSE index[k]]
KeptPending == pending \ stale

cleanup ==
  /\ entries' = Kept
  /\ index' = KeptIndex
  /\ pending' = KeptPending
  /\ aged' = {} /\ stale' = {}

\* The background loop that new() starts, and the calls that only look.
housekeeping ==
  /\ cleanup
  /\ UNCHANGED <<sessions, callers, owner, process>>

\* Faulty variant: retention counts from the creation, not from the end.
executionAgesEarly(s) ==
  /\ s \in entries \ aged
  /\ aged' = aged \cup {s}
  /\ UNCHANGED <<sessions, entries, index, pending, stale, callers, owner, process>>

\* Time passes: finished_at.elapsed() >= retention.
executionAges(s) ==
  /\ s \in entries \ aged
  /\ sessions[s].state = "finished"
  /\ aged' = aged \cup {s}
  /\ UNCHANGED <<sessions, entries, index, pending, stale, callers, owner, process>>

\* created_at.elapsed() >= run_retention
terminationAges(k) ==
  /\ k \in pending \ stale
  /\ stale' = stale \cup {k}
  /\ UNCHANGED <<sessions, entries, index, pending, aged, callers, owner, process>>

-----------------------------------------------------------------------------
(* Session::terminate and Session::finish. *)

\* Faulty variant: a later reason replaces the first.
TerminatedLast(session, reason) ==
  IF session.state # "finished" /\ ~session.rootExited
  THEN [session EXCEPT !.stop = reason, !.state = "stopping"]
  ELSE session

Terminated(session, reason) ==
  IF session.state # "finished" /\ ~session.rootExited /\ session.stop = "none"
  THEN [session EXCEPT !.stop = reason, !.state = "stopping"]
  ELSE session

\* Faulty variant: the raw outcome is stored where a state belongs.
FinishedRaw(session, result) == [session EXCEPT !.state = result, !.result = result]

Finished(session, result) ==
  [session EXCEPT !.state = "finished", !.result = result]

-----------------------------------------------------------------------------
(* run_execution and start_execution. *)

Full ==
  \/ Cardinality({s \in Kept : Unfinished(s)}) >= MaxActive
  \/ Cardinality(Kept) >= MaxRetained

NextSequence == 1 + Cardinality({s \in Sequences : sessions[s].state # "absent"})

Begin(c, s, at) == calls' = [calls EXCEPT ![c] = [at |-> at, seq |-> s]]

\* A known identity with the same arguments joins its execution; with other
\* arguments it is refused, and the call returns.
joins(c, k, a) ==
  /\ calls[c].at = "idle"
  /\ KeptIndex[k] # 0
  /\ cleanup
  /\ IF sessions[KeptIndex[k]].args = a
     THEN Begin(c, KeptIndex[k], "waiting") ELSE UNCHANGED calls
  /\ UNCHANGED <<sessions, stops, shutdown, owner, process>>

\* Shutdown, capacity, or a run whose output file cannot be created.
refused(c, k) ==
  /\ calls[c].at = "idle"
  /\ KeptIndex[k] = 0
  /\ Closing \/ Full \/ k \in RunIds
  /\ cleanup
  /\ UNCHANGED <<sessions, callers, owner, process>>

NewSession(k, a) ==
  [NoSession EXCEPT !.key = k, !.args = a, !.state = "starting",
                    !.cancelled = k \in KeptPending]

\* A new execution takes the next sequence; a run consumes the termination that
\* came before it.  start_execution spawns the session's task under the lock.
admitted(c, k, a) ==
  /\ calls[c].at = "idle"
  /\ KeptIndex[k] = 0
  /\ ~Closing /\ ~Full
  /\ NextSequence \in Sequences
  /\ LET s == NextSequence IN
     /\ sessions' = [sessions EXCEPT ![s] = NewSession(k, a)]
     /\ entries' = Kept \cup {s}
     /\ index' = [KeptIndex EXCEPT ![k] = s]
     /\ pending' = KeptPending \ {k}
     /\ aged' = {} /\ stale' = {}
     /\ IF k \in RunIds
        THEN Begin(c, s, "launch") /\ UNCHANGED owner
        ELSE Begin(c, s, "waiting") /\ owner' = [owner EXCEPT ![s].at = "spawn"]
  /\ UNCHANGED <<stops, shutdown, process>>

\* Faulty variant: the cancelled run is launched like any other.
launchAnyway(c) ==
  /\ calls[c].at = "launch"
  /\ LET s == calls[c].seq IN
     /\ \E timed \in BOOLEAN :
          owner' = [owner EXCEPT ![s].at = "spawn", ![s].timer = timed]
     /\ Begin(c, s, "waiting")
  /\ UNCHANGED <<sessions, registry, stops, shutdown, process>>

\* run_execution after the lock: finish a cancelled run, or spawn its task and
\* the timer of timeout_ms.
launch(c) ==
  /\ calls[c].at = "launch"
  /\ LET s == calls[c].seq IN
     /\ IF sessions[s].cancelled
        THEN /\ sessions' = [sessions EXCEPT ![s] = Finished(@, "terminated")]
             /\ UNCHANGED owner
        ELSE /\ \E timed \in BOOLEAN :
                  owner' = [owner EXCEPT ![s].at = "spawn", ![s].timer = timed]
             /\ UNCHANGED sessions
     /\ Begin(c, s, "waiting")
  /\ UNCHANGED <<registry, stops, shutdown, process>>

\* wait_finished for a run; wait_launched and a bounded observation for a start.
returns(c) ==
  /\ calls[c].at = "waiting"
  /\ LET s == calls[c].seq IN
     IF sessions[s].key \in RunIds THEN sessions[s].state = "finished" ELSE Launched(s)
  /\ Begin(c, 0, "idle")
  /\ UNCHANGED <<sessions, registry, stops, shutdown, owner, process>>

-----------------------------------------------------------------------------
(* terminate_run, terminate_execution and shutdown. *)

\* The first lock of terminate_run.
terminate_run(t, k) ==
  /\ stops[t].at = "idle"
  /\ cleanup
  /\ stops' = [stops EXCEPT ![t] =
       [at |-> IF KeptIndex[k] = 0 THEN "missing" ELSE "found", key |-> k,
        seq |-> KeptIndex[k]]]
  /\ UNCHANGED <<sessions, calls, shutdown, owner, process>>

\* The second lock, when the first found no run: the termination is retained,
\* or refused when too many are.
retains(t) ==
  /\ stops[t].at = "missing"
  /\ pending' = IF Cardinality(pending) >= MaxRetained THEN pending
                ELSE pending \cup {stops[t].key}
  /\ stops' = [stops EXCEPT ![t].at = "idle", ![t].seq = 0]
  /\ UNCHANGED <<sessions, entries, index, aged, stale, calls, shutdown, owner, process>>

\* The session's lock, when the first found one.
stopsRun(t) ==
  /\ stops[t].at = "found"
  /\ sessions' = [sessions EXCEPT ![stops[t].seq] = Terminated(@, "explicit")]
  /\ stops' = [stops EXCEPT ![t].at = "idle", ![t].seq = 0]
  /\ UNCHANGED <<registry, calls, shutdown, owner, process>>

\* By handle: the session is retained, so a lookup that is late does nothing.
terminate_execution(s) ==
  /\ s \in Kept
  /\ cleanup
  /\ sessions' = [sessions EXCEPT ![s] = Terminated(@, "explicit")]
  /\ UNCHANGED <<callers, owner, process>>

\* Faulty variant: only executions that run already are collected.
shutdownRunning ==
  /\ shutdown.at = "no"
  /\ LET running == {s \in entries : sessions[s].state = "running"} IN
     shutdown' = [at |-> "called", left |-> running, all |-> running]
  /\ UNCHANGED <<sessions, registry, calls, stops, owner, process>>

\* shutdown rejects new starts and collects the sessions under one lock.
shutdownBegins ==
  /\ shutdown.at = "no"
  /\ shutdown' = [at |-> "called", left |-> entries, all |-> entries]
  /\ UNCHANGED <<sessions, registry, calls, stops, owner, process>>

\* It terminates each of them.
shutdownStops(s) ==
  /\ shutdown.at = "called" /\ s \in shutdown.left
  /\ sessions' = [sessions EXCEPT ![s] = Terminated(@, "shutdown")]
  /\ shutdown' = [shutdown EXCEPT !.left = @ \ {s}]
  /\ UNCHANGED <<registry, calls, stops, owner, process>>

\* It returns when all of them have finished.
shutdownReturns ==
  /\ shutdown.at = "called" /\ shutdown.left = {}
  /\ \A s \in shutdown.all : sessions[s].state = "finished"
  /\ shutdown' = [shutdown EXCEPT !.at = "done"]
  /\ UNCHANGED <<sessions, registry, calls, stops, owner, process>>

-----------------------------------------------------------------------------
(* session::run and the timer of a run. *)

\* The timer waits for the launch, then for the timeout or the end.
timeoutFires(s) ==
  /\ owner[s].timer /\ Launched(s)
  /\ owner' = [owner EXCEPT ![s].timer = FALSE]
  /\ sessions' = [sessions EXCEPT ![s] = Terminated(@, "timeout")]
  /\ UNCHANGED <<registry, callers, process>>

spawnFails(s) ==
  /\ owner[s].at = "spawn"
  /\ owner' = [owner EXCEPT ![s] = [NoOwner EXCEPT !.at = "done"]]
  /\ sessions' = [sessions EXCEPT ![s] = Finished(@, "start_failed")]
  /\ UNCHANGED <<registry, callers, process>>

\* The child may leave descendants behind.
spawns(s) ==
  /\ owner[s].at = "spawn"
  /\ owner' = [owner EXCEPT ![s].at = "loop"]
  /\ sessions' = [sessions EXCEPT
       ![s].state = IF sessions[s].stop = "none" THEN "running" ELSE @]
  /\ \E forks \in BOOLEAN :
       process' = [process EXCEPT ![s] = [root |-> "alive", rest |-> forks]]
  /\ UNCHANGED <<registry, callers>>

\* The shutdown token reaches the loop by itself.
seesShutdown(s) ==
  /\ owner[s].at = "loop" /\ Closing
  /\ sessions[s].stop = "none"
  /\ sessions' = [sessions EXCEPT ![s] = Terminated(@, "shutdown")]
  /\ UNCHANGED <<registry, callers, owner, process>>

\* Control::kill signals the process group, or ends the job object: the child and
\* the descendants that are in it end, those that have left it do not.  Or it fails.
Killed(s, works) ==
  process' = IF works
             THEN [process EXCEPT ![s] = [root |-> "dead", rest |-> FALSE]]
             ELSE process

\* The top of the loop asks politely; where that is unsupported or fails it kills.
stopGracefully(s) ==
  /\ owner[s].at = "loop" /\ sessions[s].stop # "none" /\ ~owner[s].stopping
  /\ owner' = [owner EXCEPT ![s].stopping = TRUE]
  /\ UNCHANGED <<sessions, registry, callers, process>>

stopForcibly(s) ==
  /\ owner[s].at = "loop" /\ sessions[s].stop # "none" /\ ~owner[s].stopping
  /\ \E asked, works \in CallsWork :
       /\ Killed(s, works)
       /\ owner' = [owner EXCEPT ![s].stopping = TRUE, ![s].killed = TRUE,
                                 ![s].failed = ~(asked /\ works)]
  /\ UNCHANGED <<sessions, registry, callers>>

\* Faulty variant: only an explicit termination is enforced at its deadline.
graceEndsExplicit(s) ==
  /\ owner[s].at = "loop" /\ owner[s].stopping /\ ~owner[s].killed
  /\ sessions[s].stop = "explicit"
  /\ \E works \in CallsWork :
       /\ Killed(s, works)
       /\ owner' = [owner EXCEPT ![s].killed = TRUE, ![s].failed = @ \/ ~works]
  /\ UNCHANGED <<sessions, registry, callers>>

\* The grace period is over.
graceEnds(s) ==
  /\ owner[s].at = "loop" /\ owner[s].stopping /\ ~owner[s].killed
  /\ \E works \in CallsWork :
       /\ Killed(s, works)
       /\ owner' = [owner EXCEPT ![s].killed = TRUE, ![s].failed = @ \/ ~works]
  /\ UNCHANGED <<sessions, registry, callers>>

\* The environment: the last descendants in the group leave it, for a group or a
\* session of their own, which Unix lets them do and the job object does not.
leaveGroup(s) ==
  /\ process[s].rest
  /\ process' = [process EXCEPT ![s].rest = FALSE]
  /\ UNCHANGED <<sessions, registry, callers, owner>>

\* The environment: the child ends by itself.  Descendants that stay in the group
\* do so only when killed, which is the harder case.
childExits(s) ==
  /\ process[s].root = "alive"
  /\ process' = [process EXCEPT ![s].root = "dead"]
  /\ UNCHANGED <<sessions, registry, callers, owner>>

\* wait resolves: input closes and the session accepts no termination any more.
rootExits(s) ==
  /\ owner[s].at = "loop" /\ process[s].root = "dead"
  /\ owner' = [owner EXCEPT ![s].at = "exited"]
  /\ sessions' = [sessions EXCEPT ![s].rootExited = TRUE, ![s].state = "stopping"]
  /\ UNCHANGED <<registry, callers, process>>

waitFails(s) ==
  /\ owner[s].at = "loop" /\ FALSE \in CallsWork
  /\ owner' = [owner EXCEPT ![s].at = "exited", ![s].failed = TRUE]
  /\ sessions' = [sessions EXCEPT ![s].rootExited = TRUE, ![s].state = "stopping"]
  /\ UNCHANGED <<registry, callers, process>>

\* Faulty variant: a child that exited in its grace period excuses the others.
killsRestUnlessStopping(s) ==
  /\ owner[s].at = "exited"
  /\ \E works \in CallsWork :
       /\ Killed(s, works /\ ~owner[s].stopping)
       /\ owner' = [owner EXCEPT ![s].at = "drain", ![s].failed = @ \/ ~works]
  /\ UNCHANGED <<sessions, registry, callers>>

\* After the root, whatever it left is killed, at the deadline if one was set.
killsRest(s) ==
  /\ owner[s].at = "exited"
  /\ \E works \in CallsWork :
       /\ Killed(s, works)
       /\ owner' = [owner EXCEPT ![s].at = "drain", ![s].failed = @ \/ ~works]
  /\ UNCHANGED <<sessions, registry, callers>>

Result(s) ==
  IF owner[s].failed THEN "lost"
  ELSE IF owner[s].stopping /\ sessions[s].stop = "timeout" THEN "timed_out"
  ELSE IF owner[s].stopping THEN "terminated" ELSE "exited"

\* Output is drained, for a bounded time, and the session finishes; its timer,
\* which waits for the end too, has nothing left to do.
finishes(s) ==
  /\ owner[s].at = "drain"
  /\ owner' = [owner EXCEPT ![s] = [NoOwner EXCEPT !.at = "done"]]
  /\ sessions' = [sessions EXCEPT ![s] = Finished(@, Result(s))]
  /\ UNCHANGED <<registry, callers, process>>

-----------------------------------------------------------------------------
Init ==
  /\ sessions = [s \in Sequences |-> NoSession]
  /\ entries = {} /\ index = [k \in Keys |-> 0]
  /\ pending = {} /\ aged = {} /\ stale = {}
  /\ shutdown = [at |-> "no", left |-> {}, all |-> {}]
  /\ calls = [c \in Callers |-> [at |-> "idle", seq |-> 0]]
  /\ stops = [t \in Terminators |-> [at |-> "idle", key |-> CHOOSE k \in RunIds : TRUE, seq |-> 0]]
  /\ owner = [s \in Sequences |-> NoOwner]
  /\ process = [s \in Sequences |-> NoProcess]

CallStep(c) ==
  \/ \E k \in Keys, a \in Args : joins(c, k, a) \/ admitted(c, k, a)
  \/ \E k \in Keys : refused(c, k)
  \/ launch(c) \/ returns(c)

StopStep(t) == (\E k \in RunIds : terminate_run(t, k)) \/ retains(t) \/ stopsRun(t)

SessionStep(s) ==
  \/ terminate_execution(s) \/ shutdownStops(s) \/ executionAges(s) \/ timeoutFires(s)
  \/ spawnFails(s) \/ spawns(s) \/ seesShutdown(s) \/ stopGracefully(s) \/ stopForcibly(s)
  \/ graceEnds(s) \/ leaveGroup(s) \/ childExits(s) \/ rootExits(s) \/ waitFails(s)
  \/ killsRest(s) \/ finishes(s)

Next ==
  \/ housekeeping \/ shutdownBegins \/ shutdownReturns
  \/ \E k \in RunIds : terminationAges(k)
  \/ \E c \in Callers : CallStep(c)
  \/ \E t \in Terminators : StopStep(t)
  \/ \E s \in Sequences : SessionStep(s)

Spec == Init /\ [][Next]_vars

-----------------------------------------------------------------------------
(* Correctness. *)

\* Every variable keeps its shape.
TypeOK ==
  /\ sessions \in [Sequences -> Session]
  /\ entries \subseteq Sequences
  /\ index \in [Keys -> Sequences \cup {0}]
  /\ pending \subseteq RunIds
  /\ aged \subseteq entries
  /\ stale \subseteq pending
  /\ shutdown \in Shutdown
  /\ calls \in [Callers -> Call]
  /\ stops \in [Terminators -> Stop]
  /\ owner \in [Sequences -> Owner]
  /\ process \in [Sequences -> Process]

\* The registry's maps agree: an identity leads to the entry of its execution (the
\* code indexes registry.entries without a check), and an execution that has not
\* finished is still the one its identity leads to, so that it can be stopped and
\* a retried call joins it instead of running the command twice.  Its limits hold
\* although they are checked before the session's task is spawned.
RegistrySound ==
  /\ \A k \in Keys : index[k] # 0 => index[k] \in entries /\ sessions[index[k]].key = k
  /\ \A s \in Sequences : Unfinished(s) => s \in entries /\ index[sessions[s].key] = s
  /\ Cardinality({s \in Sequences : Unfinished(s)}) <= MaxActive
  /\ Cardinality(entries) <= MaxRetained

\* A finished execution has left nothing running in its process group or job
\* object: not the child, and not the descendants that stayed there, whether it
\* ended by itself, in its grace period or at its end.  The exceptions are a
\* result "lost", after a signal or a wait that failed, and the descendants that
\* left the group, which no signal of the runtime reaches.
GroupLeftEmpty ==
  \A s \in Sequences :
    sessions[s].state = "finished" /\ sessions[s].result # "lost"
      => process[s].root # "alive" /\ ~process[s].rest

\* shutdown returns only when every accepted execution has finished, those that
\* were admitted but not launched included, and nothing starts afterwards.
ShutdownIsFinal ==
  shutdown.at = "done" =>
    \A s \in Sequences : ~Unfinished(s) /\ owner[s].at \in {"none", "done"}

\* A run whose termination came first never starts a process.
CancelledNeverSpawns ==
  \A s \in Sequences : sessions[s].cancelled => process[s].root = "none"

\* The first reason to stop decides: a timeout, a termination and a shutdown that
\* race never replace one another, nor does a stop end twice.
FirstStopWins ==
  [][\A s \in Sequences : sessions[s].stop # "none" => sessions'[s].stop = sessions[s].stop]_vars

\* terminate_run says of itself: "An early cancellation is retained for a racing
\* run."  A retained termination and a run it does not stop exclude each other.
RacingRunIsStopped ==
  \A k \in pending : index[k] # 0 =>
    sessions[index[k]].state = "finished" \/ sessions[index[k]].stop # "none"

-----------------------------------------------------------------------------
(* Progress: the runtime's tasks and timers run; commands owe nothing. *)

\* What the sessions' tasks, the launches and shutdown do next, the end of a grace
\* period included: no new call, no timeout, no retention, nothing of the child's.
TaskStep ==
  \/ \E s \in Sequences :
       \/ spawnFails(s) \/ spawns(s) \/ seesShutdown(s) \/ stopGracefully(s)
       \/ stopForcibly(s) \/ graceEnds(s) \/ rootExits(s) \/ killsRest(s)
       \/ finishes(s) \/ shutdownStops(s)
  \/ \E c \in Callers : launch(c)
  \/ shutdownReturns

\* The runtime does not idle for ever while one of them has a step to take.
\* Which one it is does not matter: an execution has finitely many such steps.
Fairness == WF_vars(TaskStep)

FairSpec == Spec /\ Fairness

\* What was told to stop finishes, whatever its command does, and shutdown returns,
\* also when it meets executions on their way to a launch: again and again there is
\* nothing that was told to stop and goes on.  An execution is excused when a
\* signal or a wait failed, since the kill at the end of the grace period is the
\* last that its task sends; shutdown waits for it as long as it lives.
StopsComplete ==
  []<>( LET Lost(s) == owner[s].failed IN
        /\ \A s \in Sequences :
             sessions[s].stop # "none" => sessions[s].state = "finished" \/ Lost(s)
        /\ shutdown.at = "called" => \E s \in Sequences : Lost(s) )
=============================================================================
