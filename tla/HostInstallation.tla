--------------------------- MODULE HostInstallation ---------------------------
(***************************************************************************)
(* A host's installation: one state directory, one executable and one user *)
(* service, and the commands and daemons that meet there (store.rs,        *)
(* registration.rs, service.rs, update.rs and main.rs of the daemon, with  *)
(* the Linux service manager).                                             *)
(*                                                                         *)
(* What they share is the lock of the directory.  A command looks for a    *)
(* daemon by trying to take that lock itself, and keeps it while it reads  *)
(* the rest.  Time is left out: a wait may end at any look.                *)
(***************************************************************************)
EXTENDS Integers

CONSTANTS
  Calls,     \* invocations of the program from a shell
  Ops,       \* the commands they give
  MaxFaults  \* failed calls, kills, logins and revocations

Daemon == "service"   \* the process of the user service

ASSUME CommandsAreKnown ==
  /\ {Daemon, "free"} \cap Calls = {}
  /\ Ops \subseteq {"register", "configure", "run", "status", "connect", "disconnect", "update"}

VARIABLES
  lock,        \* who holds daemon.lock, or "free"
  identity,    \* identity.json
  credential,  \* credential.json
  gateway,     \* the credential that the gateway accepts
  lost,        \* credentials issued whose answer was not stored
  binary,      \* how often the executable was replaced
  service,     \* the unit, its state and the job that the manager does
  procs, faults

vars == <<lock, identity, credential, gateway, lost, binary, service, procs, faults>>
stored == <<identity, credential>>
enrolled == <<gateway, lost>>
installed == <<binary, service>>

Procs == Calls \cup {Daemon}

\* found is the holder of the lock at the last try, was_running what an update
\* saw first, version the executable that is run or installed.
NoProc == [op |-> "none", pc |-> "new", id |-> "none", found |-> "free",
           looking |-> FALSE, was_running |-> FALSE, version |-> 0]

Over == {"done", "failed", "killed", "refused"}
At(p, op, pc) == procs[p].op = op /\ procs[p].pc = pc /\ ~procs[p].looking
Goes(p, pc) == procs' = [procs EXCEPT ![p].pc = pc]
Unlocked(p) == IF lock = p THEN "free" ELSE lock

\* The process ends, and with it its lock.
Exits(p, how) == lock' = Unlocked(p) /\ Goes(p, how)

\* The first thing that a command does.
Begins(op) ==
  CASE op \in {"register", "configure", "run"} -> "opens"
    [] op \in {"status", "connect"} -> "inspects"
    [] op = "update" -> "fetches"
    [] op = "disconnect" -> "stops"

invoked(c) ==
  /\ procs[c].pc = "new"
  /\ \E op \in Ops : procs' = [procs EXCEPT ![c] = [NoProc EXCEPT !.op = op,
                                  !.pc = Begins(op), !.version = binary]]
  /\ UNCHANGED <<lock, stored, enrolled, installed, faults>>

-----------------------------------------------------------------------------
(* Store: open, and what its owners do. *)

MayOwn(p) == lock = "free"

\* Store::open: one try, and no waiting.
open(p) ==
  /\ procs[p].pc = "opens"
  /\ IF MayOwn(p)
     THEN /\ lock' = p
          /\ procs' = [procs EXCEPT ![p].pc = IF identity = "none" THEN "names" ELSE "opened",
                                    ![p].id = identity]
     ELSE procs' = [procs EXCEPT ![p].pc = "refused", ![p].found = lock] /\ UNCHANGED lock
  /\ UNCHANGED <<stored, enrolled, installed, faults>>

\* The first owner makes up the identity.
names(p) ==
  /\ procs[p].pc = "names"
  /\ identity' = p /\ procs' = [procs EXCEPT ![p].pc = "opened", ![p].id = p]
  /\ UNCHANGED <<lock, credential, enrolled, installed, faults>>

\* Faulty variant: the directory is let go during the request.
registerReleased(c) ==
  /\ At(c, "register", "opened")
  /\ \/ gateway' = c /\ Exits(c, "answered")
     \/ Exits(c, "failed") /\ UNCHANGED gateway
  /\ UNCHANGED <<stored, lost, installed, faults>>

\* register: the gateway takes the token and replaces the credential, or
\* refuses.  The new credential is named after the call.
register(c) ==
  /\ At(c, "register", "opened")
  /\ \/ /\ gateway' = c /\ Goes(c, "answered") /\ UNCHANGED lock
     \/ Exits(c, "failed") /\ UNCHANGED gateway
  /\ UNCHANGED <<stored, lost, installed, faults>>

\* configure of the store: the file is replaced in one rename.
stores(c) ==
  /\ At(c, "register", "answered")
  /\ credential' = c /\ Exits(c, "done")
  /\ UNCHANGED <<identity, enrolled, installed, faults>>

\* The command configure: the user has the credential of the machine, or none.
configure(c) ==
  /\ At(c, "configure", "opened")
  /\ IF gateway = "none" THEN Exits(c, "failed") /\ UNCHANGED credential
     ELSE credential' = gateway /\ Exits(c, "done")
  /\ UNCHANGED <<identity, enrolled, installed, faults>>

\* run: without a credential it ends with code 2.
run(p) ==
  /\ At(p, "run", "opened")
  /\ IF credential = "none" THEN Exits(p, "failed") ELSE Goes(p, "running") /\ UNCHANGED lock
  /\ UNCHANGED <<stored, enrolled, installed, faults>>

\* The gateway does not accept the credential: code 2.
rejected(p) ==
  /\ At(p, "run", "running") /\ credential # gateway
  /\ Exits(p, "failed") /\ UNCHANGED <<stored, enrolled, installed, faults>>

\* shutdown_signal: Ctrl-C in the foreground, SIGTERM from the manager.
shutdown_signal(p) ==
  /\ procs[p].op = "run" /\ procs[p].pc \notin Over
  /\ p = Daemon => service.job # "none"
  /\ Exits(p, "done") /\ UNCHANGED <<stored, enrolled, installed, faults>>

-----------------------------------------------------------------------------
(* The service manager. *)

Started == [NoProc EXCEPT !.op = "run", !.pc = "opens", !.version = binary]

\* The policy of the unit: a kill is answered by a restart, but neither a clean
\* end nor code 2.
unit(how, asked) == IF how = "killed" /\ ~asked THEN "waiting" ELSE "inactive"

daemonEnded ==
  /\ service.state = "active" /\ procs[Daemon].pc \in Over
  /\ service' = [service EXCEPT !.state = unit(procs[Daemon].pc, service.job # "none")]
  /\ UNCHANGED <<lock, stored, enrolled, binary, procs, faults>>

managerStarts ==
  /\ service.job = "none"
  /\ \/ service.state = "waiting" /\ UNCHANGED faults
     \/ /\ service.state = "inactive" /\ service.enabled  \* login
        /\ faults < MaxFaults /\ faults' = faults + 1
  /\ service' = [service EXCEPT !.state = "active"]
  /\ procs' = [procs EXCEPT ![Daemon] = Started]
  /\ UNCHANGED <<lock, stored, enrolled, binary>>

\* connect of service.rs: the unit is written, then enabled and started.
writesUnit(c) ==
  /\ At(c, "connect", "installs")
  /\ service' = [service EXCEPT !.installed = TRUE] /\ Goes(c, "enables")
  /\ UNCHANGED <<lock, stored, enrolled, binary, faults>>

enables(c) ==
  /\ At(c, "connect", "enables") /\ service.job = "none"
  /\ service' = [service EXCEPT !.enabled = TRUE, !.state = "active"]
  /\ procs' = [procs EXCEPT ![c].pc = "waits",
                            ![Daemon] = IF service.state = "active" THEN @ ELSE Started]
  /\ UNCHANGED <<lock, stored, enrolled, binary, faults>>

\* stop, restart and disconnect give the manager a job.  A stop of what was not
\* installed fails, which disconnect ignores.
asks(c) ==
  /\ procs[c].pc \in {"stops", "restarts"} /\ service.job = "none"
  /\ IF service.installed
     THEN /\ service' = [service EXCEPT !.job = c, !.again = procs[c].pc = "restarts",
                           !.enabled = @ /\ procs[c].op # "disconnect",
                           !.state = IF @ = "waiting" THEN "inactive" ELSE @]
          /\ Goes(c, "asked")
     ELSE /\ Goes(c, IF procs[c].op = "disconnect" THEN "done" ELSE "failed")
          /\ UNCHANGED service
  /\ UNCHANGED <<lock, stored, enrolled, binary, faults>>

\* The daemon has ended.  The job is done whether or not its caller still waits.
jobDone ==
  /\ service.job # "none" /\ service.state = "inactive"
  /\ LET c == service.job
         next == IF procs[c].op = "update" /\ ~service.again THEN "drains" ELSE "done"
     IN  procs' = [procs EXCEPT ![c].pc = IF @ = "asked" THEN next ELSE @,
                                ![Daemon] = IF service.again THEN Started ELSE @]
  /\ service' = [service EXCEPT !.job = "none", !.again = FALSE,
                                !.state = IF service.again THEN "active" ELSE @]
  /\ UNCHANGED <<lock, stored, enrolled, binary, faults>>

-----------------------------------------------------------------------------
(* inspect, and the commands that look. *)

\* The lock tells whether a daemon runs, by being taken.
looks(c) ==
  /\ procs[c].pc \in {"inspects", "waits", "drains"} /\ ~procs[c].looking
  /\ lock' = IF lock = "free" THEN c ELSE lock
  /\ procs' = [procs EXCEPT ![c].found = lock, ![c].looking = TRUE]
  /\ UNCHANGED <<stored, enrolled, installed, faults>>

\* The rest is read, the lock let go, and the answer used.
Running(c) == procs[c].found # "free"

inspect(c, next) ==
  /\ procs[c].looking
  /\ lock' = Unlocked(c)
  /\ procs' = [procs EXCEPT ![c].pc = next, ![c].looking = FALSE]
  /\ UNCHANGED <<stored, enrolled, installed, faults>>

status(c) == procs[c].op = "status" /\ inspect(c, "done")

connect(c) ==
  /\ procs[c].op = "connect" /\ procs[c].pc = "inspects"
  /\ inspect(c, IF credential = "none" THEN "failed" ELSE "installs")

\* At most 15 seconds, as in wait_until_stopped.
wait_until_running(c) ==
  /\ procs[c].op = "connect" /\ procs[c].pc = "waits"
  /\ \E next \in {"waits", "failed"} : inspect(c, IF Running(c) THEN "done" ELSE next)

wait_until_stopped(c) ==
  /\ procs[c].op = "update" /\ procs[c].pc = "drains"
  /\ \E next \in {"drains", "failed"} : inspect(c, IF Running(c) THEN next ELSE "replaces")

\* apply: the release is fetched and verified, or nothing is changed.
fetches(c) ==
  /\ At(c, "update", "fetches")
  /\ Goes(c, "inspects") \/ Goes(c, "failed")
  /\ UNCHANGED <<lock, stored, enrolled, installed, faults>>

wasRunning(c) ==
  /\ procs[c].op = "update" /\ procs[c].pc = "inspects" /\ procs[c].looking
  /\ lock' = Unlocked(c)
  /\ procs' = [procs EXCEPT ![c].pc = IF Running(c) THEN "stops" ELSE "replaces",
                            ![c].looking = FALSE, ![c].was_running = Running(c)]
  /\ UNCHANGED <<stored, enrolled, installed, faults>>

\* Faulty variant: the manager is expected to restart what was stopped.
replacesOnly(c) ==
  /\ At(c, "update", "replaces")
  /\ binary' = binary + 1
  /\ procs' = [procs EXCEPT ![c].version = binary + 1, ![c].pc = "done"]
  /\ UNCHANGED <<lock, stored, enrolled, service, faults>>

\* The rename of the executable, and the restart that it is followed by.
replaces(c) ==
  /\ At(c, "update", "replaces")
  /\ binary' = binary + 1
  /\ procs' = [procs EXCEPT ![c].version = binary + 1,
                            ![c].pc = IF procs[c].was_running THEN "restarts" ELSE "done"]
  /\ UNCHANGED <<lock, stored, enrolled, service, faults>>

-----------------------------------------------------------------------------
(* What may go wrong anywhere. *)

\* A call of the system fails, or the process is killed: of the daemon these are
\* code 2 and a signal.  An answer of the gateway that was not stored is lost.
breaks(p) ==
  /\ faults < MaxFaults /\ faults' = faults + 1
  /\ procs[p].pc \notin Over \cup {"new"}
  /\ \E how \in (IF p = Daemon THEN {"failed", "killed"} ELSE {"failed"}) : Exits(p, how)
  /\ lost' = IF procs[p].pc = "answered" THEN lost \cup {p} ELSE lost
  /\ UNCHANGED <<stored, gateway, installed>>

\* The gateway revokes the credential.
revoked ==
  /\ gateway # "none" /\ faults < MaxFaults /\ faults' = faults + 1
  /\ gateway' = "none" /\ UNCHANGED <<lock, stored, lost, installed, procs>>

-----------------------------------------------------------------------------
\* A new directory, or one of an enrolled machine; a host that never had the
\* service, or had it and disconnected.
Init ==
  /\ lock = "free" /\ lost = {} /\ binary = 0 /\ faults = 0
  /\ \/ identity = "none" /\ credential = "none" /\ gateway = "none"
     \/ identity = "old" /\ credential = "old" /\ gateway = "old"
  /\ service \in [installed : BOOLEAN, enabled : {FALSE}, state : {"inactive"},
                 job : {"none"}, again : {FALSE}]
  /\ procs = [p \in Procs |-> NoProc]

ownerStep(p) ==
  open(p) \/ names(p) \/ run(p) \/ rejected(p) \/ shutdown_signal(p) \/ breaks(p)

callStep(c) ==
  \/ invoked(c) \/ register(c) \/ stores(c) \/ configure(c)
  \/ looks(c) \/ status(c) \/ connect(c) \/ wait_until_running(c)
  \/ writesUnit(c) \/ enables(c) \/ asks(c)
  \/ fetches(c) \/ wasRunning(c) \/ wait_until_stopped(c) \/ replaces(c)

\* Every command has ended: none may wait for another for ever.
quiet == (\A c \in Calls : procs[c].pc \in Over \cup {"new"}) /\ UNCHANGED vars

Next ==
  \/ \E p \in Procs : ownerStep(p)
  \/ \E c \in Calls : callStep(c)
  \/ daemonEnded \/ managerStarts \/ jobDone \/ revoked
  \/ quiet

Spec == Init /\ [][Next]_vars

-----------------------------------------------------------------------------
\* Whoever opens the directory, and whoever dies in it, it has one identity, the
\* one that every enrollment tells the gateway; and the credential on disk is the
\* one that the gateway accepts, whatever enrollments overlap, unless that was
\* revoked, is being stored, or was lost on its way (Store::open, and register,
\* which keeps the directory during its request).
EnrollmentCurrent ==
  /\ \A p \in Procs : procs[p].id \in {"none", identity}
  /\ \/ credential = gateway
     \/ gateway \in lost \cup {"none"}
     \/ \E c \in Calls : gateway = c /\ At(c, "register", "answered")

\* Once an update has said that it restarted the service, no process of the
\* service runs an executable older than the update's, whoever else connected,
\* disconnected or updated meanwhile (apply: replacement before restart).
RestartedRunsNew ==
  \A c \in Calls :
    At(c, "update", "done") /\ procs[c].was_running /\ service.state = "active" =>
      procs[Daemon].version >= procs[c].version

\* An owner that is refused is refused by another daemon or configuration
\* operation, as the error of Store::open says.
RefusedByAnOwner ==
  \A p \in Procs : procs[p].pc = "refused" =>
    procs[procs[p].found].op \in {"run", "register", "configure"}
=============================================================================
