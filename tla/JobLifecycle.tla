---------------------------- MODULE JobLifecycle ----------------------------
(***************************************************************************)
(* What the gateway promises about a job, whatever the network, the        *)
(* gateway process and the host do: it is admitted once, claimed once for  *)
(* dispatch, its work starts at most once, and it ends in one terminal     *)
(* state that says no more than is known of that work.                     *)
(***************************************************************************)
EXTENDS Naturals

CONSTANT Jobs

VARIABLES
  status,   \* what the API shows of each job
  ticket,   \* the jobs whose one request has yet to reach a host
  starts,   \* how often the work of each job was started
  outcome   \* what that work returned

vars == <<status, ticket, starts, outcome>>

Statuses == {"absent", "queued", "inflight", "succeeded", "failed", "unknown"}
Outcomes == {"none", "ok", "err"}

Init ==
  /\ status = [j \in Jobs |-> "absent"]
  /\ ticket = {}
  /\ starts = [j \in Jobs |-> 0]
  /\ outcome = [j \in Jobs |-> "none"]

\* submit
Admit(j) ==
  /\ status[j] = "absent"
  /\ status' = [status EXCEPT ![j] = "queued"]
  /\ UNCHANGED <<ticket, starts, outcome>>

\* dispatch_next: the request may be lost at once.
Claim(j) ==
  /\ status[j] = "queued"
  /\ status' = [status EXCEPT ![j] = "inflight"]
  /\ ticket' \in {ticket, ticket \cup {j}}
  /\ UNCHANGED <<starts, outcome>>

\* The request is lost, refused, or its host is gone.
Withdraw ==
  /\ ticket' \in SUBSET ticket
  /\ UNCHANGED <<status, starts, outcome>>

\* The host accepts the request; the gateway may have given the job up by then.
Start(j) ==
  /\ j \in ticket
  /\ ticket' = ticket \ {j}
  /\ starts' = [starts EXCEPT ![j] = @ + 1]
  /\ UNCHANGED <<status, outcome>>

Return(j, result) ==
  /\ starts[j] > 0 /\ outcome[j] = "none"
  /\ outcome' = [outcome EXCEPT ![j] = result]
  /\ UNCHANGED <<status, ticket, starts>>

Resolve(j, terminal) ==
  /\ status' = [status EXCEPT ![j] = terminal]
  /\ UNCHANGED <<ticket, starts, outcome>>

\* Terminal states are reached from live ones, and each has its evidence.
Succeed(j) == status[j] = "inflight" /\ outcome[j] = "ok" /\ Resolve(j, "succeeded")

Fail(j) ==
  /\ \/ status[j] = "queued"
     \/ /\ status[j] = "inflight"
        /\ outcome[j] = "err" \/ (starts[j] = 0 /\ j \notin ticket)
  /\ Resolve(j, "failed")

Lose(j) == status[j] = "inflight" /\ Resolve(j, "unknown")

Next ==
  \/ Withdraw
  \/ \E j \in Jobs :
       \/ Admit(j) \/ Claim(j) \/ Start(j) \/ Succeed(j) \/ Fail(j) \/ Lose(j)
       \/ \E result \in {"ok", "err"} : Return(j, result)

Spec == Init /\ [][Next]_vars

-----------------------------------------------------------------------------
\* Every variable keeps its shape.
TypeOK ==
  /\ status \in [Jobs -> Statuses]
  /\ ticket \subseteq Jobs
  /\ starts \in [Jobs -> Nat]
  /\ outcome \in [Jobs -> Outcomes]

\* There is no replay: the work of a job starts at most once.
AtMostOnce == \A j \in Jobs : starts[j] <= 1

\* A terminal state says no more than is known.  A job that succeeded ran and
\* returned success; one that failed without an erroneous result never ran and
\* never will, so that its client may submit it again.
HonestOutcome ==
  \A j \in Jobs :
    /\ status[j] = "succeeded" => outcome[j] = "ok"
    /\ status[j] = "failed" => outcome[j] = "err" \/ (starts[j] = 0 /\ j \notin ticket)

\* A ticket belongs to a claimed job that has not started, and only started work
\* has an outcome; with this the promises above are inductive.
TicketsAreFresh ==
  \A j \in Jobs :
    /\ j \in ticket => starts[j] = 0 /\ status[j] \notin {"absent", "queued"}
    /\ status[j] \in {"absent", "queued"} => starts[j] = 0
    /\ starts[j] = 0 => outcome[j] = "none"
=============================================================================
