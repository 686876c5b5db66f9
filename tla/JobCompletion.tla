---------------------------- MODULE JobCompletion ----------------------------
(***************************************************************************)
(* Waiting for the end of a job (jobs.rs wait, job_completion.rs): the     *)
(* registry of waiters with its two limits, and the wake-up that           *)
(* PostgreSQL sends when the transaction that ends the job commits.        *)
(*                                                                         *)
(* A wait is one call of the route.  Its steps are the points between its  *)
(* awaits: the first read of the status, the subscription, the second      *)
(* read, the sleep, the read of the answer.  The wake-up is a hint: it is  *)
(* lost while the listener's connection is down.                           *)
(***************************************************************************)
EXTENDS JobUsers, Integers, FiniteSets

CONSTANTS
  Waits,
  JobOf,                 \* Waits -> Jobs: the calls, each by the job's owner
  MaxWaiters,            \* MAX_WAITERS
  MaxWaitersPerUser,     \* MAX_WAITERS_PER_USER
  MaxDisconnects         \* how often the listener's connection breaks

ASSUME WaitsHaveJobs ==
  /\ JobOf \in [Waits -> Jobs]
  /\ MaxWaiters \in Nat /\ MaxWaitersPerUser \in Nat

VARIABLES
  ended,        \* the jobs that are succeeded, failed or unknown
  waits,        \* Waits -> where the call is
  by_job,       \* Jobs -> the waits registered
  by_user,      \* Users -> a counter
  total,        \* a counter
  woken,        \* the waits whose oneshot was sent
  notices,      \* the jobs whose wake-up is on its way to the listener
  listening,    \* the listener's connection is up
  lost,         \* history: the jobs whose wake-up never came
  disconnects

waitVars == <<waits, by_job, by_user, total, woken>>
listenerVars == <<notices, listening, lost, disconnects>>

UserOf(w) == Owner[JobOf[w]]

-----------------------------------------------------------------------------
(* The registry. *)

\* JobCompletions::notify: all waiters of the job, at once.
Notified(job) ==
  /\ by_job' = [by_job EXCEPT ![job] = {}]
  /\ by_user' = [u \in Users |-> by_user[u] - Cardinality({w \in by_job[job] : UserOf(w) = u})]
  /\ total' = total - Cardinality(by_job[job])
  /\ woken' = woken \cup by_job[job]

\* Faulty variant: a waiter that was notified is counted down again.
RemovedTwice(w) ==
  /\ by_job' = [by_job EXCEPT ![JobOf[w]] = @ \ {w}]
  /\ by_user' = [by_user EXCEPT ![UserOf(w)] = IF @ > 0 THEN @ - 1 ELSE @]
  /\ total' = total - 1
  /\ UNCHANGED woken

\* JobCompletions::remove, when the subscription is dropped.
Removed(w) ==
  LET left == Cardinality(by_job[JobOf[w]] \cap {w})
  IN  /\ by_job' = [by_job EXCEPT ![JobOf[w]] = @ \ {w}]
      /\ by_user' = [by_user EXCEPT ![UserOf(w)] = @ - left]
      /\ total' = total - left
      /\ UNCHANGED woken

Room(w) == total < MaxWaiters /\ by_user[UserOf(w)] < MaxWaitersPerUser

-----------------------------------------------------------------------------
(* A wait. *)

Subscribed == {"subscribed", "asleep", "answering"}

Goes(w, to) == waits' = [waits EXCEPT ![w] = to]

begins(w) ==
  /\ waits[w] = "new" /\ Goes(w, "first")
  /\ UNCHANGED <<by_job, by_user, total, woken>>

\* The first read of the status.
firstRead(w) ==
  /\ waits[w] = "first"
  /\ Goes(w, IF JobOf[w] \in ended THEN "over" ELSE "open")
  /\ UNCHANGED <<by_job, by_user, total, woken>>

\* subscribe, or the error that there are too many waits.
subscribe(w) ==
  /\ waits[w] = "open"
  /\ IF Room(w)
     THEN /\ Goes(w, "subscribed")
          /\ by_job' = [by_job EXCEPT ![JobOf[w]] = @ \cup {w}]
          /\ by_user' = [by_user EXCEPT ![UserOf(w)] = @ + 1]
          /\ total' = total + 1
     ELSE Goes(w, "over") /\ UNCHANGED <<by_job, by_user, total>>
  /\ UNCHANGED woken

\* Faulty variant: the status is not read again after the subscription.
secondReadSkipped(w) ==
  /\ waits[w] = "subscribed" /\ Goes(w, "asleep")
  /\ UNCHANGED <<by_job, by_user, total, woken>>

\* The second read closes the race between the first and the subscription.
secondRead(w) ==
  /\ waits[w] = "subscribed"
  /\ Goes(w, IF JobOf[w] \in ended THEN "answering" ELSE "asleep")
  /\ UNCHANGED <<by_job, by_user, total, woken>>

\* Subscription::wait: woken, timed out, or the gateway shuts down.
wakes(w) ==
  /\ waits[w] = "asleep" /\ Goes(w, "answering")
  /\ UNCHANGED <<by_job, by_user, total, woken>>

\* The answer is read, or the client goes away while it waits: either drops the
\* subscription.
ends(w) ==
  /\ waits[w] \in Subscribed
  /\ Goes(w, "over") /\ Removed(w)

waitStep(w) ==
  begins(w) \/ firstRead(w) \/ subscribe(w) \/ secondRead(w) \/ wakes(w) \/ ends(w)

-----------------------------------------------------------------------------
(* The listener. *)

\* publish, as the transaction commits.
publish(job) ==
  /\ notices' = IF listening THEN notices \cup {job} ELSE notices
  /\ lost' = IF listening THEN lost ELSE lost \cup {job}
  /\ UNCHANGED <<listening, disconnects>>

listen ==
  \E job \in notices :
    /\ notices' = notices \ {job} /\ Notified(job)
    /\ UNCHANGED <<waits, listening, lost, disconnects>>

disconnected ==
  /\ listening /\ disconnects < MaxDisconnects
  /\ listening' = FALSE /\ disconnects' = disconnects + 1
  /\ notices' = {} /\ lost' = lost \cup notices
  /\ UNCHANGED waitVars

reconnected ==
  /\ ~listening /\ listening' = TRUE
  /\ UNCHANGED <<notices, lost, disconnects, waitVars>>

listenerStep == listen \/ disconnected \/ reconnected

\* A wait that is over from the start is a call that nobody makes.
CompletionInit ==
  /\ ended = {} /\ waits \in [Waits -> {"new", "over"}]
  /\ by_job = [j \in Jobs |-> {}] /\ by_user = [u \in Users |-> 0] /\ total = 0
  /\ woken = {} /\ notices = {} /\ listening = TRUE /\ lost = {}
  /\ disconnects \in 0..MaxDisconnects

-----------------------------------------------------------------------------
\* A call that sleeps although its job has ended has its wake-up on the way,
\* unless the listener's connection lost it and the timeout will end the sleep
\* (wait: subscribe between two reads; publish in the ending transaction).
NoMissedWakeup ==
  \A w \in Waits :
    waits[w] = "asleep" /\ w \notin woken /\ JobOf[w] \in ended
    => JobOf[w] \in notices \cup lost

\* The counters are the waiters there are, however each one left: by the
\* wake-up, the timeout or its client; and they respect both limits
\* (subscribe, notify, remove, decrement_user).
WaiterAccounts ==
  /\ \A u \in Users :
       by_user[u] = Cardinality({w \in Waits : UserOf(w) = u /\ w \in by_job[JobOf[w]]})
  /\ total = Cardinality(UNION {by_job[j] : j \in Jobs})
  /\ total <= MaxWaiters /\ \A u \in Users : by_user[u] <= MaxWaitersPerUser
  /\ \A w \in Waits : (w \in by_job[JobOf[w]]) = (waits[w] \in Subscribed /\ w \notin woken)
=============================================================================
