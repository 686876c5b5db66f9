---------------------------- MODULE WebhookOutbox ----------------------------
(***************************************************************************)
(* The outbox of terminal events and its workers (webhooks.rs): claims     *)
(* under a lease, attempts, retry cycles, redelivery.                      *)
(*                                                                         *)
(* A worker is the run task of one gateway process.  There may be two of   *)
(* them: a process that loses the database connection of its ownership     *)
(* lock notices at its next check, when another may have started           *)
(* (main.rs).  Time is abstract: a delivery is due or not, its lease holds *)
(* or not, its cycle's 24 hours are over or not.  A lease is named by the  *)
(* number of the attempt it was taken for.                                 *)
(***************************************************************************)
EXTENDS JobUsers, Integers, Sequences, FiniteSets

CONSTANTS
  Workers,
  MaxAttempts,       \* the attempts of a cycle: 8
  MaxRedeliveries,   \* how often callers ask for another cycle
  MaxDeaths,         \* how often a worker stops in the middle
  MaxEdits           \* how often users are changed

ASSUME CyclesHaveAttempts == MaxAttempts \in Nat \ {0}

VARIABLES
  deliveries,   \* Jobs -> NoDelivery or a row of webhook_deliveries
  attempts,     \* Jobs -> the rows of webhook_delivery_attempts, by number
  workers,      \* Workers -> Resting or the claim under way
  enabled,      \* the users that are enabled
  callback,     \* the users whose callback_url is not empty
  redeliveries, deaths, edits

outboxVars == <<deliveries, attempts, workers, enabled, callback,
                redeliveries, deaths, edits>>

NoDelivery == [status |-> "none"]
Resting == [pc |-> "resting"]
Active == {"pending", "retry_wait", "delivering"}
Final == {"delivered", "failed"}

\* The row finish_tx inserts.
NewDelivery == [status |-> "pending", due |-> TRUE, lease |-> 0, held |-> FALSE,
                from |-> 1, over |-> FALSE]

\* Faulty variant: a delivery whose worker is gone is nobody's.
RunnableUnclaimed(j) ==
  /\ Owner[j] \in enabled
  /\ deliveries[j].status \in {"pending", "retry_wait"} /\ deliveries[j].due

Runnable(j) ==
  LET d == deliveries[j]
  IN  /\ Owner[j] \in enabled
      /\ \/ d.status \in {"pending", "retry_wait"} /\ d.due
         \/ d.status = "delivering" /\ ~d.held

Ended(d, status) == [d EXCEPT !.status = status, !.lease = 0, !.held = FALSE]

Closed(rows) == [n \in DOMAIN rows |-> IF rows[n] = "open" THEN "lease_expired" ELSE rows[n]]

\* Faulty variant: only finished attempts count.
CycleNumberFinished(j) ==
  Cardinality({n \in DOMAIN attempts[j] :
                 n >= deliveries[j].from /\ attempts[j][n] \notin {"open", "lease_expired"}}) + 1

\* cycle_number: every attempt of the cycle counts, the expired ones too.
CycleNumber(j) == Len(attempts[j]) + 1 - deliveries[j].from + 1

\* claim
claim(w, j) ==
  LET number == Len(attempts[j]) + 1
      cycle == CycleNumber(j)
      spent == cycle > MaxAttempts \/ deliveries[j].over
  IN  /\ workers[w] = Resting /\ Runnable(j)
      /\ deliveries' = [deliveries EXCEPT ![j] =
           IF spent THEN Ended(@, "failed")
           ELSE [@ EXCEPT !.status = "delivering", !.lease = number, !.held = TRUE]]
      /\ attempts' = [attempts EXCEPT ![j] =
           IF spent THEN Closed(@) ELSE Append(Closed(@), "open")]
      /\ workers' = IF spent THEN workers
                    ELSE [workers EXCEPT ![w] = [pc |-> "sending", job |-> j, number |-> number,
                                                 cycle |-> cycle, outcome |-> "none"]]
      /\ UNCHANGED <<enabled, callback, redeliveries, deaths, edits>>

\* prepare_and_send: a success; a status to retry, or no response, when the
\* receiver may have accepted the event all the same; an error for good, of the
\* receiver or because nothing can be sent.
deliver(w) ==
  /\ workers[w].pc = "sending"
  /\ \E outcome \in {"success", "retry", "error"} :
       workers' = [workers EXCEPT ![w].pc = "finalizing", ![w].outcome = outcome]
  /\ UNCHANGED <<deliveries, attempts, enabled, callback, redeliveries, deaths, edits>>

\* Faulty variant: whoever holds the lease by now.
HoldsNone(c) == deliveries[c.job].status = "delivering"

Holds(c) == deliveries[c.job].lease = c.number /\ deliveries[c.job].held

\* finalize: nothing if the lease is gone; later: the next attempt, after the
\* back-off or the receiver's Retry-After, would be within the 24 hours.
finalize(w) ==
  LET c == workers[w]
      again == c.outcome = "retry" /\ c.cycle < MaxAttempts
  IN  /\ c.pc = "finalizing"
      /\ workers' = [workers EXCEPT ![w] = Resting]
      /\ \/ ~Holds(c) /\ UNCHANGED <<deliveries, attempts>>
         \/ /\ Holds(c)
            /\ attempts' = [attempts EXCEPT ![c.job][c.number] =
                            IF c.outcome = "success" THEN "success" ELSE "failed"]
            /\ \E later \in BOOLEAN :
                 /\ later => ~deliveries[c.job].over
                 /\ deliveries' = [deliveries EXCEPT ![c.job] =
                      IF c.outcome = "success" THEN Ended(@, "delivered")
                      ELSE IF again /\ later
                      THEN [Ended(@, "retry_wait") EXCEPT !.due = FALSE]
                      ELSE Ended(@, "failed")]
      /\ UNCHANGED <<enabled, callback, redeliveries, deaths, edits>>

\* The worker stops: a shutdown, a crash, or an error of the database, at any
\* await.  It, or the one of a later process, goes on with another claim.
dies(w) ==
  /\ workers[w] # Resting /\ deaths < MaxDeaths
  /\ deaths' = deaths + 1
  /\ workers' = [workers EXCEPT ![w] = Resting]
  /\ UNCHANGED <<deliveries, attempts, enabled, callback, redeliveries, edits>>

\* Time.
comesDue(j) ==
  /\ deliveries[j].status = "retry_wait" /\ ~deliveries[j].due
  /\ deliveries' = [deliveries EXCEPT ![j].due = TRUE]
  /\ UNCHANGED <<attempts, workers, enabled, callback, redeliveries, deaths, edits>>

leaseExpires(j) ==
  /\ deliveries[j].status = "delivering" /\ deliveries[j].held
  /\ deliveries' = [deliveries EXCEPT ![j].held = FALSE]
  /\ UNCHANGED <<attempts, workers, enabled, callback, redeliveries, deaths, edits>>

cycleExpires(j) ==
  /\ deliveries[j].status \in Active /\ ~deliveries[j].over
  /\ deliveries' = [deliveries EXCEPT ![j].over = TRUE]
  /\ UNCHANGED <<attempts, workers, enabled, callback, redeliveries, deaths, edits>>

\* redeliver: another cycle, which starts behind the attempts there are.
redeliver(j) ==
  /\ deliveries[j].status \in Final /\ redeliveries < MaxRedeliveries
  /\ redeliveries' = redeliveries + 1
  /\ deliveries' = [deliveries EXCEPT ![j] =
       [NewDelivery EXCEPT !.from = Len(attempts[j]) + 1]]
  /\ UNCHANGED <<attempts, workers, enabled, callback, deaths, edits>>

\* patch_user: enabling, disabling, another callback.
patch_user(u) ==
  /\ edits < MaxEdits /\ edits' = edits + 1
  /\ \/ /\ enabled' = IF u \in enabled THEN enabled \ {u} ELSE enabled \cup {u}
        /\ UNCHANGED callback
     \/ /\ callback' = IF u \in callback THEN callback \ {u} ELSE callback \cup {u}
        /\ UNCHANGED enabled
  /\ UNCHANGED <<deliveries, attempts, workers, redeliveries, deaths>>

outboxStep ==
  \/ \E w \in Workers : (\E j \in Jobs : claim(w, j)) \/ deliver(w) \/ finalize(w) \/ dies(w)
  \/ \E j \in Jobs : comesDue(j) \/ leaseExpires(j) \/ cycleExpires(j) \/ redeliver(j)
  \/ \E u \in Users : patch_user(u)

\* run never stops claiming, sending and finalizing; time goes on.
OutboxFairness ==
  /\ \A w \in Workers :
       /\ WF_outboxVars(\E j \in Jobs : claim(w, j))
       /\ WF_outboxVars(deliver(w)) /\ WF_outboxVars(finalize(w))
  /\ \A j \in Jobs : WF_outboxVars(comesDue(j)) /\ WF_outboxVars(leaseExpires(j))

-----------------------------------------------------------------------------
\* The attempts say the same as the delivery, whichever worker wrote last and
\* whatever the receiver made of earlier ones: the lease is that of the one
\* open attempt, and a delivery that is delivered was accepted in its own
\* cycle (claim, finalize under the lease, redeliver).
AttemptsTellDelivery ==
  \A j \in Jobs : deliveries[j] # NoDelivery =>
    LET d == deliveries[j]
        last == Len(attempts[j])
    IN  /\ {n \in 1..last : attempts[j][n] = "open"}
             = IF d.status = "delivering" THEN {last} ELSE {}
        /\ d.status = "delivering" => d.lease = last
        /\ d.status = "delivered" =>
             last >= d.from /\ attempts[j][last] = "success"
        /\ d.status \in {"pending", "retry_wait"} /\ last >= d.from =>
             attempts[j][last] = "failed"

\* A cycle makes at most its number of attempts, though leases expire, workers
\* stop and the receiver answers late: later attempts need another cycle
\* (cycle_number in claim).
CycleBounded ==
  \A j \in Jobs : deliveries[j] # NoDelivery =>
    Len(attempts[j]) - deliveries[j].from + 1 <= MaxAttempts

\* Every event that is under way is delivered or given up, whatever stops in
\* between, unless its user is disabled (run, claim's expired leases).
DeliveryEnds ==
  \A j \in Jobs :
    deliveries[j].status \in Active ~>
      deliveries[j].status \in Final \/ Owner[j] \notin enabled
=============================================================================
