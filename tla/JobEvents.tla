------------------------------ MODULE JobEvents ------------------------------
(***************************************************************************)
(* The end of a job and what follows from it: finish_tx (jobs.rs) changes  *)
(* the status, sends the wake-up and writes the event to the outbox in one *)
(* transaction.  The waits and the webhook workers go on from there.       *)
(***************************************************************************)
EXTENDS JobCompletion, WebhookOutbox

vars == <<ended, waitVars, listenerVars, outboxVars>>

\* finish_tx, the first time: nothing is due for a job that has ended, and no
\* event for a user without a callback.
finish_tx(j) ==
  /\ j \notin ended
  /\ ended' = ended \cup {j}
  /\ publish(j)
  /\ deliveries' = IF Owner[j] \in callback THEN [deliveries EXCEPT ![j] = NewDelivery]
                   ELSE deliveries
  /\ UNCHANGED <<waitVars, attempts, workers, enabled, callback,
                 redeliveries, deaths, edits>>

\* callback_url may be empty from the start.
Init ==
  /\ CompletionInit
  /\ deliveries = [j \in Jobs |-> NoDelivery] /\ attempts = [j \in Jobs |-> <<>>]
  /\ workers = [w \in Workers |-> Resting]
  /\ enabled = Users /\ callback \in SUBSET Users
  /\ redeliveries \in 0..MaxRedeliveries /\ deaths \in 0..MaxDeaths /\ edits \in 0..MaxEdits

Next ==
  \/ \E j \in Jobs : finish_tx(j)
  \/ \E w \in Waits : waitStep(w) /\ UNCHANGED <<ended, listenerVars, outboxVars>>
  \/ listenerStep /\ UNCHANGED <<ended, outboxVars>>
  \/ outboxStep /\ UNCHANGED <<ended, waitVars, listenerVars>>

Spec == Init /\ [][Next]_vars
FairSpec == Spec /\ OutboxFairness
=============================================================================
