----------------------------- MODULE MCJobEvents -----------------------------
(* An instance of JobEvents: two users with a job each, of which the first   *)
(* job has two waits.                                                        *)
EXTENDS JobEvents, TLC

CONSTANTS u1, u2, j1, j2, wait1, wait2, wait3

MCOwner == (j1 :> u1) @@ (j2 :> u2)
MCJobOf == (wait1 :> j1) @@ (wait2 :> j1) @@ (wait3 :> j2)
\* Three scenarios, since the waits and the outbox hardly meet: every wait and
\* no event; workers that stop and redelivery; an edit of a user.
MCInit ==
  /\ Init
  /\ \/ /\ callback = {} /\ edits = MaxEdits /\ deaths = MaxDeaths
        /\ redeliveries = MaxRedeliveries /\ disconnects = 0
        /\ \A w \in Waits : waits[w] = "new"
     \/ /\ callback = {u1} /\ edits = MaxEdits /\ deaths = 0
        /\ redeliveries = 0 /\ disconnects = MaxDisconnects
        /\ \A w \in Waits : waits[w] = "over"
     \/ /\ callback = {u1} /\ edits = 0 /\ deaths = MaxDeaths
        /\ redeliveries = MaxRedeliveries /\ disconnects = MaxDisconnects
        /\ \A w \in Waits : waits[w] = "over"

MCSpec == MCInit /\ [][Next]_vars /\ OutboxFairness
=============================================================================
