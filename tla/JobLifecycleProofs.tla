------------------------- MODULE JobLifecycleProofs -------------------------
(***************************************************************************)
(* The promises of JobLifecycle follow from its steps, for any set of jobs. *)
(***************************************************************************)
EXTENDS JobLifecycle, TLAPS

LifecycleInv == TypeOK /\ TicketsAreFresh /\ AtMostOnce /\ HonestOutcome

\* The promises hold before the first job is admitted.
LEMMA LifecycleInit == Init => LifecycleInv
  BY DEF Init, LifecycleInv, TypeOK, TicketsAreFresh, AtMostOnce, HonestOutcome, Statuses,
         Outcomes

\* Every step keeps them.
LEMMA LifecycleStep == LifecycleInv /\ [Next]_vars => LifecycleInv'
  <1> SUFFICES ASSUME LifecycleInv, [Next]_vars PROVE LifecycleInv'
    OBVIOUS
  <1> USE DEF LifecycleInv, TypeOK, TicketsAreFresh, AtMostOnce, HonestOutcome, Statuses,
              Outcomes
  <1>1. CASE UNCHANGED vars
    BY <1>1 DEF vars
  <1>2. CASE Withdraw
    BY <1>2 DEF Withdraw
  <1>3. ASSUME NEW j \in Jobs, Admit(j) PROVE LifecycleInv'
    BY <1>3 DEF Admit
  <1>4. ASSUME NEW j \in Jobs, Claim(j) PROVE LifecycleInv'
    BY <1>4 DEF Claim
  <1>5. ASSUME NEW j \in Jobs, Start(j) PROVE LifecycleInv'
    BY <1>5 DEF Start
  <1>6. ASSUME NEW j \in Jobs, Succeed(j) PROVE LifecycleInv'
    BY <1>6 DEF Succeed, Resolve
  <1>7. ASSUME NEW j \in Jobs, Fail(j) PROVE LifecycleInv'
    BY <1>7 DEF Fail, Resolve
  <1>8. ASSUME NEW j \in Jobs, Lose(j) PROVE LifecycleInv'
    BY <1>8 DEF Lose, Resolve
  <1>9. ASSUME NEW j \in Jobs, NEW r \in {"ok", "err"}, Return(j, r) PROVE LifecycleInv'
    BY <1>9 DEF Return
  <1> QED
    BY <1>1, <1>2, <1>3, <1>4, <1>5, <1>6, <1>7, <1>8, <1>9 DEF Next

\* Whatever implements JobLifecycle starts the work of a job at most once and ends
\* a job in a state that its work's history supports.
THEOREM LifecyclePromises == Spec => [](AtMostOnce /\ HonestOutcome)
  <1>1. LifecycleInv => AtMostOnce /\ HonestOutcome
    BY DEF LifecycleInv
  <1> QED BY <1>1, LifecycleInit, LifecycleStep, PTL DEF Spec
=============================================================================
