------------------------- MODULE FileMutationsProofs -------------------------
(***************************************************************************)
(* For any disk, any requests and any number of faults: a mutation has one *)
(* answer, no update of another writer is lost, the receipt of a patch     *)
(* tells what happened to the disk, an applied patch leaves the files as   *)
(* its plan saw them, and in any text the seeker, the planner and the      *)
(* replacer give what their references say.                                *)
(*                                                                         *)
(* The first two rest on the lock: a task that is not the lock holder's is *)
(* one that its caller left, and a caller that leaves is counted.  The     *)
(* third relates what a task has done to the changes it has recorded; the  *)
(* fourth, the disk to the last of the steps that changes each path.  The  *)
(* last two are facts about texts, which what is on the disk and in the    *)
(* plans of the tasks is, whoever wrote it.                                *)
(***************************************************************************)
EXTENDS FileMutations, FiniteSetTheorems, SequenceTheorems, TLAPS

-----------------------------------------------------------------------------
(* The inductive invariant. *)

TaskParts ==
  {"request", "pc", "at", "target", "sections", "view", "aliases", "steps", "left", "status",
   "exact", "changes", "done", "raced", "orphan"}

\* The places that only a patch comes to.
PatchPlaces == {"plan", "verifyAll", "verify", "verifyTo", "verifySource"}

\* A blocking task under way or returned.
IsTask(w) ==
  /\ w = [part \in TaskParts |-> w[part]]
  /\ w.request \in Requests /\ w.pc # "idle"
  /\ w.pc \in PatchPlaces => IsPatch(w.request)

\* The same task, later.
Follows(w, v) == IsTask(v) /\ v.request = w.request /\ v.orphan = w.orphan

\* A task that must not overwrite what it has not seen, about to replace the
\* target and not overtaken, has seen what is there.
Exact(w) == w.request.kind # "write" \/ w.request.mode = "conditional"
Prepared(w) ==
  w.pc \in {"rename", "unlink"} /\ Exact(w) /\ ~w.raced => read_optional(w.target) = Expected(w)

\* The tasks whose callers are gone.
Left == {s \in Slots : s # lock /\ work[s] # Idle}

SlotsInv ==
  /\ work = [s \in Slots |-> work[s]] /\ lock \in Slots \cup {0}
  /\ \A s \in Slots : work[s] = Idle \/ IsTask(work[s])

\* The lock's holder waits for a task, for which there is no receipt yet.
HolderInv ==
  lock # 0 =>
    /\ work[lock] # Idle /\ ~work[lock].orphan
    /\ work[lock].request.id \notin DOMAIN registry

\* The others have been left, and each of them is counted.
LeftInv ==
  /\ \A s \in Left : work[s].orphan
  /\ faults = [f \in {"outside", "failures", "leaves", "restarts"} |-> faults[f]]
  /\ faults["leaves"] \in Nat /\ faults["leaves"] <= MaxLeaves
  /\ Cardinality(Left) <= faults["leaves"]

\* What was answered is what is recorded.
AnswersInv ==
  \A a \in answers : a.id \in DOMAIN registry /\ a.answer = registry[a.id].answer

PreparedInv == \A s \in Slots : Prepared(work[s])

MutationInv == SlotsInv /\ HolderInv /\ LeftInv /\ AnswersInv /\ PreparedInv

-----------------------------------------------------------------------------
(* What the operators make of a task. *)

\* The call under way and its step are told by three parts of the task.
LEMMA SameWrite ==
  ASSUME NEW w, NEW v, v.request = w.request, v.steps = w.steps, v.at = w.at
  PROVE  Write(v) = Write(w) /\ Step(v) = Step(w)
BY DEF Write, Step

\* A task that ends.
LEMMA EndedFollows ==
  ASSUME NEW w, IsTask(w), NEW status
  PROVE  Follows(w, Ended(w, status)) /\ Ended(w, status).pc = "returned"
BY DEF IsTask, TaskParts, PatchPlaces, Follows, Ended

\* A patch that ends with a failure.
LEMMA FailFollows ==
  ASSUME NEW w, IsTask(w), NEW uncertain, NEW changes
  PROVE  Follows(w, fail(w, uncertain, changes)) /\ fail(w, uncertain, changes).pc = "returned"
BY DEF IsTask, TaskParts, PatchPlaces, Follows, fail

\* A call that fails.
LEMMA FailingFollows ==
  ASSUME NEW w, IsTask(w), NEW code
  PROVE  Follows(w, Failing(w, code)) /\ Failing(w, code).pc = "returned"
BY EndedFollows, FailFollows DEF Failing

\* A call that has its effect does not leave the task before another call that
\* replaces something.
LEMMA CommittedFollows ==
  ASSUME NEW w, IsTask(w), NEW effect, NEW status
  PROVE  /\ Follows(w, Committed(w, effect, status))
         /\ Committed(w, effect, status).pc \in {"returned", "verifySource", "verify"}
<1>1. PICK v : v = [w EXCEPT !.done = Append(@, effect)]
  OBVIOUS
<1>2. Follows(w, v)
  BY <1>1 DEF IsTask, TaskParts, PatchPlaces, Follows
<1>3. IsTask(v)
  BY <1>2 DEF Follows
<1>4. CASE ~IsPatch(w.request)
  <2>1. Committed(w, effect, status) = Ended(v, status)
    BY <1>1, <1>4 DEF Committed
  <2>2. Follows(v, Ended(v, status)) /\ Ended(v, status).pc = "returned"
    BY <1>3, EndedFollows
  <2> QED
    BY <1>2, <2>1, <2>2 DEF Follows
<1>5. CASE IsPatch(w.request)
  <2>1. CASE w.pc # "unlink" /\ Step(w).kind = "move"
    <3>1. Committed(w, effect, status) = [v EXCEPT !.pc = "verifySource"]
      BY <1>1, <1>5, <2>1 DEF Committed
    <3> QED
      BY <1>2, <1>3, <1>5, <3>1 DEF IsTask, TaskParts, PatchPlaces, Follows
  <2>2. CASE ~(w.pc # "unlink" /\ Step(w).kind = "move")
    <3>1. Committed(w, effect, status) = Recorded(v)
      BY <1>1, <1>5, <2>2 DEF Committed
    <3>2. Follows(w, Recorded(v)) /\ Recorded(v).pc \in {"returned", "verify"}
      BY <1>2, <1>3, <1>5 DEF Recorded, IsTask, TaskParts, PatchPlaces, Follows
    <3> QED
      BY <3>1, <3>2
  <2> QED
    BY <2>1, <2>2
<1> QED
  BY <1>4, <1>5

\* A task that is about to replace its target.
LEMMA ReadyFollows ==
  ASSUME NEW w, IsTask(w), NEW pc \in {"rename", "unlink"}
  PROVE  /\ Follows(w, Ready(w, pc)) /\ Ready(w, pc).pc = pc
         /\ Ready(w, pc).target = w.target
         /\ Write(Ready(w, pc)) = Write(w) /\ Step(Ready(w, pc)) = Step(w)
<1>1. PICK v : v = Ready(w, pc)
  OBVIOUS
<1>2. /\ Follows(w, v) /\ v.pc = pc /\ v.target = w.target
      /\ v.request = w.request /\ v.steps = w.steps /\ v.at = w.at
  BY <1>1 DEF Ready, IsTask, TaskParts, PatchPlaces, Follows
<1> QED
  BY <1>1, <1>2, SameWrite
-----------------------------------------------------------------------------
(* What a step of a task does to the invariant. *)

\* The slots are few: finitely many tasks have been left.
LEMMA SlotsFinite == IsFiniteSet(Slots) /\ Cardinality(Slots) = MaxLeaves + 1
<1>1. MaxLeaves + 1 \in Nat
  BY RequestsHaveKinds
<1>2. IsFiniteSet(1..MaxLeaves + 1) /\ Cardinality(1..MaxLeaves + 1) = MaxLeaves + 1
  BY <1>1, RequestsHaveKinds, FS_Interval
<1> QED
  BY <1>2 DEF Slots

\* No slot holds what is and is not idle.
LEMMA TaskIsNotIdle == \A w : IsTask(w) => w # Idle
BY DEF IsTask, Idle

\* The tasks are where they were, with the same requests and callers: lock,
\* answers and counts agree as before.
LEMMA SameTasksKeep ==
  ASSUME SlotsInv, HolderInv, LeftInv, AnswersInv,
         UNCHANGED <<registry, lock, answers>>,
         faults' = [f \in {"outside", "failures", "leaves", "restarts"} |-> faults'[f]],
         faults'["leaves"] = faults["leaves"],
         work' = [s \in Slots |-> work'[s]],
         \A s \in Slots : work'[s] = work[s] \/ (IsTask(work[s]) /\ Follows(work[s], work'[s]))
  PROVE  SlotsInv' /\ HolderInv' /\ LeftInv' /\ AnswersInv'
<1>1. /\ registry' = registry /\ lock' = lock /\ answers' = answers
  OBVIOUS
<1>2. \A s \in Slots : (work'[s] = Idle) <=> (work[s] = Idle)
  BY TaskIsNotIdle DEF Follows
<1>3. SlotsInv'
  BY <1>1 DEF SlotsInv, Follows
<1>4. \A s \in Slots : work'[s].orphan = work[s].orphan \/ work[s] = work'[s]
  BY DEF Follows
<1>5. lock # 0 => lock \in Slots
  BY DEF SlotsInv
<1>6. HolderInv'
  <2>1. SUFFICES ASSUME lock # 0
                 PROVE  /\ work'[lock] # Idle /\ ~work'[lock].orphan
                        /\ work'[lock].request.id \notin DOMAIN registry
    BY <1>1 DEF HolderInv
  <2>2. work'[lock] = work[lock] \/ Follows(work[lock], work'[lock])
    BY <1>5, <2>1
  <2>3. work[lock] # Idle /\ ~work[lock].orphan /\ work[lock].request.id \notin DOMAIN registry
    BY <2>1 DEF HolderInv
  <2>4. work'[lock] # Idle
    BY <1>2, <1>5, <2>1, <2>3
  <2>5. CASE work'[lock] = work[lock]
    BY <2>3, <2>5
  <2>6. CASE Follows(work[lock], work'[lock])
    BY <2>3, <2>4, <2>6 DEF Follows
  <2> QED
    BY <2>2, <2>5, <2>6
<1>7. Left' = Left
  BY <1>1, <1>2 DEF Left
<1>8. \A s \in Left : work'[s].orphan
  <2>1. SUFFICES ASSUME NEW s \in Left PROVE work'[s].orphan
    OBVIOUS
  <2>2. s \in Slots /\ work[s].orphan
    BY DEF Left, LeftInv
  <2>3. work'[s] = work[s] \/ Follows(work[s], work'[s])
    BY <2>2
  <2>4. CASE work'[s] = work[s]
    BY <2>2, <2>4
  <2>5. CASE Follows(work[s], work'[s])
    BY <2>2, <2>5 DEF Follows
  <2> QED
    BY <2>3, <2>4, <2>5
<1>9. LeftInv'
  BY <1>7, <1>8 DEF LeftInv
<1>10. AnswersInv'
  BY <1>1 DEF AnswersInv
<1> QED
  BY <1>3, <1>6, <1>9, <1>10

\* One task goes on, and the disk stays.
LEMMA BecomesKeeps ==
  ASSUME MutationInv, NEW s \in Slots, NEW v, Becomes(s, v), work[s].pc # "idle",
         Follows(work[s], v), Prepared(v)
  PROVE  MutationInv'
<1>1. /\ work' = [work EXCEPT ![s] = v]
      /\ disk' = disk /\ registry' = registry /\ lock' = lock /\ answers' = answers
      /\ faults' = faults
  BY DEF Becomes
<1>2. work' = [t \in Slots |-> IF t = s THEN v ELSE work[t]]
  BY <1>1 DEF MutationInv, SlotsInv
<1>3. \A t \in Slots : work'[t] = IF t = s THEN v ELSE work[t]
  BY <1>2
<1>4. work' = [t \in Slots |-> work'[t]]
  BY <1>2
<1>5. IsTask(work[s])
  BY DEF MutationInv, SlotsInv, Idle
<1>6. \A t \in Slots : work'[t] = work[t] \/ (IsTask(work[t]) /\ Follows(work[t], work'[t]))
  BY <1>3, <1>5
<1>7. SlotsInv /\ HolderInv /\ LeftInv /\ AnswersInv
  BY DEF MutationInv
<1>8. /\ faults' = [f \in {"outside", "failures", "leaves", "restarts"} |-> faults'[f]]
      /\ faults'["leaves"] = faults["leaves"]
  BY <1>1 DEF MutationInv, LeftInv
<1>9. SlotsInv' /\ HolderInv' /\ LeftInv' /\ AnswersInv'
  BY <1>1, <1>4, <1>6, <1>7, <1>8, SameTasksKeep
<1>10. ASSUME NEW t \in Slots PROVE Prepared(work'[t])
  BY <1>3 DEF MutationInv, PreparedInv
<1>11. PreparedInv'
  BY <1>1, <1>10 DEF PreparedInv, Prepared, read_optional, follow_final_symlinks
<1> QED
  BY <1>9, <1>11 DEF MutationInv

\* One task goes on and the disk changes.  A task that stands before its call
\* is overtaken, or it would hold the lock with the one that goes on.
LEMMA EffectsKeep ==
  ASSUME MutationInv, NEW s \in Slots, NEW new, NEW v, Effects(s, new, v),
         work[s].pc # "idle", Follows(work[s], v), v.pc \notin {"rename", "unlink"},
         faults' = [f \in {"outside", "failures", "leaves", "restarts"} |-> faults'[f]],
         faults'["leaves"] = faults["leaves"]
  PROVE  MutationInv'
<1>1. /\ work' = [t \in Slots |->
                    IF t = s THEN v
                    ELSE IF work[t].pc \in {"rename", "unlink"}
                            /\ (work[s].orphan \/ work[t].orphan)
                         THEN [work[t] EXCEPT !.raced = TRUE] ELSE work[t]]
      /\ registry' = registry /\ lock' = lock /\ answers' = answers
  BY DEF Effects
<1>2. work' = [t \in Slots |-> work'[t]] /\ work'[s] = v
  BY <1>1
<1>3. IsTask(work[s]) /\ work[s] # Idle
  BY DEF MutationInv, SlotsInv, Idle
<1>4. ASSUME NEW t \in Slots, t # s, work[t].pc \in {"rename", "unlink"}
      PROVE  /\ work'[t] = [work[t] EXCEPT !.raced = TRUE]
             /\ IsTask(work[t]) /\ Follows(work[t], work'[t]) /\ work'[t].raced
  <2>1. IsTask(work[t]) /\ work[t] # Idle
    BY <1>4 DEF MutationInv, SlotsInv, Idle
  <2>2. work[s].orphan \/ work[t].orphan
    <3>1. s # lock \/ t # lock
      BY <1>4
    <3>2. s \in Left \/ t \in Left
      BY <1>3, <2>1, <3>1 DEF Left
    <3> QED
      BY <3>2 DEF MutationInv, LeftInv
  <2>3. work'[t] = [work[t] EXCEPT !.raced = TRUE]
    BY <1>1, <1>4, <2>2
  <2> QED
    BY <2>1, <2>3 DEF IsTask, TaskParts, PatchPlaces, Follows
<1>5. ASSUME NEW t \in Slots, t # s, work[t].pc \notin {"rename", "unlink"}
      PROVE  work'[t] = work[t]
  BY <1>1, <1>5
<1>6. \A t \in Slots : work'[t] = work[t] \/ (IsTask(work[t]) /\ Follows(work[t], work'[t]))
  BY <1>2, <1>3, <1>4, <1>5
<1>7. SlotsInv /\ HolderInv /\ LeftInv /\ AnswersInv
  BY DEF MutationInv
<1>8. SlotsInv' /\ HolderInv' /\ LeftInv' /\ AnswersInv'
  BY <1>1, <1>2, <1>6, <1>7, SameTasksKeep
<1>9. ASSUME NEW t \in Slots
      PROVE  work'[t].pc \in {"rename", "unlink"} => work'[t].raced
  BY <1>2, <1>4, <1>5
<1>10. PreparedInv'
  BY <1>9 DEF PreparedInv, Prepared
<1> QED
  BY <1>8, <1>10 DEF MutationInv
-----------------------------------------------------------------------------
(* The steps of a task. *)

\* A task that is not before its call is prepared.
LEMMA OtherwisePrepared ==
  ASSUME NEW w, w.pc \notin {"rename", "unlink"}
  PROVE  Prepared(w)
BY DEF Prepared

\* A slot that is not idle has a task.
LEMMA SlotHasTask ==
  ASSUME MutationInv, NEW s \in Slots, work[s].pc # "idle"
  PROVE  IsTask(work[s])
BY DEF MutationInv, SlotsInv, Idle

\* A task that goes on, not yet before its call.
LEMMA GoesOn ==
  ASSUME MutationInv, NEW s \in Slots, NEW v, Becomes(s, v), work[s].pc # "idle",
         Follows(work[s], v), v.pc \notin {"rename", "unlink"}
  PROVE  MutationInv'
BY BecomesKeeps, OtherwisePrepared

\* A task whose call fails ends.
LEMMA Fails ==
  ASSUME MutationInv, NEW s \in Slots, NEW code, Becomes(s, Failing(work[s], code)),
         work[s].pc # "idle"
  PROVE  MutationInv'
<1>1. PICK w : w = work[s]
  OBVIOUS
<1>2. IsTask(w)
  BY <1>1, SlotHasTask
<1>3. Follows(w, Failing(w, code)) /\ Failing(w, code).pc = "returned"
  BY <1>2, FailingFollows
<1>4. PICK v : v = Failing(w, code)
  OBVIOUS
<1> QED
  BY <1>1, <1>3, <1>4, GoesOn

\* plan_section, and a patch that cannot be read.
LEMMA PlanningKeeps ==
  ASSUME MutationInv, NEW s \in Slots, plans(s) \/ refuses(s)
  PROVE  MutationInv'
<1>1. PICK w : w = work[s]
  OBVIOUS
<1>2. w.pc = "plan"
  BY <1>1 DEF plans, refuses
<1>3. IsTask(w)
  BY <1>1, <1>2, SlotHasTask
<1>4. ASSUME NEW changes, Becomes(s, fail(w, FALSE, changes))
      PROVE  MutationInv'
  <2>1. PICK v : v = fail(w, FALSE, changes)
    OBVIOUS
  <2>2. Follows(w, v) /\ v.pc = "returned"
    BY <1>3, <2>1, FailFollows
  <2> QED
    BY <1>1, <1>2, <1>4, <2>1, <2>2, GoesOn
<1>5. ASSUME NEW step, NEW view, Becomes(s, Planning(w, step, view))
      PROVE  MutationInv'
  <2>1. PICK v : v = Planning(w, step, view)
    OBVIOUS
  <2>2. Follows(w, v) /\ v.pc \in {"verifyAll", "plan"}
    BY <1>2, <1>3, <2>1 DEF Planning, IsTask, TaskParts, PatchPlaces, Follows
  <2> QED
    BY <1>1, <1>2, <1>5, <2>1, <2>2, GoesOn
<1>6. CASE refuses(s)
  BY <1>1, <1>4, <1>6 DEF refuses
<1>7. CASE plans(s)
  <2>1. \/ Becomes(s, fail(w, FALSE, <<>>))
        \/ \E step : Becomes(s, Planning(w, step, Viewed(w, step)))
    BY <1>1, <1>7, Zenon DEF plans
  <2> QED
    BY <1>4, <1>5, <2>1
<1> QED
  BY <1>6, <1>7

\* The rereading of everything the plan saw, of a destination, of a source, and
\* the links an overwrite goes through.
LEMMA VerifyingKeeps ==
  ASSUME MutationInv, NEW s \in Slots, verifiesAll(s) \/ verifiesTo(s) \/ follows(s)
  PROVE  MutationInv'
<1>1. PICK w : w = work[s]
  OBVIOUS
<1>2. w.pc \in {"verifyAll", "verifyTo", "follow"}
  BY <1>1 DEF verifiesAll, verifiesTo, follows
<1>3. IsTask(w)
  BY <1>1, <1>2, SlotHasTask
<1>4. CASE verifiesAll(s)
  <2>1. PICK p \in w.left :
          Becomes(s, IF read_optional(p) # w.view[p].original
                     THEN fail(w, FALSE, w.changes)
                     ELSE [w EXCEPT !.left = w.left \ {p},
                                    !.pc = IF w.left \ {p} = {} THEN "verify" ELSE @])
    BY <1>1, <1>4 DEF verifiesAll
  <2>2. w.pc = "verifyAll"
    BY <1>1, <1>4 DEF verifiesAll
  <2>3. PICK v : v = [w EXCEPT !.left = w.left \ {p},
                               !.pc = IF w.left \ {p} = {} THEN "verify" ELSE @]
    OBVIOUS
  <2>4. Follows(w, v) /\ v.pc \in {"verifyAll", "verify"}
    BY <1>3, <2>2, <2>3 DEF IsTask, TaskParts, PatchPlaces, Follows
  <2>5. PICK e : e = fail(w, FALSE, w.changes)
    OBVIOUS
  <2>6. Follows(w, e) /\ e.pc = "returned"
    BY <1>3, <2>5, FailFollows
  <2>7. Becomes(s, v) \/ Becomes(s, e)
    BY <2>1, <2>3, <2>5
  <2> QED
    BY <1>1, <1>2, <2>4, <2>6, <2>7, GoesOn
<1>5. CASE verifiesTo(s)
  <2>1. PICK path : path = Write(w).path
    OBVIOUS
  <2>2. \/ Becomes(s, Failing(w, "precondition_failed"))
        \/ Becomes(s, [w EXCEPT !.pc = "look", !.target = path])
    BY <1>1, <1>5, <2>1 DEF verifiesTo
  <2>3. PICK v : v = [w EXCEPT !.pc = "look", !.target = path]
    OBVIOUS
  <2>4. Follows(w, v) /\ v.pc = "look"
    BY <1>3, <2>3 DEF IsTask, TaskParts, PatchPlaces, Follows
  <2> QED
    BY <1>1, <1>2, <2>2, <2>3, <2>4, GoesOn, Fails
<1>6. CASE follows(s)
  <2>1. PICK path : path = follow_final_symlinks(w.target)
    OBVIOUS
  <2>2. Becomes(s, [w EXCEPT !.pc = "look", !.target = path])
    BY <1>1, <1>6, <2>1 DEF follows
  <2>3. PICK v : v = [w EXCEPT !.pc = "look", !.target = path]
    OBVIOUS
  <2>4. Follows(w, v) /\ v.pc = "look"
    BY <1>3, <2>3 DEF IsTask, TaskParts, PatchPlaces, Follows
  <2> QED
    BY <1>1, <1>2, <2>2, <2>3, <2>4, GoesOn
<1> QED
  BY <1>4, <1>5, <1>6

-----------------------------------------------------------------------------
(* The steps that bring a task before its call. *)

\* What is there is what the call expects.
LEMMA BeforeItsCall ==
  ASSUME MutationInv, NEW s \in Slots, NEW w, IsTask(w), NEW pc \in {"rename", "unlink"},
         work[s].pc # "idle", Follows(work[s], w), Becomes(s, Ready(w, pc)),
         Exact(w) => read_optional(w.target)
                       = IF pc = "unlink" /\ IsPatch(w.request) THEN Step(w).before
                         ELSE Write(w).before
  PROVE  MutationInv'
<1>1. PICK v : v = Ready(w, pc)
  OBVIOUS
<1>2. /\ Follows(w, v) /\ v.pc = pc /\ v.target = w.target
      /\ Write(v) = Write(w) /\ Step(v) = Step(w)
  BY <1>1, ReadyFollows
<1>3. v.request = w.request /\ Follows(work[s], v)
  BY <1>2 DEF Follows
<1>4. Exact(v) <=> Exact(w)
  BY <1>3 DEF Exact
<1>5. Expected(v) = IF pc = "unlink" /\ IsPatch(w.request) THEN Step(w).before
                    ELSE Write(w).before
  BY <1>2, <1>3 DEF Expected
<1>6. Prepared(v)
  BY <1>2, <1>4, <1>5 DEF Prepared
<1> QED
  BY <1>1, <1>3, <1>6, BecomesKeeps

\* A step of a patch that verified its source: a move, a deletion or a write.
LEMMA VerifiesKeeps ==
  ASSUME MutationInv, NEW s \in Slots, verifies(s)
  PROVE  MutationInv'
<1>1. PICK w : w = work[s]
  OBVIOUS
<1>2. w.pc = "verify"
  BY <1>1 DEF verifies
<1>3. IsTask(w) /\ IsPatch(w.request)
  BY <1>1, <1>2, SlotHasTask DEF IsTask, PatchPlaces
<1>4. PICK step, path : step = Step(w) /\ path = Write(w).path
  OBVIOUS
<1>5. Becomes(s, CASE read_optional(step.path) # step.before ->
                        Failing(w, "precondition_failed")
                   [] read_optional(step.path) = step.before /\ step.kind = "move" ->
                        [w EXCEPT !.pc = "verifyTo"]
                   [] read_optional(step.path) = step.before /\ step.kind = "delete" ->
                        Ready([w EXCEPT !.target = step.path], "unlink")
                   [] OTHER -> [w EXCEPT !.pc = "look", !.target = path])
  BY <1>1, <1>4 DEF verifies
<1>6. CASE read_optional(step.path) # step.before
  <2>1. Becomes(s, Failing(w, "precondition_failed"))
    BY <1>5, <1>6
  <2> QED
    BY <1>1, <1>2, <2>1, Fails
<1>7. CASE read_optional(step.path) = step.before /\ step.kind = "move"
  <2>1. PICK v : v = [w EXCEPT !.pc = "verifyTo"]
    OBVIOUS
  <2>2. Becomes(s, v)
    BY <1>5, <1>7, <2>1
  <2>3. Follows(w, v) /\ v.pc = "verifyTo"
    BY <1>3, <2>1 DEF IsTask, TaskParts, PatchPlaces, Follows
  <2> QED
    BY <1>1, <1>2, <2>2, <2>3, GoesOn
<1>8. CASE read_optional(step.path) = step.before /\ step.kind = "delete"
  <2>1. PICK v : v = [w EXCEPT !.target = step.path]
    OBVIOUS
  <2>2. Becomes(s, Ready(v, "unlink"))
    BY <1>5, <1>8, <2>1
  <2>3. /\ Follows(w, v) /\ IsTask(v) /\ v.target = step.path
        /\ v.request = w.request /\ v.steps = w.steps /\ v.at = w.at
    BY <1>3, <2>1 DEF IsTask, TaskParts, PatchPlaces, Follows
  <2>4. Step(v) = step
    BY <1>4, <2>3, SameWrite
  <2>5. read_optional(v.target) = Step(v).before /\ IsPatch(v.request)
    BY <1>3, <1>8, <2>3, <2>4
  <2> QED
    BY <1>1, <1>2, <2>2, <2>3, <2>5, BeforeItsCall
<1>9. CASE read_optional(step.path) = step.before /\ step.kind \notin {"move", "delete"}
  <2>1. PICK v : v = [w EXCEPT !.pc = "look", !.target = path]
    OBVIOUS
  <2>2. Becomes(s, v)
    BY <1>5, <1>9, <2>1
  <2>3. Follows(w, v) /\ v.pc = "look"
    BY <1>3, <2>1 DEF IsTask, TaskParts, PatchPlaces, Follows
  <2> QED
    BY <1>1, <1>2, <2>2, <2>3, GoesOn
<1> QED
  BY <1>6, <1>7, <1>8, <1>9

\* A move whose destination is written deletes the source it has read again.
LEMMA VerifiesSourceKeeps ==
  ASSUME MutationInv, NEW s \in Slots, verifiesSource(s)
  PROVE  MutationInv'
<1>1. PICK w : w = work[s]
  OBVIOUS
<1>2. w.pc = "verifySource"
  BY <1>1 DEF verifiesSource
<1>3. IsTask(w) /\ IsPatch(w.request)
  BY <1>1, <1>2, SlotHasTask DEF IsTask, PatchPlaces
<1>4. PICK step : step = Step(w)
  OBVIOUS
<1>5. CASE read_optional(step.path) # step.before
  <2>1. Becomes(s, Failing(w, "precondition_failed"))
    BY <1>1, <1>4, <1>5 DEF verifiesSource
  <2> QED
    BY <1>1, <1>2, <2>1, Fails
<1>6. CASE read_optional(step.path) = step.before
  <2>1. PICK v : v = [w EXCEPT !.target = step.path]
    OBVIOUS
  <2>2. Becomes(s, Ready(v, "unlink"))
    BY <1>1, <1>4, <1>6, <2>1 DEF verifiesSource
  <2>3. /\ Follows(w, v) /\ IsTask(v) /\ v.target = step.path
        /\ v.request = w.request /\ v.steps = w.steps /\ v.at = w.at
    BY <1>3, <2>1 DEF IsTask, TaskParts, PatchPlaces, Follows
  <2>4. Step(v) = step
    BY <1>4, <2>3, SameWrite
  <2>5. read_optional(v.target) = Step(v).before /\ IsPatch(v.request)
    BY <1>3, <1>6, <2>3, <2>4
  <2> QED
    BY <1>1, <1>2, <2>2, <2>3, <2>5, BeforeItsCall
<1> QED
  BY <1>5, <1>6

\* write_file_at: only a plain overwrite replaces what it has not compared.
LEMMA LooksKeep ==
  ASSUME MutationInv, NEW s \in Slots, looks(s)
  PROVE  MutationInv'
<1>1. PICK w : w = work[s]
  OBVIOUS
<1>2. w.pc = "look" /\ w.request.kind # "remove"
  BY <1>1 DEF looks
<1>3. IsTask(w) /\ Follows(w, w)
  BY <1>1, <1>2, SlotHasTask DEF Follows
<1>4. PICK text, before : text = Write(w).text /\ before = Write(w).before
  OBVIOUS
<1>5. CASE Becomes(s, Committed(w, Put(w.target, text), "already_applied"))
  <2>1. PICK effect : effect = Put(w.target, text)
    OBVIOUS
  <2>2. PICK v : v = Committed(w, effect, "already_applied")
    OBVIOUS
  <2>3. Follows(w, v) /\ v.pc \in {"returned", "verifySource", "verify"}
    BY <1>3, <2>2, CommittedFollows
  <2>4. Becomes(s, v)
    BY <1>5, <2>1, <2>2
  <2> QED
    BY <1>1, <1>2, <2>3, <2>4, GoesOn
<1>6. CASE Becomes(s, [w EXCEPT !.pc = "recheck"])
  <2>1. PICK v : v = [w EXCEPT !.pc = "recheck"]
    OBVIOUS
  <2>2. Follows(w, v) /\ v.pc = "recheck"
    BY <1>3, <2>1 DEF IsTask, TaskParts, PatchPlaces, Follows
  <2> QED
    BY <1>1, <1>2, <1>6, <2>1, <2>2, GoesOn
<1>7. CASE Becomes(s, Failing(w, "precondition_failed"))
  BY <1>1, <1>2, <1>7, Fails
<1>8. CASE ~IsConditional(w) /\ Becomes(s, Ready(w, "rename"))
  <2>1. ~IsPatch(w.request)
    BY <1>8 DEF IsConditional, Write
  <2>2. w.request.kind = "write"
    BY <1>2, <1>3, <2>1, RequestsHaveKinds DEF IsTask, IsPatch
  <2>3. ~Exact(w)
    BY <1>8, <2>1, <2>2 DEF Exact, IsConditional, Write
  <2> QED
    BY <1>1, <1>2, <1>3, <1>8, <2>3, BeforeItsCall
<1>9. \/ Becomes(s, Committed(w, Put(w.target, text), "already_applied"))
      \/ Becomes(s, [w EXCEPT !.pc = "recheck"])
      \/ Becomes(s, Failing(w, "precondition_failed"))
      \/ ~IsConditional(w) /\ Becomes(s, Ready(w, "rename"))
  BY <1>1, <1>4 DEF looks
<1> QED
  BY <1>5, <1>6, <1>7, <1>8, <1>9

\* remove_file_at
LEMMA LooksToRemoveKeeps ==
  ASSUME MutationInv, NEW s \in Slots, looksToRemove(s)
  PROVE  MutationInv'
<1>1. PICK w : w = work[s]
  OBVIOUS
<1>2. w.pc = "look" /\ w.request.kind = "remove"
  BY <1>1 DEF looksToRemove
<1>3. IsTask(w) /\ Follows(w, w)
  BY <1>1, <1>2, SlotHasTask DEF Follows
<1>4. ~IsPatch(w.request) /\ Write(w) = w.request
  BY <1>2 DEF IsPatch, Write
<1>5. PICK effect : effect = Unlinked(w.target)
  OBVIOUS
<1>6. Becomes(s, CASE read_optional(w.target) = <<>> -> Committed(w, effect, "already_applied")
                   [] read_optional(w.target) # <<>>
                        /\ ~check_precondition(w.target, w.request.before) ->
                          Failing(w, "precondition_failed")
                   [] OTHER -> Ready(w, "unlink"))
  BY <1>1, <1>5 DEF looksToRemove
<1>7. CASE read_optional(w.target) = <<>>
  <2>1. PICK v : v = Committed(w, effect, "already_applied")
    OBVIOUS
  <2>2. Follows(w, v) /\ v.pc \in {"returned", "verifySource", "verify"}
    BY <1>3, <2>1, CommittedFollows
  <2>3. Becomes(s, v)
    BY <1>6, <1>7, <2>1
  <2> QED
    BY <1>1, <1>2, <2>2, <2>3, GoesOn
<1>8. CASE read_optional(w.target) # <<>> /\ ~check_precondition(w.target, w.request.before)
  <2>1. Becomes(s, Failing(w, "precondition_failed"))
    BY <1>6, <1>8
  <2> QED
    BY <1>1, <1>2, <2>1, Fails
<1>9. CASE read_optional(w.target) # <<>> /\ check_precondition(w.target, w.request.before)
  <2>1. Becomes(s, Ready(w, "unlink"))
    BY <1>6, <1>9
  <2>2. read_optional(w.target) = Write(w).before
    BY <1>4, <1>9 DEF check_precondition
  <2> QED
    BY <1>1, <1>2, <1>3, <1>4, <2>1, <2>2, BeforeItsCall
<1> QED
  BY <1>7, <1>8, <1>9

\* The second look of a conditional write.
LEMMA RechecksKeep ==
  ASSUME MutationInv, NEW s \in Slots, rechecks(s)
  PROVE  MutationInv'
<1>1. PICK w : w = work[s]
  OBVIOUS
<1>2. w.pc = "recheck"
  BY <1>1 DEF rechecks
<1>3. IsTask(w) /\ Follows(w, w)
  BY <1>1, <1>2, SlotHasTask DEF Follows
<1>4. CASE Becomes(s, Failing(w, "precondition_failed"))
  BY <1>1, <1>2, <1>4, Fails
<1>5. CASE check_precondition(w.target, Write(w).before) /\ Becomes(s, Ready(w, "rename"))
  <2>1. read_optional(w.target) = Write(w).before
    BY <1>5 DEF check_precondition
  <2> QED
    BY <1>1, <1>2, <1>3, <1>5, <2>1, BeforeItsCall
<1>6. \/ Becomes(s, Failing(w, "precondition_failed"))
      \/ check_precondition(w.target, Write(w).before) /\ Becomes(s, Ready(w, "rename"))
  BY <1>1 DEF rechecks
<1> QED
  BY <1>4, <1>5, <1>6
-----------------------------------------------------------------------------
(* The calls that change the disk, and the faults. *)

\* A call that takes effect or fails, with or without effect.
LEMMA CallsKeep ==
  ASSUME MutationInv, NEW s \in Slots, renames(s) \/ unlinks(s)
  PROVE  MutationInv'
<1>1. PICK w : w = work[s]
  OBVIOUS
<1>2. w.pc \in {"rename", "unlink"}
  BY <1>1 DEF renames, unlinks
<1>3. IsTask(w)
  BY <1>1, <1>2, SlotHasTask
<1>4. ASSUME NEW new, NEW effect, Effects(s, new, Committed(w, effect, "applied")),
             UNCHANGED faults
      PROVE  MutationInv'
  <2>1. PICK v : v = Committed(w, effect, "applied")
    OBVIOUS
  <2>2. Follows(w, v) /\ v.pc \notin {"rename", "unlink"}
    BY <1>3, <2>1, CommittedFollows
  <2>3. /\ faults' = [f \in {"outside", "failures", "leaves", "restarts"} |-> faults'[f]]
        /\ faults'["leaves"] = faults["leaves"]
    BY <1>4 DEF MutationInv, LeftInv
  <2> QED
    BY <1>1, <1>2, <1>4, <2>1, <2>2, <2>3, EffectsKeep
<1>5. CASE renames(s)
  <2>1. PICK text : text = Write(w).text
    OBVIOUS
  <2>2. /\ Effects(s, atomic_replace(w.target, text),
                   Committed(w, Put(w.target, text), "applied"))
        /\ UNCHANGED faults
    BY <1>1, <1>5, <2>1 DEF renames
  <2> QED
    BY <1>4, <2>2
<1>6. CASE unlinks(s)
  <2>1. \/ Becomes(s, Failing(w, "not_found"))
        \/ /\ Effects(s, [disk EXCEPT ![w.target] = None],
                      Committed(w, Unlinked(w.target), "applied"))
           /\ UNCHANGED faults
    BY <1>1, <1>6 DEF unlinks
  <2> QED
    BY <1>1, <1>2, <1>4, <2>1, Fails
<1> QED
  BY <1>5, <1>6

\* One more fault of a kind leaves the other counts.
LEMMA AnotherFault ==
  ASSUME LeftInv, NEW fault \in {"outside", "failures", "leaves", "restarts"}, NEW max,
         Another(fault, max)
  PROVE  /\ faults' = [f \in {"outside", "failures", "leaves", "restarts"} |-> faults'[f]]
         /\ faults[fault] < max /\ faults'[fault] = faults[fault] + 1
         /\ fault # "leaves" => faults'["leaves"] = faults["leaves"]
<1>1. faults' = [faults EXCEPT ![fault] = @ + 1] /\ faults[fault] < max
  BY DEF Another
<1> QED
  BY <1>1 DEF LeftInv

\* A step that fails leaves its mutation an answer and the disk as it is.
LEMMA FailureKeeps ==
  ASSUME MutationInv, NEW s \in Slots, fails(s)
  PROVE  MutationInv'
<1>1. PICK w : w = work[s]
  OBVIOUS
<1>2. w.pc # "idle" /\ Another("failures", MaxFailures)
  BY <1>1 DEF fails
<1>3. IsTask(w)
  BY <1>1, <1>2, SlotHasTask
<1>4. /\ faults' = [f \in {"outside", "failures", "leaves", "restarts"} |-> faults'[f]]
      /\ faults'["leaves"] = faults["leaves"]
  BY <1>2, AnotherFault DEF MutationInv
<1>5. ASSUME NEW new, NEW v, Effects(s, new, v), Follows(w, v), v.pc = "returned"
      PROVE  MutationInv'
  BY <1>1, <1>2, <1>4, <1>5, EffectsKeep
<1>6. PICK failed : failed = Failing(w, "io")
  OBVIOUS
<1>7. Follows(w, failed) /\ failed.pc = "returned"
  BY <1>3, <1>6, FailingFollows
<1>8. PICK effect : effect = IF w.pc = "unlink" THEN Unlinked(w.target)
                             ELSE Put(w.target, Write(w).text)
  OBVIOUS
<1>9. PICK v : v = [failed EXCEPT !.done = Append(@, effect)]
  OBVIOUS
<1>10. Follows(w, v) /\ v.pc = "returned"
  BY <1>7, <1>9 DEF IsTask, TaskParts, PatchPlaces, Follows
<1>11. PICK new : new = IF w.pc = "unlink" THEN [disk EXCEPT ![w.target] = None]
                        ELSE atomic_replace(w.target, Write(w).text)
  OBVIOUS
<1>12. Effects(s, disk, failed) \/ Effects(s, new, v)
  BY <1>1, <1>6, <1>8, <1>9, <1>11 DEF fails
<1> QED
  BY <1>5, <1>7, <1>10, <1>12

\* Another program: every task before its call is overtaken.
LEMMA OutsideKeeps == ASSUME MutationInv, outside PROVE MutationInv'
<1>1. /\ work' = [t \in Slots |-> IF work[t].pc \in {"rename", "unlink"}
                                  THEN [work[t] EXCEPT !.raced = TRUE] ELSE work[t]]
      /\ registry' = registry /\ lock' = lock /\ answers' = answers
      /\ Another("outside", MaxOutside)
  BY DEF outside
<1>2. work' = [t \in Slots |-> work'[t]]
  BY <1>1
<1>3. ASSUME NEW t \in Slots, work[t].pc \in {"rename", "unlink"}
      PROVE  IsTask(work[t]) /\ Follows(work[t], work'[t]) /\ work'[t].raced
  <2>1. IsTask(work[t])
    BY <1>3 DEF MutationInv, SlotsInv, Idle
  <2>2. work'[t] = [work[t] EXCEPT !.raced = TRUE]
    BY <1>1, <1>3
  <2> QED
    BY <2>1, <2>2 DEF IsTask, TaskParts, PatchPlaces, Follows
<1>4. ASSUME NEW t \in Slots, work[t].pc \notin {"rename", "unlink"}
      PROVE  work'[t] = work[t]
  BY <1>1, <1>4
<1>5. \A t \in Slots : work'[t] = work[t] \/ (IsTask(work[t]) /\ Follows(work[t], work'[t]))
  BY <1>3, <1>4
<1>6. /\ faults' = [f \in {"outside", "failures", "leaves", "restarts"} |-> faults'[f]]
      /\ faults'["leaves"] = faults["leaves"]
  BY <1>1, AnotherFault DEF MutationInv
<1>7. SlotsInv /\ HolderInv /\ LeftInv /\ AnswersInv
  BY DEF MutationInv
<1>8. SlotsInv' /\ HolderInv' /\ LeftInv' /\ AnswersInv'
  BY <1>1, <1>2, <1>5, <1>6, <1>7, SameTasksKeep
<1>9. ASSUME NEW t \in Slots
      PROVE  work'[t].pc \in {"rename", "unlink"} => work'[t].raced
  BY <1>3, <1>4
<1>10. PreparedInv'
  BY <1>9 DEF PreparedInv, Prepared
<1> QED
  BY <1>8, <1>10 DEF MutationInv

-----------------------------------------------------------------------------
(* The callers. *)

\* Not every slot has been left: the next mutation finds one.
LEMMA ASlotIsFree ==
  ASSUME MutationInv, lock = 0
  PROVE  \E s \in Slots : work[s] = Idle
<1>1. SUFFICES ASSUME \A s \in Slots : work[s] # Idle PROVE FALSE
  OBVIOUS
<1>2. 0 \notin Slots
  BY RequestsHaveKinds DEF Slots
<1>3. Left = Slots
  BY <1>1, <1>2 DEF Left
<1> QED
  BY <1>3, SlotsFinite, RequestsHaveKinds DEF MutationInv, LeftInv

\* The task of a request is a task.
LEMMA NewTask ==
  ASSUME NEW r \in Requests
  PROVE  /\ IsTask(Task(r)) /\ Task(r).request = r /\ ~Task(r).orphan
         /\ Task(r).pc \notin {"rename", "unlink"}
<1>1. PICK start, target, all :
        /\ start = Start(r) /\ target = (IF IsPatch(r) THEN "" ELSE r.path)
        /\ all = sections(r)
  OBVIOUS
<1>2. Task(r) =
        [request |-> r, pc |-> start, at |-> 1, target |-> target,
         sections |-> all, view |-> <<>>, aliases |-> <<>>, steps |-> <<>>, left |-> {},
         status |-> "applied", exact |-> TRUE, changes |-> <<>>,
         done |-> <<>>, raced |-> FALSE, orphan |-> FALSE]
  BY <1>1 DEF Task
<1>3. start \in {"plan", "follow", "look"} /\ (start = "plan" => IsPatch(r))
  BY <1>1 DEF Start
<1>4. PICK w : w = Task(r)
  OBVIOUS
<1>5. w = [part \in TaskParts |-> w[part]]
  BY <1>2, <1>4 DEF TaskParts
<1>6. w.request = r /\ w.pc = start /\ ~w.orphan
  BY <1>2, <1>4
<1> QED
  BY <1>3, <1>4, <1>5, <1>6 DEF IsTask, TaskParts, PatchPlaces

\* A new mutation takes the lock, and has no receipt.
LEMMA BeginsKeeps ==
  ASSUME MutationInv, NEW r \in Requests, begins(r)
  PROVE  MutationInv'
<1>1. /\ lock = 0 /\ r.id \notin DOMAIN registry
      /\ disk' = disk /\ registry' = registry /\ answers' = answers /\ faults' = faults
  BY DEF begins, MayStart
<1>2. PICK s : s = CHOOSE t \in Slots : work[t] = Idle
  OBVIOUS
<1>3. s \in Slots /\ work[s] = Idle
  BY <1>1, <1>2, ASlotIsFree
<1>4. lock' = s /\ work' = [work EXCEPT ![s] = Task(r)]
  BY <1>2 DEF begins
<1>5. work' = [t \in Slots |-> IF t = s THEN Task(r) ELSE work[t]]
  BY <1>4 DEF MutationInv, SlotsInv
<1>6. \A t \in Slots : work'[t] = IF t = s THEN Task(r) ELSE work[t]
  BY <1>5
<1>7. s # 0
  BY <1>3, RequestsHaveKinds DEF Slots
<1>8. 0 \notin Slots
  BY RequestsHaveKinds DEF Slots
<1>9. SlotsInv'
  BY <1>3, <1>4, <1>5, <1>6, NewTask DEF MutationInv, SlotsInv
<1>10. HolderInv'
  BY <1>1, <1>3, <1>4, <1>6, NewTask, TaskIsNotIdle DEF HolderInv
<1>11. Left' = Left
  <2>1. \A t \in Slots : (t # lock' /\ work'[t] # Idle) <=> (t # lock /\ work[t] # Idle)
    BY <1>1, <1>3, <1>4, <1>6, <1>8
  <2> QED
    BY <2>1 DEF Left
<1>12. \A t \in Left : work'[t] = work[t]
  BY <1>3, <1>6 DEF Left
<1>13. LeftInv'
  BY <1>1, <1>11, <1>12 DEF MutationInv, LeftInv
<1>14. AnswersInv'
  BY <1>1 DEF MutationInv, AnswersInv
<1>15. ASSUME NEW t \in Slots PROVE Prepared(work'[t])
  BY <1>6, NewTask, OtherwisePrepared DEF MutationInv, PreparedInv
<1>16. PreparedInv'
  BY <1>1, <1>15 DEF PreparedInv, Prepared, read_optional, follow_final_symlinks
<1> QED
  BY <1>9, <1>10, <1>13, <1>14, <1>16 DEF MutationInv

\* A repeated request is answered from the registry.
LEMMA ReplaysKeep ==
  ASSUME MutationInv, NEW r \in Requests, replays(r)
  PROVE  MutationInv'
<1>1. /\ r.id \in DOMAIN registry
      /\ answers' = answers \cup {[id |-> r.id, answer |-> registry[r.id].answer]}
      /\ disk' = disk /\ registry' = registry /\ lock' = lock /\ work' = work
      /\ faults' = faults
  BY DEF replays, Given
<1>2. AnswersInv'
  BY <1>1 DEF MutationInv, AnswersInv
<1>3. SlotsInv' /\ HolderInv' /\ LeftInv'
  BY <1>1 DEF MutationInv, SlotsInv, HolderInv, LeftInv, Left
<1>4. PreparedInv'
  BY <1>1 DEF MutationInv, PreparedInv, Prepared, read_optional, follow_final_symlinks
<1> QED
  BY <1>2, <1>3, <1>4 DEF MutationInv

\* The outcome is recorded under an id that had none, and answered.
LEMMA FinishesKeeps ==
  ASSUME MutationInv, finishes
  PROVE  MutationInv'
<1>1. PICK w, id, answer : w = work[lock] /\ id = w.request.id /\ answer = Answer(w)
  OBVIOUS
<1>2. PICK entry : entry = [request |-> w.request, answer |-> answer]
  OBVIOUS
<1>3. /\ lock # 0
      /\ registry' = [n \in DOMAIN registry \cup {id} |-> IF n = id THEN entry ELSE registry[n]]
      /\ answers' = answers \cup {[id |-> id, answer |-> answer]}
      /\ work' = [work EXCEPT ![lock] = Idle] /\ lock' = 0
      /\ disk' = disk /\ faults' = faults
  BY <1>1, <1>2 DEF finishes, Given, Inserted
<1>4. lock \in Slots /\ id \notin DOMAIN registry
  BY <1>1, <1>3 DEF MutationInv, SlotsInv, HolderInv
<1>5. /\ DOMAIN registry' = {id} \cup DOMAIN registry
      /\ registry'[id] = entry
      /\ \A n \in DOMAIN registry : registry'[n] = registry[n]
  BY <1>3, <1>4
<1>6. AnswersInv'
  <2>1. ASSUME NEW a \in answers'
        PROVE  a.id \in DOMAIN registry' /\ a.answer = registry'[a.id].answer
    <3>1. CASE a \in answers
      BY <1>5, <3>1 DEF MutationInv, AnswersInv
    <3>2. CASE a = [id |-> id, answer |-> answer]
      BY <1>2, <1>5, <3>2
    <3> QED
      BY <1>3, <2>1, <3>1, <3>2
  <2> QED
    BY <2>1 DEF AnswersInv
<1>7. work' = [t \in Slots |-> IF t = lock THEN Idle ELSE work[t]]
  BY <1>3 DEF MutationInv, SlotsInv
<1>8. \A t \in Slots : work'[t] = IF t = lock THEN Idle ELSE work[t]
  BY <1>7
<1>9. SlotsInv'
  BY <1>3, <1>7, <1>8 DEF MutationInv, SlotsInv
<1>10. HolderInv'
  BY <1>3 DEF HolderInv
<1>11. 0 \notin Slots
  BY RequestsHaveKinds DEF Slots
<1>12. Left' = Left
  <2>1. \A t \in Slots : (t # lock' /\ work'[t] # Idle) <=> (t # lock /\ work[t] # Idle)
    BY <1>3, <1>8, <1>11
  <2> QED
    BY <2>1 DEF Left
<1>13. \A t \in Left : work'[t] = work[t]
  BY <1>8 DEF Left
<1>14. LeftInv'
  BY <1>3, <1>12, <1>13 DEF MutationInv, LeftInv
<1>15. Idle.pc \notin {"rename", "unlink"}
  BY DEF Idle
<1>16. ASSUME NEW t \in Slots PROVE Prepared(work'[t])
  BY <1>8, <1>15, OtherwisePrepared DEF MutationInv, PreparedInv
<1>17. PreparedInv'
  BY <1>3, <1>16 DEF PreparedInv, Prepared, read_optional, follow_final_symlinks
<1> QED
  BY <1>6, <1>9, <1>10, <1>14, <1>17 DEF MutationInv

\* A caller that leaves frees the lock; its task is counted.
LEMMA LeavesKeeps ==
  ASSUME MutationInv, leaves
  PROVE  MutationInv'
<1>1. /\ lock # 0 /\ Another("leaves", MaxLeaves)
      /\ work' = [work EXCEPT ![lock].orphan = TRUE] /\ lock' = 0
      /\ disk' = disk /\ registry' = registry /\ answers' = answers
  BY DEF leaves
<1>2. lock \in Slots /\ IsTask(work[lock])
  BY <1>1 DEF MutationInv, SlotsInv, HolderInv
<1>3. PICK v : v = [work[lock] EXCEPT !.orphan = TRUE]
  OBVIOUS
<1>4. /\ IsTask(v) /\ v.orphan /\ v.pc = work[lock].pc /\ v.request = work[lock].request
      /\ v.raced = work[lock].raced /\ v.target = work[lock].target
      /\ v.steps = work[lock].steps /\ v.at = work[lock].at
  BY <1>2, <1>3 DEF IsTask, TaskParts, PatchPlaces
<1>5. work' = [t \in Slots |-> IF t = lock THEN v ELSE work[t]]
  BY <1>1, <1>3 DEF MutationInv, SlotsInv
<1>6. \A t \in Slots : work'[t] = IF t = lock THEN v ELSE work[t]
  BY <1>5
<1>7. 0 \notin Slots
  BY RequestsHaveKinds DEF Slots
<1>8. SlotsInv'
  BY <1>1, <1>4, <1>5, <1>6 DEF MutationInv, SlotsInv
<1>9. HolderInv'
  BY <1>1 DEF HolderInv
<1>10. Left' = Left \cup {lock}
  <2>1. v # Idle
    BY <1>4, TaskIsNotIdle
  <2>2. \A t \in Slots : (t # lock' /\ work'[t] # Idle)
                           <=> ((t # lock /\ work[t] # Idle) \/ t = lock)
    BY <1>1, <1>2, <1>6, <1>7, <2>1
  <2> QED
    BY <1>2, <2>2 DEF Left
<1>11. \A t \in Left' : work'[t].orphan
  BY <1>4, <1>6, <1>10 DEF MutationInv, LeftInv, Left
<1>12. IsFiniteSet(Left) /\ lock \notin Left
  BY SlotsFinite, FS_Subset DEF Left
<1>13. Cardinality(Left') = Cardinality(Left) + 1
  BY <1>10, <1>12, FS_AddElement
<1>14. Cardinality(Left) \in Nat
  BY <1>12, FS_CardinalityType
<1>15. /\ faults' = [f \in {"outside", "failures", "leaves", "restarts"} |-> faults'[f]]
       /\ faults["leaves"] < MaxLeaves /\ faults'["leaves"] = faults["leaves"] + 1
  BY <1>1, AnotherFault DEF MutationInv
<1>16. LeftInv'
  BY <1>11, <1>13, <1>14, <1>15, RequestsHaveKinds DEF MutationInv, LeftInv
<1>17. AnswersInv'
  BY <1>1 DEF MutationInv, AnswersInv
<1>18. Prepared(v)
  <2>1. Prepared(work[lock])
    BY <1>2 DEF MutationInv, PreparedInv
  <2>2. Write(v) = Write(work[lock]) /\ Step(v) = Step(work[lock])
    BY <1>4 DEF Write, Step
  <2>3. Expected(v) = Expected(work[lock]) /\ (Exact(v) <=> Exact(work[lock]))
    BY <1>4, <2>2 DEF Expected, Exact
  <2> QED
    BY <1>4, <2>1, <2>3 DEF Prepared
<1>19. ASSUME NEW t \in Slots PROVE Prepared(work'[t])
  BY <1>6, <1>18 DEF MutationInv, PreparedInv
<1>20. PreparedInv'
  BY <1>1, <1>19 DEF PreparedInv, Prepared, read_optional, follow_final_symlinks
<1> QED
  BY <1>8, <1>9, <1>16, <1>17, <1>20 DEF MutationInv

\* The outcome of a task without a caller is dropped; it is still counted.
LEMMA ForgetsKeeps ==
  ASSUME MutationInv, NEW s \in Slots, forgets(s)
  PROVE  MutationInv'
<1>1. /\ work[s].pc = "returned" /\ work[s].orphan
      /\ work' = [work EXCEPT ![s] = Idle]
      /\ disk' = disk /\ registry' = registry /\ lock' = lock /\ answers' = answers
      /\ faults' = faults
  BY DEF forgets, Becomes
<1>2. work' = [t \in Slots |-> IF t = s THEN Idle ELSE work[t]]
  BY <1>1 DEF MutationInv, SlotsInv
<1>3. \A t \in Slots : work'[t] = IF t = s THEN Idle ELSE work[t]
  BY <1>2
<1>4. lock # 0 => lock \in Slots /\ lock # s
  BY <1>1 DEF MutationInv, HolderInv, SlotsInv
<1>5. SlotsInv'
  BY <1>1, <1>2, <1>3 DEF MutationInv, SlotsInv
<1>6. HolderInv'
  BY <1>1, <1>3, <1>4 DEF MutationInv, HolderInv
<1>7. Left' \subseteq Left
  BY <1>1, <1>3 DEF Left
<1>8. IsFiniteSet(Left)
  BY SlotsFinite, FS_Subset DEF Left
<1>9. /\ Cardinality(Left') <= Cardinality(Left)
      /\ Cardinality(Left) \in Nat /\ Cardinality(Left') \in Nat
  BY <1>7, <1>8, FS_Subset, FS_CardinalityType
<1>10. \A t \in Left' : work'[t].orphan
  BY <1>3, <1>7 DEF MutationInv, LeftInv, Left
<1>11. LeftInv'
  BY <1>1, <1>9, <1>10, RequestsHaveKinds DEF MutationInv, LeftInv
<1>12. AnswersInv'
  BY <1>1 DEF MutationInv, AnswersInv
<1>13. Idle.pc \notin {"rename", "unlink"}
  BY DEF Idle
<1>14. ASSUME NEW t \in Slots PROVE Prepared(work'[t])
  BY <1>3, <1>13, OtherwisePrepared DEF MutationInv, PreparedInv
<1>15. PreparedInv'
  BY <1>1, <1>14 DEF PreparedInv, Prepared, read_optional, follow_final_symlinks
<1> QED
  BY <1>5, <1>6, <1>11, <1>12, <1>15 DEF MutationInv

\* Nothing is left of a process that ends but the disk, and the counts of faults.
LEMMA EmptyProcess ==
  ASSUME work = [s \in Slots |-> Idle], lock = 0, answers = {},
         faults = [f \in {"outside", "failures", "leaves", "restarts"} |-> faults[f]],
         faults["leaves"] \in Nat, faults["leaves"] <= MaxLeaves
  PROVE  MutationInv
<1>1. SlotsInv /\ HolderInv /\ AnswersInv
  BY DEF SlotsInv, HolderInv, AnswersInv
<1>2. Left = {}
  BY DEF Left
<1>3. LeftInv
  BY <1>2, FS_EmptySet DEF LeftInv
<1>4. PreparedInv
  BY DEF PreparedInv, Prepared, Idle
<1> QED
  BY <1>1, <1>3, <1>4 DEF MutationInv

\* A mutation that begins again knows nothing stale.
LEMMA RestartsKeep ==
  ASSUME MutationInv, restarts
  PROVE  MutationInv'
<1>1. /\ work' = [s \in Slots |-> Idle] /\ lock' = 0 /\ answers' = {}
      /\ Another("restarts", MaxRestarts)
  BY DEF restarts
<1>2. /\ faults' = [f \in {"outside", "failures", "leaves", "restarts"} |-> faults'[f]]
      /\ faults'["leaves"] = faults["leaves"]
  BY <1>1, AnotherFault DEF MutationInv
<1>3. faults'["leaves"] \in Nat /\ faults'["leaves"] <= MaxLeaves
  BY <1>2 DEF MutationInv, LeftInv
<1>4. SlotsInv' /\ HolderInv' /\ AnswersInv'
  BY <1>1 DEF SlotsInv, HolderInv, AnswersInv
<1>5. Left' = {}
  BY <1>1 DEF Left
<1>6. LeftInv'
  BY <1>2, <1>3, <1>5, FS_EmptySet DEF LeftInv
<1>7. PreparedInv'
  BY <1>1 DEF PreparedInv, Prepared, Idle
<1> QED
  BY <1>4, <1>6, <1>7 DEF MutationInv

-----------------------------------------------------------------------------
(* The theorems. *)

\* At the start nothing is under way.
LEMMA MutationInit == Init => MutationInv
<1> SUFFICES ASSUME Init PROVE MutationInv
  OBVIOUS
<1>1. /\ work = [s \in Slots |-> Idle] /\ lock = 0 /\ answers = {}
      /\ faults = [outside |-> 0, failures |-> 0, leaves |-> 0, restarts |-> 0]
  BY DEF Init
<1>2. /\ faults = [f \in {"outside", "failures", "leaves", "restarts"} |-> faults[f]]
      /\ faults["leaves"] = 0
  BY <1>1
<1> QED
  BY <1>1, <1>2, EmptyProcess, RequestsHaveKinds

\* Every step keeps the invariant.
LEMMA MutationStep == MutationInv /\ [Next]_vars => MutationInv'
<1> SUFFICES ASSUME MutationInv, [Next]_vars PROVE MutationInv'
  OBVIOUS
<1>1. ASSUME NEW s \in Slots, task(s)
      PROVE  MutationInv'
  BY <1>1, PlanningKeeps, VerifyingKeeps, VerifiesKeeps, VerifiesSourceKeeps, LooksKeep,
     LooksToRemoveKeeps, RechecksKeep, CallsKeep DEF task
<1>2. ASSUME NEW s \in Slots, fails(s) \/ forgets(s)
      PROVE  MutationInv'
  BY <1>2, FailureKeeps, ForgetsKeeps
<1>3. ASSUME NEW r \in Requests, begins(r) \/ replays(r)
      PROVE  MutationInv'
  BY <1>3, BeginsKeeps, ReplaysKeep
<1>4. CASE finishes \/ leaves \/ restarts \/ outside
  BY <1>4, FinishesKeeps, LeavesKeeps, RestartsKeep, OutsideKeeps
<1>5. CASE UNCHANGED vars
  <2>1. /\ disk' = disk /\ registry' = registry /\ lock' = lock /\ work' = work
        /\ answers' = answers /\ faults' = faults
    BY <1>5 DEF vars
  <2>2. SlotsInv' /\ HolderInv' /\ LeftInv' /\ AnswersInv'
    BY <2>1 DEF MutationInv, SlotsInv, HolderInv, LeftInv, Left, AnswersInv
  <2>3. PreparedInv'
    BY <2>1 DEF MutationInv, PreparedInv, Prepared, read_optional, follow_final_symlinks
  <2> QED
    BY <2>2, <2>3 DEF MutationInv
<1> QED
  BY <1>1, <1>2, <1>3, <1>4, <1>5 DEF Next

\* The invariant holds in every reachable state.
LEMMA MutationInvariant == Spec => []MutationInv
BY MutationInit, MutationStep, PTL DEF Spec

\* Within a process a mutation id has one answer, however often the request is
\* sent again and whoever stopped waiting: what was answered is what the registry
\* holds, and it never takes a second outcome for an id (write_file, remove_file
\* and apply_patch look up and insert under file_mutations).
THEOREM OneAnswerAlways == Spec => []OneAnswerPerMutation
<1>1. MutationInv => OneAnswerPerMutation
  BY DEF MutationInv, AnswersInv, OneAnswerPerMutation
<1> QED
  BY <1>1, MutationInvariant, PTL

\* The step that NoLostUpdate is about.
KeepsUpdates ==
  \A s \in Slots :
    LET w == work[s]
    IN  (/\ w.pc \in {"rename", "unlink"}
         /\ w.request.kind # "write" \/ w.request.mode = "conditional"
         /\ work'[s].pc # "idle" /\ work'[s].done # w.done)
        => (w.raced \/ read_optional(w.target) = Expected(w))

\* A conditional write, a removal or a patch replaces only what it has seen,
\* unless it was overtaken after its last look: two tasks of one runtime overtake
\* each other only when a caller has left (write_file_at, remove_file_at, execute).
THEOREM NoUpdateLost == Spec => NoLostUpdate
<1>1. MutationInv => KeepsUpdates
  BY DEF MutationInv, PreparedInv, Prepared, Exact, KeepsUpdates
<1>2. MutationInv /\ [Next]_vars => KeepsUpdates
  BY <1>1
<1>3. Spec => [][KeepsUpdates]_vars
  BY <1>2, MutationInvariant, PTL DEF Spec
<1> QED
  BY <1>3 DEF NoLostUpdate, KeepsUpdates

-----------------------------------------------------------------------------
(* Induction, as the absence of a least exception. *)

\* A set of numbers has a least one.
LEMMA Least ==
  ASSUME NEW T \in SUBSET Nat, T # {}
  PROVE  \E n \in T : \A m \in T : n <= m
<1>1. PICK R : R = OpToRel(<, Nat)
  OBVIOUS
<1>2. IsWellFoundedOn(R, Nat)
  BY <1>1, NatLessThanWellFounded
<1>3. PICK n \in T : \A m \in T : <<m, n>> \notin R
  BY <1>2, WFMin
<1>4. \A x, y \in Nat : x < y => <<x, y>> \in R
  BY <1>1 DEF OpToRel
<1>5. n \in Nat /\ \A m \in T : m \in Nat /\ ~(m < n)
  BY <1>3, <1>4
<1>6. \A m \in T : n <= m
  BY <1>5
<1> QED
  BY <1>6

\* What holds of 0, and of n + 1 if of n, holds of all up to a last number.
LEMMA UpTo ==
  ASSUME NEW last \in Nat, NEW T, 0 \in T, \A n \in 0..last : n < last /\ n \in T => n + 1 \in T
  PROVE  \A n \in 0..last : n \in T
<1> SUFFICES ASSUME NEW k \in 0..last, k \notin T PROVE FALSE
  OBVIOUS
<1> DEFINE S == {n \in 0..last : n \notin T}
<1>1. S \in SUBSET Nat /\ S # {}
  OBVIOUS
<1>2. PICK n \in S : \A m \in S : n <= m
  BY <1>1, Least
<1>3. n # 0 /\ n \in 0..last
  BY <1>2
<1>4. n - 1 \in 0..last /\ n - 1 < last /\ n - 1 \notin S
  BY <1>2, <1>3
<1> QED
  BY <1>2, <1>3, <1>4

\* What holds of the last, and of n - 1 if of n, holds of all.
LEMMA DownTo ==
  ASSUME NEW last \in Nat, NEW T, last \in T, \A n \in 1..last : n \in T => n - 1 \in T
  PROVE  \A n \in 0..last : n \in T
<1> DEFINE U == {n \in 0..last : last - n \in T}
<1>1. 0 \in U
  OBVIOUS
<1>2. ASSUME NEW n \in 0..last, n < last, n \in U
      PROVE  n + 1 \in U
  <2>1. last - n \in 1..last /\ last - n \in T /\ last - (n + 1) = last - n - 1
    BY <1>2
  <2> QED
    BY <1>2, <2>1
<1> HIDE DEF U
<1>3. \A n \in 0..last : n \in U
  BY <1>1, <1>2, UpTo
<1>4. ASSUME NEW n \in 0..last
      PROVE  n \in T
  <2>1. last - n \in 0..last /\ last - (last - n) = n
    OBVIOUS
  <2> QED
    BY <1>3, <2>1 DEF U
<1> QED
  BY <1>4

-----------------------------------------------------------------------------
(* Sequences of whatever they hold. *)

IsSeq(s) == Len(s) \in Nat /\ s = [k \in 1..Len(s) |-> s[k]]

\* They are sequences of their elements, and of anything that these are among.
LEMMA SeqIs ==
  ASSUME NEW s, IsSeq(s)
  PROVE  s \in Seq({s[k] : k \in 1..Len(s)}) /\ DOMAIN s = 1..Len(s)
<1>1. PICK n \in Nat : n = Len(s)
  BY DEF IsSeq
<1>2. PICK S : S = {s[k] : k \in 1..n}
  OBVIOUS
<1>3. s \in [1..n -> S]
  BY <1>1, <1>2 DEF IsSeq
<1>4. s \in Seq(S)
  BY <1>3
<1> QED
  BY <1>1, <1>2, <1>3, <1>4

\* A sequence over any set that holds its elements.
LEMMA SeqOver ==
  ASSUME NEW s, IsSeq(s), NEW S, \A k \in 1..Len(s) : s[k] \in S
  PROVE  s \in Seq(S)
BY SeqIs, SeqMonotonic

\* A sequence over a set is a sequence.
LEMMA IsSeqOf ==
  ASSUME NEW S, NEW s \in Seq(S)
  PROVE  IsSeq(s)
BY LenProperties DEF IsSeq

\* A function on the first numbers.
LEMMA MadeSeq ==
  ASSUME NEW n \in Nat, NEW s, s = [k \in 1..n |-> s[k]]
  PROVE  IsSeq(s) /\ Len(s) = n
<1>1. s \in [1..n -> {s[k] : k \in 1..n}]
  OBVIOUS
<1>2. s \in Seq({s[k] : k \in 1..n})
  BY <1>1
<1>3. Len(s) = n
  BY <1>1, <1>2, LenProperties
<1> QED
  BY <1>3 DEF IsSeq

\* Two sequences with the same elements are the same.
LEMMA SameSeq ==
  ASSUME NEW s, NEW t, IsSeq(s), IsSeq(t), Len(s) = Len(t), \A k \in 1..Len(s) : s[k] = t[k]
  PROVE  s = t
BY DEF IsSeq

\* No element.
LEMMA EmptyIsSeq == IsSeq(<<>>) /\ Len(<<>>) = 0
BY EmptySeq, IsSeqOf

\* No sequence but the empty one is of length 0.
LEMMA NoneIsEmpty ==
  ASSUME NEW s, IsSeq(s), Len(s) = 0
  PROVE  s = <<>>
BY EmptyIsSeq, SameSeq

\* One element.
LEMMA SingleIs ==
  ASSUME NEW x
  PROVE  IsSeq(<<x>>) /\ Len(<<x>>) = 1 /\ <<x>>[1] = x
<1>1. <<x>> \in Seq({x})
  OBVIOUS
<1> QED
  BY <1>1, IsSeqOf

\* One more at the end.
LEMMA AppendIs ==
  ASSUME NEW s, IsSeq(s), NEW x
  PROVE  /\ IsSeq(Append(s, x)) /\ Len(Append(s, x)) = Len(s) + 1
         /\ \A k \in 1..Len(s) : Append(s, x)[k] = s[k]
         /\ Append(s, x)[Len(s) + 1] = x
<1>1. PICK S : S = {s[k] : k \in 1..Len(s)} \cup {x}
  OBVIOUS
<1>2. s \in Seq(S) /\ x \in S
  BY <1>1, SeqOver
<1>3. Append(s, x) \in Seq(S) /\ Len(s) \in Nat
  BY <1>2, LenProperties
<1>4. Len(Append(s, x)) = Len(s) + 1 /\ \A k \in 1..Len(s) : Append(s, x)[k] = s[k]
      /\ Append(s, x)[Len(s) + 1] = x
  BY <1>2, <1>3
<1>5. IsSeq(Append(s, x))
  BY <1>3, IsSeqOf, Zenon
<1> QED
  BY <1>4, <1>5

\* One behind the other.
LEMMA ConcatIs ==
  ASSUME NEW s, IsSeq(s), NEW t, IsSeq(t)
  PROVE  /\ IsSeq(s \o t) /\ Len(s \o t) = Len(s) + Len(t)
         /\ \A k \in 1..Len(s) : (s \o t)[k] = s[k]
         /\ \A k \in 1..Len(t) : (s \o t)[Len(s) + k] = t[k]
<1>1. PICK S : S = {s[k] : k \in 1..Len(s)} \cup {t[k] : k \in 1..Len(t)}
  OBVIOUS
<1>2. s \in Seq(S) /\ t \in Seq(S)
  BY <1>1, SeqOver
<1>3. Len(s) \in Nat /\ Len(t) \in Nat
  BY DEF IsSeq
<1>4. /\ s \o t \in Seq(S) /\ Len(s \o t) = Len(s) + Len(t)
      /\ \A i \in 1..Len(s) + Len(t) :
           (s \o t)[i] = IF i <= Len(s) THEN s[i] ELSE t[i - Len(s)]
  BY <1>2, ConcatProperties
<1>5. \A k \in 1..Len(s) : (s \o t)[k] = s[k]
  BY <1>3, <1>4
<1>6. ASSUME NEW k \in 1..Len(t)
      PROVE  (s \o t)[Len(s) + k] = t[k]
  <2>1. PICK i : i = Len(s) + k
    OBVIOUS
  <2>2. i \in 1..Len(s) + Len(t) /\ ~(i <= Len(s)) /\ i - Len(s) = k
    BY <1>3, <2>1
  <2> QED
    BY <1>4, <2>1, <2>2
<1> QED
  BY <1>4, <1>5, <1>6, IsSeqOf

\* Nothing in front.
LEMMA ConcatEmpty ==
  ASSUME NEW s, IsSeq(s)
  PROVE  s \o <<>> = s /\ <<>> \o s = s
BY SeqIs, ConcatEmptySeq

\* Order of concatenation does not matter.
LEMMA ConcatAssoc ==
  ASSUME NEW s, IsSeq(s), NEW t, IsSeq(t), NEW u, IsSeq(u)
  PROVE  (s \o t) \o u = s \o (t \o u)
<1>1. PICK S : S = {s[k] : k \in 1..Len(s)} \cup {t[k] : k \in 1..Len(t)}
                     \cup {u[k] : k \in 1..Len(u)}
  OBVIOUS
<1>2. s \in Seq(S) /\ t \in Seq(S) /\ u \in Seq(S)
  BY <1>1, SeqOver
<1> QED
  BY <1>2, ConcatAssociative

\* To append is to concatenate one element.
LEMMA AppendConcat ==
  ASSUME NEW s, IsSeq(s), NEW x
  PROVE  Append(s, x) = s \o <<x>>
<1>1. /\ IsSeq(Append(s, x)) /\ Len(Append(s, x)) = Len(s) + 1
      /\ \A k \in 1..Len(s) : Append(s, x)[k] = s[k]
      /\ Append(s, x)[Len(s) + 1] = x
  BY AppendIs
<1>2. /\ IsSeq(s \o <<x>>) /\ Len(s \o <<x>>) = Len(s) + 1
      /\ \A k \in 1..Len(s) : (s \o <<x>>)[k] = s[k]
      /\ \A k \in 1..1 : (s \o <<x>>)[Len(s) + k] = <<x>>[k]
      /\ <<x>>[1] = x
  BY ConcatIs, SingleIs
<1>3. (s \o <<x>>)[Len(s) + 1] = x
  BY <1>2
<1>4. Len(s) \in Nat
  BY DEF IsSeq
<1> QED
  BY <1>1, <1>2, <1>3, <1>4, SameSeq

-----------------------------------------------------------------------------
(* Sequences of sequences, one behind the other, as FlattenSeq has them. *)

\* g holds what the first of them come to, for up to n.
Cat(s, t) == s \o t
IsFlat(ss, n, g) == g = [i \in 1..n |-> IF i = 1 THEN ss[i] ELSE Cat(g[i - 1], ss[i])]
Flat(ss, n) == (CHOOSE g : IsFlat(ss, n, g))[n]

\* This is what FlattenSeq comes to.
LEMMA FlattenIs ==
  ASSUME NEW ss
  PROVE  FlattenSeq(ss) = IF Len(ss) = 0 THEN ss ELSE Flat(ss, Len(ss))
BY Zenon DEF FlattenSeq, Flat, IsFlat, Cat

\* There is such a function, for any length.
LEMMA FlatExists ==
  ASSUME NEW ss, NEW last \in Nat
  PROVE  \A n \in 0..last : \E g : IsFlat(ss, n, g)
<1> DEFINE T == {n \in 0..last : \E g : IsFlat(ss, n, g)}
<1>1. 0 \in T
  <2>1. PICK g : g = [i \in 1..0 |-> ss[i]]
    OBVIOUS
  <2>2. g = [i \in 1..0 |-> IF i = 1 THEN ss[i] ELSE Cat(g[i - 1], ss[i])]
    BY <2>1
  <2>3. IsFlat(ss, 0, g)
    BY <2>2 DEF IsFlat
  <2>4. 0 \in 0..last
    OBVIOUS
  <2> QED
    BY <2>3, <2>4, Zenon
<1>2. ASSUME NEW n \in 0..last, n < last, n \in T
      PROVE  n + 1 \in T
  <2>1. PICK g : IsFlat(ss, n, g)
    BY <1>2
  <2>2. PICK h : h = [i \in 1..n + 1 |-> IF i = n + 1
                                          THEN (IF i = 1 THEN ss[i] ELSE Cat(g[i - 1], ss[i]))
                                          ELSE g[i]]
    OBVIOUS
  <2>3. \A i \in 1..n + 1 : h[i] = IF i = 1 THEN ss[i] ELSE Cat(h[i - 1], ss[i])
    BY <2>1, <2>2 DEF IsFlat
  <2>4. h = [i \in 1..n + 1 |-> IF i = 1 THEN ss[i] ELSE Cat(h[i - 1], ss[i])]
    BY <2>2, <2>3
  <2> QED
    BY <1>2, <2>4 DEF IsFlat
<1> HIDE DEF T
<1>3. \A n \in 0..last : n \in T
  BY <1>1, <1>2, UpTo
<1> QED
  BY <1>3 DEF T

\* What they come to is one behind the other.
LEMMA FlatIs ==
  ASSUME NEW ss, NEW n \in Nat \ {0}
  PROVE  Flat(ss, n) = IF n = 1 THEN ss[1] ELSE Cat(Flat(ss, n - 1), ss[n])
<1>1. \A m \in 1..n : \E g : IsFlat(ss, m, g)
  BY FlatExists
<1>2. PICK g : g = CHOOSE f : IsFlat(ss, n, f)
  OBVIOUS
<1>3. IsFlat(ss, n, g) /\ Flat(ss, n) = g[n]
  BY <1>1, <1>2 DEF Flat
<1>4. CASE n = 1
  BY <1>3, <1>4 DEF IsFlat
<1>5. CASE n # 1
  <2>1. PICK h : h = CHOOSE f : IsFlat(ss, n - 1, f)
    OBVIOUS
  <2>2. IsFlat(ss, n - 1, h) /\ Flat(ss, n - 1) = h[n - 1]
    BY <1>1, <1>5, <2>1 DEF Flat
  <2>3. g[n] = Cat(g[n - 1], ss[n])
    BY <1>3, <1>5 DEF IsFlat
  <2> DEFINE T == {k \in 0..n - 1 : k # 0 => g[k] = h[k]}
  <2>4. 0 \in T
    OBVIOUS
  <2>5. ASSUME NEW k \in 0..n - 1, k < n - 1, k \in T
        PROVE  k + 1 \in T
    <3>1. /\ g[k + 1] = IF k + 1 = 1 THEN ss[k + 1] ELSE Cat(g[k], ss[k + 1])
          /\ h[k + 1] = IF k + 1 = 1 THEN ss[k + 1] ELSE Cat(h[k], ss[k + 1])
      BY <1>3, <2>2, <2>5 DEF IsFlat
    <3> QED
      BY <2>5, <3>1
  <2> HIDE DEF T
  <2>6. \A k \in 0..n - 1 : k \in T
    BY <2>4, <2>5, UpTo
  <2>7. g[n - 1] = h[n - 1]
    BY <1>5, <2>6 DEF T
  <2> QED
    BY <1>3, <1>5, <2>2, <2>3, <2>7
<1> QED
  BY <1>4, <1>5

\* It does not depend on what comes after.
LEMMA FlatSame ==
  ASSUME NEW ss, NEW tt, NEW n \in Nat \ {0}, \A k \in 1..n : ss[k] = tt[k]
  PROVE  Flat(ss, n) = Flat(tt, n)
<1> DEFINE T == {k \in 0..n : k # 0 => Flat(ss, k) = Flat(tt, k)}
<1>1. 0 \in T
  OBVIOUS
<1>2. ASSUME NEW k \in 0..n, k < n, k \in T
      PROVE  k + 1 \in T
  <2>1. k + 1 \in Nat \ {0} /\ k + 1 - 1 = k /\ (k + 1 = 1 <=> k = 0)
    BY <1>2
  <2>2. /\ Flat(ss, k + 1) = IF k = 0 THEN ss[1] ELSE Cat(Flat(ss, k), ss[k + 1])
        /\ Flat(tt, k + 1) = IF k = 0 THEN tt[1] ELSE Cat(Flat(tt, k), tt[k + 1])
    BY <2>1, FlatIs
  <2> QED
    BY <1>2, <2>1, <2>2
<1> HIDE DEF T
<1>3. \A k \in 0..n : k \in T
  BY <1>1, <1>2, UpTo
<1> QED
  BY <1>3 DEF T

\* Two elements.
LEMMA PairIs ==
  ASSUME NEW x, NEW y
  PROVE  IsSeq(<<x, y>>) /\ <<x, y>> = Cat(<<x>>, <<y>>)
<1>1. <<x, y>> \in Seq({x, y}) /\ Len(<<x, y>>) = 2 /\ <<x, y>>[1] = x /\ <<x, y>>[2] = y
  OBVIOUS
<1>2. IsSeq(<<x, y>>)
  BY <1>1, IsSeqOf
<1>3. PICK z : z = Cat(<<x>>, <<y>>)
  OBVIOUS
<1>4. /\ IsSeq(z) /\ Len(z) = 2
      /\ \A k \in 1..1 : z[k] = <<x>>[k]
      /\ \A k \in 1..1 : z[1 + k] = <<y>>[k]
  BY <1>3, SingleIs, ConcatIs DEF Cat
<1>5. z[1] = x /\ z[1 + 1] = y
  BY <1>4, SingleIs
<1>6. \A k \in 1..2 : z[k] = <<x, y>>[k]
  BY <1>1, <1>5
<1> QED
  BY <1>1, <1>2, <1>3, <1>4, <1>6, SameSeq

\* A sequence of sequences.
IsSeqSeq(ss) == IsSeq(ss) /\ \A k \in 1..Len(ss) : IsSeq(ss[k])

\* What is flattened is a sequence.
LEMMA FlatIsSeq ==
  ASSUME NEW ss, IsSeqSeq(ss)
  PROVE  \A n \in 1..Len(ss) : IsSeq(Flat(ss, n))
<1>1. PICK last \in Nat : last = Len(ss)
  BY DEF IsSeqSeq, IsSeq
<1> DEFINE T == {n \in 0..last : n # 0 => IsSeq(Flat(ss, n))}
<1>2. 0 \in T
  OBVIOUS
<1>3. ASSUME NEW n \in 0..last, n < last, n \in T
      PROVE  n + 1 \in T
  <2>1. n + 1 \in Nat \ {0} /\ n + 1 - 1 = n /\ IsSeq(ss[n + 1])
    BY <1>1, <1>3 DEF IsSeqSeq
  <2>2. Flat(ss, n + 1) = IF n + 1 = 1 THEN ss[1] ELSE Cat(Flat(ss, n), ss[n + 1])
    BY <2>1, FlatIs
  <2>3. CASE n = 0
    BY <1>3, <2>1, <2>2, <2>3
  <2>4. CASE n # 0
    <3>1. IsSeq(Flat(ss, n))
      BY <1>3, <2>4
    <3>2. IsSeq(Cat(Flat(ss, n), ss[n + 1]))
      BY <2>1, <3>1, ConcatIs DEF Cat
    <3> QED
      BY <1>3, <2>1, <2>2, <2>4, <3>2
  <2> QED
    BY <2>3, <2>4
<1> HIDE DEF T
<1>4. \A n \in 0..last : n \in T
  BY <1>2, <1>3, UpTo
<1> QED
  BY <1>1, <1>4 DEF T

\* The concatenation of them is a sequence.
LEMMA FlattenIsSeq ==
  ASSUME NEW ss, IsSeqSeq(ss)
  PROVE  IsSeq(FlattenSeq(ss)) /\ (Len(ss) = 0 => FlattenSeq(ss) = <<>>)
<1>1. Len(ss) \in Nat /\ IsSeq(ss)
  BY DEF IsSeqSeq, IsSeq
<1>2. CASE Len(ss) = 0
  BY <1>1, <1>2, FlattenIs, NoneIsEmpty, EmptyIsSeq
<1>3. CASE Len(ss) # 0
  <2>1. Len(ss) \in 1..Len(ss)
    BY <1>1, <1>3
  <2> QED
    BY <1>3, <2>1, FlattenIs, FlatIsSeq
<1> QED
  BY <1>2, <1>3

\* One sequence more.
LEMMA FlattenAppend ==
  ASSUME NEW ss, IsSeqSeq(ss), NEW s, IsSeq(s)
  PROVE  /\ IsSeqSeq(Append(ss, s))
         /\ FlattenSeq(Append(ss, s)) = Cat(FlattenSeq(ss), s)
<1>1. PICK n \in Nat : n = Len(ss)
  BY DEF IsSeqSeq, IsSeq
<1>2. PICK tt : tt = Append(ss, s)
  OBVIOUS
<1>3. /\ IsSeq(tt) /\ Len(tt) = n + 1 /\ tt[n + 1] = s
      /\ \A k \in 1..n : tt[k] = ss[k]
  BY <1>1, <1>2, AppendIs DEF IsSeqSeq
<1>4. IsSeqSeq(tt)
  BY <1>1, <1>3 DEF IsSeqSeq
<1>5. FlattenSeq(tt) = Flat(tt, n + 1)
  BY <1>1, <1>3, FlattenIs
<1>6. n + 1 \in Nat \ {0} /\ n + 1 - 1 = n /\ (n + 1 = 1 <=> n = 0)
  BY <1>1
<1>7. Flat(tt, n + 1) = IF n = 0 THEN tt[1] ELSE Cat(Flat(tt, n), tt[n + 1])
  BY <1>6, FlatIs
<1>8. CASE n = 0
  <2>1. FlattenSeq(ss) = <<>>
    BY <1>1, <1>8, FlattenIsSeq
  <2>2. Cat(<<>>, s) = s
    BY ConcatEmpty DEF Cat
  <2> QED
    BY <1>2, <1>3, <1>4, <1>5, <1>7, <1>8, <2>1, <2>2
<1>9. CASE n # 0
  <2>1. Flat(tt, n) = Flat(ss, n)
    BY <1>1, <1>3, <1>9, FlatSame
  <2>2. FlattenSeq(ss) = Flat(ss, n)
    BY <1>1, <1>9, FlattenIs
  <2> QED
    BY <1>2, <1>3, <1>4, <1>5, <1>7, <1>9, <2>1, <2>2
<1> QED
  BY <1>8, <1>9

-----------------------------------------------------------------------------
(* The folds.  FoldLeft and FoldRight choose a function of sets of places;    *)
(* what it says of a sequence is what one element after the other makes of it. *)

\* The place in a set that FoldLeft takes last, and the one FoldRight does.
Greatest(places) == Max(places)
Smallest(places) == Min(places)

\* The folds over sequences here, with what they depend on besides; three go
\* from the left.
IsLeft(op) == op = "read" \/ op = "split" \/ op = "plan"
SplitAt(c, lines) ==
  IF c = LF THEN Append(lines, <<>>) ELSE [lines EXCEPT ![Len(lines)] = Append(@, c)]
SpliceIf(at, e, t) == IF e.at = at THEN Splice(t, e) ELSE t
Applied(op, with, x, r) ==
  IF op = "read" THEN ReadLine(r, x)
  ELSE IF op = "split" THEN SplitAt(x, r)
  ELSE IF op = "plan" THEN PlanChunk(with, r, x)
  ELSE IF op = "at" THEN SpliceIf(with, x, r)
  ELSE IF op = "positions" THEN SpliceAt(x - 1, r, with)
  ELSE Cat(x, r)

\* The place that is taken off last, or first.
Taken(op, places) == IF IsLeft(op) THEN Greatest(places) ELSE Smallest(places)

\* g holds what comes of the places in a set, for the sets of some places.
Comes(op, with, base, s, g, places) ==
  IF places = {} THEN base
  ELSE Applied(op, with, s[Taken(op, places)], g[places \ {Taken(op, places)}])
IsFold(op, with, base, s, sets, g) ==
  g = [places \in sets |-> Comes(op, with, base, s, g, places)]

\* A set of places has a greatest and a smallest.
LEMMA TakenIs ==
  ASSUME NEW n \in Nat, NEW places \in SUBSET (1..n), places # {}
  PROVE  /\ Greatest(places) \in places /\ \A m \in places : Greatest(places) >= m
         /\ Smallest(places) \in places /\ \A m \in places : Smallest(places) <= m
<1>1. PICK a \in places : \A m \in places : a <= m
  <2>1. places \in SUBSET Nat
    OBVIOUS
  <2> QED
    BY <2>1, Least
<1>2. PICK b \in places : \A m \in places : b >= m
  <2> DEFINE T == {n - m : m \in places}
  <2>1. T \in SUBSET Nat /\ T # {}
    OBVIOUS
  <2>2. PICK t \in T : \A m \in T : t <= m
    BY <2>1, Least
  <2>3. PICK b \in places : t = n - b
    BY <2>2
  <2>4. ASSUME NEW m \in places
        PROVE  b >= m
    <3>1. n - m \in T
      OBVIOUS
    <3>2. t <= n - m /\ m \in 1..n /\ b \in 1..n
      BY <2>2, <3>1
    <3> QED
      BY <2>3, <3>2
  <2> QED
    BY <2>4
<1>3. Greatest(places) \in places /\ \A m \in places : Greatest(places) >= m
  BY <1>2 DEF Greatest, Max
<1>4. Smallest(places) \in places /\ \A m \in places : Smallest(places) <= m
  BY <1>1 DEF Smallest, Min
<1> QED
  BY <1>3, <1>4

\* The sets of up to so many places.
Sets(n, size) == {places \in SUBSET (1..n) : Cardinality(places) <= size}

\* A fold comes to something, however many places there are.
LEMMA FoldExists ==
  ASSUME NEW op, NEW with, NEW base, NEW s, NEW n \in Nat
  PROVE  \E g : IsFold(op, with, base, s, SUBSET (1..n), g)
<1>1. \A places \in SUBSET (1..n) : IsFiniteSet(places) /\ Cardinality(places) \in 0..n
  <2>1. IsFiniteSet(1..n) /\ Cardinality(1..n) = IF 1 > n THEN 0 ELSE n - 1 + 1
    BY FS_Interval
  <2>2. IsFiniteSet(1..n) /\ Cardinality(1..n) = n
    BY <2>1
  <2>3. ASSUME NEW places \in SUBSET (1..n)
        PROVE  IsFiniteSet(places) /\ Cardinality(places) \in 0..n
    <3>1. IsFiniteSet(places) /\ Cardinality(places) <= n
      BY <2>2, FS_Subset
    <3>2. Cardinality(places) \in Nat
      BY <3>1, FS_CardinalityType
    <3> QED
      BY <3>1, <3>2
  <2> QED
    BY <2>3
<1> DEFINE T == {size \in 0..n : \E g : IsFold(op, with, base, s, Sets(n, size), g)}
<1>2. 0 \in T
  <2>1. PICK g : g = [places \in Sets(n, 0) |-> base]
    OBVIOUS
  <2>2. \A places \in Sets(n, 0) : places = {}
    BY <1>1, FS_EmptySet DEF Sets
  <2>3. IsFold(op, with, base, s, Sets(n, 0), g)
    BY <2>1, <2>2 DEF IsFold, Comes
  <2>4. 0 \in 0..n
    OBVIOUS
  <2> QED
    BY <2>3, <2>4, Zenon
<1>3. ASSUME NEW size \in 0..n, size < n, size \in T
      PROVE  size + 1 \in T
  <2>1. PICK g : IsFold(op, with, base, s, Sets(n, size), g)
    BY <1>3
  <2>2. PICK more, h : more = size + 1 /\ h = [places \in Sets(n, more) |->
                                                 Comes(op, with, base, s, g, places)]
    OBVIOUS
  <2>3. more \in 0..n
    BY <1>3, <2>2
  <2>4. ASSUME NEW places \in Sets(n, more)
        PROVE  h[places] = Comes(op, with, base, s, h, places)
    <3>1. CASE places = {}
      BY <2>2, <3>1 DEF Comes
    <3>2. CASE places # {}
      <4>1. PICK k : k = Taken(op, places)
        OBVIOUS
      <4>2. k \in places /\ places \in SUBSET (1..n)
        BY <3>2, <4>1, TakenIs DEF Taken, Sets
      <4>3. PICK less : less = places \ {k}
        OBVIOUS
      <4>4. Cardinality(less) = Cardinality(places) - 1 /\ less \in SUBSET (1..n)
        BY <1>1, <4>2, <4>3, FS_RemoveElement
      <4>5. less \in Sets(n, size) /\ less \in Sets(n, more)
        BY <1>1, <1>3, <2>2, <4>2, <4>4 DEF Sets
      <4>6. g[less] = Comes(op, with, base, s, g, less)
        BY <2>1, <4>5 DEF IsFold
      <4>7. h[less] = g[less]
        BY <2>2, <4>5, <4>6
      <4> QED
        BY <2>2, <3>2, <4>1, <4>3, <4>7 DEF Comes
    <3> QED
      BY <3>1, <3>2
  <2>5. IsFold(op, with, base, s, Sets(n, more), h)
    BY <2>2, <2>4 DEF IsFold
  <2> QED
    BY <2>2, <2>3, <2>5, Zenon
<1> HIDE DEF T
<1>4. \A size \in 0..n : size \in T
  BY <1>2, <1>3, UpTo
<1>5. n \in T
  BY <1>4
<1>6. Sets(n, n) = SUBSET (1..n)
  BY <1>1 DEF Sets
<1> QED
  BY <1>5, <1>6 DEF T

\* What comes of the first places, and of the last.
RunsLeft(op, with, base, s, n, r) ==
  r[0] = base /\ \A k \in 1..n : r[k] = Applied(op, with, s[k], r[k - 1])
RunsRight(op, with, base, s, n, r) ==
  r[n + 1] = base /\ \A k \in 1..n : r[k] = Applied(op, with, s[k], r[k + 1])
LeadsLeft(op, with, base, s, n, all) ==
  \E r : RunsLeft(op, with, base, s, n, r) /\ r[n] = all
LeadsRight(op, with, base, s, n, all) ==
  \E r : RunsRight(op, with, base, s, n, r) /\ r[1] = all

\* What comes of the first places, from no place to all.
LEMMA FoldedLeft ==
  ASSUME NEW op, IsLeft(op), NEW with, NEW base, NEW s, NEW n \in Nat, NEW g,
         IsFold(op, with, base, s, SUBSET (1..n), g)
  PROVE  LeadsLeft(op, with, base, s, n, g[1..n])
<1>1. PICK r : r = [k \in 0..n |-> g[1..k]]
  OBVIOUS
<1>2. \A places \in SUBSET (1..n) : g[places] = Comes(op, with, base, s, g, places)
  BY DEF IsFold
<1>3. r[0] = base
  <2>1. 1..0 = {} /\ {} \in SUBSET (1..n) /\ 0 \in 0..n
    OBVIOUS
  <2>2. r[0] = g[{}]
    BY <1>1, <2>1
  <2>3. g[{}] = base
    BY <1>2, <2>1 DEF Comes
  <2> QED
    BY <2>2, <2>3
<1>4. ASSUME NEW k \in 1..n
      PROVE  r[k] = Applied(op, with, s[k], r[k - 1])
  <2>1. PICK places : places = 1..k
    OBVIOUS
  <2>2. places \in SUBSET (1..n) /\ k \in places /\ places # {} /\ places \ {k} = 1..k - 1
    BY <2>1
  <2>3. Greatest(places) = k
    <3>1. Greatest(places) \in places /\ Greatest(places) >= k
      BY <2>2, TakenIs
    <3> QED
      BY <2>1, <3>1
  <2>4. Taken(op, places) = k
    BY <2>3 DEF Taken
  <2>5. g[places] = Applied(op, with, s[k], g[1..k - 1])
    BY <1>2, <2>2, <2>4 DEF Comes
  <2>6. k \in 0..n /\ k - 1 \in 0..n
    OBVIOUS
  <2>7. r[k] = g[places] /\ r[k - 1] = g[1..k - 1]
    BY <1>1, <2>1, <2>6
  <2> QED
    BY <2>5, <2>7
<1>5. n \in 0..n /\ r[n] = g[1..n]
  BY <1>1
<1> QED
  BY <1>3, <1>4, <1>5 DEF RunsLeft, LeadsLeft

\* What comes of the last places, from all to none.
LEMMA FoldedRight ==
  ASSUME NEW op, ~IsLeft(op), NEW with, NEW base, NEW s, NEW n \in Nat, NEW g,
         IsFold(op, with, base, s, SUBSET (1..n), g)
  PROVE  LeadsRight(op, with, base, s, n, g[1..n])
<1>1. PICK r : r = [k \in 1..n + 1 |-> g[k..n]]
  OBVIOUS
<1>2. \A places \in SUBSET (1..n) : g[places] = Comes(op, with, base, s, g, places)
  BY DEF IsFold
<1>3. r[n + 1] = base
  <2>1. n + 1..n = {} /\ {} \in SUBSET (1..n) /\ n + 1 \in 1..n + 1
    OBVIOUS
  <2>2. r[n + 1] = g[{}]
    BY <1>1, <2>1
  <2>3. g[{}] = base
    BY <1>2, <2>1 DEF Comes
  <2> QED
    BY <2>2, <2>3
<1>4. ASSUME NEW k \in 1..n
      PROVE  r[k] = Applied(op, with, s[k], r[k + 1])
  <2>1. PICK places : places = k..n
    OBVIOUS
  <2>2. places \in SUBSET (1..n) /\ k \in places /\ places # {} /\ places \ {k} = k + 1..n
    BY <2>1
  <2>3. Smallest(places) = k
    <3>1. Smallest(places) \in places /\ Smallest(places) <= k
      BY <2>2, TakenIs
    <3> QED
      BY <2>1, <3>1
  <2>4. Taken(op, places) = k
    BY <2>3 DEF Taken
  <2>5. g[places] = Applied(op, with, s[k], g[k + 1..n])
    BY <1>2, <2>2, <2>4 DEF Comes
  <2>6. k \in 1..n + 1 /\ k + 1 \in 1..n + 1
    OBVIOUS
  <2>7. r[k] = g[places] /\ r[k + 1] = g[k + 1..n]
    BY <1>1, <2>1, <2>6
  <2> QED
    BY <2>5, <2>7
<1>5. 1 \in 1..n + 1 /\ r[1] = g[1..n]
  BY <1>1
<1> QED
  BY <1>3, <1>4, <1>5 DEF RunsRight, LeadsRight

\* What each fold here applies, and from which side: a line is read,
LEMMA AppliedRead ==
  /\ IsLeft("read")
  /\ \A with, x, r : Applied("read", with, x, r) = ReadLine(r, x)
BY DEF IsLeft, Applied

\* a character is split off,
LEMMA AppliedSplit ==
  /\ IsLeft("split")
  /\ \A with, x, r : Applied("split", with, x, r) = SplitAt(x, r)
BY DEF IsLeft, Applied

\* a chunk is planned,
LEMMA AppliedPlan ==
  /\ IsLeft("plan")
  /\ \A with, x, r : Applied("plan", with, x, r) = PlanChunk(with, r, x)
BY DEF IsLeft, Applied

\* an edit is made at a position,
LEMMA AppliedAt ==
  /\ ~IsLeft("at")
  /\ \A with, x, r : Applied("at", with, x, r) = SpliceIf(with, x, r)
BY DEF IsLeft, Applied

\* the edits of a position are made,
LEMMA AppliedPositions ==
  /\ ~IsLeft("positions")
  /\ \A with, x, r : Applied("positions", with, x, r) = SpliceAt(x - 1, r, with)
BY DEF IsLeft, Applied

\* a sequence is put in front.
LEMMA AppliedCat ==
  /\ ~IsLeft("cat")
  /\ \A with, x, r : Applied("cat", with, x, r) = Cat(x, r)
BY DEF IsLeft, Applied

\* The text is split at the places in a set.
SplitOver(text, g, places) ==
  IF places = {} THEN << <<>> >>
  ELSE SplitAt(text[Greatest(places)], g[places \ {Greatest(places)}])
AreSplit(text, all, g) == g = [places \in SUBSET all |-> SplitOver(text, g, places)]

\* A text is split one character after the other.
IsSplit(text, n, r) ==
  /\ r[0] = << <<>> >> /\ r[n] = split(text)
  /\ \A k \in 1..n : r[k] = SplitAt(text[k], r[k - 1])

\* There is such a function.
LEMMA SplitFolds ==
  ASSUME NEW text, IsSeq(text), NEW n, n = Len(text)
  PROVE  \E r : IsSplit(text, n, r)
<1>1. split(text) = (CHOOSE g : AreSplit(text, DOMAIN text, g))[DOMAIN text]
  BY Zenon DEF split, FoldLeft, MapThenFoldSet, AreSplit, SplitOver, SplitAt, Greatest
<1>2. n \in Nat /\ DOMAIN text = 1..n
  BY SeqIs DEF IsSeq
<1>3. ASSUME NEW g
      PROVE  AreSplit(text, 1..n, g)
               <=> IsFold("split", 0, << <<>> >>, text, SUBSET (1..n), g)
  <2>1. ASSUME NEW places
        PROVE  SplitOver(text, g, places) = Comes("split", 0, << <<>> >>, text, g, places)
    <3>1. Taken("split", places) = Greatest(places)
      BY AppliedSplit DEF Taken
    <3> QED
      BY <3>1, AppliedSplit, Zenon DEF SplitOver, Comes
  <2> QED
    BY <2>1 DEF AreSplit, IsFold
<1>4. PICK g : g = CHOOSE f : AreSplit(text, 1..n, f)
  OBVIOUS
<1>5. IsFold("split", 0, << <<>> >>, text, SUBSET (1..n), g)
  BY <1>2, <1>3, <1>4, FoldExists
<1>6. IsLeft("split")
  BY AppliedSplit
<1>7. LeadsLeft("split", 0, << <<>> >>, text, n, g[1..n])
  BY <1>2, <1>5, <1>6, FoldedLeft
<1>8. PICK r : RunsLeft("split", 0, << <<>> >>, text, n, r) /\ r[n] = g[1..n]
  BY <1>7 DEF LeadsLeft
<1>9. r[n] = split(text)
  BY <1>1, <1>2, <1>4, <1>8, Zenon
<1>10. r[0] = << <<>> >> /\ \A k \in 1..n : r[k] = Applied("split", 0, text[k], r[k - 1])
  BY <1>8 DEF RunsLeft
<1>11. \A k \in 1..n : r[k] = SplitAt(text[k], r[k - 1])
  BY <1>10, AppliedSplit
<1> QED
  BY <1>8, <1>9, <1>10, <1>11 DEF IsSplit

\* The plan of the chunks at the places in a set.
PlanOver(lines, chunks, g, places) ==
  IF places = {} THEN [ok |-> TRUE, cursor |-> 0, edits |-> <<>>]
  ELSE PlanChunk(lines, g[places \ {Greatest(places)}], chunks[Greatest(places)])
ArePlanned(lines, chunks, all, g) ==
  g = [places \in SUBSET all |-> PlanOver(lines, chunks, g, places)]

\* The plan of an update, as apply_codex folds it.
PlanOf(lines, chunks) ==
  FoldLeft(LAMBDA p, c : PlanChunk(lines, p, c),
           [ok |-> TRUE, cursor |-> 0, edits |-> <<>>], chunks)

\* An update is planned one chunk after the other.
LEMMA PlanFolds ==
  ASSUME NEW lines, NEW chunks, IsSeq(chunks), NEW n, n = Len(chunks)
  PROVE  \E r : /\ r[0] = [ok |-> TRUE, cursor |-> 0, edits |-> <<>>]
                /\ r[n] = PlanOf(lines, chunks)
                /\ \A k \in 1..n : r[k] = PlanChunk(lines, r[k - 1], chunks[k])
<1>1. PICK base : base = [ok |-> TRUE, cursor |-> 0, edits |-> <<>>]
  OBVIOUS
<1>2. PlanOf(lines, chunks)
        = (CHOOSE g : ArePlanned(lines, chunks, DOMAIN chunks, g))[DOMAIN chunks]
  BY Zenon DEF PlanOf, FoldLeft, MapThenFoldSet, ArePlanned, PlanOver, Greatest
<1>3. n \in Nat /\ DOMAIN chunks = 1..n
  BY SeqIs DEF IsSeq
<1>4. ASSUME NEW g
      PROVE  ArePlanned(lines, chunks, 1..n, g)
               <=> IsFold("plan", lines, base, chunks, SUBSET (1..n), g)
  <2>1. ASSUME NEW places
        PROVE  PlanOver(lines, chunks, g, places)
                 = Comes("plan", lines, base, chunks, g, places)
    <3>1. Taken("plan", places) = Greatest(places)
      BY AppliedPlan DEF Taken
    <3> QED
      BY <1>1, <3>1, AppliedPlan, Zenon DEF PlanOver, Comes
  <2> QED
    BY <2>1 DEF ArePlanned, IsFold
<1>5. PICK g : g = CHOOSE f : ArePlanned(lines, chunks, 1..n, f)
  OBVIOUS
<1>6. IsFold("plan", lines, base, chunks, SUBSET (1..n), g)
  BY <1>3, <1>4, <1>5, FoldExists
<1>7. IsLeft("plan")
  BY AppliedPlan
<1>8. LeadsLeft("plan", lines, base, chunks, n, g[1..n])
  BY <1>3, <1>6, <1>7, FoldedLeft
<1>9. PICK r : RunsLeft("plan", lines, base, chunks, n, r) /\ r[n] = g[1..n]
  BY <1>8 DEF LeadsLeft
<1>10. r[n] = PlanOf(lines, chunks)
  BY <1>2, <1>3, <1>5, <1>9, Zenon
<1>11. r[0] = base /\ \A k \in 1..n : r[k] = Applied("plan", lines, chunks[k], r[k - 1])
  BY <1>9 DEF RunsLeft
<1>12. \A k \in 1..n : r[k] = PlanChunk(lines, r[k - 1], chunks[k])
  BY <1>11, AppliedPlan, Zenon
<1> QED
  BY <1>1, <1>9, <1>10, <1>11, <1>12

\* The edits at one position among those at the places in a set.
SplicedOver(at, s, edits, g, places) ==
  IF places = {} THEN s
  ELSE SpliceIf(at, edits[Smallest(places)], g[places \ {Smallest(places)}])
AreSpliced(at, s, edits, all, g) ==
  g = [places \in SUBSET all |-> SplicedOver(at, s, edits, g, places)]

\* They are made one after the other, from the last.
SpliceRun(at, s, edits, n, r) ==
  /\ r[n + 1] = s /\ r[1] = SpliceAt(at, s, edits)
  /\ \A k \in 1..n : r[k] = SpliceIf(at, edits[k], r[k + 1])

\* There is such a run.
LEMMA SpliceFolds ==
  ASSUME NEW at, NEW s, NEW edits, IsSeq(edits), NEW n, n = Len(edits)
  PROVE  \E r : SpliceRun(at, s, edits, n, r)
<1>1. SpliceAt(at, s, edits)
        = (CHOOSE g : AreSpliced(at, s, edits, DOMAIN edits, g))[DOMAIN edits]
  BY Zenon DEF SpliceAt, FoldRight, MapThenFoldSet, AreSpliced, SplicedOver, SpliceIf, Smallest
<1>2. n \in Nat /\ DOMAIN edits = 1..n
  BY SeqIs DEF IsSeq
<1>3. ASSUME NEW g
      PROVE  AreSpliced(at, s, edits, 1..n, g)
               <=> IsFold("at", at, s, edits, SUBSET (1..n), g)
  <2>1. ASSUME NEW places
        PROVE  SplicedOver(at, s, edits, g, places) = Comes("at", at, s, edits, g, places)
    <3>1. Taken("at", places) = Smallest(places)
      BY AppliedAt DEF Taken
    <3> QED
      BY <3>1, AppliedAt, Zenon DEF SplicedOver, Comes
  <2> QED
    BY <2>1 DEF AreSpliced, IsFold
<1>4. PICK g : g = CHOOSE f : AreSpliced(at, s, edits, 1..n, f)
  OBVIOUS
<1>5. IsFold("at", at, s, edits, SUBSET (1..n), g)
  BY <1>2, <1>3, <1>4, FoldExists
<1>6. ~IsLeft("at")
  BY AppliedAt
<1>7. LeadsRight("at", at, s, edits, n, g[1..n])
  BY <1>2, <1>5, <1>6, FoldedRight
<1>8. PICK r : RunsRight("at", at, s, edits, n, r) /\ r[1] = g[1..n]
  BY <1>7 DEF LeadsRight
<1>9. r[1] = SpliceAt(at, s, edits)
  BY <1>1, <1>2, <1>4, <1>8, Zenon
<1>10. r[n + 1] = s /\ \A k \in 1..n : r[k] = Applied("at", at, edits[k], r[k + 1])
  BY <1>8 DEF RunsRight
<1>11. ASSUME NEW k \in 1..n
       PROVE  r[k] = SpliceIf(at, edits[k], r[k + 1])
  <2>1. Applied("at", at, edits[k], r[k + 1]) = SpliceIf(at, edits[k], r[k + 1])
    BY AppliedAt
  <2> QED
    BY <1>10, <2>1
<1> QED
  BY <1>8, <1>9, <1>10, <1>11 DEF SpliceRun

\* All edits, at the positions before the places in a set.
PositionsOver(s, edits, numbers, g, places) ==
  IF places = {} THEN s
  ELSE SpliceAt(numbers[Smallest(places)] - 1, g[places \ {Smallest(places)}], edits)
ArePositions(s, edits, numbers, all, g) ==
  g = [places \in SUBSET all |-> PositionsOver(s, edits, numbers, g, places)]

\* They are made one position after the other, from the last.
IsSpliced(s, edits, n, r) ==
  /\ r[n + 1] = s /\ r[1] = SpliceAll(s, edits)
  /\ \A k \in 1..n : r[k] = SpliceAt(k - 1, r[k + 1], edits)

\* There is such a function.
LEMMA PositionsFold ==
  ASSUME NEW s, IsSeq(s), NEW edits, NEW n, n = Len(s) + 1
  PROVE  \E r : IsSpliced(s, edits, n, r)
<1>1. PICK numbers : numbers = [k \in 1..n |-> k]
  OBVIOUS
<1>2. SpliceAll(s, edits)
        = FoldRight(LAMBDA m, t : SpliceAt(m - 1, t, edits), numbers, s)
  BY <1>1, Zenon DEF SpliceAll
<1>3. SpliceAll(s, edits)
        = (CHOOSE g : ArePositions(s, edits, numbers, DOMAIN numbers, g))[DOMAIN numbers]
  BY <1>2, Zenon DEF FoldRight, MapThenFoldSet, ArePositions, PositionsOver, Smallest
<1>4. n \in Nat /\ DOMAIN numbers = 1..n
  BY <1>1 DEF IsSeq
<1>5. ASSUME NEW g
      PROVE  ArePositions(s, edits, numbers, 1..n, g)
               <=> IsFold("positions", edits, s, numbers, SUBSET (1..n), g)
  <2>1. ASSUME NEW places
        PROVE  PositionsOver(s, edits, numbers, g, places)
                 = Comes("positions", edits, s, numbers, g, places)
    <3>1. Taken("positions", places) = Smallest(places)
      BY AppliedPositions DEF Taken
    <3> QED
      BY <3>1, AppliedPositions, Zenon DEF PositionsOver, Comes
  <2> QED
    BY <2>1 DEF ArePositions, IsFold
<1>6. PICK g : g = CHOOSE f : ArePositions(s, edits, numbers, 1..n, f)
  OBVIOUS
<1>7. IsFold("positions", edits, s, numbers, SUBSET (1..n), g)
  BY <1>4, <1>5, <1>6, FoldExists
<1>8. ~IsLeft("positions")
  BY AppliedPositions
<1>9. LeadsRight("positions", edits, s, numbers, n, g[1..n])
  BY <1>4, <1>7, <1>8, FoldedRight
<1>10. PICK r : RunsRight("positions", edits, s, numbers, n, r) /\ r[1] = g[1..n]
  BY <1>9 DEF LeadsRight
<1>11. r[1] = SpliceAll(s, edits)
  BY <1>3, <1>4, <1>6, <1>10, Zenon
<1>12. \A k \in 1..n : r[k] = SpliceAt(numbers[k] - 1, r[k + 1], edits)
  BY <1>10, AppliedPositions, Zenon DEF RunsRight
<1>13. r[n + 1] = s
  BY <1>10 DEF RunsRight
<1> QED
  BY <1>1, <1>11, <1>12, <1>13 DEF IsSpliced

\* r holds what the sequences from one on come to, one behind the other.
IsRun(ss, n, r) == r[n + 1] = <<>> /\ \A k \in 1..n : r[k] = Cat(ss[k], r[k + 1])

\* There is such a function.
LEMMA CatFolds ==
  ASSUME NEW ss, NEW n \in Nat
  PROVE  \E r : IsRun(ss, n, r)
<1>1. PICK g : IsFold("cat", 0, <<>>, ss, SUBSET (1..n), g)
  BY FoldExists
<1>2. ~IsLeft("cat")
  BY AppliedCat
<1>3. LeadsRight("cat", 0, <<>>, ss, n, g[1..n])
  BY <1>1, <1>2, FoldedRight
<1>4. PICK r : RunsRight("cat", 0, <<>>, ss, n, r) /\ r[1] = g[1..n]
  BY <1>3 DEF LeadsRight
<1>5. r[n + 1] = <<>> /\ \A k \in 1..n : r[k] = Applied("cat", 0, ss[k], r[k + 1])
  BY <1>4 DEF RunsRight
<1>6. \A k \in 1..n : r[k] = Cat(ss[k], r[k + 1])
  BY <1>5, AppliedCat
<1> QED
  BY <1>4, <1>5, <1>6 DEF IsRun

-----------------------------------------------------------------------------
(* Concatenation. *)

\* The facts of concatenation, with the operator hidden.
LEMMA CatIs ==
  ASSUME NEW s, IsSeq(s), NEW t, IsSeq(t)
  PROVE  IsSeq(Cat(s, t)) /\ Len(Cat(s, t)) = Len(s) + Len(t)
BY ConcatIs DEF Cat

\* The elements of a concatenation.
Holds(u, s, t) ==
  /\ \A k \in 1..Len(s) : u[k] = s[k]
  /\ \A k \in 1..Len(t) : u[Len(s) + k] = t[k]

\* They are those of the two.
LEMMA CatHolds ==
  ASSUME NEW s, IsSeq(s), NEW t, IsSeq(t)
  PROVE  Holds(Cat(s, t), s, t)
BY ConcatIs DEF Cat, Holds

\* Nothing in front, or behind.
LEMMA CatEmpty ==
  ASSUME NEW s, IsSeq(s)
  PROVE  Cat(s, <<>>) = s /\ Cat(<<>>, s) = s
BY ConcatEmpty DEF Cat

\* Three of them.
LEMMA CatAssoc ==
  ASSUME NEW s, IsSeq(s), NEW t, IsSeq(t), NEW u, IsSeq(u)
  PROVE  Cat(Cat(s, t), u) = Cat(s, Cat(t, u))
BY ConcatAssoc, SMTT(20) DEF Cat

\* A stretch of a sequence.
LEMMA StretchIs ==
  ASSUME NEW s, IsSeq(s), NEW a \in Nat \ {0}, NEW b \in Nat, b <= Len(s)
  PROVE  /\ IsSeq(SubSeq(s, a, b)) /\ Len(SubSeq(s, a, b)) = IF a <= b THEN b - a + 1 ELSE 0
         /\ \A k \in 1..b - a + 1 : SubSeq(s, a, b)[k] = s[a + k - 1]
<1>1. PICK S : S = {s[k] : k \in 1..Len(s)}
  OBVIOUS
<1>2. s \in Seq(S) /\ Len(s) \in Nat
  BY <1>1, SeqIs DEF IsSeq
<1>3. \A k \in a..b : s[k] \in S
  BY <1>1, <1>2
<1>4. /\ SubSeq(s, a, b) \in Seq(S)
      /\ Len(SubSeq(s, a, b)) = IF a <= b THEN b - a + 1 ELSE 0
      /\ \A k \in 1..b - a + 1 : SubSeq(s, a, b)[k] = s[a + k - 1]
  BY <1>2, <1>3, SubSeqProperties
<1> QED
  BY <1>4, IsSeqOf

\* What is flattened is each sequence in front of what follows it.
LEMMA FlattenIsRun ==
  ASSUME NEW ss, IsSeqSeq(ss), NEW n, n = Len(ss), NEW r, IsRun(ss, n, r)
  PROVE  FlattenSeq(ss) = r[1] /\ \A k \in 1..n + 1 : IsSeq(r[k])
<1>1. n \in Nat /\ IsSeq(ss) /\ \A k \in 1..n : IsSeq(ss[k])
  BY DEF IsSeqSeq, IsSeq
<1>2. r[n + 1] = <<>> /\ \A k \in 1..n : r[k] = Cat(ss[k], r[k + 1])
  BY DEF IsRun
<1> DEFINE T == {k \in 0..n : IsSeq(r[k + 1])}
<1>3. n \in T
  BY <1>1, <1>2, EmptyIsSeq
<1>4. ASSUME NEW k \in 1..n, k \in T
      PROVE  k - 1 \in T
  <2>1. r[k] = Cat(ss[k], r[k + 1]) /\ IsSeq(r[k + 1]) /\ IsSeq(ss[k])
    BY <1>1, <1>2, <1>4
  <2>2. IsSeq(r[k])
    BY <2>1, CatIs
  <2>3. k - 1 \in 0..n /\ k - 1 + 1 = k
    BY <1>1
  <2> QED
    BY <2>2, <2>3
<1> HIDE DEF T
<1>5. \A k \in 0..n : k \in T
  BY <1>1, <1>3, <1>4, DownTo
<1>6. ASSUME NEW k \in 1..n + 1
      PROVE  IsSeq(r[k])
  <2>1. k - 1 \in T /\ k - 1 + 1 = k
    BY <1>1, <1>5
  <2> QED
    BY <2>1 DEF T
<1>7. CASE n = 0
  <2>1. FlattenSeq(ss) = <<>>
    BY <1>7, FlattenIsSeq
  <2> QED
    BY <1>2, <1>6, <1>7, <2>1
<1>8. CASE n # 0
  <2> DEFINE U == {k \in 0..n : k # 0 => Cat(Flat(ss, k), r[k + 1]) = r[1]}
  <2>1. 0 \in U
    BY <1>1
  <2>2. ASSUME NEW k \in 0..n, k < n, k \in U
        PROVE  k + 1 \in U
    <3>1. PICK m : m = k + 1
      OBVIOUS
    <3>2. m \in Nat \ {0} /\ m \in 1..n /\ m - 1 = k /\ (m = 1 <=> k = 0) /\ m + 1 \in 1..n + 1
      BY <1>1, <2>2, <3>1
    <3>3. Flat(ss, m) = IF m = 1 THEN ss[1] ELSE Cat(Flat(ss, k), ss[m])
      BY <3>2, FlatIs
    <3>4. r[m] = Cat(ss[m], r[m + 1])
      BY <1>2, <3>2
    <3>5. CASE k = 0
      BY <1>8, <2>2, <3>1, <3>2, <3>3, <3>4, <3>5
    <3>6. CASE k # 0
      <4>1. IsSeq(Flat(ss, k)) /\ IsSeq(ss[m]) /\ IsSeq(r[m + 1])
        <5>1. k \in 1..Len(ss)
          BY <2>2, <3>6
        <5> QED
          BY <1>1, <1>6, <3>2, <5>1, FlatIsSeq
      <4>2. Cat(Flat(ss, m), r[m + 1]) = Cat(Flat(ss, k), r[m])
        BY <3>2, <3>3, <3>4, <3>6, <4>1, CatAssoc
      <4> QED
        BY <2>2, <3>1, <3>2, <3>6, <4>2
    <3> QED
      BY <3>5, <3>6
  <2> HIDE DEF U
  <2>3. \A k \in 0..n : k \in U
    BY <1>1, <2>1, <2>2, UpTo
  <2>4. Cat(Flat(ss, n), <<>>) = r[1]
    BY <1>1, <1>2, <1>8, <2>3 DEF U
  <2>5. n \in 1..Len(ss)
    BY <1>1, <1>8
  <2>6. IsSeq(Flat(ss, n)) /\ FlattenSeq(ss) = Flat(ss, n)
    BY <1>8, <2>5, FlatIsSeq, FlattenIs
  <2> QED
    BY <1>6, <2>4, <2>6, CatEmpty
<1> QED
  BY <1>7, <1>8

-----------------------------------------------------------------------------
(* Edits: ranges that are apart, replaced one after the other from the last,  *)
(* are replaced as if at once (SpliceAll).                                    *)

\* An edit of a sequence of this length.
IsEdit(e, length) ==
  /\ e.at \in Nat /\ e.count \in Nat /\ e.at + e.count <= length
  /\ IsSeq(e.new)
AreEdits(edits, length) ==
  IsSeq(edits) /\ \A k \in 1..Len(edits) : IsEdit(edits[k], length)

\* Ranges that do not overlap, where only the last at a position may take
\* elements away.
AreApart(edits) ==
  \A j, k \in 1..Len(edits) :
    /\ edits[j].at < edits[k].at => edits[j].at + edits[j].count <= edits[k].at
    /\ j < k /\ edits[j].at = edits[k].at => edits[j].count = 0

\* What the edits at a position put there, in their order.
NewEach(edits, i) ==
  [k \in DOMAIN edits |-> IF edits[k].at = i THEN edits[k].new ELSE <<>>]
NewAt(edits, i) == FlattenSeq(NewEach(edits, i))

\* A range is replaced in what starts with the elements up to its end.
LEMMA SpliceIs ==
  ASSUME NEW s, IsSeq(s), NEW i \in Nat, NEW c \in Nat, i + c <= Len(s), NEW W, IsSeq(W),
         NEW e, e.at = i, e.count = c, IsSeq(e.new)
  PROVE  Splice(Cat(SubSeq(s, 1, i + c), W), e) = Cat(SubSeq(s, 1, i), Cat(e.new, W))
<1>1. PICK p : p = SubSeq(s, 1, i + c)
  OBVIOUS
<1>2. PICK n \in Nat : n = Len(s)
  BY DEF IsSeq
<1>3. IsSeq(p) /\ Len(p) = i + c /\ \A k \in 1..i + c : p[k] = s[k]
  <2>1. i + c \in Nat /\ i + c <= Len(s) /\ 1 \in Nat \ {0}
    OBVIOUS
  <2>2. /\ IsSeq(p) /\ Len(p) = IF 1 <= i + c THEN i + c - 1 + 1 ELSE 0
        /\ \A k \in 1..i + c - 1 + 1 : p[k] = s[1 + k - 1]
    BY <1>1, <2>1, StretchIs
  <2> QED
    BY <2>2
<1>4. PICK q : q = SubSeq(s, 1, i)
  OBVIOUS
<1>5. IsSeq(q) /\ Len(q) = i /\ \A k \in 1..i : q[k] = s[k]
  <2>1. i <= Len(s) /\ 1 \in Nat \ {0}
    BY <1>2
  <2>2. /\ IsSeq(q) /\ Len(q) = IF 1 <= i THEN i - 1 + 1 ELSE 0
        /\ \A k \in 1..i - 1 + 1 : q[k] = s[1 + k - 1]
    BY <1>4, <2>1, StretchIs
  <2> QED
    BY <2>2
<1>6. PICK t, m : t = Cat(p, W) /\ m = Len(W)
  OBVIOUS
<1>7. /\ m \in Nat /\ IsSeq(t) /\ Len(t) = i + c + m
      /\ \A k \in 1..i + c : t[k] = p[k]
      /\ \A k \in 1..m : t[i + c + k] = W[k]
  <2>1. m \in Nat /\ IsSeq(t) /\ Len(t) = i + c + m
    <3>1. m \in Nat
      BY <1>6 DEF IsSeq
    <3>2. IsSeq(t) /\ Len(t) = Len(p) + Len(W)
      BY <1>3, <1>6, CatIs
    <3> QED
      BY <1>3, <1>6, <3>1, <3>2
  <2>2. /\ \A k \in 1..Len(p) : t[k] = p[k]
        /\ \A k \in 1..Len(W) : t[Len(p) + k] = W[k]
    <3>1. IsSeq(p) /\ IsSeq(W)
      BY <1>3
    <3>2. Holds(Cat(p, W), p, W)
      BY <3>1, CatHolds
    <3> QED
      BY <1>6, <3>2 DEF Holds
  <2> QED
    BY <1>3, <1>6, <2>1, <2>2
<1>8. SubSeq(t, 1, i) = q
  <2>1. PICK u : u = SubSeq(t, 1, i)
    OBVIOUS
  <2>2. i <= Len(t) /\ 1 \in Nat \ {0}
    BY <1>7
  <2>3. /\ IsSeq(u) /\ Len(u) = IF 1 <= i THEN i - 1 + 1 ELSE 0
        /\ \A k \in 1..i - 1 + 1 : u[k] = t[1 + k - 1]
    BY <1>7, <2>1, <2>2, StretchIs
  <2>4. Len(u) = i /\ \A k \in 1..i : u[k] = q[k]
    BY <1>3, <1>5, <1>7, <2>3
  <2>5. IsSeq(u) /\ Len(u) = Len(q) /\ \A k \in 1..Len(u) : u[k] = q[k]
    BY <1>5, <2>3, <2>4
  <2>6. u = q
    BY <1>5, <2>5, SameSeq
  <2> QED
    BY <2>1, <2>6
<1>9. SubSeq(t, i + c + 1, Len(t)) = W
  <2>1. PICK u : u = SubSeq(t, i + c + 1, i + c + m)
    OBVIOUS
  <2>2. i + c + 1 \in Nat \ {0} /\ i + c + m \in Nat /\ i + c + m <= Len(t)
    BY <1>7
  <2>3. /\ IsSeq(u)
        /\ Len(u) = IF i + c + 1 <= i + c + m THEN i + c + m - (i + c + 1) + 1 ELSE 0
        /\ \A k \in 1..i + c + m - (i + c + 1) + 1 : u[k] = t[i + c + 1 + k - 1]
    BY <1>7, <2>1, <2>2, StretchIs
  <2>4. Len(u) = m /\ \A k \in 1..m : u[k] = W[k]
    <3>1. Len(u) = m
      BY <1>7, <2>3
    <3>2. ASSUME NEW k \in 1..m
          PROVE  u[k] = W[k]
      <4>1. k \in 1..i + c + m - (i + c + 1) + 1 /\ i + c + 1 + k - 1 = i + c + k
        BY <1>7
      <4> QED
        BY <1>7, <2>3, <4>1
    <3> QED
      BY <3>1, <3>2
  <2>5. u = W
    BY <1>6, <2>3, <2>4, SameSeq
  <2> QED
    BY <1>7, <2>1, <2>5
<1>10. Splice(t, e) = Cat(Cat(q, e.new), W)
  BY <1>8, <1>9 DEF Splice, Cat
<1> QED
  BY <1>1, <1>4, <1>5, <1>6, <1>10, CatAssoc

\* What the edits at a position put there is a sequence.
LEMMA NewEachIs ==
  ASSUME NEW edits, NEW length, AreEdits(edits, length), NEW i
  PROVE  /\ IsSeqSeq(NewEach(edits, i)) /\ Len(NewEach(edits, i)) = Len(edits)
         /\ \A k \in 1..Len(edits) :
              NewEach(edits, i)[k] = IF edits[k].at = i THEN edits[k].new ELSE <<>>
<1>1. PICK n \in Nat : n = Len(edits)
  BY DEF AreEdits, IsSeq
<1>2. DOMAIN edits = 1..n
  BY <1>1, SeqIs DEF AreEdits
<1>3. PICK f : f = NewEach(edits, i)
  OBVIOUS
<1>4. f = [k \in 1..n |-> IF edits[k].at = i THEN edits[k].new ELSE <<>>]
  BY <1>2, <1>3 DEF NewEach
<1>5. f = [k \in 1..n |-> f[k]]
  BY <1>4
<1>6. IsSeq(f) /\ Len(f) = n
  BY <1>5, MadeSeq
<1>7. \A k \in 1..n : IsSeq(f[k])
  BY <1>1, <1>4, EmptyIsSeq DEF AreEdits, IsEdit
<1> QED
  BY <1>1, <1>3, <1>4, <1>6, <1>7 DEF IsSeqSeq

\* So is that of them all.
LEMMA NewAtIs ==
  ASSUME NEW edits, NEW length, AreEdits(edits, length), NEW i
  PROVE  IsSeq(NewAt(edits, i))
BY NewEachIs, FlattenIsSeq DEF NewAt

\* No edit there, from an index on.
NoneFrom(edits, k, i) == \A j \in k..Len(edits) : edits[j].at # i

\* Where there is no edit nothing changes.
LEMMA NoneThere ==
  ASSUME NEW edits, NEW length, AreEdits(edits, length), NEW i, NEW t, NoneFrom(edits, 1, i)
  PROVE  SpliceAt(i, t, edits) = t /\ NewAt(edits, i) = <<>>
<1>1. PICK m \in Nat : m = Len(edits)
  BY DEF AreEdits, IsSeq
<1>2. IsSeq(edits) /\ \A k \in 1..m : edits[k].at # i
  BY <1>1 DEF AreEdits, NoneFrom
<1>3. PICK q : /\ q[m + 1] = t /\ q[1] = SpliceAt(i, t, edits)
               /\ \A k \in 1..m : q[k] = SpliceIf(i, edits[k], q[k + 1])
  <2>1. PICK q : SpliceRun(i, t, edits, m, q)
    BY <1>1, <1>2, SpliceFolds
  <2> QED
    BY <2>1 DEF SpliceRun
<1>4. PICK f : f = NewEach(edits, i)
  OBVIOUS
<1>5. IsSeqSeq(f) /\ Len(f) = m /\ \A k \in 1..m : f[k] = <<>>
  BY <1>1, <1>2, <1>4, NewEachIs
<1>6. PICK h : IsRun(f, m, h)
  BY CatFolds
<1>7. h[m + 1] = <<>> /\ \A k \in 1..m : h[k] = Cat(f[k], h[k + 1])
  BY <1>6 DEF IsRun
<1> DEFINE T == {k \in 0..m : q[k + 1] = t /\ h[k + 1] = <<>>}
<1>8. m \in T
  BY <1>3, <1>7
<1>9. ASSUME NEW k \in 1..m, k \in T
      PROVE  k - 1 \in T
  <2>1. q[k] = t
    BY <1>2, <1>3, <1>9 DEF SpliceIf
  <2>2. h[k] = <<>>
    BY <1>5, <1>7, <1>9, EmptyIsSeq, CatEmpty
  <2>3. k - 1 \in 0..m /\ k - 1 + 1 = k
    OBVIOUS
  <2> QED
    BY <2>1, <2>2, <2>3
<1> HIDE DEF T
<1>10. 0 \in T
  BY <1>8, <1>9, DownTo
<1>11. q[1] = t /\ h[1] = <<>>
  BY <1>10 DEF T
<1>12. FlattenSeq(f) = h[1]
  BY <1>5, <1>6, FlattenIsRun
<1> QED
  BY <1>3, <1>4, <1>11, <1>12 DEF NewAt

\* The last of the edits at a position takes so many elements away.
LastTakes(edits, i, c) ==
  /\ \A k \in 1..Len(edits) :
       edits[k].at = i /\ NoneFrom(edits, k + 1, i) => edits[k].count = c
  /\ NoneFrom(edits, 1, i) => c = 0

\* The edits at a position, in what starts with the elements up to the end of
\* the range there.
LEMMA PositionIs ==
  ASSUME NEW s, IsSeq(s), NEW edits, AreEdits(edits, Len(s)), AreApart(edits),
         NEW i \in Nat, NEW c \in Nat, i + c <= Len(s), NEW W, IsSeq(W), LastTakes(edits, i, c)
  PROVE  SpliceAt(i, Cat(SubSeq(s, 1, i + c), W), edits)
           = Cat(SubSeq(s, 1, i), Cat(NewAt(edits, i), W))
<1>1. PICK m \in Nat : m = Len(edits)
  BY DEF AreEdits, IsSeq
<1>2. IsSeq(edits)
  BY DEF AreEdits
<1>3. PICK t, u : t = Cat(SubSeq(s, 1, i + c), W) /\ u = SubSeq(s, 1, i)
  OBVIOUS
<1>4. PICK q : /\ q[m + 1] = t /\ q[1] = SpliceAt(i, t, edits)
               /\ \A k \in 1..m : q[k] = SpliceIf(i, edits[k], q[k + 1])
  <2>1. PICK q : SpliceRun(i, t, edits, m, q)
    BY <1>1, <1>2, SpliceFolds
  <2> QED
    BY <2>1 DEF SpliceRun
<1>5. PICK f : f = NewEach(edits, i)
  OBVIOUS
<1>6. IsSeqSeq(f) /\ Len(f) = m
  BY <1>1, <1>5, NewEachIs
<1>7. \A k \in 1..m : f[k] = IF edits[k].at = i THEN edits[k].new ELSE <<>>
  BY <1>1, <1>5, NewEachIs
<1>8. PICK h : IsRun(f, m, h)
  BY CatFolds
<1>9. FlattenSeq(f) = h[1] /\ \A k \in 1..m + 1 : IsSeq(h[k])
  BY <1>6, <1>8, FlattenIsRun
<1>10. h[m + 1] = <<>> /\ \A k \in 1..m : h[k] = Cat(f[k], h[k + 1])
  BY <1>8 DEF IsRun
<1> DEFINE T == {k \in 0..m : IF NoneFrom(edits, k + 1, i) THEN q[k + 1] = t /\ h[k + 1] = <<>>
                              ELSE q[k + 1] = Cat(u, Cat(h[k + 1], W))}
<1>11. m \in T
  <2>1. NoneFrom(edits, m + 1, i)
    BY <1>1 DEF NoneFrom
  <2> QED
    BY <1>4, <1>10, <2>1
<1>12. ASSUME NEW k \in 1..m, k \in T
       PROVE  k - 1 \in T
  <2>1. k - 1 \in 0..m /\ k - 1 + 1 = k /\ k + 1 \in 1..m + 1
    OBVIOUS
  <2>2. PICK q1, h1, e, v : q1 = q[k + 1] /\ h1 = h[k + 1] /\ e = edits[k] /\ v = e.new
    OBVIOUS
  <2>3. IsSeq(h1) /\ IsSeq(v) /\ IsEdit(e, Len(s))
    BY <1>1, <1>9, <2>1, <2>2 DEF AreEdits, IsEdit
  <2>4. /\ NoneFrom(edits, k, i) <=> e.at # i /\ NoneFrom(edits, k + 1, i)
    BY <1>1, <2>2 DEF NoneFrom
  <2>5. CASE e.at # i
    <3>1. q[k] = q1
      BY <1>4, <2>2, <2>5 DEF SpliceIf
    <3>2. h[k] = h1
      BY <1>7, <1>10, <2>2, <2>3, <2>5, CatEmpty
    <3> QED
      BY <1>12, <2>1, <2>2, <2>4, <2>5, <3>1, <3>2
  <2>6. CASE e.at = i
    <3>1. q[k] = Splice(q1, e)
      BY <1>4, <2>2, <2>6 DEF SpliceIf
    <3>2. h[k] = Cat(v, h1)
      BY <1>7, <1>10, <2>2, <2>6
    <3>3. CASE NoneFrom(edits, k + 1, i)
      <4>1. q1 = t /\ h1 = <<>> /\ e.count = c
        BY <1>1, <1>12, <2>2, <2>6, <3>3 DEF LastTakes
      <4>2. Splice(t, e) = Cat(u, Cat(v, W))
        <5>1. e.count = c /\ IsSeq(e.new)
          BY <2>2, <2>3, <4>1
        <5>2. Splice(Cat(SubSeq(s, 1, i + c), W), e) = Cat(SubSeq(s, 1, i), Cat(e.new, W))
          BY <2>6, <5>1, SpliceIs
        <5> QED
          BY <1>3, <2>2, <5>2
      <4>3. h[k] = v
        BY <2>3, <3>2, <4>1, CatEmpty
      <4> QED
        BY <2>1, <2>4, <2>6, <3>1, <4>1, <4>2, <4>3
    <3>4. CASE ~NoneFrom(edits, k + 1, i)
      <4>1. q1 = Cat(u, Cat(h1, W))
        BY <1>12, <2>2, <3>4
      <4>2. e.count = 0
        <5>1. PICK j \in k + 1..m : edits[j].at = i
          BY <1>1, <3>4 DEF NoneFrom
        <5>2. k \in 1..m /\ j \in 1..m /\ k < j
          OBVIOUS
        <5> QED
          BY <1>1, <2>2, <2>6, <5>1, <5>2 DEF AreApart
      <4>3. PICK V : V = Cat(h1, W)
        OBVIOUS
      <4>4. IsSeq(V)
        BY <2>3, <4>3, CatIs
      <4>5. 0 \in Nat /\ i + 0 <= Len(s) /\ i + 0 = i
        <5>1. Len(s) \in Nat
          BY DEF IsSeq
        <5> QED
          BY <5>1
      <4>6. Splice(Cat(SubSeq(s, 1, i + 0), V), e) = Cat(SubSeq(s, 1, i), Cat(v, V))
        <5>1. IsSeq(e.new)
          BY <2>2, <2>3
        <5>2. Splice(Cat(SubSeq(s, 1, i + 0), V), e) = Cat(SubSeq(s, 1, i), Cat(e.new, V))
          BY <2>6, <4>2, <4>4, <4>5, <5>1, SpliceIs
        <5> QED
          BY <2>2, <5>2
      <4>7. Splice(q1, e) = Cat(u, Cat(v, V))
        BY <1>3, <4>1, <4>3, <4>5, <4>6
      <4>8. Cat(v, V) = Cat(h[k], W)
        BY <2>3, <3>2, <4>3, CatAssoc
      <4> QED
        BY <2>1, <2>4, <2>6, <3>1, <4>7, <4>8
    <3> QED
      BY <3>3, <3>4
  <2> QED
    BY <2>5, <2>6
<1> HIDE DEF T
<1>13. 0 \in T
  BY <1>11, <1>12, DownTo
<1>14. IF NoneFrom(edits, 1, i) THEN q[1] = t /\ h[1] = <<>> ELSE q[1] = Cat(u, Cat(h[1], W))
  BY <1>13 DEF T
<1>15. h[1] = NewAt(edits, i)
  BY <1>5, <1>9 DEF NewAt
<1>16. CASE NoneFrom(edits, 1, i)
  <2>1. c = 0 /\ i + c = i
    BY <1>16 DEF LastTakes
  <2>2. Cat(h[1], W) = W
    BY <1>14, <1>16, CatEmpty
  <2> QED
    BY <1>3, <1>4, <1>14, <1>15, <1>16, <2>1, <2>2
<1> QED
  BY <1>3, <1>4, <1>14, <1>15, <1>16

\* An element that an edit takes away.
Covered(edits, i) ==
  \E k \in DOMAIN edits : edits[k].at <= i /\ i < edits[k].at + edits[k].count

\* What stands for the element after a position, and what is put in front of it.
KeptOf(s, edits, n) ==
  IF n > Len(s) \/ Covered(edits, n - 1) THEN <<>> ELSE <<s[n]>>
PieceOf(s, edits, n) == Cat(NewAt(edits, n - 1), KeptOf(s, edits, n))
Pieces(s, edits) == [n \in 1..Len(s) + 1 |-> PieceOf(s, edits, n)]

\* They are sequences.
LEMMA PiecesAre ==
  ASSUME NEW s, IsSeq(s), NEW edits, AreEdits(edits, Len(s))
  PROVE  /\ IsSeqSeq(Pieces(s, edits)) /\ Len(Pieces(s, edits)) = Len(s) + 1
         /\ \A n \in 1..Len(s) + 1 : /\ Pieces(s, edits)[n] = PieceOf(s, edits, n)
                                     /\ IsSeq(NewAt(edits, n - 1))
                                     /\ IsSeq(KeptOf(s, edits, n))
<1>1. PICK m \in Nat : m = Len(s) + 1
  BY DEF IsSeq
<1>2. PICK f : f = Pieces(s, edits)
  OBVIOUS
<1>3. f = [n \in 1..m |-> PieceOf(s, edits, n)]
  BY <1>1, <1>2 DEF Pieces
<1>4. ASSUME NEW n \in 1..m
      PROVE  IsSeq(NewAt(edits, n - 1)) /\ IsSeq(KeptOf(s, edits, n)) /\ IsSeq(f[n])
  <2>1. IsSeq(NewAt(edits, n - 1))
    BY NewAtIs
  <2>2. IsSeq(KeptOf(s, edits, n))
    BY EmptyIsSeq, SingleIs DEF KeptOf
  <2>3. IsSeq(PieceOf(s, edits, n))
    BY <2>1, <2>2, CatIs DEF PieceOf
  <2> QED
    BY <1>3, <2>1, <2>2, <2>3
<1>5. f = [n \in 1..m |-> f[n]]
  BY <1>3
<1>6. IsSeq(f) /\ Len(f) = m
  BY <1>5, MadeSeq
<1> QED
  BY <1>1, <1>2, <1>3, <1>4, <1>6 DEF IsSeqSeq

\* No edit takes the elements around a position away.
IsFree(edits, e) ==
  ~\E k \in 1..Len(edits) : edits[k].at < e /\ e < edits[k].at + edits[k].count

\* No edit from one position to before another.
IsClear(edits, a, b) == ~\E k \in 1..Len(edits) : a <= edits[k].at /\ edits[k].at < b

\* Every element between the positions is taken away.
IsTaken(edits, a, b) == \A j \in a..b - 1 : Covered(edits, j)

\* How many elements the last edit at a position takes away.
LEMMA TakesSome ==
  ASSUME NEW length \in Nat, NEW edits, AreEdits(edits, length), NEW i \in 0..length
  PROVE  \E c \in Nat : /\ i + c <= length /\ LastTakes(edits, i, c)
                        /\ c # 0 => \E k \in 1..Len(edits) :
                                      edits[k].at = i /\ edits[k].count = c
<1>1. PICK m \in Nat : m = Len(edits)
  BY DEF AreEdits, IsSeq
<1>2. CASE NoneFrom(edits, 1, i)
  <2>1. LastTakes(edits, i, 0)
    BY <1>1, <1>2 DEF LastTakes, NoneFrom
  <2> QED
    BY <2>1
<1>3. CASE ~NoneFrom(edits, 1, i)
  <2>1. PICK T : T = {k \in 1..m : edits[k].at = i}
    OBVIOUS
  <2>2. T \in SUBSET (1..m) /\ T # {}
    BY <1>1, <1>3, <2>1 DEF NoneFrom
  <2>3. PICK k : k = Greatest(T)
    OBVIOUS
  <2>4. k \in T /\ \A j \in T : k >= j
    BY <2>2, <2>3, TakenIs
  <2>5. k \in 1..m /\ edits[k].at = i /\ IsEdit(edits[k], length)
    BY <1>1, <2>1, <2>4 DEF AreEdits
  <2>6. PICK c : c = edits[k].count
    OBVIOUS
  <2>7. c \in Nat /\ i + c <= length
    BY <2>5, <2>6 DEF IsEdit
  <2>8. LastTakes(edits, i, c)
    <3>1. ASSUME NEW j \in 1..m, edits[j].at = i, NoneFrom(edits, j + 1, i)
          PROVE  edits[j].count = c
      <4>1. j \in T /\ ~(k \in j + 1..m)
        BY <1>1, <2>1, <2>5, <3>1 DEF NoneFrom
      <4>2. j = k
        BY <2>4, <2>5, <4>1
      <4> QED
        BY <2>6, <4>2
    <3> QED
      BY <1>1, <1>3, <3>1 DEF LastTakes
  <2> QED
    BY <1>1, <2>5, <2>6, <2>7, <2>8
<1> QED
  BY <1>2, <1>3

\* What stands around the ranges of the edits at a position.
LEMMA AroundIs ==
  ASSUME NEW length \in Nat, NEW edits, AreEdits(edits, length), AreApart(edits),
         NEW i \in 0..length, IsFree(edits, i), NEW c \in Nat, LastTakes(edits, i, c),
         c # 0 => \E k \in 1..Len(edits) : edits[k].at = i /\ edits[k].count = c
  PROVE  /\ c = 0 => ~Covered(edits, i) /\ IsFree(edits, i + 1)
         /\ c # 0 => /\ IsFree(edits, i + c) /\ IsClear(edits, i + 1, i + c)
                     /\ IsTaken(edits, i, i + c)
<1>1. PICK m \in Nat : m = Len(edits)
  BY DEF AreEdits, IsSeq
<1>2. DOMAIN edits = 1..m
  BY <1>1, SeqIs DEF AreEdits
<1>3. \A k \in 1..m : edits[k].at \in Nat /\ edits[k].count \in Nat
  BY <1>1 DEF AreEdits, IsEdit
<1>4. ASSUME NEW k \in 1..m, edits[k].at = i
      PROVE  edits[k].count = 0 \/ edits[k].count = c
  <2>1. CASE NoneFrom(edits, k + 1, i)
    BY <1>1, <1>4, <2>1 DEF LastTakes
  <2>2. CASE ~NoneFrom(edits, k + 1, i)
    <3>1. PICK j \in k + 1..m : edits[j].at = i
      BY <1>1, <2>2 DEF NoneFrom
    <3>2. j \in 1..m /\ k < j
      OBVIOUS
    <3> QED
      BY <1>1, <1>4, <3>1, <3>2 DEF AreApart
  <2> QED
    BY <2>1, <2>2
<1>5. ASSUME NEW k \in 1..m, edits[k].at < i
      PROVE  edits[k].at + edits[k].count <= i
  BY <1>1, <1>3, <1>5 DEF IsFree
<1>6. ASSUME c = 0
      PROVE  ~Covered(edits, i) /\ IsFree(edits, i + 1)
  <2>1. ASSUME NEW k \in 1..m, edits[k].at <= i
        PROVE  edits[k].at + edits[k].count <= i
    <3>1. CASE edits[k].at = i
      BY <1>3, <1>4, <1>6, <3>1
    <3>2. CASE edits[k].at # i
      BY <1>3, <1>5, <2>1, <3>2
    <3> QED
      BY <3>1, <3>2
  <2>2. ~Covered(edits, i)
    BY <1>2, <1>3, <2>1 DEF Covered
  <2>3. IsFree(edits, i + 1)
    BY <1>1, <1>3, <2>1 DEF IsFree
  <2> QED
    BY <2>2, <2>3
<1>7. ASSUME c # 0
      PROVE  /\ IsFree(edits, i + c) /\ IsClear(edits, i + 1, i + c)
             /\ IsTaken(edits, i, i + c)
  <2>1. PICK l \in 1..m : edits[l].at = i /\ edits[l].count = c
    BY <1>1, <1>7
  <2>2. ASSUME NEW k \in 1..m, i < edits[k].at
        PROVE  i + c <= edits[k].at
    BY <1>1, <2>1, <2>2 DEF AreApart
  <2>3. ASSUME NEW k \in 1..m, edits[k].at < i + c
        PROVE  edits[k].at + edits[k].count <= i + c
    <3>1. CASE edits[k].at = i
      BY <1>3, <1>4, <3>1
    <3>2. CASE edits[k].at < i
      BY <1>3, <1>5, <3>2
    <3>3. CASE i < edits[k].at
      BY <1>3, <2>2, <2>3, <3>3
    <3> QED
      BY <1>3, <3>1, <3>2, <3>3
  <2>4. IsFree(edits, i + c)
    <3>1. ASSUME NEW k \in 1..m, edits[k].at < i + c
          PROVE  ~(i + c < edits[k].at + edits[k].count)
      <4>1. edits[k].at + edits[k].count <= i + c
        BY <2>3, <3>1
      <4> QED
        BY <1>3, <4>1
    <3> QED
      BY <1>1, <3>1 DEF IsFree
  <2>5. IsClear(edits, i + 1, i + c)
    BY <1>1, <1>3, <2>2 DEF IsClear
  <2>6. IsTaken(edits, i, i + c)
    BY <1>2, <2>1 DEF Covered, IsTaken
  <2> QED
    BY <2>4, <2>5, <2>6
<1> QED
  BY <1>6, <1>7

\* Behind an element that is taken away comes what comes behind the range.
LEMMA SkippedIs ==
  ASSUME NEW s, IsSeq(s), NEW edits, AreEdits(edits, Len(s)), NEW i \in Nat,
         NEW e \in Nat, i < e, e <= Len(s), IsClear(edits, i + 1, e), IsTaken(edits, i, e),
         NEW h, IsRun(Pieces(s, edits), Len(s) + 1, h), IsSeq(h[e + 1])
  PROVE  h[i + 1] = Cat(NewAt(edits, i), h[e + 1])
<1> SUFFICES ASSUME NEW c \in Nat \ {0}, e = i + c
             PROVE  h[i + 1] = Cat(NewAt(edits, i), h[e + 1])
  <2>1. PICK c : c = e - i
    OBVIOUS
  <2>2. c \in Nat \ {0} /\ e = i + c
    BY <2>1
  <2> QED
    BY <2>2
<1>1. PICK L \in Nat : L = Len(s)
  BY DEF IsSeq
<1>2. \A n \in 1..L + 1 : /\ h[n] = Cat(PieceOf(s, edits, n), h[n + 1])
                          /\ IsSeq(NewAt(edits, n - 1))
  BY <1>1, PiecesAre DEF IsRun
<1>3. ASSUME NEW n \in i + 2..i + c, IsSeq(h[n + 1])
      PROVE  h[n] = h[n + 1]
  <2>1. n \in 1..L + 1 /\ n - 1 \in i + 1..i + c - 1 /\ n - 1 \in i..i + c - 1
    BY <1>1
  <2>2. KeptOf(s, edits, n) = <<>>
    BY <2>1 DEF KeptOf, IsTaken
  <2>3. NoneFrom(edits, 1, n - 1)
    BY <2>1 DEF NoneFrom, IsClear
  <2>4. NewAt(edits, n - 1) = <<>>
    BY <2>3, NoneThere
  <2>5. PieceOf(s, edits, n) = <<>>
    BY <2>2, <2>4, EmptyIsSeq, CatEmpty DEF PieceOf
  <2> QED
    BY <1>2, <1>3, <2>1, <2>5, CatEmpty
<1> DEFINE T == {d \in 0..c - 1 : h[i + 2 + d] = h[i + c + 1]}
<1>4. c - 1 \in T
  OBVIOUS
<1>5. ASSUME NEW d \in 1..c - 1, d \in T
      PROVE  d - 1 \in T
  <2>1. PICK n : n = i + 1 + d
    OBVIOUS
  <2>2. n \in i + 2..i + c /\ n + 1 = i + 2 + d /\ n = i + 2 + (d - 1) /\ d - 1 \in 0..c - 1
    BY <2>1
  <2>3. h[n + 1] = h[i + c + 1]
    BY <1>5, <2>2
  <2>4. h[n] = h[n + 1]
    BY <1>3, <2>2, <2>3
  <2> QED
    BY <2>2, <2>3, <2>4
<1> HIDE DEF T
<1>6. 0 \in T
  <2>1. c - 1 \in Nat /\ 0 \in 0..c - 1
    OBVIOUS
  <2> QED
    BY <1>4, <1>5, <2>1, DownTo
<1>7. h[i + 2] = h[i + c + 1]
  BY <1>6 DEF T
<1>8. PICK n : n = i + 1
  OBVIOUS
<1>9. n \in 1..L + 1 /\ n - 1 = i /\ n + 1 = i + 2 /\ i \in i..i + c - 1
  BY <1>1, <1>8
<1>10. KeptOf(s, edits, n) = <<>>
  BY <1>9 DEF KeptOf, IsTaken
<1>11. PieceOf(s, edits, n) = NewAt(edits, i)
  <2>1. IsSeq(NewAt(edits, i))
    BY <1>2, <1>9
  <2> QED
    BY <1>9, <1>10, <2>1, CatEmpty DEF PieceOf
<1> QED
  BY <1>2, <1>7, <1>8, <1>9, <1>11

\* What the edits from a position on leave: what comes before, as it was, and
\* the pieces from there on; n counts from 1, and e is where the ranges allow
\* a cut.
EditsLeave(s, edits, r, h, n) ==
  \A e \in n - 1..Len(s) :
    IsFree(edits, e) /\ IsClear(edits, n - 1, e) => r[n] = Cat(SubSeq(s, 1, e), h[e + 1])

\* One position more, from the back.
LEMMA LeftMore ==
  ASSUME NEW s, IsSeq(s), NEW edits, AreEdits(edits, Len(s)), AreApart(edits),
         NEW h, IsRun(Pieces(s, edits), Len(s) + 1, h),
         NEW r, r[Len(s) + 2] = s,
         \A n \in 1..Len(s) + 1 : r[n] = SpliceAt(n - 1, r[n + 1], edits),
         NEW n \in 1..Len(s) + 1, EditsLeave(s, edits, r, h, n + 1)
  PROVE  EditsLeave(s, edits, r, h, n)
<1>1. PICK L \in Nat : L = Len(s)
  BY DEF IsSeq
<1>2. \A k \in 1..L + 2 : IsSeq(h[k])
  <2>1. IsSeqSeq(Pieces(s, edits)) /\ Len(Pieces(s, edits)) = L + 1
    BY <1>1, PiecesAre
  <2>2. PICK k : k = L + 1
    OBVIOUS
  <2>3. \A j \in 1..k + 1 : IsSeq(h[j])
    BY <1>1, <2>1, <2>2, FlattenIsRun
  <2> QED
    BY <1>1, <2>2, <2>3
<1>3. h[L + 2] = <<>>
  BY <1>1 DEF IsRun
<1>4. PICK i : i = n - 1
  OBVIOUS
<1>5. i \in 0..L /\ i \in Nat /\ n = i + 1 /\ n + 1 = i + 2
  BY <1>1, <1>4
<1>6. r[n] = SpliceAt(i, r[n + 1], edits)
  BY <1>1, <1>4
<1> SUFFICES ASSUME NEW e \in i..L, IsFree(edits, e), IsClear(edits, i, e)
             PROVE  r[n] = Cat(SubSeq(s, 1, e), h[e + 1])
  BY <1>1, <1>4 DEF EditsLeave
<1>7. CASE e # i
  <2>1. NoneFrom(edits, 1, i) /\ IsClear(edits, i + 1, e)
    <3>1. \A k \in 1..Len(edits) : edits[k].at \in Nat
      BY DEF AreEdits, IsEdit
    <3>2. i < e /\ e \in Nat
      BY <1>5, <1>7
    <3>3. \A k \in 1..Len(edits) : ~(i <= edits[k].at /\ edits[k].at < e)
      BY DEF IsClear
    <3>4. \A k \in 1..Len(edits) : edits[k].at # i /\ ~(i + 1 <= edits[k].at /\ edits[k].at < e)
      BY <1>5, <3>1, <3>2, <3>3
    <3>5. NoneFrom(edits, 1, i) /\ IsClear(edits, i + 1, e)
      BY <3>4 DEF NoneFrom, IsClear
    <3> QED
      BY <3>5
  <2>2. r[n] = r[n + 1]
    BY <1>6, <2>1, NoneThere
  <2>3. e \in n + 1 - 1..L /\ n + 1 - 1 = i + 1
    BY <1>5, <1>7
  <2> QED
    BY <1>1, <2>1, <2>2, <2>3 DEF EditsLeave
<1>8. CASE e = i
  <2>1. IsFree(edits, i)
    BY <1>8
  <2>2. PICK c \in Nat : /\ i + c <= L /\ LastTakes(edits, i, c)
                         /\ c # 0 => \E k \in 1..Len(edits) :
                                       edits[k].at = i /\ edits[k].count = c
    <3>1. AreEdits(edits, L) /\ i \in 0..L
      BY <1>1, <1>5
    <3> QED
      BY <3>1, TakesSome
  <2>3. /\ c = 0 => ~Covered(edits, i) /\ IsFree(edits, i + 1)
        /\ c # 0 => /\ IsFree(edits, i + c) /\ IsClear(edits, i + 1, i + c)
                    /\ IsTaken(edits, i, i + c)
    BY <1>1, <1>5, <2>1, <2>2, AroundIs
  <2>4. ASSUME NEW W, IsSeq(W), r[n + 1] = Cat(SubSeq(s, 1, i + c), W),
               h[n] = Cat(NewAt(edits, i), W)
        PROVE  r[n] = Cat(SubSeq(s, 1, e), h[e + 1])
    <3>1. SpliceAt(i, Cat(SubSeq(s, 1, i + c), W), edits)
            = Cat(SubSeq(s, 1, i), Cat(NewAt(edits, i), W))
      BY <1>1, <1>5, <2>2, <2>4, PositionIs
    <3> QED
      BY <1>5, <1>6, <1>8, <2>4, <3>1
  <2>5. CASE c # 0
    <3>1. /\ IsFree(edits, i + c) /\ IsClear(edits, i + 1, i + c)
          /\ IsTaken(edits, i, i + c)
      BY <2>3, <2>5
    <3>2. i + c \in n + 1 - 1..L /\ n + 1 - 1 = i + 1 /\ i + c + 1 \in 1..L + 2
      BY <1>5, <2>2, <2>5
    <3>3. r[n + 1] = Cat(SubSeq(s, 1, i + c), h[i + c + 1])
      BY <1>1, <3>1, <3>2 DEF EditsLeave
    <3>4. IsSeq(h[i + c + 1])
      BY <1>2, <3>2
    <3>5. h[i + 1] = Cat(NewAt(edits, i), h[i + c + 1])
      <4>1. c \in Nat \ {0} /\ i + c <= Len(s)
        BY <1>1, <2>2, <2>5
      <4>2. PICK d : d = i + c
        OBVIOUS
      <4>3. d \in Nat /\ i < d /\ d <= Len(s) /\ i \in Nat
        BY <1>5, <4>1, <4>2
      <4>4. IsClear(edits, i + 1, d) /\ IsTaken(edits, i, d) /\ IsSeq(h[d + 1])
        BY <3>1, <3>4, <4>2
      <4>5. h[i + 1] = Cat(NewAt(edits, i), h[d + 1])
        BY <4>3, <4>4, SkippedIs
      <4> QED
        BY <4>2, <4>5
    <3> QED
      BY <1>5, <2>4, <3>3, <3>4, <3>5
  <2>6. CASE c = 0
    <3>1. ~Covered(edits, i) /\ IsFree(edits, n) /\ i + c = i
      BY <1>5, <2>3, <2>6
    <3>2. PICK kept : kept = KeptOf(s, edits, n)
      OBVIOUS
    <3>3. PICK W : W = Cat(kept, h[n + 1])
      OBVIOUS
    <3>4. IsSeq(kept) /\ IsSeq(h[n + 1]) /\ IsSeq(NewAt(edits, i))
      BY <1>1, <1>2, <1>4, <1>5, <3>2, PiecesAre
    <3>5. IsSeq(W)
      BY <3>3, <3>4, CatIs
    <3>6. h[n] = Cat(NewAt(edits, i), W)
      <4>1. h[n] = Cat(Cat(NewAt(edits, i), kept), h[n + 1])
        BY <1>1, <1>4, <3>2, PiecesAre DEF IsRun, PieceOf
      <4> QED
        BY <3>3, <3>4, <4>1, CatAssoc
    <3>7. r[n + 1] = Cat(SubSeq(s, 1, i), W)
      <4>1. CASE n = L + 1
        <5>1. kept = <<>> /\ h[n + 1] = <<>>
          BY <1>1, <1>3, <3>2, <4>1 DEF KeptOf
        <5>2. W = <<>>
          BY <3>3, <5>1, EmptyIsSeq, CatEmpty
        <5>3. SubSeq(s, 1, i) = s
          <6>1. PICK p : p = SubSeq(s, 1, i)
            OBVIOUS
          <6>2. i = L /\ 1 \in Nat \ {0} /\ i <= Len(s)
            BY <1>1, <1>4, <4>1
          <6>3. /\ IsSeq(p) /\ Len(p) = IF 1 <= i THEN i - 1 + 1 ELSE 0
                /\ \A k \in 1..i - 1 + 1 : p[k] = s[1 + k - 1]
            BY <1>5, <6>1, <6>2, StretchIs
          <6>4. Len(p) = Len(s) /\ \A k \in 1..Len(p) : p[k] = s[k]
            BY <1>1, <6>2, <6>3
          <6> QED
            BY <6>1, <6>3, <6>4, SameSeq
        <5>4. r[n + 1] = s
          BY <1>1, <4>1
        <5> QED
          BY <5>2, <5>3, <5>4, CatEmpty
      <4>2. CASE n # L + 1
        <5>1. n \in n + 1 - 1..L /\ n + 1 - 1 = n /\ n \in 1..L
          BY <1>1, <1>5, <4>2
        <5>2. IsClear(edits, n + 1 - 1, n)
          BY <1>1, <5>1 DEF IsClear, AreEdits, IsEdit
        <5>3. r[n + 1] = Cat(SubSeq(s, 1, n), h[n + 1])
          BY <1>1, <3>1, <5>1, <5>2 DEF EditsLeave
        <5>4. kept = <<s[n]>>
          BY <1>1, <1>4, <3>1, <3>2, <5>1 DEF KeptOf
        <5>5. PICK p, q : p = SubSeq(s, 1, i) /\ q = SubSeq(s, 1, n)
          OBVIOUS
        <5>6. IsSeq(p) /\ Len(p) = i /\ \A k \in 1..i : p[k] = s[k]
          <6>1. 1 \in Nat \ {0} /\ i <= Len(s)
            BY <1>1, <1>5
          <6>2. /\ IsSeq(p) /\ Len(p) = IF 1 <= i THEN i - 1 + 1 ELSE 0
                /\ \A k \in 1..i - 1 + 1 : p[k] = s[1 + k - 1]
            BY <1>5, <5>5, <6>1, StretchIs
          <6> QED
            BY <1>5, <6>2
        <5>7. IsSeq(q) /\ Len(q) = n /\ \A k \in 1..n : q[k] = s[k]
          <6>1. 1 \in Nat \ {0} /\ n <= Len(s) /\ n \in Nat
            BY <1>1, <5>1
          <6>2. /\ IsSeq(q) /\ Len(q) = IF 1 <= n THEN n - 1 + 1 ELSE 0
                /\ \A k \in 1..n - 1 + 1 : q[k] = s[1 + k - 1]
            BY <5>5, <6>1, StretchIs
          <6> QED
            BY <5>1, <6>2
        <5>8. Append(p, s[n]) = Cat(p, <<s[n]>>)
          BY <5>6, AppendConcat DEF Cat
        <5>9. /\ IsSeq(Append(p, s[n])) /\ Len(Append(p, s[n])) = i + 1
              /\ \A k \in 1..i : Append(p, s[n])[k] = p[k]
              /\ Append(p, s[n])[i + 1] = s[n]
          BY <5>6, AppendIs
        <5>10. \A k \in 1..n : Append(p, s[n])[k] = q[k]
          <6>1. \A k \in 1..n : k \in 1..i \/ k = n
            BY <1>5
          <6> QED
            BY <1>5, <5>6, <5>7, <5>9, <6>1
        <5>11. Append(p, s[n]) = q
          <6>1. Len(Append(p, s[n])) = n
            BY <1>5, <5>9
          <6> QED
            BY <5>7, <5>9, <5>10, <6>1, SameSeq
        <5>12. r[n + 1] = Cat(Cat(p, kept), h[n + 1])
          BY <5>3, <5>4, <5>5, <5>8, <5>11
        <5> QED
          BY <3>3, <3>4, <5>5, <5>6, <5>12, CatAssoc
      <4> QED
        BY <4>1, <4>2
    <3> QED
      BY <2>4, <3>1, <3>5, <3>6, <3>7
  <2> QED
    BY <2>5, <2>6
<1> QED
  BY <1>7, <1>8

\* Ranges that are apart are replaced as if at once.
LEMMA SplicedAll ==
  ASSUME NEW s, IsSeq(s), NEW edits, AreEdits(edits, Len(s)), AreApart(edits)
  PROVE  SpliceAll(s, edits) = FlattenSeq(Pieces(s, edits))
<1>1. PICK L \in Nat : L = Len(s)
  BY DEF IsSeq
<1>2. PICK last : last = L + 1
  OBVIOUS
<1>3. last \in Nat /\ last = Len(s) + 1
  BY <1>1, <1>2
<1>4. PICK h : IsRun(Pieces(s, edits), last, h)
  BY <1>3, CatFolds
<1>5. PICK r : IsSpliced(s, edits, last, r)
  BY <1>3, PositionsFold
<1>6. /\ r[last + 1] = s /\ r[1] = SpliceAll(s, edits)
      /\ \A n \in 1..last : r[n] = SpliceAt(n - 1, r[n + 1], edits)
  BY <1>5 DEF IsSpliced
<1> DEFINE T == {n \in 0..last : EditsLeave(s, edits, r, h, n + 1)}
<1>7. last \in T
  <2>1. PICK n : n = last + 1
    OBVIOUS
  <2>2. \A e \in n - 1..Len(s) : FALSE
    BY <1>1, <1>2, <2>1
  <2>3. EditsLeave(s, edits, r, h, n)
    BY <2>2 DEF EditsLeave
  <2> QED
    BY <1>3, <2>1, <2>3
<1>8. ASSUME NEW n \in 1..last, n \in T
      PROVE  n - 1 \in T
  <2>1. EditsLeave(s, edits, r, h, n + 1)
    BY <1>8
  <2>2. /\ IsRun(Pieces(s, edits), Len(s) + 1, h) /\ r[Len(s) + 2] = s
        /\ \A k \in 1..Len(s) + 1 : r[k] = SpliceAt(k - 1, r[k + 1], edits)
        /\ n \in 1..Len(s) + 1
    BY <1>1, <1>2, <1>3, <1>4, <1>6
  <2>3. EditsLeave(s, edits, r, h, n)
    BY <2>1, <2>2, LeftMore
  <2>4. n - 1 \in 0..last /\ n - 1 + 1 = n
    BY <1>3
  <2> QED
    BY <2>3, <2>4
<1> HIDE DEF T
<1>9. 0 \in T
  BY <1>3, <1>7, <1>8, DownTo
<1>10. EditsLeave(s, edits, r, h, 1)
  BY <1>9 DEF T
<1>11. IsFree(edits, 0) /\ IsClear(edits, 0, 0)
  BY DEF IsFree, IsClear, AreEdits, IsEdit
<1>12. r[1] = Cat(SubSeq(s, 1, 0), h[1])
  <2>1. 0 \in 1 - 1..Len(s) /\ 1 - 1 = 0 /\ 0 + 1 = 1
    BY <1>1
  <2> QED
    BY <1>10, <1>11, <2>1 DEF EditsLeave
<1>13. SubSeq(s, 1, 0) = <<>>
  <2>1. 0 \in Nat /\ 1 \in Nat \ {0} /\ 0 <= Len(s)
    BY <1>1
  <2>2. IsSeq(SubSeq(s, 1, 0)) /\ Len(SubSeq(s, 1, 0)) = IF 1 <= 0 THEN 0 - 1 + 1 ELSE 0
    BY <2>1, StretchIs
  <2> QED
    BY <2>2, NoneIsEmpty
<1>14. IsSeqSeq(Pieces(s, edits)) /\ last = Len(Pieces(s, edits))
  BY <1>3, PiecesAre
<1>15. FlattenSeq(Pieces(s, edits)) = h[1] /\ \A k \in 1..last + 1 : IsSeq(h[k])
  BY <1>4, <1>14, FlattenIsRun
<1>16. IsSeq(h[1])
  BY <1>3, <1>15
<1> QED
  BY <1>6, <1>12, <1>13, <1>15, <1>16, CatEmpty

-----------------------------------------------------------------------------
(* What the references name, as what edits leave. *)

\* The parts of the result that Assembled names.
ChunkNew(chunks, short, k) == IF short[k] THEN DropBlank(chunks[k].new) ELSE chunks[k].new
ChunkCount(chunks, short, k) == Len(chunks[k].old) - (IF short[k] THEN 1 ELSE 0)
ChunkHere(chunks, at, short, i) ==
  FlattenSeq([k \in DOMAIN chunks |-> IF at[k] = i THEN ChunkNew(chunks, short, k) ELSE <<>>])
ChunkCovered(chunks, at, short, i) ==
  \E k \in DOMAIN chunks : at[k] <= i /\ i < at[k] + ChunkCount(chunks, short, k)
ChunkPiece(lines, chunks, at, short, n) ==
  ChunkHere(chunks, at, short, n - 1)
    \o (IF n > Len(lines) \/ ChunkCovered(chunks, at, short, n - 1) THEN <<>> ELSE <<lines[n]>>)

\* The edits are the chunks, at their places.
Realizes(edits, chunks, at, short) ==
  /\ DOMAIN edits = DOMAIN chunks
  /\ \A k \in DOMAIN chunks :
       /\ edits[k].at = at[k] /\ edits[k].count = ChunkCount(chunks, short, k)
       /\ edits[k].new = ChunkNew(chunks, short, k)

\* What is assembled is what the edits make of the lines.
LEMMA AssembledIs ==
  ASSUME NEW lines, NEW edits, NEW chunks, NEW at, NEW short,
         Realizes(edits, chunks, at, short)
  PROVE  Assembled(lines, chunks, at, short) = FlattenSeq(Pieces(lines, edits))
<1>1. PICK m : m = Len(lines) + 1
  OBVIOUS
<1>2. PICK p, q : /\ p = [n \in 1..m |-> ChunkPiece(lines, chunks, at, short, n)]
                  /\ q = [n \in 1..m |-> PieceOf(lines, edits, n)]
  OBVIOUS
<1>3. Assembled(lines, chunks, at, short) = FlattenSeq(p)
  BY <1>1, <1>2, Zenon
     DEF Assembled, ChunkPiece, ChunkHere, ChunkCovered, ChunkCount, ChunkNew
<1>4. Pieces(lines, edits) = q
  BY <1>1, <1>2, Zenon DEF Pieces
<1>5. ASSUME NEW n \in 1..m
      PROVE  ChunkPiece(lines, chunks, at, short, n) = PieceOf(lines, edits, n)
  <2>1. PICK i : i = n - 1
    OBVIOUS
  <2>2. ChunkHere(chunks, at, short, i) = NewAt(edits, i)
    <3>1. PICK f : f = [k \in DOMAIN chunks |->
                          IF at[k] = i THEN ChunkNew(chunks, short, k) ELSE <<>>]
      OBVIOUS
    <3>2. PICK g : g = [k \in DOMAIN edits |-> IF edits[k].at = i THEN edits[k].new ELSE <<>>]
      OBVIOUS
    <3>3. f = g
      BY <3>1, <3>2 DEF Realizes
    <3>4. ChunkHere(chunks, at, short, i) = FlattenSeq(f)
      BY <3>1, Zenon DEF ChunkHere
    <3>5. NewAt(edits, i) = FlattenSeq(g)
      BY <3>2, Zenon DEF NewAt, NewEach
    <3> QED
      BY <3>3, <3>4, <3>5
  <2>3. ChunkCovered(chunks, at, short, i) <=> Covered(edits, i)
    BY DEF ChunkCovered, Covered, Realizes
  <2>4. ChunkPiece(lines, chunks, at, short, n)
          = Cat(ChunkHere(chunks, at, short, i),
                IF n > Len(lines) \/ ChunkCovered(chunks, at, short, i) THEN <<>>
                ELSE <<lines[n]>>)
    BY <2>1, Zenon DEF ChunkPiece, Cat
  <2>5. KeptOf(lines, edits, n)
          = IF n > Len(lines) \/ ChunkCovered(chunks, at, short, i) THEN <<>> ELSE <<lines[n]>>
    BY <2>1, <2>3 DEF KeptOf
  <2> QED
    BY <2>1, <2>2, <2>4, <2>5, Zenon DEF PieceOf
<1>6. p = q
  BY <1>2, <1>5
<1> QED
  BY <1>3, <1>4, <1>6

\* The parts of the result that IsReplacementResult names, where the edits are
\* the changes at their places.
ChangeKept(changes, at, i) ==
  \A k \in DOMAIN changes : i < at[k] \/ at[k] + Len(Normalized(changes[k].old)) <= i
ChangeHere(changes, at, i) ==
  FlattenSeq([k \in DOMAIN changes |-> IF at[k] = i THEN Normalized(changes[k].new) ELSE <<>>])
ChangePiece(base, changes, at, n) ==
  ChangeHere(changes, at, n - 1)
    \o (IF n > Len(base) \/ ~ChangeKept(changes, at, n - 1) THEN <<>> ELSE <<base[n]>>)
Changed(base, changes, at) ==
  FlattenSeq([n \in 1..Len(base) + 1 |-> ChangePiece(base, changes, at, n)])

\* The edits are the changes, at their places.
Changes(edits, changes, at) ==
  /\ DOMAIN edits = DOMAIN changes
  /\ \A k \in DOMAIN changes :
       /\ at[k] \in Int /\ edits[k].at = at[k]
       /\ Len(Normalized(changes[k].old)) \in Nat
       /\ edits[k].count = Len(Normalized(changes[k].old))
       /\ edits[k].new = Normalized(changes[k].new)

\* What is changed is what the edits make of the text.
LEMMA ChangedIs ==
  ASSUME NEW base, IsSeq(base), NEW edits, NEW changes, NEW at, Changes(edits, changes, at)
  PROVE  Changed(base, changes, at) = FlattenSeq(Pieces(base, edits))
<1>1. PICK m \in Nat : m = Len(base) + 1
  BY DEF IsSeq
<1>2. PICK p, q : /\ p = [n \in 1..m |-> ChangePiece(base, changes, at, n)]
                  /\ q = [n \in 1..m |-> PieceOf(base, edits, n)]
  OBVIOUS
<1>3. Changed(base, changes, at) = FlattenSeq(p)
  BY <1>1, <1>2, Zenon DEF Changed
<1>4. Pieces(base, edits) = q
  BY <1>1, <1>2, Zenon DEF Pieces
<1>5. ASSUME NEW n \in 1..m
      PROVE  ChangePiece(base, changes, at, n) = PieceOf(base, edits, n)
  <2>1. PICK i : i = n - 1
    OBVIOUS
  <2>2. ChangeHere(changes, at, i) = NewAt(edits, i)
    <3>1. PICK f : f = [k \in DOMAIN changes |->
                          IF at[k] = i THEN Normalized(changes[k].new) ELSE <<>>]
      OBVIOUS
    <3>2. PICK g : g = [k \in DOMAIN edits |-> IF edits[k].at = i THEN edits[k].new ELSE <<>>]
      OBVIOUS
    <3>3. f = g
      BY <3>1, <3>2 DEF Changes
    <3>4. ChangeHere(changes, at, i) = FlattenSeq(f)
      BY <3>1, Zenon DEF ChangeHere
    <3>5. NewAt(edits, i) = FlattenSeq(g)
      BY <3>2, Zenon DEF NewAt, NewEach
    <3> QED
      BY <3>3, <3>4, <3>5
  <2>3. ~ChangeKept(changes, at, i) <=> Covered(edits, i)
    <3>1. i \in Int
      BY <2>1
    <3> QED
      BY <3>1 DEF ChangeKept, Covered, Changes
  <2>4. ChangePiece(base, changes, at, n)
          = Cat(ChangeHere(changes, at, i),
                IF n > Len(base) \/ ~ChangeKept(changes, at, i) THEN <<>> ELSE <<base[n]>>)
    BY <2>1, Zenon DEF ChangePiece, Cat
  <2>5. KeptOf(base, edits, n)
          = IF n > Len(base) \/ ~ChangeKept(changes, at, i) THEN <<>> ELSE <<base[n]>>
    BY <2>1, <2>3 DEF KeptOf
  <2> QED
    BY <2>1, <2>2, <2>4, <2>5, Zenon DEF PieceOf
<1>6. p = q
  BY <1>2, <1>5
<1> QED
  BY <1>3, <1>4, <1>6

-----------------------------------------------------------------------------
(* Where lines are found, and where the chunks of an update go (seek, Place). *)

\* A set of small numbers has a smallest.
LEMMA LeastIs ==
  ASSUME NEW n \in Nat, NEW S \in SUBSET (0..n), S # {}
  PROVE  Min(S) \in S /\ \A x \in S : Min(S) <= x
<1>1. PICK T : T = {x + 1 : x \in S}
  OBVIOUS
<1>2. T \in SUBSET (1..n + 1) /\ T # {} /\ n + 1 \in Nat
  <2>1. PICK x : x \in S
    OBVIOUS
  <2>2. x + 1 \in T
    BY <1>1, <2>1
  <2>3. \A y \in T : y \in 1..n + 1
    BY <1>1
  <2> QED
    BY <2>2, <2>3
<1>3. Smallest(T) \in T /\ \A y \in T : Smallest(T) <= y
  BY <1>2, TakenIs
<1>4. PICK m : m = Smallest(T) - 1
  OBVIOUS
<1>5. m \in S /\ \A x \in S : m <= x
  <2>1. \A x \in S : x + 1 \in T /\ x \in Nat
    BY <1>1
  <2>2. m \in S
    BY <1>1, <1>3, <1>4
  <2>3. ASSUME NEW x \in S
        PROVE  m <= x
    <3>1. x + 1 \in T /\ x \in Nat /\ m \in Nat
      BY <2>1, <2>2
    <3>2. Smallest(T) <= x + 1
      BY <1>3, <3>1
    <3>3. Smallest(T) \in Nat
      <4>1. \A y \in T : y \in Nat
        BY <1>1
      <4> QED
        BY <1>3, <4>1
    <3> QED
      BY <1>4, <3>1, <3>2, <3>3
  <2> QED
    BY <2>2, <2>3
<1> QED
  BY <1>5 DEF Min

\* What the passes compare.
LEMMA SeenIs ==
  ASSUME NEW line
  PROVE  /\ Seen(line, 0) = line /\ Seen(line, 1) = trim_end(line)
         /\ Seen(line, 2) = trim(line) /\ Seen(line, 3) = punctuation(trim(line))
<1>1. 0 # 1 /\ 0 # 2 /\ 0 # 3 /\ 1 # 2 /\ 1 # 3 /\ 2 # 3
  OBVIOUS
<1>2. Seen(line, 0) = line
  BY <1>1, Zenon DEF Seen
<1>3. Seen(line, 1) = trim_end(line)
  BY <1>1, Zenon DEF Seen
<1>4. Seen(line, 2) = trim(line)
  BY <1>1, Zenon DEF Seen
<1>5. Seen(line, 3) = punctuation(trim(line))
  BY <1>1, Zenon DEF Seen
<1> QED
  BY <1>2, <1>3, <1>4, <1>5

\* What fits in a strict pass fits in the last.
LEMMA FitsLast ==
  ASSUME NEW lines, NEW pattern, NEW at, NEW pass \in Passes, Fits(lines, pattern, at, pass)
  PROVE  Fits(lines, pattern, at, 3)
<1>1. ASSUME NEW a, NEW b, Seen(a, pass) = Seen(b, pass)
      PROVE  Seen(a, 3) = Seen(b, 3)
  <2>1. ASSUME trim_end(a) = trim_end(b)
        PROVE  trim(a) = trim(b)
    BY <2>1, Zenon DEF trim
  <2>2. pass = 0 \/ pass = 1 \/ pass = 2 \/ pass = 3
    BY DEF Passes
  <2>3. trim(a) = trim(b) => Seen(a, 3) = Seen(b, 3)
    BY SeenIs
  <2>4. CASE pass = 0
    BY <1>1, <2>4, SeenIs
  <2>5. CASE pass = 1
    BY <1>1, <2>1, <2>3, <2>5, SeenIs
  <2>6. CASE pass = 2
    BY <1>1, <2>3, <2>6, SeenIs
  <2>7. CASE pass = 3
    BY <1>1, <2>7
  <2> QED
    BY <2>2, <2>4, <2>5, <2>6, <2>7
<1>2. ASSUME NEW k \in DOMAIN pattern
      PROVE  Seen(lines[at + k], 3) = Seen(pattern[k], 3)
  BY <1>1, <1>2 DEF Fits
<1> QED
  BY <1>2 DEF Fits

\* The pattern is there, as the last pass sees it.
IsFound(lines, pattern, start, eof, at) ==
  /\ at \in Nat /\ at + Len(pattern) <= Len(lines)
  /\ IF eof THEN at + Len(pattern) = Len(lines) ELSE start <= at
  /\ Fits(lines, pattern, at, 3)

\* Where a pass finds it, and the passes that do.
PlacesOf(lines, pattern, start, eof, pass) ==
  {at \in (IF eof THEN Len(lines) - Len(pattern) ELSE start)..Len(lines) - Len(pattern) :
     Fits(lines, pattern, at, pass)}
FoundIn(lines, pattern, start, eof) ==
  {pass \in Passes : PlacesOf(lines, pattern, start, eof, pass) # {}}

\* What seek finds.
LEMMA SeekFinds ==
  ASSUME NEW lines, IsSeq(lines), NEW pattern, IsSeq(pattern), NEW start \in Nat, NEW eof
  PROVE  \/ seek(lines, pattern, start, eof) = NotFound
         \/ IsFound(lines, pattern, start, eof, seek(lines, pattern, start, eof))
<1>1. PICK L \in Nat, m \in Nat : L = Len(lines) /\ m = Len(pattern)
  BY DEF IsSeq
<1>2. PICK found : found = FoundIn(lines, pattern, start, eof)
  OBVIOUS
<1>3. PICK pass : pass = Min(found)
  OBVIOUS
<1>4. PICK places : places = PlacesOf(lines, pattern, start, eof, pass)
  OBVIOUS
<1>5. PICK r : r = seek(lines, pattern, start, eof)
  OBVIOUS
<1>6. r = IF L - m < 0 \/ found = {} THEN NotFound ELSE Min(places)
  BY <1>1, <1>2, <1>3, <1>4, <1>5, Zenon DEF seek, FoundIn, PlacesOf
<1>7. ASSUME ~(L - m < 0 \/ found = {})
      PROVE  IsFound(lines, pattern, start, eof, r)
  <2>1. found \in SUBSET (0..3) /\ found # {} /\ 3 \in Nat
    BY <1>2, <1>7 DEF FoundIn, Passes
  <2>2. pass \in found
    BY <1>3, <2>1, LeastIs
  <2>3. pass \in Passes /\ places # {}
    BY <1>2, <1>4, <2>2 DEF FoundIn
  <2>4. places \in SUBSET (0..L - m) /\ L - m \in Nat
    BY <1>1, <1>4, <1>7 DEF PlacesOf
  <2>5. r \in places
    BY <1>6, <1>7, <2>3, <2>4, LeastIs
  <2>6. Fits(lines, pattern, r, pass) /\ r \in (IF eof THEN L - m ELSE start)..L - m
    BY <1>1, <1>4, <2>5 DEF PlacesOf
  <2>7. Fits(lines, pattern, r, 3)
    BY <2>3, <2>6, FitsLast
  <2> QED
    BY <1>1, <1>7, <2>4, <2>5, <2>6, <2>7 DEF IsFound
<1> QED
  BY <1>5, <1>6, <1>7

\* All but the last.
LEMMA FrontIs ==
  ASSUME NEW s, IsSeq(s), s # <<>>
  PROVE  /\ Len(s) \in Nat \ {0} /\ IsSeq(Front(s)) /\ Len(Front(s)) = Len(s) - 1
         /\ \A k \in 1..Len(s) - 1 : Front(s)[k] = s[k]
<1>1. PICK n \in Nat : n = Len(s)
  BY DEF IsSeq
<1>2. n # 0
  BY <1>1, NoneIsEmpty
<1>3. PICK m, t : m = n - 1 /\ t = SubSeq(s, 1, m)
  OBVIOUS
<1>4. m \in Nat /\ m <= Len(s) /\ 1 \in Nat \ {0}
  BY <1>1, <1>2, <1>3
<1>5. /\ IsSeq(t) /\ Len(t) = IF 1 <= m THEN m - 1 + 1 ELSE 0
      /\ \A k \in 1..m - 1 + 1 : t[k] = s[1 + k - 1]
  BY <1>3, <1>4, StretchIs
<1>6. Front(s) = t
  BY <1>1, <1>3 DEF Front
<1>7. Len(t) = m /\ \A k \in 1..m : t[k] = s[k]
  BY <1>3, <1>4, <1>5
<1> QED
  BY <1>1, <1>2, <1>3, <1>5, <1>6, <1>7

\* All but a blank last line.
LEMMA DropBlankIs ==
  ASSUME NEW s, IsSeq(s)
  PROVE  IsSeq(DropBlank(s))
BY FrontIs DEF DropBlank

\* A chunk is made of sequences.
IsChunk(chunk) == IsSeq(chunk.anchor) /\ IsSeq(chunk.old) /\ IsSeq(chunk.new)

\* The lines a chunk expects and those that take their place.
OldOf(chunk, short) == IF short THEN Front(chunk.old) ELSE chunk.old
NewOf(chunk, short) == IF short THEN DropBlank(chunk.new) ELSE chunk.new

\* The edit is the chunk's, where its expected lines are.
Goes(lines, chunk, e, short) ==
  /\ e.at \in Nat /\ e.count = Len(OldOf(chunk, short)) /\ e.new = NewOf(chunk, short)
  /\ e.at + e.count <= Len(lines)
  /\ short => Last(chunk.old) = <<>>
  /\ Fits(lines, OldOf(chunk, short), e.at, 3)
  /\ chunk.eof => e.at + e.count = Len(lines)

\* A plan so far, the cursor behind the last lines that it changes.
PlanAt(cursor, edits) == [ok |-> TRUE, cursor |-> cursor, edits |-> edits]

\* The expected lines are found, not before the cursor.
LEMMA PlaceIs ==
  ASSUME NEW lines, IsSeq(lines), NEW c \in Nat, NEW es, NEW chunk, IsChunk(chunk),
         chunk.old # <<>>, Place(lines, PlanAt(c, es), chunk).ok
  PROVE  \E e, short : /\ short \in BOOLEAN /\ Goes(lines, chunk, e, short) /\ c <= e.at
                       /\ Place(lines, PlanAt(c, es), chunk)
                            = PlanAt(e.at + e.count, Append(es, e))
<1>1. PICK plan, q : plan = PlanAt(c, es) /\ q = Place(lines, plan, chunk)
  OBVIOUS
<1>2. PICK old, new, eof : old = chunk.old /\ new = chunk.new /\ eof = chunk.eof
  OBVIOUS
<1>3. plan.cursor = c
  BY <1>1 DEF PlanAt
<1>4. PICK first : first = seek(lines, old, c, eof)
  OBVIOUS
<1>5. PICK again : again = (first = NotFound /\ Last(old) = <<>>)
  OBVIOUS
<1>6. again \in BOOLEAN
  BY <1>5
<1>7. PICK o, w : o = OldOf(chunk, again) /\ w = NewOf(chunk, again)
  OBVIOUS
<1>8. PICK at : at = IF again THEN seek(lines, o, c, eof) ELSE first
  OBVIOUS
<1>9. q = IF at = NotFound \/ at < c THEN Failed
          ELSE [plan EXCEPT !.cursor = at + Len(o), !.edits = Append(@, Edit(at, Len(o), w))]
  BY <1>1, <1>2, <1>3, <1>4, <1>5, <1>7, <1>8, Zenon DEF Place, OldOf, NewOf
<1>10. ~(at = NotFound \/ at < c)
  BY <1>1, <1>9 DEF Failed
<1>11. IsSeq(o)
  BY <1>2, <1>6, <1>7, FrontIs DEF OldOf, IsChunk
<1>12. at = seek(lines, o, c, eof)
  BY <1>2, <1>4, <1>7, <1>8 DEF OldOf
<1>13. IsFound(lines, o, c, eof, at)
  BY <1>10, <1>11, <1>12, SeekFinds
<1>14. PICK e : e = Edit(at, Len(o), w)
  OBVIOUS
<1>15. e.at = at /\ e.count = Len(o) /\ e.new = w
  BY <1>14 DEF Edit
<1>16. Goes(lines, chunk, e, again)
  <2>1. again => Last(chunk.old) = <<>>
    BY <1>2, <1>5
  <2>2. /\ at \in Nat /\ at + Len(o) <= Len(lines) /\ Fits(lines, o, at, 3)
        /\ eof => at + Len(o) = Len(lines)
    BY <1>13 DEF IsFound
  <2> QED
    BY <1>2, <1>7, <1>15, <2>1, <2>2 DEF Goes
<1>17. c <= e.at
  <2>1. at \in Nat
    BY <1>13 DEF IsFound
  <2> QED
    BY <1>10, <1>15, <2>1
<1>18. q = PlanAt(e.at + e.count, Append(es, e))
  BY <1>1, <1>9, <1>10, <1>14, <1>15 DEF PlanAt
<1> QED
  BY <1>1, <1>6, <1>16, <1>17, <1>18

\* The anchor of a chunk is in front of the lines that it changes.
Anchored(lines, chunk, e) ==
  chunk.anchor # <<>> =>
    \E a \in 0..Len(lines) - 1 :
      (chunk.old # <<>> => a < e.at) /\ Fits(lines, chunk.anchor, a, 3)

\* Lines that replace none go to the end.
Inserts(lines, chunk, e, short) ==
  ~short /\ e.at = Len(lines) /\ e.count = 0 /\ e.new = chunk.new

\* The edit of a chunk takes the cursor from c to d.
Advances(lines, chunk, c, e, short, d) ==
  /\ short \in BOOLEAN /\ Anchored(lines, chunk, e)
  /\ d \in Nat /\ c <= d /\ d <= Len(lines)
  /\ chunk.old = <<>> => Inserts(lines, chunk, e, short)
  /\ chunk.old # <<>> => /\ Goes(lines, chunk, e, short)
                         /\ c <= e.at /\ e.at + e.count = d

\* An anchor moves the cursor behind the line it is found on.
LEMMA AnchorIs ==
  ASSUME NEW lines, IsSeq(lines), NEW anchor, IsSeq(anchor), anchor # <<>>, NEW c \in Nat,
         NEW a, a = seek(lines, anchor, c, FALSE), a # NotFound
  PROVE  /\ a \in 0..Len(lines) - 1 /\ c <= a /\ a + 1 \in Nat /\ a + 1 <= Len(lines)
         /\ Fits(lines, anchor, a, 3)
<1>1. IsFound(lines, anchor, c, FALSE, a)
  BY SeekFinds
<1>2. PICK L \in Nat, m \in Nat : L = Len(lines) /\ m = Len(anchor)
  BY DEF IsSeq
<1>3. m # 0
  BY <1>2, NoneIsEmpty
<1>4. a \in Nat /\ a + m <= L /\ c <= a /\ Fits(lines, anchor, a, 3)
  BY <1>1, <1>2 DEF IsFound
<1>5. PICK b \in Nat : b = a
  BY <1>4
<1>6. b + m <= L
  BY <1>4, <1>5
<1>7. m >= 1
  BY <1>3
<1>8. b + 1 <= L /\ b \in 0..L - 1 /\ b + 1 \in Nat
  BY <1>6, <1>7
<1> QED
  BY <1>2, <1>4, <1>5, <1>8

\* A chunk that is placed has one edit, and the cursor does not move back.
LEMMA ChunkAdvances ==
  ASSUME NEW lines, IsSeq(lines), NEW c \in Nat, c <= Len(lines), NEW es,
         NEW chunk, IsChunk(chunk), PlanChunk(lines, PlanAt(c, es), chunk).ok
  PROVE  \E e, short, d : /\ Advances(lines, chunk, c, e, short, d)
                          /\ PlanChunk(lines, PlanAt(c, es), chunk) = PlanAt(d, Append(es, e))
<1>1. PICK plan, q : plan = PlanAt(c, es) /\ q = PlanChunk(lines, plan, chunk)
  OBVIOUS
<1>2. plan.cursor = c /\ plan.ok /\ plan.edits = es
  BY <1>1 DEF PlanAt
<1>3. PICK a : a = seek(lines, chunk.anchor, c, FALSE)
  OBVIOUS
<1>4. PICK c1 : c1 = IF chunk.anchor = <<>> THEN c ELSE a + 1
  OBVIOUS
<1>5. PICK from : from = IF chunk.anchor = <<>> THEN plan ELSE [plan EXCEPT !.cursor = a + 1]
  OBVIOUS
<1>6. from = PlanAt(c1, es)
  BY <1>1, <1>4, <1>5 DEF PlanAt
<1>7. q = IF ~plan.ok \/ (chunk.anchor # <<>> /\ a = NotFound) THEN Failed
          ELSE IF chunk.old = <<>>
          THEN [from EXCEPT !.edits = Append(@, Edit(Len(lines), 0, chunk.new))]
          ELSE Place(lines, from, chunk)
  BY <1>1, <1>2, <1>3, <1>5, Zenon DEF PlanChunk
<1>8. q.ok
  BY <1>1
<1>9. ~(chunk.anchor # <<>> /\ a = NotFound)
  BY <1>2, <1>7, <1>8 DEF Failed
<1>10. chunk.anchor # <<>> =>
         /\ a \in 0..Len(lines) - 1 /\ c <= a /\ a + 1 \in Nat /\ a + 1 <= Len(lines)
         /\ Fits(lines, chunk.anchor, a, 3)
  BY <1>3, <1>9, AnchorIs DEF IsChunk
<1>11. c1 \in Nat /\ c <= c1 /\ c1 <= Len(lines)
  <2>1. CASE chunk.anchor = <<>>
    BY <1>4, <2>1
  <2>2. CASE chunk.anchor # <<>>
    <3>1. a \in Int
      BY <1>10, <2>2
    <3> QED
      BY <1>4, <1>10, <2>2, <3>1
  <2> QED
    BY <2>1, <2>2
<1>12. CASE chunk.old = <<>>
  <2>1. PICK e : e = Edit(Len(lines), 0, chunk.new)
    OBVIOUS
  <2>2. q = PlanAt(c1, Append(es, e))
    BY <1>2, <1>6, <1>7, <1>9, <1>12, <2>1 DEF PlanAt
  <2>3. Anchored(lines, chunk, e)
    BY <1>10, <1>12 DEF Anchored
  <2>4. Inserts(lines, chunk, e, FALSE)
    BY <2>1 DEF Edit, Inserts
  <2>5. Advances(lines, chunk, c, e, FALSE, c1)
    BY <1>11, <1>12, <2>3, <2>4 DEF Advances
  <2> QED
    BY <1>1, <2>2, <2>5
<1>13. CASE chunk.old # <<>>
  <2>1. q = Place(lines, PlanAt(c1, es), chunk)
    BY <1>2, <1>6, <1>7, <1>9, <1>13
  <2>2. PICK e, short : /\ short \in BOOLEAN /\ Goes(lines, chunk, e, short) /\ c1 <= e.at
                        /\ q = PlanAt(e.at + e.count, Append(es, e))
    <3>1. Place(lines, PlanAt(c1, es), chunk).ok
      BY <1>8, <2>1
    <3>2. \E e, short : /\ short \in BOOLEAN /\ Goes(lines, chunk, e, short) /\ c1 <= e.at
                        /\ Place(lines, PlanAt(c1, es), chunk)
                             = PlanAt(e.at + e.count, Append(es, e))
      BY <1>11, <1>13, <3>1, PlaceIs
    <3> QED
      BY <2>1, <3>2
  <2>3. Anchored(lines, chunk, e)
    <3>1. ASSUME chunk.anchor # <<>>
          PROVE  a \in 0..Len(lines) - 1 /\ a < e.at /\ Fits(lines, chunk.anchor, a, 3)
      <4>1. c1 = a + 1 /\ e.at \in Nat
        BY <1>4, <2>2, <3>1 DEF Goes
      <4>2. a \in Int
        BY <1>10, <3>1
      <4> QED
        BY <1>10, <2>2, <3>1, <4>1, <4>2
    <3> QED
      BY <3>1 DEF Anchored
  <2>4. PICK at, count : at = e.at /\ count = e.count
    OBVIOUS
  <2>5. at \in Nat /\ at + count <= Len(lines) /\ count \in Nat
    <3>1. count = Len(OldOf(chunk, short))
      BY <2>2, <2>4 DEF Goes
    <3>2. IsSeq(OldOf(chunk, short))
      BY <1>13, <2>2, FrontIs DEF OldOf, IsChunk
    <3> QED
      BY <2>2, <2>4, <3>1, <3>2 DEF Goes, IsSeq
  <2>6. PICK d : d = at + count
    OBVIOUS
  <2>7. d \in Nat /\ c <= d /\ d <= Len(lines) /\ c <= e.at
    BY <1>11, <2>2, <2>4, <2>5, <2>6
  <2>8. Advances(lines, chunk, c, e, short, d)
    BY <1>13, <2>2, <2>3, <2>4, <2>6, <2>7 DEF Advances
  <2>9. q = PlanAt(d, Append(es, e))
    BY <2>2, <2>4, <2>6
  <2> QED
    BY <1>1, <2>8, <2>9
<1> QED
  BY <1>12, <1>13

\* The chunks of an update.
AreChunks(chunks) == IsSeq(chunks) /\ \A k \in 1..Len(chunks) : IsChunk(chunks[k])

\* The edit of a chunk, in front of the cursor.
IsLaid(lines, chunk, e, short, cursor) ==
  /\ short \in BOOLEAN /\ Anchored(lines, chunk, e)
  /\ chunk.old = <<>> => Inserts(lines, chunk, e, short)
  /\ chunk.old # <<>> => Goes(lines, chunk, e, short) /\ e.at + e.count <= cursor

\* The edits of the first k chunks, those that replace lines in order.
AreLaid(lines, chunks, edits, short, k, cursor) ==
  \A j \in 1..k : IsLaid(lines, chunks[j], edits[j], short[j], cursor)
AreOrdered(chunks, edits, k) ==
  \A i, j \in 1..k :
    i < j /\ chunks[i].old # <<>> /\ chunks[j].old # <<>>
      => edits[i].at + edits[i].count <= edits[j].at
Laid(lines, chunks, plan, short, k) ==
  /\ plan = PlanAt(plan.cursor, plan.edits)
  /\ plan.cursor \in Nat /\ plan.cursor <= Len(lines)
  /\ IsSeq(plan.edits) /\ Len(plan.edits) = k
  /\ AreLaid(lines, chunks, plan.edits, short, k, plan.cursor)
  /\ AreOrdered(chunks, plan.edits, k)

\* The numbers of an edit that replaces lines.
LEMMA GoesIs ==
  ASSUME NEW lines, IsSeq(lines), NEW chunk, IsChunk(chunk), chunk.old # <<>>,
         NEW short \in BOOLEAN, NEW e, Goes(lines, chunk, e, short)
  PROVE  /\ e.at \in Nat /\ e.count \in Nat /\ e.at + e.count <= Len(lines) /\ IsSeq(e.new)
         /\ e.count = Len(chunk.old) - (IF short THEN 1 ELSE 0)
<1>1. IsSeq(OldOf(chunk, short)) /\ Len(OldOf(chunk, short)) \in Nat
  BY FrontIs DEF OldOf, IsChunk, IsSeq
<1>2. Len(OldOf(chunk, short)) = Len(chunk.old) - (IF short THEN 1 ELSE 0)
  BY FrontIs DEF OldOf, IsChunk, IsSeq
<1>3. IsSeq(NewOf(chunk, short))
  BY DropBlankIs DEF NewOf, IsChunk
<1> QED
  BY <1>1, <1>2, <1>3 DEF Goes

\* One chunk more.
LEMMA LaidNext ==
  ASSUME NEW lines, IsSeq(lines), NEW chunks, AreChunks(chunks), NEW k \in 1..Len(chunks),
         NEW p, NEW short, Laid(lines, chunks, p, short, k - 1),
         PlanChunk(lines, p, chunks[k]).ok
  PROVE  \E next : Laid(lines, chunks, PlanChunk(lines, p, chunks[k]), next, k)
<1>1. PICK c, es : c = p.cursor /\ es = p.edits
  OBVIOUS
<1>2. /\ p = PlanAt(c, es) /\ c \in Nat /\ c <= Len(lines) /\ IsSeq(es) /\ Len(es) = k - 1
      /\ AreLaid(lines, chunks, es, short, k - 1, c) /\ AreOrdered(chunks, es, k - 1)
  BY <1>1 DEF Laid
<1>3. PICK chunk, q : chunk = chunks[k] /\ q = PlanChunk(lines, p, chunk)
  OBVIOUS
<1>4. IsChunk(chunk)
  BY <1>3 DEF AreChunks
<1>5. PICK e, sh, d : Advances(lines, chunk, c, e, sh, d) /\ q = PlanAt(d, Append(es, e))
  <2>1. PlanChunk(lines, PlanAt(c, es), chunk).ok
    BY <1>2, <1>3
  <2>2. \E e, sh, d : /\ Advances(lines, chunk, c, e, sh, d)
                      /\ PlanChunk(lines, PlanAt(c, es), chunk) = PlanAt(d, Append(es, e))
    BY <1>2, <1>4, <2>1, ChunkAdvances
  <2> QED
    BY <1>2, <1>3, <2>2
<1>6. PICK next : next = [j \in 1..k |-> IF j = k THEN sh ELSE short[j]]
  OBVIOUS
<1>7. PICK new : new = Append(es, e)
  OBVIOUS
<1>8. PICK n \in Nat : n = k - 1
  BY DEF AreChunks, IsSeq
<1>9. /\ IsSeq(new) /\ Len(new) = k /\ \A j \in 1..n : new[j] = es[j]
      /\ new[k] = e
  <2>1. /\ IsSeq(new) /\ Len(new) = Len(es) + 1 /\ \A j \in 1..Len(es) : new[j] = es[j]
        /\ new[Len(es) + 1] = e
    BY <1>2, <1>7, AppendIs
  <2>2. Len(es) = n /\ n + 1 = k
    BY <1>2, <1>8
  <2> QED
    BY <2>1, <2>2
<1>10. d \in Nat /\ c <= d /\ d <= Len(lines) /\ sh \in BOOLEAN
  BY <1>5 DEF Advances
<1>11. \A j \in 1..k : j = k \/ j \in 1..n
  BY <1>8
<1>12. AreLaid(lines, chunks, new, next, k, d)
  <2>1. ASSUME NEW j \in 1..n
        PROVE  IsLaid(lines, chunks[j], new[j], next[j], d)
    <3>1. IsLaid(lines, chunks[j], es[j], short[j], c)
      BY <1>2, <1>8 DEF AreLaid
    <3>2. new[j] = es[j] /\ next[j] = short[j]
      BY <1>6, <1>8, <1>9
    <3>3. PICK x, b, ch : x = es[j] /\ b = short[j] /\ ch = chunks[j]
      OBVIOUS
    <3>4. IsLaid(lines, ch, x, b, c) /\ IsChunk(ch)
      <4>1. j \in 1..Len(chunks)
        BY <1>8 DEF AreChunks, IsSeq
      <4> QED
        BY <3>1, <3>3, <4>1 DEF AreChunks
    <3>5. ch.old # <<>> => x.at + x.count <= d
      <4>1. ASSUME ch.old # <<>>
            PROVE  x.at + x.count <= d
        <5>1. Goes(lines, ch, x, b) /\ b \in BOOLEAN /\ x.at + x.count <= c
          BY <3>4, <4>1 DEF IsLaid
        <5>2. x.at \in Nat /\ x.count \in Nat
          BY <3>4, <4>1, <5>1, GoesIs
        <5> QED
          BY <1>2, <1>10, <5>1, <5>2
      <4> QED
        BY <4>1
    <3>6. IsLaid(lines, ch, x, b, d)
      BY <3>4, <3>5 DEF IsLaid
    <3> QED
      BY <3>2, <3>3, <3>6
  <2>2. IsLaid(lines, chunks[k], new[k], next[k], d)
    <3>1. next[k] = sh
      BY <1>6
    <3>2. chunk.old # <<>> => e.at + e.count <= d
      <4>1. ASSUME chunk.old # <<>>
            PROVE  e.at + e.count <= d
        BY <1>5, <1>10, <4>1 DEF Advances
      <4> QED
        BY <4>1
    <3>3. IsLaid(lines, chunk, e, sh, d)
      BY <1>5, <3>2 DEF IsLaid, Advances
    <3> QED
      BY <1>3, <1>9, <3>1, <3>3
  <2> QED
    BY <1>11, <2>1, <2>2 DEF AreLaid
<1>13. AreOrdered(chunks, new, k)
  <2>1. SUFFICES ASSUME NEW i \in 1..k, NEW j \in 1..k, i < j,
                        chunks[i].old # <<>>, chunks[j].old # <<>>
                 PROVE  new[i].at + new[i].count <= new[j].at
    BY DEF AreOrdered
  <2>2. i \in 1..n
    BY <1>8, <2>1
  <2>3. CASE j \in 1..n
    <3>1. es[i].at + es[i].count <= es[j].at
      BY <1>2, <1>8, <2>1, <2>2, <2>3 DEF AreOrdered
    <3> QED
      BY <1>9, <2>2, <2>3, <3>1
  <2>4. CASE j = k
    <3>1. PICK x, b, ch : x = es[i] /\ b = short[i] /\ ch = chunks[i]
      OBVIOUS
    <3>2. IsLaid(lines, ch, x, b, c) /\ IsChunk(ch) /\ ch.old # <<>>
      <4>1. i \in 1..Len(chunks) /\ i \in 1..k - 1
        BY <1>8, <2>2 DEF AreChunks, IsSeq
      <4> QED
        BY <1>2, <2>1, <3>1, <4>1 DEF AreChunks, AreLaid
    <3>3. Goes(lines, ch, x, b) /\ b \in BOOLEAN /\ x.at + x.count <= c
      BY <3>2 DEF IsLaid
    <3>4. x.at \in Nat /\ x.count \in Nat
      BY <3>2, <3>3, GoesIs
    <3>5. c <= e.at /\ e.at \in Nat
      BY <1>3, <1>5, <2>1, <2>4 DEF Advances, Goes
    <3>6. x.at + x.count <= e.at
      BY <1>2, <3>3, <3>4, <3>5
    <3> QED
      BY <1>9, <2>2, <2>4, <3>1, <3>6
  <2> QED
    BY <1>11, <2>3, <2>4
<1>14. q.cursor = d /\ q.edits = new
  BY <1>5, <1>7 DEF PlanAt
<1>15. q = PlanAt(d, new)
  BY <1>5, <1>7
<1>16. Laid(lines, chunks, q, next, k)
  BY <1>9, <1>10, <1>12, <1>13, <1>14, <1>15 DEF Laid
<1> QED
  BY <1>3, <1>16

\* A plan that does not fail has an edit for every chunk.
LEMMA PlanIsLaid ==
  ASSUME NEW lines, IsSeq(lines), NEW chunks, AreChunks(chunks), PlanOf(lines, chunks).ok
  PROVE  \E short : Laid(lines, chunks, PlanOf(lines, chunks), short, Len(chunks))
<1>1. PICK n \in Nat : n = Len(chunks)
  BY DEF AreChunks, IsSeq
<1>2. IsSeq(chunks)
  BY DEF AreChunks
<1>3. PICK r : /\ r[0] = [ok |-> TRUE, cursor |-> 0, edits |-> <<>>]
               /\ r[n] = PlanOf(lines, chunks)
               /\ \A k \in 1..n : r[k] = PlanChunk(lines, r[k - 1], chunks[k])
  BY <1>1, <1>2, PlanFolds
<1>4. \A k \in 0..n : r[k].ok
  <2> DEFINE T == {k \in 0..n : r[k].ok}
  <2>1. n \in T
    BY <1>3
  <2>2. ASSUME NEW k \in 1..n, k \in T
        PROVE  k - 1 \in T
    <3>1. PICK p : p = r[k - 1]
      OBVIOUS
    <3>2. PlanChunk(lines, p, chunks[k]).ok
      BY <1>3, <2>2, <3>1
    <3>3. p.ok
      BY <3>2 DEF PlanChunk, Failed
    <3> QED
      BY <3>1, <3>3
  <2> HIDE DEF T
  <2>3. \A k \in 0..n : k \in T
    BY <2>1, <2>2, DownTo
  <2> QED
    BY <2>3 DEF T
<1> DEFINE T == {k \in 0..n : \E short : Laid(lines, chunks, r[k], short, k)}
<1>5. 0 \in T
  <2>1. PICK p, short : p = r[0] /\ short = <<>>
    OBVIOUS
  <2>2. p = PlanAt(0, <<>>) /\ p.cursor = 0 /\ p.edits = <<>>
    BY <1>3, <2>1 DEF PlanAt
  <2>3. AreLaid(lines, chunks, p.edits, short, 0, p.cursor) /\ AreOrdered(chunks, p.edits, 0)
    BY DEF AreLaid, AreOrdered
  <2>4. 0 <= Len(lines)
    BY DEF IsSeq
  <2>5. Laid(lines, chunks, p, short, 0)
    BY <2>2, <2>3, <2>4, EmptyIsSeq DEF Laid
  <2> QED
    BY <2>1, <2>5
<1>6. ASSUME NEW k \in 0..n, k < n, k \in T
      PROVE  k + 1 \in T
  <2>1. PICK short : Laid(lines, chunks, r[k], short, k)
    BY <1>6
  <2>2. PICK m, p : m = k + 1 /\ p = r[k]
    OBVIOUS
  <2>3. m \in 1..n /\ m - 1 = k /\ m \in 1..Len(chunks)
    BY <1>1, <1>6, <2>2
  <2>4. r[m] = PlanChunk(lines, p, chunks[m]) /\ r[m].ok
    BY <1>3, <1>4, <2>2, <2>3
  <2>5. Laid(lines, chunks, p, short, m - 1) /\ PlanChunk(lines, p, chunks[m]).ok
    BY <2>1, <2>2, <2>3, <2>4
  <2>6. \E next : Laid(lines, chunks, PlanChunk(lines, p, chunks[m]), next, m)
    BY <2>3, <2>5, LaidNext
  <2> QED
    BY <2>2, <2>3, <2>4, <2>6
<1> HIDE DEF T
<1>7. n \in T
  BY <1>5, <1>6, UpTo
<1> QED
  BY <1>1, <1>3, <1>7 DEF T

\* Where the chunks go, and which of them go without their last line.
PlacesIn(edits, n) == [k \in 1..n |-> edits[k].at]
ShortIn(short, n) == [k \in 1..n |-> short[k]]

\* What is said of a chunk by itself, and of two.
ChunkOld(chunks, short, k) == IF short[k] THEN Front(chunks[k].old) ELSE chunks[k].old
PlacedAlone(lines, chunks, at, short, k) ==
  /\ short[k] => chunks[k].old # <<>> /\ Last(chunks[k].old) = <<>>
  /\ chunks[k].old = <<>> => at[k] = Len(lines)
  /\ chunks[k].anchor # <<>> =>
       \E a \in 0..Len(lines) - 1 :
         (chunks[k].old # <<>> => a < at[k]) /\ Fits(lines, chunks[k].anchor, a, 3)
PlacedThere(lines, chunks, at, short, k) ==
  /\ at[k] + Len(ChunkOld(chunks, short, k)) <= Len(lines)
  /\ Fits(lines, ChunkOld(chunks, short, k), at[k], 3)
  /\ chunks[k].eof => at[k] + Len(ChunkOld(chunks, short, k)) = Len(lines)
PlacedBehind(chunks, at, short, j, k) == at[j] + Len(ChunkOld(chunks, short, j)) <= at[k]

\* What is said of all of them.
LEMMA PlacementIs ==
  ASSUME NEW lines, NEW chunks, NEW at, NEW short,
         \A k \in DOMAIN chunks : PlacedAlone(lines, chunks, at, short, k),
         \A k \in DOMAIN chunks : chunks[k].old # <<>> =>
           /\ PlacedThere(lines, chunks, at, short, k)
           /\ \A j \in DOMAIN chunks :
                chunks[j].old # <<>> /\ j < k => PlacedBehind(chunks, at, short, j, k)
  PROVE  IsPlacement(lines, chunks, at, short)
<1>1. ASSUME NEW k \in DOMAIN chunks, chunks[k].old # <<>>
      PROVE  /\ at[k] + Len(ChunkOld(chunks, short, k)) <= Len(lines)
             /\ Fits(lines, ChunkOld(chunks, short, k), at[k], 3)
             /\ chunks[k].eof => at[k] + Len(ChunkOld(chunks, short, k)) = Len(lines)
  BY <1>1 DEF PlacedThere
<1>2. ASSUME NEW k \in DOMAIN chunks, NEW j \in DOMAIN chunks, chunks[k].old # <<>>,
             chunks[j].old # <<>>, j < k
      PROVE  at[j] + Len(ChunkOld(chunks, short, j)) <= at[k]
  BY <1>2 DEF PlacedBehind
<1>3. \A k \in DOMAIN chunks :
        /\ short[k] => k \in {m \in DOMAIN chunks : chunks[m].old # <<>>}
                       /\ Last(chunks[k].old) = <<>>
        /\ k \notin {m \in DOMAIN chunks : chunks[m].old # <<>>} => at[k] = Len(lines)
        /\ chunks[k].anchor # <<>> =>
             \E a \in 0..Len(lines) - 1 :
               /\ k \in {m \in DOMAIN chunks : chunks[m].old # <<>>} => a < at[k]
               /\ Fits(lines, chunks[k].anchor, a, 3)
  BY DEF PlacedAlone
<1> QED
  BY <1>1, <1>2, <1>3, Zenon DEF IsPlacement, ChunkOld

\* An edit that is laid is an edit of the lines.
IsMade(length, chunk, e, short) ==
  /\ IsEdit(e, length) /\ short \in BOOLEAN
  /\ e.count = Len(chunk.old) - (IF short THEN 1 ELSE 0)
  /\ e.new = IF short THEN DropBlank(chunk.new) ELSE chunk.new
  /\ chunk.old = <<>> => ~short /\ e.at = length /\ e.count = 0

\* Its numbers, and what it puts there.
LEMMA LaidIsEdit ==
  ASSUME NEW lines, IsSeq(lines), NEW chunk, IsChunk(chunk), NEW e, NEW short, NEW cursor,
         IsLaid(lines, chunk, e, short, cursor)
  PROVE  IsMade(Len(lines), chunk, e, short)
<1>1. PICK L \in Nat : L = Len(lines)
  BY DEF IsSeq
<1>2. CASE chunk.old = <<>>
  BY <1>1, <1>2, EmptyIsSeq DEF IsLaid, Inserts, IsEdit, IsChunk, IsMade
<1>3. CASE chunk.old # <<>>
  <2>1. Goes(lines, chunk, e, short) /\ short \in BOOLEAN
    BY <1>3 DEF IsLaid
  <2>2. /\ e.at \in Nat /\ e.count \in Nat /\ e.at + e.count <= Len(lines) /\ IsSeq(e.new)
        /\ e.count = Len(chunk.old) - (IF short THEN 1 ELSE 0)
    BY <1>3, <2>1, GoesIs
  <2> QED
    BY <1>3, <2>1, <2>2 DEF Goes, NewOf, IsEdit, IsMade
<1> QED
  BY <1>2, <1>3

\* What a plan lays is a placement of the chunks, by ranges that are apart.
LEMMA LaidIsPlacement ==
  ASSUME NEW lines, IsSeq(lines), NEW chunks, AreChunks(chunks), NEW n, n = Len(chunks),
         NEW p, NEW short, Laid(lines, chunks, p, short, n)
  PROVE  /\ AreEdits(p.edits, Len(lines)) /\ AreApart(p.edits)
         /\ PlacesIn(p.edits, n) \in [DOMAIN chunks -> 0..Len(lines)]
         /\ ShortIn(short, n) \in [DOMAIN chunks -> BOOLEAN]
         /\ Realizes(p.edits, chunks, PlacesIn(p.edits, n), ShortIn(short, n))
         /\ IsPlacement(lines, chunks, PlacesIn(p.edits, n), ShortIn(short, n))
<1>1. PICK L \in Nat : L = Len(lines)
  BY DEF IsSeq
<1>2. n \in Nat /\ DOMAIN chunks = 1..n /\ \A k \in 1..n : IsChunk(chunks[k])
  BY SeqIs DEF AreChunks, IsSeq
<1>3. PICK es, c : es = p.edits /\ c = p.cursor
  OBVIOUS
<1>4. /\ IsSeq(es) /\ Len(es) = n /\ c \in Nat /\ c <= L
      /\ AreLaid(lines, chunks, es, short, n, c) /\ AreOrdered(chunks, es, n)
  BY <1>1, <1>3 DEF Laid
<1>5. DOMAIN es = 1..n
  BY <1>4, SeqIs
<1>6. ASSUME NEW k \in 1..n
      PROVE  /\ IsEdit(es[k], L) /\ short[k] \in BOOLEAN
             /\ es[k].count = Len(chunks[k].old) - (IF short[k] THEN 1 ELSE 0)
             /\ es[k].new = IF short[k] THEN DropBlank(chunks[k].new) ELSE chunks[k].new
             /\ chunks[k].old = <<>> => ~short[k] /\ es[k].at = L /\ es[k].count = 0
             /\ IsLaid(lines, chunks[k], es[k], short[k], c)
  <2>1. PICK chunk, e, b : chunk = chunks[k] /\ e = es[k] /\ b = short[k]
    OBVIOUS
  <2>2. IsChunk(chunk) /\ IsLaid(lines, chunk, e, b, c)
    BY <1>2, <1>4, <2>1 DEF AreLaid
  <2>3. IsMade(L, chunk, e, b)
    BY <1>1, <2>2, LaidIsEdit
  <2> QED
    BY <2>1, <2>2, <2>3 DEF IsMade
<1>7. \A k \in 1..n : es[k].at \in Nat /\ es[k].count \in Nat /\ es[k].at + es[k].count <= L
  BY <1>6 DEF IsEdit
<1>8. AreEdits(es, Len(lines))
  BY <1>1, <1>4, <1>6 DEF AreEdits
<1>9. AreApart(es)
  <2>1. ASSUME NEW j \in 1..n, NEW k \in 1..n, es[j].at < es[k].at
        PROVE  es[j].at + es[j].count <= es[k].at
    <3>1. CASE chunks[j].old = <<>>
      <4>1. es[j].at = L /\ es[k].at \in Nat /\ es[k].count \in Nat
            /\ es[k].at + es[k].count <= L
        BY <1>6, <1>7, <3>1
      <4> QED
        BY <2>1, <4>1
    <3>2. CASE chunks[k].old = <<>>
      <4>1. es[k].at = L
        BY <1>6, <3>2
      <4> QED
        BY <1>7, <4>1
    <3>3. CASE chunks[j].old # <<>> /\ chunks[k].old # <<>>
      <4>1. j # k
        BY <1>7, <2>1
      <4>2. CASE j < k
        BY <1>4, <3>3, <4>2 DEF AreOrdered
      <4>3. CASE k < j
        <5>1. es[k].at + es[k].count <= es[j].at
          BY <1>4, <3>3, <4>3 DEF AreOrdered
        <5> QED
          BY <1>7, <2>1, <5>1
      <4> QED
        BY <1>2, <4>1, <4>2, <4>3
    <3> QED
      BY <3>1, <3>2, <3>3
  <2>2. ASSUME NEW j \in 1..n, NEW k \in 1..n, j < k, es[j].at = es[k].at
        PROVE  es[j].count = 0
    <3>1. CASE chunks[j].old = <<>>
      BY <1>6, <3>1
    <3>2. CASE chunks[j].old # <<>> /\ chunks[k].old = <<>>
      <4>1. es[k].at = L
        BY <1>6, <3>2
      <4> QED
        BY <1>7, <2>2, <4>1
    <3>3. CASE chunks[j].old # <<>> /\ chunks[k].old # <<>>
      <4>1. es[j].at + es[j].count <= es[k].at
        BY <1>4, <2>2, <3>3 DEF AreOrdered
      <4> QED
        BY <1>7, <2>2, <4>1
    <3> QED
      BY <3>1, <3>2, <3>3
  <2> QED
    BY <1>4, <2>1, <2>2 DEF AreApart
<1>10. PICK at, sh : at = PlacesIn(es, n) /\ sh = ShortIn(short, n)
  OBVIOUS
<1>11. /\ \A k \in 1..n : at[k] = es[k].at /\ sh[k] = short[k]
       /\ at = [k \in 1..n |-> at[k]] /\ sh = [k \in 1..n |-> sh[k]]
  BY <1>10 DEF PlacesIn, ShortIn
<1>12. at \in [DOMAIN chunks -> 0..Len(lines)] /\ sh \in [DOMAIN chunks -> BOOLEAN]
  <2>1. ASSUME NEW k \in 1..n
        PROVE  at[k] \in 0..L /\ sh[k] \in BOOLEAN
    <3>1. at[k] = es[k].at /\ sh[k] = short[k] /\ short[k] \in BOOLEAN
      BY <1>6, <1>11
    <3>2. PICK i, m : i = es[k].at /\ m = es[k].count
      OBVIOUS
    <3>3. i \in Nat /\ m \in Nat /\ i + m <= L
      BY <1>7, <3>2
    <3>4. i \in 0..L
      BY <3>3
    <3> QED
      BY <3>1, <3>2, <3>4
  <2>2. at \in [1..n -> 0..L]
    BY <1>11, <2>1
  <2>3. sh \in [1..n -> BOOLEAN]
    BY <1>11, <2>1
  <2> QED
    BY <1>1, <1>2, <2>2, <2>3
<1>13. Realizes(es, chunks, at, sh)
  BY <1>2, <1>5, <1>6, <1>11 DEF Realizes, ChunkCount, ChunkNew
<1>14. IsPlacement(lines, chunks, at, sh)
  <2>1. ASSUME NEW k \in 1..n
        PROVE  PlacedAlone(lines, chunks, at, sh, k)
    <3>1. IsLaid(lines, chunks[k], es[k], short[k], c)
      BY <1>6
    <3>2. Anchored(lines, chunks[k], es[k])
      BY <3>1 DEF IsLaid
    <3>3. short[k] => chunks[k].old # <<>> /\ Last(chunks[k].old) = <<>>
      BY <1>6, <3>1 DEF IsLaid, Goes
    <3> QED
      BY <1>1, <1>6, <1>11, <3>2, <3>3 DEF PlacedAlone, Anchored
  <2>2. ASSUME NEW k \in 1..n, chunks[k].old # <<>>
        PROVE  PlacedThere(lines, chunks, at, sh, k)
    <3>1. Goes(lines, chunks[k], es[k], short[k])
      BY <1>6, <2>2 DEF IsLaid
    <3>2. ChunkOld(chunks, sh, k) = OldOf(chunks[k], short[k])
      BY <1>11 DEF ChunkOld, OldOf
    <3> QED
      BY <1>11, <3>1, <3>2 DEF PlacedThere, Goes
  <2>3. ASSUME NEW k \in 1..n, NEW j \in 1..n, chunks[k].old # <<>>, chunks[j].old # <<>>, j < k
        PROVE  PlacedBehind(chunks, at, sh, j, k)
    <3>1. Goes(lines, chunks[j], es[j], short[j])
      BY <1>6, <2>3 DEF IsLaid
    <3>2. ChunkOld(chunks, sh, j) = OldOf(chunks[j], short[j])
      BY <1>11 DEF ChunkOld, OldOf
    <3>3. es[j].at + es[j].count <= es[k].at
      BY <1>4, <2>3 DEF AreOrdered
    <3> QED
      BY <1>11, <3>1, <3>2, <3>3 DEF PlacedBehind, Goes
  <2> QED
    BY <1>2, <2>1, <2>2, <2>3, PlacementIs
<1> QED
  BY <1>3, <1>8, <1>9, <1>10, <1>12, <1>13, <1>14

-----------------------------------------------------------------------------
(* Line ends: normalized, and put back (Normalized, Crlf). *)

\* What is flattened is the first sequence in front of the others.
LEMMA ConsFlatten ==
  ASSUME NEW ss, IsSeqSeq(ss), NEW tt, IsSeqSeq(tt), Len(ss) = Len(tt) + 1,
         \A k \in 1..Len(tt) : ss[k + 1] = tt[k]
  PROVE  FlattenSeq(ss) = Cat(ss[1], FlattenSeq(tt))
<1>1. PICK n \in Nat : n = Len(tt)
  BY DEF IsSeqSeq, IsSeq
<1>2. PICK h : IsRun(tt, n, h)
  BY CatFolds
<1>3. h[n + 1] = <<>> /\ \A k \in 1..n : h[k] = Cat(tt[k], h[k + 1])
  BY <1>2 DEF IsRun
<1>4. PICK m : m = n + 1
  OBVIOUS
<1>5. PICK r : r = [k \in 1..n + 2 |-> IF k = 1 THEN Cat(ss[1], h[1]) ELSE h[k - 1]]
  OBVIOUS
<1>6. r[m + 1] = <<>>
  BY <1>3, <1>4, <1>5
<1>7. ASSUME NEW k \in 1..m
      PROVE  r[k] = Cat(ss[k], r[k + 1])
  <2>1. CASE k = 1
    BY <1>4, <1>5, <2>1
  <2>2. CASE k # 1
    <3>1. PICK j : j = k - 1
      OBVIOUS
    <3>2. j \in 1..n /\ j + 1 = k
      BY <1>4, <2>2, <3>1
    <3>3. r[k] = h[j] /\ r[k + 1] = h[j + 1]
      BY <1>4, <1>5, <2>2, <3>1
    <3>4. ss[k] = tt[j]
      BY <1>1, <3>2
    <3> QED
      BY <1>3, <3>2, <3>3, <3>4
  <2> QED
    BY <2>1, <2>2
<1>8. IsRun(ss, m, r) /\ m = Len(ss)
  BY <1>1, <1>4, <1>6, <1>7 DEF IsRun
<1>9. FlattenSeq(ss) = r[1]
  BY <1>8, FlattenIsRun
<1>10. FlattenSeq(tt) = h[1]
  BY <1>1, <1>2, FlattenIsRun
<1> QED
  BY <1>5, <1>9, <1>10

\* No carriage return.
Sans(t) == \A k \in 1..Len(t) : t[k] # CR

\* None in two texts, none in one behind the other.
LEMMA CatSans ==
  ASSUME NEW s, IsSeq(s), Sans(s), NEW t, IsSeq(t), Sans(t)
  PROVE  Sans(Cat(s, t))
<1>1. PICK u, a, b : u = Cat(s, t) /\ a = Len(s) /\ b = Len(t)
  OBVIOUS
<1>2. a \in Nat /\ b \in Nat /\ Len(u) = a + b
  BY <1>1, CatIs DEF IsSeq
<1>3. Holds(u, s, t)
  BY <1>1, CatHolds
<1>4. /\ \A k \in 1..a : u[k] = s[k]
      /\ \A k \in 1..b : u[a + k] = t[k]
  BY <1>1, <1>3 DEF Holds
<1>5. ASSUME NEW k \in 1..a + b
      PROVE  u[k] # CR
  <2>1. CASE k <= a
    BY <1>1, <1>2, <1>4, <2>1 DEF Sans
  <2>2. CASE k > a
    <3>1. PICK j : j = k - a
      OBVIOUS
    <3>2. j \in 1..b /\ a + j = k
      BY <1>2, <2>2, <3>1
    <3> QED
      BY <1>1, <1>4, <3>2 DEF Sans
  <2> QED
    BY <1>2, <2>1, <2>2
<1> QED
  BY <1>1, <1>2, <1>5 DEF Sans

\* Nor in many.
LEMMA FlattenSans ==
  ASSUME NEW ss, IsSeqSeq(ss), \A k \in 1..Len(ss) : Sans(ss[k])
  PROVE  Sans(FlattenSeq(ss))
<1>1. PICK n \in Nat : n = Len(ss)
  BY DEF IsSeqSeq, IsSeq
<1>2. PICK h : IsRun(ss, n, h)
  BY CatFolds
<1>3. FlattenSeq(ss) = h[1] /\ \A k \in 1..n + 1 : IsSeq(h[k])
  BY <1>1, <1>2, FlattenIsRun
<1>4. h[n + 1] = <<>> /\ \A k \in 1..n : h[k] = Cat(ss[k], h[k + 1])
  BY <1>2 DEF IsRun
<1> DEFINE T == {k \in 0..n : Sans(h[k + 1])}
<1>5. n \in T
  BY <1>4, EmptyIsSeq DEF Sans
<1>6. ASSUME NEW k \in 1..n, k \in T
      PROVE  k - 1 \in T
  <2>1. PICK s, t : s = ss[k] /\ t = h[k + 1]
    OBVIOUS
  <2>2. IsSeq(s) /\ Sans(s) /\ IsSeq(t) /\ Sans(t)
    BY <1>1, <1>3, <1>6, <2>1 DEF IsSeqSeq
  <2>3. Sans(Cat(s, t))
    BY <2>2, CatSans
  <2>4. h[k] = Cat(s, t) /\ k - 1 \in 0..n /\ k - 1 + 1 = k
    BY <1>4, <2>1
  <2> QED
    BY <2>3, <2>4
<1> HIDE DEF T
<1>7. \A k \in 0..n : k \in T
  BY <1>5, <1>6, DownTo
<1>8. 0 \in T
  BY <1>7
<1> QED
  BY <1>3, <1>8 DEF T

\* What each character becomes.
NormAt(t, k) ==
  IF t[k] = LF /\ k > 1 /\ t[k - 1] = CR THEN <<>>
  ELSE IF t[k] = CR THEN <<LF>> ELSE <<t[k]>>
NormEach(t) == [k \in DOMAIN t |-> NormAt(t, k)]

\* Normalized text is what they become, one behind the other.
LEMMA NormEachIs ==
  ASSUME NEW t, IsSeq(t)
  PROVE  /\ Normalized(t) = FlattenSeq(NormEach(t))
         /\ IsSeqSeq(NormEach(t)) /\ Len(NormEach(t)) = Len(t)
         /\ \A k \in 1..Len(t) : NormEach(t)[k] = NormAt(t, k) /\ Sans(NormAt(t, k))
<1>1. Normalized(t) = FlattenSeq(NormEach(t))
  BY Zenon DEF Normalized, NormEach, NormAt
<1>2. PICK n \in Nat : n = Len(t)
  BY DEF IsSeq
<1>3. PICK f : f = NormEach(t)
  OBVIOUS
<1>4. f = [k \in 1..n |-> NormAt(t, k)]
  BY <1>2, <1>3, SeqIs DEF NormEach
<1>5. f = [k \in 1..n |-> f[k]]
  BY <1>4
<1>6. IsSeq(f) /\ Len(f) = n
  BY <1>5, MadeSeq
<1>7. ASSUME NEW k \in 1..n
      PROVE  IsSeq(NormAt(t, k)) /\ Sans(NormAt(t, k))
  <2>1. CASE t[k] = LF /\ k > 1 /\ t[k - 1] = CR
    <3>1. NormAt(t, k) = <<>>
      BY <2>1 DEF NormAt
    <3> QED
      BY <3>1, EmptyIsSeq DEF Sans
  <2>2. CASE ~(t[k] = LF /\ k > 1 /\ t[k - 1] = CR)
    <3>1. PICK c : c = IF t[k] = CR THEN LF ELSE t[k]
      OBVIOUS
    <3>2. NormAt(t, k) = <<c>> /\ c # CR
      BY <2>2, <3>1 DEF NormAt, LF, CR
    <3> QED
      BY <3>2, SingleIs DEF Sans
  <2> QED
    BY <2>1, <2>2
<1> QED
  BY <1>1, <1>2, <1>3, <1>4, <1>6, <1>7 DEF IsSeqSeq

\* Normalized text has no carriage return.
LEMMA NormalizedIs ==
  ASSUME NEW t, IsSeq(t)
  PROVE  IsSeq(Normalized(t)) /\ Sans(Normalized(t))
<1>1. IsSeq(FlattenSeq(NormEach(t)))
  BY NormEachIs, FlattenIsSeq
<1>2. Sans(FlattenSeq(NormEach(t)))
  BY NormEachIs, FlattenSans
<1> QED
  BY <1>1, <1>2, NormEachIs

\* A text with one more character in front.
IsPut(t, c, w) ==
  /\ IsSeq(t) /\ Len(t) = Len(w) + 1
  /\ t[1] = c /\ \A k \in 1..Len(w) : t[k + 1] = w[k]
\* It is one.
LEMMA PutIs ==
  ASSUME NEW c, NEW w, IsSeq(w)
  PROVE  IsPut(Cat(<<c>>, w), c, w)
<1>1. PICK s, u, n : s = <<c>> /\ u = Cat(s, w) /\ n = Len(w)
  OBVIOUS
<1>2. IsSeq(s) /\ Len(s) = 1 /\ s[1] = c
  BY <1>1, SingleIs
<1>3. IsSeq(u) /\ Len(u) = 1 + n /\ n \in Nat
  <2>1. n \in Nat
    BY <1>1 DEF IsSeq
  <2>2. IsSeq(u) /\ Len(u) = Len(s) + n
    BY <1>1, <1>2, CatIs
  <2> QED
    BY <1>2, <2>1, <2>2
<1>4. Holds(u, s, w)
  BY <1>1, <1>2, CatHolds
<1>5. u[1] = c /\ \A k \in 1..n : u[1 + k] = w[k]
  BY <1>1, <1>2, <1>4 DEF Holds
<1> QED
  BY <1>1, <1>3, <1>5 DEF IsPut

\* What a text becomes behind a character that is no carriage return, and
\* behind the end of a line.
LEMMA NormBehind ==
  ASSUME NEW c, c # CR, NEW w, IsSeq(w), NEW t, t = Cat(<<c>>, w)
  PROVE  \A k \in 1..Len(w) : NormAt(t, k + 1) = NormAt(w, k)
<1>1. PICK n \in Nat : n = Len(w)
  BY DEF IsSeq
<1>2. t[1] = c /\ \A k \in 1..n : t[k + 1] = w[k]
  BY <1>1, PutIs DEF IsPut
<1>3. ASSUME NEW k \in 1..n
      PROVE  NormAt(t, k + 1) = NormAt(w, k)
  <2>1. t[k + 1] = w[k]
    BY <1>2
  <2>2. CASE k = 1
    BY <1>2, <2>1, <2>2 DEF NormAt
  <2>3. CASE k # 1
    <3>1. PICK j : j = k - 1
      OBVIOUS
    <3>2. j \in 1..n /\ k + 1 - 1 = j + 1 /\ k > 1 /\ k + 1 > 1
      BY <2>3, <3>1
    <3>3. t[k + 1 - 1] = w[k - 1]
      BY <1>2, <3>1, <3>2
    <3> QED
      BY <2>1, <3>2, <3>3 DEF NormAt
  <2> QED
    BY <2>2, <2>3
<1> QED
  BY <1>1, <1>3

\* Such a character stays in front of what the rest becomes.
LEMMA NormCons ==
  ASSUME NEW c, c # CR, NEW w, IsSeq(w)
  PROVE  Normalized(Cat(<<c>>, w)) = Cat(<<c>>, Normalized(w))
<1>1. PICK t, n : t = Cat(<<c>>, w) /\ n = Len(w)
  OBVIOUS
<1>2. n \in Nat /\ IsSeq(t) /\ Len(t) = n + 1 /\ t[1] = c
  BY <1>1, PutIs DEF IsPut, IsSeq
<1>3. PICK f, g : f = NormEach(t) /\ g = NormEach(w)
  OBVIOUS
<1>4. /\ Normalized(t) = FlattenSeq(f) /\ IsSeqSeq(f) /\ Len(f) = n + 1
      /\ \A k \in 1..n + 1 : f[k] = NormAt(t, k)
  BY <1>2, <1>3, NormEachIs
<1>5. /\ Normalized(w) = FlattenSeq(g) /\ IsSeqSeq(g) /\ Len(g) = n
      /\ \A k \in 1..n : g[k] = NormAt(w, k)
  BY <1>1, <1>3, NormEachIs
<1>6. \A k \in 1..n : f[k + 1] = g[k]
  <2>1. \A k \in 1..n : NormAt(t, k + 1) = NormAt(w, k)
    BY <1>1, NormBehind
  <2> QED
    BY <1>2, <1>4, <1>5, <2>1
<1>7. f[1] = <<c>>
  <2>1. NormAt(t, 1) = <<c>>
    BY <1>2 DEF NormAt
  <2> QED
    BY <1>2, <1>4, <2>1
<1>8. FlattenSeq(f) = Cat(f[1], FlattenSeq(g))
  BY <1>4, <1>5, <1>6, ConsFlatten
<1> QED
  BY <1>1, <1>4, <1>5, <1>7, <1>8

\* A line end with its carriage return becomes one without.
LEMMA NormPair ==
  ASSUME NEW w, IsSeq(w)
  PROVE  Normalized(Cat(<<CR>>, Cat(<<LF>>, w))) = Cat(<<LF>>, Normalized(w))
<1>1. PICK lf, cr : lf = LF /\ cr = CR
  OBVIOUS
<1>2. PICK v, t, n : v = Cat(<<lf>>, w) /\ t = Cat(<<cr>>, v) /\ n = Len(w)
  OBVIOUS
<1>3. n \in Nat /\ IsSeq(v) /\ Len(v) = n + 1 /\ v[1] = LF
  <2>1. IsPut(v, lf, w)
    BY <1>2, PutIs
  <2>2. n \in Nat
    BY <1>2 DEF IsSeq
  <2> QED
    BY <1>1, <1>2, <2>1, <2>2 DEF IsPut
<1>4. /\ IsSeq(t) /\ Len(t) = n + 2 /\ t[1] = CR /\ t[2] = LF
      /\ \A k \in 1..n + 1 : t[k + 1] = v[k]
  <2>1. /\ IsSeq(t) /\ Len(t) = Len(v) + 1 /\ t[1] = cr
        /\ \A k \in 1..Len(v) : t[k + 1] = v[k]
    <3>1. IsPut(t, cr, v)
      BY <1>2, <1>3, PutIs
    <3> QED
      BY <3>1 DEF IsPut
  <2>2. t[1 + 1] = v[1]
    BY <1>3, <2>1
  <2> QED
    BY <1>1, <1>3, <2>1, <2>2
<1>5. PICK f, g : f = NormEach(t) /\ g = NormEach(w)
  OBVIOUS
<1>6. /\ Normalized(t) = FlattenSeq(f) /\ IsSeqSeq(f) /\ Len(f) = n + 2
      /\ \A k \in 1..n + 2 : f[k] = NormAt(t, k)
  BY <1>4, <1>5, NormEachIs
<1>7. /\ Normalized(w) = FlattenSeq(g) /\ IsSeqSeq(g) /\ Len(g) = n
      /\ \A k \in 1..n : g[k] = NormAt(w, k)
  BY <1>2, <1>5, NormEachIs
<1>8. PICK e : e = [k \in 1..n + 1 |-> f[k + 1]]
  OBVIOUS
<1>9. IsSeqSeq(e) /\ Len(e) = n + 1 /\ \A k \in 1..n + 1 : e[k] = f[k + 1]
  <2>1. e = [k \in 1..n + 1 |-> e[k]] /\ n + 1 \in Nat
    BY <1>3, <1>8
  <2>2. IsSeq(e) /\ Len(e) = n + 1
    BY <2>1, MadeSeq
  <2>3. \A k \in 1..n + 1 : IsSeq(e[k])
    <3>1. \A k \in 1..n + 2 : IsSeq(f[k])
      BY <1>6 DEF IsSeqSeq
    <3> QED
      BY <1>3, <1>8, <3>1
  <2> QED
    BY <1>8, <2>2, <2>3 DEF IsSeqSeq
<1>10. FlattenSeq(f) = Cat(f[1], FlattenSeq(e))
  <2>1. Len(f) = Len(e) + 1 /\ \A k \in 1..Len(e) : f[k + 1] = e[k]
    BY <1>3, <1>6, <1>9
  <2> QED
    BY <1>6, <1>9, <2>1, ConsFlatten
<1>11. \A k \in 1..n : e[k + 1] = g[k]
  <2>1. LF # CR
    BY DEF LF, CR
  <2>2. \A k \in 1..n : NormAt(v, k + 1) = NormAt(w, k)
    BY <1>1, <1>2, <2>1, NormBehind
  <2>3. ASSUME NEW k \in 1..n
        PROVE  e[k + 1] = g[k]
    <3>1. PICK i, j : i = k + 1 /\ j = k + 2
      OBVIOUS
    <3>2. i \in 1..n + 1 /\ j \in 1..n + 2 /\ i + 1 = j /\ j - 1 = i /\ i - 1 = k /\ i > 1 /\ j > 1
      BY <1>3, <3>1
    <3>3. t[j] = v[i] /\ t[j - 1] = v[i - 1]
      <4>1. k \in 1..n + 1
        BY <1>3
      <4> QED
        BY <1>4, <3>1, <3>2, <4>1
    <3>4. NormAt(t, j) = NormAt(v, i)
      BY <3>2, <3>3 DEF NormAt
    <3>5. e[i] = f[j]
      BY <1>9, <3>2
    <3> QED
      BY <1>6, <1>7, <2>2, <3>1, <3>2, <3>4, <3>5
  <2> QED
    BY <2>3
<1>12. FlattenSeq(e) = Cat(e[1], FlattenSeq(g))
  BY <1>7, <1>9, <1>11, ConsFlatten
<1>13. f[1] = <<LF>>
  <2>1. NormAt(t, 1) = <<LF>>
    BY <1>4 DEF NormAt, LF, CR
  <2> QED
    BY <1>3, <1>6, <2>1
<1>14. e[1] = <<>>
  <2>1. NormAt(t, 2) = <<>>
    BY <1>4 DEF NormAt
  <2>2. e[1] = f[2] /\ f[2] = NormAt(t, 2)
    BY <1>3, <1>6, <1>9
  <2> QED
    BY <2>1, <2>2
<1>15. IsSeq(FlattenSeq(g))
  BY <1>7, FlattenIsSeq
<1>16. FlattenSeq(e) = FlattenSeq(g)
  BY <1>12, <1>14, <1>15, CatEmpty
<1> QED
  BY <1>1, <1>2, <1>6, <1>7, <1>10, <1>13, <1>16

\* The end of a text from a place on.
EndOf(t, k) == SubSeq(t, k, Len(t))

\* It is the character there in front of the end behind it.
LEMMA EndIs ==
  ASSUME NEW t, IsSeq(t), NEW k, k \in 1..Len(t)
  PROVE  /\ IsSeq(EndOf(t, k + 1))
         /\ EndOf(t, k) = Cat(<<t[k]>>, EndOf(t, k + 1))
<1>1. PICK n \in Nat : n = Len(t)
  BY DEF IsSeq
<1>2. PICK p, q : p = SubSeq(t, k, n) /\ q = SubSeq(t, k + 1, n)
  OBVIOUS
<1>3. k \in Nat \ {0} /\ k + 1 \in Nat \ {0} /\ n <= Len(t) /\ k <= n
  BY <1>1
<1>4. /\ IsSeq(p) /\ Len(p) = IF k <= n THEN n - k + 1 ELSE 0
      /\ \A j \in 1..n - k + 1 : p[j] = t[k + j - 1]
  BY <1>2, <1>3, StretchIs
<1>5. /\ IsSeq(q) /\ Len(q) = IF k + 1 <= n THEN n - (k + 1) + 1 ELSE 0
      /\ \A j \in 1..n - (k + 1) + 1 : q[j] = t[k + 1 + j - 1]
  BY <1>2, <1>3, StretchIs
<1>6. Len(q) = n - k /\ Len(p) = n - k + 1
  BY <1>3, <1>4, <1>5
<1>7. PICK u : u = Cat(<<t[k]>>, q)
  OBVIOUS
<1>8. IsPut(u, t[k], q)
  BY <1>5, <1>7, PutIs
<1>9. ASSUME NEW j \in 1..n - k + 1
      PROVE  p[j] = u[j]
  <2>1. CASE j = 1
    <3>1. p[1] = t[k + 1 - 1] /\ k + 1 - 1 = k
      BY <1>3, <1>4
    <3> QED
      BY <1>8, <2>1, <3>1 DEF IsPut
  <2>2. CASE j # 1
    <3>1. PICK i : i = j - 1
      OBVIOUS
    <3>2. i \in 1..n - k /\ i + 1 = j /\ i \in 1..n - (k + 1) + 1
          /\ k + 1 + i - 1 = k + j - 1
      BY <1>3, <2>2, <3>1
    <3>3. u[j] = q[i]
      BY <1>6, <1>8, <3>2 DEF IsPut
    <3>4. q[i] = t[k + j - 1]
      BY <1>5, <3>2
    <3> QED
      BY <1>4, <3>3, <3>4
  <2> QED
    BY <2>1, <2>2
<1>10. IsSeq(u) /\ Len(u) = n - k + 1
  <2>1. IsSeq(u) /\ Len(u) = Len(q) + 1
    BY <1>8 DEF IsPut
  <2> QED
    BY <1>3, <1>6, <2>1
<1>11. p = u
  BY <1>4, <1>6, <1>9, <1>10, SameSeq
<1> QED
  BY <1>1, <1>2, <1>5, <1>7, <1>11 DEF EndOf

\* The end from the first place on, and from behind the last.
LEMMA EndsAre ==
  ASSUME NEW t, IsSeq(t)
  PROVE  EndOf(t, 1) = t /\ EndOf(t, Len(t) + 1) = <<>>
<1>1. PICK n \in Nat : n = Len(t)
  BY DEF IsSeq
<1>2. PICK p, q : p = SubSeq(t, 1, n) /\ q = SubSeq(t, n + 1, n)
  OBVIOUS
<1>3. 1 \in Nat \ {0} /\ n + 1 \in Nat \ {0} /\ n <= Len(t)
  BY <1>1
<1>4. /\ IsSeq(p) /\ Len(p) = IF 1 <= n THEN n - 1 + 1 ELSE 0
      /\ \A j \in 1..n - 1 + 1 : p[j] = t[1 + j - 1]
  BY <1>2, <1>3, StretchIs
<1>5. IsSeq(q) /\ Len(q) = IF n + 1 <= n THEN n - (n + 1) + 1 ELSE 0
  BY <1>2, <1>3, StretchIs
<1>6. Len(p) = n /\ \A j \in 1..n : p[j] = t[j]
  BY <1>4
<1>7. p = t
  BY <1>1, <1>4, <1>6, SameSeq
<1>8. q = <<>>
  BY <1>5, NoneIsEmpty
<1> QED
  BY <1>1, <1>2, <1>7, <1>8 DEF EndOf

\* Without carriage returns nothing is to be normalized.
LEMMA SansIsNormal ==
  ASSUME NEW t, IsSeq(t), Sans(t)
  PROVE  Normalized(t) = t
<1>1. PICK n \in Nat : n = Len(t)
  BY DEF IsSeq
<1> DEFINE T == {k \in 0..n : IsSeq(EndOf(t, k + 1)) /\ Normalized(EndOf(t, k + 1)) = EndOf(t, k + 1)}
<1>2. n \in T
  <2>1. EndOf(t, n + 1) = <<>>
    BY <1>1, EndsAre
  <2>2. /\ Normalized(<<>>) = FlattenSeq(NormEach(<<>>)) /\ IsSeqSeq(NormEach(<<>>))
        /\ Len(NormEach(<<>>)) = 0
    BY EmptyIsSeq, NormEachIs
  <2>3. Normalized(<<>>) = <<>>
    BY <2>2, FlattenIsSeq
  <2> QED
    BY <2>1, <2>3, EmptyIsSeq
<1>3. ASSUME NEW k \in 1..n, k \in T
      PROVE  k - 1 \in T
  <2>1. PICK c, w, u : c = t[k] /\ w = EndOf(t, k + 1) /\ u = EndOf(t, k)
    OBVIOUS
  <2>2. IsSeq(w) /\ Normalized(w) = w /\ c # CR
    BY <1>1, <1>3, <2>1 DEF Sans
  <2>3. u = Cat(<<c>>, w)
    BY <1>1, <2>1, EndIs
  <2>4. IsSeq(u)
    BY <2>2, <2>3, PutIs DEF IsPut
  <2>5. Normalized(u) = u
    BY <2>2, <2>3, NormCons
  <2>6. k - 1 \in 0..n /\ k - 1 + 1 = k
    OBVIOUS
  <2> QED
    BY <2>1, <2>4, <2>5, <2>6
<1> HIDE DEF T
<1>4. 0 \in T
  BY <1>2, <1>3, DownTo
<1>5. Normalized(EndOf(t, 1)) = EndOf(t, 1)
  BY <1>4 DEF T
<1> QED
  BY <1>5, EndsAre

\* Every line end follows a carriage return.
Ends(w) == \A k \in 1..Len(w) : w[k] = LF => k > 1 /\ w[k - 1] = CR

\* So it is behind any other character,
LEMMA EndsPut ==
  ASSUME NEW c, c # LF, NEW w, IsSeq(w), Ends(w)
  PROVE  Ends(Cat(<<c>>, w))
<1>1. PICK t, n : t = Cat(<<c>>, w) /\ n = Len(w)
  OBVIOUS
<1>2. n \in Nat /\ Len(t) = n + 1 /\ t[1] = c /\ \A k \in 1..n : t[k + 1] = w[k]
  <2>1. IsPut(t, c, w)
    BY <1>1, PutIs
  <2>2. n \in Nat
    BY <1>1 DEF IsSeq
  <2> QED
    BY <1>1, <2>1, <2>2 DEF IsPut
<1>3. ASSUME NEW k \in 1..n + 1, t[k] = LF
      PROVE  k > 1 /\ t[k - 1] = CR
  <2>1. k # 1
    BY <1>2, <1>3
  <2>2. PICK j : j = k - 1
    OBVIOUS
  <2>3. j \in 1..n /\ j + 1 = k
    BY <1>2, <2>1, <2>2
  <2>4. w[j] = LF
    BY <1>2, <1>3, <2>3
  <2>5. j > 1 /\ w[j - 1] = CR
    BY <1>1, <2>3, <2>4 DEF Ends
  <2>6. j - 1 \in 1..n /\ j - 1 + 1 = j
    <3>1. j > 1
      BY <2>5
    <3> QED
      BY <1>2, <2>3, <3>1
  <2>7. t[j] = CR
    BY <1>2, <2>5, <2>6
  <2> QED
    BY <2>2, <2>3, <2>7
<1> QED
  BY <1>1, <1>2, <1>3 DEF Ends

\* and behind one more line end.
LEMMA EndsPair ==
  ASSUME NEW w, IsSeq(w), Ends(w)
  PROVE  Ends(Cat(<<CR>>, Cat(<<LF>>, w)))
<1>1. PICK lf, cr : lf = LF /\ cr = CR
  OBVIOUS
<1>2. PICK v, t, n : v = Cat(<<lf>>, w) /\ t = Cat(<<cr>>, v) /\ n = Len(w)
  OBVIOUS
<1>3. /\ n \in Nat /\ IsSeq(v) /\ Len(v) = n + 1 /\ v[1] = lf
      /\ \A k \in 1..n : v[k + 1] = w[k]
  <2>1. IsPut(v, lf, w)
    BY <1>2, PutIs
  <2>2. n \in Nat
    BY <1>2 DEF IsSeq
  <2> QED
    BY <1>2, <2>1, <2>2 DEF IsPut
<1>4. Len(t) = n + 2 /\ t[1] = cr /\ \A k \in 1..n + 1 : t[k + 1] = v[k]
  <2>1. IsPut(t, cr, v)
    BY <1>2, <1>3, PutIs
  <2> QED
    BY <1>3, <2>1 DEF IsPut
<1>5. LF # CR
  BY DEF LF, CR
<1>6. ASSUME NEW k \in 1..n + 2, t[k] = LF
      PROVE  k > 1 /\ t[k - 1] = CR
  <2>1. k # 1
    BY <1>1, <1>4, <1>5, <1>6
  <2>2. CASE k = 2
    BY <1>1, <1>4, <2>2
  <2>3. CASE k # 2
    <3>1. PICK i, j : i = k - 1 /\ j = k - 2
      OBVIOUS
    <3>2. i \in 1..n + 1 /\ j \in 1..n /\ i + 1 = k /\ j + 1 = i
      BY <1>3, <2>1, <2>3, <3>1
    <3>3. w[j] = LF
      BY <1>3, <1>4, <1>6, <3>2
    <3>4. j > 1 /\ w[j - 1] = CR
      BY <1>2, <3>2, <3>3 DEF Ends
    <3>5. j - 1 \in 1..n /\ j - 1 + 1 = j /\ j \in 1..n + 1
      BY <1>3, <3>2, <3>4
    <3>6. v[j] = CR /\ t[i] = v[j]
      BY <1>3, <1>4, <3>2, <3>4, <3>5
    <3> QED
      BY <3>1, <3>2, <3>6
  <2> QED
    BY <2>2, <2>3
<1> QED
  BY <1>1, <1>2, <1>3, <1>4, <1>6 DEF Ends

\* What each character of a text with "\r\n" becomes.
CrlfAt(t, k) == IF t[k] = LF THEN <<CR, LF>> ELSE <<t[k]>>
CrlfEach(t) == [k \in DOMAIN t |-> CrlfAt(t, k)]

\* The text is what they become, one behind the other.
LEMMA CrlfEachIs ==
  ASSUME NEW t, IsSeq(t)
  PROVE  /\ Crlf(t) = FlattenSeq(CrlfEach(t))
         /\ IsSeqSeq(CrlfEach(t)) /\ Len(CrlfEach(t)) = Len(t)
         /\ \A k \in 1..Len(t) : CrlfEach(t)[k] = CrlfAt(t, k)
<1>1. Crlf(t) = FlattenSeq(CrlfEach(t))
  BY Zenon DEF Crlf, CrlfEach, CrlfAt
<1>2. PICK n \in Nat : n = Len(t)
  BY DEF IsSeq
<1>3. PICK f : f = CrlfEach(t)
  OBVIOUS
<1>4. f = [k \in 1..n |-> CrlfAt(t, k)]
  BY <1>2, <1>3, SeqIs DEF CrlfEach
<1>5. f = [k \in 1..n |-> f[k]]
  BY <1>4
<1>6. IsSeq(f) /\ Len(f) = n
  BY <1>5, MadeSeq
<1>7. ASSUME NEW k \in 1..n
      PROVE  IsSeq(CrlfAt(t, k))
  BY SingleIs, PairIs DEF CrlfAt
<1> QED
  BY <1>1, <1>2, <1>3, <1>4, <1>6, <1>7 DEF IsSeqSeq

\* With "\r\n" for every line end, a text without carriage returns is still
\* itself, normalized.
LEMMA CrlfIs ==
  ASSUME NEW t, IsSeq(t), Sans(t)
  PROVE  IsSeq(Crlf(t)) /\ Ends(Crlf(t)) /\ Normalized(Crlf(t)) = t
<1>1. PICK n \in Nat : n = Len(t)
  BY DEF IsSeq
<1>2. PICK f : f = CrlfEach(t)
  OBVIOUS
<1>3. /\ Crlf(t) = FlattenSeq(f) /\ IsSeqSeq(f) /\ Len(f) = n
      /\ \A k \in 1..n : f[k] = CrlfAt(t, k)
  BY <1>1, <1>2, CrlfEachIs
<1>4. PICK h : IsRun(f, n, h)
  BY CatFolds
<1>5. h[n + 1] = <<>> /\ \A k \in 1..n : h[k] = Cat(f[k], h[k + 1])
  BY <1>4 DEF IsRun
<1>6. FlattenSeq(f) = h[1] /\ \A k \in 1..n + 1 : IsSeq(h[k])
  BY <1>3, <1>4, FlattenIsRun
<1> DEFINE T == {k \in 0..n : Ends(h[k + 1]) /\ Normalized(h[k + 1]) = EndOf(t, k + 1)}
<1>7. n \in T
  <2>1. EndOf(t, n + 1) = <<>>
    BY <1>1, EndsAre
  <2>2. Sans(<<>>) /\ Ends(<<>>)
    BY EmptyIsSeq DEF Sans, Ends
  <2>3. Normalized(<<>>) = <<>>
    BY <2>2, EmptyIsSeq, SansIsNormal
  <2> QED
    BY <1>5, <2>1, <2>2, <2>3
<1>8. ASSUME NEW k \in 1..n, k \in T
      PROVE  k - 1 \in T
  <2>1. PICK c, w, x : c = t[k] /\ w = EndOf(t, k + 1) /\ x = h[k + 1]
    OBVIOUS
  <2>2. IsSeq(x) /\ Ends(x) /\ Normalized(x) = w /\ c # CR
    BY <1>1, <1>6, <1>8, <2>1 DEF Sans
  <2>3. EndOf(t, k) = Cat(<<c>>, w)
    BY <1>1, <2>1, EndIs
  <2>4. h[k] = Cat(f[k], x) /\ f[k] = CrlfAt(t, k)
    BY <1>3, <1>5, <2>1
  <2>5. k - 1 \in 0..n /\ k - 1 + 1 = k
    OBVIOUS
  <2>6. CASE c = LF
    <3>1. f[k] = <<CR, LF>>
      BY <2>1, <2>4, <2>6 DEF CrlfAt
    <3>2. PICK cr, lf : cr = CR /\ lf = LF
      OBVIOUS
    <3>3. <<cr, lf>> = Cat(<<cr>>, <<lf>>)
      BY PairIs
    <3>4. IsSeq(<<cr>>) /\ IsSeq(<<lf>>)
      BY SingleIs
    <3>5. h[k] = Cat(<<cr>>, Cat(<<lf>>, x))
      BY <2>2, <2>4, <3>1, <3>2, <3>3, <3>4, CatAssoc
    <3>6. h[k] = Cat(<<CR>>, Cat(<<LF>>, x))
      BY <3>2, <3>5
    <3>7. Ends(h[k])
      BY <2>2, <3>6, EndsPair
    <3>8. Normalized(h[k]) = Cat(<<LF>>, w)
      BY <2>2, <3>6, NormPair
    <3> QED
      BY <2>3, <2>5, <2>6, <3>7, <3>8
  <2>7. CASE c # LF
    <3>1. h[k] = Cat(<<c>>, x)
      BY <2>1, <2>4, <2>7 DEF CrlfAt
    <3>2. Ends(h[k])
      BY <2>2, <2>7, <3>1, EndsPut
    <3>3. Normalized(h[k]) = Cat(<<c>>, w)
      BY <2>2, <3>1, NormCons
    <3> QED
      BY <2>3, <2>5, <3>2, <3>3
  <2> QED
    BY <2>6, <2>7
<1> HIDE DEF T
<1>9. 0 \in T
  BY <1>7, <1>8, DownTo
<1>10. Ends(h[1]) /\ Normalized(h[1]) = EndOf(t, 1)
  BY <1>9 DEF T
<1>11. IsSeq(h[1])
  BY <1>6
<1> QED
  BY <1>3, <1>6, <1>10, <1>11, EndsAre

-----------------------------------------------------------------------------
(* Replacements (apply_replacements). *)

\* What comes behind the byte order mark.
LEMMA BomIs ==
  ASSUME NEW text, IsSeq(text)
  PROVE  IsSeq(WithoutBom(text))
<1>1. CASE ~IsBom(text)
  BY <1>1 DEF WithoutBom
<1>2. CASE IsBom(text)
  <2>1. text # <<>>
    BY <1>2 DEF IsBom
  <2>2. PICK n \in Nat : n = Len(text)
    BY DEF IsSeq
  <2>3. 2 \in Nat \ {0} /\ n \in Nat /\ n <= Len(text)
    BY <2>2
  <2>4. IsSeq(SubSeq(text, 2, n))
    BY <2>3, StretchIs
  <2>5. Tail(text) = SubSeq(text, 2, n)
    <3>1. text \in Seq({text[k] : k \in 1..Len(text)})
      BY SeqIs
    <3>2. Tail(text) = SubSeq(text, 2, Len(text))
      BY <2>1, <3>1
    <3> QED
      BY <2>2, <3>2
  <2> QED
    BY <1>2, <2>4, <2>5 DEF WithoutBom
<1> QED
  BY <1>1, <1>2

\* The mark in front.
LEMMA BomPut ==
  ASSUME NEW c, NEW w, IsSeq(w), NEW t, t = Cat(<<c>>, w)
  PROVE  t # <<>> /\ Head(t) = c /\ Tail(t) = w
<1>1. PICK n \in Nat : n = Len(w)
  BY DEF IsSeq
<1>2. IsPut(t, c, w)
  BY PutIs
<1>3. IsSeq(t) /\ Len(t) = n + 1 /\ t[1] = c /\ \A k \in 1..n : t[k + 1] = w[k]
  BY <1>1, <1>2 DEF IsPut
<1>4. t # <<>>
  BY <1>3, EmptyIsSeq
<1>5. PICK S : S = {t[k] : k \in 1..Len(t)}
  OBVIOUS
<1>6. t \in Seq(S)
  BY <1>3, <1>5, SeqIs
<1>7. Head(t) = c
  BY <1>3, <1>4, <1>6
<1>8. PICK u : u = Tail(t)
  OBVIOUS
<1>9. u \in Seq(S) /\ Len(u) = Len(t) - 1 /\ \A k \in 1..Len(t) - 1 : u[k] = t[k + 1]
  BY <1>4, <1>6, <1>8
<1>10. IsSeq(u)
  BY <1>9, IsSeqOf
<1>11. Len(u) = n /\ \A k \in 1..n : u[k] = w[k]
  BY <1>3, <1>9
<1>12. u = w
  BY <1>1, <1>10, <1>11, SameSeq
<1> QED
  BY <1>4, <1>7, <1>8, <1>12

\* The changes of a file: texts, and texts in their place.
AreChanges(changes) ==
  /\ IsSeq(changes)
  /\ \A k \in 1..Len(changes) : IsSeq(changes[k].old) /\ IsSeq(changes[k].new)

\* A text that is there and nowhere else.
LEMMA UniqueIs ==
  ASSUME NEW base, IsSeq(base), NEW old, IsSeq(old), old # <<>>, IsUnique(base, old),
         NEW a, a = Min(Occurrences(base, old))
  PROVE  /\ a \in Occurrences(base, old) /\ a \in Nat /\ a + Len(old) <= Len(base)
         /\ Len(old) \in Nat \ {0}
         /\ \A o \in Occurrences(base, old) : o \in Nat /\ a <= o /\ o < a + Len(old)
<1>1. PICK L \in Nat, m \in Nat : L = Len(base) /\ m = Len(old)
  BY DEF IsSeq
<1>2. m # 0
  BY <1>1, NoneIsEmpty
<1>3. PICK S : S = Occurrences(base, old)
  OBVIOUS
<1>4. S # {} /\ \A o \in S : o < Min(S) + m
  BY <1>1, <1>3 DEF IsUnique
<1>5. \A o \in S : o \in 0..L - m
  BY <1>1, <1>3 DEF Occurrences
<1>6. L - m \in Nat
  BY <1>4, <1>5
<1>7. S \in SUBSET (0..L - m)
  BY <1>5
<1>8. a \in S /\ \A o \in S : a <= o
  BY <1>3, <1>4, <1>6, <1>7, LeastIs
<1>9. a \in Nat /\ a + m <= L
  BY <1>5, <1>6, <1>8
<1>10. \A o \in S : o \in Nat /\ a <= o /\ o < a + m
  BY <1>3, <1>4, <1>5, <1>8
<1> QED
  BY <1>1, <1>2, <1>3, <1>8, <1>9, <1>10

\* The edits of the changes, as apply_replacements makes them.
ChangeOld(changes, k) == Normalized(changes[k].old)
EditOf(base, changes, k) ==
  Edit(Min(Occurrences(base, ChangeOld(changes, k))), Len(ChangeOld(changes, k)),
       Normalized(changes[k].new))
EditsOf(base, changes) == [k \in DOMAIN changes |-> EditOf(base, changes, k)]
Refuses(base, changes) ==
  \/ \E k \in DOMAIN changes :
       ChangeOld(changes, k) = <<>> \/ ~IsUnique(base, ChangeOld(changes, k))
  \/ Overlap(EditsOf(base, changes))

\* Where a change goes: there and nowhere else, apart from the others.
Away(i, m, j, n) == i + m <= j \/ j + n <= i
GoesOnly(base, changes, at, k) ==
  /\ at[k] \in Occurrences(base, ChangeOld(changes, k))
  /\ \A o \in Occurrences(base, ChangeOld(changes, k)) :
       o = at[k] \/ ~Away(o, Len(ChangeOld(changes, k)), at[k], Len(ChangeOld(changes, k)))
  /\ \A j \in DOMAIN changes :
       j # k => Away(at[k], Len(ChangeOld(changes, k)), at[j], Len(ChangeOld(changes, j)))

\* Changes that are not refused are edits of ranges that are apart.
LEMMA ChangesAreEdits ==
  ASSUME NEW base, IsSeq(base), NEW changes, AreChanges(changes), ~Refuses(base, changes),
         NEW edits, edits = EditsOf(base, changes), NEW n, n = Len(changes)
  PROVE  /\ AreEdits(edits, Len(base)) /\ AreApart(edits)
         /\ PlacesIn(edits, n) \in [DOMAIN changes -> 0..Len(base)]
         /\ Changes(edits, changes, PlacesIn(edits, n))
         /\ \A k \in DOMAIN changes : GoesOnly(base, changes, PlacesIn(edits, n), k)
         /\ \A k \in DOMAIN changes : Sans(edits[k].new)
<1>1. PICK L \in Nat : L = Len(base)
  BY DEF IsSeq
<1>2. n \in Nat /\ DOMAIN changes = 1..n
  BY SeqIs DEF AreChanges, IsSeq
<1>3. edits = [k \in 1..n |-> EditOf(base, changes, k)]
  BY <1>2 DEF EditsOf
<1>4. IsSeq(edits) /\ Len(edits) = n /\ DOMAIN edits = 1..n
  <2>1. edits = [k \in 1..n |-> edits[k]]
    BY <1>3
  <2> QED
    BY <1>2, <1>3, <2>1, MadeSeq
<1>5. ASSUME NEW k \in 1..n
      PROVE  /\ edits[k].at \in Nat /\ edits[k].count \in Nat \ {0}
             /\ edits[k].at + edits[k].count <= L
             /\ edits[k].count = Len(ChangeOld(changes, k))
             /\ edits[k].new = Normalized(changes[k].new)
             /\ IsSeq(edits[k].new) /\ Sans(edits[k].new)
             /\ edits[k].at \in Occurrences(base, ChangeOld(changes, k))
             /\ \A o \in Occurrences(base, ChangeOld(changes, k)) :
                  o \in Nat /\ edits[k].at <= o /\ o < edits[k].at + edits[k].count
  <2>1. PICK old, new : old = ChangeOld(changes, k) /\ new = Normalized(changes[k].new)
    OBVIOUS
  <2>2. IsSeq(old) /\ IsSeq(new) /\ Sans(new)
    <3>1. IsSeq(changes[k].old) /\ IsSeq(changes[k].new)
      BY DEF AreChanges
    <3> QED
      BY <2>1, <3>1, NormalizedIs DEF ChangeOld
  <2>3. old # <<>> /\ IsUnique(base, old)
    BY <1>2, <2>1 DEF Refuses
  <2>4. PICK a : a = Min(Occurrences(base, old))
    OBVIOUS
  <2>5. /\ a \in Occurrences(base, old) /\ a \in Nat /\ a + Len(old) <= L
        /\ Len(old) \in Nat \ {0}
        /\ \A o \in Occurrences(base, old) : o \in Nat /\ a <= o /\ o < a + Len(old)
    BY <1>1, <2>2, <2>3, <2>4, UniqueIs
  <2>6. edits[k].at = a /\ edits[k].count = Len(old) /\ edits[k].new = new
    BY <1>3, <2>1, <2>4 DEF EditOf, Edit
  <2> QED
    BY <2>1, <2>2, <2>5, <2>6
<1>6. ASSUME NEW i \in 1..n, NEW j \in 1..n, i # j, edits[i].at <= edits[j].at
      PROVE  edits[i].at + edits[i].count <= edits[j].at
  <2>1. ~(edits[i].at + edits[i].count > edits[j].at)
    BY <1>4, <1>6 DEF Refuses, Overlap
  <2> QED
    BY <1>5, <2>1
<1>7. AreEdits(edits, Len(base))
  <2>1. ASSUME NEW k \in 1..n
        PROVE  IsEdit(edits[k], Len(base))
    BY <1>1, <1>5 DEF IsEdit
  <2> QED
    BY <1>4, <2>1 DEF AreEdits
<1>8. AreApart(edits)
  <2>1. ASSUME NEW j \in 1..n, NEW k \in 1..n, edits[j].at < edits[k].at
        PROVE  edits[j].at + edits[j].count <= edits[k].at
    <3>1. j # k /\ edits[j].at <= edits[k].at
      BY <1>5, <2>1
    <3> QED
      BY <1>6, <3>1
  <2>2. ASSUME NEW j \in 1..n, NEW k \in 1..n, j < k, edits[j].at = edits[k].at
        PROVE  FALSE
    <3>1. PICK x, c : x = edits[j].at /\ c = edits[j].count
      OBVIOUS
    <3>2. x \in Nat /\ c \in Nat \ {0}
      BY <1>5, <3>1
    <3>3. j # k
      BY <1>2, <2>2
    <3>4. edits[j].at <= edits[k].at
      BY <2>2, <3>1, <3>2
    <3>5. x + c <= x
      BY <1>6, <2>2, <3>1, <3>3, <3>4
    <3> QED
      BY <3>2, <3>5
  <2> QED
    BY <1>4, <2>1, <2>2 DEF AreApart
<1>9. PICK at : at = PlacesIn(edits, n)
  OBVIOUS
<1>10. at = [k \in 1..n |-> edits[k].at]
  BY <1>9 DEF PlacesIn
<1>11. at \in [DOMAIN changes -> 0..Len(base)]
  <2>1. ASSUME NEW k \in 1..n
        PROVE  edits[k].at \in 0..L
    <3>1. PICK x, c : x = edits[k].at /\ c = edits[k].count
      OBVIOUS
    <3>2. x \in Nat /\ c \in Nat /\ x + c <= L
      BY <1>5, <3>1
    <3> QED
      BY <3>1, <3>2
  <2> QED
    BY <1>1, <1>2, <1>10, <2>1
<1>12. Changes(edits, changes, at)
  BY <1>2, <1>4, <1>5, <1>10 DEF Changes, ChangeOld
<1>13. ASSUME NEW k \in 1..n
       PROVE  GoesOnly(base, changes, at, k)
  <2>1. PICK a, m, old : a = at[k] /\ m = edits[k].count /\ old = ChangeOld(changes, k)
    OBVIOUS
  <2>2. /\ a \in Nat /\ m \in Nat \ {0} /\ m = Len(old) /\ a \in Occurrences(base, old)
        /\ \A o \in Occurrences(base, old) : o \in Nat /\ a <= o /\ o < a + m
    BY <1>5, <1>10, <2>1
  <2>3. ASSUME NEW o \in Occurrences(base, old)
        PROVE  ~Away(o, m, a, m)
    <3>1. o \in Nat /\ a <= o /\ o < a + m
      BY <2>2
    <3> QED
      BY <2>2, <3>1 DEF Away
  <2>4. ASSUME NEW j \in 1..n, j # k
        PROVE  Away(a, m, at[j], Len(ChangeOld(changes, j)))
    <3>1. PICK b, l : b = edits[j].at /\ l = edits[j].count
      OBVIOUS
    <3>2. at[j] = b /\ b \in Nat /\ l \in Nat /\ l = Len(ChangeOld(changes, j))
      BY <1>5, <1>10, <3>1
    <3>3. a = edits[k].at
      BY <1>10, <2>1
    <3>4. a <= b => a + m <= b
      BY <1>6, <2>1, <2>4, <3>1, <3>3
    <3>5. b <= a => b + l <= a
      BY <1>6, <2>4, <3>1, <3>3
    <3> QED
      BY <2>2, <3>2, <3>4, <3>5 DEF Away
  <2> QED
    BY <1>2, <2>1, <2>2, <2>3, <2>4 DEF GoesOnly
<1> QED
  BY <1>2, <1>5, <1>7, <1>8, <1>9, <1>11, <1>12, <1>13

\* The line ends of what is written are those of what was read.
SameEnds(before, after) ==
  \A k \in DOMAIN after :
    after[k] = LF => (k > 1 /\ after[k - 1] = CR) = IsCrlf(WithoutBom(before))

\* What is written, without the mark if one was read.
Unmarked(before, after) == IF IsBom(before) THEN Tail(after) ELSE after

\* What is said of all changes is what the reference says.
LEMMA ReplacementIs ==
  ASSUME NEW before, NEW changes, NEW after, NEW base, base = Normalized(WithoutBom(before)),
         IsBom(before) => IsBom(after), SameEnds(before, after),
         NEW at, at \in [DOMAIN changes -> 0..Len(base)],
         \A k \in DOMAIN changes : GoesOnly(base, changes, at, k),
         Normalized(Unmarked(before, after)) = Changed(base, changes, at)
  PROVE  IsReplacementResult(before, changes, after)
<1>1. \A k \in DOMAIN changes :
        /\ at[k] \in Occurrences(base, Normalized(changes[k].old))
        /\ \A o \in Occurrences(base, Normalized(changes[k].old)) :
             \/ o = at[k]
             \/ ~(\/ o + Len(Normalized(changes[k].old)) <= at[k]
                  \/ at[k] + Len(Normalized(changes[k].old)) <= o)
        /\ \A j \in DOMAIN changes : j # k =>
             \/ at[k] + Len(Normalized(changes[k].old)) <= at[j]
             \/ at[j] + Len(Normalized(changes[j].old)) <= at[k]
  BY Zenon DEF GoesOnly, Away, ChangeOld
<1>2. Normalized(IF IsBom(before) THEN Tail(after) ELSE after)
        = FlattenSeq([n \in 1..Len(base) + 1 |->
            FlattenSeq([k \in DOMAIN changes |->
              IF at[k] = n - 1 THEN Normalized(changes[k].new) ELSE <<>>])
            \o (IF n > Len(base) \/ ~(\A k \in DOMAIN changes :
                  \/ n - 1 < at[k] \/ at[k] + Len(Normalized(changes[k].old)) <= n - 1)
                THEN <<>> ELSE <<base[n]>>)])
  BY Zenon DEF Unmarked, Changed, ChangePiece, ChangeHere, ChangeKept
<1>3. \A k \in DOMAIN after :
        after[k] = LF => (k > 1 /\ after[k - 1] = CR) = IsCrlf(WithoutBom(before))
  BY Zenon DEF SameEnds
<1> QED
  BY <1>1, <1>2, <1>3, Zenon DEF IsReplacementResult

\* Text with "\r\n" for every line end, and text without carriage returns.
LEMMA EndsAreSame ==
  ASSUME NEW before, NEW after, IsSeq(after),
         IF IsCrlf(WithoutBom(before)) THEN Ends(after) ELSE Sans(after)
  PROVE  SameEnds(before, after)
<1>1. PICK n \in Nat : n = Len(after)
  BY DEF IsSeq
<1>2. DOMAIN after = 1..n
  BY <1>1, SeqIs
<1>3. IsCrlf(WithoutBom(before)) \in BOOLEAN
  BY DEF IsCrlf
<1>4. ASSUME NEW k \in 1..n, after[k] = LF
      PROVE  (k > 1 /\ after[k - 1] = CR) = IsCrlf(WithoutBom(before))
  <2>1. CASE IsCrlf(WithoutBom(before))
    <3>1. k > 1 /\ after[k - 1] = CR
      BY <1>1, <1>4, <2>1 DEF Ends
    <3> QED
      BY <2>1, <3>1
  <2>2. CASE ~IsCrlf(WithoutBom(before))
    <3>1. ~(k > 1 /\ after[k - 1] = CR)
      <4>1. ASSUME k > 1
            PROVE  after[k - 1] # CR
        <5>1. k - 1 \in 1..n
          BY <4>1
        <5> QED
          BY <1>1, <2>2, <5>1 DEF Sans
      <4> QED
        BY <4>1
    <3> QED
      BY <1>3, <2>2, <3>1
  <2> QED
    BY <2>1, <2>2
<1> QED
  BY <1>2, <1>4 DEF SameEnds

\* Pieces without carriage returns.
LEMMA PiecesSans ==
  ASSUME NEW base, IsSeq(base), Sans(base), NEW edits, AreEdits(edits, Len(base)),
         \A k \in 1..Len(edits) : Sans(edits[k].new)
  PROVE  Sans(FlattenSeq(Pieces(base, edits)))
<1>1. PICK m : m = Len(base) + 1
  OBVIOUS
<1>2. /\ IsSeqSeq(Pieces(base, edits)) /\ Len(Pieces(base, edits)) = m
      /\ \A n \in 1..m : /\ Pieces(base, edits)[n] = PieceOf(base, edits, n)
                         /\ IsSeq(NewAt(edits, n - 1)) /\ IsSeq(KeptOf(base, edits, n))
  BY <1>1, PiecesAre
<1>3. ASSUME NEW n \in 1..m
      PROVE  Sans(Pieces(base, edits)[n])
  <2>1. PICK i, f : i = n - 1 /\ f = NewEach(edits, i)
    OBVIOUS
  <2>2. /\ IsSeqSeq(f) /\ Len(f) = Len(edits)
        /\ \A k \in 1..Len(edits) : f[k] = IF edits[k].at = i THEN edits[k].new ELSE <<>>
    BY <2>1, NewEachIs
  <2>3. \A k \in 1..Len(f) : Sans(f[k])
    BY <2>2, EmptyIsSeq DEF Sans
  <2>4. Sans(NewAt(edits, i))
    BY <2>1, <2>2, <2>3, FlattenSans DEF NewAt
  <2>5. Sans(KeptOf(base, edits, n))
    <3>1. CASE n > Len(base) \/ Covered(edits, n - 1)
      BY <3>1, EmptyIsSeq DEF KeptOf, Sans
    <3>2. CASE ~(n > Len(base) \/ Covered(edits, n - 1))
      <4>1. n \in 1..Len(base)
        BY <1>1, <3>2 DEF IsSeq
      <4>2. PICK c : c = base[n]
        OBVIOUS
      <4>3. KeptOf(base, edits, n) = <<c>> /\ c # CR
        BY <3>2, <4>1, <4>2 DEF KeptOf, Sans
      <4> QED
        BY <4>3, SingleIs DEF Sans
    <3> QED
      BY <3>1, <3>2
  <2>6. Sans(PieceOf(base, edits, n))
    BY <1>2, <2>1, <2>4, <2>5, CatSans DEF PieceOf
  <2> QED
    BY <1>2, <2>6
<1> QED
  BY <1>2, <1>3, FlattenSans

\* Replacements that are not rejected are what the reference says.
LEMMA ReplacementsAre ==
  ASSUME NEW text, IsSeq(text), NEW changes, AreChanges(changes),
         apply_replacements(text, changes).ok
  PROVE  /\ IsSeq(apply_replacements(text, changes).text)
         /\ IsReplacementResult(text, changes, apply_replacements(text, changes).text)
<1>1. PICK body, base : body = WithoutBom(text) /\ base = Normalized(body)
  OBVIOUS
<1>2. IsSeq(body) /\ IsSeq(base) /\ Sans(base)
  BY <1>1, BomIs, NormalizedIs
<1>3. PICK edits, result : edits = EditsOf(base, changes) /\ result = SpliceAll(base, edits)
  OBVIOUS
<1>4. PICK styled : styled = IF IsCrlf(body) THEN Crlf(result) ELSE result
  OBVIOUS
<1>5. PICK after : after = IF IsBom(text) THEN <<"bom">> \o styled ELSE styled
  OBVIOUS
<1>6. apply_replacements(text, changes)
        = IF Refuses(base, changes) \/ result = base THEN Rejected ELSE Modified(after)
  <2>1. apply_replacements(text, changes)
          = IF \/ \/ \E k \in DOMAIN changes :
                       ChangeOld(changes, k) = <<>> \/ ~IsUnique(base, ChangeOld(changes, k))
                  \/ Overlap(EditsOf(base, changes))
               \/ SpliceAll(base, EditsOf(base, changes)) = base
            THEN Rejected
            ELSE Modified(IF IsBom(text)
                          THEN <<"bom">> \o (IF IsCrlf(body)
                                             THEN Crlf(SpliceAll(base, EditsOf(base, changes)))
                                             ELSE SpliceAll(base, EditsOf(base, changes)))
                          ELSE IF IsCrlf(body) THEN Crlf(SpliceAll(base, EditsOf(base, changes)))
                               ELSE SpliceAll(base, EditsOf(base, changes)))
    <3>1. apply_replacements(text, changes)
            = IF \/ \E k \in DOMAIN changes :
                      \/ ChangeOld(changes, k) = <<>>
                      \/ ~IsUnique(Normalized(WithoutBom(text)), ChangeOld(changes, k))
                 \/ Overlap(EditsOf(Normalized(WithoutBom(text)), changes))
                 \/ SpliceAll(Normalized(WithoutBom(text)),
                              EditsOf(Normalized(WithoutBom(text)), changes))
                      = Normalized(WithoutBom(text))
              THEN Rejected
              ELSE Modified(
                IF IsBom(text)
                THEN <<"bom">> \o
                       (IF IsCrlf(WithoutBom(text))
                        THEN Crlf(SpliceAll(Normalized(WithoutBom(text)),
                                            EditsOf(Normalized(WithoutBom(text)), changes)))
                        ELSE SpliceAll(Normalized(WithoutBom(text)),
                                       EditsOf(Normalized(WithoutBom(text)), changes)))
                ELSE IF IsCrlf(WithoutBom(text))
                     THEN Crlf(SpliceAll(Normalized(WithoutBom(text)),
                                         EditsOf(Normalized(WithoutBom(text)), changes)))
                     ELSE SpliceAll(Normalized(WithoutBom(text)),
                                    EditsOf(Normalized(WithoutBom(text)), changes)))
      BY Zenon DEF apply_replacements, EditsOf, EditOf, ChangeOld
    <3> QED
      BY <1>1, <3>1
  <2> QED
    BY <1>3, <1>4, <1>5, <2>1 DEF Refuses
<1>7. ~Refuses(base, changes) /\ apply_replacements(text, changes).text = after
  BY <1>6 DEF Rejected, Modified
<1>8. PICK n : n = Len(changes)
  OBVIOUS
<1>9. PICK at : at = PlacesIn(edits, n)
  OBVIOUS
<1>10. /\ AreEdits(edits, Len(base)) /\ AreApart(edits)
       /\ at \in [DOMAIN changes -> 0..Len(base)] /\ Changes(edits, changes, at)
       /\ \A k \in DOMAIN changes : GoesOnly(base, changes, at, k)
       /\ \A k \in DOMAIN changes : Sans(edits[k].new)
  BY <1>2, <1>3, <1>7, <1>8, <1>9, ChangesAreEdits
<1>11. result = FlattenSeq(Pieces(base, edits))
  BY <1>2, <1>3, <1>10, SplicedAll
<1>12. result = Changed(base, changes, at)
  BY <1>2, <1>10, <1>11, ChangedIs
<1>13. IsSeq(result) /\ Sans(result)
  <2>1. IsSeq(result)
    BY <1>2, <1>10, <1>11, PiecesAre, FlattenIsSeq
  <2>2. \A k \in 1..Len(edits) : Sans(edits[k].new)
    <3>1. DOMAIN edits = DOMAIN changes
      BY <1>10 DEF Changes
    <3>2. DOMAIN edits = 1..Len(edits)
      BY <1>10, SeqIs DEF AreEdits
    <3> QED
      BY <1>10, <3>1, <3>2
  <2>3. Sans(result)
    BY <1>2, <1>10, <1>11, <2>2, PiecesSans
  <2> QED
    BY <2>1, <2>3
<1>14. /\ IsSeq(styled) /\ Normalized(styled) = result
       /\ IF IsCrlf(body) THEN Ends(styled) ELSE Sans(styled)
  <2>1. CASE IsCrlf(body)
    BY <1>4, <1>13, <2>1, CrlfIs
  <2>2. CASE ~IsCrlf(body)
    BY <1>4, <1>13, <2>2, SansIsNormal
  <2> QED
    BY <2>1, <2>2
<1>15. /\ IsBom(text) => IsBom(after)
       /\ Unmarked(text, after) = styled
       /\ IsSeq(after) /\ IF IsCrlf(body) THEN Ends(after) ELSE Sans(after)
  <2>1. CASE ~IsBom(text)
    BY <1>5, <1>14, <2>1 DEF Unmarked
  <2>2. CASE IsBom(text)
    <3>1. PICK c : c = "bom"
      OBVIOUS
    <3>2. c # LF /\ c # CR
      BY <3>1 DEF LF, CR
    <3>3. after = Cat(<<c>>, styled)
      BY <1>5, <2>2, <3>1 DEF Cat
    <3>4. after # <<>> /\ Head(after) = c /\ Tail(after) = styled
      BY <1>14, <3>3, BomPut
    <3>5. IsSeq(after)
      BY <1>14, <3>3, PutIs DEF IsPut
    <3>6. IsCrlf(body) => Ends(after)
      BY <1>14, <3>2, <3>3, EndsPut
    <3>7. ~IsCrlf(body) => Sans(after)
      <4>1. IsSeq(<<c>>) /\ Sans(<<c>>)
        BY <3>2, SingleIs DEF Sans
      <4> QED
        BY <1>14, <3>3, <4>1, CatSans
    <3> QED
      BY <2>2, <3>1, <3>4, <3>5, <3>6, <3>7 DEF IsBom, Unmarked
  <2> QED
    BY <2>1, <2>2
<1>16. SameEnds(text, after)
  BY <1>1, <1>15, EndsAreSame
<1>17. Normalized(Unmarked(text, after)) = Changed(base, changes, at)
  BY <1>12, <1>14, <1>15
<1> QED
  BY <1>1, <1>7, <1>10, <1>15, <1>16, <1>17, ReplacementIs

-----------------------------------------------------------------------------
(* Updates (apply_codex): texts are split into texts, and joined again. *)

\* Sequences of sequences, one behind the other.
LEMMA CatSeqs ==
  ASSUME NEW s, IsSeqSeq(s), NEW t, IsSeqSeq(t)
  PROVE  IsSeqSeq(Cat(s, t))
<1>1. PICK u, a, b : u = Cat(s, t) /\ a = Len(s) /\ b = Len(t)
  OBVIOUS
<1>2. IsSeq(s) /\ IsSeq(t) /\ a \in Nat /\ b \in Nat
  BY <1>1 DEF IsSeqSeq, IsSeq
<1>3. IsSeq(u) /\ Len(u) = a + b /\ Holds(u, s, t)
  BY <1>1, <1>2, CatIs, CatHolds
<1>4. /\ \A k \in 1..a : u[k] = s[k]
      /\ \A k \in 1..b : u[a + k] = t[k]
  BY <1>1, <1>3 DEF Holds
<1>5. ASSUME NEW k \in 1..a + b
      PROVE  IsSeq(u[k])
  <2>1. CASE k <= a
    BY <1>1, <1>2, <1>4, <2>1 DEF IsSeqSeq
  <2>2. CASE k > a
    <3>1. PICK j : j = k - a
      OBVIOUS
    <3>2. j \in 1..b /\ a + j = k
      BY <1>2, <2>2, <3>1
    <3> QED
      BY <1>1, <1>4, <3>2 DEF IsSeqSeq
  <2> QED
    BY <1>2, <2>1, <2>2
<1> QED
  BY <1>1, <1>3, <1>5 DEF IsSeqSeq

\* As many of them as there are.
LEMMA FlattenSeqs ==
  ASSUME NEW ss, IsSeqSeq(ss), \A k \in 1..Len(ss) : IsSeqSeq(ss[k])
  PROVE  IsSeqSeq(FlattenSeq(ss))
<1>1. PICK n \in Nat : n = Len(ss)
  BY DEF IsSeqSeq, IsSeq
<1>2. PICK h : IsRun(ss, n, h)
  BY CatFolds
<1>3. FlattenSeq(ss) = h[1]
  BY <1>1, <1>2, FlattenIsRun
<1>4. h[n + 1] = <<>> /\ \A k \in 1..n : h[k] = Cat(ss[k], h[k + 1])
  BY <1>2 DEF IsRun
<1> DEFINE T == {k \in 0..n : IsSeqSeq(h[k + 1])}
<1>5. n \in T
  BY <1>4, EmptyIsSeq DEF IsSeqSeq
<1>6. ASSUME NEW k \in 1..n, k \in T
      PROVE  k - 1 \in T
  <2>1. PICK s, t : s = ss[k] /\ t = h[k + 1]
    OBVIOUS
  <2>2. IsSeqSeq(s) /\ IsSeqSeq(t)
    BY <1>1, <1>6, <2>1
  <2>3. IsSeqSeq(Cat(s, t))
    BY <2>2, CatSeqs
  <2>4. h[k] = Cat(s, t) /\ k - 1 \in 0..n /\ k - 1 + 1 = k
    BY <1>4, <2>1
  <2> QED
    BY <2>3, <2>4
<1> HIDE DEF T
<1>7. \A k \in 0..n : k \in T
  BY <1>5, <1>6, DownTo
<1>8. 0 \in T
  BY <1>7
<1> QED
  BY <1>3, <1>8 DEF T

\* A sequence more.
LEMMA AppendSeqs ==
  ASSUME NEW s, IsSeqSeq(s), NEW x, IsSeq(x)
  PROVE  IsSeqSeq(Append(s, x))
BY FlattenAppend

\* All sequences but the last.
LEMMA FrontSeqs ==
  ASSUME NEW s, IsSeqSeq(s), s # <<>>
  PROVE  IsSeqSeq(Front(s))
<1>1. PICK n, t : n = Len(s) /\ t = Front(s)
  OBVIOUS
<1>2. /\ n \in Nat \ {0} /\ IsSeq(t) /\ Len(t) = n - 1
      /\ \A k \in 1..n - 1 : t[k] = s[k]
  BY <1>1, FrontIs DEF IsSeqSeq
<1>3. \A k \in 1..n - 1 : IsSeq(t[k])
  BY <1>1, <1>2 DEF IsSeqSeq
<1> QED
  BY <1>1, <1>2, <1>3 DEF IsSeqSeq

\* A text is split into texts.
LEMMA SplitSeqs ==
  ASSUME NEW text, IsSeq(text)
  PROVE  IsSeqSeq(split(text)) /\ split(text) # <<>>
<1>1. PICK n \in Nat : n = Len(text)
  BY DEF IsSeq
<1>2. PICK r : IsSplit(text, n, r)
  BY <1>1, SplitFolds
<1>3. /\ r[0] = << <<>> >> /\ r[n] = split(text)
      /\ \A k \in 1..n : r[k] = SplitAt(text[k], r[k - 1])
  BY <1>2 DEF IsSplit
<1> DEFINE T == {k \in 0..n : IsSeqSeq(r[k]) /\ r[k] # <<>>}
<1>4. 0 \in T
  <2>1. IsSeq(<< <<>> >>) /\ Len(<< <<>> >>) = 1 /\ << <<>> >>[1] = <<>>
    BY SingleIs
  <2>2. IsSeqSeq(<< <<>> >>) /\ << <<>> >> # <<>>
    BY <2>1, EmptyIsSeq DEF IsSeqSeq
  <2> QED
    BY <1>3, <2>2
<1>5. ASSUME NEW k \in 0..n, k < n, k \in T
      PROVE  k + 1 \in T
  <2>1. PICK m, p, c : m = k + 1 /\ p = r[k] /\ c = text[m]
    OBVIOUS
  <2>2. m \in 1..n /\ m - 1 = k
    BY <1>5, <2>1
  <2>3. r[m] = SplitAt(c, p)
    BY <1>3, <2>1, <2>2
  <2>4. IsSeqSeq(p) /\ p # <<>> /\ IsSeq(p)
    BY <1>5, <2>1 DEF IsSeqSeq
  <2>5. PICK l : l = Len(p)
    OBVIOUS
  <2>6. l \in Nat /\ l # 0 /\ l \in 1..l
    <3>1. l \in Nat /\ l # 0
      BY <2>4, <2>5, NoneIsEmpty DEF IsSeq
    <3> QED
      BY <3>1
  <2>7. CASE c = LF
    <3>1. r[m] = Append(p, <<>>)
      BY <2>3, <2>7 DEF SplitAt
    <3>2. IsSeqSeq(r[m])
      BY <2>4, <3>1, EmptyIsSeq, AppendSeqs
    <3>3. Len(r[m]) = l + 1
      BY <2>4, <2>5, <3>1, AppendIs
    <3>4. r[m] # <<>>
      BY <2>6, <3>3, EmptyIsSeq
    <3> QED
      BY <2>1, <2>2, <3>2, <3>4
  <2>8. CASE c # LF
    <3>1. PICK x : x = Append(p[l], c)
      OBVIOUS
    <3>2. PICK q : q = [p EXCEPT ![l] = x]
      OBVIOUS
    <3>3. r[m] = q
      BY <2>3, <2>5, <2>8, <3>1, <3>2 DEF SplitAt
    <3>4. p = [j \in 1..l |-> p[j]]
      BY <2>4, <2>5 DEF IsSeq
    <3>5. q = [j \in 1..l |-> IF j = l THEN x ELSE p[j]]
      BY <3>2, <3>4
    <3>6. q = [j \in 1..l |-> q[j]]
      BY <3>5
    <3>7. IsSeq(q) /\ Len(q) = l
      BY <2>6, <3>6, MadeSeq
    <3>8. IsSeq(p[l]) /\ \A j \in 1..l : IsSeq(p[j])
      BY <2>4, <2>5, <2>6 DEF IsSeqSeq
    <3>9. IsSeq(x)
      BY <3>1, <3>8, AppendIs
    <3>10. \A j \in 1..l : IsSeq(q[j])
      BY <3>5, <3>8, <3>9
    <3>11. IsSeqSeq(q) /\ q # <<>>
      BY <2>6, <3>7, <3>10, EmptyIsSeq DEF IsSeqSeq
    <3> QED
      BY <2>1, <2>2, <3>3, <3>11
  <2> QED
    BY <2>7, <2>8
<1> HIDE DEF T
<1>6. n \in T
  BY <1>4, <1>5, UpTo
<1> QED
  BY <1>3, <1>6 DEF T

\* The lines of a text are texts.
LEMMA LinesAreSeqs ==
  ASSUME NEW text, IsSeq(text)
  PROVE  IsSeqSeq(LinesOf(text))
<1>1. PICK lines : lines = split(text)
  OBVIOUS
<1>2. IsSeqSeq(lines) /\ IsSeqSeq(Front(lines))
  BY <1>1, SplitSeqs, FrontSeqs
<1> QED
  BY <1>1, <1>2 DEF LinesOf

\* What the edits of a sequence of sequences leave of it.
LEMMA PiecesSeqs ==
  ASSUME NEW s, IsSeqSeq(s), NEW edits, AreEdits(edits, Len(s)),
         \A k \in 1..Len(edits) : IsSeqSeq(edits[k].new)
  PROVE  IsSeqSeq(FlattenSeq(Pieces(s, edits)))
<1>1. PICK m : m = Len(s) + 1
  OBVIOUS
<1>2. IsSeq(s) /\ Len(s) \in Nat
  BY DEF IsSeqSeq, IsSeq
<1>3. /\ IsSeqSeq(Pieces(s, edits)) /\ Len(Pieces(s, edits)) = m
      /\ \A n \in 1..m : Pieces(s, edits)[n] = PieceOf(s, edits, n)
  BY <1>1, <1>2, PiecesAre
<1>4. IsSeqSeq(<<>>)
  BY EmptyIsSeq DEF IsSeqSeq
<1>5. ASSUME NEW n \in 1..m
      PROVE  IsSeqSeq(Pieces(s, edits)[n])
  <2>1. PICK i, f : i = n - 1 /\ f = NewEach(edits, i)
    OBVIOUS
  <2>2. /\ IsSeqSeq(f) /\ Len(f) = Len(edits)
        /\ \A k \in 1..Len(edits) : f[k] = IF edits[k].at = i THEN edits[k].new ELSE <<>>
    BY <2>1, NewEachIs
  <2>3. \A k \in 1..Len(f) : IsSeqSeq(f[k])
    BY <1>4, <2>2
  <2>4. IsSeqSeq(NewAt(edits, i))
    BY <2>1, <2>2, <2>3, FlattenSeqs DEF NewAt
  <2>5. IsSeqSeq(KeptOf(s, edits, n))
    <3>1. CASE n > Len(s) \/ Covered(edits, n - 1)
      BY <1>4, <3>1 DEF KeptOf
    <3>2. CASE ~(n > Len(s) \/ Covered(edits, n - 1))
      <4>1. n \in 1..Len(s)
        BY <1>1, <1>2, <3>2
      <4>2. PICK x : x = s[n]
        OBVIOUS
      <4>3. KeptOf(s, edits, n) = <<x>> /\ IsSeq(x)
        BY <3>2, <4>1, <4>2 DEF KeptOf, IsSeqSeq
      <4> QED
        BY <4>3, SingleIs DEF IsSeqSeq
    <3> QED
      BY <3>1, <3>2
  <2>6. IsSeqSeq(PieceOf(s, edits, n))
    BY <2>1, <2>4, <2>5, CatSeqs DEF PieceOf
  <2> QED
    BY <1>3, <2>6
<1> QED
  BY <1>3, <1>5, FlattenSeqs

\* Lines that are joined.
LEMMA JoinIs ==
  ASSUME NEW lines, IsSeqSeq(lines)
  PROVE  IsSeq(join(lines))
<1>1. PICK n \in Nat : n = Len(lines)
  BY DEF IsSeqSeq, IsSeq
<1>2. DOMAIN lines = 1..n
  BY <1>1, SeqIs DEF IsSeqSeq
<1>3. PICK s : s = <<LF>>
  OBVIOUS
<1>4. IsSeq(s)
  BY <1>3, SingleIs
<1>5. PICK f : f = [k \in 1..n |-> IF k = 1 THEN lines[k] ELSE Cat(s, lines[k])]
  OBVIOUS
<1>6. join(lines) = FlattenSeq(f)
  BY <1>2, <1>3, <1>5, Zenon DEF join, Cat
<1>7. f = [k \in 1..n |-> f[k]]
  BY <1>5
<1>8. IsSeq(f) /\ Len(f) = n
  BY <1>7, MadeSeq
<1>9. ASSUME NEW k \in 1..n
      PROVE  IsSeq(f[k])
  <2>1. IsSeq(lines[k])
    BY <1>1 DEF IsSeqSeq
  <2>2. IsSeq(Cat(s, lines[k]))
    BY <1>4, <2>1, CatIs
  <2> QED
    BY <1>5, <2>1, <2>2
<1>10. IsSeqSeq(f)
  BY <1>8, <1>9 DEF IsSeqSeq
<1> QED
  BY <1>6, <1>10, FlattenIsSeq

\* A chunk as a patch is read into it: the lines that take the place of others
\* are texts.
ChunkParts == {"anchor", "old", "new", "eof"}
IsHunk(chunk) ==
  /\ chunk = [part \in ChunkParts |-> chunk[part]]
  /\ IsChunk(chunk) /\ IsSeqSeq(chunk.new)
AreHunks(chunks) == IsSeq(chunks) /\ \A k \in 1..Len(chunks) : IsHunk(chunks[k])

\* It is a chunk.
LEMMA HunksAreChunks ==
  ASSUME NEW chunks, AreHunks(chunks)
  PROVE  AreChunks(chunks) /\ \A k \in 1..Len(chunks) : IsSeqSeq(chunks[k].new)
BY DEF AreHunks, IsHunk, AreChunks

\* An update that is not rejected is what the reference says.
LEMMA CodexIs ==
  ASSUME NEW text, IsSeq(text), NEW chunks, AreHunks(chunks), apply_codex(text, chunks).ok
  PROVE  /\ IsSeq(apply_codex(text, chunks).text)
         /\ IsCodexResult(text, chunks, apply_codex(text, chunks).text)
<1>1. PICK lines : lines = LinesOf(text)
  OBVIOUS
<1>2. IsSeqSeq(lines) /\ IsSeq(lines) /\ AreChunks(chunks)
  BY <1>1, LinesAreSeqs, HunksAreChunks DEF IsSeqSeq
<1>3. PICK p : p = PlanOf(lines, chunks)
  OBVIOUS
<1>4. apply_codex(text, chunks)
        = IF ~p.ok THEN Rejected ELSE Modified(join(Terminated(SpliceAll(lines, p.edits))))
  <2>1. apply_codex(text, chunks)
          = IF ~PlanOf(LinesOf(text), chunks).ok THEN Rejected
            ELSE Modified(join(Terminated(SpliceAll(LinesOf(text),
                                                    PlanOf(LinesOf(text), chunks).edits))))
    BY Zenon DEF apply_codex, PlanOf
  <2> QED
    BY <1>1, <1>3, <2>1, Zenon
<1>5. p.ok
  BY <1>4 DEF Rejected
<1>6. apply_codex(text, chunks).text = join(Terminated(SpliceAll(lines, p.edits)))
  BY <1>4, <1>5 DEF Modified
<1>7. PICK n : n = Len(chunks)
  OBVIOUS
<1>8. PICK short : Laid(lines, chunks, p, short, n)
  BY <1>2, <1>3, <1>5, <1>7, PlanIsLaid
<1>9. PICK at, sh : at = PlacesIn(p.edits, n) /\ sh = ShortIn(short, n)
  OBVIOUS
<1>10. /\ AreEdits(p.edits, Len(lines)) /\ AreApart(p.edits)
       /\ at \in [DOMAIN chunks -> 0..Len(lines)] /\ sh \in [DOMAIN chunks -> BOOLEAN]
       /\ Realizes(p.edits, chunks, at, sh) /\ IsPlacement(lines, chunks, at, sh)
  BY <1>2, <1>7, <1>8, <1>9, LaidIsPlacement
<1>11. SpliceAll(lines, p.edits) = FlattenSeq(Pieces(lines, p.edits))
  BY <1>2, <1>10, SplicedAll
<1>12. Assembled(lines, chunks, at, sh) = SpliceAll(lines, p.edits)
  BY <1>10, <1>11, AssembledIs
<1>13. IsSeq(apply_codex(text, chunks).text)
  <2>1. DOMAIN p.edits = 1..Len(p.edits) /\ DOMAIN p.edits = DOMAIN chunks
        /\ DOMAIN chunks = 1..Len(chunks)
    BY <1>2, <1>10, SeqIs DEF AreEdits, AreChunks, Realizes
  <2>2. ASSUME NEW k \in 1..Len(p.edits)
        PROVE  IsSeqSeq(p.edits[k].new)
    <3>1. PICK new : new = chunks[k].new
      OBVIOUS
    <3>2. IsSeqSeq(new)
      BY <2>1, <3>1, HunksAreChunks
    <3>3. IsSeqSeq(DropBlank(new))
      BY <3>2, FrontSeqs DEF DropBlank
    <3>4. p.edits[k].new = IF sh[k] THEN DropBlank(new) ELSE new
      BY <1>10, <2>1, <3>1 DEF Realizes, ChunkNew
    <3> QED
      BY <3>2, <3>3, <3>4
  <2>3. PICK result : result = SpliceAll(lines, p.edits)
    OBVIOUS
  <2>4. IsSeqSeq(result)
    BY <1>2, <1>10, <1>11, <2>2, <2>3, PiecesSeqs
  <2>5. IsSeqSeq(Terminated(result))
    BY <2>4, EmptyIsSeq, AppendSeqs DEF Terminated
  <2> QED
    BY <1>6, <2>3, <2>5, JoinIs
<1>14. IsCodexResult(text, chunks, apply_codex(text, chunks).text)
  BY <1>1, <1>6, <1>10, <1>12, Zenon DEF IsCodexResult
<1> QED
  BY <1>13, <1>14

-----------------------------------------------------------------------------
(* The sections of a patch, as it is read (parse_codex). *)

\* The lines of a patch at the places in a set are read.
ReadOver(lines, g, places) ==
  IF places = {} THEN Reading(<<>>, NoChunk, FALSE)
  ELSE ReadLine(g[places \ {Greatest(places)}], lines[Greatest(places)])
AreRead(lines, all, g) == g = [places \in SUBSET all |-> ReadOver(lines, g, places)]

\* What parse_codex has read when it closes the last section.
ReadOf(lines) == FoldLeft(ReadLine, Reading(<<>>, NoChunk, FALSE), lines)
IsRead(lines, n, r) ==
  /\ r[0] = Reading(<<>>, NoChunk, FALSE) /\ r[n] = ReadOf(lines)
  /\ \A k \in 1..n : r[k] = ReadLine(r[k - 1], lines[k])

\* A patch is read one line after the other.
LEMMA ReadFolds ==
  ASSUME NEW lines, IsSeq(lines), NEW n, n = Len(lines)
  PROVE  \E r : IsRead(lines, n, r)
<1>1. PICK base : base = Reading(<<>>, NoChunk, FALSE)
  OBVIOUS
<1>2. ReadOf(lines) = (CHOOSE g : AreRead(lines, DOMAIN lines, g))[DOMAIN lines]
  BY Zenon DEF ReadOf, FoldLeft, MapThenFoldSet, AreRead, ReadOver, Greatest
<1>3. n \in Nat /\ DOMAIN lines = 1..n
  BY SeqIs DEF IsSeq
<1>4. ASSUME NEW g
      PROVE  AreRead(lines, 1..n, g)
               <=> IsFold("read", 0, base, lines, SUBSET (1..n), g)
  <2>1. ASSUME NEW places
        PROVE  ReadOver(lines, g, places) = Comes("read", 0, base, lines, g, places)
    <3>1. Taken("read", places) = Greatest(places)
      BY AppliedRead DEF Taken
    <3> QED
      BY <1>1, <3>1, AppliedRead, Zenon DEF ReadOver, Comes
  <2> QED
    BY <2>1 DEF AreRead, IsFold
<1>5. PICK g : g = CHOOSE f : AreRead(lines, 1..n, f)
  OBVIOUS
<1>6. IsFold("read", 0, base, lines, SUBSET (1..n), g)
  BY <1>3, <1>4, <1>5, FoldExists
<1>7. IsLeft("read")
  BY AppliedRead
<1>8. LeadsLeft("read", 0, base, lines, n, g[1..n])
  BY <1>3, <1>6, <1>7, FoldedLeft
<1>9. PICK r : RunsLeft("read", 0, base, lines, n, r) /\ r[n] = g[1..n]
  BY <1>8 DEF LeadsLeft
<1>10. r[n] = ReadOf(lines)
  BY <1>2, <1>3, <1>5, <1>9, Zenon
<1>11. r[0] = base /\ \A k \in 1..n : r[k] = Applied("read", 0, lines[k], r[k - 1])
  BY <1>9 DEF RunsLeft
<1>12. \A k \in 1..n : r[k] = ReadLine(r[k - 1], lines[k])
  BY <1>11, AppliedRead
<1> QED
  BY <1>1, <1>10, <1>11, <1>12 DEF IsRead

\* What a section consists of.
SectionParts == {"kind", "path", "moveTo", "content", "chunks", "edits"}

\* What a section puts into a file.
HasContent(x) == IsSeq(x.content) /\ AreHunks(x.chunks) /\ AreChanges(x.edits)

\* A section of a patch: only an update moves its file.
IsSection(x) ==
  /\ x = [part \in SectionParts |-> x[part]]
  /\ x.kind \in {"add", "delete", "update", "replace"}
  /\ x.path \in Paths
  /\ x.moveTo # "" => x.kind = "update" /\ x.moveTo \in Paths
  /\ HasContent(x)

AreSections(x) == IsSeq(x) /\ \A k \in 1..Len(x) : IsSection(x[k])

\* What was read of a patch.
ReadingParts == {"ok", "sections", "chunk", "header"}
IsReading(r) ==
  /\ r = [part \in ReadingParts |-> r[part]]
  /\ r.ok \in BOOLEAN
  /\ r.ok => AreSections(r.sections) /\ IsHunk(r.chunk)

\* A line has a path, or a text or an anchor, if its kind does.
HasLine(line) == line.kind \in {"anchor", "+", "-", " "} => IsSeq(line.line)
NamesPath(line) ==
  /\ line.kind \in {"add", "delete", "update", "moveTo"} => line.path \in Paths
  /\ HasLine(line)

\* No lines are chunks of a text, and no changes of it.
LEMMA NothingToPut == IsHunk(NoChunk) /\ IsSeq(<<>>) /\ AreHunks(<<>>) /\ AreChanges(<<>>)
BY EmptyIsSeq
   DEF IsHunk, ChunkParts, IsChunk, NoChunk, IsSeqSeq, AreHunks, AreChanges

\* Nothing, and what cannot be read.
LEMMA NothingRead == IsReading(Reading(<<>>, NoChunk, FALSE)) /\ IsReading(Unreadable)
BY EmptyIsSeq, NothingToPut
   DEF IsReading, ReadingParts, Reading, Unreadable, AreSections

\* Another section takes the place of one.
LEMMA OtherSection ==
  ASSUME NEW x, AreSections(x), NEW n \in 1..Len(x), NEW y, IsSection(y)
  PROVE  AreSections([x EXCEPT ![n] = y])
<1>1. PICK z : z = [x EXCEPT ![n] = y]
  OBVIOUS
<1>2. PICK m \in Nat : m = Len(x)
  BY DEF AreSections, IsSeq
<1>3. x = [k \in 1..m |-> x[k]]
  BY <1>2 DEF AreSections, IsSeq
<1>4. z = [k \in 1..m |-> IF k = n THEN y ELSE x[k]]
  BY <1>1, <1>2, <1>3
<1>5. z = [k \in 1..m |-> z[k]]
  BY <1>4
<1>6. IsSeq(z) /\ Len(z) = m
  BY <1>2, <1>5, MadeSeq
<1>7. \A k \in 1..m : IsSection(z[k])
  BY <1>2, <1>4 DEF AreSections
<1> QED
  BY <1>1, <1>6, <1>7 DEF AreSections

\* One section more.
LEMMA OneMoreSection ==
  ASSUME NEW x, AreSections(x), NEW y, IsSection(y)
  PROVE  AreSections(Append(x, y))
<1>1. PICK z : z = Append(x, y)
  OBVIOUS
<1>2. PICK n \in Nat : n = Len(x)
  BY DEF AreSections, IsSeq
<1>3. IsSeq(z) /\ Len(z) = n + 1 /\ (\A k \in 1..n : z[k] = x[k]) /\ z[n + 1] = y
  BY <1>1, <1>2, AppendIs DEF AreSections
<1>4. \A k \in 1..n + 1 : k \in 1..n \/ k = n + 1
  BY <1>2
<1>5. \A k \in 1..n + 1 : IsSection(z[k])
  BY <1>2, <1>3, <1>4 DEF AreSections
<1> QED
  BY <1>1, <1>3, <1>5 DEF AreSections

\* The sections are there, and there is a last one unless there is none.
LEMMA LastSection ==
  ASSUME NEW x, AreSections(x), x # <<>>
  PROVE  Len(x) \in 1..Len(x) /\ IsSection(x[Len(x)])
<1>1. Len(x) \in Nat /\ Len(x) # 0
  BY NoneIsEmpty DEF AreSections, IsSeq
<1> QED
  BY <1>1 DEF AreSections

\* One chunk more.
LEMMA OneMoreHunk ==
  ASSUME NEW x, AreHunks(x), NEW y, IsHunk(y)
  PROVE  AreHunks(Append(x, y))
<1>1. PICK z : z = Append(x, y)
  OBVIOUS
<1>2. PICK n \in Nat : n = Len(x)
  BY DEF AreHunks, IsSeq
<1>3. IsSeq(z) /\ Len(z) = n + 1 /\ (\A k \in 1..n : z[k] = x[k]) /\ z[n + 1] = y
  BY <1>1, <1>2, AppendIs DEF AreHunks
<1>4. \A k \in 1..n + 1 : k \in 1..n \/ k = n + 1
  BY <1>2
<1>5. \A k \in 1..n + 1 : IsHunk(z[k])
  BY <1>2, <1>3, <1>4 DEF AreHunks
<1> QED
  BY <1>1, <1>3, <1>5 DEF AreHunks

\* The chunk under way joins the last section.
LEMMA PushChunkReads ==
  ASSUME NEW r, IsReading(r), r.ok
  PROVE  IsReading(PushChunk(r)) /\ PushChunk(r).ok
<1>1. CASE r.sections = <<>> \/ IsEmptyChunk(r.chunk)
  BY <1>1, NothingToPut DEF PushChunk, IsReading, ReadingParts
<1>2. CASE ~(r.sections = <<>> \/ IsEmptyChunk(r.chunk))
  <2>1. PICK x, n, c : x = r.sections /\ n = Len(x) /\ c = Append(x[n].chunks, r.chunk)
    OBVIOUS
  <2>2. AreSections(x) /\ x # <<>>
    BY <1>2, <2>1 DEF IsReading
  <2>3. n \in 1..Len(x) /\ IsSection(x[n])
    BY <2>1, <2>2, LastSection
  <2>4. PICK y : y = [x[n] EXCEPT !.chunks = c]
    OBVIOUS
  <2>5. IsSection(y)
    <3>1. AreHunks(x[n].chunks) /\ IsHunk(r.chunk)
      BY <2>3 DEF IsReading, IsSection, HasContent
    <3>2. AreHunks(c)
      BY <2>1, <3>1, OneMoreHunk
    <3> QED
      BY <2>3, <2>4, <3>2 DEF IsSection, SectionParts, HasContent
  <2>6. PICK z : z = [x EXCEPT ![n] = y]
    OBVIOUS
  <2>7. AreSections(z)
    BY <2>2, <2>3, <2>5, <2>6, OtherSection
  <2>8. n \in DOMAIN x /\ "chunks" \in DOMAIN x[n]
    BY <2>2, <2>3, SeqIs DEF AreSections, IsSection, SectionParts
  <2>9. PushChunk(r) = [r EXCEPT !.sections = [r.sections EXCEPT ![n] =
                          [r.sections[n] EXCEPT !.chunks = c]], !.chunk = NoChunk]
    BY <1>2, <2>1, Zenon DEF PushChunk
  <2>10. PushChunk(r) = [r EXCEPT !.sections = z, !.chunk = NoChunk]
    BY <2>1, <2>4, <2>6, <2>9, Zenon
  <2> QED
    BY <2>7, <2>10, NothingToPut DEF IsReading, ReadingParts
<1> QED
  BY <1>1, <1>2

\* The end of a section.
LEMMA CloseSectionReads ==
  ASSUME NEW r, IsReading(r), r.ok
  PROVE  IsReading(CloseSection(r))
<1>1. CloseSection(r) = Unreadable \/ CloseSection(r) = PushChunk(r)
  BY DEF CloseSection
<1> QED
  BY <1>1, NothingRead, PushChunkReads

\* A line changes the chunk under way, into another chunk, and nothing else.
InChunk(r, q) ==
  /\ q = [part \in ReadingParts |-> IF part = "chunk" THEN q.chunk ELSE r[part]]
  /\ r.ok => IsHunk(q.chunk)

\* Such a line leaves what was read readable.
LEMMA InChunkReads ==
  ASSUME NEW r, IsReading(r), NEW q, InChunk(r, q)
  PROVE  IsReading(q)
BY DEF InChunk, IsReading, ReadingParts

\* A chunk with another anchor, other lines or at the end of the file.
LEMMA OtherHunk ==
  ASSUME NEW chunk, IsHunk(chunk), NEW line, IsSeq(line)
  PROVE  /\ IsHunk([chunk EXCEPT !.anchor = line])
         /\ IsHunk([chunk EXCEPT !.eof = TRUE])
         /\ IsHunk([chunk EXCEPT !.new = Append(@, line)])
         /\ IsHunk([chunk EXCEPT !.old = Append(@, line)])
         /\ IsHunk([chunk EXCEPT !.old = Append(@, line), !.new = Append(@, line)])
<1>1. PICK old, new : old = Append(chunk.old, line) /\ new = Append(chunk.new, line)
  OBVIOUS
<1>2. IsSeq(old) /\ IsSeqSeq(new) /\ IsSeq(new)
  BY <1>1, AppendIs, AppendSeqs DEF IsHunk, IsChunk, IsSeqSeq
<1>3. /\ [chunk EXCEPT !.new = Append(@, line)] = [chunk EXCEPT !.new = new]
      /\ [chunk EXCEPT !.old = Append(@, line)] = [chunk EXCEPT !.old = old]
      /\ [chunk EXCEPT !.old = Append(@, line), !.new = Append(@, line)]
           = [chunk EXCEPT !.old = old, !.new = new]
  BY <1>1 DEF IsHunk, ChunkParts
<1>4. /\ IsHunk([chunk EXCEPT !.anchor = line])
      /\ IsHunk([chunk EXCEPT !.eof = TRUE])
  BY DEF IsHunk, ChunkParts, IsChunk
<1>5. /\ IsHunk([chunk EXCEPT !.new = new])
      /\ IsHunk([chunk EXCEPT !.old = old])
      /\ IsHunk([chunk EXCEPT !.old = old, !.new = new])
  BY <1>2 DEF IsHunk, ChunkParts, IsChunk
<1> QED
  BY <1>3, <1>4, <1>5

\* A line of an update.
UpdateKinds == {"anchor", "eof", "+", "-", " "}

\* It leaves what was read readable.
LEMMA UpdateLineReads ==
  ASSUME NEW r, IsReading(r), r.ok, NEW line, line.kind \in UpdateKinds, HasLine(line)
  PROVE  IsReading(UpdateLine(r, line))
<1>1. PICK x : x = line.line
  OBVIOUS
<1>2. ASSUME NEW q, IsReading(q), q.ok, NEW chunk, IsHunk(chunk),
             NEW v, v = [q EXCEPT !.chunk = chunk]
      PROVE  IsReading(v)
  <2>1. InChunk(q, v)
    BY <1>2 DEF InChunk, IsReading, ReadingParts
  <2> QED
    BY <1>2, <2>1, InChunkReads
<1>3. CASE line.kind = "anchor"
  <2>1. PICK q : q = IF IsEmptyChunk(r.chunk) THEN r ELSE PushChunk(r)
    OBVIOUS
  <2>2. IsReading(q) /\ q.ok /\ IsHunk(q.chunk) /\ IsSeq(x)
    BY <1>1, <1>3, <2>1, PushChunkReads DEF IsReading, HasLine
  <2>3. PICK chunk : chunk = [q.chunk EXCEPT !.anchor = x]
    OBVIOUS
  <2>4. IsHunk(chunk)
    BY <2>2, <2>3, OtherHunk
  <2>5. UpdateLine(r, line) = [q EXCEPT !.chunk = chunk]
    <3>1. UpdateLine(r, line) = [q EXCEPT !.chunk.anchor = line.line]
      BY <1>3, <2>1, Zenon DEF UpdateLine
    <3>2. [q EXCEPT !.chunk.anchor = line.line] = [q EXCEPT !.chunk = chunk]
      BY <1>1, <2>3
    <3> QED
      BY <3>1, <3>2, Zenon
  <2> QED
    BY <1>2, <2>2, <2>4, <2>5
<1>4. CASE line.kind = "eof"
  <2>1. PICK chunk : chunk = [r.chunk EXCEPT !.eof = TRUE]
    OBVIOUS
  <2>2. IsHunk(chunk)
    BY <2>1, EmptyIsSeq, OtherHunk DEF IsReading
  <2>3. UpdateLine(r, line) = [r EXCEPT !.chunk.eof = TRUE]
    BY <1>4, Zenon DEF UpdateLine
  <2>4. [r EXCEPT !.chunk.eof = TRUE] = [r EXCEPT !.chunk = chunk]
    BY <2>1
  <2> QED
    BY <1>2, <2>2, <2>3, <2>4
<1>5. CASE line.kind = "+"
  <2>1. PICK chunk : chunk = [r.chunk EXCEPT !.new = Append(@, x)]
    OBVIOUS
  <2>2. IsHunk(chunk)
    BY <1>1, <1>5, <2>1, OtherHunk DEF IsReading, HasLine
  <2>3. UpdateLine(r, line) = [r EXCEPT !.chunk.new = Append(@, line.line)]
    BY <1>5, Zenon DEF UpdateLine
  <2>4. [r EXCEPT !.chunk.new = Append(@, line.line)] = [r EXCEPT !.chunk = chunk]
    BY <1>1, <2>1
  <2> QED
    BY <1>2, <2>2, <2>3, <2>4
<1>6. CASE line.kind = "-"
  <2>1. PICK chunk : chunk = [r.chunk EXCEPT !.old = Append(@, x)]
    OBVIOUS
  <2>2. IsHunk(chunk)
    BY <1>1, <1>6, <2>1, OtherHunk DEF IsReading, HasLine
  <2>3. UpdateLine(r, line) = [r EXCEPT !.chunk.old = Append(@, line.line)]
    BY <1>6, Zenon DEF UpdateLine
  <2>4. [r EXCEPT !.chunk.old = Append(@, line.line)] = [r EXCEPT !.chunk = chunk]
    BY <1>1, <2>1
  <2> QED
    BY <1>2, <2>2, <2>3, <2>4
<1>7. CASE line.kind = " "
  <2>1. PICK chunk : chunk = [r.chunk EXCEPT !.old = Append(@, x), !.new = Append(@, x)]
    OBVIOUS
  <2>2. IsHunk(chunk)
    BY <1>1, <1>7, <2>1, OtherHunk DEF IsReading, HasLine
  <2>3. UpdateLine(r, line) = [r EXCEPT !.chunk.old = Append(@, line.line),
                                         !.chunk.new = Append(@, line.line)]
    BY <1>7, Zenon DEF UpdateLine
  <2>4. [r EXCEPT !.chunk.old = Append(@, line.line), !.chunk.new = Append(@, line.line)]
          = [r EXCEPT !.chunk = chunk]
    BY <1>1, <2>1 DEF IsReading, ReadingParts
  <2> QED
    BY <1>2, <2>2, <2>3, <2>4
<1> QED
  BY <1>3, <1>4, <1>5, <1>6, <1>7 DEF UpdateKinds

\* A header opens a section.
LEMMA OpenedIs ==
  ASSUME NEW line, NamesPath(line), line.kind \in {"add", "delete", "update"}
  PROVE  IsSection(Opened(line))
BY NothingToPut DEF NamesPath, IsSection, SectionParts, HasContent, Opened

\* One line of the patch.
LEMMA ReadLineReads ==
  ASSUME NEW r, IsReading(r), NEW line, NamesPath(line)
  PROVE  IsReading(ReadLine(r, line))
<1>1. PICK n : n = Len(r.sections)
  OBVIOUS
<1>2. PICK kind : kind = IF n = 0 THEN "none" ELSE r.sections[n].kind
  OBVIOUS
<1>3. PICK here : here = [r EXCEPT !.header = FALSE]
  OBVIOUS
<1>4. PICK closed : closed = CloseSection(r)
  OBVIOUS
<1> DEFINE
  Heads == r.ok /\ line.kind \in {"add", "delete", "update"}
  Moves == r.ok /\ line.kind = "moveTo" /\ kind = "update" /\ r.header
  Adds == r.ok /\ line.kind = "+" /\ kind = "add"
  Updates == r.ok /\ line.kind \in {"anchor", "eof", "+", "-", " "} /\ kind = "update"
<1>5. ReadLine(r, line) =
        CASE ~r.ok -> Unreadable
          [] Heads ->
               IF closed.ok THEN Reading(Append(closed.sections, Opened(line)), NoChunk, TRUE)
               ELSE Unreadable
          [] Moves -> [here EXCEPT !.sections[n].moveTo = line.path]
          [] Adds -> [here EXCEPT !.sections[n].content = @ \o line.line \o <<LF>>]
          [] Updates -> UpdateLine(here, line)
          [] OTHER -> Unreadable
  BY <1>1, <1>2, <1>3, <1>4, Zenon DEF ReadLine
<1>6. IsReading(here) /\ (r.ok => here.ok) /\ here.sections = r.sections
  BY <1>3 DEF IsReading, ReadingParts
<1>7. kind # "none" /\ r.ok => n \in 1..n /\ IsSection(r.sections[n]) /\ kind = r.sections[n].kind
  <2> SUFFICES ASSUME kind # "none", r.ok
               PROVE  n \in 1..n /\ IsSection(r.sections[n]) /\ kind = r.sections[n].kind
    OBVIOUS
  <2>1. AreSections(r.sections) /\ n # 0
    BY <1>2 DEF IsReading
  <2>2. r.sections # <<>>
    BY <1>1, <2>1, EmptyIsSeq
  <2> QED
    BY <1>1, <1>2, <2>1, <2>2, LastSection
<1>8. CASE Heads
  <2>1. ReadLine(r, line) =
          IF closed.ok THEN Reading(Append(closed.sections, Opened(line)), NoChunk, TRUE)
          ELSE Unreadable
    BY <1>5, <1>8, Zenon
  <2>2. CASE closed.ok
    <3>1. AreSections(closed.sections)
      BY <1>4, <1>8, <2>2, CloseSectionReads DEF IsReading
    <3>2. PICK x : x = Append(closed.sections, Opened(line))
      OBVIOUS
    <3>3. AreSections(x)
      BY <1>8, <3>1, <3>2, OneMoreSection, OpenedIs
    <3>4. IsReading(Reading(x, NoChunk, TRUE))
      BY <3>3, NothingToPut DEF Reading, IsReading, ReadingParts
    <3> QED
      BY <2>1, <2>2, <3>2, <3>4
  <2> QED
    BY <2>1, <2>2, NothingRead
<1>9. ASSUME NEW y, IsSection(y), r.ok, kind # "none",
             NEW v, v = [here EXCEPT !.sections = [r.sections EXCEPT ![n] = y]]
      PROVE  IsReading(v)
  <2>1. PICK x : x = [r.sections EXCEPT ![n] = y]
    OBVIOUS
  <2>2. AreSections(r.sections)
    BY <1>9 DEF IsReading
  <2>3. n \in 1..Len(r.sections)
    BY <1>1, <1>7, <1>9
  <2>4. AreSections(x)
    BY <1>9, <2>1, <2>2, <2>3, OtherSection
  <2> QED
    BY <1>6, <1>9, <2>1, <2>4 DEF IsReading, ReadingParts
<1>10. CASE Moves
  <2>1. ReadLine(r, line) = [here EXCEPT !.sections[n].moveTo = line.path]
    BY <1>5, <1>10, Zenon
  <2>2. PICK y : y = [r.sections[n] EXCEPT !.moveTo = line.path]
    OBVIOUS
  <2>3. IsSection(y)
    BY <1>7, <1>10, <2>2 DEF IsSection, SectionParts, NamesPath, HasContent
  <2>4. [here EXCEPT !.sections[n].moveTo = line.path]
          = [here EXCEPT !.sections = [here.sections EXCEPT ![n] =
                                         [here.sections[n] EXCEPT !.moveTo = line.path]]]
    BY Zenon
  <2>5. ReadLine(r, line) = [here EXCEPT !.sections = [r.sections EXCEPT ![n] = y]]
    BY <1>6, <2>1, <2>2, <2>4, Zenon
  <2> QED
    BY <1>9, <1>10, <2>3, <2>5
<1>11. CASE Adds
  <2>1. ReadLine(r, line) = [here EXCEPT !.sections[n].content = @ \o line.line \o <<LF>>]
    BY <1>5, <1>11, Zenon
  <2>2. PICK c : c = here.sections[n].content \o line.line \o <<LF>>
    OBVIOUS
  <2>3. PICK y : y = [r.sections[n] EXCEPT !.content = c]
    OBVIOUS
  <2>4. IsSection(y)
    <3>1. PICK text, x, lf : /\ text = here.sections[n].content /\ x = line.line
                             /\ lf = <<LF>>
      OBVIOUS
    <3>2. IsSeq(text) /\ IsSeq(x) /\ IsSeq(lf)
      BY <1>6, <1>7, <1>11, <3>1, SingleIs DEF IsSection, HasContent, NamesPath, HasLine
    <3>3. c = (text \o x) \o lf
      BY <2>2, <3>1
    <3>4. IsSeq(text \o x)
      BY <3>2, ConcatIs
    <3>5. IsSeq(c)
      BY <3>2, <3>3, <3>4, ConcatIs
    <3> QED
      BY <1>7, <1>11, <2>3, <3>5 DEF IsSection, SectionParts, HasContent
  <2>5. [here EXCEPT !.sections[n].content = @ \o line.line \o <<LF>>]
          = [here EXCEPT !.sections = [here.sections EXCEPT ![n] =
               [here.sections[n] EXCEPT !.content = c]]]
    BY <2>2, Zenon
  <2>6. ReadLine(r, line) = [here EXCEPT !.sections = [r.sections EXCEPT ![n] = y]]
    BY <1>6, <2>1, <2>3, <2>5, Zenon
  <2> QED
    BY <1>9, <1>11, <2>4, <2>6
<1>12. CASE Updates
  <2>1. CASE Adds
    BY <1>12, <2>1
  <2>2. CASE ~Adds
    <3>1. r.ok /\ ~Heads /\ ~Moves
      BY <1>12
    <3>2. ReadLine(r, line) = UpdateLine(here, line)
      BY <1>5, <1>12, <2>2, <3>1, Zenon
    <3>3. IsReading(here) /\ here.ok /\ line.kind \in UpdateKinds /\ HasLine(line)
      BY <1>6, <1>12 DEF UpdateKinds, NamesPath
    <3>4. IsReading(UpdateLine(here, line))
      BY <3>3, UpdateLineReads
    <3> QED
      BY <3>2, <3>4, Zenon
  <2> QED
    BY <2>1, <2>2
<1>13. CASE ~Heads /\ ~Moves /\ ~Adds /\ ~Updates
  <2>1. ReadLine(r, line) = Unreadable
    BY <1>5, <1>13, Zenon
  <2> QED
    BY <2>1, NothingRead
<1> QED
  BY <1>8, <1>10, <1>11, <1>12, <1>13

\* A patch that can be read has sections.
LEMMA ParseReads ==
  ASSUME NEW lines, IsSeq(lines), \A k \in 1..Len(lines) : NamesPath(lines[k]),
         parse_codex(lines).ok
  PROVE  AreSections(parse_codex(lines).sections)
<1>1. PICK n \in Nat : n = Len(lines)
  BY DEF IsSeq
<1>2. PICK f : IsRead(lines, n, f)
  BY <1>1, ReadFolds
<1>3. /\ f[0] = Reading(<<>>, NoChunk, FALSE) /\ f[n] = ReadOf(lines)
      /\ \A k \in 1..n : f[k] = ReadLine(f[k - 1], lines[k])
  BY <1>2 DEF IsRead
<1> DEFINE T == {k \in 0..n : IsReading(f[k])}
<1>4. 0 \in T
  <2>1. IsReading(f[0])
    BY <1>3, NothingRead, Zenon
  <2> QED
    BY <2>1
<1>5. ASSUME NEW k \in 0..n, k < n, k \in T
      PROVE  k + 1 \in T
  <2>1. PICK m : m = k + 1
    OBVIOUS
  <2>2. m \in 1..n /\ m - 1 = k /\ m \in 0..n
    BY <1>5, <2>1
  <2>3. f[m] = ReadLine(f[k], lines[m]) /\ IsReading(f[k]) /\ NamesPath(lines[m])
    BY <1>1, <1>3, <1>5, <2>2
  <2>4. IsReading(f[m])
    BY <2>3, ReadLineReads
  <2> QED
    BY <2>1, <2>2, <2>4
<1> HIDE DEF T
<1>6. \A k \in 0..n : k \in T
  BY <1>4, <1>5, UpTo
<1>7. PICK r : r = ReadOf(lines) /\ IsReading(r)
  <2>1. n \in T
    BY <1>6
  <2> QED
    BY <1>3, <2>1 DEF T
<1>8. parse_codex(lines) = CloseSection(r)
  BY <1>7, Zenon DEF parse_codex, ReadOf
<1>9. IsReading(CloseSection(r)) /\ CloseSection(r).ok
  <2>1. CASE r.ok
    BY <1>7, <1>8, <2>1, CloseSectionReads
  <2>2. CASE ~r.ok
    <3>1. PICK x, c : x = [r.sections EXCEPT ![Len(r.sections)].chunks = Append(@, r.chunk)]
                      /\ c = NoChunk
      OBVIOUS
    <3>2. \/ PushChunk(r) = [r EXCEPT !.chunk = c]
          \/ PushChunk(r) = [r EXCEPT !.sections = x, !.chunk = c]
      BY <3>1, Zenon DEF PushChunk
    <3>3. ~PushChunk(r).ok
      BY <1>7, <2>2, <3>2 DEF IsReading, ReadingParts
    <3>4. CloseSection(r) = Unreadable \/ CloseSection(r) = PushChunk(r)
      BY DEF CloseSection
    <3> QED
      BY <1>8, <3>3, <3>4 DEF Unreadable
  <2> QED
    BY <2>1, <2>2
<1> QED
  BY <1>8, <1>9 DEF IsReading

\* A line of a patch that has the form the assumptions say.
LEMMA LineIs ==
  ASSUME NEW line,
         line.kind \in {"add", "delete", "update", "moveTo"} => line.path \in Paths,
         line.kind \in {"+", "-", " "} => line.line \in Seq(STRING),
         line.kind = "anchor" => line.line \in Seq(Seq(STRING))
  PROVE  NamesPath(line)
BY IsSeqOf DEF NamesPath, HasLine

\* The changes of a file that has it.
LEMMA EditsAre ==
  ASSUME NEW edits, edits \in Seq([old : Seq(STRING), new : Seq(STRING)])
  PROVE  AreChanges(edits)
<1>1. IsSeq(edits)
  BY IsSeqOf
<1>2. ASSUME NEW k \in 1..Len(edits)
      PROVE  edits[k].old \in Seq(STRING) /\ edits[k].new \in Seq(STRING)
  <2>1. PICK S, R : S = Seq(STRING) /\ R = [old : S, new : S]
    OBVIOUS
  <2>2. edits \in Seq(R)
    BY <2>1
  <2>3. edits[k] \in R
    BY <2>2
  <2> QED
    BY <2>1, <2>3
<1> QED
  BY <1>1, <1>2, IsSeqOf DEF AreChanges

\* The sections of a request.
LEMMA SectionsOf ==
  ASSUME NEW r \in Requests, IsPatch(r)
  PROVE  AreSections(sections(r))
<1>1. r.kind = "patch"
  BY DEF IsPatch
<1>2. CASE r.form = "codex" /\ r.lines \in Seq(ToSet(r.lines))
           /\ \A line \in ToSet(r.lines) :
                line.kind \in {"add", "delete", "update", "moveTo"} => line.path \in Paths
  <2>1. IsSeq(r.lines) /\ DOMAIN r.lines = 1..Len(r.lines)
    BY <1>2, IsSeqOf, SeqIs
  <2>2. ASSUME NEW line \in ToSet(r.lines)
        PROVE  NamesPath(line)
    <3>1. /\ line.kind \in {"+", "-", " "} => line.line \in Seq(STRING)
          /\ line.kind = "anchor" => line.line \in Seq(Seq(STRING))
      BY <1>1, <1>2, TextsAreSequences
    <3>2. line.kind \in {"add", "delete", "update", "moveTo"} => line.path \in Paths
      BY <1>2
    <3> QED
      BY <3>1, <3>2, LineIs
  <2>3. \A k \in 1..Len(r.lines) : NamesPath(r.lines[k])
    BY <2>1, <2>2 DEF ToSet
  <2>4. sections(r) = IF parse_codex(r.lines).ok THEN parse_codex(r.lines).sections ELSE <<>>
    BY <1>2, Zenon DEF sections
  <2>5. AreSections(<<>>)
    BY EmptyIsSeq DEF AreSections
  <2> QED
    BY <2>1, <2>3, <2>4, <2>5, ParseReads
<1>3. CASE r.form = "replacements" /\ r.files \in Seq(ToSet(r.files))
           /\ \A file \in ToSet(r.files) : file.path \in Paths
  <2>1. IsSeq(r.files) /\ DOMAIN r.files = 1..Len(r.files)
    BY <1>3, IsSeqOf, SeqIs
  <2>2. PICK n \in Nat : n = Len(r.files)
    BY <2>1 DEF IsSeq
  <2>3. PICK x : x = [k \in 1..n |->
            [kind |-> "replace", path |-> r.files[k].path, moveTo |-> "",
             content |-> <<>>, chunks |-> <<>>, edits |-> r.files[k].edits]]
    OBVIOUS
  <2>4. sections(r) = x
    BY <1>1, <1>3, <2>1, <2>2, <2>3, Zenon DEF sections, IsPatch
  <2>5. x = [k \in 1..n |-> x[k]]
    BY <2>3
  <2>6. IsSeq(x) /\ Len(x) = n
    BY <2>5, MadeSeq
  <2>7. ASSUME NEW k \in 1..n
        PROVE  IsSection(x[k])
    <3>1. PICK file : file = r.files[k]
      OBVIOUS
    <3>2. file \in ToSet(r.files)
      BY <2>1, <2>2, <3>1 DEF ToSet
    <3>3. file.path \in Paths /\ file.edits \in Seq([old : Seq(STRING), new : Seq(STRING)])
      BY <1>1, <1>3, <3>2, TextsAreSequences
    <3>4. AreChanges(file.edits)
      BY <3>3, EditsAre
    <3> QED
      BY <2>3, <3>1, <3>3, <3>4, NothingToPut DEF IsSection, SectionParts, HasContent
  <2> QED
    BY <2>4, <2>6, <2>7 DEF AreSections
<1> QED
  BY <1>1, <1>2, <1>3, PatchesNamePaths

-----------------------------------------------------------------------------
(* What a patch's changes say was done. *)

Kinds == {"add", "delete", "update", "move"}

EffectsEach(changes) == [k \in DOMAIN changes |-> EffectsOf(changes[k])]
Told(changes) == FlattenSeq(EffectsEach(changes))

\* Records of a kind each: steps, and changes.
HaveKinds(changes) == IsSeq(changes) /\ \A k \in 1..Len(changes) : changes[k].kind \in Kinds

\* One effect after the other.
LEMMA BothAppended ==
  ASSUME NEW s, IsSeq(s), NEW x, NEW y
  PROVE  Append(Append(s, x), y) = Cat(s, <<x, y>>)
<1>1. PICK t : t = Append(s, x)
  OBVIOUS
<1>2. IsSeq(t) /\ t = s \o <<x>>
  BY <1>1, AppendIs, AppendConcat
<1>3. Append(t, y) = t \o <<y>>
  BY <1>2, AppendConcat
<1>4. (s \o <<x>>) \o <<y>> = s \o (<<x>> \o <<y>>)
  BY SingleIs, ConcatAssoc
<1> QED
  BY <1>1, <1>2, <1>3, <1>4, PairIs, Zenon DEF Cat

\* The effects that each kind of change tells of.
LEMMA EffectsAre ==
  ASSUME NEW c, c.kind \in Kinds
  PROVE  /\ IsSeq(EffectsOf(c))
         /\ c.kind = "delete" => EffectsOf(c) = <<Unlinked(c.path)>>
         /\ c.kind = "move" => EffectsOf(c) = <<Put(c.to, c.after[1]), Unlinked(c.path)>>
         /\ c.kind \in {"add", "update"} => EffectsOf(c) = <<Put(c.path, c.after[1])>>
<1>1. c.kind = "delete" => EffectsOf(c) = <<Unlinked(c.path)>>
  BY Zenon DEF EffectsOf
<1>2. c.kind = "move" => EffectsOf(c) = <<Put(c.to, c.after[1]), Unlinked(c.path)>>
  BY Zenon DEF EffectsOf
<1>3. c.kind = "add" => EffectsOf(c) = <<Put(c.path, c.after[1])>>
  BY Zenon DEF EffectsOf
<1>4. c.kind = "update" => EffectsOf(c) = <<Put(c.path, c.after[1])>>
  BY Zenon DEF EffectsOf
<1>5. c.kind \in {"delete", "move", "add", "update"}
  BY DEF Kinds
<1>6. IsSeq(EffectsOf(c))
  <2>1. c.kind = "delete" => IsSeq(EffectsOf(c))
    BY <1>1, SingleIs, Zenon
  <2>2. c.kind = "move" => IsSeq(EffectsOf(c))
    BY <1>2, PairIs, Zenon
  <2>3. c.kind = "add" => IsSeq(EffectsOf(c))
    BY <1>3, SingleIs, Zenon
  <2>4. c.kind = "update" => IsSeq(EffectsOf(c))
    BY <1>4, SingleIs, Zenon
  <2> QED
    BY <1>5, <2>1, <2>2, <2>3, <2>4, Zenon
<1>7. c.kind \in {"add", "update"} => EffectsOf(c) = <<Put(c.path, c.after[1])>>
  BY <1>3, <1>4, Zenon
<1> QED
  BY <1>1, <1>2, <1>6, <1>7, Zenon

\* Before the first change there is nothing to tell.
LEMMA NothingTold == HaveKinds(<<>>) /\ Told(<<>>) = <<>>
<1>1. PICK e : e = EffectsEach(<<>>)
  OBVIOUS
<1>2. e = [k \in 1..0 |-> e[k]]
  BY <1>1, EmptyIsSeq, SeqIs DEF EffectsEach
<1>3. IsSeq(e) /\ Len(e) = 0
  BY <1>2, MadeSeq
<1>4. IsSeqSeq(e)
  BY <1>3 DEF IsSeqSeq
<1>5. FlattenSeq(e) = <<>>
  BY <1>3, <1>4, FlattenIsSeq
<1> QED
  BY <1>1, <1>5, EmptyIsSeq DEF HaveKinds, Told

\* Each change has its effects.
LEMMA EffectsEachAre ==
  ASSUME NEW changes, HaveKinds(changes)
  PROVE  /\ IsSeqSeq(EffectsEach(changes)) /\ Len(EffectsEach(changes)) = Len(changes)
         /\ \A k \in 1..Len(changes) : EffectsEach(changes)[k] = EffectsOf(changes[k])
<1>1. PICK n \in Nat : n = Len(changes)
  BY DEF HaveKinds, IsSeq
<1>2. DOMAIN changes = 1..n
  BY <1>1, SeqIs DEF HaveKinds
<1>3. PICK e : e = EffectsEach(changes)
  OBVIOUS
<1>4. e = [k \in 1..n |-> EffectsOf(changes[k])]
  BY <1>2, <1>3 DEF EffectsEach
<1>5. e = [k \in 1..n |-> e[k]]
  BY <1>4
<1>6. IsSeq(e) /\ Len(e) = n
  BY <1>5, MadeSeq
<1>7. \A k \in 1..n : e[k] = EffectsOf(changes[k]) /\ IsSeq(e[k])
  BY <1>1, <1>4, EffectsAre DEF HaveKinds
<1> QED
  BY <1>1, <1>3, <1>6, <1>7 DEF IsSeqSeq

\* What is told is a sequence of effects.
LEMMA ToldIsSeq ==
  ASSUME NEW changes, HaveKinds(changes)
  PROVE  IsSeq(Told(changes))
BY EffectsEachAre, FlattenIsSeq DEF Told

\* One change more tells of its effects, too.
LEMMA ToldMore ==
  ASSUME NEW changes, HaveKinds(changes), NEW c, c.kind \in Kinds
  PROVE  /\ HaveKinds(Append(changes, c)) /\ Len(Append(changes, c)) = Len(changes) + 1
         /\ Told(Append(changes, c)) = Cat(Told(changes), EffectsOf(c))
<1>1. PICK more : more = Append(changes, c)
  OBVIOUS
<1>2. PICK n \in Nat : n = Len(changes)
  BY DEF HaveKinds, IsSeq
<1>3. IsSeq(more) /\ Len(more) = n + 1 /\ (\A k \in 1..n : more[k] = changes[k]) /\ more[n + 1] = c
  BY <1>1, <1>2, AppendIs DEF HaveKinds
<1>4. \A k \in 1..n + 1 : k \in 1..n \/ k = n + 1
  BY <1>2
<1>5. HaveKinds(more)
  BY <1>2, <1>3, <1>4 DEF HaveKinds
<1>6. PICK e, es, x : e = EffectsEach(changes) /\ es = EffectsEach(more) /\ x = EffectsOf(c)
  OBVIOUS
<1>7. /\ IsSeqSeq(e) /\ Len(e) = n /\ \A k \in 1..n : e[k] = EffectsOf(changes[k])
      /\ IsSeqSeq(es) /\ Len(es) = n + 1 /\ \A k \in 1..n + 1 : es[k] = EffectsOf(more[k])
      /\ IsSeq(x)
  BY <1>2, <1>3, <1>5, <1>6, EffectsEachAre, EffectsAre
<1>8. PICK t : t = Append(e, x)
  OBVIOUS
<1>9. IsSeq(t) /\ Len(t) = n + 1 /\ (\A k \in 1..n : t[k] = e[k]) /\ t[n + 1] = x
  BY <1>7, <1>8, AppendIs DEF IsSeqSeq
<1>10. ASSUME NEW k \in 1..n + 1
       PROVE  es[k] = t[k]
  <2>1. CASE k \in 1..n
    BY <1>2, <1>3, <1>7, <1>9, <2>1
  <2>2. CASE k = n + 1
    BY <1>2, <1>3, <1>6, <1>7, <1>9, <2>2
  <2> QED
    BY <1>4, <2>1, <2>2
<1>11. es = t
  BY <1>7, <1>9, <1>10, SameSeq DEF IsSeqSeq
<1>12. FlattenSeq(t) = Cat(FlattenSeq(e), x)
  BY <1>7, <1>8, FlattenAppend
<1> QED
  BY <1>1, <1>2, <1>3, <1>5, <1>6, <1>11, <1>12, Zenon DEF Told

-----------------------------------------------------------------------------
(* What a patch's task has done, and what its receipt tells. *)

\* A step after the plan, before the receipt.
Doing == {"verify", "verifyTo", "verifySource", "look", "recheck", "rename", "unlink"}

\* Nothing is done yet, nor recorded.
IsUntouched(w) == w.changes = <<>> /\ w.done = <<>> /\ w.exact /\ w.status = "applied"

\* One step for each section before.
IsPlanning(w) ==
  /\ w.pc = "plan" /\ IsUntouched(w) /\ AreSections(w.sections) /\ HaveKinds(w.steps)
  /\ w.sections = <<>> \/ w.at \in 1..Len(w.sections)
  /\ Len(w.steps) = w.at - 1

IsPlanned(w) ==
  /\ w.pc = "verifyAll" /\ IsUntouched(w) /\ HaveKinds(w.steps)
  /\ w.at = 1 /\ w.at <= Len(w.steps) /\ Len(w.steps) = Len(w.sections)

\* What is done is what the changes tell, and the destination of a move that
\* has still to delete its source.
IsDoing(w) ==
  /\ w.pc \in Doing /\ w.exact /\ w.status = "applied"
  /\ HaveKinds(w.steps) /\ w.at \in 1..Len(w.steps) /\ Len(w.steps) = Len(w.sections)
  /\ HaveKinds(w.changes) /\ Len(w.changes) = w.at - 1
  /\ w.done = IF DestinationWritten(w)
              THEN Append(Told(w.changes), Put(Step(w).to, Step(w).after[1]))
              ELSE Told(w.changes)
  /\ w.pc \in {"verifyTo", "verifySource"} => Step(w).kind = "move"
  /\ w.pc \in {"look", "recheck", "rename"} => Step(w).kind # "delete" /\ w.target = Write(w).path
  /\ w.pc = "unlink" => Step(w).kind \in {"move", "delete"} /\ w.target = Step(w).path

IsReported(w) ==
  /\ w.pc = "returned"
  /\ w.exact => w.done = Told(w.changes)
  /\ IsPrefix(Told(w.changes), w.done) /\ Len(w.done) <= Len(Told(w.changes)) + 1
  /\ w.status = "rejected" => w.done = <<>> /\ w.exact
  /\ w.status = "applied" => Len(w.changes) = Len(w.sections)

Reports(w) ==
  IsPatch(w.request) => IsPlanning(w) \/ IsPlanned(w) \/ IsDoing(w) \/ IsReported(w)

ReportInv == \A s \in Slots : work[s] # Idle => Reports(work[s])

\* What was done starts with what is told, and one call may be missing.
LEMMA OneMissing ==
  ASSUME NEW s, IsSeq(s), NEW x
  PROVE  /\ IsPrefix(s, s) /\ Len(s) <= Len(s) + 1
         /\ IsPrefix(s, Append(s, x)) /\ Len(Append(s, x)) <= Len(s) + 1
<1>1. PICK n \in Nat : n = Len(s)
  BY DEF IsSeq
<1>2. ASSUME NEW t, IsSeq(t), Len(t) \in {n, n + 1}, \A k \in 1..n : t[k] = s[k]
      PROVE  IsPrefix(s, t)
  <2>1. PICK a, b : a = SubSeq(s, 1, n) /\ b = SubSeq(t, 1, n)
    OBVIOUS
  <2>2. PICK S : S = {s[k] : k \in 1..n}
    OBVIOUS
  <2>3. (\A k \in 1..n : s[k] \in S) /\ (\A k \in 1..n : t[k] \in S)
    BY <1>2, <2>2
  <2>4. /\ a \in Seq(S) /\ Len(a) = n /\ \A k \in 1..n : a[k] = s[k]
    <3>1. /\ a \in Seq(S) /\ Len(a) = (IF 1 <= n THEN n - 1 + 1 ELSE 0)
          /\ \A k \in 1..n - 1 + 1 : a[k] = s[1 + k - 1]
      BY <2>1, <2>3, SubSeqProperties
    <3> QED
      BY <3>1
  <2>5. /\ b \in Seq(S) /\ Len(b) = n /\ \A k \in 1..n : b[k] = t[k]
    <3>1. /\ b \in Seq(S) /\ Len(b) = (IF 1 <= n THEN n - 1 + 1 ELSE 0)
          /\ \A k \in 1..n - 1 + 1 : b[k] = t[1 + k - 1]
      BY <2>1, <2>3, SubSeqProperties
    <3> QED
      BY <3>1
  <2>6. IsSeq(a) /\ IsSeq(b)
    BY <2>4, <2>5, IsSeqOf
  <2>7. a = b
    BY <1>2, <2>4, <2>5, <2>6, SameSeq
  <2> QED
    BY <1>1, <1>2, <2>1, <2>7 DEF IsPrefix
<1>3. PICK t : t = Append(s, x)
  OBVIOUS
<1>4. IsSeq(t) /\ Len(t) = n + 1 /\ \A k \in 1..n : t[k] = s[k]
  BY <1>1, <1>3, AppendIs
<1>5. IsPrefix(s, s) /\ IsPrefix(s, t)
  BY <1>1, <1>2, <1>4
<1> QED
  BY <1>1, <1>3, <1>4, <1>5

\* The marks of a race and of a caller that is gone tell nothing.
Parts == {"request", "pc", "at", "target", "sections", "steps", "status", "exact", "changes", "done"}

\* A task that is marked tells what it told.
LEMMA SameReport ==
  ASSUME NEW w, NEW v, \A part \in Parts : v[part] = w[part], Reports(w)
  PROVE  Reports(v)
<1>1. /\ v.request = w.request /\ v.pc = w.pc /\ v.at = w.at /\ v.target = w.target
      /\ v.sections = w.sections /\ v.steps = w.steps /\ v.status = w.status
      /\ v.exact = w.exact /\ v.changes = w.changes /\ v.done = w.done
  BY DEF Parts
<1>2. Write(v) = Write(w) /\ Step(v) = Step(w)
  BY <1>1, SameWrite
<1>3. DestinationWritten(v) <=> DestinationWritten(w)
  BY <1>1, <1>2 DEF DestinationWritten
<1> HIDE DEF Parts
<1>4. IsPlanning(w) => IsPlanning(v)
  BY <1>1 DEF IsPlanning, IsUntouched
<1>5. IsPlanned(w) => IsPlanned(v)
  BY <1>1 DEF IsPlanned, IsUntouched
<1>6. IsDoing(w) => IsDoing(v)
  BY <1>1, <1>2, <1>3, Zenon DEF IsDoing
<1>7. IsReported(w) => IsReported(v)
  BY <1>1 DEF IsReported
<1> QED
  BY <1>1, <1>4, <1>5, <1>6, <1>7 DEF Reports

\* A failure that is told as it is: what was done is what the changes tell, or
\* one call more that the task is not certain of.
LEMMA FailReports ==
  ASSUME NEW w, IsTask(w), NEW uncertain \in BOOLEAN, NEW changes, HaveKinds(changes), NEW x,
         w.done = Told(changes) \/ (uncertain /\ w.done = Append(Told(changes), x))
  PROVE  IsReported(fail(w, uncertain, changes))
<1>1. PICK v : v = fail(w, uncertain, changes)
  OBVIOUS
<1>2. /\ v.pc = "returned" /\ v.changes = changes /\ v.exact = ~uncertain /\ v.done = w.done
      /\ v.status = IF uncertain \/ changes # <<>> THEN "partial" ELSE "rejected"
  BY <1>1 DEF fail, IsTask, TaskParts
<1>3. IsSeq(Told(changes))
  BY ToldIsSeq
<1>4. IsPrefix(Told(changes), v.done) /\ Len(v.done) <= Len(Told(changes)) + 1
  BY <1>2, <1>3, OneMissing
<1>5. v.exact => v.done = Told(changes)
  BY <1>2
<1>6. v.status = "rejected" => v.done = <<>> /\ v.exact
  BY <1>2, NothingTold
<1>7. v.status # "applied"
  BY <1>2
<1> QED
  BY <1>1, <1>2, <1>4, <1>5, <1>6, <1>7 DEF IsReported

\* The step under way is of a kind.
LEMMA StepHasKind ==
  ASSUME NEW w, HaveKinds(w.steps), w.at \in 1..Len(w.steps)
  PROVE  Step(w).kind \in Kinds
BY DEF HaveKinds, Step

\* The change of a step tells of its effects.
LEMMA ChangeTells ==
  ASSUME NEW step, step.kind \in Kinds
  PROVE  /\ Change(step).kind \in Kinds
         /\ step.kind = "delete" => EffectsOf(Change(step)) = <<Unlinked(step.path)>>
         /\ step.kind = "move" =>
              EffectsOf(Change(step)) = <<Put(step.to, step.after[1]), Unlinked(step.path)>>
         /\ step.kind \in {"add", "update"} =>
              EffectsOf(Change(step)) = <<Put(step.path, step.after[1])>>
<1>1. PICK c : c = Change(step)
  OBVIOUS
<1>2. c.kind = step.kind /\ c.path = step.path /\ c.to = step.to /\ c.after = step.after
  BY <1>1 DEF Change
<1>3. c.kind \in Kinds
  BY <1>2
<1> QED
  BY <1>1, <1>2, <1>3, EffectsAre

\* The change of a destination tells of the write that put it there.
LEMMA DestinationTells ==
  ASSUME NEW step
  PROVE  /\ DestinationChange(step).kind \in Kinds
         /\ EffectsOf(DestinationChange(step)) = <<Put(step.to, step.after[1])>>
<1>1. PICK c : c = DestinationChange(step)
  OBVIOUS
<1>2. c.kind \in {"add", "update"} /\ c.path = step.to /\ c.after = step.after
  BY <1>1 DEF DestinationChange
<1>3. c.kind \in Kinds
  BY <1>2 DEF Kinds
<1>4. EffectsOf(c) = <<Put(c.path, c.after[1])>>
  BY <1>2, <1>3, EffectsAre
<1> QED
  BY <1>1, <1>2, <1>3, <1>4

\* The changes that a failure reports are what was done.
Admitted(w) ==
  IF DestinationWritten(w) THEN Append(w.changes, DestinationChange(Step(w))) ELSE w.changes

\* They are all that was done.
LEMMA AdmittedTells ==
  ASSUME NEW w, IsDoing(w)
  PROVE  HaveKinds(Admitted(w)) /\ Told(Admitted(w)) = w.done
<1>1. CASE DestinationWritten(w)
  <2>1. PICK c, put : c = DestinationChange(Step(w)) /\ put = Put(Step(w).to, Step(w).after[1])
    OBVIOUS
  <2>2. c.kind \in Kinds /\ EffectsOf(c) = <<put>>
    BY <2>1, DestinationTells
  <2>3. /\ HaveKinds(w.changes) /\ Admitted(w) = Append(w.changes, c)
        /\ w.done = Append(Told(w.changes), put)
    BY <1>1, <2>1 DEF IsDoing, Admitted
  <2>4. /\ HaveKinds(Append(w.changes, c))
        /\ Told(Append(w.changes, c)) = Cat(Told(w.changes), EffectsOf(c))
    BY <2>2, <2>3, ToldMore
  <2>5. Append(Told(w.changes), put) = Cat(Told(w.changes), <<put>>)
    BY <2>3, ToldIsSeq, AppendConcat DEF Cat
  <2> QED
    BY <2>2, <2>3, <2>4, <2>5
<1>2. CASE ~DestinationWritten(w)
  BY <1>2 DEF IsDoing, Admitted
<1> QED
  BY <1>1, <1>2

\* Before the first write there is nothing to admit.
LEMMA UntouchedTells ==
  ASSUME NEW w, IsUntouched(w)
  PROVE  HaveKinds(w.changes) /\ Told(w.changes) = w.done
BY NothingTold DEF IsUntouched

\* A call that fails without an effect, and one that fails with it.
LEMMA FailingReports ==
  ASSUME NEW w, IsTask(w), IsPatch(w.request), NEW code,
         IsPlanning(w) \/ IsPlanned(w) \/ IsDoing(w)
  PROVE  IsReported(Failing(w, code))
<1>1. CASE w.pc \in {"plan", "verifyAll", "verify", "verifyTo"}
  <2>1. Failing(w, code) = fail(w, FALSE, w.changes)
    BY <1>1 DEF Failing
  <2>2. HaveKinds(w.changes) /\ w.done = Told(w.changes)
    BY <1>1, UntouchedTells DEF IsPlanning, IsPlanned, IsDoing, DestinationWritten
  <2> QED
    BY <2>1, <2>2, FailReports
<1>2. CASE w.pc \notin {"plan", "verifyAll", "verify", "verifyTo"}
  <2>1. PICK uncertain \in BOOLEAN :
          uncertain <=> (DestinationWritten(w) \/ code # "precondition_failed")
    OBVIOUS
  <2>2. Failing(w, code) =
          fail(w, DestinationWritten(w) \/ code # "precondition_failed", Admitted(w))
    BY <1>2 DEF Failing, Admitted
  <2>3. (DestinationWritten(w) \/ code # "precondition_failed") = uncertain
    BY <2>1 DEF DestinationWritten
  <2>4. IsDoing(w)
    BY <1>2 DEF IsPlanning, IsPlanned
  <2> QED
    BY <2>2, <2>3, <2>4, AdmittedTells, FailReports
<1> QED
  BY <1>1, <1>2

\* A call that may fail with its effect, and what it leaves then.
IsCalling(w) == w.pc \in {"rename", "unlink"}
FailedAfter(w, x) == [Failing(w, "io") EXCEPT !.done = Append(@, x)]

\* The receipt of a call that fails with its effect misses that one.
LEMMA FailingAfterReports ==
  ASSUME NEW w, IsTask(w), IsPatch(w.request), IsDoing(w), IsCalling(w), NEW x
  PROVE  IsReported(FailedAfter(w, x))
<1>1. PICK v, told, changes :
        v = Failing(w, "io") /\ changes = Admitted(w) /\ told = Told(changes)
  OBVIOUS
<1>2. v = fail(w, DestinationWritten(w) \/ "io" # "precondition_failed", changes)
  BY <1>1 DEF Failing, Admitted, IsCalling
<1>3. (DestinationWritten(w) \/ "io" # "precondition_failed") = TRUE
  BY DEF DestinationWritten
<1>4. v = fail(w, TRUE, changes)
  BY <1>2, <1>3
<1>5. HaveKinds(changes) /\ w.done = told
  BY <1>1, AdmittedTells
<1>6. IsTask(v)
  BY <1>1, FailingFollows DEF Follows
<1>7. v.pc = "returned" /\ ~v.exact /\ v.status = "partial" /\ v.changes = changes /\ v.done = told
  BY <1>4, <1>5 DEF fail, IsTask, TaskParts
<1>8. PICK done : done = Append(told, x)
  OBVIOUS
<1>9. PICK u : u = [v EXCEPT !.done = done]
  OBVIOUS
<1>10. FailedAfter(w, x) = u
  BY <1>1, <1>7, <1>8, <1>9 DEF FailedAfter
<1>11. /\ u.pc = "returned" /\ ~u.exact /\ u.status = "partial" /\ u.changes = changes
       /\ u.done = done
  BY <1>6, <1>7, <1>9 DEF IsTask, TaskParts
<1>12. IsPrefix(told, done) /\ Len(done) <= Len(told) + 1
  BY <1>1, <1>5, <1>8, ToldIsSeq, OneMissing
<1> QED
  BY <1>1, <1>10, <1>11, <1>12 DEF IsReported

\* A step whose effects are all in place is recorded.
LEMMA RecordedReports ==
  ASSUME NEW w, IsTask(w), IsPatch(w.request), w.exact, w.status = "applied",
         HaveKinds(w.steps), w.at \in 1..Len(w.steps), Len(w.steps) = Len(w.sections),
         HaveKinds(w.changes), Len(w.changes) = w.at - 1,
         w.done = Cat(Told(w.changes), EffectsOf(Change(Step(w))))
  PROVE  Reports(Recorded(w))
<1>1. PICK c, changes : c = Change(Step(w)) /\ changes = Append(w.changes, c)
  OBVIOUS
<1>2. c.kind \in Kinds
  BY <1>1, StepHasKind, ChangeTells
<1>3. HaveKinds(changes) /\ Len(changes) = Len(w.changes) + 1 /\ Told(changes) = w.done
  BY <1>1, <1>2, ToldMore
<1>4. PICK n, at : n = Len(w.steps) /\ at = w.at /\ n \in Nat /\ at \in 1..n
  BY DEF HaveKinds, IsSeq
<1>5. PICK pc : pc = IF at = n THEN "returned" ELSE "verify"
  OBVIOUS
<1>6. PICK v : v = [w EXCEPT !.changes = changes, !.at = at + 1, !.pc = pc]
  OBVIOUS
<1>7. Recorded(w) = v
  BY <1>1, <1>4, <1>5, <1>6 DEF Recorded, IsTask, TaskParts
<1>8. /\ v.pc = pc /\ v.at = at + 1 /\ v.changes = changes /\ v.steps = w.steps
      /\ v.sections = w.sections /\ v.done = w.done /\ v.exact /\ v.status = "applied"
  BY <1>6 DEF IsTask, TaskParts
<1>9. CASE at = n
  <2>1. IsPrefix(Told(changes), v.done) /\ Len(v.done) <= Len(Told(changes)) + 1
    BY <1>3, <1>8, ToldIsSeq, OneMissing
  <2>2. Len(v.changes) = Len(v.sections)
    BY <1>3, <1>4, <1>8, <1>9
  <2>3. IsReported(v)
    BY <1>3, <1>5, <1>8, <1>9, <2>1, <2>2 DEF IsReported
  <2> QED
    BY <1>7, <2>3 DEF Reports
<1>10. CASE at # n
  <2>1. v.at \in 1..Len(v.steps) /\ Len(v.changes) = v.at - 1
    BY <1>3, <1>4, <1>8, <1>10
  <2>2. v.pc = "verify" /\ ~DestinationWritten(v)
    BY <1>5, <1>8, <1>10 DEF DestinationWritten
  <2>3. IsDoing(v)
    BY <1>3, <1>8, <2>1, <2>2 DEF IsDoing, Doing
  <2> QED
    BY <1>7, <2>3 DEF Reports
<1> QED
  BY <1>9, <1>10

\* What the write of a step puts, and where.
LEMMA WriteOfStep ==
  ASSUME NEW w, IsPatch(w.request)
  PROVE  /\ Write(w).text = Step(w).after[1] /\ IsConditional(w)
         /\ Step(w).kind = "move" => Write(w).path = Step(w).to
         /\ Step(w).kind # "move" => Write(w).path = Step(w).path
BY DEF Write, IsConditional

\* The effect of the call under way.
LEMMA CommittedReports ==
  ASSUME NEW w, IsTask(w), IsPatch(w.request), IsDoing(w), w.pc \in {"look", "rename", "unlink"},
         NEW effect,
         effect = IF w.pc = "unlink" THEN Unlinked(w.target) ELSE Put(w.target, Write(w).text),
         NEW status
  PROVE  Reports(Committed(w, effect, status))
<1>1. PICK told : told = Told(w.changes)
  OBVIOUS
<1>2. HaveKinds(w.changes) /\ IsSeq(told)
  BY <1>1, ToldIsSeq DEF IsDoing
<1>3. PICK step : step = Step(w)
  OBVIOUS
<1>4. step.kind \in Kinds
  BY <1>3, StepHasKind DEF IsDoing
<1>5. PICK done : done = Append(w.done, effect)
  OBVIOUS
<1>6. PICK v : v = [w EXCEPT !.done = done]
  OBVIOUS
<1>7. [w EXCEPT !.done = Append(@, effect)] = v
  BY <1>5, <1>6 DEF IsTask, TaskParts
<1>8. /\ IsTask(v) /\ v.request = w.request /\ v.pc = w.pc /\ v.at = w.at /\ v.target = w.target
      /\ v.sections = w.sections /\ v.steps = w.steps /\ v.status = w.status
      /\ v.exact = w.exact /\ v.changes = w.changes /\ v.done = done
  BY <1>6 DEF IsTask, TaskParts, PatchPlaces
<1>9. Step(v) = step
  BY <1>3, <1>8, SameWrite
<1>10. CASE w.pc # "unlink" /\ step.kind = "move"
  <2>1. PICK u : u = [v EXCEPT !.pc = "verifySource"]
    OBVIOUS
  <2>2. Committed(w, effect, status) = u
    BY <1>3, <1>7, <1>10, <2>1 DEF Committed
  <2>3. /\ u.request = w.request /\ u.pc = "verifySource" /\ u.at = w.at
        /\ u.sections = w.sections /\ u.steps = w.steps /\ u.status = w.status
        /\ u.exact = w.exact /\ u.changes = w.changes /\ u.done = done
    BY <1>8, <2>1 DEF IsTask, TaskParts
  <2>4. Step(u) = step
    BY <1>3, <2>3, SameWrite
  <2>5. DestinationWritten(u) /\ ~DestinationWritten(w)
    BY <1>10, <2>3, <2>4 DEF DestinationWritten
  <2>6. w.done = told /\ w.target = step.to /\ Write(w).text = step.after[1]
    BY <1>1, <1>3, <1>10, <2>5, WriteOfStep DEF IsDoing
  <2>7. effect = Put(step.to, step.after[1])
    BY <1>10, <2>6
  <2>8. u.done = Append(Told(u.changes), Put(Step(u).to, Step(u).after[1]))
    BY <1>1, <1>5, <2>3, <2>4, <2>6, <2>7, Zenon
  <2>9. IsDoing(u)
    <3>1. u.pc \in Doing /\ u.pc \notin {"look", "recheck", "rename"} /\ u.pc # "unlink"
      BY <2>3 DEF Doing
    <3>2. /\ u.exact /\ u.status = "applied"
          /\ HaveKinds(u.steps) /\ u.at \in 1..Len(u.steps) /\ Len(u.steps) = Len(u.sections)
          /\ HaveKinds(u.changes) /\ Len(u.changes) = u.at - 1
      BY <2>3 DEF IsDoing
    <3>3. u.done = IF DestinationWritten(u)
                   THEN Append(Told(u.changes), Put(Step(u).to, Step(u).after[1]))
                   ELSE Told(u.changes)
      BY <2>5, <2>8, Zenon
    <3> QED
      BY <1>10, <2>4, <3>1, <3>2, <3>3, Zenon DEF IsDoing
  <2> QED
    BY <2>2, <2>9 DEF Reports
<1>11. CASE ~(w.pc # "unlink" /\ step.kind = "move")
  <2>1. Committed(w, effect, status) = Recorded(v)
    BY <1>3, <1>7, <1>11 DEF Committed
  <2>2. v.done = Cat(told, EffectsOf(Change(step)))
    <3>1. CASE step.kind = "move"
      <4>1. w.pc = "unlink" /\ DestinationWritten(w)
        BY <1>3, <1>11, <3>1 DEF DestinationWritten
      <4>2. w.done = Append(told, Put(step.to, step.after[1])) /\ w.target = step.path
        BY <1>1, <1>3, <4>1 DEF IsDoing
      <4>3. effect = Unlinked(step.path)
        BY <4>1, <4>2
      <4>4. EffectsOf(Change(step)) = <<Put(step.to, step.after[1]), Unlinked(step.path)>>
        BY <1>4, <3>1, ChangeTells
      <4>5. done = Append(Append(told, Put(step.to, step.after[1])), Unlinked(step.path))
        BY <1>5, <4>2, <4>3, Zenon
      <4> QED
        BY <1>2, <1>8, <4>4, <4>5, BothAppended
    <3>2. CASE step.kind # "move"
      <4>1. ~DestinationWritten(w)
        BY <1>3, <3>2 DEF DestinationWritten
      <4>2. w.done = told
        BY <1>1, <4>1 DEF IsDoing
      <4>3. EffectsOf(Change(step)) = <<effect>>
        <5>1. CASE w.pc = "unlink"
          <6>1. step.kind = "delete" /\ w.target = step.path
            BY <1>3, <3>2, <5>1 DEF IsDoing
          <6> QED
            BY <1>4, <5>1, <6>1, ChangeTells
        <5>2. CASE w.pc # "unlink"
          <6>1. step.kind # "delete" /\ w.target = Write(w).path
            BY <1>3, <5>2 DEF IsDoing
          <6>2. w.target = step.path /\ Write(w).text = step.after[1]
            BY <1>3, <3>2, <6>1, WriteOfStep
          <6>3. step.kind \in {"add", "update"}
            BY <1>4, <3>2, <6>1 DEF Kinds
          <6> QED
            BY <1>4, <5>2, <6>2, <6>3, ChangeTells
        <5> QED
          BY <5>1, <5>2
      <4>4. Append(told, effect) = Cat(told, <<effect>>)
        BY <1>2, AppendConcat DEF Cat
      <4> QED
        BY <1>5, <1>8, <4>2, <4>3, <4>4, Zenon
    <3> QED
      BY <3>1, <3>2
  <2>3. /\ v.exact /\ v.status = "applied"
        /\ HaveKinds(v.steps) /\ v.at \in 1..Len(v.steps) /\ Len(v.steps) = Len(v.sections)
        /\ HaveKinds(v.changes) /\ Len(v.changes) = v.at - 1
    BY <1>8 DEF IsDoing
  <2>4. v.done = Cat(Told(v.changes), EffectsOf(Change(Step(v))))
    BY <1>1, <1>8, <1>9, <2>2, Zenon
  <2>5. Reports(Recorded(v))
    BY <1>8, <2>3, <2>4, RecordedReports
  <2> QED
    BY <2>1, <2>5, Zenon
<1> QED
  BY <1>10, <1>11

\* The task goes on within its step.
LEMMA DoingOn ==
  ASSUME NEW w, IsDoing(w), NEW v,
         v.sections = w.sections, v.steps = w.steps, v.at = w.at, v.request = w.request,
         v.status = w.status, v.exact = w.exact, v.changes = w.changes, v.done = w.done,
         v.pc \in Doing, DestinationWritten(v) <=> DestinationWritten(w),
         v.pc \in {"verifyTo", "verifySource"} => Step(w).kind = "move",
         v.pc \in {"look", "recheck", "rename"} =>
           Step(w).kind # "delete" /\ v.target = Write(w).path,
         v.pc = "unlink" => Step(w).kind \in {"move", "delete"} /\ v.target = Step(w).path
  PROVE  Reports(v)
<1>1. Write(v) = Write(w) /\ Step(v) = Step(w)
  BY SameWrite
<1>2. /\ v.exact /\ v.status = "applied"
      /\ HaveKinds(v.steps) /\ v.at \in 1..Len(v.steps) /\ Len(v.steps) = Len(v.sections)
      /\ HaveKinds(v.changes) /\ Len(v.changes) = v.at - 1
  BY DEF IsDoing
<1>3. v.done = IF DestinationWritten(v)
               THEN Append(Told(v.changes), Put(Step(v).to, Step(v).after[1]))
               ELSE Told(v.changes)
  BY <1>1, Zenon DEF IsDoing
<1>4. IsDoing(v)
  BY <1>1, <1>2, <1>3, Zenon DEF IsDoing
<1> QED
  BY <1>4 DEF Reports

-----------------------------------------------------------------------------
(* The steps of a patch's task. *)

\* A section is planned.
PlansOne(w, v) ==
  \E section, step :
    \E after \in {After(section, state(w.view, follow_final_symlinks(section.path)).current)} :
    /\ w.pc = "plan" /\ w.sections # <<>> /\ section = w.sections[w.at]
    /\ ~Refused(w, section) /\ after.ok /\ step = Planned(w, section, after.content)
    /\ v = Planning(w, step, Viewed(w, step))

VerifiesOne(w, v) ==
  \E p \in w.left :
    /\ w.pc = "verifyAll" /\ read_optional(p) = w.view[p].original
    /\ v = [w EXCEPT !.left = w.left \ {p}, !.pc = IF w.left \ {p} = {} THEN "verify" ELSE @]

\* A step that leaves the disk as it is.
PatchMoves(w, v) ==
  \/ v = fail(w, FALSE, <<>>) /\ w.pc = "plan"
  \/ \E code : v = Failing(w, code)
  \/ PlansOne(w, v)
  \/ VerifiesOne(w, v)
  \/ w.pc = "verify" /\ Step(w).kind = "move" /\ v = [w EXCEPT !.pc = "verifyTo"]
  \/ /\ w.pc \in {"verify", "verifySource"} /\ (w.pc = "verify" => Step(w).kind = "delete")
     /\ v = Ready([w EXCEPT !.target = Step(w).path], "unlink")
  \/ /\ w.pc \in {"verify", "verifyTo"}
     /\ w.pc = "verify" => Step(w).kind \notin {"move", "delete"}
     /\ v = [w EXCEPT !.pc = "look", !.target = Write(w).path]
  \/ w.pc = "look" /\ v = [w EXCEPT !.pc = "recheck"]
  \/ w.pc = "recheck" /\ v = Ready(w, "rename")
  \/ /\ w.pc = "look" /\ read_optional(w.target) = <<Write(w).text>>
     /\ v = Committed(w, Put(w.target, Write(w).text), "already_applied")

\* A call that replaces or removes, and one that fails with its effect.
PatchCalls(w, v) ==
  \/ /\ w.pc = "rename" /\ disk' = atomic_replace(w.target, Write(w).text)
     /\ v = Committed(w, Put(w.target, Write(w).text), "applied")
  \/ /\ w.pc = "unlink" /\ disk' = [disk EXCEPT ![w.target] = None]
     /\ v = Committed(w, Unlinked(w.target), "applied")
  \/ \E x : IsCalling(w) /\ v = FailedAfter(w, x)

\* The other tasks stay, but for the mark of a race.
OthersStay(s) ==
  /\ work' = [t \in Slots |-> work'[t]]
  /\ \A t \in Slots : t = s \/ work'[t] = work[t] \/ work'[t] = [work[t] EXCEPT !.raced = TRUE]

\* A step that leaves the disk as it is.
LEMMA BecomesIs ==
  ASSUME SlotsInv, NEW s \in Slots, NEW v, Becomes(s, v)
  PROVE  work'[s] = v /\ OthersStay(s) /\ disk' = disk
<1>1. work' = [work EXCEPT ![s] = v] /\ disk' = disk
  BY DEF Becomes
<1>2. work' = [t \in Slots |-> IF t = s THEN v ELSE work[t]]
  BY <1>1 DEF SlotsInv
<1> QED
  BY <1>1, <1>2 DEF OthersStay

\* A step that changes it.
LEMMA EffectsIs ==
  ASSUME NEW s \in Slots, NEW new, NEW v, Effects(s, new, v)
  PROVE  work'[s] = v /\ OthersStay(s) /\ disk' = new
BY DEF Effects, OthersStay

\* What a task's step is, for a patch.
LEMMA PatchSteps ==
  ASSUME MutationInv, NEW s \in Slots, task(s) \/ fails(s), NEW w, w = work[s],
         IsPatch(w.request), w.pc # "follow"
  PROVE  /\ OthersStay(s)
         /\ (disk' = disk /\ PatchMoves(w, work'[s])) \/ PatchCalls(w, work'[s])
<1>1. SlotsInv
  BY DEF MutationInv
<1>2. ASSUME NEW v, Becomes(s, v), PatchMoves(w, v)
      PROVE  OthersStay(s) /\ disk' = disk /\ PatchMoves(w, work'[s])
  BY <1>1, <1>2, BecomesIs
<1>3. ASSUME NEW code, Becomes(s, Failing(w, code))
      PROVE  OthersStay(s) /\ disk' = disk /\ PatchMoves(w, work'[s])
  <2>1. PICK v : v = Failing(w, code)
    OBVIOUS
  <2>2. PatchMoves(w, v)
    BY <2>1, Zenon DEF PatchMoves
  <2> QED
    BY <1>2, <1>3, <2>1, <2>2
<1>4. IsConditional(w) /\ w.request.kind = "patch"
  BY WriteOfStep DEF IsPatch
<1>5. CASE plans(s) \/ refuses(s)
  <2>1. CASE Becomes(s, fail(w, FALSE, <<>>)) /\ w.pc = "plan"
    <3>1. PICK v : v = fail(w, FALSE, <<>>)
      OBVIOUS
    <3>2. PatchMoves(w, v)
      BY <2>1, <3>1, Zenon DEF PatchMoves
    <3> QED
      BY <1>2, <2>1, <3>1, <3>2
  <2>2. CASE \E v : PlansOne(w, v) /\ Becomes(s, v)
    BY <1>2, <2>2, Zenon DEF PatchMoves
  <2>3. (Becomes(s, fail(w, FALSE, <<>>)) /\ w.pc = "plan") \/ \E v : PlansOne(w, v) /\ Becomes(s, v)
    <3>1. CASE refuses(s)
      BY <3>1, Zenon DEF refuses
    <3>2. CASE plans(s)
      BY <3>2, Zenon DEF plans, PlansOne
    <3> QED
      BY <1>5, <3>1, <3>2
  <2> QED
    BY <2>1, <2>2, <2>3
<1>6. CASE verifiesAll(s)
  <2>1. PICK p \in w.left :
          /\ w.pc = "verifyAll"
          /\ Becomes(s, IF read_optional(p) # w.view[p].original
                        THEN fail(w, FALSE, w.changes)
                        ELSE [w EXCEPT !.left = w.left \ {p},
                                       !.pc = IF w.left \ {p} = {} THEN "verify" ELSE @])
    BY <1>6 DEF verifiesAll
  <2>2. CASE read_optional(p) # w.view[p].original
    <3>1. Failing(w, "precondition_failed") = fail(w, FALSE, w.changes)
      BY <2>1 DEF Failing
    <3>2. Becomes(s, fail(w, FALSE, w.changes))
      BY <2>1, <2>2
    <3> QED
      BY <1>3, <3>1, <3>2
  <2>3. CASE read_optional(p) = w.view[p].original
    <3>1. PICK v : v = [w EXCEPT !.left = w.left \ {p},
                                 !.pc = IF w.left \ {p} = {} THEN "verify" ELSE @]
      OBVIOUS
    <3>2. Becomes(s, v)
      BY <2>1, <2>3, <3>1
    <3>3. VerifiesOne(w, v)
      BY <2>1, <2>3, <3>1, Zenon DEF VerifiesOne
    <3>4. PatchMoves(w, v)
      BY <3>3 DEF PatchMoves
    <3> QED
      BY <1>2, <3>2, <3>4
  <2> QED
    BY <2>2, <2>3
<1>7. CASE verifies(s)
  <2>1. PICK step, path : step = Step(w) /\ path = Write(w).path
    OBVIOUS
  <2>2. w.pc = "verify" /\
        Becomes(s, CASE read_optional(step.path) # step.before ->
                          Failing(w, "precondition_failed")
                     [] read_optional(step.path) = step.before /\ step.kind = "move" ->
                          [w EXCEPT !.pc = "verifyTo"]
                     [] read_optional(step.path) = step.before /\ step.kind = "delete" ->
                          Ready([w EXCEPT !.target = step.path], "unlink")
                     [] OTHER -> [w EXCEPT !.pc = "look", !.target = path])
    BY <1>7, <2>1 DEF verifies
  <2>3. PICK to, unlink, look :
          /\ to = [w EXCEPT !.pc = "verifyTo"]
          /\ unlink = Ready([w EXCEPT !.target = step.path], "unlink")
          /\ look = [w EXCEPT !.pc = "look", !.target = path]
    OBVIOUS
  <2>4. \/ Becomes(s, Failing(w, "precondition_failed"))
        \/ Becomes(s, to) /\ step.kind = "move"
        \/ Becomes(s, unlink) /\ step.kind = "delete"
        \/ Becomes(s, look) /\ step.kind \notin {"move", "delete"}
    <3>1. CASE read_optional(step.path) # step.before
      BY <2>2, <3>1
    <3>2. CASE read_optional(step.path) = step.before /\ step.kind = "move"
      BY <2>2, <2>3, <3>2
    <3>3. CASE read_optional(step.path) = step.before /\ step.kind = "delete"
      BY <2>2, <2>3, <3>3
    <3>4. CASE read_optional(step.path) = step.before /\ step.kind \notin {"move", "delete"}
      BY <2>2, <2>3, <3>4
    <3> QED
      BY <3>1, <3>2, <3>3, <3>4
  <2>5. step.kind = "move" => PatchMoves(w, to)
    BY <2>1, <2>2, <2>3, Zenon DEF PatchMoves
  <2>6. step.kind = "delete" => PatchMoves(w, unlink)
    BY <2>1, <2>2, <2>3, Zenon DEF PatchMoves
  <2>7. step.kind \notin {"move", "delete"} => PatchMoves(w, look)
    BY <2>1, <2>2, <2>3, Zenon DEF PatchMoves
  <2> QED
    BY <1>2, <1>3, <2>4, <2>5, <2>6, <2>7
<1>8. CASE verifiesTo(s)
  <2>1. PICK v : v = [w EXCEPT !.pc = "look", !.target = Write(w).path]
    OBVIOUS
  <2>2. w.pc = "verifyTo" /\ (Becomes(s, Failing(w, "precondition_failed")) \/ Becomes(s, v))
    BY <1>8, <2>1 DEF verifiesTo
  <2>3. PatchMoves(w, v)
    BY <2>1, <2>2, Zenon DEF PatchMoves
  <2> QED
    BY <1>2, <1>3, <2>2, <2>3
<1>9. CASE verifiesSource(s)
  <2>1. PICK v : v = Ready([w EXCEPT !.target = Step(w).path], "unlink")
    OBVIOUS
  <2>2. w.pc = "verifySource" /\ (Becomes(s, Failing(w, "precondition_failed")) \/ Becomes(s, v))
    BY <1>9, <2>1 DEF verifiesSource
  <2>3. PatchMoves(w, v)
    BY <2>1, <2>2, Zenon DEF PatchMoves
  <2> QED
    BY <1>2, <1>3, <2>2, <2>3
<1>10. CASE looks(s)
  <2>1. PICK text : text = Write(w).text
    OBVIOUS
  <2>2. PICK there, again : /\ there = Committed(w, Put(w.target, text), "already_applied")
                            /\ again = [w EXCEPT !.pc = "recheck"]
    OBVIOUS
  <2>3. /\ w.pc = "look"
        /\ \/ read_optional(w.target) = <<text>> /\ Becomes(s, there)
           \/ Becomes(s, again)
           \/ Becomes(s, Failing(w, "precondition_failed"))
    BY <1>4, <1>10, <2>1, <2>2 DEF looks
  <2>4. read_optional(w.target) = <<text>> => PatchMoves(w, there)
    BY <2>1, <2>2, <2>3, Zenon DEF PatchMoves
  <2>5. PatchMoves(w, again)
    BY <2>2, <2>3, Zenon DEF PatchMoves
  <2> QED
    BY <1>2, <1>3, <2>3, <2>4, <2>5
<1>11. CASE rechecks(s)
  <2>1. PICK v : v = Ready(w, "rename")
    OBVIOUS
  <2>2. w.pc = "recheck" /\ (Becomes(s, Failing(w, "precondition_failed")) \/ Becomes(s, v))
    BY <1>11, <2>1 DEF rechecks
  <2>3. PatchMoves(w, v)
    BY <2>1, <2>2, Zenon DEF PatchMoves
  <2> QED
    BY <1>2, <1>3, <2>2, <2>3
<1>12. CASE renames(s)
  <2>1. PICK v, new : /\ v = Committed(w, Put(w.target, Write(w).text), "applied")
                      /\ new = atomic_replace(w.target, Write(w).text)
    OBVIOUS
  <2>2. w.pc = "rename" /\ Effects(s, new, v)
    BY <1>12, <2>1 DEF renames
  <2>3. work'[s] = v /\ OthersStay(s) /\ disk' = new
    BY <2>2, EffectsIs
  <2> QED
    BY <2>1, <2>2, <2>3, Zenon DEF PatchCalls
<1>13. CASE unlinks(s)
  <2>1. PICK v, new : /\ v = Committed(w, Unlinked(w.target), "applied")
                      /\ new = [disk EXCEPT ![w.target] = None]
    OBVIOUS
  <2>2. w.pc = "unlink" /\ (Becomes(s, Failing(w, "not_found")) \/ Effects(s, new, v))
    BY <1>13, <2>1 DEF unlinks
  <2>3. CASE Effects(s, new, v)
    <3>1. work'[s] = v /\ OthersStay(s) /\ disk' = new
      BY <2>3, EffectsIs
    <3> QED
      BY <2>1, <2>2, <3>1, Zenon DEF PatchCalls
  <2> QED
    BY <1>3, <2>2, <2>3
<1>14. CASE fails(s)
  <2>1. PICK failed, effect, new :
          /\ failed = Failing(w, "io")
          /\ effect = (IF w.pc = "unlink" THEN Unlinked(w.target) ELSE Put(w.target, Write(w).text))
          /\ new = IF w.pc = "unlink" THEN [disk EXCEPT ![w.target] = None]
                   ELSE atomic_replace(w.target, Write(w).text)
    OBVIOUS
  <2>2. PICK v : v = [failed EXCEPT !.done = Append(@, effect)]
    OBVIOUS
  <2>3. Effects(s, disk, failed) \/ (w.pc \in {"rename", "unlink"} /\ Effects(s, new, v))
    BY <1>14, <2>1, <2>2 DEF fails
  <2>4. CASE Effects(s, disk, failed)
    <3>1. work'[s] = failed /\ OthersStay(s) /\ disk' = disk
      BY <2>4, EffectsIs
    <3> QED
      BY <2>1, <3>1, Zenon DEF PatchMoves
  <2>5. CASE w.pc \in {"rename", "unlink"} /\ Effects(s, new, v)
    <3>1. work'[s] = v /\ OthersStay(s)
      BY <2>5, EffectsIs
    <3>2. v = FailedAfter(w, effect)
      BY <2>1, <2>2 DEF FailedAfter
    <3>3. IsCalling(w)
      BY <2>5 DEF IsCalling
    <3>4. PatchCalls(w, v)
      BY <3>2, <3>3, Zenon DEF PatchCalls
    <3> QED
      BY <3>1, <3>4
  <2> QED
    BY <2>3, <2>4, <2>5
<1>15. ~follows(s) /\ ~looksToRemove(s)
  BY <1>4 DEF follows, looksToRemove
<1> QED
  BY <1>2, <1>5, <1>6, <1>7, <1>8, <1>9, <1>10, <1>11, <1>12, <1>13, <1>14, <1>15 DEF task

\* Only a task under way takes a step.
LEMMA OnlyUnderWay ==
  ASSUME NEW s \in Slots, task(s) \/ fails(s)
  PROVE  work[s].pc \notin {"idle", "returned"}
<1>1. CASE plans(s) \/ refuses(s)
  BY <1>1 DEF plans, refuses
<1>2. CASE verifiesAll(s)
  BY <1>2 DEF verifiesAll
<1>3. CASE verifies(s)
  BY <1>3 DEF verifies
<1>4. CASE verifiesTo(s) \/ verifiesSource(s)
  BY <1>4 DEF verifiesTo, verifiesSource
<1>5. CASE follows(s) \/ looks(s) \/ looksToRemove(s)
  BY <1>5 DEF follows, looks, looksToRemove
<1>6. CASE rechecks(s) \/ renames(s) \/ unlinks(s)
  BY <1>6 DEF rechecks, renames, unlinks
<1>7. CASE fails(s)
  BY <1>7 DEF fails
<1> QED
  BY <1>1, <1>2, <1>3, <1>4, <1>5, <1>6, <1>7 DEF task

\* A section becomes a step of a kind.
LEMMA PlannedHasKind ==
  ASSUME NEW w, NEW section, IsSection(section), NEW after
  PROVE  Planned(w, section, after).kind \in Kinds
<1>1. PICK kind : kind = CASE IsMove(section) -> "move"
                           [] section.kind = "replace" -> "update"
                           [] OTHER -> section.kind
  OBVIOUS
<1>2. Planned(w, section, after).kind = kind
  BY <1>1, Zenon DEF Planned
<1>3. CASE IsMove(section)
  <2>1. section.kind # "replace"
    BY <1>3 DEF IsSection, IsMove
  <2>2. kind = "move"
    BY <1>1, <1>3, <2>1, Zenon
  <2> QED
    BY <1>2, <2>2 DEF Kinds
<1>4. CASE ~IsMove(section) /\ section.kind = "replace"
  BY <1>1, <1>2, <1>4 DEF Kinds
<1>5. CASE ~IsMove(section) /\ section.kind # "replace"
  <2>1. kind = section.kind
    BY <1>1, <1>5, Zenon
  <2> QED
    BY <1>2, <1>5, <2>1 DEF Kinds, IsSection
<1> QED
  BY <1>3, <1>4, <1>5

\* One section is planned.
LEMMA PlanningReports ==
  ASSUME NEW w, IsTask(w), IsPlanning(w), NEW v, PlansOne(w, v)
  PROVE  IsPlanning(v) \/ IsPlanned(v)
<1>1. PICK section, step, after :
        /\ w.sections # <<>> /\ section = w.sections[w.at]
        /\ step = Planned(w, section, after.content) /\ v = Planning(w, step, Viewed(w, step))
  BY Zenon DEF PlansOne
<1>2. PICK n, at : n = Len(w.sections) /\ at = w.at /\ n \in Nat /\ at \in 1..n
  BY <1>1 DEF IsPlanning, AreSections, IsSeq
<1>3. IsSection(section)
  BY <1>1, <1>2 DEF IsPlanning, AreSections
<1>4. step.kind \in Kinds
  BY <1>1, <1>3, PlannedHasKind
<1>5. PICK steps : steps = Append(w.steps, step)
  OBVIOUS
<1>6. HaveKinds(w.steps) /\ Len(w.steps) = at - 1
  BY <1>2 DEF IsPlanning
<1>7. HaveKinds(steps) /\ Len(steps) = at
  <2>1. /\ IsSeq(steps) /\ Len(steps) = at
        /\ (\A k \in 1..at - 1 : steps[k] = w.steps[k]) /\ steps[at] = step
    <3>1. PICK m : m = Len(w.steps)
      OBVIOUS
    <3>2. /\ IsSeq(steps) /\ Len(steps) = m + 1
          /\ (\A k \in 1..m : steps[k] = w.steps[k]) /\ steps[m + 1] = step
      BY <1>5, <1>6, <3>1, AppendIs DEF HaveKinds
    <3>3. m = at - 1 /\ m + 1 = at
      BY <1>2, <1>6, <3>1
    <3> QED
      BY <3>2, <3>3
  <2>2. \A k \in 1..at : k \in 1..at - 1 \/ k = at
    BY <1>2
  <2>3. \A k \in 1..at - 1 : w.steps[k].kind \in Kinds
    BY <1>6 DEF HaveKinds
  <2>4. \A k \in 1..at : steps[k].kind \in Kinds
    BY <1>4, <2>1, <2>2, <2>3
  <2> QED
    BY <2>1, <2>4 DEF HaveKinds
<1>8. PICK view, aliases : view = Viewed(w, step) /\ aliases = WithAliases(w.aliases, step.section)
  OBVIOUS
<1>9. PICK next, pc, left :
        /\ next = (IF at = n THEN 1 ELSE at + 1)
        /\ pc = (IF at = n THEN "verifyAll" ELSE "plan")
        /\ left = (IF at = n THEN DOMAIN view ELSE {})
  OBVIOUS
<1>10. v = [w EXCEPT !.steps = steps, !.view = view, !.aliases = aliases, !.at = next,
                     !.pc = pc, !.left = left]
  BY <1>1, <1>2, <1>5, <1>8, <1>9 DEF Planning, IsTask, TaskParts, IsPlanning
<1>11. /\ v.steps = steps /\ v.at = next /\ v.pc = pc /\ v.sections = w.sections
       /\ v.changes = w.changes /\ v.done = w.done /\ v.exact = w.exact /\ v.status = w.status
  BY <1>10 DEF IsTask, TaskParts
<1>12. IsUntouched(v)
  BY <1>11 DEF IsPlanning, IsUntouched
<1>13. CASE at = n
  <2>1. v.at = 1 /\ v.pc = "verifyAll" /\ Len(v.steps) = Len(v.sections) /\ v.at <= Len(v.steps)
    BY <1>2, <1>7, <1>9, <1>11, <1>13
  <2> QED
    BY <1>7, <1>11, <1>12, <2>1 DEF IsPlanned
<1>14. CASE at # n
  <2>1. v.at \in 1..Len(v.sections) /\ v.pc = "plan" /\ Len(v.steps) = v.at - 1
    BY <1>2, <1>7, <1>9, <1>11, <1>14
  <2>2. AreSections(v.sections) /\ HaveKinds(v.steps)
    BY <1>7, <1>11 DEF IsPlanning
  <2> QED
    BY <1>12, <2>1, <2>2 DEF IsPlanning
<1> QED
  BY <1>13, <1>14

\* One of the plan's paths is read again.
LEMMA VerifyingReports ==
  ASSUME NEW w, IsTask(w), IsPatch(w.request), IsPlanned(w), NEW v, VerifiesOne(w, v)
  PROVE  Reports(v)
<1>1. PICK left, pc : /\ pc \in {"verifyAll", "verify"}
                      /\ v = [w EXCEPT !.left = left, !.pc = pc]
  <2>1. PICK p \in w.left :
          v = [w EXCEPT !.left = w.left \ {p},
                        !.pc = IF w.left \ {p} = {} THEN "verify" ELSE @]
    BY Zenon DEF VerifiesOne
  <2>2. PICK left : left = w.left \ {p}
    OBVIOUS
  <2>3. PICK pc : pc = IF left = {} THEN "verify" ELSE w.pc
    OBVIOUS
  <2>4. v = [w EXCEPT !.left = left, !.pc = pc]
    BY <2>1, <2>2, <2>3 DEF IsTask, TaskParts
  <2>5. pc \in {"verifyAll", "verify"}
    BY <2>3 DEF IsPlanned
  <2> QED
    BY <2>4, <2>5
<1>2. /\ v.pc = pc /\ v.at = w.at /\ v.sections = w.sections /\ v.steps = w.steps
      /\ v.changes = w.changes /\ v.done = w.done /\ v.exact = w.exact /\ v.status = w.status
  BY <1>1 DEF IsTask, TaskParts
<1>3. CASE pc = "verifyAll"
  BY <1>2, <1>3 DEF Reports, IsPlanned, IsUntouched
<1>4. CASE pc = "verify"
  <2>1. ~DestinationWritten(v) /\ v.pc = "verify" /\ v.pc \in Doing
    BY <1>2, <1>4 DEF DestinationWritten, Doing
  <2>2. HaveKinds(v.changes) /\ v.done = Told(v.changes) /\ Len(v.changes) = 0
    BY <1>2, UntouchedTells, EmptyIsSeq DEF IsPlanned, IsUntouched
  <2>3. v.at \in 1..Len(v.steps) /\ Len(v.changes) = v.at - 1
    <3>1. Len(v.steps) \in Nat
      BY <1>2 DEF IsPlanned, HaveKinds, IsSeq
    <3> QED
      BY <1>2, <2>2, <3>1 DEF IsPlanned
  <2>4. IsDoing(v)
    BY <1>2, <2>1, <2>2, <2>3 DEF IsDoing, IsPlanned, IsUntouched
  <2> QED
    BY <2>4 DEF Reports
<1> QED
  BY <1>1, <1>3, <1>4

\* A step of a patch's task tells the truth.
LEMMA MovesReport ==
  ASSUME NEW w, IsTask(w), IsPatch(w.request), w.pc # "returned", Reports(w),
         NEW v, PatchMoves(w, v)
  PROVE  Reports(v)
<1>1. IsPlanning(w) \/ IsPlanned(w) \/ IsDoing(w)
  BY DEF Reports, IsReported
<1>2. ASSUME w.pc \notin {"plan", "verifyAll"}
      PROVE  IsDoing(w)
  BY <1>1, <1>2 DEF IsPlanning, IsPlanned
<1>3. CASE v = fail(w, FALSE, <<>>) /\ w.pc = "plan"
  <2>1. w.done = <<>>
    BY <1>1, <1>3 DEF IsPlanning, IsPlanned, IsDoing, Doing, IsUntouched
  <2> QED
    BY <1>3, <2>1, NothingTold, FailReports DEF Reports
<1>4. CASE \E code : v = Failing(w, code)
  BY <1>1, <1>4, FailingReports DEF Reports
<1>5. CASE PlansOne(w, v)
  <2>1. w.pc = "plan"
    BY <1>5, Zenon DEF PlansOne
  <2>2. IsPlanning(w)
    BY <1>1, <2>1 DEF IsPlanned, IsDoing, Doing
  <2> QED
    BY <1>5, <2>2, PlanningReports DEF Reports
<1>6. CASE VerifiesOne(w, v)
  <2>1. w.pc = "verifyAll"
    BY <1>6, Zenon DEF VerifiesOne
  <2>2. IsPlanned(w)
    BY <1>1, <2>1 DEF IsPlanning, IsDoing, Doing
  <2> QED
    BY <1>6, <2>2, VerifyingReports
<1>7. CASE w.pc = "verify" /\ Step(w).kind = "move" /\ v = [w EXCEPT !.pc = "verifyTo"]
  <2>1. IsDoing(w) /\ ~DestinationWritten(w)
    BY <1>2, <1>7 DEF DestinationWritten
  <2>2. /\ v.pc = "verifyTo"
        /\ v.sections = w.sections /\ v.steps = w.steps /\ v.at = w.at /\ v.request = w.request
        /\ v.status = w.status /\ v.exact = w.exact /\ v.changes = w.changes /\ v.done = w.done
    BY <1>7 DEF IsTask, TaskParts
  <2>3. ~DestinationWritten(v)
    BY <2>2 DEF DestinationWritten
  <2> QED
    BY <1>7, <2>1, <2>2, <2>3, DoingOn DEF Doing
<1>8. CASE /\ w.pc \in {"verify", "verifySource"} /\ (w.pc = "verify" => Step(w).kind = "delete")
           /\ v = Ready([w EXCEPT !.target = Step(w).path], "unlink")
  <2>1. IsDoing(w) /\ w.pc \in {"verify", "verifySource"}
    BY <1>2, <1>8
  <2>2. PICK path : path = Step(w).path
    OBVIOUS
  <2>3. /\ v.pc = "unlink" /\ v.target = path
        /\ v.sections = w.sections /\ v.steps = w.steps /\ v.at = w.at /\ v.request = w.request
        /\ v.status = w.status /\ v.exact = w.exact /\ v.changes = w.changes /\ v.done = w.done
    BY <1>8, <2>2 DEF Ready, IsTask, TaskParts
  <2>4. Step(v) = Step(w)
    BY <2>3, SameWrite
  <2>5. w.pc = "verifySource" => Step(w).kind = "move"
    BY <2>1 DEF IsDoing
  <2>6. Step(w).kind \in {"move", "delete"}
    BY <1>8, <2>1, <2>5
  <2>7. DestinationWritten(v) <=> DestinationWritten(w)
    BY <1>8, <2>1, <2>3, <2>4, <2>5 DEF DestinationWritten
  <2> QED
    BY <2>1, <2>2, <2>3, <2>6, <2>7, DoingOn DEF Doing
<1>9. CASE /\ w.pc \in {"verify", "verifyTo"}
           /\ w.pc = "verify" => Step(w).kind \notin {"move", "delete"}
           /\ v = [w EXCEPT !.pc = "look", !.target = Write(w).path]
  <2>1. IsDoing(w) /\ ~DestinationWritten(w)
    BY <1>2, <1>9 DEF DestinationWritten
  <2>2. PICK path : path = Write(w).path
    OBVIOUS
  <2>3. /\ v.pc = "look" /\ v.target = path
        /\ v.sections = w.sections /\ v.steps = w.steps /\ v.at = w.at /\ v.request = w.request
        /\ v.status = w.status /\ v.exact = w.exact /\ v.changes = w.changes /\ v.done = w.done
    BY <1>9, <2>2 DEF IsTask, TaskParts
  <2>4. ~DestinationWritten(v)
    BY <2>3 DEF DestinationWritten
  <2>5. Step(w).kind # "delete"
    <3>1. w.pc = "verifyTo" => Step(w).kind = "move"
      BY <2>1 DEF IsDoing
    <3> QED
      BY <1>9, <3>1
  <2> QED
    BY <2>1, <2>2, <2>3, <2>4, <2>5, DoingOn DEF Doing
<1>10. CASE w.pc = "look" /\ v = [w EXCEPT !.pc = "recheck"]
  <2>1. IsDoing(w) /\ ~DestinationWritten(w)
    BY <1>2, <1>10 DEF DestinationWritten
  <2>2. /\ v.pc = "recheck" /\ v.target = w.target
        /\ v.sections = w.sections /\ v.steps = w.steps /\ v.at = w.at /\ v.request = w.request
        /\ v.status = w.status /\ v.exact = w.exact /\ v.changes = w.changes /\ v.done = w.done
    BY <1>10 DEF IsTask, TaskParts
  <2>3. ~DestinationWritten(v)
    BY <2>2 DEF DestinationWritten
  <2>4. Step(w).kind # "delete" /\ w.target = Write(w).path
    BY <1>10, <2>1 DEF IsDoing
  <2> QED
    BY <2>1, <2>2, <2>3, <2>4, DoingOn DEF Doing
<1>11. CASE w.pc = "recheck" /\ v = Ready(w, "rename")
  <2>1. IsDoing(w) /\ ~DestinationWritten(w)
    BY <1>2, <1>11 DEF DestinationWritten
  <2>2. /\ v.pc = "rename" /\ v.target = w.target
        /\ v.sections = w.sections /\ v.steps = w.steps /\ v.at = w.at /\ v.request = w.request
        /\ v.status = w.status /\ v.exact = w.exact /\ v.changes = w.changes /\ v.done = w.done
    BY <1>11 DEF Ready, IsTask, TaskParts
  <2>3. ~DestinationWritten(v)
    BY <2>2 DEF DestinationWritten
  <2>4. Step(w).kind # "delete" /\ w.target = Write(w).path
    BY <1>11, <2>1 DEF IsDoing
  <2> QED
    BY <2>1, <2>2, <2>3, <2>4, DoingOn DEF Doing
<1>12. CASE /\ w.pc = "look"
            /\ v = Committed(w, Put(w.target, Write(w).text), "already_applied")
  <2>1. IsDoing(w)
    BY <1>2, <1>12
  <2> QED
    BY <1>12, <2>1, CommittedReports
<1> QED
  BY <1>3, <1>4, <1>5, <1>6, <1>7, <1>8, <1>9, <1>10, <1>11, <1>12, Zenon DEF PatchMoves

\* So does a call that changes the disk.
LEMMA CallsReport ==
  ASSUME NEW w, IsTask(w), IsPatch(w.request), Reports(w), NEW v, PatchCalls(w, v)
  PROVE  Reports(v)
<1>1. IsCalling(w)
  BY DEF PatchCalls, IsCalling
<1>2. IsDoing(w)
  BY <1>1 DEF Reports, IsPlanning, IsPlanned, IsReported, IsCalling
<1>3. CASE w.pc = "rename" /\ v = Committed(w, Put(w.target, Write(w).text), "applied")
  BY <1>2, <1>3, CommittedReports
<1>4. CASE w.pc = "unlink" /\ v = Committed(w, Unlinked(w.target), "applied")
  BY <1>2, <1>4, CommittedReports
<1>5. CASE \E x : v = FailedAfter(w, x)
  BY <1>1, <1>2, <1>5, FailingAfterReports DEF Reports
<1> QED
  BY <1>3, <1>4, <1>5, Zenon DEF PatchCalls

\* A task stays its request's, and comes to write only if that says what.
Writing == {"recheck", "rename"}
OtherMoves(w, v) ==
  Follows(w, v) /\ (v.pc \in Writing => w.pc \in Writing \/ w.request.kind # "remove")

\* The task of another request is no patch's.
LEMMA OtherTasks ==
  ASSUME MutationInv, NEW s \in Slots, task(s) \/ fails(s), ~IsPatch(work[s].request)
  PROVE  OthersStay(s) /\ OtherMoves(work[s], work'[s])
<1>1. PICK w : w = work[s]
  OBVIOUS
<1> SUFFICES OthersStay(s) /\ OtherMoves(w, work'[s])
  BY <1>1
<1>2. IsTask(w) /\ SlotsInv /\ w.pc \notin PatchPlaces
  BY <1>1, OnlyUnderWay, SlotHasTask DEF MutationInv, IsTask
<1>3. ASSUME NEW v, Becomes(s, v) \/ (\E new : Effects(s, new, v)), OtherMoves(w, v)
      PROVE  OthersStay(s) /\ OtherMoves(w, work'[s])
  BY <1>1, <1>2, <1>3, BecomesIs, EffectsIs
<1>4. ASSUME NEW code, Becomes(s, Failing(w, code)) PROVE OthersStay(s) /\ OtherMoves(w, work'[s])
  <2>1. PICK v : v = Failing(w, code)
    OBVIOUS
  <2> QED
    BY <1>2, <1>3, <1>4, <2>1, FailingFollows DEF OtherMoves, Writing
<1>5. ASSUME NEW effect, NEW status,
             \/ Becomes(s, Committed(w, effect, status))
             \/ \E new : Effects(s, new, Committed(w, effect, status))
      PROVE  OthersStay(s) /\ OtherMoves(w, work'[s])
  <2>1. PICK v : v = Committed(w, effect, status)
    OBVIOUS
  <2> QED
    BY <1>2, <1>3, <1>5, <2>1, CommittedFollows DEF OtherMoves, Writing
<1>6. ASSUME NEW pc \in {"rename", "unlink"}, Becomes(s, Ready(w, pc)),
             pc = "rename" => w.pc \in Writing \/ w.request.kind # "remove"
      PROVE  OthersStay(s) /\ OtherMoves(w, work'[s])
  <2>1. PICK v : v = Ready(w, pc)
    OBVIOUS
  <2>2. OtherMoves(w, v)
    BY <1>2, <1>6, <2>1, ReadyFollows DEF OtherMoves, Writing
  <2> QED
    BY <1>3, <1>6, <2>1, <2>2
<1>7. ~(plans(s) \/ refuses(s) \/ verifiesAll(s) \/ verifies(s) \/ verifiesTo(s) \/ verifiesSource(s))
  <2>1. /\ w.pc # "plan" /\ w.pc # "verifyAll" /\ w.pc # "verify" /\ w.pc # "verifyTo"
        /\ w.pc # "verifySource"
    BY <1>2 DEF PatchPlaces
  <2>2. ~plans(s) /\ ~refuses(s) /\ ~verifiesAll(s)
    BY <1>1, <2>1 DEF plans, refuses, verifiesAll
  <2>3. ~verifies(s)
    BY <1>1, <2>1 DEF verifies
  <2>4. ~verifiesTo(s) /\ ~verifiesSource(s)
    BY <1>1, <2>1 DEF verifiesTo, verifiesSource
  <2> QED
    BY <2>2, <2>3, <2>4
<1>8. CASE follows(s)
  <2>1. PICK v : v = [w EXCEPT !.pc = "look", !.target = follow_final_symlinks(w.target)]
    OBVIOUS
  <2>2. Becomes(s, v)
    BY <1>1, <1>8, <2>1 DEF follows
  <2>3. OtherMoves(w, v)
    BY <1>2, <2>1 DEF OtherMoves, Writing, IsTask, TaskParts, PatchPlaces, Follows
  <2> QED
    BY <1>3, <2>2, <2>3
<1>9. CASE looks(s)
  <2>1. PICK v, effect : v = [w EXCEPT !.pc = "recheck"] /\ effect = Put(w.target, Write(w).text)
    OBVIOUS
  <2>2. \/ Becomes(s, Committed(w, effect, "already_applied"))
        \/ Becomes(s, v)
        \/ Becomes(s, Failing(w, "precondition_failed"))
        \/ Becomes(s, Ready(w, "rename"))
    BY <1>1, <1>9, <2>1 DEF looks
  <2>3. w.pc = "look" /\ w.request.kind # "remove"
    BY <1>1, <1>9 DEF looks
  <2>4. OtherMoves(w, v)
    BY <1>2, <2>1, <2>3 DEF OtherMoves, IsTask, TaskParts, PatchPlaces, Follows
  <2> QED
    BY <1>3, <1>4, <1>5, <1>6, <2>2, <2>3, <2>4
<1>10. CASE looksToRemove(s)
  <2>1. PICK effect : effect = Unlinked(w.target)
    OBVIOUS
  <2>2. Becomes(s, CASE read_optional(w.target) = <<>> -> Committed(w, effect, "already_applied")
                     [] read_optional(w.target) # <<>>
                          /\ ~check_precondition(w.target, w.request.before) ->
                            Failing(w, "precondition_failed")
                     [] OTHER -> Ready(w, "unlink"))
    BY <1>1, <1>10, <2>1 DEF looksToRemove
  <2>3. CASE read_optional(w.target) = <<>>
    <3>1. Becomes(s, Committed(w, effect, "already_applied"))
      BY <2>2, <2>3
    <3> QED
      BY <1>5, <3>1
  <2>4. CASE read_optional(w.target) # <<>> /\ ~check_precondition(w.target, w.request.before)
    <3>1. Becomes(s, Failing(w, "precondition_failed"))
      BY <2>2, <2>4
    <3> QED
      BY <1>4, <3>1
  <2>5. CASE read_optional(w.target) # <<>> /\ check_precondition(w.target, w.request.before)
    <3>1. Becomes(s, Ready(w, "unlink"))
      BY <2>2, <2>5
    <3> QED
      BY <1>6, <3>1
  <2> QED
    BY <2>3, <2>4, <2>5
<1>11. CASE rechecks(s)
  <2>1. Becomes(s, Failing(w, "precondition_failed")) \/ Becomes(s, Ready(w, "rename"))
    BY <1>1, <1>11 DEF rechecks
  <2>2. w.pc \in Writing
    BY <1>1, <1>11 DEF rechecks, Writing
  <2> QED
    BY <1>4, <1>6, <2>1, <2>2
<1>12. CASE renames(s)
  <2>1. PICK new, effect : /\ new = atomic_replace(w.target, Write(w).text)
                           /\ effect = Put(w.target, Write(w).text)
    OBVIOUS
  <2>2. Effects(s, new, Committed(w, effect, "applied"))
    BY <1>1, <1>12, <2>1 DEF renames
  <2> QED
    BY <1>5, <2>2
<1>13. CASE unlinks(s)
  <2>1. PICK new, effect : new = [disk EXCEPT ![w.target] = None] /\ effect = Unlinked(w.target)
    OBVIOUS
  <2>2. \/ Becomes(s, Failing(w, "not_found"))
        \/ Effects(s, new, Committed(w, effect, "applied"))
    BY <1>1, <1>13, <2>1 DEF unlinks
  <2> QED
    BY <1>4, <1>5, <2>2
<1>14. CASE fails(s)
  <2>1. PICK failed, effect, new :
          /\ failed = Failing(w, "io")
          /\ effect = (IF w.pc = "unlink" THEN Unlinked(w.target) ELSE Put(w.target, Write(w).text))
          /\ new = IF w.pc = "unlink" THEN [disk EXCEPT ![w.target] = None]
                   ELSE atomic_replace(w.target, Write(w).text)
    OBVIOUS
  <2>2. PICK v : v = [failed EXCEPT !.done = Append(@, effect)]
    OBVIOUS
  <2>3. Effects(s, disk, failed) \/ Effects(s, new, v)
    BY <1>1, <1>14, <2>1, <2>2 DEF fails
  <2>4. OtherMoves(w, failed) /\ failed.pc = "returned"
    BY <1>2, <2>1, FailingFollows DEF OtherMoves, Writing
  <2>5. OtherMoves(w, v)
    BY <2>2, <2>4 DEF OtherMoves, Writing, IsTask, TaskParts, PatchPlaces, Follows
  <2> QED
    BY <1>3, <2>3, <2>4, <2>5
<1> QED
  BY <1>7, <1>8, <1>9, <1>10, <1>11, <1>12, <1>13, <1>14 DEF task

\* A task that stays, but for its marks.
Marked(w, v) == v = w \/ v = [w EXCEPT !.raced = TRUE] \/ v = [w EXCEPT !.orphan = TRUE]

\* It goes on telling the truth.
LEMMA MarkedReports ==
  ASSUME MutationInv, ReportInv, NEW t \in Slots, Marked(work[t], work'[t]), work'[t] # Idle
  PROVE  Reports(work'[t])
<1>1. PICK w, v : w = work[t] /\ v = work'[t]
  OBVIOUS
<1>2. w # Idle
  BY <1>1 DEF Marked, Idle
<1>3. IsTask(w) /\ Reports(w)
  BY <1>1, <1>2 DEF MutationInv, SlotsInv, ReportInv
<1>4. \A part \in Parts : v[part] = w[part]
  BY <1>1, <1>3 DEF Marked, IsTask, TaskParts, Parts
<1> QED
  BY <1>1, <1>3, <1>4, SameReport

\* A new task has done nothing.
LEMMA NewReports ==
  ASSUME NEW r \in Requests
  PROVE  Reports(Task(r))
<1>1. SUFFICES ASSUME IsPatch(r) PROVE IsPlanning(Task(r))
  BY NewTask DEF Reports
<1>2. PICK all, start, target : all = sections(r) /\ start = Start(r) /\ target = ""
  OBVIOUS
<1>3. start = "plan"
  BY <1>1, <1>2 DEF Start, IsPatch
<1>4. Task(r) =
        [request |-> r, pc |-> start, at |-> 1, target |-> target,
         sections |-> all, view |-> <<>>, aliases |-> <<>>, steps |-> <<>>, left |-> {},
         status |-> "applied", exact |-> TRUE, changes |-> <<>>,
         done |-> <<>>, raced |-> FALSE, orphan |-> FALSE]
  BY <1>1, <1>2 DEF Task
<1>5. PICK w : w = Task(r)
  OBVIOUS
<1>6. /\ w.pc = "plan" /\ w.at = 1 /\ w.sections = all /\ w.steps = <<>> /\ w.changes = <<>>
      /\ w.done = <<>> /\ w.exact /\ w.status = "applied"
  BY <1>3, <1>4, <1>5
<1>7. AreSections(all)
  BY <1>1, <1>2, SectionsOf
<1>8. all = <<>> \/ 1 \in 1..Len(all)
  <2>1. all # <<>> => Len(all) \in 1..Len(all) /\ Len(all) \in Nat
    BY <1>7, LastSection DEF AreSections, IsSeq
  <2> QED
    BY <2>1
<1>9. HaveKinds(<<>>) /\ Len(<<>>) = 1 - 1
  BY NothingTold, EmptyIsSeq
<1>10. IsPlanning(w)
  BY <1>6, <1>7, <1>8, <1>9 DEF IsPlanning, IsUntouched
<1> QED
  BY <1>5, <1>10

\* A task takes a step, or meets a failure.
LEMMA TaskReports ==
  ASSUME MutationInv, ReportInv, NEW s \in Slots, task(s) \/ fails(s)
  PROVE  ReportInv'
<1>1. PICK w, v : w = work[s] /\ v = work'[s]
  OBVIOUS
<1>2. w.pc \notin {"idle", "returned"}
  BY <1>1, OnlyUnderWay
<1>3. IsTask(w) /\ Reports(w)
  BY <1>1, <1>2, SlotHasTask DEF ReportInv, Idle
<1>4. OthersStay(s) /\ Reports(v)
  <2>1. CASE IsPatch(w.request)
    <3>1. w.pc # "follow"
      BY <1>3, <2>1 DEF Reports, IsPlanning, IsPlanned, IsDoing, Doing, IsReported
    <3>2. OthersStay(s) /\ (PatchMoves(w, v) \/ PatchCalls(w, v))
      BY <1>1, <2>1, <3>1, PatchSteps
    <3> QED
      BY <1>2, <1>3, <2>1, <3>2, MovesReport, CallsReport
  <2>2. CASE ~IsPatch(w.request)
    BY <1>1, <2>2, OtherTasks DEF Reports, OtherMoves, Follows
  <2> QED
    BY <2>1, <2>2
<1>5. ASSUME NEW t \in Slots, work'[t] # Idle
      PROVE  Reports(work'[t])
  <2>1. CASE t = s
    BY <1>1, <1>4, <2>1
  <2>2. CASE t # s
    <3>1. Marked(work[t], work'[t])
      BY <1>4, <2>2 DEF OthersStay, Marked
    <3> QED
      BY <1>5, <3>1, MarkedReports
  <2> QED
    BY <2>1, <2>2
<1> QED
  BY <1>5 DEF ReportInv

\* Every other step gives a slot a new task, frees it, or marks it.
OnlyMarks ==
  \A t \in Slots : \/ Marked(work[t], work'[t]) \/ work'[t] = Idle
                   \/ \E r \in Requests : work'[t] = Task(r)

\* After such a step the receipts are true.
LEMMA OnlyMarksReport ==
  ASSUME MutationInv, ReportInv, OnlyMarks
  PROVE  ReportInv'
BY MarkedReports, NewReports DEF OnlyMarks, ReportInv

\* The callers, the other programs and a restart take such steps.
LEMMA CallersMark ==
  ASSUME MutationInv, [Next]_vars, \A s \in Slots : ~task(s) /\ ~fails(s)
  PROVE  OnlyMarks
<1>1. work = [t \in Slots |-> work[t]] /\ (lock # 0 => lock \in Slots)
  BY DEF MutationInv, SlotsInv
<1>2. ASSUME NEW s \in Slots, forgets(s)
      PROVE  OnlyMarks
  <2>1. work' = [work EXCEPT ![s] = Idle]
    BY <1>2 DEF forgets, Becomes
  <2>2. \A t \in Slots : work'[t] = IF t = s THEN Idle ELSE work[t]
    BY <1>1, <2>1
  <2> QED
    BY <2>2 DEF OnlyMarks, Marked
<1>3. ASSUME NEW r \in Requests, begins(r)
      PROVE  OnlyMarks
  <2>1. PICK s, w : work' = [work EXCEPT ![s] = w] /\ w = Task(r)
    BY <1>3 DEF begins
  <2>2. \A t \in Slots : work'[t] = w \/ work'[t] = work[t]
    BY <1>1, <2>1
  <2> QED
    BY <2>1, <2>2 DEF OnlyMarks, Marked
<1>4. ASSUME NEW r \in Requests, replays(r)
      PROVE  OnlyMarks
  <2>1. work' = work
    BY <1>4 DEF replays
  <2> QED
    BY <2>1 DEF OnlyMarks, Marked
<1>5. CASE finishes
  <2>1. work' = [work EXCEPT ![lock] = Idle]
    BY <1>5 DEF finishes
  <2>2. \A t \in Slots : work'[t] = Idle \/ work'[t] = work[t]
    BY <1>1, <2>1
  <2> QED
    BY <2>2 DEF OnlyMarks, Marked
<1>6. CASE leaves
  <2>1. lock # 0 /\ work' = [work EXCEPT ![lock] = [work[lock] EXCEPT !.orphan = TRUE]]
    BY <1>1, <1>6 DEF leaves
  <2>2. \A t \in Slots : work'[t] = [work[t] EXCEPT !.orphan = TRUE] \/ work'[t] = work[t]
    BY <1>1, <2>1
  <2> QED
    BY <2>2 DEF OnlyMarks, Marked
<1>7. CASE restarts
  <2>1. \A t \in Slots : work'[t] = Idle
    BY <1>7 DEF restarts
  <2> QED
    BY <2>1 DEF OnlyMarks
<1>8. CASE outside
  <2>1. \A t \in Slots : work'[t] = [work[t] EXCEPT !.raced = TRUE] \/ work'[t] = work[t]
    BY <1>8 DEF outside
  <2> QED
    BY <2>1 DEF OnlyMarks, Marked
<1>9. CASE UNCHANGED vars
  <2>1. work' = work
    BY <1>9 DEF vars
  <2> QED
    BY <2>1 DEF OnlyMarks, Marked
<1> QED
  BY <1>2, <1>3, <1>4, <1>5, <1>6, <1>7, <1>8, <1>9 DEF Next

\* Every step keeps the receipts true.
LEMMA ReportStep == MutationInv /\ ReportInv /\ [Next]_vars => ReportInv'
BY TaskReports, CallersMark, OnlyMarksReport

\* At the start there is no task.
LEMMA ReportInit == Init => ReportInv
BY DEF Init, ReportInv

\* What the tasks tell is true in every reachable state.
LEMMA ReportInvariant == Spec => [](MutationInv /\ ReportInv)
<1>1. MutationInv /\ ReportInv /\ [Next]_vars => (MutationInv /\ ReportInv)'
  BY MutationStep, ReportStep
<1> QED
  BY <1>1, MutationInit, ReportInit, PTL DEF Spec

\* A patch's receipt tells what happened however far it came, whatever failed,
\* was written or went on without its caller meanwhile (execute, fail).
THEOREM ReceiptsTellTheTruth == Spec => []PatchReportsTruth
<1>1. ASSUME MutationInv, ReportInv
      PROVE  PatchReportsTruth
  <2> SUFFICES ASSUME NEW s \in Slots, NEW w, w = work[s], w.pc = "returned", IsPatch(w.request)
               PROVE  /\ w.exact => w.done = Told(w.changes)
                      /\ IsPrefix(Told(w.changes), w.done) /\ Len(w.done) <= Len(Told(w.changes)) + 1
                      /\ w.status = "rejected" => w.done = <<>> /\ w.exact
                      /\ w.status = "applied" => Len(w.changes) = Len(w.sections)
    BY Zenon DEF PatchReportsTruth, ReturnedPatches, Told, EffectsEach
  <2>1. Reports(w)
    BY <1>1 DEF ReportInv, Idle
  <2>2. IsReported(w)
    BY <2>1 DEF Reports, IsPlanning, IsPlanned, IsDoing, Doing
  <2> QED
    BY <2>2 DEF IsReported
<1> QED
  BY <1>1, ReportInvariant, PTL

-----------------------------------------------------------------------------
(* What an applied patch leaves, when nobody else writes.  The disk is a     *)
(* parameter here, for the steps that change it.                             *)

Undisturbed == faults["outside"] = 0 /\ faults["leaves"] = 0

\* Links lead to paths, and after two of them to what is no link.
Next1(d, p) == IF d[p].type = "link" THEN d[p].to ELSE p
IsDisk(d) ==
  /\ d = [p \in Paths |-> d[p]]
  /\ \A p \in Paths : Next1(d, p) \in Paths /\ d[Next1(d, Next1(d, p))].type # "link"

\* The paths that are no links, and what is there.
Plain(d) == {p \in Paths : d[p].type # "link"}
Content(node) == IF node.type = "file" THEN <<node.text>> ELSE <<>>
At(d, p) == Content(d[p])

\* A step is about plain paths; it leaves a text unless it deletes.
IsPlainStep(d, step) ==
  /\ step.kind \in Kinds /\ step.path \in Plain(d)
  /\ IF step.kind = "move" THEN step.to \in Plain(d) ELSE step.to = ""
  /\ IF step.kind = "delete" THEN step.after = <<>> ELSE step.after = <<step.after[1]>>

\* The last of the steps up to n that changes the path.
IsLatest(steps, n, p, k) ==
  /\ k \in 1..n /\ p \in Touched(steps[k])
  /\ \A j \in 1..n : k < j => p \notin Touched(steps[j])

\* The view shows what the last step that changes a path leaves there.
ShowsLatest(view, steps) ==
  /\ view = [p \in DOMAIN view |->
               [original |-> view[p].original, current |-> view[p].current]]
  /\ \A p \in DOMAIN view : \E k \in 1..Len(steps) :
       IsLatest(steps, Len(steps), p, k) /\ view[p].current = LeftBy(steps[k], p)

\* So does the disk, for the first n steps and for paths that are not written since.
Shows(d, steps, n, since) ==
  \A k \in 1..n : \A p \in Touched(steps[k]) :
    IsLatest(steps, n, p, k) /\ p \notin since => At(d, p) = LeftBy(steps[k], p)

\* A move that has still to delete its source has written its destination.
Carried(d, w) ==
  /\ Shows(d, w.steps, w.at - 1, IF DestinationWritten(w) THEN {Step(w).to} ELSE {})
  /\ DestinationWritten(w) => At(d, Step(w).to) = Step(w).after

AsPlanned(d, w) ==
  IsPatch(w.request) /\ w.status = "applied" =>
    /\ \A k \in 1..Len(w.steps) : IsPlainStep(d, w.steps[k])
    /\ ShowsLatest(w.view, w.steps)
    /\ w.pc \in Doing \cup {"returned"} => Carried(d, w)
    /\ w.pc = "returned" => w.at - 1 = Len(w.steps)

PlannedInv ==
  /\ faults["outside"] \in Nat
  /\ Undisturbed => IsDisk(disk) /\ \A s \in Slots : work[s] # Idle => AsPlanned(disk, work[s])

\* What a path that is no link leads to, and holds.
LEMMA PlainIs ==
  ASSUME NEW p \in Plain(disk)
  PROVE  follow_final_symlinks(p) = p /\ read_optional(p) = At(disk, p)
BY DEF Plain, At, Content, follow_final_symlinks, read_optional

\* What any path leads to is no link.
LEMMA FollowedIs ==
  ASSUME IsDisk(disk), NEW p \in Paths
  PROVE  follow_final_symlinks(p) \in Plain(disk)
<1>1. follow_final_symlinks(p) = Next1(disk, Next1(disk, p))
  BY DEF follow_final_symlinks, Next1
<1>2. PICK q : q = Next1(disk, p)
  OBVIOUS
<1>3. q \in Paths /\ Next1(disk, q) \in Paths /\ disk[Next1(disk, q)].type # "link"
  BY <1>2 DEF IsDisk
<1> QED
  BY <1>1, <1>2, <1>3 DEF Plain

\* A disk where a content has taken the place of another, and nothing else changed.
Replaced(d, new, q, content) ==
  /\ IsDisk(new) /\ Plain(d) \subseteq Plain(new)
  /\ \A p \in Paths \ {q} : At(new, p) = At(d, p)
  /\ At(new, q) = content

\* A file or nothing takes the place of what a path names.
LEMMA ReplacedIs ==
  ASSUME NEW d, IsDisk(d), NEW q, NEW node, node.type # "link", NEW new,
         new = [d EXCEPT ![q] = node]
  PROVE  IsDisk(new) /\ (q \in Paths => Replaced(d, new, q, Content(node)))
<1>1. /\ new = [p \in Paths |-> new[p]]
      /\ \A p \in Paths : new[p] = IF p = q THEN node ELSE d[p]
  BY DEF IsDisk
<1>2. ASSUME NEW p \in Paths
      PROVE  Next1(new, p) = (IF p = q THEN p ELSE Next1(d, p)) /\ Next1(new, p) \in Paths
  BY <1>1, <1>2 DEF Next1, IsDisk
<1>3. ASSUME NEW p \in Paths
      PROVE  new[Next1(new, Next1(new, p))].type # "link"
  <2>1. PICK m : m = Next1(new, p)
    OBVIOUS
  <2>2. m \in Paths
    BY <1>2, <2>1
  <2>3. CASE m = q
    <3>1. Next1(new, m) = q
      BY <1>2, <2>2, <2>3
    <3> QED
      BY <1>1, <2>1, <2>2, <2>3, <3>1
  <2>4. CASE m # q
    <3>1. m = Next1(d, p) /\ Next1(new, m) = Next1(d, m) /\ Next1(d, m) \in Paths
      BY <1>2, <2>1, <2>2, <2>4 DEF IsDisk
    <3>2. d[Next1(d, m)].type # "link"
      BY <3>1 DEF IsDisk
    <3> QED
      BY <1>1, <2>1, <3>1, <3>2
  <2> QED
    BY <2>3, <2>4
<1>4. IsDisk(new)
  BY <1>1, <1>2, <1>3 DEF IsDisk
<1> QED
  BY <1>1, <1>4 DEF Plain, At, Replaced

\* At the start the links end, and nobody else has written.
LEMMA PlannedInit == Init => PlannedInv
<1> SUFFICES ASSUME Init PROVE PlannedInv
  OBVIOUS
<1>1. /\ disk = InitialDisk /\ work = [s \in Slots |-> Idle]
      /\ faults = [outside |-> 0, failures |-> 0, leaves |-> 0, restarts |-> 0]
  BY DEF Init
<1>2. disk = [p \in Paths |-> disk[p]]
  BY <1>1, LinksEnd
<1>3. ASSUME NEW p \in Paths
      PROVE  Next1(disk, p) \in Paths /\ disk[Next1(disk, Next1(disk, p))].type # "link"
  BY <1>1, LinksEnd DEF Next1
<1> QED
  BY <1>1, <1>2, <1>3 DEF PlannedInv, IsDisk

\* What a step of a task does to the disk: nothing, or it puts the text under
\* way, or nothing, where a path leads.
Puts(w, node) ==
  \/ node = None
  \/ w.pc = "rename" /\ node = File(Write(w).text)
Replaces(d, w, new) == \E q, node : Puts(w, node) /\ new = [d EXCEPT ![q] = node]

\* That is no link.
LEMMA PutsNoLink ==
  ASSUME NEW w, NEW node, Puts(w, node)
  PROVE  node.type # "link"
BY DEF Puts, None, File

\* No step of a task does more.
LEMMA DiskSteps ==
  ASSUME NEW s \in Slots, task(s) \/ fails(s)
  PROVE  disk' = disk \/ Replaces(disk, work[s], disk')
<1>1. PICK w, text : w = work[s] /\ text = Write(w).text
  OBVIOUS
<1>2. ASSUME NEW v, Becomes(s, v)
      PROVE  disk' = disk
  BY <1>2 DEF Becomes
<1>3. ASSUME NEW new, NEW v, Effects(s, new, v)
      PROVE  disk' = new
  BY <1>3 DEF Effects
<1>4. ASSUME NEW new,
             \/ new = [disk EXCEPT ![w.target] = None]
             \/ /\ w.pc = "rename"
                /\ new = atomic_replace(w.target, text)
      PROVE  Replaces(disk, w, new)
  <2>1. Puts(w, None) /\ (w.pc = "rename" => Puts(w, File(text)))
    BY <1>1 DEF Puts
  <2> QED
    BY <1>4, <2>1 DEF Replaces, atomic_replace
<1>5. CASE plans(s) \/ refuses(s)
  BY <1>2, <1>5, Zenon DEF plans, refuses
<1>6. CASE verifiesAll(s) \/ verifies(s) \/ verifiesTo(s) \/ verifiesSource(s)
  BY <1>6, Zenon DEF verifiesAll, verifies, verifiesTo, verifiesSource, Becomes
<1>7. CASE follows(s) \/ looks(s) \/ looksToRemove(s) \/ rechecks(s)
  BY <1>7, Zenon DEF follows, looks, looksToRemove, rechecks, Becomes
<1>8. CASE renames(s)
  <2>1. PICK new, v : /\ w.pc = "rename" /\ new = atomic_replace(w.target, text)
                      /\ Effects(s, new, v)
    BY <1>1, <1>8 DEF renames
  <2> QED
    BY <1>1, <1>3, <1>4, <2>1
<1>9. CASE unlinks(s)
  <2>1. PICK new, v, gone :
          /\ new = [disk EXCEPT ![w.target] = None]
          /\ Becomes(s, gone) \/ Effects(s, new, v)
    BY <1>1, <1>9 DEF unlinks
  <2> QED
    BY <1>1, <1>2, <1>3, <1>4, <2>1
<1>10. CASE fails(s)
  <2>1. PICK new : new = IF w.pc = "unlink" THEN [disk EXCEPT ![w.target] = None]
                         ELSE atomic_replace(w.target, text)
    OBVIOUS
  <2>2. \E v : \/ Effects(s, disk, v)
                \/ /\ w.pc \in {"rename", "unlink"}
                   /\ Effects(s, new, v)
    BY <1>1, <1>10, <2>1 DEF fails
  <2>3. w.pc \in {"rename", "unlink"} => Replaces(disk, w, new)
    BY <1>4, <2>1
  <2> QED
    BY <1>1, <1>3, <2>2, <2>3
<1> QED
  BY <1>5, <1>6, <1>7, <1>8, <1>9, <1>10 DEF task

\* A disk stays a disk, and its plain paths stay plain.
LEMMA TaskKeepsDisk ==
  ASSUME IsDisk(disk), NEW s \in Slots, task(s) \/ fails(s)
  PROVE  IsDisk(disk')
<1>1. PICK d, new : d = disk /\ new = disk'
  OBVIOUS
<1>2. new = d \/ Replaces(d, work[s], new)
  BY <1>1, DiskSteps
<1>3. CASE Replaces(d, work[s], new)
  <2>1. PICK q, node : Puts(work[s], node) /\ new = [d EXCEPT ![q] = node]
    BY <1>3 DEF Replaces
  <2>2. node.type # "link"
    BY <2>1, PutsNoLink
  <2> QED
    BY <1>1, <2>1, <2>2, ReplacedIs
<1> QED
  BY <1>1, <1>2, <1>3

-----------------------------------------------------------------------------
(* Nobody else: the faults are counted, and no caller has left.              *)

\* One more fault: of those that disturb, or of another kind.
LEMMA CountsFaults ==
  ASSUME LeftInv, faults["outside"] \in Nat,
         NEW fault \in {"outside", "failures", "leaves", "restarts"}, NEW max, Another(fault, max)
  PROVE  /\ faults'["outside"] \in Nat
         /\ Undisturbed' => Undisturbed /\ fault \notin {"outside", "leaves"}
<1>1. faults' = [faults EXCEPT ![fault] = @ + 1]
  BY DEF Another
<1>2. \A f \in {"outside", "failures", "leaves", "restarts"} :
        faults'[f] = IF f = fault THEN faults[f] + 1 ELSE faults[f]
  BY <1>1 DEF LeftInv
<1>3. /\ faults'["outside"] = IF fault = "outside" THEN faults["outside"] + 1 ELSE faults["outside"]
      /\ faults'["leaves"] = IF fault = "leaves" THEN faults["leaves"] + 1 ELSE faults["leaves"]
  BY <1>2
<1>4. faults["leaves"] \in Nat
  BY DEF LeftInv
<1> QED
  BY <1>3, <1>4 DEF Undisturbed

\* No fault.
LEMMA FaultsStay ==
  ASSUME faults["outside"] \in Nat, faults' = faults
  PROVE  faults'["outside"] \in Nat /\ (Undisturbed' => Undisturbed)
BY DEF Undisturbed

\* No step undoes a disturbance.
LEMMA DisturbedStays ==
  ASSUME MutationInv, PlannedInv, [Next]_vars
  PROVE  /\ faults'["outside"] \in Nat
         /\ Undisturbed' => Undisturbed /\ ~outside /\ ~leaves
<1>1. LeftInv /\ faults["outside"] \in Nat
  BY DEF MutationInv, PlannedInv
<1>2. CASE outside
  BY <1>1, <1>2, CountsFaults DEF outside
<1>3. CASE leaves
  BY <1>1, <1>3, CountsFaults DEF leaves
<1>4. CASE restarts
  BY <1>1, <1>2, <1>3, <1>4, CountsFaults DEF restarts
<1>5. ASSUME NEW s \in Slots, fails(s)
      PROVE  faults'["outside"] \in Nat /\ (Undisturbed' => Undisturbed)
  BY <1>1, <1>5, CountsFaults DEF fails
<1>6. ASSUME NEW s \in Slots, task(s)
      PROVE  faults' = faults
  <2>1. CASE plans(s) \/ refuses(s)
    BY <2>1, Zenon DEF plans, refuses, Becomes
  <2>2. CASE verifiesAll(s) \/ verifies(s) \/ verifiesTo(s) \/ verifiesSource(s)
    BY <2>2, Zenon DEF verifiesAll, verifies, verifiesTo, verifiesSource, Becomes
  <2>3. CASE follows(s) \/ looks(s) \/ looksToRemove(s) \/ rechecks(s)
    BY <2>3, Zenon DEF follows, looks, looksToRemove, rechecks, Becomes
  <2>4. CASE renames(s) \/ unlinks(s)
    BY <2>4, Zenon DEF renames, unlinks, Becomes
  <2> QED
    BY <1>6, <2>1, <2>2, <2>3, <2>4 DEF task
<1>7. ASSUME NEW r \in Requests, begins(r) \/ replays(r)
      PROVE  faults' = faults
  BY <1>7, Zenon DEF begins, replays
<1>8. finishes => faults' = faults
  BY DEF finishes
<1>9. ASSUME NEW s \in Slots, forgets(s)
      PROVE  faults' = faults
  BY <1>9 DEF forgets, Becomes
<1>10. UNCHANGED vars => faults' = faults
  BY DEF vars
<1>11. faults'["outside"] \in Nat /\ (Undisturbed' => Undisturbed)
  BY <1>1, <1>2, <1>3, <1>4, <1>5, <1>6, <1>7, <1>8, <1>9, <1>10, FaultsStay DEF Next
<1> QED
  BY <1>2, <1>3, <1>11

\* Without a caller that left, there is one task at most.
LEMMA OnlyOne ==
  ASSUME MutationInv, Undisturbed, NEW s \in Slots, NEW t \in Slots,
         work[s] # Idle, work[t] # Idle
  PROVE  s = t
<1>1. Left \subseteq Slots
  BY DEF Left
<1>2. IsFiniteSet(Left) /\ Cardinality(Left) \in Nat
  BY <1>1, SlotsFinite, FS_Subset, FS_CardinalityType
<1>3. Cardinality(Left) <= 0
  BY DEF MutationInv, LeftInv, Undisturbed
<1>4. Left = {}
  BY <1>2, <1>3, FS_EmptySet
<1> QED
  BY <1>4 DEF Left

-----------------------------------------------------------------------------
(* A section is planned. *)

\* A deletion leaves nothing, every other section a text.
LEMMA AfterIs ==
  ASSUME NEW section, IsSection(section), NEW before, After(section, before).ok
  PROVE  LET content == After(section, before).content
         IN  IF section.kind = "delete" THEN content = <<>> ELSE content = <<content[1]>>
<1>1. PICK after, content : after = After(section, before) /\ content = after.content
  OBVIOUS
<1>2. section.kind \in {"add", "delete", "update", "replace"}
  BY DEF IsSection
<1>3. CASE section.kind = "add"
  <2>1. after = [ok |-> TRUE, content |-> <<section.content>>]
    BY <1>1, <1>3, Zenon DEF After
  <2> QED
    BY <1>1, <1>3, <2>1
<1>4. CASE section.kind # "add" /\ before = <<>>
  <2>1. after = [ok |-> FALSE, content |-> <<>>]
    BY <1>1, <1>4, Zenon DEF After
  <2>2. ~after.ok
    BY <2>1
  <2> QED
    BY <1>1, <2>2
<1>5. CASE section.kind = "delete" /\ before # <<>>
  <2>1. section.kind # "add"
    BY <1>5
  <2>2. after = [ok |-> TRUE, content |-> <<>>]
    BY <1>1, <1>5, <2>1, Zenon DEF After
  <2> QED
    BY <1>1, <1>5, <2>2
<1>6. CASE section.kind \in {"update", "replace"} /\ before # <<>>
  <2>1. section.kind # "add" /\ section.kind # "delete"
    BY <1>6
  <2>2. PICK modified :
          modified = IF section.kind = "update"
                     THEN apply_codex(before[1], section.chunks)
                     ELSE apply_replacements(before[1], section.edits)
    OBVIOUS
  <2>3. after = [ok |-> modified.ok,
                 content |-> IF modified.ok THEN <<modified.text>> ELSE <<>>]
    BY <1>1, <1>6, <2>1, <2>2, Zenon DEF After
  <2>4. content = <<modified.text>>
    BY <1>1, <2>3
  <2> QED
    BY <1>1, <2>1, <2>4
<1> QED
  BY <1>2, <1>3, <1>4, <1>5, <1>6

\* The step of a section is about plain paths.
LEMMA PlannedIsPlain ==
  ASSUME IsDisk(disk), NEW w, NEW section, IsSection(section), NEW before, NEW content,
         After(section, before).ok, content = After(section, before).content
  PROVE  /\ IsPlainStep(disk, Planned(w, section, content))
         /\ Planned(w, section, content).after = content
<1>1. PICK step : step = Planned(w, section, content)
  OBVIOUS
<1>2. /\ step.path = follow_final_symlinks(section.path) /\ step.after = content
      /\ step.to = IF IsMove(section) THEN follow_final_symlinks(section.moveTo) ELSE ""
  BY <1>1, Zenon DEF Planned
<1>3. step.kind \in Kinds
  BY <1>1, PlannedHasKind
<1>4. step.path \in Plain(disk)
  BY <1>2, FollowedIs DEF IsSection
<1>5. IF section.kind = "delete" THEN content = <<>> ELSE content = <<content[1]>>
  BY AfterIs
<1>6. CASE IsMove(section)
  <2>1. section.kind = "update" /\ section.kind # "replace" /\ section.moveTo \in Paths
    BY <1>6 DEF IsSection, IsMove
  <2>2. step.kind = "move"
    <3>1. PICK kind : kind = CASE IsMove(section) -> "move"
                               [] section.kind = "replace" -> "update"
                               [] OTHER -> section.kind
      OBVIOUS
    <3>2. step.kind = kind
      BY <1>1, <3>1, Zenon DEF Planned
    <3> QED
      BY <1>6, <2>1, <3>1, <3>2, Zenon
  <2>3. step.to \in Plain(disk)
    BY <1>2, <1>6, <2>1, FollowedIs
  <2> QED
    BY <1>1, <1>2, <1>3, <1>4, <1>5, <2>1, <2>2, <2>3 DEF IsPlainStep
<1>7. CASE ~IsMove(section)
  <2>1. step.kind # "move" /\ (step.kind = "delete" <=> section.kind = "delete")
    <3>1. CASE section.kind = "replace"
      <4>1. step.kind = "update"
        BY <1>1, <1>7, <3>1, Zenon DEF Planned
      <4> QED
        BY <3>1, <4>1
    <3>2. CASE section.kind # "replace"
      <4>1. step.kind = section.kind
        BY <1>1, <1>7, <3>2, Zenon DEF Planned
      <4> QED
        BY <4>1 DEF IsSection
    <3> QED
      BY <3>1, <3>2
  <2>2. step.to = ""
    BY <1>2, <1>7
  <2> QED
    BY <1>1, <1>2, <1>3, <1>4, <1>5, <2>1, <2>2 DEF IsPlainStep
<1> QED
  BY <1>6, <1>7

\* The view with the step shows what the step leaves, and elsewhere what it did.
LEMMA ViewedShows ==
  ASSUME NEW w, NEW steps, IsSeq(steps), NEW step, ShowsLatest(w.view, steps)
  PROVE  ShowsLatest(Viewed(w, step), Append(steps, step))
<1>1. PICK n \in Nat : n = Len(steps)
  BY DEF IsSeq
<1>2. PICK more : more = Append(steps, step)
  OBVIOUS
<1>3. Len(more) = n + 1 /\ (\A k \in 1..n : more[k] = steps[k]) /\ more[n + 1] = step
  BY <1>1, <1>2, AppendIs
<1>4. PICK view, new : view = w.view /\ new = Viewed(w, step)
  OBVIOUS
<1>5. /\ DOMAIN new = Touched(step) \cup DOMAIN view
      /\ new = [p \in Touched(step) \cup DOMAIN view |->
                  [state(view, p) EXCEPT !.current =
                     IF p \in Touched(step) THEN LeftBy(step, p) ELSE @]]
  BY <1>4 DEF Viewed
<1>6. ASSUME NEW p \in DOMAIN new
      PROVE  /\ new[p] = [original |-> new[p].original, current |-> new[p].current]
             /\ new[p].current = IF p \in Touched(step) THEN LeftBy(step, p) ELSE view[p].current
  <2>1. PICK seen, current :
          /\ seen = state(view, p)
          /\ current = IF p \in Touched(step) THEN LeftBy(step, p) ELSE seen.current
    OBVIOUS
  <2>2. seen = [original |-> seen.original, current |-> seen.current]
    <3>1. CASE p \in DOMAIN view
      BY <1>4, <2>1, <3>1 DEF state, ShowsLatest
    <3>2. CASE p \notin DOMAIN view
      BY <2>1, <3>2 DEF state
    <3> QED
      BY <3>1, <3>2
  <2>3. new[p] = [seen EXCEPT !.current = IF p \in Touched(step) THEN LeftBy(step, p) ELSE @]
    BY <1>5, <1>6, <2>1
  <2>4. new[p] = [original |-> seen.original, current |-> current]
    BY <2>1, <2>2, <2>3
  <2>5. p \notin Touched(step) => seen = view[p]
    BY <1>5, <1>6, <2>1 DEF state
  <2> QED
    BY <2>1, <2>4, <2>5
<1>7. new = [p \in DOMAIN new |-> [original |-> new[p].original, current |-> new[p].current]]
  BY <1>5, <1>6
<1>8. \A k \in 1..n + 1 : k \in 1..n \/ k = n + 1
  BY <1>1
<1>9. PICK last \in 1..n + 1 : last = n + 1
  BY <1>1
<1>10. ASSUME NEW p \in DOMAIN new
       PROVE  \E k \in 1..n + 1 : IsLatest(more, n + 1, p, k) /\ new[p].current = LeftBy(more[k], p)
  <2>1. CASE p \in Touched(step)
    <3>1. \A j \in 1..n + 1 : ~(last < j)
      BY <1>1, <1>9
    <3>2. more[last] = step
      BY <1>3, <1>9
    <3>3. IsLatest(more, n + 1, p, last)
      BY <2>1, <3>1, <3>2 DEF IsLatest
    <3> QED
      BY <1>6, <1>10, <2>1, <3>2, <3>3
  <2>2. CASE p \notin Touched(step)
    <3>1. p \in DOMAIN view
      BY <1>5, <1>10, <2>2
    <3>2. PICK k \in 1..n : IsLatest(steps, n, p, k) /\ view[p].current = LeftBy(steps[k], p)
      BY <1>1, <1>4, <3>1 DEF ShowsLatest
    <3>3. more[k] = steps[k] /\ k \in 1..n + 1
      BY <1>1, <1>3
    <3>4. \A j \in 1..n + 1 : k < j => p \notin Touched(more[j])
      BY <1>3, <1>8, <2>2, <3>2 DEF IsLatest
    <3>5. IsLatest(more, n + 1, p, k)
      BY <3>2, <3>3, <3>4 DEF IsLatest
    <3> QED
      BY <1>6, <1>10, <2>2, <3>2, <3>3, <3>5
  <2> QED
    BY <2>1, <2>2
<1> QED
  BY <1>2, <1>3, <1>4, <1>7, <1>10 DEF ShowsLatest

\* A plan with one step more.
LEMMA PlanningIsPlanned ==
  ASSUME IsDisk(disk), NEW w, IsTask(w), IsPatch(w.request), IsPlanning(w), AsPlanned(disk, w),
         NEW v, PlansOne(w, v)
  PROVE  AsPlanned(disk, v)
<1>1. PICK section, step, after, before :
        /\ w.sections # <<>> /\ section = w.sections[w.at]
        /\ after = After(section, before) /\ after.ok
        /\ step = Planned(w, section, after.content) /\ v = Planning(w, step, Viewed(w, step))
  BY Zenon DEF PlansOne
<1>2. IsSection(section)
  <2>1. PICK n, at : n = Len(w.sections) /\ at = w.at /\ n \in Nat /\ at \in 1..n
    BY <1>1 DEF IsPlanning, AreSections, IsSeq
  <2> QED
    BY <1>1, <2>1 DEF IsPlanning, AreSections
<1>3. IsPlainStep(disk, step)
  BY <1>1, <1>2, PlannedIsPlain
<1>4. PICK steps, view, n :
        /\ steps = Append(w.steps, step) /\ view = Viewed(w, step) /\ n = Len(w.steps)
  OBVIOUS
<1>5. /\ IsSeq(w.steps) /\ n \in Nat /\ Len(steps) = n + 1
      /\ (\A k \in 1..n : steps[k] = w.steps[k]) /\ steps[n + 1] = step
  BY <1>4, AppendIs DEF IsPlanning, HaveKinds, IsSeq
<1>6. /\ \A k \in 1..n : IsPlainStep(disk, w.steps[k])
      /\ ShowsLatest(w.view, w.steps)
  BY <1>4 DEF AsPlanned, IsPlanning, IsUntouched
<1>7. \A k \in 1..n + 1 : k \in 1..n \/ k = n + 1
  BY <1>5
<1>8. \A k \in 1..Len(steps) : IsPlainStep(disk, steps[k])
  BY <1>3, <1>5, <1>6, <1>7
<1>9. ShowsLatest(view, steps)
  BY <1>4, <1>5, <1>6, ViewedShows
<1>10. PICK last, aliases :
         last \in BOOLEAN /\ (last <=> w.at = Len(w.sections)) /\ aliases = WithAliases(w.aliases, step.section)
  OBVIOUS
<1>11. PICK next, pc, left :
         /\ next = (IF last THEN 1 ELSE w.at + 1)
         /\ pc = (IF last THEN "verifyAll" ELSE "plan")
         /\ left = (IF last THEN DOMAIN view ELSE {})
  OBVIOUS
<1>12. v = [w EXCEPT !.steps = steps, !.view = view, !.aliases = aliases, !.at = next,
                      !.pc = pc, !.left = left]
  BY <1>1, <1>4, <1>10, <1>11 DEF Planning, IsTask, TaskParts, IsPlanning
<1>13. v.steps = steps /\ v.view = view /\ v.pc = pc
  BY <1>12 DEF IsTask, TaskParts
<1>14. v.pc \notin Doing \cup {"returned"}
  BY <1>11, <1>13 DEF Doing
<1> QED
  BY <1>8, <1>9, <1>13, <1>14 DEF AsPlanned

-----------------------------------------------------------------------------
(* The plan is carried out. *)

\* A task that does not end as applied keeps to no plan.
LEMMA NotApplied ==
  ASSUME NEW d, NEW w, w.status # "applied"
  PROVE  AsPlanned(d, w)
BY DEF AsPlanned

\* A failure is not applied.
LEMMA FailedIsNotApplied ==
  ASSUME NEW w, IsTask(w), NEW uncertain, NEW changes
  PROVE  fail(w, uncertain, changes).status # "applied"
BY DEF fail, IsTask, TaskParts

\* Nor is a call that fails.
LEMMA FailingIsNotApplied ==
  ASSUME NEW w, IsTask(w), IsPatch(w.request), NEW code
  PROVE  IsTask(Failing(w, code)) /\ Failing(w, code).status # "applied"
<1>1. IsTask(Failing(w, code))
  BY FailingFollows DEF Follows
<1>2. \E uncertain, changes : Failing(w, code) = fail(w, uncertain, changes)
  BY Zenon DEF Failing
<1> QED
  BY <1>1, <1>2, FailedIsNotApplied

\* Nor is one that fails with its effect.
LEMMA FailedAfterIsNotApplied ==
  ASSUME NEW w, IsTask(w), IsPatch(w.request), NEW x
  PROVE  FailedAfter(w, x).status # "applied"
<1>1. PICK v : v = Failing(w, "io")
  OBVIOUS
<1>2. IsTask(v) /\ v.status # "applied"
  BY <1>1, FailingIsNotApplied
<1> QED
  BY <1>1, <1>2 DEF FailedAfter, IsTask, TaskParts

\* The task goes on within its step, or comes to its first.
LEMMA CarriesOn ==
  ASSUME NEW d, NEW w, AsPlanned(d, w), NEW v, v.request = w.request, v.steps = w.steps,
         v.at = w.at, v.view = w.view, v.status = w.status, v.pc # "returned",
         v.pc \in Doing => w.pc \in Doing /\ (DestinationWritten(v) <=> DestinationWritten(w))
  PROVE  AsPlanned(d, v)
<1>1. Step(v) = Step(w)
  BY SameWrite
<1> QED
  BY <1>1 DEF AsPlanned, Carried

\* The call of a step: the destination of a move, or all of the step.
LEMMA DestinationIsCarried ==
  ASSUME IsDisk(disk), NEW w, IsPatch(w.request), IsDoing(w), AsPlanned(disk, w),
         ~DestinationWritten(w), NEW step, step = Step(w), step.kind = "move",
         NEW new, Replaced(disk, new, step.to, step.after),
         NEW v, v.request = w.request, v.steps = w.steps, v.at = w.at, v.view = w.view,
         v.status = w.status, v.pc = "verifySource"
  PROVE  AsPlanned(new, v)
<1>1. PICK steps, n, at : steps = w.steps /\ n = Len(steps) /\ at = w.at
  OBVIOUS
<1>2. n \in Nat /\ at \in 1..n /\ w.status = "applied" /\ w.pc \in Doing
  BY <1>1 DEF IsDoing, HaveKinds, IsSeq
<1>3. /\ \A k \in 1..n : IsPlainStep(disk, steps[k])
      /\ ShowsLatest(w.view, steps) /\ Shows(disk, steps, at - 1, {})
  BY <1>1, <1>2 DEF AsPlanned, Carried
<1>4. \A k \in 1..n : IsPlainStep(new, steps[k])
  BY <1>3 DEF IsPlainStep, Replaced
<1>5. Shows(new, steps, at - 1, {step.to})
  <2> SUFFICES ASSUME NEW k \in 1..at - 1, NEW p \in Touched(steps[k]),
                      IsLatest(steps, at - 1, p, k), p # step.to
               PROVE  At(new, p) = LeftBy(steps[k], p)
    BY DEF Shows
  <2>1. At(disk, p) = LeftBy(steps[k], p)
    BY <1>3 DEF Shows
  <2>2. k \in 1..n
    BY <1>2
  <2>3. p \in Paths
    BY <1>3, <2>2 DEF IsPlainStep, Plain, Touched
  <2> QED
    BY <2>1, <2>3 DEF Replaced
<1>6. Step(v) = step /\ DestinationWritten(v)
  BY SameWrite DEF DestinationWritten
<1>7. Carried(new, v)
  BY <1>1, <1>5, <1>6 DEF Carried, Replaced
<1> QED
  BY <1>1, <1>3, <1>4, <1>7 DEF AsPlanned

\* What a step leaves where it puts something, and where its destination is.
LEMMA StepIsCarried ==
  ASSUME IsDisk(disk), NEW w, IsPatch(w.request), IsDoing(w), AsPlanned(disk, w),
         NEW step, step = Step(w), NEW new,
         Replaced(disk, new, step.path, LeftBy(step, step.path)),
         step.kind = "move" => DestinationWritten(w),
         NEW v, v.request = w.request, v.steps = w.steps, v.at = w.at + 1, v.view = w.view,
         v.status = w.status,
         v.pc = "verify" \/ (v.pc = "returned" /\ w.at = Len(w.steps))
  PROVE  AsPlanned(new, v)
<1>1. PICK steps, n, at : steps = w.steps /\ n = Len(steps) /\ at = w.at
  OBVIOUS
<1>2. n \in Nat /\ at \in 1..n /\ w.status = "applied" /\ w.pc \in Doing
  BY <1>1 DEF IsDoing, HaveKinds, IsSeq
<1>3. /\ \A k \in 1..n : IsPlainStep(disk, steps[k])
      /\ ShowsLatest(w.view, steps)
      /\ Shows(disk, steps, at - 1, IF DestinationWritten(w) THEN {step.to} ELSE {})
      /\ DestinationWritten(w) => At(disk, step.to) = step.after
  BY <1>1, <1>2 DEF AsPlanned, Carried
<1>4. \A k \in 1..n : IsPlainStep(new, steps[k])
  BY <1>3 DEF IsPlainStep, Replaced
<1>5. step = steps[at] /\ IsPlainStep(disk, step)
  BY <1>1, <1>2, <1>3 DEF Step
<1>6. \A p \in (IF DestinationWritten(w) THEN {step.to} ELSE {}) : p \in Touched(step)
  <2>1. DestinationWritten(w) => step.to \in Paths
    BY <1>5 DEF DestinationWritten, IsPlainStep, Plain
  <2> QED
    BY <2>1, LinksEnd DEF Touched
<1>7. ASSUME NEW p \in Touched(step)
      PROVE  At(new, p) = LeftBy(step, p)
  <2>1. CASE p = step.path
    BY <2>1 DEF Replaced
  <2>2. CASE p # step.path
    <3>1. p = step.to /\ step.kind = "move"
      BY <1>5, <1>7, <2>2 DEF Touched, IsPlainStep
    <3>2. p \in Paths /\ At(disk, p) = step.after
      BY <1>3, <1>5, <3>1 DEF IsPlainStep, Plain
    <3> QED
      BY <2>2, <3>2 DEF Replaced, LeftBy
  <2> QED
    BY <2>1, <2>2
<1>8. Shows(new, steps, at, {})
  <2> SUFFICES ASSUME NEW k \in 1..at, NEW p \in Touched(steps[k]), IsLatest(steps, at, p, k)
               PROVE  At(new, p) = LeftBy(steps[k], p)
    BY DEF Shows
  <2>1. CASE k = at
    BY <1>5, <1>7, <2>1
  <2>2. CASE k # at
    <3>1. k \in 1..at - 1 /\ k \in 1..n /\ k < at /\ at \in 1..at
      BY <1>2, <2>2
    <3>2. p \notin Touched(step)
      BY <1>5, <3>1 DEF IsLatest
    <3>3. IsLatest(steps, at - 1, p, k)
      BY <1>2, <3>1 DEF IsLatest
    <3>4. At(disk, p) = LeftBy(steps[k], p)
      BY <1>3, <1>6, <3>1, <3>2, <3>3 DEF Shows
    <3>5. p \in Paths
      BY <1>3, <3>1 DEF IsPlainStep, Plain, Touched
    <3>6. p # step.path
      BY <3>2 DEF Touched
    <3> QED
      BY <3>4, <3>5, <3>6 DEF Replaced
  <2> QED
    BY <2>1, <2>2
<1>9. v.at - 1 = at /\ ~DestinationWritten(v)
  BY <1>1, <1>2 DEF DestinationWritten
<1>10. Carried(new, v)
  BY <1>1, <1>8, <1>9 DEF Carried
<1>11. v.pc = "returned" => v.at - 1 = Len(v.steps)
  BY <1>1, <1>2
<1> QED
  BY <1>1, <1>3, <1>4, <1>10, <1>11 DEF AsPlanned

\* The steps of a task that are on the way are planned, and so is the one under way.
LEMMA StepUnderWay ==
  ASSUME NEW w, IsPatch(w.request), IsDoing(w), AsPlanned(disk, w)
  PROVE  IsPlainStep(disk, Step(w))
<1>1. PICK n, at : n = Len(w.steps) /\ at = w.at
  OBVIOUS
<1>2. n \in Nat /\ at \in 1..n /\ w.status = "applied"
  BY <1>1 DEF IsDoing, HaveKinds, IsSeq
<1> QED
  BY <1>1, <1>2 DEF AsPlanned, Step

\* A call has its effect, or finds it in place.
LEMMA CommittedAsPlanned ==
  ASSUME IsDisk(disk), NEW w, IsTask(w), IsPatch(w.request), IsDoing(w), AsPlanned(disk, w),
         w.pc \in {"look", "rename", "unlink"}, NEW new, NEW effect, NEW status,
         Replaced(disk, new, w.target, IF w.pc = "unlink" THEN <<>> ELSE <<Write(w).text>>)
  PROVE  AsPlanned(new, Committed(w, effect, status))
<1>1. PICK step : step = Step(w)
  OBVIOUS
<1>2. IsPlainStep(disk, step)
  BY <1>1, StepUnderWay
<1>3. PICK done : done = Append(w.done, effect)
  OBVIOUS
<1>4. PICK v : v = [w EXCEPT !.done = done]
  OBVIOUS
<1>5. [w EXCEPT !.done = Append(@, effect)] = v
  BY <1>3, <1>4 DEF IsTask, TaskParts
<1>6. /\ IsTask(v) /\ v.request = w.request /\ v.pc = w.pc /\ v.at = w.at /\ v.view = w.view
      /\ v.steps = w.steps /\ v.status = w.status
  BY <1>4 DEF IsTask, TaskParts, PatchPlaces
<1>7. Step(v) = step
  BY <1>1, <1>6, SameWrite
<1>8. CASE w.pc # "unlink" /\ step.kind = "move"
  <2>1. PICK u : u = [v EXCEPT !.pc = "verifySource"]
    OBVIOUS
  <2>2. Committed(w, effect, status) = u
    BY <1>1, <1>5, <1>8, <2>1 DEF Committed
  <2>3. /\ u.request = w.request /\ u.pc = "verifySource" /\ u.at = w.at
        /\ u.view = w.view /\ u.steps = w.steps /\ u.status = w.status
    BY <1>6, <2>1 DEF IsTask, TaskParts
  <2>4. ~DestinationWritten(w)
    BY <1>8 DEF DestinationWritten
  <2>5. w.target = step.to
    BY <1>1, <1>8, WriteOfStep DEF IsDoing
  <2>6. <<Write(w).text>> = step.after
    BY <1>1, <1>2, <1>8, WriteOfStep DEF IsPlainStep
  <2>7. Replaced(disk, new, step.to, step.after)
    BY <1>8, <2>5, <2>6
  <2>8. AsPlanned(new, u)
    BY <1>1, <1>8, <2>3, <2>4, <2>7, DestinationIsCarried
  <2> QED
    BY <2>2, <2>8
<1>9. CASE ~(w.pc # "unlink" /\ step.kind = "move")
  <2>1. PICK c, n, at : c = Change(step) /\ n = Len(w.steps) /\ at = w.at
    OBVIOUS
  <2>2. PICK pc, changes :
          pc = (IF at = n THEN "returned" ELSE "verify") /\ changes = Append(v.changes, c)
    OBVIOUS
  <2>3. PICK u : u = [v EXCEPT !.changes = changes, !.at = at + 1, !.pc = pc]
    OBVIOUS
  <2>4. Recorded(v) = u
    BY <1>6, <1>7, <2>1, <2>2, <2>3 DEF Recorded, IsTask, TaskParts
  <2>5. Committed(w, effect, status) = u
    BY <1>1, <1>5, <1>9, <2>4 DEF Committed
  <2>6. /\ u.request = w.request /\ u.pc = pc /\ u.at = w.at + 1
        /\ u.view = w.view /\ u.steps = w.steps /\ u.status = w.status
    BY <1>6, <2>1, <2>3 DEF IsTask, TaskParts
  <2>7. u.pc = "verify" \/ (u.pc = "returned" /\ w.at = Len(w.steps))
    BY <2>1, <2>2, <2>6
  <2>8. step.kind = "move" => DestinationWritten(w)
    BY <1>1, <1>9 DEF DestinationWritten
  <2>9. Replaced(disk, new, step.path, LeftBy(step, step.path))
    <3>1. CASE w.pc = "unlink"
      <4>1. step.kind \in {"move", "delete"} /\ w.target = step.path
        BY <1>1, <3>1 DEF IsDoing
      <4>2. LeftBy(step, step.path) = <<>>
        BY <1>2, <4>1 DEF IsPlainStep, LeftBy
      <4> QED
        BY <3>1, <4>1, <4>2
    <3>2. CASE w.pc # "unlink"
      <4>1. step.kind # "delete" /\ step.kind # "move" /\ w.target = Write(w).path
        BY <1>1, <1>9, <3>2 DEF IsDoing
      <4>2. w.target = step.path /\ Write(w).text = step.after[1]
        BY <1>1, <4>1, WriteOfStep
      <4>3. <<Write(w).text>> = step.after /\ LeftBy(step, step.path) = step.after
        BY <1>2, <4>1, <4>2 DEF IsPlainStep, LeftBy
      <4> QED
        BY <3>2, <4>2, <4>3
    <3> QED
      BY <3>1, <3>2
  <2>10. AsPlanned(new, u)
    BY <1>1, <2>6, <2>7, <2>8, <2>9, StepIsCarried
  <2> QED
    BY <2>5, <2>10
<1> QED
  BY <1>8, <1>9

\* The target of the call under way is a plain path.
LEMMA TargetIsPlain ==
  ASSUME NEW w, IsPatch(w.request), IsDoing(w), AsPlanned(disk, w),
         w.pc \in {"look", "rename", "unlink"}
  PROVE  w.target \in Plain(disk)
<1>1. IsPlainStep(disk, Step(w))
  BY StepUnderWay
<1>2. CASE w.pc = "unlink"
  BY <1>1, <1>2 DEF IsDoing, IsPlainStep
<1>3. CASE w.pc # "unlink"
  <2>1. w.target = Write(w).path
    BY <1>3 DEF IsDoing
  <2> QED
    BY <1>1, <2>1, WriteOfStep DEF IsPlainStep
<1> QED
  BY <1>2, <1>3

\* A step that leaves the disk as it is.
LEMMA MovesAsPlanned ==
  ASSUME IsDisk(disk), NEW w, IsTask(w), IsPatch(w.request), w.pc # "returned", Reports(w),
         AsPlanned(disk, w), NEW v, PatchMoves(w, v)
  PROVE  AsPlanned(disk, v)
<1>1. IsPlanning(w) \/ IsPlanned(w) \/ IsDoing(w)
  BY DEF Reports, IsReported
<1>2. ASSUME w.pc \notin {"plan", "verifyAll"}
      PROVE  IsDoing(w) /\ w.pc \in Doing
  BY <1>1, <1>2 DEF IsPlanning, IsPlanned, IsDoing
<1>3. CASE v = fail(w, FALSE, <<>>) /\ w.pc = "plan"
  BY <1>3, FailedIsNotApplied, NotApplied
<1>4. CASE \E code : v = Failing(w, code)
  BY <1>4, FailingIsNotApplied, NotApplied
<1>5. CASE PlansOne(w, v)
  <2>1. w.pc = "plan"
    BY <1>5, Zenon DEF PlansOne
  <2>2. IsPlanning(w)
    BY <1>1, <2>1 DEF IsPlanned, IsDoing, Doing
  <2> QED
    BY <1>5, <2>2, PlanningIsPlanned
<1>6. CASE VerifiesOne(w, v)
  <2>1. w.pc = "verifyAll"
    BY <1>6, Zenon DEF VerifiesOne
  <2>2. w.at = 1
    BY <1>1, <2>1 DEF IsPlanning, IsPlanned, IsDoing, Doing
  <2>3. PICK p \in w.left :
          v = [w EXCEPT !.left = w.left \ {p},
                        !.pc = IF w.left \ {p} = {} THEN "verify" ELSE @]
    BY <1>6, Zenon DEF VerifiesOne
  <2>4. PICK left, pc : left = w.left \ {p} /\ pc = IF left = {} THEN "verify" ELSE w.pc
    OBVIOUS
  <2>5. v = [w EXCEPT !.left = left, !.pc = pc]
    BY <2>3, <2>4 DEF IsTask, TaskParts
  <2>6. /\ v.request = w.request /\ v.steps = w.steps /\ v.at = 1 /\ v.view = w.view
        /\ v.status = w.status /\ v.pc \in {"verifyAll", "verify"}
    BY <2>1, <2>2, <2>4, <2>5 DEF IsTask, TaskParts
  <2>7. ~DestinationWritten(v) /\ v.pc # "returned"
    BY <2>6 DEF DestinationWritten
  <2>8. Carried(disk, v)
    BY <2>6, <2>7 DEF Carried, Shows
  <2> QED
    BY <2>6, <2>7, <2>8 DEF AsPlanned
<1>7. CASE w.pc = "verify" /\ Step(w).kind = "move" /\ v = [w EXCEPT !.pc = "verifyTo"]
  <2>1. /\ v.pc = "verifyTo" /\ v.view = w.view
        /\ v.steps = w.steps /\ v.at = w.at /\ v.request = w.request /\ v.status = w.status
    BY <1>7 DEF IsTask, TaskParts
  <2>2. ~DestinationWritten(v) /\ ~DestinationWritten(w)
    BY <1>7, <2>1 DEF DestinationWritten
  <2> QED
    BY <1>2, <1>7, <2>1, <2>2, CarriesOn
<1>8. CASE /\ w.pc \in {"verify", "verifySource"} /\ (w.pc = "verify" => Step(w).kind = "delete")
           /\ v = Ready([w EXCEPT !.target = Step(w).path], "unlink")
  <2>1. PICK path : path = Step(w).path
    OBVIOUS
  <2>2. /\ v.pc = "unlink" /\ v.view = w.view
        /\ v.steps = w.steps /\ v.at = w.at /\ v.request = w.request /\ v.status = w.status
    BY <1>8, <2>1 DEF Ready, IsTask, TaskParts
  <2>3. Step(v) = Step(w) /\ (w.pc = "verifySource" => Step(w).kind = "move")
    BY <1>2, <1>8, <2>2, SameWrite DEF IsDoing
  <2>4. DestinationWritten(v) <=> DestinationWritten(w)
    BY <1>8, <2>2, <2>3 DEF DestinationWritten
  <2> QED
    BY <1>2, <1>8, <2>2, <2>4, CarriesOn
<1>9. CASE /\ w.pc \in {"verify", "verifyTo"}
           /\ w.pc = "verify" => Step(w).kind \notin {"move", "delete"}
           /\ v = [w EXCEPT !.pc = "look", !.target = Write(w).path]
  <2>1. PICK path : path = Write(w).path
    OBVIOUS
  <2>2. /\ v.pc = "look" /\ v.view = w.view
        /\ v.steps = w.steps /\ v.at = w.at /\ v.request = w.request /\ v.status = w.status
    BY <1>9, <2>1 DEF IsTask, TaskParts
  <2>3. ~DestinationWritten(v) /\ ~DestinationWritten(w)
    BY <1>9, <2>2 DEF DestinationWritten
  <2> QED
    BY <1>2, <1>9, <2>2, <2>3, CarriesOn
<1>10. CASE w.pc = "look" /\ v = [w EXCEPT !.pc = "recheck"]
  <2>1. /\ v.pc = "recheck" /\ v.view = w.view
        /\ v.steps = w.steps /\ v.at = w.at /\ v.request = w.request /\ v.status = w.status
    BY <1>10 DEF IsTask, TaskParts
  <2>2. ~DestinationWritten(v) /\ ~DestinationWritten(w)
    BY <1>10, <2>1 DEF DestinationWritten
  <2> QED
    BY <1>2, <1>10, <2>1, <2>2, CarriesOn
<1>11. CASE w.pc = "recheck" /\ v = Ready(w, "rename")
  <2>1. /\ v.pc = "rename" /\ v.view = w.view
        /\ v.steps = w.steps /\ v.at = w.at /\ v.request = w.request /\ v.status = w.status
    BY <1>11 DEF Ready, IsTask, TaskParts
  <2>2. ~DestinationWritten(v) /\ ~DestinationWritten(w)
    BY <1>11, <2>1 DEF DestinationWritten
  <2> QED
    BY <1>2, <1>11, <2>1, <2>2, CarriesOn
<1>12. CASE /\ w.pc = "look" /\ read_optional(w.target) = <<Write(w).text>>
            /\ v = Committed(w, Put(w.target, Write(w).text), "already_applied")
  <2>1. IsDoing(w)
    BY <1>2, <1>12
  <2>2. w.target \in Plain(disk)
    BY <1>12, <2>1, TargetIsPlain
  <2>3. At(disk, w.target) = <<Write(w).text>>
    BY <1>12, <2>2, PlainIs
  <2>4. Replaced(disk, disk, w.target, IF w.pc = "unlink" THEN <<>> ELSE <<Write(w).text>>)
    BY <1>12, <2>3 DEF Replaced
  <2> QED
    BY <1>12, <2>1, <2>4, CommittedAsPlanned
<1> QED
  BY <1>3, <1>4, <1>5, <1>6, <1>7, <1>8, <1>9, <1>10, <1>11, <1>12, Zenon DEF PatchMoves

\* A call that puts a content where a plain path is, told as the change of the disk.
LEMMA CallReplaces ==
  ASSUME IsDisk(disk), NEW q \in Plain(disk), NEW node, NEW content, NEW new,
         \/ node = None /\ content = <<>>
         \/ \E text : node = File(text) /\ content = <<text>>,
         new = [disk EXCEPT ![q] = node]
  PROVE  Replaced(disk, new, q, content)
<1>1. node.type # "link" /\ content = Content(node)
  BY DEF None, File, Content
<1>2. q \in Paths
  BY DEF Plain
<1>3. PICK d : d = disk /\ IsDisk(d) /\ new = [d EXCEPT ![q] = node]
  OBVIOUS
<1>4. Replaced(d, new, q, Content(node))
  BY <1>1, <1>2, <1>3, ReplacedIs
<1> QED
  BY <1>1, <1>3, <1>4

\* A step that changes the disk.
LEMMA CallsAsPlanned ==
  ASSUME IsDisk(disk), NEW w, IsTask(w), IsPatch(w.request), Reports(w), AsPlanned(disk, w),
         NEW v, PatchCalls(w, v), NEW new, new = disk'
  PROVE  AsPlanned(new, v)
<1>1. IsCalling(w)
  BY DEF PatchCalls, IsCalling
<1>2. IsDoing(w)
  BY <1>1 DEF Reports, IsPlanning, IsPlanned, IsReported, IsCalling
<1>3. w.target \in Plain(disk)
  BY <1>1, <1>2, TargetIsPlain DEF IsCalling
<1>4. CASE /\ w.pc = "rename" /\ disk' = atomic_replace(w.target, Write(w).text)
           /\ v = Committed(w, Put(w.target, Write(w).text), "applied")
  <2>1. PICK text : text = Write(w).text
    OBVIOUS
  <2>2. new = [disk EXCEPT ![w.target] = File(text)]
    BY <1>4, <2>1 DEF atomic_replace
  <2>3. Replaced(disk, new, w.target, <<text>>)
    BY <1>3, <2>2, CallReplaces
  <2>4. Replaced(disk, new, w.target, IF w.pc = "unlink" THEN <<>> ELSE <<Write(w).text>>)
    BY <1>4, <2>1, <2>3
  <2> QED
    BY <1>2, <1>4, <2>4, CommittedAsPlanned
<1>5. CASE /\ w.pc = "unlink" /\ disk' = [disk EXCEPT ![w.target] = None]
           /\ v = Committed(w, Unlinked(w.target), "applied")
  <2>1. Replaced(disk, new, w.target, <<>>)
    BY <1>3, <1>5, CallReplaces
  <2>2. Replaced(disk, new, w.target, IF w.pc = "unlink" THEN <<>> ELSE <<Write(w).text>>)
    BY <1>5, <2>1
  <2> QED
    BY <1>2, <1>5, <2>2, CommittedAsPlanned
<1>6. CASE \E x : v = FailedAfter(w, x)
  BY <1>6, FailedAfterIsNotApplied, NotApplied
<1> QED
  BY <1>4, <1>5, <1>6, Zenon DEF PatchCalls

\* A task takes a step, and there is no other.
LEMMA TaskKeepsPlan ==
  ASSUME MutationInv, ReportInv, PlannedInv, Undisturbed, NEW s \in Slots, task(s) \/ fails(s),
         NEW new, new = disk', NEW t \in Slots, work'[t] # Idle
  PROVE  AsPlanned(new, work'[t])
<1>1. PICK w, v : w = work[s] /\ v = work'[s]
  OBVIOUS
<1>2. w.pc \notin {"idle", "returned"}
  BY <1>1, OnlyUnderWay
<1>3. w # Idle /\ IsTask(w) /\ Reports(w) /\ IsDisk(disk) /\ AsPlanned(disk, w)
  BY <1>1, <1>2, SlotHasTask DEF ReportInv, PlannedInv, Idle
<1>4. OthersStay(s) /\ AsPlanned(new, v)
  <2>1. CASE IsPatch(w.request)
    <3>1. w.pc # "follow"
      BY <1>3, <2>1 DEF Reports, IsPlanning, IsPlanned, IsDoing, Doing, IsReported
    <3>2. OthersStay(s) /\ ((new = disk /\ PatchMoves(w, v)) \/ PatchCalls(w, v))
      BY <1>1, <2>1, <3>1, PatchSteps
    <3>3. new = disk /\ PatchMoves(w, v) => AsPlanned(new, v)
      BY <1>2, <1>3, <2>1, MovesAsPlanned
    <3>4. PatchCalls(w, v) => AsPlanned(new, v)
      BY <1>3, <2>1, CallsAsPlanned
    <3> QED
      BY <3>2, <3>3, <3>4
  <2>2. CASE ~IsPatch(w.request)
    <3>1. OthersStay(s) /\ ~IsPatch(v.request)
      BY <1>1, <2>2, OtherTasks DEF OtherMoves, Follows
    <3> QED
      BY <3>1 DEF AsPlanned
  <2> QED
    BY <2>1, <2>2
<1>5. CASE t = s
  BY <1>1, <1>4, <1>5
<1>6. CASE t # s
  <2>1. work[t] = Idle
    BY <1>1, <1>3, <1>6, OnlyOne
  <2>2. work'[t] = Idle
    BY <1>4, <1>6, <2>1 DEF OthersStay, Idle
  <2> QED
    BY <2>2
<1> QED
  BY <1>5, <1>6

\* A new task has planned nothing.
LEMMA NewAsPlanned ==
  ASSUME NEW d, NEW r \in Requests
  PROVE  AsPlanned(d, Task(r))
<1>1. SUFFICES ASSUME IsPatch(r) PROVE AsPlanned(d, Task(r))
  BY NewTask DEF AsPlanned
<1>2. PICK all, start, target : all = sections(r) /\ start = Start(r) /\ target = ""
  OBVIOUS
<1>3. start = "plan"
  BY <1>1, <1>2 DEF Start, IsPatch
<1>4. Task(r) =
        [request |-> r, pc |-> start, at |-> 1, target |-> target,
         sections |-> all, view |-> <<>>, aliases |-> <<>>, steps |-> <<>>, left |-> {},
         status |-> "applied", exact |-> TRUE, changes |-> <<>>,
         done |-> <<>>, raced |-> FALSE, orphan |-> FALSE]
  BY <1>1, <1>2 DEF Task
<1>5. PICK w : w = Task(r)
  OBVIOUS
<1>6. w.pc = "plan" /\ w.steps = <<>> /\ w.view = <<>>
  BY <1>3, <1>4, <1>5
<1>7. PICK none : none = <<>>
  OBVIOUS
<1>8. Len(none) = 0 /\ DOMAIN none = 1..0 /\ none = [k \in 1..0 |-> none[k]]
  BY <1>7, EmptyIsSeq, SeqIs DEF IsSeq
<1>9. ShowsLatest(none, none)
  <2>1. none = [p \in DOMAIN none |-> [original |-> none[p].original, current |-> none[p].current]]
    BY <1>8
  <2> QED
    BY <1>8, <2>1 DEF ShowsLatest
<1>10. \A k \in 1..Len(w.steps) : IsPlainStep(d, w.steps[k])
  BY <1>6, <1>7, <1>8
<1>11. w.pc \notin Doing \cup {"returned"}
  BY <1>6 DEF Doing
<1> QED
  BY <1>5, <1>6, <1>7, <1>9, <1>10, <1>11 DEF AsPlanned

\* A mark plans nothing.
LEMMA MarkedAsPlanned ==
  ASSUME NEW d, NEW w, IsTask(w), AsPlanned(d, w), NEW v, Marked(w, v)
  PROVE  AsPlanned(d, v)
<1>1. /\ v.request = w.request /\ v.pc = w.pc /\ v.at = w.at /\ v.view = w.view
      /\ v.steps = w.steps /\ v.status = w.status
  BY DEF Marked, IsTask, TaskParts
<1>2. Step(v) = Step(w)
  BY <1>1, SameWrite
<1>3. DestinationWritten(v) <=> DestinationWritten(w)
  BY <1>1, <1>2 DEF DestinationWritten
<1> QED
  BY <1>1, <1>2, <1>3 DEF AsPlanned, Carried

\* Only tasks and the other programs write to the disk.
LEMMA CallersKeepDisk ==
  ASSUME [Next]_vars, ~outside, \A s \in Slots : ~task(s) /\ ~fails(s)
  PROVE  disk' = disk
<1>1. ASSUME NEW s \in Slots, forgets(s)
      PROVE  disk' = disk
  BY <1>1 DEF forgets, Becomes
<1>2. ASSUME NEW r \in Requests, begins(r) \/ replays(r)
      PROVE  disk' = disk
  BY <1>2, Zenon DEF begins, replays
<1>3. finishes => disk' = disk
  BY DEF finishes
<1>4. leaves \/ restarts => disk' = disk
  BY DEF leaves, restarts
<1>5. UNCHANGED vars => disk' = disk
  BY DEF vars
<1> QED
  BY <1>1, <1>2, <1>3, <1>4, <1>5 DEF Next

\* Every step keeps to the plan.
LEMMA PlannedStep == MutationInv /\ ReportInv /\ PlannedInv /\ [Next]_vars => PlannedInv'
<1> SUFFICES ASSUME MutationInv, ReportInv, PlannedInv, [Next]_vars PROVE PlannedInv'
  OBVIOUS
<1>1. faults'["outside"] \in Nat /\ (Undisturbed' => Undisturbed /\ ~outside /\ ~leaves)
  BY DisturbedStays
<1>2. PICK new : new = disk'
  OBVIOUS
<1>3. ASSUME Undisturbed'
      PROVE  IsDisk(new) /\ \A t \in Slots : work'[t] # Idle => AsPlanned(new, work'[t])
  <2>1. IsDisk(disk) /\ \A t \in Slots : work[t] # Idle => AsPlanned(disk, work[t])
    BY <1>1, <1>3 DEF PlannedInv
  <2>2. CASE \E s \in Slots : task(s) \/ fails(s)
    <3>1. PICK s \in Slots : task(s) \/ fails(s)
      BY <2>2
    <3>2. IsDisk(new)
      BY <1>2, <2>1, <3>1, TaskKeepsDisk
    <3>3. ASSUME NEW t \in Slots, work'[t] # Idle
          PROVE  AsPlanned(new, work'[t])
      BY <1>1, <1>2, <1>3, <3>1, <3>3, TaskKeepsPlan
    <3> QED
      BY <3>2, <3>3
  <2>3. CASE \A s \in Slots : ~task(s) /\ ~fails(s)
    <3>1. new = disk /\ OnlyMarks
      BY <1>1, <1>2, <1>3, <2>3, CallersKeepDisk, CallersMark
    <3>2. ASSUME NEW t \in Slots, work'[t] # Idle
          PROVE  AsPlanned(disk, work'[t])
      <4>1. CASE Marked(work[t], work'[t])
        <5>1. PICK w, v : w = work[t] /\ v = work'[t]
          OBVIOUS
        <5>2. w # Idle
          BY <3>2, <4>1, <5>1 DEF Marked, Idle
        <5>3. IsTask(w) /\ AsPlanned(disk, w)
          BY <2>1, <5>1, <5>2 DEF MutationInv, SlotsInv
        <5> QED
          BY <4>1, <5>1, <5>3, MarkedAsPlanned
      <4>2. CASE \E r \in Requests : work'[t] = Task(r)
        <5>1. PICK r \in Requests : work'[t] = Task(r)
          BY <4>2
        <5>2. PICK d : d = disk
          OBVIOUS
        <5>3. AsPlanned(d, Task(r))
          BY NewAsPlanned
        <5> QED
          BY <5>1, <5>2, <5>3
      <4> QED
        BY <3>1, <3>2, <4>1, <4>2 DEF OnlyMarks
    <3> QED
      BY <2>1, <3>1, <3>2
  <2> QED
    BY <2>2, <2>3
<1> QED
  BY <1>1, <1>2, <1>3 DEF PlannedInv

\* The plan is kept to in every reachable state.
LEMMA PlannedInvariant == Spec => [](MutationInv /\ ReportInv /\ PlannedInv)
<1>1. MutationInv /\ ReportInv /\ PlannedInv /\ [Next]_vars => (MutationInv /\ ReportInv /\ PlannedInv)'
  BY MutationStep, ReportStep, PlannedStep
<1> QED
  BY <1>1, MutationInit, ReportInit, PlannedInit, PTL DEF Spec

\* Sections that build on each other, through links and moves, leave the files as
\* the plan saw them, when nobody else writes: what a path shows last is what the
\* last step that changes it leaves, and each write puts it there (plan_section,
\* execute).
THEOREM PatchesApplyAsPlanned == Spec => []AppliedAsPlanned
<1>1. ASSUME MutationInv, ReportInv, PlannedInv
      PROVE  AppliedAsPlanned
  <2> SUFFICES ASSUME NEW s \in Slots, NEW w, w = work[s], w.pc = "returned", IsPatch(w.request),
                      w.status = "applied", Undisturbed, NEW p \in DOMAIN w.view
               PROVE  read_optional(p) = w.view[p].current
    BY DEF AppliedAsPlanned, ReturnedPatches, Undisturbed
  <2>1. AsPlanned(disk, w)
    BY <1>1 DEF PlannedInv, Idle
  <2>2. PICK steps, n : steps = w.steps /\ n = Len(steps)
    OBVIOUS
  <2>3. /\ \A k \in 1..n : IsPlainStep(disk, steps[k])
        /\ ShowsLatest(w.view, steps) /\ Carried(disk, w) /\ w.at - 1 = n
    BY <2>1, <2>2 DEF AsPlanned
  <2>4. PICK k \in 1..n : IsLatest(steps, n, p, k) /\ w.view[p].current = LeftBy(steps[k], p)
    BY <2>2, <2>3 DEF ShowsLatest
  <2>5. p \in Touched(steps[k])
    BY <2>4 DEF IsLatest
  <2>6. Shows(disk, steps, n, {})
    <3>1. Shows(disk, steps, w.at - 1, {})
      <4>1. ~DestinationWritten(w)
        BY DEF DestinationWritten
      <4>2. Shows(disk, w.steps, w.at - 1, IF DestinationWritten(w) THEN {Step(w).to} ELSE {})
        BY <2>3, Zenon DEF Carried
      <4> QED
        BY <2>2, <4>1, <4>2
    <3> QED
      BY <2>3, <3>1
  <2>7. At(disk, p) = LeftBy(steps[k], p)
    BY <2>4, <2>5, <2>6 DEF Shows
  <2>8. p \in Plain(disk)
    BY <2>3, <2>5 DEF IsPlainStep, Touched
  <2>9. read_optional(p) = At(disk, p)
    BY <2>8, PlainIs
  <2> QED
    BY <2>4, <2>7, <2>9
<1> QED
  BY <1>1, PlannedInvariant, PTL

-----------------------------------------------------------------------------
(* What the steps of a plan make of the texts they read, whoever else writes. *)

\* A file holds a text, and a link leads to a path.
IsNode(node) ==
  /\ node.type = "file" => IsSeq(node.text)
  /\ node.type = "link" => node.to \in Paths
HasTexts(d) == d = [p \in Paths |-> d[p]] /\ \A p \in Paths : IsNode(d[p])

\* What is read, and what a section leaves: no file, or a text.
IsContent(content) == content # <<>> => IsSeq(content[1])

\* An update, and replacements, are what the references say of them.
Agrees(step) ==
  /\ step.section.kind = "update" =>
       IsCodexResult(step.before[1], step.section.chunks, step.after[1])
  /\ step.section.kind = "replace" =>
       IsReplacementResult(step.before[1], step.section.edits, step.after[1])
IsTextStep(step) ==
  IsContent(step.after) /\ (step.kind # "delete" => step.after # <<>>) /\ Agrees(step)

\* The view is one of texts.
ShowsTexts(view) ==
  \A p \in DOMAIN view : /\ view[p] = [original |-> view[p].original, current |-> view[p].current]
                         /\ IsContent(view[p].current)

\* What a task has planned, or what a removal never comes to.
HandlesTexts(w) ==
  IF IsPatch(w.request)
  THEN ShowsTexts(w.view) /\ \A k \in 1..Len(w.steps) : IsTextStep(w.steps[k])
  ELSE w.pc \in Writing => w.request.kind = "write"

TextInv == HasTexts(disk) /\ \A s \in Slots : work[s] # Idle => HandlesTexts(work[s])

\* What a path leads to is a text, if it is a file.
LEMMA TextIsRead ==
  ASSUME HasTexts(disk), NEW p \in Paths
  PROVE  follow_final_symlinks(p) \in Paths /\ IsContent(read_optional(p))
<1>1. ASSUME NEW q \in Paths
      PROVE  Next1(disk, q) \in Paths
  BY <1>1 DEF HasTexts, IsNode, Next1
<1>2. PICK q : q = follow_final_symlinks(p)
  OBVIOUS
<1>3. q = Next1(disk, Next1(disk, p))
  BY <1>2 DEF follow_final_symlinks, Next1
<1>4. q \in Paths
  BY <1>1, <1>3
<1>5. IsNode(disk[q])
  BY <1>4 DEF HasTexts
<1>6. read_optional(p) = IF disk[q].type = "file" THEN <<disk[q].text>> ELSE <<>>
  BY <1>2 DEF read_optional
<1> QED
  BY <1>2, <1>4, <1>5, <1>6 DEF IsContent, IsNode

\* So is what the plan sees there.
LEMMA TextIsSeen ==
  ASSUME HasTexts(disk), NEW p \in Paths, NEW view, ShowsTexts(view)
  PROVE  IsContent(state(view, follow_final_symlinks(p)).current)
<1>1. PICK q : q = follow_final_symlinks(p)
  OBVIOUS
<1>2. q \in Paths
  BY <1>1, TextIsRead
<1>3. CASE q \in DOMAIN view
  BY <1>1, <1>3 DEF state, ShowsTexts
<1>4. CASE q \notin DOMAIN view
  BY <1>1, <1>2, <1>4, TextIsRead DEF state
<1> QED
  BY <1>3, <1>4

\* What a section makes of a content: a text, which the references allow.
LEMMA AfterAgrees ==
  ASSUME NEW section, IsSection(section), NEW before, IsContent(before),
         After(section, before).ok, NEW content, content = After(section, before).content
  PROVE  /\ IsContent(content)
         /\ section.kind = "update" => IsCodexResult(before[1], section.chunks, content[1])
         /\ section.kind = "replace" => IsReplacementResult(before[1], section.edits, content[1])
<1>1. PICK after : after = After(section, before) /\ after.ok /\ after.content = content
  OBVIOUS
<1>2. HasContent(section) /\ section.kind \in {"add", "delete", "update", "replace"}
  BY DEF IsSection
<1>3. CASE section.kind = "add"
  <2>1. after = [ok |-> TRUE, content |-> <<section.content>>]
    BY <1>1, <1>3, Zenon DEF After
  <2>2. content = <<section.content>>
    BY <1>1, <2>1
  <2> QED
    BY <1>2, <1>3, <2>2 DEF IsContent, HasContent
<1>4. CASE section.kind # "add" /\ before = <<>>
  <2>1. after = [ok |-> FALSE, content |-> <<>>]
    BY <1>1, <1>4, Zenon DEF After
  <2>2. ~after.ok
    BY <2>1
  <2> QED
    BY <1>1, <2>2
<1>5. CASE section.kind = "delete" /\ before # <<>>
  <2>1. section.kind # "add"
    BY <1>5
  <2>2. after = [ok |-> TRUE, content |-> <<>>]
    BY <1>1, <1>5, <2>1, Zenon DEF After
  <2>3. content = <<>>
    BY <1>1, <2>2
  <2> QED
    BY <1>5, <2>3 DEF IsContent
<1>6. CASE section.kind = "update" /\ before # <<>>
  <2>1. section.kind # "add" /\ section.kind # "delete" /\ section.kind \in {"update", "replace"}
    BY <1>6
  <2>2. PICK text, modified : text = before[1] /\ modified = apply_codex(text, section.chunks)
    OBVIOUS
  <2>3. after = [ok |-> modified.ok,
                 content |-> IF modified.ok THEN <<modified.text>> ELSE <<>>]
    BY <1>1, <1>6, <2>1, <2>2, Zenon DEF After
  <2>4. modified.ok /\ content = <<modified.text>>
    BY <1>1, <2>3
  <2>5. IsSeq(text) /\ AreHunks(section.chunks)
    BY <1>2, <1>6, <2>2 DEF IsContent, HasContent
  <2>6. IsSeq(modified.text) /\ IsCodexResult(text, section.chunks, modified.text)
    BY <2>2, <2>4, <2>5, CodexIs
  <2> QED
    BY <1>6, <2>2, <2>4, <2>6 DEF IsContent
<1>7. CASE section.kind = "replace" /\ before # <<>>
  <2>1. /\ section.kind # "add" /\ section.kind # "delete" /\ section.kind # "update"
        /\ section.kind \in {"update", "replace"}
    BY <1>7
  <2>2. PICK text, modified : text = before[1] /\ modified = apply_replacements(text, section.edits)
    OBVIOUS
  <2>3. after = [ok |-> modified.ok,
                 content |-> IF modified.ok THEN <<modified.text>> ELSE <<>>]
    BY <1>1, <1>7, <2>1, <2>2, Zenon DEF After
  <2>4. modified.ok /\ content = <<modified.text>>
    BY <1>1, <2>3
  <2>5. IsSeq(text) /\ AreChanges(section.edits)
    BY <1>2, <1>7, <2>2 DEF IsContent, HasContent
  <2>6. IsSeq(modified.text) /\ IsReplacementResult(text, section.edits, modified.text)
    BY <2>2, <2>4, <2>5, ReplacementsAre
  <2> QED
    BY <1>7, <2>2, <2>4, <2>6 DEF IsContent
<1> QED
  BY <1>2, <1>3, <1>4, <1>5, <1>6, <1>7

\* The step of a section agrees with the references.
LEMMA PlannedAgrees ==
  ASSUME NEW w, NEW section, IsSection(section), NEW before,
         before = state(w.view, follow_final_symlinks(section.path)).current, IsContent(before),
         After(section, before).ok, NEW content, content = After(section, before).content
  PROVE  IsTextStep(Planned(w, section, content))
<1>1. PICK step : step = Planned(w, section, content)
  OBVIOUS
<1>2. step.section = section /\ step.before = before /\ step.after = content
  BY <1>1, Zenon DEF Planned
<1>3. /\ IsContent(content)
      /\ section.kind = "update" => IsCodexResult(before[1], section.chunks, content[1])
      /\ section.kind = "replace" => IsReplacementResult(before[1], section.edits, content[1])
  BY AfterAgrees
<1>4. section.kind = "delete" => step.kind = "delete"
  <2> SUFFICES ASSUME section.kind = "delete" PROVE step.kind = "delete"
    OBVIOUS
  <2>1. ~IsMove(section) /\ section.kind # "replace"
    BY DEF IsSection, IsMove
  <2>2. step.kind = section.kind
    BY <1>1, <2>1, Zenon DEF Planned
  <2> QED
    BY <2>2
<1>5. section.kind # "delete" => content # <<>>
  <2> SUFFICES ASSUME section.kind # "delete" PROVE content # <<>>
    OBVIOUS
  <2>1. content = <<content[1]>>
    BY AfterIs
  <2> QED
    BY <2>1
<1>6. Agrees(step)
  BY <1>2, <1>3, Zenon DEF Agrees
<1> QED
  BY <1>1, <1>2, <1>3, <1>4, <1>5, <1>6 DEF IsTextStep

\* A view of texts stays one when a step's text joins it.
LEMMA ViewedTexts ==
  ASSUME NEW w, ShowsTexts(w.view), NEW step, IsContent(step.after)
  PROVE  ShowsTexts(Viewed(w, step))
<1>1. PICK view, new : view = w.view /\ new = Viewed(w, step)
  OBVIOUS
<1>2. new = [p \in Touched(step) \cup DOMAIN view |->
               [state(view, p) EXCEPT !.current =
                  IF p \in Touched(step) THEN LeftBy(step, p) ELSE @]]
  BY <1>1 DEF Viewed
<1>3. ASSUME NEW p \in DOMAIN new
      PROVE  new[p] = [original |-> new[p].original, current |-> new[p].current]
             /\ IsContent(new[p].current)
  <2>1. PICK seen, current :
          /\ seen = state(view, p)
          /\ current = IF p \in Touched(step) THEN LeftBy(step, p) ELSE seen.current
    OBVIOUS
  <2>2. seen = [original |-> seen.original, current |-> seen.current]
    <3>1. CASE p \in DOMAIN view
      BY <1>1, <2>1, <3>1 DEF state, ShowsTexts
    <3>2. CASE p \notin DOMAIN view
      BY <2>1, <3>2 DEF state
    <3> QED
      BY <3>1, <3>2
  <2>3. new[p] = [seen EXCEPT !.current = IF p \in Touched(step) THEN LeftBy(step, p) ELSE @]
    BY <1>2, <1>3, <2>1
  <2>4. new[p] = [original |-> seen.original, current |-> current]
    BY <2>1, <2>2, <2>3
  <2>5. IsContent(LeftBy(step, p))
    BY DEF LeftBy, IsContent
  <2>6. p \notin Touched(step) => IsContent(seen.current)
    BY <1>1, <1>2, <1>3, <2>1 DEF state, ShowsTexts
  <2>7. IsContent(current)
    BY <2>1, <2>5, <2>6
  <2> QED
    BY <2>4, <2>7
<1> QED
  BY <1>1, <1>3 DEF ShowsTexts

\* A plan with one step more.
LEMMA PlanningHandles ==
  ASSUME HasTexts(disk), NEW w, IsTask(w), IsPatch(w.request), IsPlanning(w), HandlesTexts(w),
         NEW v, PlansOne(w, v)
  PROVE  HandlesTexts(v)
<1>1. PICK section, step, after, before :
        /\ w.sections # <<>> /\ section = w.sections[w.at]
        /\ before = state(w.view, follow_final_symlinks(section.path)).current
        /\ after = After(section, before) /\ after.ok
        /\ step = Planned(w, section, after.content) /\ v = Planning(w, step, Viewed(w, step))
  BY Zenon DEF PlansOne
<1>2. IsSection(section)
  <2>1. PICK n, at : n = Len(w.sections) /\ at = w.at /\ n \in Nat /\ at \in 1..n
    BY <1>1 DEF IsPlanning, AreSections, IsSeq
  <2> QED
    BY <1>1, <2>1 DEF IsPlanning, AreSections
<1>3. ShowsTexts(w.view) /\ \A k \in 1..Len(w.steps) : IsTextStep(w.steps[k])
  BY DEF HandlesTexts
<1>4. IsContent(before)
  BY <1>1, <1>2, <1>3, TextIsSeen DEF IsSection
<1>5. IsTextStep(step)
  BY <1>1, <1>2, <1>4, PlannedAgrees
<1>6. PICK steps, view, n :
        /\ steps = Append(w.steps, step) /\ view = Viewed(w, step) /\ n = Len(w.steps)
  OBVIOUS
<1>7. /\ IsSeq(w.steps) /\ n \in Nat /\ Len(steps) = n + 1
      /\ (\A k \in 1..n : steps[k] = w.steps[k]) /\ steps[n + 1] = step
  BY <1>6, AppendIs DEF IsPlanning, HaveKinds, IsSeq
<1>8. \A k \in 1..n + 1 : k \in 1..n \/ k = n + 1
  BY <1>7
<1>9. \A k \in 1..Len(steps) : IsTextStep(steps[k])
  BY <1>3, <1>5, <1>6, <1>7, <1>8
<1>10. ShowsTexts(view)
  BY <1>3, <1>5, <1>6, ViewedTexts DEF IsTextStep
<1>11. PICK last, aliases :
         last \in BOOLEAN /\ (last <=> w.at = Len(w.sections)) /\ aliases = WithAliases(w.aliases, step.section)
  OBVIOUS
<1>12. PICK next, pc, left :
         /\ next = (IF last THEN 1 ELSE w.at + 1)
         /\ pc = (IF last THEN "verifyAll" ELSE "plan")
         /\ left = (IF last THEN DOMAIN view ELSE {})
  OBVIOUS
<1>13. v = [w EXCEPT !.steps = steps, !.view = view, !.aliases = aliases, !.at = next,
                     !.pc = pc, !.left = left]
  BY <1>1, <1>6, <1>11, <1>12 DEF Planning, IsTask, TaskParts, IsPlanning
<1>14. v.steps = steps /\ v.view = view /\ v.request = w.request
  BY <1>13 DEF IsTask, TaskParts
<1> QED
  BY <1>9, <1>10, <1>14 DEF HandlesTexts

\* The same plan of the same request.
SamePlan(w, v) == v.request = w.request /\ v.steps = w.steps /\ v.view = w.view

\* What is made of a task after its plan keeps the plan.
LEMMA EndingKeepsPlan ==
  ASSUME NEW w, IsTask(w), NEW uncertain, NEW changes, NEW code
  PROVE  SamePlan(w, fail(w, uncertain, changes)) /\ SamePlan(w, Failing(w, code))
<1>1. ASSUME NEW doubt, NEW told
      PROVE  SamePlan(w, fail(w, doubt, told))
  <2>1. PICK exact, status :
          /\ exact = ~doubt /\ status = IF doubt \/ told # <<>> THEN "partial" ELSE "rejected"
    OBVIOUS
  <2>2. fail(w, doubt, told)
          = [w EXCEPT !.pc = "returned", !.changes = told, !.exact = exact, !.status = status]
    BY <2>1, Zenon DEF fail
  <2> QED
    BY <2>2 DEF SamePlan, IsTask, TaskParts
<1>2. SamePlan(w, Ended(w, code))
  BY DEF Ended, SamePlan, IsTask, TaskParts
<1>3. \/ Failing(w, code) = Ended(w, code)
      \/ \E doubt, told : Failing(w, code) = fail(w, doubt, told)
  BY Zenon DEF Failing
<1> QED
  BY <1>1, <1>2, <1>3

\* So does the effect of a write or a removal.
LEMMA CommittedKeepsPlan ==
  ASSUME NEW w, IsTask(w), NEW effect, NEW status
  PROVE  SamePlan(w, Committed(w, effect, status))
<1>1. PICK done, more : done = Append(w.done, effect) /\ more = Append(w.changes, Change(Step(w)))
  OBVIOUS
<1>2. PICK now : now = [w EXCEPT !.done = done]
  OBVIOUS
<1>3. [w EXCEPT !.done = Append(@, effect)] = now
  BY <1>1, <1>2, Zenon
<1>4. IsTask(now) /\ SamePlan(w, now) /\ now.at = w.at /\ now.changes = w.changes
  BY <1>2 DEF SamePlan, IsTask, TaskParts
<1>5. \/ Committed(w, effect, status) = Ended(now, status)
      \/ Committed(w, effect, status) = [now EXCEPT !.pc = "verifySource"]
      \/ Committed(w, effect, status) = Recorded(now)
  BY <1>3, Zenon DEF Committed
<1>6. SamePlan(w, Ended(now, status)) /\ SamePlan(w, [now EXCEPT !.pc = "verifySource"])
  BY <1>4 DEF Ended, SamePlan, IsTask, TaskParts
<1>7. SamePlan(w, Recorded(now))
  <2>1. PICK changes, at, pc :
          /\ changes = Append(now.changes, Change(Step(now))) /\ at = now.at + 1
          /\ pc = IF now.at = Len(now.steps) THEN "returned" ELSE "verify"
    OBVIOUS
  <2>2. Recorded(now) = [now EXCEPT !.changes = changes, !.at = at, !.pc = pc]
    BY <1>4, <2>1 DEF Recorded, IsTask, TaskParts
  <2> QED
    BY <1>4, <2>2 DEF SamePlan, IsTask, TaskParts
<1> QED
  BY <1>5, <1>6, <1>7

\* So does every step after the plan.
LEMMA MovesKeepPlan ==
  ASSUME NEW w, IsTask(w), NEW v, PatchMoves(w, v) \/ PatchCalls(w, v), ~PlansOne(w, v)
  PROVE  SamePlan(w, v)
<1>1. ASSUME NEW pc, v = [w EXCEPT !.pc = pc]
      PROVE  SamePlan(w, v)
  BY <1>1 DEF SamePlan, IsTask, TaskParts
<1>2. ASSUME NEW pc, NEW target, v = [w EXCEPT !.pc = pc, !.target = target]
      PROVE  SamePlan(w, v)
  BY <1>2 DEF SamePlan, IsTask, TaskParts
<1>3. CASE (\E told : v = fail(w, FALSE, told)) \/ (\E code : v = Failing(w, code))
  BY <1>3, EndingKeepsPlan
<1>4. CASE VerifiesOne(w, v)
  <2>1. PICK left, pc : v = [w EXCEPT !.left = left, !.pc = pc]
    <3>1. PICK p : v = [w EXCEPT !.left = w.left \ {p},
                                 !.pc = IF w.left \ {p} = {} THEN "verify" ELSE @]
      BY <1>4 DEF VerifiesOne
    <3>2. PICK left, pc : left = w.left \ {p} /\ pc = IF left = {} THEN "verify" ELSE w.pc
      OBVIOUS
    <3>3. v = [w EXCEPT !.left = left, !.pc = pc]
      BY <3>1, <3>2 DEF IsTask, TaskParts
    <3> QED
      BY <3>3
  <2> QED
    BY <2>1 DEF SamePlan, IsTask, TaskParts
<1>5. CASE \E pc : v = Ready(w, pc)
  BY <1>5 DEF Ready, SamePlan, IsTask, TaskParts
<1>6. CASE v = Ready([w EXCEPT !.target = Step(w).path], "unlink")
  <2>1. PICK target : target = Step(w).path
    OBVIOUS
  <2>2. v = [[w EXCEPT !.target = target] EXCEPT !.pc = "unlink", !.raced = FALSE]
    BY <1>6, <2>1 DEF Ready
  <2> QED
    BY <2>2 DEF SamePlan, IsTask, TaskParts
<1>7. CASE \E effect, status : v = Committed(w, effect, status)
  BY <1>7, CommittedKeepsPlan
<1>8. CASE \E x : v = FailedAfter(w, x)
  <2>1. PICK x : v = FailedAfter(w, x)
    BY <1>8
  <2>2. PICK failed : failed = Failing(w, "io")
    OBVIOUS
  <2>3. IsTask(failed) /\ SamePlan(w, failed)
    BY <2>2, EndingKeepsPlan, FailingFollows DEF Follows
  <2>4. PICK done : done = Append(failed.done, x)
    OBVIOUS
  <2>5. v = [failed EXCEPT !.done = done]
    BY <2>1, <2>2, <2>4, Zenon DEF FailedAfter
  <2> QED
    BY <2>3, <2>5 DEF SamePlan, IsTask, TaskParts
<1>9. CASE PatchMoves(w, v)
  BY <1>1, <1>2, <1>3, <1>4, <1>5, <1>6, <1>7, <1>9, Zenon DEF PatchMoves
<1>10. CASE PatchCalls(w, v)
  BY <1>7, <1>8, <1>10, Zenon DEF PatchCalls
<1> QED
  BY <1>9, <1>10

\* A patch's task goes on with texts.
LEMMA PatchHandles ==
  ASSUME HasTexts(disk), NEW w, IsTask(w), IsPatch(w.request), Reports(w), HandlesTexts(w),
         NEW v, PatchMoves(w, v) \/ PatchCalls(w, v)
  PROVE  HandlesTexts(v)
<1>1. CASE PlansOne(w, v)
  <2>1. w.pc = "plan"
    BY <1>1 DEF PlansOne
  <2>2. IsPlanning(w)
    BY <2>1 DEF Reports, IsPlanned, IsDoing, Doing, IsReported
  <2> QED
    BY <1>1, <2>2, PlanningHandles
<1>2. CASE ~PlansOne(w, v)
  <2>1. SamePlan(w, v)
    BY <1>2, MovesKeepPlan
  <2> QED
    BY <2>1 DEF SamePlan, HandlesTexts
<1> QED
  BY <1>1, <1>2

\* A task of another request writes only what the request says.
LEMMA OthersHandle ==
  ASSUME MutationInv, NEW s \in Slots, task(s) \/ fails(s), ~IsPatch(work[s].request),
         HandlesTexts(work[s])
  PROVE  OthersStay(s) /\ HandlesTexts(work'[s])
<1>1. PICK w, v : w = work[s] /\ v = work'[s]
  OBVIOUS
<1>2. IsTask(w)
  BY <1>1, OnlyUnderWay, SlotHasTask
<1>3. OthersStay(s) /\ OtherMoves(w, v)
  BY <1>1, OtherTasks
<1>4. w.request.kind \in {"write", "remove"}
  BY <1>1, <1>2, RequestsHaveKinds DEF IsTask, IsPatch
<1>5. v.request = w.request /\ (v.pc \in Writing => w.pc \in Writing \/ w.request.kind # "remove")
  BY <1>3 DEF OtherMoves, Follows
<1>6. w.pc \in Writing => w.request.kind = "write"
  BY <1>1 DEF HandlesTexts
<1>7. v.pc \in Writing => v.request.kind = "write"
  BY <1>4, <1>5, <1>6
<1> QED
  BY <1>1, <1>3, <1>5, <1>7 DEF HandlesTexts

\* What a task puts on the disk is a text.
LEMMA PutsText ==
  ASSUME NEW w, IsTask(w), Reports(w), HandlesTexts(w), NEW node, Puts(w, node)
  PROVE  IsNode(node)
<1>1. CASE node = None
  BY <1>1 DEF IsNode, None
<1>2. CASE w.pc = "rename" /\ node = File(Write(w).text)
  <2>1. PICK text : text = Write(w).text
    OBVIOUS
  <2>2. CASE IsPatch(w.request)
    <3>1. IsDoing(w)
      BY <1>2, <2>2 DEF Reports, IsPlanning, IsPlanned, IsReported
    <3>2. PICK k : k = w.at /\ k \in 1..Len(w.steps) /\ Step(w) = w.steps[k]
      BY <3>1 DEF IsDoing, Step
    <3>3. PICK step : step = w.steps[k] /\ IsTextStep(step)
      BY <2>2, <3>2 DEF HandlesTexts
    <3>4. step.kind # "delete"
      BY <1>2, <3>1, <3>2, <3>3 DEF IsDoing
    <3>5. text = step.after[1]
      BY <2>1, <2>2, <3>2, <3>3 DEF Write
    <3> QED
      BY <1>2, <2>1, <3>3, <3>4, <3>5 DEF IsTextStep, IsContent, IsNode, File
  <2>3. CASE ~IsPatch(w.request)
    <3>1. w.request.kind = "write" /\ w.request \in Requests
      BY <1>2, <2>3 DEF HandlesTexts, Writing, IsTask
    <3>2. text = w.request.text
      BY <2>1, <2>3 DEF Write
    <3>3. IsSeq(text)
      BY <3>1, <3>2, TextsAreSequences, IsSeqOf
    <3> QED
      BY <1>2, <2>1, <3>3 DEF IsNode, File
  <2> QED
    BY <2>2, <2>3
<1> QED
  BY <1>1, <1>2 DEF Puts

\* A node takes the place of another.
LEMMA NodePut ==
  ASSUME NEW d, HasTexts(d), NEW q, NEW node, IsNode(node), NEW new,
         new = [d EXCEPT ![q] = node]
  PROVE  HasTexts(new)
<1>1. /\ new = [p \in Paths |-> new[p]]
      /\ \A p \in Paths : new[p] = d[p] \/ new[p] = node
  BY DEF HasTexts
<1>2. \A p \in Paths : IsNode(new[p])
  BY <1>1 DEF HasTexts
<1> QED
  BY <1>1, <1>2 DEF HasTexts

\* The disk holds texts whoever writes to it.
LEMMA DiskKeepsTexts ==
  ASSUME MutationInv, ReportInv, TextInv, [Next]_vars
  PROVE  HasTexts(disk')
<1>1. PICK d, new : d = disk /\ new = disk' /\ HasTexts(d)
  BY DEF TextInv
<1>2. ASSUME NEW s \in Slots, task(s) \/ fails(s)
      PROVE  HasTexts(new)
  <2>1. PICK w : w = work[s]
    OBVIOUS
  <2>2. w.pc \notin {"idle", "returned"}
    BY <1>2, <2>1, OnlyUnderWay
  <2>3. IsTask(w) /\ Reports(w) /\ HandlesTexts(w)
    BY <2>1, <2>2, SlotHasTask DEF ReportInv, TextInv, Idle
  <2>4. new = d \/ Replaces(d, w, new)
    BY <1>1, <1>2, <2>1, DiskSteps
  <2>5. CASE Replaces(d, w, new)
    <3>1. PICK q, node : Puts(w, node) /\ new = [d EXCEPT ![q] = node]
      BY <2>5 DEF Replaces
    <3>2. IsNode(node)
      BY <2>3, <3>1, PutsText
    <3> QED
      BY <1>1, <3>1, <3>2, NodePut
  <2> QED
    BY <1>1, <2>4, <2>5
<1>3. CASE outside
  <2>1. PICK o \in OutsideWrites : disk' = [disk EXCEPT ![o.path] = o.node]
    BY <1>3 DEF outside
  <2>2. PICK node : node = o.node
    OBVIOUS
  <2>3. /\ node.type = "file" => node.text \in Seq(STRING)
        /\ node.type = "link" => node.to \in Paths
    BY <2>2, TextsAreSequences, LinksEnd
  <2>4. IsNode(node)
    BY <2>3, IsSeqOf DEF IsNode
  <2> QED
    BY <1>1, <2>1, <2>2, <2>4, NodePut
<1>4. CASE ~outside /\ \A s \in Slots : ~task(s) /\ ~fails(s)
  BY <1>1, <1>4, CallersKeepDisk
<1> QED
  BY <1>1, <1>2, <1>3, <1>4

\* A mark changes nothing of what a task handles.
LEMMA MarkedHandles ==
  ASSUME NEW w, IsTask(w), HandlesTexts(w), NEW v, Marked(w, v)
  PROVE  HandlesTexts(v)
<1>1. SamePlan(w, v) /\ v.pc = w.pc
  BY DEF Marked, SamePlan, IsTask, TaskParts
<1> QED
  BY <1>1 DEF SamePlan, HandlesTexts

\* A new task has read nothing, and does not begin with writing.
LEMMA NewHandles ==
  ASSUME NEW r \in Requests
  PROVE  HandlesTexts(Task(r))
<1>1. PICK all, start, target : /\ all = sections(r) /\ start = Start(r)
                                /\ target = IF IsPatch(r) THEN "" ELSE r.path
  OBVIOUS
<1>2. Task(r) =
        [request |-> r, pc |-> start, at |-> 1, target |-> target,
         sections |-> all, view |-> <<>>, aliases |-> <<>>, steps |-> <<>>, left |-> {},
         status |-> "applied", exact |-> TRUE, changes |-> <<>>,
         done |-> <<>>, raced |-> FALSE, orphan |-> FALSE]
  BY <1>1 DEF Task
<1>3. PICK w : w = Task(r)
  OBVIOUS
<1>4. w.request = r /\ w.pc = start /\ w.view = <<>> /\ w.steps = <<>>
  BY <1>2, <1>3
<1>5. start \in {"plan", "follow", "look"}
  BY <1>1 DEF Start
<1>6. ShowsTexts(<<>>) /\ Len(<<>>) = 0
  BY DEF ShowsTexts
<1>7. \A k \in 1..Len(w.steps) : IsTextStep(w.steps[k])
  BY <1>4, <1>6
<1> QED
  BY <1>3, <1>4, <1>5, <1>6, <1>7 DEF HandlesTexts, Writing

\* Every step leaves texts on the disk and in the plans.
LEMMA TextStep == MutationInv /\ ReportInv /\ TextInv /\ [Next]_vars => TextInv'
<1> SUFFICES ASSUME MutationInv, ReportInv, TextInv, [Next]_vars PROVE TextInv'
  OBVIOUS
<1>1. HasTexts(disk')
  BY DiskKeepsTexts
<1>2. ASSUME NEW t \in Slots, Marked(work[t], work'[t]), work'[t] # Idle
      PROVE  HandlesTexts(work'[t])
  <2>1. PICK w, v : w = work[t] /\ v = work'[t]
    OBVIOUS
  <2>2. w # Idle
    BY <1>2, <2>1 DEF Marked, Idle
  <2>3. IsTask(w) /\ HandlesTexts(w)
    BY <2>1, <2>2 DEF MutationInv, SlotsInv, TextInv
  <2> QED
    BY <1>2, <2>1, <2>3, MarkedHandles
<1>3. ASSUME NEW t \in Slots, work'[t] # Idle
      PROVE  HandlesTexts(work'[t])
  <2>1. CASE \E s \in Slots : task(s) \/ fails(s)
    <3>1. PICK s \in Slots : task(s) \/ fails(s)
      BY <2>1
    <3>2. PICK w, v : w = work[s] /\ v = work'[s]
      OBVIOUS
    <3>3. w.pc \notin {"idle", "returned"}
      BY <3>1, <3>2, OnlyUnderWay
    <3>4. IsTask(w) /\ Reports(w) /\ HandlesTexts(w)
      BY <3>2, <3>3, SlotHasTask DEF ReportInv, TextInv, Idle
    <3>5. OthersStay(s) /\ HandlesTexts(v)
      <4>1. CASE IsPatch(w.request)
        <5>1. w.pc # "follow"
          BY <3>4, <4>1 DEF Reports, IsPlanning, IsPlanned, IsDoing, Doing, IsReported
        <5>2. OthersStay(s) /\ (PatchMoves(w, v) \/ PatchCalls(w, v))
          BY <3>1, <3>2, <4>1, <5>1, PatchSteps
        <5>3. HasTexts(disk)
          BY DEF TextInv
        <5> QED
          BY <3>4, <4>1, <5>2, <5>3, PatchHandles
      <4>2. CASE ~IsPatch(w.request)
        BY <3>1, <3>2, <3>4, <4>2, OthersHandle
      <4> QED
        BY <4>1, <4>2
    <3>6. CASE t = s
      BY <3>2, <3>5, <3>6
    <3>7. CASE t # s
      <4>1. Marked(work[t], work'[t])
        BY <3>5, <3>7 DEF OthersStay, Marked
      <4> QED
        BY <1>2, <1>3, <4>1
    <3> QED
      BY <3>6, <3>7
  <2>2. CASE \A s \in Slots : ~task(s) /\ ~fails(s)
    <3>1. OnlyMarks
      BY <2>2, CallersMark
    <3>2. CASE \E r \in Requests : work'[t] = Task(r)
      BY <3>2, NewHandles
    <3> QED
      BY <1>2, <1>3, <3>1, <3>2 DEF OnlyMarks
  <2> QED
    BY <2>1, <2>2
<1> QED
  BY <1>1, <1>3 DEF TextInv

\* At the start the disk holds texts, and there is no task.
LEMMA TextInit == Init => TextInv
<1> SUFFICES ASSUME Init PROVE TextInv
  OBVIOUS
<1>1. disk = InitialDisk /\ \A s \in Slots : work[s] = Idle
  BY DEF Init
<1>2. disk = [p \in Paths |-> disk[p]]
  BY <1>1, LinksEnd
<1>3. ASSUME NEW p \in Paths
      PROVE  IsNode(disk[p])
  <2>1. PICK node : node = InitialDisk[p]
    OBVIOUS
  <2>2. node.type = "file" => node.text \in Seq(STRING)
    BY <2>1, TextsAreSequences
  <2>3. node.type = "link" => node.to \in Paths
    BY <2>1, LinksEnd
  <2> QED
    BY <1>1, <2>1, <2>2, <2>3, IsSeqOf DEF IsNode
<1> QED
  BY <1>1, <1>2, <1>3 DEF TextInv, HasTexts

\* In every reachable state the disk and the plans hold texts, and a plan has of
\* each text what the references say.
LEMMA TextInvariant == Spec => [](MutationInv /\ ReportInv /\ TextInv)
<1>1. MutationInv /\ ReportInv /\ TextInv /\ [Next]_vars => (MutationInv /\ ReportInv /\ TextInv)'
  BY MutationStep, ReportStep, TextStep
<1> QED
  BY <1>1, MutationInit, ReportInit, TextInit, PTL DEF Spec

\* A step of a plan that is about to be carried out agrees with the references.
LEMMA PlansAgree ==
  ASSUME MutationInv, ReportInv, TextInv, NEW step \in PlannedSteps
  PROVE  Agrees(step)
<1>1. PICK s \in Slots : work[s].pc = "verifyAll" /\ \E k \in DOMAIN work[s].steps : step = work[s].steps[k]
  BY DEF PlannedSteps
<1>2. PICK w : w = work[s]
  OBVIOUS
<1>3. w # Idle
  BY <1>1, <1>2 DEF Idle
<1>4. IsTask(w) /\ Reports(w) /\ HandlesTexts(w)
  BY <1>2, <1>3 DEF MutationInv, SlotsInv, ReportInv, TextInv
<1>5. IsPatch(w.request)
  BY <1>1, <1>2, <1>4 DEF IsTask, PatchPlaces
<1>6. IsPlanned(w)
  BY <1>1, <1>2, <1>4, <1>5 DEF Reports, IsPlanning, IsDoing, Doing, IsReported
<1>7. DOMAIN w.steps = 1..Len(w.steps)
  BY <1>6, SeqIs DEF IsPlanned, HaveKinds
<1> QED
  BY <1>1, <1>2, <1>4, <1>5, <1>7 DEF HandlesTexts, IsTextStep

\* An update changes the matched lines and no others, whatever the file holds by
\* the time it is planned and whoever wrote it: hunks in order, each on lines it
\* describes, insertions at the end (apply_codex, seek).
THEOREM UpdatesAgree == Spec => []CodexAgrees
<1>1. ASSUME MutationInv, ReportInv, TextInv
      PROVE  CodexAgrees
  BY <1>1, PlansAgree DEF CodexAgrees, Agrees
<1> QED
  BY <1>1, TextInvariant, PTL

\* Replacements take place all at once, each where its text is and nowhere else,
\* and leave the other text as it is, but for its line ends: they all take the
\* style of the first one, LF or CR LF, and a CR alone becomes one too.  The byte
\* order mark stays (apply_replacements).
THEOREM ReplacementsAgreeAlways == Spec => []ReplacementsAgree
<1>1. ASSUME MutationInv, ReportInv, TextInv
      PROVE  ReplacementsAgree
  BY <1>1, PlansAgree DEF ReplacementsAgree, Agrees
<1> QED
  BY <1>1, TextInvariant, PTL
=============================================================================
