-------------------------- MODULE ExecutionIOProofs --------------------------
(***************************************************************************)
(* What ExecutionIO promises, for any number of observers, streams and     *)
(* inputs, any sizes and any limits:                                       *)
(*   - no observer misses what it waits for (WatchInv; the proof does not  *)
(*     look into the journal);                                             *)
(*   - the inputs reach the child once each and in order, and what waits   *)
(*     fits in the queue (InputInv, PermitsInv);                           *)
(*   - a file called complete is the whole output (OutputInv);             *)
(*   - what observers read follows on, or says that there is a gap         *)
(*     (OutputInv, ToldInv).                                               *)
(* Sums and bytes are data of any size: where induction over them is       *)
(* needed, it is the absence of a least exception.                         *)
(***************************************************************************)
EXTENDS ExecutionIO, FiniteSetTheorems, SequenceTheorems, TLAPS

\* A call of an observer: all its parts, those the proof has no interest in too.
IsCall(call) ==
  \E pc, cursor, when, limit, signal, late, calls, last :
    call = [pc |-> pc, cursor |-> cursor, when |-> when, limit |-> limit,
            signal |-> signal, late |-> late, calls |-> calls, last |-> last]

\* What a call would be answered, given what the execution is and has put out.
Answer(call, output, over) ==
  LET observation == read(output, call.cursor, call.limit, over)
  IN  \/ observation.reason \in {"finished", "output_limit"}
      \/ call.when = "activity" /\ observation.reason = "activity"

\* Nothing is missed by a call that has read and found nothing.
Waiting(call) == call.pc \in {"quiet", "asleep"} /\ ~call.signal
Served(call, output, over, coming) ==
  Waiting(call) /\ Answer(call, output, over) => coming

ObserversAreCalls ==
  /\ observers = [o \in Observers |-> observers[o]]
  /\ \A o \in Observers : IsCall(observers[o])

\* The inductive invariant: also a call that is about to sleep is served.
WatchInv ==
  /\ ObserversAreCalls
  /\ \A o \in Observers : Served(observers[o], journal, Finished, owed # {})

-----------------------------------------------------------------------------
\* The property's words and these: an observation that is answered at once.
LEMMA ImmediateIsAnswer ==
  \A o \in Observers : Immediate(o, Seen(o)) <=> Answer(observers[o], journal, Finished)
BY DEF Immediate, Seen, Answer

\* At the start nobody waits.
LEMMA WatchInit == Init => WatchInv
<1> SUFFICES ASSUME Init PROVE WatchInv
  OBVIOUS
<1>1. Ready = [pc |-> "idle", cursor |-> NoCursor, when |-> "activity", limit |-> 0,
               signal |-> FALSE, late |-> FALSE, calls |-> 0, last |-> NoObservation]
  BY DEF Ready
<1>2. PICK cursor, last, off : cursor = NoCursor /\ last = NoObservation /\ off = FALSE
  OBVIOUS
<1>3. Ready = [pc |-> "idle", cursor |-> cursor, when |-> "activity", limit |-> 0,
               signal |-> off, late |-> off, calls |-> 0, last |-> last]
  BY <1>1, <1>2
<1>4. PICK other : other = [Ready EXCEPT !.calls = MaxObservations]
  OBVIOUS
<1>5. other
        = [pc |-> "idle", cursor |-> cursor, when |-> "activity", limit |-> 0,
           signal |-> off, late |-> off, calls |-> MaxObservations, last |-> last]
  BY <1>3, <1>4
<1>6. IsCall(Ready) /\ IsCall(other)
  <2>1. IsCall(Ready)
    BY <1>1, Zenon DEF IsCall
  <2>2. IsCall(other)
    BY <1>5, Zenon DEF IsCall
  <2> QED
    BY <2>1, <2>2
<1>7. Ready.pc = "idle" /\ other.pc = "idle"
  BY <1>1, <1>5
<1>8. observers \in [Observers -> {Ready, other}]
  BY <1>4 DEF Init
<1>9. \A o \in Observers : IsCall(observers[o]) /\ observers[o].pc = "idle"
  BY <1>6, <1>7, <1>8
<1> QED
  BY <1>8, <1>9 DEF WatchInv, ObserversAreCalls, Served, Waiting

\* A step that announces what it changed leaves every observer served.
LEMMA AnnouncedKeepsWatch ==
  ASSUME WatchInv, UNCHANGED observers, owed' # {}
  PROVE  WatchInv'
BY DEF WatchInv, ObserversAreCalls, Served

\* A step that changes nothing an observation depends on does, too.
LEMMA UnseenKeepsWatch ==
  ASSUME WatchInv, UNCHANGED <<observers, owed, journal>>, Finished' = Finished
  PROVE  WatchInv'
<1>1. observers' = observers /\ owed' = owed /\ journal' = journal
  OBVIOUS
<1> QED
  BY <1>1 DEF WatchInv, ObserversAreCalls, Served, Answer

\* Everybody who waits is woken.
LEMMA NotifyKeepsWatch ==
  ASSUME WatchInv, NEW who, notify(who)
  PROVE  WatchInv'
<1>1. observers' = [o \in Observers |->
        IF observers[o].pc \in {"armed", "quiet", "asleep"}
        THEN [observers[o] EXCEPT !.signal = TRUE] ELSE observers[o]]
  BY DEF notify
<1>2. ASSUME NEW o \in Observers
      PROVE  IsCall(observers'[o]) /\ ~Waiting(observers'[o])
  <2>1. PICK pc, cursor, when, limit, signal, late, calls, last :
          observers[o] = [pc |-> pc, cursor |-> cursor, when |-> when, limit |-> limit,
                          signal |-> signal, late |-> late, calls |-> calls, last |-> last]
    BY DEF WatchInv, ObserversAreCalls, IsCall
  <2>2. CASE pc \in {"armed", "quiet", "asleep"}
    <3>1. PICK on \in BOOLEAN : on = TRUE
      OBVIOUS
    <3>2. observers[o].pc \in {"armed", "quiet", "asleep"}
      BY <2>1, <2>2
    <3>3. observers'[o] = [observers[o] EXCEPT !.signal = TRUE]
      BY <1>1, <3>2
    <3>4. observers'[o] = [observers[o] EXCEPT !.signal = on]
      BY <3>1, <3>3
    <3>5. observers'[o] = [pc |-> pc, cursor |-> cursor, when |-> when, limit |-> limit,
                           signal |-> on, late |-> late, calls |-> calls, last |-> last]
      BY <2>1, <3>4
    <3>6. IsCall(observers'[o])
      BY <3>5, Zenon DEF IsCall
    <3> QED
      BY <3>5, <3>6, <3>1 DEF Waiting
  <2>3. CASE pc \notin {"armed", "quiet", "asleep"}
    <3>1. observers'[o] = observers[o]
      BY <1>1, <2>1, <2>3
    <3> QED
      BY <2>1, <2>3, <3>1 DEF Waiting, WatchInv, ObserversAreCalls
  <2> QED
    BY <2>2, <2>3
<1>3. observers' = [o \in Observers |-> observers'[o]]
  BY <1>1
<1> QED
  BY <1>2, <1>3 DEF WatchInv, ObserversAreCalls, Served

-----------------------------------------------------------------------------
\* An observer's own step: the others are served as before, and it is if its
\* new call is.
LEMMA ObservesKeepsWatch ==
  ASSUME WatchInv, NEW o \in Observers, NEW new, Observes(o, new), IsCall(new),
         Served(new, journal, Finished, owed # {})
  PROVE  WatchInv'
<1>1. /\ observers' = [observers EXCEPT ![o] = new]
      /\ owed' = owed /\ journal' = journal /\ Finished' = Finished
  BY DEF Observes, outVars, ownVars, Finished
<1>2. observers' = [p \in Observers |-> IF p = o THEN new ELSE observers[p]]
  BY <1>1 DEF WatchInv, ObserversAreCalls
<1>3. \A p \in Observers : observers'[p] = IF p = o THEN new ELSE observers[p]
  BY <1>2
<1>4. ObserversAreCalls'
  BY <1>2, <1>3 DEF ObserversAreCalls, WatchInv
<1>5. ASSUME NEW p \in Observers
      PROVE  Served(observers'[p], journal, Finished, owed # {})
  BY <1>3 DEF WatchInv
<1> QED
  BY <1>1, <1>4, <1>5 DEF WatchInv, Served, Answer

\* A call that does not wait for a notification is served.
LEMMA AwakeIsServed ==
  ASSUME NEW call, call.pc \notin {"quiet", "asleep"}
  PROVE  Served(call, journal, Finished, owed # {})
BY DEF Served, Waiting

\* Each step of an observer leaves a call that is served.
LEMMA ObserverKeepsWatch ==
  ASSUME WatchInv, observerStep
  PROVE  WatchInv'
<1>1. PICK o \in Observers : observe(o) \/ looks(o) \/ sleeps(o) \/ wakes(o)
  BY DEF observerStep
<1>2. PICK pc, cursor, when, limit, signal, late, calls, last :
        observers[o] = [pc |-> pc, cursor |-> cursor, when |-> when, limit |-> limit,
                        signal |-> signal, late |-> late, calls |-> calls, last |-> last]
  BY DEF WatchInv, ObserversAreCalls, IsCall
<1>3. CASE observe(o)
  <2>1. PICK more : more = observers[o].calls + 1
    OBVIOUS
  <2>2. PICK w, n : Observes(o, [observers[o] EXCEPT !.pc = "armed", !.when = w, !.limit = n,
                                                     !.calls = more])
    BY <1>3, <2>1 DEF observe
  <2>3. PICK x : x = [observers[o] EXCEPT !.pc = "armed"]
    OBVIOUS
  <2>4. PICK y : y = [x EXCEPT !.when = w]
    OBVIOUS
  <2>5. PICK z : z = [y EXCEPT !.limit = n]
    OBVIOUS
  <2>6. x = [pc |-> "armed", cursor |-> cursor, when |-> when, limit |-> limit,
             signal |-> signal, late |-> late, calls |-> calls, last |-> last]
    BY <1>2, <2>3
  <2>7. y = [pc |-> "armed", cursor |-> cursor, when |-> w, limit |-> limit,
             signal |-> signal, late |-> late, calls |-> calls, last |-> last]
    BY <2>4, <2>6
  <2>8. z = [pc |-> "armed", cursor |-> cursor, when |-> w, limit |-> n,
             signal |-> signal, late |-> late, calls |-> calls, last |-> last]
    BY <2>5, <2>7
  <2>9. PICK new : new = [z EXCEPT !.calls = more]
    OBVIOUS
  <2>10. new = [pc |-> "armed", cursor |-> cursor, when |-> w, limit |-> n,
                signal |-> signal, late |-> late, calls |-> more, last |-> last]
    BY <2>8, <2>9
  <2>11. Observes(o, new)
    BY <2>2, <2>3, <2>4, <2>5, <2>9
  <2>12. IsCall(new)
    BY <2>10, Zenon DEF IsCall
  <2>13. new.pc \notin {"quiet", "asleep"}
    BY <2>10
  <2> QED
    BY <2>11, <2>12, <2>13, AwakeIsServed, ObservesKeepsWatch
<1>4. CASE looks(o)
  <2>1. ASSUME NEW observation, NEW next,
               Observes(o, Answered(o, observation, next))
        PROVE  WatchInv'
    <3>1. PICK c, l :
            /\ c = observers[o].calls
            /\ l = [requested |-> observers[o].cursor.offset, output |-> observation.output,
                    next |-> observation.next, gap |-> observation.gap,
                    has_more |-> observation.has_more, reason |-> observation.reason]
      OBVIOUS
    <3>2. PICK n : n = NoObservation
      OBVIOUS
    <3>3. PICK s : s = NoCursor
      OBVIOUS
    <3>4. Ready = [pc |-> "idle", cursor |-> s, when |-> "activity", limit |-> 0,
                   signal |-> FALSE, late |-> FALSE, calls |-> 0, last |-> n]
      BY <3>2, <3>3 DEF Ready
    <3>5. Answered(o, observation, next)
            = [Ready EXCEPT !.cursor = next, !.calls = c, !.last = l]
      BY <3>1 DEF Answered
    <3> DEFINE new == [pc |-> "idle", cursor |-> next, when |-> "activity", limit |-> 0,
                       signal |-> FALSE, late |-> FALSE, calls |-> c, last |-> l]
    <3>6. Answered(o, observation, next) = new
      BY <3>4, <3>5
    <3>7. IsCall(new)
      BY Zenon DEF IsCall
    <3>8. Observes(o, new)
      BY <2>1, <3>6
    <3>9. new.pc \notin {"quiet", "asleep"}
      OBVIOUS
    <3> HIDE DEF new
    <3> QED
      BY <3>7, <3>8, <3>9, AwakeIsServed, ObservesKeepsWatch
  <2>2. CASE Immediate(o, Seen(o))
    BY <1>4, <2>1, <2>2 DEF looks
  <2>3. CASE ~Immediate(o, Seen(o)) /\ observers[o].late
    BY <1>4, <2>1, <2>3 DEF looks
  <2>4. CASE ~Immediate(o, Seen(o)) /\ ~observers[o].late
    <3>1. Observes(o, [observers[o] EXCEPT !.pc = "quiet"])
      BY <1>4, <2>4 DEF looks
    <3>2. ~Answer(observers[o], journal, Finished)
      BY <2>4, ImmediateIsAnswer
    <3> DEFINE new == [pc |-> "quiet", cursor |-> cursor, when |-> when, limit |-> limit,
                       signal |-> signal, late |-> late, calls |-> calls, last |-> last]
    <3>3. [observers[o] EXCEPT !.pc = "quiet"] = new
      BY <1>2
    <3>4. IsCall(new)
      BY Zenon DEF IsCall
    <3>5. /\ new.cursor = observers[o].cursor /\ new.limit = observers[o].limit
          /\ new.when = observers[o].when
      BY <1>2
    <3>6. Observes(o, new)
      BY <3>1, <3>3
    <3> HIDE DEF new
    <3>7. ~Answer(new, journal, Finished)
      BY <3>2, <3>5 DEF Answer
    <3>8. Served(new, journal, Finished, owed # {})
      BY <3>7 DEF Served
    <3> QED
      BY <3>4, <3>6, <3>8, ObservesKeepsWatch
  <2> QED
    BY <2>2, <2>3, <2>4
<1>5. CASE sleeps(o)
  <2>1. observers[o].pc = "quiet" /\ Observes(o, [observers[o] EXCEPT !.pc = "asleep"])
    BY <1>5 DEF sleeps
  <2> DEFINE new == [pc |-> "asleep", cursor |-> cursor, when |-> when, limit |-> limit,
                     signal |-> signal, late |-> late, calls |-> calls, last |-> last]
  <2>2. [observers[o] EXCEPT !.pc = "asleep"] = new
    BY <1>2
  <2>3. IsCall(new)
    BY Zenon DEF IsCall
  <2>4. /\ new.cursor = observers[o].cursor /\ new.limit = observers[o].limit
        /\ new.when = observers[o].when
        /\ new.signal = observers[o].signal
    BY <1>2
  <2>5. Observes(o, new)
    BY <2>1, <2>2
  <2> HIDE DEF new
  <2>6. Answer(new, journal, Finished) <=> Answer(observers[o], journal, Finished)
    BY <2>4 DEF Answer
  <2>7. Served(observers[o], journal, Finished, owed # {})
    BY DEF WatchInv
  <2>8. Served(new, journal, Finished, owed # {})
    BY <2>1, <2>4, <2>6, <2>7 DEF Served, Waiting
  <2> QED
    BY <2>3, <2>5, <2>8, ObservesKeepsWatch
<1>6. CASE wakes(o)
  <2>1. PICK off \in BOOLEAN : off = FALSE
    OBVIOUS
  <2>2. PICK b : Observes(o, [observers[o] EXCEPT !.pc = "armed", !.signal = off, !.late = b])
    BY <1>6, <2>1 DEF wakes
  <2>3. PICK x : x = [observers[o] EXCEPT !.pc = "armed"]
    OBVIOUS
  <2>4. PICK y : y = [x EXCEPT !.signal = off]
    OBVIOUS
  <2>5. PICK new : new = [y EXCEPT !.late = b]
    OBVIOUS
  <2>6. x = [pc |-> "armed", cursor |-> cursor, when |-> when, limit |-> limit,
             signal |-> signal, late |-> late, calls |-> calls, last |-> last]
    BY <1>2, <2>3
  <2>7. y = [pc |-> "armed", cursor |-> cursor, when |-> when, limit |-> limit,
             signal |-> off, late |-> late, calls |-> calls, last |-> last]
    BY <2>4, <2>6
  <2>8. new = [pc |-> "armed", cursor |-> cursor, when |-> when, limit |-> limit,
               signal |-> off, late |-> b, calls |-> calls, last |-> last]
    BY <2>5, <2>7
  <2>9. Observes(o, new)
    BY <2>2, <2>3, <2>4, <2>5
  <2>10. IsCall(new)
    BY <2>8, Zenon DEF IsCall
  <2>11. new.pc \notin {"quiet", "asleep"}
    BY <2>8
  <2> QED
    BY <2>9, <2>10, <2>11, AwakeIsServed, ObservesKeepsWatch
<1> QED
  BY <1>1, <1>3, <1>4, <1>5, <1>6

-----------------------------------------------------------------------------
\* The tasks and the other callers: each step announces itself or is not seen.
LEMMA OthersKeepWatch ==
  ASSUME WatchInv, ownerStep \/ outputStep \/ stdinStep \/ terminates \/ resize_terminal
  PROVE  WatchInv'
<1>1. CASE ownerStep
  <2>1. CASE launches \/ rootExits
    BY <2>1, AnnouncedKeepsWatch DEF launches, rootExits, Owes
  <2>2. CASE spawnFails \/ finishes
    BY <2>2, AnnouncedKeepsWatch DEF spawnFails, finishes, Finishes, Owes
  <2>3. CASE killsRest
    BY <2>3, UnseenKeepsWatch DEF killsRest, outVars, Finished
  <2>4. CASE drains \/ drainTimesOut
    BY <2>4, UnseenKeepsWatch DEF drains, drainTimesOut, Finished
  <2> QED
    BY <1>1, <2>1, <2>2, <2>3, <2>4 DEF ownerStep
<1>2. CASE outputStep
  <2>1. PICK s \in Streams : childWrites(s) \/ childCloses(s) \/ reads(s) \/ readerEnds(s)
    BY <1>2 DEF outputStep
  <2>2. CASE reads(s)
    <3>1. UNCHANGED observers /\ s \in owed'
      BY <2>2 DEF reads, Owes
    <3> QED
      BY <3>1, AnnouncedKeepsWatch
  <2>3. CASE childWrites(s)
    BY <2>3, UnseenKeepsWatch DEF childWrites, ownVars, Finished
  <2>4. CASE childCloses(s)
    BY <2>4, UnseenKeepsWatch DEF childCloses, ownVars, Finished
  <2>5. CASE readerEnds(s)
    BY <2>5, UnseenKeepsWatch DEF readerEnds, ownVars, Finished
  <2> QED
    BY <2>1, <2>2, <2>3, <2>4, <2>5
<1>3. CASE stdinStep
  <2>1. CASE \E i \in Inputs : write(i)
    BY <2>1, UnseenKeepsWatch DEF write, outVars, ownVars, Finished
  <2>2. CASE close_input
    BY <2>2, UnseenKeepsWatch DEF close_input, outVars, ownVars, Finished
  <2>3. CASE takes
    BY <2>3, UnseenKeepsWatch DEF takes, outVars, ownVars, Finished
  <2>4. CASE puts
    BY <2>4, UnseenKeepsWatch DEF puts, outVars, ownVars, Finished
  <2>5. CASE putFails
    BY <2>5, UnseenKeepsWatch DEF putFails, outVars, ownVars, Finished
  <2>6. CASE writerEnds
    BY <2>6, AnnouncedKeepsWatch DEF writerEnds, Owes
  <2> QED
    BY <1>3, <2>1, <2>2, <2>3, <2>4, <2>5, <2>6 DEF stdinStep
<1>4. CASE terminates
  BY <1>4, AnnouncedKeepsWatch DEF terminates, Owes
<1>5. CASE resize_terminal
  BY <1>5, AnnouncedKeepsWatch DEF resize_terminal, Owes
<1> QED
  BY <1>1, <1>2, <1>3, <1>4, <1>5

\* Every step keeps the invariant.
LEMMA WatchStep == WatchInv /\ [Next]_vars => WatchInv'
<1> SUFFICES ASSUME WatchInv, [Next]_vars PROVE WatchInv'
  OBVIOUS
<1>1. CASE \E who \in Streams \cup {"owner", "writer", "caller"} : notify(who)
  BY <1>1, NotifyKeepsWatch
<1>2. CASE observerStep
  BY <1>2, ObserverKeepsWatch
<1>3. CASE ownerStep \/ outputStep \/ stdinStep \/ terminates \/ resize_terminal
  BY <1>3, OthersKeepWatch
<1>4. CASE UNCHANGED vars
  BY <1>4, UnseenKeepsWatch DEF vars, outVars, ownVars, Finished
<1> QED
  BY <1>1, <1>2, <1>3, <1>4 DEF Next

\* An observer sleeps only while nothing it waits for is there, or somebody who
\* changed something has still to call notify_waiters (observe_session enables
\* the notification before it reads).
THEOREM NoWakeupLost == Spec => []NoLostWakeup
<1>1. WatchInv => NoLostWakeup
  BY ImmediateIsAnswer DEF WatchInv, NoLostWakeup, Served, Waiting
<1> QED
  BY <1>1, WatchInit, WatchStep, PTL DEF Spec

-----------------------------------------------------------------------------
(* Induction, as the absence of a least exception. *)

\* A set of numbers has a least one.
LEMMA Least ==
  ASSUME NEW T \in SUBSET Nat, T # {}
  PROVE  \E n \in T : \A m \in T : n <= m
<1>1. PICK R : R = OpToRel(<, Nat)
  OBVIOUS
<1>2. IsWellFoundedOn(R, Nat)
  BY <1>1, NatLessThanWellFounded
<1>3. PICK n \in T : \A m \in T : <<m, n>> \notin R
  BY <1>2, WFMin
<1>4. \A x, y \in Nat : x < y => <<x, y>> \in R
  BY <1>1 DEF OpToRel
<1>5. n \in Nat /\ \A m \in T : m \in Nat /\ ~(m < n)
  BY <1>3, <1>4
<1>6. \A m \in T : n <= m
  BY <1>5
<1> QED
  BY <1>6

\* What holds of a subset when it holds of the smaller ones holds of all.
LEMMA SubsetInduction ==
  ASSUME NEW U, IsFiniteSet(U), NEW T,
         \A s \in SUBSET U : (\A r \in SUBSET s : r # s => r \in T) => s \in T
  PROVE  SUBSET U \subseteq T
<1> SUFFICES ASSUME ~(SUBSET U \subseteq T) PROVE FALSE
  OBVIOUS
<1>1. \A s \in SUBSET U : IsFiniteSet(s) /\ Cardinality(s) \in Nat
  BY FS_Subset, FS_CardinalityType
<1> DEFINE sizes == {Cardinality(s) : s \in (SUBSET U) \ T}
<1>2. sizes \in SUBSET Nat /\ sizes # {}
  BY <1>1
<1>3. PICK n \in sizes : \A m \in sizes : n <= m
  BY <1>2, Least
<1>4. PICK s \in (SUBSET U) \ T : n = Cardinality(s)
  BY <1>3
<1>5. ASSUME NEW r \in SUBSET s, r # s
      PROVE  r \in T
  <2>1. Cardinality(r) <= Cardinality(s) /\ Cardinality(r) # Cardinality(s)
    BY <1>1, <1>5, FS_Subset
  <2>2. Cardinality(r) \in Nat /\ Cardinality(s) \in Nat
    BY <1>1
  <2>3. Cardinality(r) \notin sizes
    BY <1>3, <1>4, <2>1, <2>2
  <2> QED
    BY <2>3
<1> QED
  BY <1>4, <1>5

-----------------------------------------------------------------------------
(* The sum of the values of f over a finite set, as FoldSet computes it. *)

Pick(s) == CHOOSE x \in s : TRUE

\* g holds the sums over all subsets of U.
IsSum(f, g, U) ==
  g = [s \in SUBSET U |-> IF s = {} THEN 0 ELSE g[s \ {Pick(s)}] + f[Pick(s)]]

Sum(f, U) == FoldSet(LAMBDA x, n : n + f[x], 0, U)

\* The fold is the value of the function that holds the sums.
LEMMA SumIs ==
  ASSUME NEW f, NEW U
  PROVE  Sum(f, U) = (CHOOSE g : IsSum(f, g, U))[U]
BY DEF Sum, FoldSet, MapThenFoldSet, IsSum, Pick

\* What is picked from a set that is not empty is in it.
LEMMA Picked ==
  ASSUME NEW s, s # {}
  PROVE  Pick(s) \in s
BY DEF Pick

\* The sums over a set do not depend on what it is a subset of.
LEMMA SumUnique ==
  ASSUME NEW f, NEW U, IsFiniteSet(U), NEW V, NEW g, NEW h,
         IsSum(f, g, U), IsSum(f, h, V), U \subseteq V
  PROVE  \A s \in SUBSET U : g[s] = h[s]
<1> DEFINE T == {s \in SUBSET U : g[s] = h[s]}
<1>1. ASSUME NEW s \in SUBSET U, \A r \in SUBSET s : r # s => r \in T
      PROVE  s \in T
  <2>1. CASE s = {}
    BY <2>1 DEF IsSum
  <2>2. CASE s # {}
    <3>1. Pick(s) \in s
      BY <2>2, Picked
    <3>2. s \ {Pick(s)} \in T
      BY <1>1, <3>1
    <3>3. /\ g[s] = g[s \ {Pick(s)}] + f[Pick(s)]
          /\ h[s] = h[s \ {Pick(s)}] + f[Pick(s)]
      BY <2>2 DEF IsSum
    <3> QED
      BY <3>2, <3>3
  <2> QED
    BY <2>1, <2>2
<1> HIDE DEF T
<1>2. SUBSET U \subseteq T
  BY <1>1, SubsetInduction
<1> QED
  BY <1>2 DEF T

\* There are such sums.
LEMMA SumExists ==
  ASSUME NEW f, NEW U, IsFiniteSet(U)
  PROVE  \E g : IsSum(f, g, U)
<1> DEFINE T == {s \in SUBSET U : \E g : IsSum(f, g, s)}
<1>1. ASSUME NEW s \in SUBSET U, \A r \in SUBSET s : r # s => r \in T
      PROVE  s \in T
  <2> DEFINE below(r) == (CHOOSE g : IsSum(f, g, r))[r]
  <2> DEFINE h == [r \in SUBSET s |->
                     IF r = s THEN (IF s = {} THEN 0 ELSE below(s \ {Pick(s)}) + f[Pick(s)])
                     ELSE below(r)]
  <2>1. ASSUME NEW r \in SUBSET s, r # s
        PROVE  /\ h[r] = below(r) /\ IsSum(f, CHOOSE g : IsSum(f, g, r), r)
    <3>1. \E g : IsSum(f, g, r)
      BY <1>1, <2>1
    <3> QED
      BY <2>1, <3>1
  <2>2. ASSUME NEW r \in SUBSET s, r # {}
        PROVE  h[r] = h[r \ {Pick(r)}] + f[Pick(r)]
    <3>1. Pick(r) \in r
      BY <2>2, Picked
    <3>2. r \ {Pick(r)} \in SUBSET s /\ r \ {Pick(r)} # s
      BY <3>1
    <3>3. h[r \ {Pick(r)}] = below(r \ {Pick(r)})
      BY <2>1, <3>2
    <3>4. CASE r = s
      BY <2>2, <3>3, <3>4
    <3>5. CASE r # s
      <4>1. PICK q : q = r \ {Pick(r)}
        OBVIOUS
      <4>2. PICK g1 : g1 = CHOOSE g : IsSum(f, g, r)
        OBVIOUS
      <4>3. PICK g2 : g2 = CHOOSE g : IsSum(f, g, q)
        OBVIOUS
      <4>4. IsSum(f, g1, r) /\ h[r] = g1[r]
        BY <2>1, <3>5, <4>2
      <4>5. q \in SUBSET s /\ q # s /\ q \subseteq r
        BY <3>2, <4>1
      <4>6. IsSum(f, g2, q) /\ h[q] = g2[q]
        BY <2>1, <4>3, <4>5
      <4>7. IsFiniteSet(q)
        BY <4>5, FS_Subset
      <4>8. g2[q] = g1[q]
        BY <4>4, <4>5, <4>6, <4>7, SumUnique
      <4>9. g1[r] = g1[q] + f[Pick(r)]
        BY <2>2, <4>1, <4>4 DEF IsSum
      <4> QED
        BY <4>1, <4>4, <4>6, <4>8, <4>9
    <3> QED
      BY <3>4, <3>5
  <2>3. h[{}] = 0
    <3>1. CASE s = {}
      BY <3>1
    <3>2. CASE s # {}
      <4>1. PICK e : e = {}
        OBVIOUS
      <4>2. PICK g1 : g1 = CHOOSE g : IsSum(f, g, e)
        OBVIOUS
      <4>3. IsSum(f, g1, e) /\ h[e] = g1[e]
        BY <2>1, <3>2, <4>1, <4>2
      <4> QED
        BY <4>1, <4>3 DEF IsSum
    <3> QED
      BY <3>1, <3>2
  <2>4. h = [r \in SUBSET s |-> h[r]]
    OBVIOUS
  <2> HIDE DEF h
  <2>5. h = [r \in SUBSET s |-> IF r = {} THEN 0 ELSE h[r \ {Pick(r)}] + f[Pick(r)]]
    BY <2>2, <2>3, <2>4
  <2>6. IsSum(f, h, s)
    BY <2>5 DEF IsSum
  <2> QED
    BY <2>6
<1> HIDE DEF T
<1>2. SUBSET U \subseteq T
  BY <1>1, SubsetInduction
<1>3. U \in T
  BY <1>2
<1> QED
  BY <1>3 DEF T

\* So a sum is that of the others and the one picked,
LEMMA SumStep ==
  ASSUME NEW f, NEW U, IsFiniteSet(U)
  PROVE  Sum(f, U) = IF U = {} THEN 0 ELSE Sum(f, U \ {Pick(U)}) + f[Pick(U)]
<1>1. PICK g : g = CHOOSE h : IsSum(f, h, U)
  OBVIOUS
<1>2. IsSum(f, g, U) /\ Sum(f, U) = g[U]
  BY <1>1, SumExists, SumIs
<1>3. CASE U = {}
  BY <1>2, <1>3 DEF IsSum
<1>4. CASE U # {}
  <2>1. PICK q : q = U \ {Pick(U)}
    OBVIOUS
  <2>2. IsFiniteSet(q) /\ q \subseteq U
    BY <2>1, FS_Subset
  <2>3. PICK k : k = CHOOSE h : IsSum(f, h, q)
    OBVIOUS
  <2>4. IsSum(f, k, q) /\ Sum(f, q) = k[q]
    BY <2>2, <2>3, SumExists, SumIs
  <2>5. k[q] = g[q]
    BY <1>2, <2>2, <2>4, SumUnique
  <2>6. g[U] = g[q] + f[Pick(U)]
    BY <1>2, <1>4, <2>1 DEF IsSum
  <2> QED
    BY <1>2, <1>4, <2>1, <2>4, <2>5, <2>6
<1> QED
  BY <1>3, <1>4

\* or any other one of them.
LEMMA SumTakesAny ==
  ASSUME NEW f, NEW U, IsFiniteSet(U), \A x \in U : f[x] \in Nat
  PROVE  /\ Sum(f, U) \in Nat
         /\ \A x \in U : Sum(f, U) = Sum(f, U \ {x}) + f[x]
<1> DEFINE good(s) == Sum(f, s) \in Nat /\ \A x \in s : Sum(f, s) = Sum(f, s \ {x}) + f[x]
<1> DEFINE T == {s \in SUBSET U : good(s)}
<1>1. ASSUME NEW s \in SUBSET U, \A r \in SUBSET s : r # s => r \in T
      PROVE  s \in T
  <2>1. IsFiniteSet(s)
    BY FS_Subset
  <2>2. CASE s = {}
    <3>1. Sum(f, s) = 0
      BY <2>1, <2>2, SumStep
    <3> QED
      BY <2>2, <3>1
  <2>3. CASE s # {}
    <3>1. PICK p : p = Pick(s)
      OBVIOUS
    <3>2. p \in s /\ f[p] \in Nat
      BY <2>3, <3>1, Picked
    <3>3. Sum(f, s) = Sum(f, s \ {p}) + f[p]
      BY <2>1, <2>3, <3>1, SumStep
    <3>4. s \ {p} \in T
      BY <1>1, <3>2
    <3>5. Sum(f, s \ {p}) \in Nat
      BY <3>4
    <3>6. ASSUME NEW x \in s, x # p
          PROVE  Sum(f, s) = Sum(f, s \ {x}) + f[x]
      <4>1. s \ {x} \in T
        BY <1>1
      <4>2. Sum(f, s \ {p}) = Sum(f, (s \ {p}) \ {x}) + f[x]
        BY <3>4, <3>6
      <4>3. Sum(f, s \ {x}) = Sum(f, (s \ {x}) \ {p}) + f[p]
        BY <3>2, <3>6, <4>1
      <4>4. PICK q : q = (s \ {p}) \ {x}
        OBVIOUS
      <4>5. q = (s \ {x}) \ {p}
        BY <4>4
      <4>6. q \in SUBSET s /\ q # s
        BY <3>2, <4>4
      <4>7. Sum(f, q) \in Nat
        BY <1>1, <4>6
      <4>8. f[x] \in Nat
        BY <3>6
      <4> QED
        BY <3>2, <3>3, <4>2, <4>3, <4>4, <4>5, <4>7, <4>8
    <3>7. good(s)
      BY <3>2, <3>3, <3>5, <3>6
    <3> QED
      BY <3>7
  <2> QED
    BY <2>2, <2>3
<1> HIDE DEF T
<1>2. U \in T
  BY <1>1, SubsetInduction
<1> QED
  BY <1>2 DEF T

\* A part sums up to no more,
LEMMA SumOfPart ==
  ASSUME NEW f, NEW U, IsFiniteSet(U), \A x \in U : f[x] \in Nat, NEW V \in SUBSET U
  PROVE  Sum(f, V) <= Sum(f, U)
<1> DEFINE T == {s \in SUBSET U : V \subseteq s => Sum(f, V) <= Sum(f, s)}
<1>1. ASSUME NEW s \in SUBSET U, \A r \in SUBSET s : r # s => r \in T
      PROVE  s \in T
  <2>1. IsFiniteSet(s) /\ \A x \in s : f[x] \in Nat
    BY FS_Subset
  <2>2. Sum(f, s) \in Nat /\ \A x \in s : Sum(f, s) = Sum(f, s \ {x}) + f[x]
    BY <2>1, SumTakesAny
  <2>3. CASE s = V
    BY <2>2, <2>3
  <2>4. CASE V \subseteq s /\ s # V
    <3>1. PICK x \in s : x \notin V
      BY <2>4
    <3>2. s \ {x} \in T
      BY <1>1
    <3>3. Sum(f, V) <= Sum(f, s \ {x})
      BY <2>4, <3>1, <3>2
    <3>4. IsFiniteSet(V) /\ IsFiniteSet(s \ {x})
      BY <2>1, FS_Subset
    <3>5. Sum(f, V) \in Nat /\ Sum(f, s \ {x}) \in Nat
      BY <3>4, SumTakesAny
    <3>6. Sum(f, V) <= Sum(f, s)
      BY <2>1, <2>2, <3>3, <3>5
    <3> QED
      BY <3>6
  <2> QED
    BY <2>3, <2>4
<1> HIDE DEF T
<1>2. U \in T
  BY <1>1, SubsetInduction
<1> QED
  BY <1>2 DEF T

\* and one more to no more than its value.
LEMMA SumOfOneMore ==
  ASSUME NEW f, NEW U, IsFiniteSet(U), \A x \in U : f[x] \in Nat, NEW y, f[y] \in Nat
  PROVE  Sum(f, U \cup {y}) <= Sum(f, U) + f[y]
<1>1. IsFiniteSet(U \cup {y}) /\ \A x \in U \cup {y} : f[x] \in Nat
  BY FS_AddElement
<1>2. Sum(f, U) \in Nat
  BY SumTakesAny
<1>3. CASE y \in U
  <2>1. U \cup {y} = U
    BY <1>3
  <2> QED
    BY <1>2, <2>1
<1>4. CASE y \notin U
  <2>1. PICK V : V = U \cup {y}
    OBVIOUS
  <2>2. V \ {y} = U /\ y \in V
    BY <1>4, <2>1
  <2>3. Sum(f, V) = Sum(f, V \ {y}) + f[y]
    BY <1>1, <2>1, <2>2, SumTakesAny
  <2>4. Sum(f, V) = Sum(f, U) + f[y]
    BY <2>2, <2>3
  <2> QED
    BY <1>2, <2>1, <2>4
<1> QED
  BY <1>3, <1>4
-----------------------------------------------------------------------------
(* Input. *)

\* The inputs in the order of their acceptance, and the end behind them; and how
\* many of these the writer has taken from its channel.
Line == Append(receipts, "close")
Ahead == Len(written) + (IF writer \in {"writing", "closing"} THEN 1 ELSE 0)

InputType ==
  /\ receipts \in Seq(Inputs) /\ IsInjective(receipts)
  /\ written \in Seq(Inputs \cup {"close"}) /\ queue \in Seq(Inputs \cup {"close"})
  /\ current \subseteq Inputs /\ IsFiniteSet(current)

\* What the child got are the first of the line.
WrittenInLine ==
  /\ Len(written) <= Len(receipts) + 1
  /\ \A k \in 1..Len(written) : written[k] = Line[k]
  /\ stdin = "open" => Ahead <= Len(receipts)

\* The channel holds what comes next, and until the close all there is.
QueueInLine ==
  writer \in {"idle", "writing", "closing"} =>
    /\ Ahead + Len(queue) <= Len(receipts) + 1
    /\ stdin = "open" => Ahead + Len(queue) = Len(receipts)
    /\ \A k \in 1..Len(queue) : queue[k] = Line[Ahead + k]

\* The writer holds the one in between.
WriterInLine ==
  /\ writer \in {"idle", "closing"} => current = {}
  /\ writer = "writing" => Ahead <= Len(receipts) /\ current = {Line[Ahead]}
  /\ writer = "closing" => Ahead = Len(receipts) + 1

\* Nothing is accepted before there is a child.
NewIsEmpty ==
  phase = "new" =>
    /\ writer = "none" /\ ~tx /\ current = {}
    /\ queue = <<>> /\ receipts = <<>> /\ written = <<>>

InputInv == InputType /\ WrittenInLine /\ QueueInLine /\ WriterInLine /\ NewIsEmpty

\* The line, element by element.
LEMMA LineIs ==
  ASSUME InputType
  PROVE  /\ Len(receipts) \in Nat /\ Len(written) \in Nat /\ Len(queue) \in Nat
         /\ \A k \in 1..Len(receipts) : Line[k] = receipts[k] /\ receipts[k] \in Inputs
         /\ Line[Len(receipts) + 1] = "close"
BY DEF InputType, Line

\* A sequence of one.
LEMMA OneInSequence ==
  ASSUME NEW x
  PROVE  SetToSeq({x}) = <<x>>
<1>1. Cardinality({x}) = 1
  BY FS_Singleton
<1>2. \A g \in [1..1 -> {x}] : g = <<x>>
  OBVIOUS
<1>3. <<x>> \in [1..1 -> {x}] /\ IsInjective(<<x>>)
  BY DEF IsInjective
<1>4. SetToSeq({x}) \in [1..1 -> {x}]
  BY <1>1, <1>3 DEF SetToSeq
<1> QED
  BY <1>2, <1>4

\* Nothing of the input changes.
LEMMA UntouchedKeepsInput ==
  ASSUME InputInv, UNCHANGED inVars, phase' = "new" => phase = "new"
  PROVE  InputInv'
BY DEF InputInv, InputType, WrittenInLine, QueueInLine, WriterInLine, NewIsEmpty, Line, Ahead,
       inVars

\* The input is closed from outside: no more of it will come.
LEMMA ClosedKeepsInput ==
  ASSUME InputInv, stdin' = "closed", phase' # "new",
         UNCHANGED <<queue, receipts, written, current>>,
         writer' = writer \/ writer' = "done"
  PROVE  InputInv'
<1>1. queue' = queue /\ receipts' = receipts /\ written' = written /\ current' = current
  OBVIOUS
<1> QED
  BY <1>1 DEF InputInv, InputType, WrittenInLine, QueueInLine, WriterInLine, NewIsEmpty, Line,
     Ahead

\* An input is accepted at the end of the line.
LEMMA WriteKeepsInput ==
  ASSUME InputInv, NEW i \in Inputs, write(i)
  PROVE  InputInv'
<1>1. /\ receipts' = Append(receipts, i) /\ queue' = Append(queue, i)
      /\ i \notin ToSet(receipts) /\ stdin = "open" /\ stdin' = stdin /\ tx /\ phase' = phase
      /\ written' = written /\ writer' = writer /\ current' = current
  BY DEF write, MayWrite, ownVars
<1>2. /\ receipts \in Seq(Inputs) /\ IsInjective(receipts)
      /\ queue \in Seq(Inputs \cup {"close"})
  BY DEF InputInv, InputType
<1>3. /\ Len(receipts) \in Nat /\ Len(written) \in Nat /\ Len(queue) \in Nat
      /\ \A k \in 1..Len(receipts) : Line[k] = receipts[k] /\ receipts[k] \in Inputs
      /\ Line[Len(receipts) + 1] = "close"
  BY LineIs DEF InputInv
<1>4. /\ receipts' \in Seq(Inputs) /\ queue' \in Seq(Inputs \cup {"close"})
      /\ Len(receipts') = Len(receipts) + 1 /\ Len(queue') = Len(queue) + 1
      /\ \A k \in 1..Len(receipts) : receipts'[k] = receipts[k]
      /\ receipts'[Len(receipts) + 1] = i
      /\ \A k \in 1..Len(queue) : queue'[k] = queue[k]
      /\ queue'[Len(queue) + 1] = i
  BY <1>1, <1>2, <1>3
<1>5. \A k \in 1..Len(receipts) : receipts[k] # i
  BY <1>1, <1>2 DEF ToSet
<1>6. IsInjective(receipts')
  <2>1. \A j, k \in 1..Len(receipts) : receipts[j] = receipts[k] => j = k
    BY <1>2, <1>3 DEF IsInjective
  <2>2. DOMAIN receipts' = 1..Len(receipts) + 1
    BY <1>4
  <2>3. ASSUME NEW j \in 1..Len(receipts) + 1, NEW k \in 1..Len(receipts) + 1,
               receipts'[j] = receipts'[k]
        PROVE  j = k
    <3>1. j \in 1..Len(receipts) \/ j = Len(receipts) + 1
      BY <1>3
    <3>2. k \in 1..Len(receipts) \/ k = Len(receipts) + 1
      BY <1>3
    <3> QED
      BY <1>4, <1>5, <2>1, <2>3, <3>1, <3>2
  <2> QED
    BY <2>2, <2>3 DEF IsInjective
<1>7. InputType'
  BY <1>1, <1>4, <1>6 DEF InputInv, InputType
<1>8. /\ \A k \in 1..Len(receipts) + 1 : Line'[k] = receipts'[k]
      /\ \A k \in 1..Len(receipts) : Line'[k] = Line[k]
      /\ Line'[Len(receipts) + 1] = i
  BY <1>3, <1>4 DEF Line
<1>9. Ahead' = Ahead /\ Ahead \in Nat /\ Len(written) <= Ahead
  BY <1>1, <1>3 DEF Ahead
<1>10. Ahead <= Len(receipts)
  BY <1>1 DEF InputInv, WrittenInLine
<1>11. WrittenInLine'
  BY <1>1, <1>3, <1>4, <1>8, <1>9, <1>10 DEF InputInv, WrittenInLine
<1>12. QueueInLine'
  BY <1>1, <1>3, <1>4, <1>8, <1>9, <1>10 DEF InputInv, QueueInLine
<1>13. WriterInLine'
  <2>1. /\ writer \in {"idle", "closing"} => current = {}
        /\ writer = "writing" => current = {Line[Ahead]}
        /\ writer # "closing"
    BY <1>3, <1>9, <1>10 DEF InputInv, WriterInLine
  <2>2. writer = "writing" => Ahead \in 1..Len(receipts)
    BY <1>3, <1>9, <1>10 DEF Ahead
  <2>3. writer = "writing" => Line'[Ahead] = Line[Ahead]
    BY <1>8, <2>2
  <2> QED
    BY <1>1, <1>3, <1>4, <1>9, <1>10, <2>1, <2>3 DEF WriterInLine
<1>14. NewIsEmpty'
  BY <1>1 DEF InputInv, NewIsEmpty
<1> QED
  BY <1>7, <1>11, <1>12, <1>13, <1>14 DEF InputInv

\* The close goes behind what was accepted.
LEMMA CloseKeepsInput ==
  ASSUME InputInv, close_input
  PROVE  InputInv'
<1>1. /\ stdin = "open" /\ stdin' = "closing" /\ tx /\ queue' = Append(queue, "close")
      /\ receipts' = receipts /\ written' = written /\ writer' = writer /\ current' = current
      /\ phase' = phase
  BY DEF close_input, ownVars
<1>2. /\ Len(receipts) \in Nat /\ Len(written) \in Nat /\ Len(queue) \in Nat
      /\ Line[Len(receipts) + 1] = "close"
  BY LineIs DEF InputInv
<1>3. queue \in Seq(Inputs \cup {"close"})
  BY DEF InputInv, InputType
<1>4. /\ queue' \in Seq(Inputs \cup {"close"}) /\ Len(queue') = Len(queue) + 1
      /\ \A k \in 1..Len(queue) : queue'[k] = queue[k]
      /\ queue'[Len(queue) + 1] = "close"
  BY <1>1, <1>2, <1>3
<1>5. Line' = Line /\ Ahead' = Ahead /\ Ahead \in Nat
  BY <1>1, <1>2 DEF Line, Ahead
<1>6. InputType' /\ NewIsEmpty'
  BY <1>1, <1>4 DEF InputInv, InputType, NewIsEmpty
<1>7. WrittenInLine' /\ WriterInLine'
  BY <1>1, <1>5 DEF InputInv, WrittenInLine, WriterInLine
<1>8. QueueInLine'
  <2>1. SUFFICES ASSUME writer \in {"idle", "writing", "closing"}
                 PROVE  /\ Ahead + Len(queue') = Len(receipts) + 1
                        /\ \A k \in 1..Len(queue') : queue'[k] = Line[Ahead + k]
    BY <1>1, <1>5 DEF QueueInLine
  <2>2. /\ Ahead + Len(queue) = Len(receipts)
        /\ \A k \in 1..Len(queue) : queue[k] = Line[Ahead + k]
    BY <1>1, <2>1 DEF InputInv, QueueInLine
  <2>3. Ahead + Len(queue') = Len(receipts) + 1
    BY <1>2, <1>4, <1>5, <2>2
  <2>4. ASSUME NEW k \in 1..Len(queue')
        PROVE  queue'[k] = Line[Ahead + k]
    <3>1. CASE k \in 1..Len(queue)
      BY <1>4, <2>2, <3>1
    <3>2. CASE k = Len(queue) + 1
      <4>1. Ahead + k = Len(receipts) + 1
        BY <1>2, <1>5, <2>2, <3>2
      <4> QED
        BY <1>2, <1>4, <3>2, <4>1
    <3> QED
      BY <1>2, <1>4, <2>4, <3>1, <3>2
  <2> QED
    BY <2>3, <2>4
<1> QED
  BY <1>6, <1>7, <1>8 DEF InputInv

\* The writer takes the first of the queue, which is the next of the line.
LEMMA TakesKeepsInput ==
  ASSUME InputInv, takes
  PROVE  InputInv'
<1>1. /\ writer = "idle" /\ receipts' = receipts /\ written' = written /\ stdin' = stdin
      /\ phase' = phase /\ Line' = Line
  BY DEF takes, ownVars, Line
<1>2. /\ Len(receipts) \in Nat /\ Len(written) \in Nat /\ Len(queue) \in Nat
      /\ \A k \in 1..Len(receipts) : Line[k] = receipts[k] /\ receipts[k] \in Inputs
      /\ Line[Len(receipts) + 1] = "close"
  BY LineIs DEF InputInv
<1>3. /\ queue \in Seq(Inputs \cup {"close"}) /\ phase # "new"
      /\ Ahead = Len(written) /\ current = {}
      /\ Ahead + Len(queue) <= Len(receipts) + 1
      /\ stdin = "open" => Ahead + Len(queue) = Len(receipts)
      /\ \A k \in 1..Len(queue) : queue[k] = Line[Ahead + k]
  BY <1>1 DEF InputInv, InputType, NewIsEmpty, Ahead, QueueInLine, WriterInLine
<1>4. CASE queue = <<>> /\ writer' = "stopping" /\ queue' = queue /\ current' = current
  <2>1. Ahead' = Ahead
    BY <1>1, <1>4 DEF Ahead
  <2> QED
    BY <1>1, <1>3, <1>4, <2>1 DEF InputInv, InputType, WrittenInLine, QueueInLine, WriterInLine,
       NewIsEmpty
<1>5. CASE queue # <<>> /\ queue' = Tail(queue)
  <2>1. /\ Len(queue) >= 1 /\ Len(queue') = Len(queue) - 1
        /\ queue' \in Seq(Inputs \cup {"close"})
        /\ \A k \in 1..Len(queue') : queue'[k] = queue[k + 1]
        /\ Head(queue) = queue[1]
    BY <1>2, <1>3, <1>5
  <2>2. Head(queue) = Line[Ahead + 1]
    BY <1>3, <2>1
  <2>3. Ahead \in Nat /\ Ahead + 1 <= Len(receipts) + 1
    BY <1>2, <1>3, <2>1
  <2>4. writer' = IF Head(queue) = "close" THEN "closing" ELSE "writing"
    BY <1>5 DEF takes
  <2>5. current' = IF Head(queue) = "close" THEN {} ELSE {Head(queue)}
    BY <1>3, <1>5 DEF takes
  <2>6. Ahead' = Ahead + 1
    BY <1>1, <1>3, <2>4 DEF Ahead
  <2>7. Head(queue) = "close" <=> Ahead = Len(receipts)
    BY <1>2, <2>2, <2>3, EndIsNoInput
  <2>8. current' \subseteq Inputs /\ IsFiniteSet(current')
    <3>1. CASE Head(queue) = "close"
      BY <2>5, <3>1, FS_EmptySet
    <3>2. CASE Head(queue) # "close"
      <4>1. Ahead + 1 \in 1..Len(receipts)
        BY <1>2, <2>3, <2>7, <3>2
      <4>2. Head(queue) \in Inputs
        BY <1>2, <2>2, <4>1
      <4> QED
        BY <2>5, <3>2, <4>2, FS_Singleton
    <3> QED
      BY <3>1, <3>2
  <2>9. InputType' /\ NewIsEmpty'
    BY <1>1, <1>3, <2>1, <2>8 DEF InputInv, InputType, NewIsEmpty
  <2>10. WrittenInLine'
    BY <1>1, <1>2, <1>3, <2>1, <2>6 DEF InputInv, WrittenInLine
  <2>11. QueueInLine'
    <3>1. \A k \in 1..Len(queue') : queue'[k] = Line[Ahead + 1 + k]
      BY <1>2, <1>3, <2>1, <2>3
    <3>2. /\ Ahead' + Len(queue') <= Len(receipts) + 1
          /\ stdin = "open" => Ahead' + Len(queue') = Len(receipts)
      <4>1. Ahead' + Len(queue') = Ahead + Len(queue)
        BY <1>2, <2>1, <2>3, <2>6
      <4> QED
        BY <1>3, <4>1
    <3>4. \A k \in 1..Len(queue') : queue'[k] = Line[Ahead' + k]
      <4>1. PICK n : n = Ahead + 1 /\ n = Ahead'
        BY <2>6
      <4>2. \A k \in 1..Len(queue') : queue'[k] = Line[n + k]
        BY <3>1, <4>1
      <4> QED
        BY <4>1, <4>2
    <3>3. receipts' = receipts /\ stdin' = stdin /\ Line' = Line
      BY <1>1
    <3> QED
      BY <3>2, <3>3, <3>4 DEF QueueInLine
  <2>12. WriterInLine'
    BY <1>1, <1>2, <2>2, <2>3, <2>4, <2>5, <2>6, <2>7 DEF WriterInLine
  <2> QED
    BY <2>9, <2>10, <2>11, <2>12 DEF InputInv
<1> QED
  BY <1>4, <1>5 DEF takes

\* The child gets what the writer holds.
LEMMA PutsKeepsInput ==
  ASSUME InputInv, puts
  PROVE  InputInv'
<1>1. /\ receipts' = receipts /\ queue' = queue /\ stdin' = stdin /\ phase' = phase
      /\ Line' = Line
  BY DEF puts, ownVars, Line
<1>2. /\ Len(receipts) \in Nat /\ Len(written) \in Nat /\ Len(queue) \in Nat
      /\ \A k \in 1..Len(receipts) : Line[k] = receipts[k] /\ receipts[k] \in Inputs
      /\ Line[Len(receipts) + 1] = "close"
  BY LineIs DEF InputInv
<1>3. /\ written \in Seq(Inputs \cup {"close"}) /\ writer \in {"writing", "closing"}
      /\ Ahead = Len(written) + 1 /\ phase # "new"
  BY DEF InputInv, InputType, NewIsEmpty, Ahead, puts
<1>4. ASSUME NEW x \in Inputs \cup {"close"}, written' = Append(written, x), x = Line[Ahead],
             current' = {}, Ahead <= Len(receipts) + 1,
             writer' \in {"idle", "stopping"}
      PROVE  InputInv'
  <2>1. /\ written' \in Seq(Inputs \cup {"close"}) /\ Len(written') = Len(written) + 1
        /\ \A k \in 1..Len(written) : written'[k] = written[k]
        /\ written'[Len(written) + 1] = x
    BY <1>2, <1>3, <1>4
  <2>2. Ahead' = Ahead /\ Ahead \in Nat
    BY <1>2, <1>3, <1>4, <2>1 DEF Ahead
  <2>3. InputType' /\ NewIsEmpty'
    BY <1>1, <1>3, <1>4, <2>1, FS_EmptySet DEF InputInv, InputType, NewIsEmpty
  <2>4. WrittenInLine'
    BY <1>1, <1>2, <1>3, <1>4, <2>1, <2>2 DEF InputInv, WrittenInLine
  <2>5. QueueInLine'
    BY <1>1, <1>3, <1>4, <2>2 DEF InputInv, QueueInLine
  <2>6. WriterInLine'
    BY <1>4 DEF WriterInLine
  <2> QED
    BY <2>3, <2>4, <2>5, <2>6 DEF InputInv
<1>5. CASE writer = "writing"
  <2>1. /\ Ahead <= Len(receipts) /\ current = {Line[Ahead]} /\ current' = {}
        /\ writer' = "idle" /\ written' = written \o SetToSeq(current)
    BY <1>5 DEF InputInv, WriterInLine, puts
  <2>2. PICK x : x = Line[Ahead]
    OBVIOUS
  <2>3. x \in Inputs
    BY <1>2, <1>3, <2>1, <2>2
  <2>4. written' = written \o <<x>>
    BY <2>1, <2>2, OneInSequence
  <2>5. written' = Append(written, x)
    BY <1>3, <2>3, <2>4
  <2>6. Ahead <= Len(receipts) + 1
    BY <1>2, <1>3, <2>1
  <2> QED
    BY <1>4, <2>1, <2>2, <2>3, <2>5, <2>6
<1>6. CASE writer = "closing"
  <2>1. /\ Ahead = Len(receipts) + 1 /\ current' = {} /\ writer' = "stopping"
        /\ written' = Append(written, "close")
    BY <1>6 DEF InputInv, WriterInLine, puts
  <2> QED
    BY <1>2, <1>4, <2>1
<1> QED
  BY <1>3, <1>5, <1>6

\* Every step keeps the line in order.
LEMMA InputStep == InputInv /\ [Next]_vars => InputInv'
<1> SUFFICES ASSUME InputInv, [Next]_vars PROVE InputInv'
  OBVIOUS
<1>1. CASE (\E i \in Inputs : write(i)) \/ close_input \/ takes \/ puts
  BY <1>1, WriteKeepsInput, CloseKeepsInput, TakesKeepsInput, PutsKeepsInput
<1>2. CASE putFails
  <2>1. /\ receipts' = receipts /\ written' = written /\ queue' = queue /\ current' = current
        /\ stdin' = stdin /\ phase' = phase /\ writer \in {"writing", "closing"}
        /\ writer' = "failing"
    BY <1>2 DEF putFails, ownVars
  <2>2. Len(written) \in Nat /\ Len(receipts) \in Nat
    BY LineIs DEF InputInv
  <2>3. Ahead' <= Ahead /\ Ahead \in Nat /\ Ahead' \in Nat
    BY <2>1, <2>2 DEF Ahead
  <2> QED
    BY <2>1, <2>2, <2>3 DEF InputInv, InputType, WrittenInLine, QueueInLine, WriterInLine,
       NewIsEmpty, Line
<1>3. CASE writerEnds
  BY <1>3, FS_EmptySet DEF writerEnds, ownVars, InputInv, InputType, WrittenInLine, QueueInLine,
     WriterInLine, NewIsEmpty, Line
<1>4. CASE killsRest
  <2>1. /\ receipts' = receipts /\ written' = written /\ queue' = <<>> /\ current' = {}
        /\ stdin' = stdin /\ phase' = "draining" /\ writer' = "done"
    BY <1>4 DEF killsRest
  <2>2. Len(written) \in Nat /\ Len(receipts) \in Nat
    BY LineIs DEF InputInv
  <2>3. Ahead' <= Ahead /\ Ahead \in Nat /\ Ahead' \in Nat
    BY <2>1, <2>2 DEF Ahead
  <2> QED
    BY <2>1, <2>2, <2>3, FS_EmptySet DEF InputInv, InputType, WrittenInLine, QueueInLine,
       WriterInLine, NewIsEmpty, Line
<1>5. CASE launches
  <2>1. /\ phase = "new" /\ phase' = "running" /\ writer' \in {"idle", "done"}
        /\ UNCHANGED <<stdin, queue, current, receipts, written>>
    BY <1>5 DEF launches
  <2>2. /\ queue = <<>> /\ receipts = <<>> /\ written = <<>> /\ current = {}
    BY <2>1 DEF InputInv, NewIsEmpty
  <2>3. Ahead' = 0 /\ Len(queue') = 0 /\ Len(receipts') = 0 /\ Len(written') = 0
    BY <2>1, <2>2 DEF Ahead
  <2> QED
    BY <2>1, <2>2, <2>3 DEF InputInv, InputType, WrittenInLine, QueueInLine, WriterInLine,
       NewIsEmpty
<1>6. CASE spawnFails \/ rootExits \/ finishes
  BY <1>6, ClosedKeepsInput DEF spawnFails, rootExits, finishes, Finishes
<1>7. CASE drains \/ drainTimesOut \/ terminates \/ resize_terminal
  BY <1>7, UntouchedKeepsInput DEF drains, drainTimesOut, terminates, resize_terminal, ownVars
<1>8. CASE outputStep
  BY <1>8, UntouchedKeepsInput
     DEF outputStep, childWrites, childCloses, reads, readerEnds, ownVars
<1>9. CASE observerStep
  BY <1>9, UntouchedKeepsInput
     DEF observerStep, observe, looks, sleeps, wakes, Observes, ownVars
<1>10. CASE \E who \in Streams \cup {"owner", "writer", "caller"} : notify(who)
  BY <1>10, UntouchedKeepsInput DEF notify, ownVars
<1>11. CASE UNCHANGED vars
  BY <1>11, UntouchedKeepsInput DEF vars, ownVars
<1> QED
  BY <1>1, <1>2, <1>3, <1>4, <1>5, <1>6, <1>7, <1>8, <1>9, <1>10, <1>11
     DEF Next, ownerStep, stdinStep

\* At the start there is no input.
LEMMA InputInit == Init => InputInv
<1> SUFFICES ASSUME Init PROVE InputInv
  OBVIOUS
<1>1. /\ queue = <<>> /\ receipts = <<>> /\ written = <<>> /\ current = {} /\ ~tx
      /\ writer = "none"
  BY DEF Init
<1>2. Len(written) = 0 /\ Len(receipts) = 0 /\ Ahead = 0
  BY <1>1 DEF Ahead
<1>3. InputType
  BY <1>1, FS_EmptySet DEF InputType, IsInjective
<1> QED
  BY <1>1, <1>2, <1>3 DEF InputInv, WrittenInLine, QueueInLine, WriterInLine, NewIsEmpty

-----------------------------------------------------------------------------
(* The bytes on their way to the child. *)

\* The inputs in a channel and those the writer holds.
Held(channel, taken) == ({channel[k] : k \in DOMAIN channel} \ {"close"}) \cup taken

\* Their permits, as InputOnceInOrder counts them.
PermitsInv == Sum(Size, Held(queue, current)) <= QueueCapacity

\* The permits taken are the sum of the sizes of what waits.
LEMMA TakenIsSum == Taken = Sum(Size, Held(queue, current))
BY DEF Taken, Sum, Held, Queued

\* They are inputs, and not more than the channel has places.
LEMMA HeldAreInputs ==
  ASSUME NEW channel \in Seq(Inputs \cup {"close"}),
         NEW taken \in SUBSET Inputs, IsFiniteSet(taken)
  PROVE  /\ Held(channel, taken) \subseteq Inputs /\ IsFiniteSet(Held(channel, taken))
         /\ \A i \in Inputs : Size[i] \in Nat
<1>1. Len(channel) \in Nat /\ DOMAIN channel = 1..Len(channel)
  OBVIOUS
<1> DEFINE all == {channel[k] : k \in 1..Len(channel)}
<1>2. channel \in Surjection(1..Len(channel), all)
  BY DEF Surjection
<1>3. IsFiniteSet(1..Len(channel))
  BY <1>1, FS_Interval
<1>4. IsFiniteSet(all)
  BY <1>2, <1>3, FS_Surjection
<1>5. IsFiniteSet(all \ {"close"}) /\ all \ {"close"} \subseteq Inputs
  BY <1>4, FS_Subset
<1>6. Held(channel, taken) = (all \ {"close"}) \cup taken
  BY <1>1 DEF Held
<1> HIDE DEF all
<1>7. IsFiniteSet(Held(channel, taken)) /\ Held(channel, taken) \subseteq Inputs
  BY <1>5, <1>6, FS_Union
<1>8. \A i \in Inputs : Size[i] \in Nat
  BY SizesAreBytes
<1> QED
  BY <1>7, <1>8

\* Fewer of them hold no more.
LEMMA FewerAreHeld ==
  ASSUME InputType, InputType', PermitsInv,
         Held(queue', current') \subseteq Held(queue, current)
  PROVE  PermitsInv'
<1>1. PICK V, U : V = Held(queue', current') /\ U = Held(queue, current)
  OBVIOUS
<1>2. /\ queue \in Seq(Inputs \cup {"close"}) /\ current \in SUBSET Inputs /\ IsFiniteSet(current)
      /\ queue' \in Seq(Inputs \cup {"close"}) /\ current' \in SUBSET Inputs
      /\ IsFiniteSet(current')
  BY DEF InputType
<1>3. IsFiniteSet(U) /\ U \subseteq Inputs /\ \A i \in Inputs : Size[i] \in Nat
  BY <1>1, <1>2, HeldAreInputs
<1>4. IsFiniteSet(V) /\ V \in SUBSET U
  BY <1>1, <1>2, HeldAreInputs
<1>5. \A i \in U : Size[i] \in Nat
  BY <1>3
<1>6. Sum(Size, V) <= Sum(Size, U)
  BY <1>3, <1>4, <1>5, SumOfPart
<1>7. Sum(Size, U) \in Nat
  BY <1>3, <1>5, SumTakesAny
<1>8. \A i \in V : Size[i] \in Nat
  BY <1>4, <1>5
<1>9. Sum(Size, V) \in Nat
  BY <1>4, <1>8, SumTakesAny
<1> QED
  BY <1>1, <1>6, <1>7, <1>9, SizesAreBytes DEF PermitsInv

\* An input that is accepted takes permits that are free.
LEMMA WriteKeepsPermits ==
  ASSUME InputType, PermitsInv, NEW i \in Inputs, write(i)
  PROVE  PermitsInv'
<1>1. /\ queue' = Append(queue, i) /\ current' = current /\ Taken + Size[i] <= QueueCapacity
  BY DEF write, MayWrite
<1>2. /\ queue \in Seq(Inputs \cup {"close"}) /\ current \in SUBSET Inputs /\ IsFiniteSet(current)
  BY DEF InputType
<1>3. PICK U : U = Held(queue, current)
  OBVIOUS
<1>4. Held(queue', current') = U \cup {i}
  <2>1. /\ DOMAIN queue = 1..Len(queue) /\ DOMAIN queue' = 1..Len(queue) + 1
        /\ Len(queue) \in Nat
        /\ \A k \in 1..Len(queue) : queue'[k] = queue[k]
        /\ queue'[Len(queue) + 1] = i
    BY <1>1, <1>2
  <2>2. {queue'[k] : k \in DOMAIN queue'} = {queue[k] : k \in DOMAIN queue} \cup {i}
    <3>1. \A k \in DOMAIN queue' : k \in DOMAIN queue \/ k = Len(queue) + 1
      BY <2>1
    <3>2. \A k \in DOMAIN queue : k \in DOMAIN queue'
      BY <2>1
    <3>3. Len(queue) + 1 \in DOMAIN queue'
      BY <2>1
    <3> QED
      BY <2>1, <3>1, <3>2, <3>3
  <2>3. i # "close"
    BY EndIsNoInput
  <2> QED
    BY <1>1, <1>3, <2>2, <2>3 DEF Held
<1>5. IsFiniteSet(U) /\ U \subseteq Inputs /\ \A j \in Inputs : Size[j] \in Nat
  BY <1>2, <1>3, HeldAreInputs
<1>6. \A j \in U : Size[j] \in Nat
  BY <1>5
<1>7. Size[i] \in Nat /\ Sum(Size, U) \in Nat
  BY <1>5, <1>6, SumTakesAny
<1>8. Sum(Size, U \cup {i}) <= Sum(Size, U) + Size[i]
  BY <1>5, <1>6, <1>7, SumOfOneMore
<1>9. Sum(Size, U \cup {i}) \in Nat
  <2>1. PICK W : W = U \cup {i}
    OBVIOUS
  <2>2. IsFiniteSet(W) /\ \A j \in W : Size[j] \in Nat
    BY <1>5, <1>6, <1>7, <2>1, FS_AddElement
  <2> QED
    BY <2>1, <2>2, SumTakesAny
<1>10. Sum(Size, U) + Size[i] <= QueueCapacity
  BY <1>1, <1>3, TakenIsSum
<1> QED
  BY <1>4, <1>7, <1>8, <1>9, <1>10, SizesAreBytes DEF PermitsInv

\* Every other step takes none.
LEMMA PermitsStep ==
  ASSUME InputInv, InputInv', PermitsInv, [Next]_vars
  PROVE  PermitsInv'
<1>1. InputType /\ InputType'
  BY DEF InputInv
<1>2. CASE \E i \in Inputs : write(i)
  BY <1>1, <1>2, WriteKeepsPermits
<1>3. ASSUME current' = current, queue' = Append(queue, "close")
      PROVE  PermitsInv'
  <2>1. Held(queue', current') \subseteq Held(queue, current)
    BY <1>1, <1>3 DEF Held, InputType
  <2> QED
    BY <1>1, <2>1, FewerAreHeld
<1>4. ASSUME queue' = queue \/ queue' = <<>>, current' \subseteq current
      PROVE  PermitsInv'
  <2>1. Held(queue', current') \subseteq Held(queue, current)
    BY <1>4 DEF Held
  <2> QED
    BY <1>1, <2>1, FewerAreHeld
<1>5. CASE takes
  <2>1. CASE queue' = queue /\ current' = current
    BY <1>4, <2>1
  <2>2. CASE queue # <<>> /\ queue' = Tail(queue)
    <3>1. /\ queue \in Seq(Inputs \cup {"close"})
          /\ current' = current \/ (Head(queue) # "close" /\ current' = {Head(queue)})
      BY <1>1, <1>5, <2>2 DEF takes, InputType
    <3>2. /\ Len(queue) \in Nat /\ Len(queue) >= 1 /\ DOMAIN queue = 1..Len(queue)
          /\ DOMAIN queue' = 1..Len(queue) - 1
          /\ \A k \in DOMAIN queue' : queue'[k] = queue[k + 1]
          /\ Head(queue) = queue[1]
      BY <2>2, <3>1
    <3>3. \A k \in DOMAIN queue' : k + 1 \in DOMAIN queue
      BY <3>2
    <3>4. 1 \in DOMAIN queue
      BY <3>2
    <3>5. Held(queue', current') \subseteq Held(queue, current)
      BY <3>1, <3>2, <3>3, <3>4 DEF Held
    <3> QED
      BY <1>1, <3>5, FewerAreHeld
  <2> QED
    BY <1>5, <2>1, <2>2 DEF takes
<1>6. CASE close_input
  BY <1>3, <1>6 DEF close_input
<1>7. CASE puts \/ putFails \/ writerEnds
  BY <1>4, <1>7 DEF puts, putFails, writerEnds
<1>8. CASE ownerStep
  BY <1>4, <1>8 DEF ownerStep, launches, spawnFails, rootExits, killsRest, drains, drainTimesOut,
     finishes, Finishes, inVars
<1>9. CASE outputStep
  BY <1>4, <1>9 DEF outputStep, childWrites, childCloses, reads, readerEnds, inVars
<1>10. CASE observerStep
  BY <1>4, <1>10 DEF observerStep, observe, looks, sleeps, wakes, Observes, inVars
<1>11. CASE terminates \/ resize_terminal
  BY <1>4, <1>11 DEF terminates, resize_terminal, inVars
<1>12. CASE \E who \in Streams \cup {"owner", "writer", "caller"} : notify(who)
  BY <1>4, <1>12 DEF notify, inVars
<1>13. CASE UNCHANGED vars
  BY <1>4, <1>13 DEF vars, inVars
<1> QED
  BY <1>2, <1>5, <1>6, <1>7, <1>8, <1>9, <1>10, <1>11, <1>12, <1>13 DEF Next, stdinStep

\* At the start nothing waits.
LEMMA PermitsInit == Init => PermitsInv
<1> SUFFICES ASSUME Init PROVE PermitsInv
  OBVIOUS
<1>1. Held(queue, current) = {}
  BY DEF Init, Held
<1>2. Sum(Size, {}) = 0
  <2>1. PICK e : e = {}
    OBVIOUS
  <2>2. Sum(Size, e) = 0
    BY <2>1, SumStep, FS_EmptySet
  <2> QED
    BY <2>1, <2>2
<1> QED
  BY <1>1, <1>2, SizesAreBytes DEF PermitsInv

\* The child gets the inputs once each and in the order of their acceptance, the
\* end of input behind all of them, and what waits for it is bounded by the
\* queue (Session::write, close_input, write_input).
THEOREM InputAlwaysInOrder == Spec => []InputOnceInOrder
<1>1. ASSUME InputInv, PermitsInv
      PROVE  InputOnceInOrder
  <2>1. /\ receipts \in Seq(Inputs) /\ IsInjective(receipts)
        /\ written \in Seq(Inputs \cup {"close"})
    BY <1>1 DEF InputInv, InputType
  <2>2. /\ Len(written) <= Len(receipts) + 1
        /\ \A k \in 1..Len(written) : written[k] = Line[k]
    BY <1>1 DEF InputInv, WrittenInLine
  <2>3. Line \in Seq(Inputs \cup {"close"}) /\ Len(Line) = Len(receipts) + 1
    BY <2>1 DEF Line
  <2>4. PICK line, n : line = Line /\ n = Len(written)
    OBVIOUS
  <2>5. SubSeq(written, 1, n) = SubSeq(line, 1, n)
    BY <2>1, <2>2, <2>3, <2>4
  <2>6. IsPrefix(written, Line)
    BY <2>2, <2>3, <2>4, <2>5 DEF IsPrefix
  <2>7. Taken <= QueueCapacity
    BY <1>1, TakenIsSum DEF PermitsInv
  <2> QED
    BY <2>1, <2>6, <2>7 DEF InputOnceInOrder, Line
<1>2. Init => InputInv /\ PermitsInv
  BY InputInit, PermitsInit
<1>3. InputInv /\ PermitsInv /\ [Next]_vars => (InputInv /\ PermitsInv)'
  BY InputStep, PermitsStep
<1> QED
  BY <1>1, <1>2, <1>3, PTL DEF Spec

-----------------------------------------------------------------------------
(* Output.  The chunks of a store are laid end to end: chunk k is the bytes  *)
(* from s[k] up to s[k + 1].                                                 *)

Span(a, b) == [k \in 1..b - a |-> a + k - 1]

Laid(chunks, n, s) ==
  /\ n \in Nat /\ s \in [1..n + 1 -> Nat]
  /\ \A j, k \in 1..n + 1 : j < k => s[j] < s[k]
  /\ chunks = [k \in 1..n |-> [stream |-> chunks[k].stream, data |-> Span(s[k], s[k + 1])]]

\* Each chunk is of the stream its bytes came from.
Sourced(chunks, n, s, source) ==
  \A k \in 1..n : \A x \in Nat : s[k] <= x /\ x < s[k + 1] => source[x + 1] = chunks[k].stream

\* Induction over the numbers.
LEMMA NatSetInduction ==
  ASSUME NEW T, 0 \in T, \A n \in Nat : n \in T => n + 1 \in T
  PROVE  Nat \subseteq T
<1> SUFFICES ASSUME ~(Nat \subseteq T) PROVE FALSE
  OBVIOUS
<1>1. Nat \ T \in SUBSET Nat /\ Nat \ T # {}
  OBVIOUS
<1>2. PICK n \in Nat \ T : \A m \in Nat \ T : n <= m
  BY <1>1, Least
<1>3. n # 0 /\ n - 1 \in Nat /\ n - 1 \in T
  BY <1>2
<1> QED
  BY <1>2, <1>3

\* The least and the greatest of a set of numbers up to n.
LEMMA MinMax ==
  ASSUME NEW n \in Nat, NEW S \in SUBSET (0..n), S # {}
  PROVE  /\ Min(S) \in S /\ \A x \in S : Min(S) <= x
         /\ Max(S) \in S /\ \A x \in S : x <= Max(S)
<1>1. S \in SUBSET Nat
  OBVIOUS
<1>2. \E x \in S : \A y \in S : x <= y
  BY <1>1, Least
<1> DEFINE T == {m \in Nat : n - m \in S}
<1>3. T \in SUBSET Nat /\ T # {}
  <2>1. PICK x \in S : TRUE
    OBVIOUS
  <2>2. n - x \in Nat /\ n - (n - x) = x
    BY <2>1
  <2> QED
    BY <2>2
<1>4. PICK m \in T : \A y \in T : m <= y
  BY <1>3, Least
<1>5. n - m \in S /\ m \in Nat
  BY <1>4
<1>6. ASSUME NEW y \in S
      PROVE  n - m >= y
  <2>1. n - y \in Nat /\ n - (n - y) = y
    OBVIOUS
  <2>2. n - y \in T
    BY <2>1
  <2> QED
    BY <1>4, <1>5, <2>1, <2>2
<1>7. \E x \in S : \A y \in S : x >= y
  BY <1>5, <1>6
<1>8. Min(S) \in S /\ \A x \in S : Min(S) <= x
  BY <1>2 DEF Min
<1>9. Max(S) \in S /\ \A x \in S : Max(S) >= x
  BY <1>7 DEF Max
<1> QED
  BY <1>1, <1>8, <1>9

\* The lesser and the greater of two numbers.
LEMMA MinMaxOfTwo ==
  ASSUME NEW a \in Int, NEW b \in Int
  PROVE  /\ Min({a, b}) = IF a <= b THEN a ELSE b
         /\ Max({a, b}) = IF a >= b THEN a ELSE b
<1>1. \E x \in {a, b} : \A y \in {a, b} : x <= y
  OBVIOUS
<1>2. \E x \in {a, b} : \A y \in {a, b} : x >= y
  OBVIOUS
<1>3. Min({a, b}) \in {a, b} /\ \A y \in {a, b} : Min({a, b}) <= y
  BY <1>1 DEF Min
<1>4. Max({a, b}) \in {a, b} /\ \A y \in {a, b} : Max({a, b}) >= y
  BY <1>2 DEF Max
<1> QED
  BY <1>3, <1>4

\* A span is the sequence of its positions.
LEMMA SpanIs ==
  ASSUME NEW a \in Nat, NEW b \in Nat, a <= b
  PROVE  /\ Span(a, b) \in Seq(Nat) /\ Len(Span(a, b)) = b - a
         /\ \A k \in 1..b - a : Span(a, b)[k] = a + k - 1
<1>1. b - a \in Nat /\ \A k \in 1..b - a : a + k - 1 \in Nat
  OBVIOUS
<1>2. PICK n : n = b - a
  OBVIOUS
<1>3. Span(a, b) \in [1..n -> Nat] /\ n \in Nat
  BY <1>1, <1>2 DEF Span
<1>4. Span(a, b) \in Seq(Nat) /\ Len(Span(a, b)) = n
  BY <1>3
<1> QED
  BY <1>2, <1>4 DEF Span

\* Two spans that meet are one.
LEMMA SpanConcat ==
  ASSUME NEW a \in Nat, NEW b \in Nat, NEW c \in Nat, a <= b, b <= c
  PROVE  Span(a, b) \o Span(b, c) = Span(a, c)
<1>1. PICK x : x = Span(a, b)
  OBVIOUS
<1>2. PICK y : y = Span(b, c)
  OBVIOUS
<1>3. PICK z : z = Span(a, c)
  OBVIOUS
<1>4. x \in Seq(Nat) /\ Len(x) = b - a /\ \A k \in 1..b - a : x[k] = a + k - 1
  BY <1>1, SpanIs
<1>5. y \in Seq(Nat) /\ Len(y) = c - b /\ \A k \in 1..c - b : y[k] = b + k - 1
  BY <1>2, SpanIs
<1>6. z \in Seq(Nat) /\ Len(z) = c - a /\ \A k \in 1..c - a : z[k] = a + k - 1
  <2>1. a <= c
    OBVIOUS
  <2> QED
    BY <1>3, <2>1, SpanIs
<1>7. /\ x \o y \in Seq(Nat) /\ Len(x \o y) = Len(x) + Len(y)
      /\ \A k \in 1..Len(x) + Len(y) :
           (x \o y)[k] = IF k <= Len(x) THEN x[k] ELSE y[k - Len(x)]
  BY <1>4, <1>5, ConcatProperties
<1>8. Len(x \o y) = Len(z)
  BY <1>4, <1>5, <1>6, <1>7
<1>9. ASSUME NEW k \in 1..Len(z)
      PROVE  (x \o y)[k] = z[k]
  <2>1. k \in 1..c - a
    BY <1>6
  <2>2. CASE k <= b - a
    <3>1. k \in 1..b - a
      BY <2>1, <2>2
    <3>2. (x \o y)[k] = x[k]
      BY <1>4, <1>7, <1>8, <2>2
    <3> QED
      BY <1>4, <1>6, <2>1, <3>1, <3>2
  <2>3. CASE ~(k <= b - a)
    <3>1. PICK m : m = k - (b - a)
      OBVIOUS
    <3>2. m \in 1..c - b /\ b + m - 1 = a + k - 1
      BY <2>1, <2>3, <3>1
    <3>3. (x \o y)[k] = y[m]
      BY <1>4, <1>7, <1>8, <2>3, <3>1
    <3>4. y[m] = b + m - 1
      BY <1>5, <3>2
    <3> QED
      BY <1>6, <2>1, <3>2, <3>3, <3>4
  <2> QED
    BY <2>2, <2>3
<1>10. x \o y = z
  <2>1. PICK w : w = x \o y
    OBVIOUS
  <2>2. w = z
    BY <1>6, <1>7, <1>8, <1>9, <2>1, SeqEqual
  <2> QED
    BY <2>1, <2>2
<1> QED
  BY <1>1, <1>2, <1>3, <1>10

\* What chunks laid end to end hold.
LEMMA BytesOfLaid ==
  ASSUME NEW chunks, NEW n, NEW s, Laid(chunks, n, s)
  PROVE  Bytes(chunks) = Span(s[1], s[n + 1])
<1>1. /\ n \in Nat /\ s \in [1..n + 1 -> Nat]
      /\ \A j, k \in 1..n + 1 : j <= k => s[j] <= s[k]
      /\ DOMAIN chunks = 1..n
      /\ \A k \in 1..n : chunks[k].data = Span(s[k], s[k + 1])
  <2>1. \A j, k \in 1..n + 1 : j < k => s[j] < s[k]
    BY DEF Laid
  <2>2. n \in Nat /\ s \in [1..n + 1 -> Nat]
    BY DEF Laid
  <2>3. ASSUME NEW j \in 1..n + 1, NEW k \in 1..n + 1, j <= k
        PROVE  s[j] <= s[k]
    BY <2>1, <2>2, <2>3
  <2> QED
    BY <2>2, <2>3 DEF Laid
<1>2. PICK d : d = [k \in DOMAIN chunks |-> chunks[k].data]
  OBVIOUS
<1>3. d = [k \in 1..n |-> Span(s[k], s[k + 1])]
  BY <1>1, <1>2
<1>4. ASSUME NEW k \in 1..n
      PROVE  Span(s[k], s[k + 1]) \in Seq(Nat)
  <2>1. k + 1 \in 1..n + 1 /\ k \in 1..n + 1
    BY <1>1
  <2>2. s[k] \in Nat /\ s[k + 1] \in Nat /\ s[k] <= s[k + 1]
    BY <1>1, <2>1
  <2> QED
    BY <2>2, SpanIs
<1>5. d \in Seq(Seq(Nat)) /\ Len(d) = n /\ \A k \in 1..n : d[k] = Span(s[k], s[k + 1])
  <2>1. d \in [1..n -> Seq(Nat)]
    BY <1>3, <1>4
  <2> QED
    BY <1>1, <1>3, <2>1
<1>6. Bytes(chunks) = FlattenSeq(d)
  BY <1>2 DEF Bytes
<1>7. CASE n = 0
  <2>1. FlattenSeq(d) = d
    BY <1>5, <1>7 DEF FlattenSeq
  <2>2. s[1] \in Nat /\ s[n + 1] = s[1]
    BY <1>1, <1>7
  <2>3. Span(s[1], s[n + 1]) = <<>>
    BY <2>2 DEF Span
  <2>4. d = <<>>
    BY <1>5, <1>7
  <2> QED
    BY <1>6, <2>1, <2>3, <2>4
<1>8. CASE n # 0
  <2> DEFINE Flat(f) == f = [i \in 1..n |-> IF i = 1 THEN d[i] ELSE f[i - 1] \o d[i]]
  <2>1. FlattenSeq(d) = (CHOOSE f : Flat(f))[n]
    BY <1>5, <1>8 DEF FlattenSeq
  <2>2. \E f : Flat(f)
    <3> DEFINE g == [i \in 1..n |-> Span(s[1], s[i + 1])]
    <3>1. ASSUME NEW i \in 1..n
          PROVE  g[i] = IF i = 1 THEN d[i] ELSE g[i - 1] \o d[i]
      <4>1. CASE i = 1
        BY <1>5, <4>1
      <4>2. CASE i # 1
        <5>1. i - 1 \in 1..n /\ g[i - 1] = Span(s[1], s[i])
          BY <1>1, <4>2
        <5>2. /\ s[1] \in Nat /\ s[i] \in Nat /\ s[i + 1] \in Nat
              /\ s[1] <= s[i] /\ s[i] <= s[i + 1]
          BY <1>1
        <5>3. Span(s[1], s[i]) \o Span(s[i], s[i + 1]) = Span(s[1], s[i + 1])
          BY <5>2, SpanConcat
        <5> QED
          BY <1>5, <4>2, <5>1, <5>3
      <4> QED
        BY <4>1, <4>2
    <3>2. g = [i \in 1..n |-> g[i]]
      OBVIOUS
    <3> HIDE DEF g
    <3>3. Flat(g)
      BY <3>1, <3>2
    <3> QED
      BY <3>3
  <2>3. PICK f : f = CHOOSE g : Flat(g)
    OBVIOUS
  <2>4. Flat(f)
    BY <2>2, <2>3
  <2> DEFINE T == {i \in Nat : i \in 1..n => f[i] = Span(s[1], s[i + 1])}
  <2>5. 0 \in T
    OBVIOUS
  <2>6. ASSUME NEW i \in Nat, i \in T
        PROVE  i + 1 \in T
    <3>1. CASE i + 1 \in 1..n
      <4>1. CASE i = 0
        <5>1. 1 \in 1..n
          BY <3>1, <4>1
        <5>2. f[1] = d[1]
          BY <2>4, <5>1
        <5>3. d[1] = Span(s[1], s[1 + 1])
          BY <1>5, <5>1
        <5> QED
          BY <4>1, <5>2, <5>3
      <4>2. CASE i # 0
        <5>1. i \in 1..n /\ f[i] = Span(s[1], s[i + 1])
          <6>1. n \in Nat
            BY <1>1
          <6>2. i \in 1..n
            BY <3>1, <4>2, <6>1
          <6> QED
            BY <2>6, <6>2
        <5>2. f[i + 1] = f[i] \o d[i + 1]
          <6>1. PICK m : m = i + 1
            OBVIOUS
          <6>2. m \in 1..n /\ m # 1 /\ m - 1 = i
            BY <3>1, <4>2, <6>1
          <6>3. f[m] = f[m - 1] \o d[m]
            BY <2>4, <6>2
          <6> QED
            BY <6>1, <6>2, <6>3
        <5>3. PICK m : m = i + 1
          OBVIOUS
        <5>4. /\ s[1] \in Nat /\ s[m] \in Nat /\ s[m + 1] \in Nat
              /\ s[1] <= s[m] /\ s[m] <= s[m + 1]
          BY <1>1, <3>1, <5>3
        <5>5. Span(s[1], s[m]) \o Span(s[m], s[m + 1]) = Span(s[1], s[m + 1])
          BY <5>4, SpanConcat
        <5> QED
          <6>1. d[m] = Span(s[m], s[m + 1])
            BY <1>5, <3>1, <5>3
          <6>2. f[m] = f[i] \o d[m] /\ f[i] = Span(s[1], s[m])
            BY <5>1, <5>2, <5>3
          <6>3. f[m] = Span(s[1], s[m + 1])
            BY <5>5, <6>1, <6>2
          <6> QED
            BY <5>3, <6>3
      <4> QED
        BY <4>1, <4>2
    <3>2. CASE i + 1 \notin 1..n
      BY <3>2
    <3> QED
      BY <3>1, <3>2
  <2> HIDE DEF T
  <2>7. n \in T
    BY <1>1, <2>5, <2>6, NatSetInduction
  <2>8. f[n] = Span(s[1], s[n + 1])
    BY <1>1, <1>8, <2>7 DEF T
  <2> QED
    BY <1>6, <2>1, <2>3, <2>8
<1> QED
  BY <1>7, <1>8

\* A chunk behind the others.
LEMMA AppendLaid ==
  ASSUME NEW chunks, NEW n, NEW s, Laid(chunks, n, s), NEW m \in Nat \ {0}, NEW stream
  PROVE  LET more == Append(chunks, Chunk(stream, Span(s[n + 1], s[n + 1] + m)))
             t == [k \in 1..n + 2 |-> IF k = n + 2 THEN s[n + 1] + m ELSE s[k]]
         IN  /\ Laid(more, n + 1, t)
             /\ \A source : Sourced(chunks, n, s, source)
                             /\ (\A x \in Nat : s[n + 1] <= x /\ x < s[n + 1] + m
                                   => source[x + 1] = stream)
                             => Sourced(more, n + 1, t, source)
<1>1. /\ n \in Nat /\ s \in [1..n + 1 -> Nat]
      /\ \A j, k \in 1..n + 1 : j < k => s[j] < s[k]
      /\ chunks = [k \in 1..n |-> [stream |-> chunks[k].stream, data |-> Span(s[k], s[k + 1])]]
  BY DEF Laid
<1>2. PICK b : b = s[n + 1] /\ b \in Nat
  BY <1>1
<1>3. PICK c : c = [stream |-> stream, data |-> Span(b, b + m)]
  OBVIOUS
<1>4. PICK more : more = Append(chunks, c)
  OBVIOUS
<1>5. PICK t : t = [k \in 1..n + 2 |-> IF k = n + 2 THEN b + m ELSE s[k]]
  OBVIOUS
<1>6. t \in [1..(n + 1) + 1 -> Nat]
  <2>1. \A k \in 1..n + 2 : k # n + 2 => k \in 1..n + 1
    BY <1>1
  <2>2. (n + 1) + 1 = n + 2
    BY <1>1
  <2> QED
    BY <1>1, <1>2, <1>5, <2>1, <2>2
<1>7. /\ \A k \in 1..n + 1 : t[k] = s[k]
      /\ t[n + 2] = b + m /\ t[n + 1] = b
  BY <1>1, <1>2, <1>5
<1>8. ASSUME NEW j \in 1..n + 2, NEW k \in 1..n + 2, j < k
      PROVE  t[j] < t[k]
  <2> n \in Nat
    BY <1>1
  <2>1. j \in 1..n + 1 /\ (k \in 1..n + 1 \/ k = n + 2)
    BY <1>8
  <2>2. CASE k \in 1..n + 1
    BY <1>1, <1>7, <1>8, <2>1, <2>2
  <2>3. CASE k = n + 2
    <3>1. s[j] <= b
      <4>1. CASE j = n + 1
        BY <1>2, <4>1
      <4>2. CASE j # n + 1
        <5>1. n + 1 \in 1..n + 1 /\ j < n + 1
          BY <1>1, <2>1, <4>2
        <5>2. s[j] < s[n + 1]
          BY <1>1, <2>1, <5>1
        <5> QED
          BY <1>1, <1>2, <2>1, <5>2
      <4> QED
        BY <4>1, <4>2
    <3>2. s[j] \in Nat /\ t[j] = s[j]
      BY <1>1, <1>7, <2>1
    <3> QED
      BY <1>2, <1>7, <2>3, <3>1, <3>2
  <2> QED
    BY <2>1, <2>2, <2>3
<1>9. PICK S : S = {chunks[k] : k \in 1..n} \cup {c}
  OBVIOUS
<1>10. chunks \in Seq(S) /\ Len(chunks) = n /\ c \in S
  <2>1. chunks \in [1..n -> S]
    BY <1>1, <1>9
  <2> QED
    BY <1>1, <1>9, <2>1
<1>11. /\ more \in Seq(S) /\ Len(more) = n + 1
       /\ \A k \in 1..n : more[k] = chunks[k]
       /\ more[n + 1] = c
  BY <1>1, <1>4, <1>10, AppendProperties
<1>12. DOMAIN more = 1..n + 1 /\ more = [k \in 1..n + 1 |-> more[k]]
  BY <1>1, <1>11
<1>13. ASSUME NEW k \in 1..n + 1
       PROVE  more[k] = [stream |-> more[k].stream, data |-> Span(t[k], t[k + 1])]
  <2>1. CASE k \in 1..n
    <3>1. k + 1 \in 1..n + 1
      BY <1>1, <2>1
    <3>2. chunks[k] = [stream |-> chunks[k].stream, data |-> Span(s[k], s[k + 1])]
      BY <1>1, <2>1
    <3> QED
      BY <1>7, <1>11, <2>1, <3>1, <3>2
  <2>2. CASE k = n + 1
    <3>1. k + 1 = n + 2
      BY <1>1, <2>2
    <3> QED
      BY <1>3, <1>7, <1>11, <2>2, <3>1
  <2> QED
    BY <1>1, <2>1, <2>2
<1>14. more = [k \in 1..n + 1 |->
                 [stream |-> more[k].stream, data |-> Span(t[k], t[k + 1])]]
  BY <1>12, <1>13
<1>15. Laid(more, n + 1, t)
  <2>1. n + 1 \in Nat /\ (n + 1) + 1 = n + 2
    BY <1>1
  <2> QED
    BY <1>6, <1>8, <1>14, <2>1 DEF Laid
<1>16. ASSUME NEW source, Sourced(chunks, n, s, source),
              \A x \in Nat : b <= x /\ x < b + m => source[x + 1] = stream
       PROVE  Sourced(more, n + 1, t, source)
  <2>1. ASSUME NEW k \in 1..n + 1, NEW x \in Nat, t[k] <= x, x < t[k + 1]
        PROVE  source[x + 1] = more[k].stream
    <3>1. CASE k \in 1..n
      <4>1. k + 1 \in 1..n + 1
        BY <1>1, <3>1
      <4>2. s[k] <= x /\ x < s[k + 1]
        BY <1>7, <2>1, <4>1
      <4> QED
        BY <1>11, <1>16, <3>1, <4>2 DEF Sourced
    <3>2. CASE k = n + 1
      <4>1. k + 1 = n + 2
        BY <1>1, <3>2
      <4>2. b <= x /\ x < b + m
        BY <1>7, <2>1, <3>2, <4>1
      <4>3. more[k].stream = stream
        BY <1>3, <1>11, <3>2
      <4> QED
        BY <1>16, <4>2, <4>3
    <3> QED
      BY <1>1, <3>1, <3>2
  <2> QED
    BY <2>1 DEF Sourced
<1> QED
  BY <1>2, <1>3, <1>4, <1>5, <1>15, <1>16 DEF Chunk

\* The positions, and what the chunks are.
LEMMA LaidIs ==
  ASSUME NEW chunks, NEW n, NEW s, Laid(chunks, n, s)
  PROVE  /\ n \in Nat /\ \A k \in 1..n + 1 : s[k] \in Nat
         /\ \A j, k \in 1..n + 1 : j < k => s[j] < s[k]
         /\ \A j, k \in 1..n + 1 : j <= k => s[j] <= s[k]
         /\ DOMAIN chunks = 1..n /\ Len(chunks) = n
         /\ \A k \in 1..n : chunks[k] = [stream |-> chunks[k].stream, data |-> Span(s[k], s[k + 1])]
<1>1. /\ n \in Nat /\ \A k \in 1..n + 1 : s[k] \in Nat
      /\ \A j, k \in 1..n + 1 : j < k => s[j] < s[k]
  BY DEF Laid
<1>2. ASSUME NEW j \in 1..n + 1, NEW k \in 1..n + 1, j <= k
      PROVE  s[j] <= s[k]
  <2>1. CASE j = k
    BY <1>1, <2>1
  <2>2. CASE j < k
    <3>1. s[j] < s[k] /\ s[j] \in Nat /\ s[k] \in Nat
      BY <1>1, <2>2
    <3> QED
      BY <3>1
  <2> QED
    BY <1>1, <1>2, <2>1, <2>2
<1>3. chunks = [k \in 1..n |-> [stream |-> chunks[k].stream, data |-> Span(s[k], s[k + 1])]]
  BY DEF Laid
<1>4. DOMAIN chunks = 1..n
  BY <1>3
<1>5. Len(chunks) = n
  <2>1. PICK S : S = {chunks[k] : k \in 1..n}
    OBVIOUS
  <2>2. chunks \in [1..n -> S]
    BY <1>3, <2>1
  <2> QED
    BY <1>1, <2>2
<1>6. \A k \in 1..n : chunks[k] = [stream |-> chunks[k].stream, data |-> Span(s[k], s[k + 1])]
  BY <1>3
<1> QED
  BY <1>1, <1>2, <1>4, <1>5, <1>6

\* A part of the bytes, cut out of the chunks f to l that meet it.
PartIs(part, chunks, s, f, l, a, b) ==
  part = [m \in 1..l - f + 1 |->
           [stream |-> chunks[f + m - 1].stream,
            data |-> Span(IF s[f + m - 1] <= a THEN a ELSE s[f + m - 1],
                          IF s[f + m] <= b THEN s[f + m] ELSE b)]]

\* Such a part is laid from a to b.
LEMMA PartLaid ==
  ASSUME NEW chunks, NEW n, NEW s, Laid(chunks, n, s),
         NEW f \in 1..n, NEW l \in 1..n, f <= l,
         NEW a \in Nat, NEW b \in Nat, s[f] <= a, a < s[f + 1], s[l] < b, b <= s[l + 1], a < b,
         NEW part, PartIs(part, chunks, s, f, l, a, b)
  PROVE  \E q, t : /\ Laid(part, q, t) /\ t[1] = a /\ t[q + 1] = b
                /\ \A source : Sourced(chunks, n, s, source) => Sourced(part, q, t, source)
<1>1. /\ n \in Nat /\ \A k \in 1..n + 1 : s[k] \in Nat
      /\ \A j, k \in 1..n + 1 : j < k => s[j] < s[k]
      /\ \A j, k \in 1..n + 1 : j <= k => s[j] <= s[k]
  BY LaidIs
<1> DEFINE t == [m \in 1..l - f + 2 |-> IF m = 1 THEN a ELSE IF m = l - f + 2 THEN b
                                        ELSE s[f + m - 1]]
<1> n \in Nat /\ f \in Nat /\ l \in Nat
  BY <1>1
<1>2. \A m \in 2..l - f + 1 : f + m - 1 \in 1..n + 1 /\ f + 1 <= f + m - 1 /\ f + m - 1 <= l
  OBVIOUS
<1>3. f + 1 \in 1..n + 1 /\ l \in 1..n + 1 /\ l - f + 2 >= 2
  OBVIOUS
<1>4. /\ t[1] = a /\ t[l - f + 2] = b
      /\ \A m \in 2..l - f + 1 : t[m] = s[f + m - 1]
  BY <1>3
<1>5. \A m \in 2..l - f + 1 : s[f + m - 1] \in Nat /\ a < s[f + m - 1] /\ s[f + m - 1] < b
  <2>1. ASSUME NEW m \in 2..l - f + 1
        PROVE  s[f + m - 1] \in Nat /\ a < s[f + m - 1] /\ s[f + m - 1] < b
    <3>1. PICK k : k = f + m - 1
      OBVIOUS
    <3>2. k \in 1..n + 1 /\ f + 1 <= k /\ k <= l
      BY <1>2, <3>1
    <3>3. s[f + 1] <= s[k] /\ s[k] <= s[l]
      BY <1>1, <1>3, <3>2
    <3>4. s[k] \in Nat /\ s[f + 1] \in Nat /\ s[l] \in Nat
      BY <1>1, <1>3, <3>2
    <3>5. a < s[k] /\ s[k] < b
      BY <3>3, <3>4
    <3> QED
      BY <3>1, <3>4, <3>5
  <2> QED
    BY <2>1
<1>6. \A m \in 1..l - f + 2 : m = 1 \/ m = l - f + 2 \/ m \in 2..l - f + 1
  OBVIOUS
<1>7. t = [m \in 1..l - f + 2 |-> t[m]] /\ \A m \in 1..l - f + 2 : t[m] \in Nat
  BY <1>4, <1>5, <1>6
<1> HIDE DEF t
<1>8. ASSUME NEW j \in 1..l - f + 2, NEW k \in 1..l - f + 2, j < k
      PROVE  t[j] < t[k]
  <2>1. (j = 1 \/ j \in 2..l - f + 1) /\ (k = l - f + 2 \/ k \in 2..l - f + 1)
    BY <1>8
  <2>2. CASE j \in 2..l - f + 1 /\ k \in 2..l - f + 1
    <3>1. PICK x, y : x = f + j - 1 /\ y = f + k - 1
      OBVIOUS
    <3>2. x \in 1..n + 1 /\ y \in 1..n + 1 /\ x < y
      BY <1>2, <1>8, <2>2, <3>1
    <3>3. s[x] < s[y]
      BY <1>1, <3>2
    <3> QED
      BY <1>4, <2>2, <3>1, <3>3
  <2> QED
    BY <1>4, <1>5, <2>1, <2>2
<1>9. ASSUME NEW m \in 1..l - f + 1
      PROVE  part[m] = [stream |-> part[m].stream, data |-> Span(t[m], t[m + 1])]
  <2>1. part[m] = [stream |-> chunks[f + m - 1].stream,
                   data |-> Span(IF s[f + m - 1] <= a THEN a ELSE s[f + m - 1],
                                 IF s[f + m] <= b THEN s[f + m] ELSE b)]
    BY DEF PartIs
  <2>2. (IF s[f + m - 1] <= a THEN a ELSE s[f + m - 1]) = t[m]
    <3>1. CASE m = 1
      <4>1. f + m - 1 = f
        BY <3>1
      <4> QED
        BY <1>4, <3>1, <4>1
    <3>2. CASE m # 1
      <4>1. m \in 2..l - f + 1
        BY <3>2
      <4>2. ~(s[f + m - 1] <= a)
        <5>1. PICK y : y = s[f + m - 1]
          OBVIOUS
        <5>2. y \in Nat /\ a < y
          BY <1>5, <4>1, <5>1
        <5>3. ~(y <= a)
          BY <5>2
        <5> QED
          BY <5>1, <5>3
      <4> QED
        BY <1>4, <4>1, <4>2
    <3> QED
      BY <3>1, <3>2
  <2>3. (IF s[f + m] <= b THEN s[f + m] ELSE b) = t[m + 1]
    <3>1. CASE m = l - f + 1
      <4>1. f + m = l + 1 /\ m + 1 = l - f + 2
        BY <3>1
      <4>2. s[l + 1] \in Nat
        BY <1>1
      <4>3. (IF s[l + 1] <= b THEN s[l + 1] ELSE b) = b
        BY <4>2
      <4> QED
        BY <1>4, <4>1, <4>3
    <3>2. CASE m # l - f + 1
      <4>1. PICK k : k = m + 1
        OBVIOUS
      <4>2. k \in 2..l - f + 1 /\ f + k - 1 = f + m
        BY <3>2, <4>1
      <4>3. t[k] = s[f + m] /\ s[f + m] < b /\ s[f + m] \in Nat
        <5>1. t[k] = s[f + k - 1] /\ s[f + k - 1] < b /\ s[f + k - 1] \in Nat
          BY <1>4, <1>5, <4>2
        <5> QED
          BY <4>2, <5>1
      <4> QED
        BY <4>1, <4>3
    <3> QED
      BY <3>1, <3>2
  <2> QED
    BY <2>1, <2>2, <2>3
<1>10. Laid(part, l - f + 1, t)
  <2>1. PICK c : c = l - f + 1
    OBVIOUS
  <2>2. c \in Nat /\ c + 1 = l - f + 2
    BY <2>1
  <2>3. t \in [1..c + 1 -> Nat] /\ \A j, k \in 1..c + 1 : j < k => t[j] < t[k]
    BY <1>7, <1>8, <2>2
  <2>4. part = [m \in 1..c |-> part[m]]
    BY <2>1 DEF PartIs
  <2>5. \A m \in 1..c : part[m] = [stream |-> part[m].stream, data |-> Span(t[m], t[m + 1])]
    BY <1>9, <2>1
  <2>6. part = [m \in 1..c |-> [stream |-> part[m].stream, data |-> Span(t[m], t[m + 1])]]
    BY <2>4, <2>5
  <2>7. Laid(part, c, t)
    BY <2>2, <2>3, <2>6 DEF Laid
  <2> QED
    BY <2>1, <2>7
<1>11. ASSUME NEW source, Sourced(chunks, n, s, source)
       PROVE  Sourced(part, l - f + 1, t, source)
  <2>1. ASSUME NEW m \in 1..l - f + 1, NEW x \in Nat, t[m] <= x, x < t[m + 1]
        PROVE  source[x + 1] = part[m].stream
    <3>1. PICK k : k = f + m - 1
      OBVIOUS
    <3>2. k \in 1..n /\ k \in 1..n + 1 /\ k + 1 \in 1..n + 1 /\ k + 1 = f + m
      BY <3>1
    <3>3. part[m].stream = chunks[k].stream
      BY <3>1 DEF PartIs
    <3>4. s[k] <= t[m]
      <4>1. CASE m = 1
        BY <1>4, <3>1, <4>1
      <4>2. CASE m # 1
        <5>1. m \in 2..l - f + 1
          BY <4>2
        <5> QED
          BY <1>1, <1>4, <3>1, <3>2, <5>1
      <4> QED
        BY <4>1, <4>2
    <3>5. t[m + 1] <= s[k + 1]
      <4>1. CASE m = l - f + 1
        <5>1. k + 1 = l + 1 /\ m + 1 = l - f + 2
          BY <3>1, <4>1
        <5> QED
          BY <1>4, <5>1
      <4>2. CASE m # l - f + 1
        <5>1. m + 1 \in 2..l - f + 1 /\ f + (m + 1) - 1 = k + 1
          BY <3>1, <4>2
        <5>2. t[m + 1] = s[k + 1]
          <6>1. PICK h : h = m + 1
            OBVIOUS
          <6>2. t[h] = s[f + h - 1]
            BY <1>4, <5>1, <6>1
          <6> QED
            BY <5>1, <6>1, <6>2
        <5> QED
          BY <1>1, <3>2, <5>2
      <4> QED
        BY <4>1, <4>2
    <3>6. s[k] \in Nat /\ s[k + 1] \in Nat /\ t[m] \in Nat /\ t[m + 1] \in Nat
      <4>1. PICK h : h = m + 1
        OBVIOUS
      <4>2. m \in 1..l - f + 2 /\ h \in 1..l - f + 2
        BY <4>1
      <4>3. t[m] \in Nat /\ t[h] \in Nat
        BY <1>7, <4>2
      <4>4. s[k] \in Nat
        BY <1>1, <3>2
      <4>5. PICK j : j = k + 1
        OBVIOUS
      <4>6. s[j] \in Nat
        BY <1>1, <3>2, <4>5
      <4> QED
        BY <4>1, <4>3, <4>4, <4>5, <4>6
    <3>7. s[k] <= x /\ x < s[k + 1]
      <4>1. PICK u, v, y, z : u = s[k] /\ v = s[k + 1] /\ y = t[m] /\ z = t[m + 1]
        OBVIOUS
      <4>2. u \in Nat /\ v \in Nat /\ y \in Nat /\ z \in Nat
        BY <3>6, <4>1
      <4>3. u <= y /\ y <= x /\ x < z /\ z <= v
        BY <2>1, <3>4, <3>5, <4>1
      <4>4. u <= x /\ x < v
        BY <4>2, <4>3
      <4> QED
        BY <4>1, <4>4
    <3> QED
      BY <1>11, <3>2, <3>3, <3>7 DEF Sourced
  <2> QED
    BY <2>1 DEF Sourced
<1>12. PICK q : q = l - f + 1
  OBVIOUS
<1>13. l - f + 2 = q + 1
  BY <1>12
<1> QED
  BY <1>4, <1>10, <1>11, <1>12, <1>13

\* A part of a sequence.
Piece(bytes, i, j) == SubSeq(bytes, i, j)

\* A part of a stretch of bytes.
LEMMA SpanPart ==
  ASSUME NEW a \in Nat, NEW b \in Nat, NEW x \in Nat, NEW y \in Nat, a <= x, x <= y, y <= b,
         NEW i \in Int, NEW j \in Int, i = x - a + 1, j = y - a
  PROVE  Piece(Span(a, b), i, j) = Span(x, y)
<1>1. PICK whole : whole = Span(a, b)
  OBVIOUS
<1>2. PICK part : part = Span(x, y)
  OBVIOUS
<1>3. \A k \in 1..b - a : whole[k] = a + k - 1
  <2>1. a <= b
    OBVIOUS
  <2> QED
    BY <1>1, <2>1, SpanIs
<1>4. part \in Seq(Nat) /\ Len(part) = y - x /\ \A k \in 1..y - x : part[k] = x + k - 1
  BY <1>2, SpanIs
<1>5. i = x - a + 1 /\ j = y - a
  OBVIOUS
<1>6. ASSUME NEW k \in i..j
      PROVE  whole[k] \in Nat
  BY <1>3, <1>5
<1>7. PICK sub : sub = SubSeq(whole, i, j)
  OBVIOUS
<1>8. /\ sub \in Seq(Nat) /\ Len(sub) = (IF i <= j THEN j - i + 1 ELSE 0)
      /\ \A k \in 1..j - i + 1 : sub[k] = whole[i + k - 1]
  BY <1>6, <1>7, SubSeqProperties
<1>9. Len(sub) = y - x /\ j - i + 1 = y - x
  <2>1. j - i + 1 = y - x /\ (i <= j \/ y - x = 0)
    BY <1>5
  <2>2. Len(sub) = (IF i <= j THEN j - i + 1 ELSE 0)
    BY <1>8
  <2> QED
    BY <2>1, <2>2
<1>10. ASSUME NEW k \in 1..y - x
       PROVE  sub[k] = part[k]
  <2>1. i + k - 1 \in 1..b - a /\ a + (i + k - 1) - 1 = x + k - 1
    BY <1>5
  <2>2. PICK h : h = i + k - 1
    OBVIOUS
  <2>3. whole[h] = a + h - 1
    BY <1>3, <2>1, <2>2
  <2> QED
    BY <1>4, <1>8, <1>9, <2>1, <2>2, <2>3
<1>11. sub = part
  BY <1>4, <1>8, <1>9, <1>10
<1> QED
  BY <1>1, <1>2, <1>7, <1>11 DEF Piece

\* The bytes behind chunk k.
LEMMA BytesBehind ==
  ASSUME NEW chunks, NEW n, NEW s, Laid(chunks, n, s), NEW k \in 0..n
  PROVE  Len(Bytes(SubSeq(chunks, k + 1, Len(chunks)))) = s[n + 1] - s[k + 1]
<1>1. /\ n \in Nat /\ \A j \in 1..n + 1 : s[j] \in Nat
      /\ \A i, j \in 1..n + 1 : i < j => s[i] < s[j]
      /\ \A i, j \in 1..n + 1 : i <= j => s[i] <= s[j]
      /\ Len(chunks) = n
      /\ \A j \in 1..n : chunks[j] = [stream |-> chunks[j].stream, data |-> Span(s[j], s[j + 1])]
  BY LaidIs
<1>2. PICK S : S = {chunks[j] : j \in 1..n}
  OBVIOUS
<1>3. PICK rest : rest = SubSeq(chunks, k + 1, n)
  OBVIOUS
<1>4. k + 1 \in Int /\ n \in Int /\ \A j \in k + 1..n : chunks[j] \in S
  BY <1>1, <1>2
<1>5. /\ rest \in Seq(S) /\ Len(rest) = (IF k + 1 <= n THEN n - (k + 1) + 1 ELSE 0)
      /\ \A j \in 1..n - (k + 1) + 1 : rest[j] = chunks[(k + 1) + j - 1]
  BY <1>3, <1>4, SubSeqProperties
<1>6. PICK m : m = n - k
  OBVIOUS
<1>7. m \in Nat /\ Len(rest) = m /\ n - (k + 1) + 1 = m
  BY <1>1, <1>5, <1>6
<1> DEFINE t == [j \in 1..m + 1 |-> s[k + j]]
<1>8. ASSUME NEW j \in 1..m + 1
      PROVE  k + j \in 1..n + 1
  BY <1>1, <1>6
<1>9. t \in [1..m + 1 -> Nat]
  BY <1>1, <1>8
<1>10. ASSUME NEW i \in 1..m + 1, NEW j \in 1..m + 1, i < j
       PROVE  t[i] < t[j]
  <2>1. PICK x, y : x = k + i /\ y = k + j
    OBVIOUS
  <2>2. x \in 1..n + 1 /\ y \in 1..n + 1 /\ x < y
    BY <1>1, <1>8, <1>10, <2>1
  <2>3. s[x] < s[y]
    BY <1>1, <2>2
  <2> QED
    BY <2>1, <2>3
<1>11. ASSUME NEW j \in 1..m
       PROVE  rest[j] = [stream |-> rest[j].stream, data |-> Span(t[j], t[j + 1])]
  <2>1. PICK h : h = k + j
    OBVIOUS
  <2>2. h \in 1..n /\ h = (k + 1) + j - 1 /\ h + 1 = k + (j + 1) /\ j + 1 \in 1..m + 1 /\ j \in 1..m + 1
    BY <1>1, <1>6, <2>1
  <2>3. rest[j] = chunks[h]
    BY <1>5, <1>7, <2>2
  <2>4. t[j] = s[h] /\ t[j + 1] = s[h + 1]
    BY <2>1, <2>2
  <2>5. chunks[h] = [stream |-> chunks[h].stream, data |-> Span(s[h], s[h + 1])]
    BY <1>1, <2>2
  <2> QED
    BY <2>3, <2>4, <2>5
<1> HIDE DEF t
<1>12. rest = [j \in 1..m |-> rest[j]]
  BY <1>5, <1>7
<1>13. rest = [j \in 1..m |-> [stream |-> rest[j].stream, data |-> Span(t[j], t[j + 1])]]
  BY <1>11, <1>12
<1>14. Laid(rest, m, t)
  BY <1>7, <1>9, <1>10, <1>13 DEF Laid
<1>15. Bytes(rest) = Span(t[1], t[m + 1])
  BY <1>14, BytesOfLaid
<1>16. t[1] = s[k + 1] /\ t[m + 1] = s[n + 1]
  <2>1. 1 \in 1..m + 1 /\ m + 1 \in 1..m + 1 /\ k + (m + 1) = n + 1
    BY <1>1, <1>6, <1>7
  <2> QED
    BY <2>1 DEF t
<1>17. PICK u, v : u = s[k + 1] /\ v = s[n + 1]
  OBVIOUS
<1>18. u \in Nat /\ v \in Nat /\ u <= v
  <2>1. PICK h : h = k + 1
    OBVIOUS
  <2>2. h \in 1..n + 1 /\ n + 1 \in 1..n + 1 /\ h <= n + 1
    BY <1>1, <2>1
  <2> QED
    BY <1>1, <1>17, <2>1, <2>2
<1>19. Len(Span(u, v)) = v - u
  BY <1>18, SpanIs
<1> QED
  BY <1>1, <1>3, <1>15, <1>16, <1>17, <1>19

-----------------------------------------------------------------------------
(* Stretches of output, which the journal and the spool keep and cut. *)

\* The chunks are the bytes from a up to b, each of the stream it came from.
Stretch(chunks, a, b, source) ==
  \E n, s : Laid(chunks, n, s) /\ s[1] = a /\ s[n + 1] = b /\ Sourced(chunks, n, s, source)

\* No chunk at all is the empty stretch at any position.
LEMMA NothingLaid ==
  ASSUME NEW a \in Nat
  PROVE  \A source : Stretch(<<>>, a, a, source)
<1> DEFINE s == [k \in 1..1 |-> a]
<1>1. s \in [1..0 + 1 -> Nat] /\ s[1] = a /\ s[0 + 1] = a
  OBVIOUS
<1>2. \A j, k \in 1..0 + 1 : j < k => s[j] < s[k]
  OBVIOUS
<1>3. <<>> = [k \in 1..0 |-> [stream |-> (<<>>)[k].stream, data |-> Span(s[k], s[k + 1])]]
  OBVIOUS
<1>4. Laid(<<>>, 0, s)
  BY <1>1, <1>2, <1>3 DEF Laid
<1>5. ASSUME NEW source
      PROVE  Sourced(<<>>, 0, s, source)
  BY DEF Sourced
<1> HIDE DEF s
<1> QED
  BY <1>1, <1>4, <1>5 DEF Stretch

\* What is left of the chunks is the last count bytes.
LEMMA KeptLaid ==
  ASSUME NEW chunks, NEW a, NEW b, NEW source, Stretch(chunks, a, b, source),
         NEW count \in Nat, count <= b - a
  PROVE  Stretch(KeptChunks(chunks, count), b - count, b, source)
<1>1. PICK n, s : Laid(chunks, n, s) /\ s[1] = a /\ s[n + 1] = b /\ Sourced(chunks, n, s, source)
  BY DEF Stretch
<1>2. /\ n \in Nat /\ \A j \in 1..n + 1 : s[j] \in Nat
      /\ \A i, j \in 1..n + 1 : i < j => s[i] < s[j]
      /\ \A i, j \in 1..n + 1 : i <= j => s[i] <= s[j]
      /\ DOMAIN chunks = 1..n /\ Len(chunks) = n
      /\ \A j \in 1..n : chunks[j] = [stream |-> chunks[j].stream, data |-> Span(s[j], s[j + 1])]
  BY <1>1, LaidIs
<1>3. a \in Nat /\ b \in Nat
  <2>1. 1 \in 1..n + 1 /\ n + 1 \in 1..n + 1
    BY <1>2
  <2> QED
    BY <1>1, <1>2, <2>1
<1>4. PICK c : c = b - count
  OBVIOUS
<1>5. c \in Nat /\ a <= c /\ c <= b
  BY <1>3, <1>4
<1> DEFINE before(k) == Len(Bytes(SubSeq(chunks, k + 1, Len(chunks))))
           room(k) == count - before(k)
           first == Min({Len(chunks) + 1} \cup {k \in DOMAIN chunks : room(k) > 0})
           kept(k) == IF room(k) >= Len(chunks[k].data) THEN chunks[k]
                      ELSE [chunks[k] EXCEPT !.data =
                              SubSeq(@, Len(@) - room(k) + 1, Len(@))]
<1>6. KeptChunks(chunks, count) = [m \in 1..Len(chunks) - first + 1 |-> kept(first + m - 1)]
  BY DEF KeptChunks
<1>7. ASSUME NEW k \in 1..n
      PROVE  room(k) = s[k + 1] - c
  <2>0. k \in 0..n
    BY <1>2
  <2>1. before(k) = s[n + 1] - s[k + 1]
    BY <1>1, <2>0, BytesBehind
  <2>2. PICK y : y = s[k + 1]
    OBVIOUS
  <2>3. y \in Nat
    <3>1. PICK h : h = k + 1
      OBVIOUS
    <3>2. h \in 1..n + 1
      BY <1>2, <3>1
    <3> QED
      BY <1>2, <2>2, <3>1, <3>2
  <2> HIDE DEF before
  <2> QED
    BY <1>1, <1>3, <1>4, <2>1, <2>2, <2>3
<1>8. ASSUME NEW k \in 1..n
      PROVE  kept(k) = [stream |-> chunks[k].stream,
                        data |-> Span(IF s[k] <= c THEN c ELSE s[k], s[k + 1])] \/ ~(c < s[k + 1])
  <2>1. PICK x, y : x = s[k] /\ y = s[k + 1]
    OBVIOUS
  <2>2. x \in Nat /\ y \in Nat /\ x < y
    <3>1. PICK h : h = k + 1
      OBVIOUS
    <3>2. h \in 1..n + 1 /\ k \in 1..n + 1 /\ k < h
      BY <1>2, <3>1
    <3> QED
      BY <1>2, <2>1, <3>1, <3>2
  <2>3. chunks[k] = [stream |-> chunks[k].stream, data |-> Span(x, y)]
    BY <1>2, <2>1
  <2>4. Len(Span(x, y)) = y - x
    BY <2>2, SpanIs
  <2>5. room(k) = y - c
    BY <1>7, <2>1
  <2> HIDE DEF room
  <2>6. CASE x >= c
    <3>1. room(k) >= Len(chunks[k].data)
      BY <1>5, <2>2, <2>3, <2>4, <2>5, <2>6
    <3>2. kept(k) = chunks[k]
      BY <3>1
    <3>3. (IF x <= c THEN c ELSE x) = x
      BY <1>5, <2>2, <2>6
    <3> QED
      BY <2>1, <2>3, <3>2, <3>3
  <2>7. CASE x < c /\ c < y
    <3>1. ~(room(k) >= Len(chunks[k].data))
      BY <1>5, <2>2, <2>3, <2>4, <2>5, <2>7
    <3>2. kept(k) = [chunks[k] EXCEPT !.data = SubSeq(@, Len(@) - room(k) + 1, Len(@))]
      BY <3>1
    <3>3. Len(Span(x, y)) - room(k) + 1 = c - x + 1
      BY <1>5, <2>2, <2>4, <2>5
    <3>4. SubSeq(Span(x, y), c - x + 1, y - x) = Span(c, y)
      <4>1. x \in Nat /\ y \in Nat /\ c \in Nat /\ x <= c /\ c <= y /\ y <= y
        BY <1>5, <2>2, <2>7
      <4>2. PICK i \in Int, j \in Int : i = c - x + 1 /\ j = y - x
        BY <4>1
      <4>3. Piece(Span(x, y), i, j) = Span(c, y)
        BY <4>1, <4>2, SpanPart
      <4> QED
        BY <4>2, <4>3 DEF Piece
    <3>5. PICK z : z = chunks[k].stream
      OBVIOUS
    <3>6. kept(k) = [stream |-> z, data |-> SubSeq(Span(x, y), c - x + 1, y - x)]
      <4>1. PICK chunk, len : chunk = chunks[k] /\ len = Len(Span(x, y)) - room(k) + 1
        OBVIOUS
      <4>2. chunk = [stream |-> z, data |-> Span(x, y)]
        BY <2>3, <3>5, <4>1
      <4>3. kept(k) = [chunk EXCEPT !.data = SubSeq(@, len, Len(Span(x, y)))]
        <5>1. chunk.data = Span(x, y)
          BY <4>2
        <5> QED
          BY <3>2, <4>1, <5>1
      <4>4. len = c - x + 1 /\ Len(Span(x, y)) = y - x
        BY <2>4, <3>3, <4>1
      <4> QED
        BY <4>2, <4>3, <4>4
    <3>7. (IF x <= c THEN c ELSE x) = c
      BY <1>5, <2>2, <2>7
    <3> QED
      BY <2>1, <3>4, <3>5, <3>6, <3>7
  <2> QED
    BY <1>5, <2>1, <2>2, <2>6, <2>7
<1> DEFINE open == {k \in 1..n : s[k + 1] > c}
<1>9. {k \in DOMAIN chunks : room(k) > 0} = open
  <2>1. ASSUME NEW k \in 1..n
        PROVE  room(k) > 0 <=> s[k + 1] > c
    <3>1. PICK y : y = s[k + 1]
      OBVIOUS
    <3>2. y \in Nat
      <4>1. PICK h : h = k + 1
        OBVIOUS
      <4>2. h \in 1..n + 1
        BY <1>2, <4>1
      <4> QED
        BY <1>2, <3>1, <4>1, <4>2
    <3>3. room(k) = y - c
      BY <1>7, <3>1
    <3> HIDE DEF room
    <3> QED
      BY <1>5, <3>1, <3>2, <3>3
  <2> HIDE DEF room
  <2> QED
    BY <1>2, <2>1
<1> HIDE DEF kept
<1>10. first = Min({n + 1} \cup open)
  BY <1>2, <1>9
<1> HIDE DEF first
<1>11. PICK f : f = first
  OBVIOUS
<1>12. f \in {n + 1} \cup open /\ \A k \in {n + 1} \cup open : f <= k
  <2>1. {n + 1} \cup open \in SUBSET (0..n + 1) /\ {n + 1} \cup open # {} /\ n + 1 \in Nat
    BY <1>2
  <2> HIDE DEF open
  <2> QED
    BY <1>10, <1>11, <2>1, MinMax
<1>13. CASE count = 0
  <2>1. c = b
    BY <1>3, <1>4, <1>13
  <2>2. open = {}
    <3>1. ASSUME NEW k \in open
          PROVE  FALSE
      <4>1. PICK h : h = k + 1
        OBVIOUS
      <4>2. h \in 1..n + 1 /\ n + 1 \in 1..n + 1 /\ h <= n + 1
        BY <1>2, <4>1
      <4>3. s[h] <= s[n + 1] /\ s[h] \in Nat
        BY <1>2, <4>2
      <4> QED
        BY <1>1, <1>3, <2>1, <4>1, <4>3
    <3> QED
      BY <3>1
  <2>3. f = n + 1
    BY <1>12, <2>2
  <2>4. Len(chunks) - first + 1 = 0
    BY <1>2, <1>11, <2>3
  <2>5. KeptChunks(chunks, count) = [m \in 1..0 |-> kept(first + m - 1)]
    BY <1>6, <2>4
  <2>6. [m \in 1..0 |-> kept(first + m - 1)] = <<>>
    OBVIOUS
  <2> QED
    BY <1>4, <1>5, <2>1, <2>5, <2>6, NothingLaid
<1>14. CASE count # 0
  <2>1. c < b /\ n # 0
    <3>1. c < b
      BY <1>3, <1>4, <1>14
    <3>2. n # 0
      BY <1>1, <1>2, <1>3, <1>5, <3>1
    <3> QED
      BY <3>1, <3>2
  <2>2. n \in open
    BY <1>1, <1>2, <2>1
  <2>3. f \in 1..n /\ s[f + 1] > c
    BY <1>2, <1>12, <2>2
  <2>4. s[f] <= c
    <3>1. CASE f = 1
      BY <1>1, <1>5, <3>1
    <3>2. CASE f # 1
      <4>1. PICK g : g = f - 1
        OBVIOUS
      <4>2. g \in 1..n /\ g + 1 = f /\ ~(f <= g)
        BY <1>2, <2>3, <3>2, <4>1
      <4>3. ~(s[f] > c)
        BY <1>12, <4>2
      <4>4. s[f] \in Nat
        <5>1. f \in 1..n + 1
          BY <1>2, <2>3
        <5> QED
          BY <1>2, <5>1
      <4> QED
        BY <1>5, <4>3, <4>4
    <3> QED
      BY <3>1, <3>2
  <2>5. PICK part : part = KeptChunks(chunks, count)
    OBVIOUS
  <2>6. ASSUME NEW m \in 1..n - f + 1
        PROVE  kept(f + m - 1) =
                 [stream |-> chunks[f + m - 1].stream,
                  data |-> Span(IF s[f + m - 1] <= c THEN c ELSE s[f + m - 1],
                                IF s[f + m] <= b THEN s[f + m] ELSE b)]
    <3>1. PICK k : k = f + m - 1
      OBVIOUS
    <3>2. k \in 1..n /\ k + 1 = f + m /\ f <= k
      BY <1>2, <2>3, <3>1
    <3>3. PICK h : h = k + 1
      OBVIOUS
    <3>4. h \in 1..n + 1 /\ n + 1 \in 1..n + 1 /\ h <= n + 1 /\ f + 1 \in 1..n + 1 /\ f + 1 <= h
      BY <1>2, <2>3, <3>2, <3>3
    <3>5. s[h] <= s[n + 1] /\ s[f + 1] <= s[h] /\ s[h] \in Nat /\ s[f + 1] \in Nat
      BY <1>2, <3>4
    <3>6. s[h] <= b /\ c < s[h]
      BY <1>1, <1>3, <1>5, <2>3, <3>5
    <3>7. kept(k) = [stream |-> chunks[k].stream,
                     data |-> Span(IF s[k] <= c THEN c ELSE s[k], s[h])]
      BY <1>8, <3>2, <3>3, <3>6
    <3>8. h = f + m
      BY <3>2, <3>3
    <3>9. (IF s[h] <= b THEN s[h] ELSE b) = s[h]
      BY <3>6
    <3> QED
      BY <3>1, <3>7, <3>8, <3>9
  <2>7. PartIs(part, chunks, s, f, n, c, b)
    <3>1. part = [m \in 1..n - f + 1 |-> kept(f + m - 1)]
      BY <1>2, <1>6, <1>11, <2>5
    <3> QED
      BY <2>6, <3>1 DEF PartIs
  <2>8. n \in 1..n /\ f <= n /\ s[n] < b /\ b <= s[n + 1] /\ c < s[f + 1]
    <3>1. n \in 1..n + 1 /\ n + 1 \in 1..n + 1 /\ n < n + 1 /\ f + 1 \in 1..n + 1
      BY <1>2, <2>1, <2>3
    <3>2. s[n] < s[n + 1]
      BY <1>2, <3>1
    <3> QED
      BY <1>1, <1>2, <1>3, <1>5, <2>1, <2>3, <3>1, <3>2
  <2>9. PICK q, t : /\ Laid(part, q, t) /\ t[1] = c /\ t[q + 1] = b
                    /\ \A src : Sourced(chunks, n, s, src) => Sourced(part, q, t, src)
    <3>1. Laid(chunks, n, s)
      BY <1>1
    <3>2. /\ f \in 1..n /\ n \in 1..n /\ f <= n /\ c \in Nat /\ b \in Nat /\ s[f] <= c
          /\ c < s[f + 1] /\ s[n] < b /\ b <= s[n + 1] /\ c < b
      BY <1>3, <1>5, <2>1, <2>3, <2>4, <2>8
    <3> QED
      BY <2>7, <3>1, <3>2, PartLaid
  <2>11. Stretch(part, c, b, source)
    BY <1>1, <2>9 DEF Stretch
  <2> QED
    BY <1>4, <2>5, <2>11
<1> QED
  BY <1>13, <1>14

\* What lies between two positions of a journal.
LEMMA CutLaid ==
  ASSUME NEW jrnl, NEW source,
         Stretch(jrnl.chunks, jrnl.start, jrnl.end, source),
         NEW begin \in Nat, NEW end \in Nat,
         jrnl.start <= begin, begin <= end, end <= jrnl.end
  PROVE  Stretch(Cut(jrnl, begin, end), begin, end, source)
<1>1. PICK chunks, a, b : chunks = jrnl.chunks /\ a = jrnl.start /\ b = jrnl.end
  OBVIOUS
<1>2. PICK n, s : Laid(chunks, n, s) /\ s[1] = a /\ s[n + 1] = b /\ Sourced(chunks, n, s, source)
  BY <1>1 DEF Stretch
<1>3. /\ n \in Nat /\ \A j \in 1..n + 1 : s[j] \in Nat
      /\ \A i, j \in 1..n + 1 : i < j => s[i] < s[j]
      /\ \A i, j \in 1..n + 1 : i <= j => s[i] <= s[j]
      /\ DOMAIN chunks = 1..n /\ Len(chunks) = n
      /\ \A j \in 1..n : chunks[j] = [stream |-> chunks[j].stream, data |-> Span(s[j], s[j + 1])]
  BY <1>2, LaidIs
<1> n \in Nat
  BY <1>3
<1>4. a \in Nat /\ b \in Nat /\ a <= begin /\ end <= b
  <2>1. 1 \in 1..n + 1 /\ n + 1 \in 1..n + 1
    BY <1>3
  <2> QED
    BY <1>1, <1>2, <1>3, <2>1
<1> DEFINE data(k) == jrnl.chunks[k].data
           from(k) == Max({begin, data(k)[1]})
           to(k) == Min({end, data(k)[1] + Len(data(k))})
           here == {k \in DOMAIN jrnl.chunks : from(k) < to(k)}
           first == Min(here \cup {Len(jrnl.chunks) + 1})
           last == Max(here \cup {0})
           part(k) == [jrnl.chunks[k] EXCEPT
                         !.data = SubSeq(@, from(k) - @[1] + 1, to(k) - @[1])]
<1>5. Cut(jrnl, begin, end) = [m \in 1..last - first + 1 |-> part(first + m - 1)]
  BY DEF Cut
<1>6. ASSUME NEW k \in 1..n
      PROVE  /\ s[k] \in Nat /\ s[k + 1] \in Nat /\ s[k] < s[k + 1]
             /\ from(k) = (IF s[k] <= begin THEN begin ELSE s[k])
             /\ to(k) = (IF s[k + 1] <= end THEN s[k + 1] ELSE end)
             /\ data(k)[1] = s[k]
  <2>1. PICK x, y : x = s[k] /\ y = s[k + 1]
    OBVIOUS
  <2>2. x \in Nat /\ y \in Nat /\ x < y
    <3>1. PICK h : h = k + 1
      OBVIOUS
    <3>2. h \in 1..n + 1 /\ k \in 1..n + 1 /\ k < h
      BY <1>3, <3>1
    <3> QED
      BY <1>3, <2>1, <3>1, <3>2
  <2>3. data(k) = Span(x, y)
    <3>1. PICK chunk : chunk = chunks[k]
      OBVIOUS
    <3>2. chunk = [stream |-> chunk.stream, data |-> Span(x, y)]
      BY <1>3, <2>1, <3>1
    <3>3. chunk.data = Span(x, y)
      BY <3>2
    <3> QED
      BY <1>1, <3>1, <3>3
  <2>4. Len(Span(x, y)) = y - x /\ Span(x, y)[1] = x
    <3>1. x <= y
      BY <2>2
    <3>2. /\ Len(Span(x, y)) = y - x
          /\ \A j \in 1..y - x : Span(x, y)[j] = x + j - 1
      BY <2>2, <3>1, SpanIs
    <3>3. 1 \in 1..y - x /\ x + 1 - 1 = x
      BY <2>2
    <3> QED
      BY <3>2, <3>3
  <2>5. x + Len(Span(x, y)) = y
    BY <2>2, <2>4
  <2>6. from(k) = Max({begin, x}) /\ to(k) = Min({end, y})
    BY <2>3, <2>4, <2>5
  <2>7. Max({begin, x}) = (IF begin >= x THEN begin ELSE x)
    BY <2>2, MinMaxOfTwo
  <2>8. Min({end, y}) = (IF end <= y THEN end ELSE y)
    BY <2>2, MinMaxOfTwo
  <2>9. data(k)[1] = x
    BY <2>3, <2>4
  <2> HIDE DEF from, to, data
  <2>10. from(k) = (IF x <= begin THEN begin ELSE x)
    BY <2>2, <2>6, <2>7
  <2>11. to(k) = (IF y <= end THEN y ELSE end)
    BY <2>2, <2>6, <2>8
  <2> QED
    BY <2>1, <2>2, <2>9, <2>10, <2>11
<1>7. ASSUME NEW k \in 1..n
      PROVE  from(k) < to(k) <=> begin < end /\ begin < s[k + 1] /\ s[k] < end
  <2>1. PICK x, y, u, v : x = s[k] /\ y = s[k + 1] /\ u = from(k) /\ v = to(k)
    OBVIOUS
  <2>2. /\ x \in Nat /\ y \in Nat /\ x < y
        /\ u = (IF x <= begin THEN begin ELSE x) /\ v = (IF y <= end THEN y ELSE end)
    BY <1>6, <2>1
  <2> HIDE DEF from, to
  <2>3. u < v <=> begin < end /\ begin < y /\ x < end
    BY <2>2
  <2> QED
    BY <2>1, <2>3
<1>8. here = {k \in 1..n : begin < end /\ begin < s[k + 1] /\ s[k] < end}
  <2> HIDE DEF from, to
  <2> QED
    BY <1>1, <1>3, <1>7
<1> HIDE DEF here
<1>9. first = Min(here \cup {n + 1}) /\ last = Max(here \cup {0})
  BY <1>1, <1>3
<1> HIDE DEF first, last
<1>10. PICK f, l : f = first /\ l = last
  OBVIOUS
<1>11. /\ f \in here \cup {n + 1} /\ \A k \in here \cup {n + 1} : f <= k
       /\ l \in here \cup {0} /\ \A k \in here \cup {0} : k <= l
  <2>1. /\ here \cup {n + 1} \in SUBSET (0..n + 1) /\ here \cup {n + 1} # {} /\ n + 1 \in Nat
        /\ here \cup {0} \in SUBSET (0..n + 1) /\ here \cup {0} # {}
    BY <1>3, <1>8
  <2>2. f \in here \cup {n + 1} /\ \A k \in here \cup {n + 1} : f <= k
    BY <1>9, <1>10, <2>1, MinMax
  <2>3. l \in here \cup {0} /\ \A k \in here \cup {0} : k <= l
    BY <1>9, <1>10, <2>1, MinMax
  <2> QED
    BY <2>2, <2>3
<1>12. CASE begin = end
  <2>1. here = {}
    BY <1>8, <1>12
  <2>2. f = n + 1 /\ l = 0
    BY <1>11, <2>1
  <2>3. 1..last - first + 1 = 1..0
    BY <1>3, <1>10, <2>2
  <2>4. Cut(jrnl, begin, end) = [m \in 1..0 |-> part(first + m - 1)]
    BY <1>5, <2>3
  <2>5. [m \in 1..0 |-> part(first + m - 1)] = <<>>
    OBVIOUS
  <2> QED
    BY <1>12, <2>4, <2>5, NothingLaid
<1>13. CASE begin # end
  <2>1. begin < end
    BY <1>13
  <2>2. PICK p \in 1..n : s[p] <= begin /\ begin < s[p + 1]
    <3> DEFINE T == {k \in Nat : k \in 1..n /\ begin < s[k + 1]}
    <3>1. n \in T
      <4>1. begin < b /\ n # 0
        <5>1. begin < b
          BY <1>4, <2>1
        <5> QED
          BY <1>2, <1>4, <5>1
      <4> QED
        BY <1>2, <1>3, <4>1
    <3>2. T \in SUBSET Nat /\ T # {}
      BY <3>1
    <3>3. PICK p \in T : \A k \in T : p <= k
      BY <3>2, Least
    <3>4. s[p] <= begin
      <4>1. CASE p = 1
        BY <1>2, <1>4, <4>1
      <4>2. CASE p # 1
        <5>1. PICK g : g = p - 1
          OBVIOUS
        <5>2. g \in Nat /\ g \in 1..n /\ g + 1 = p /\ ~(p <= g)
          BY <1>3, <3>3, <4>2, <5>1
        <5>3. g \notin T
          BY <3>3, <5>2
        <5>4. ~(begin < s[g + 1])
          BY <5>2, <5>3
        <5>5. s[p] \in Nat
          BY <1>6, <3>3
        <5> QED
          BY <5>2, <5>4, <5>5
      <4> QED
        BY <4>1, <4>2
    <3> QED
      BY <3>3, <3>4
  <2>3. p \in here
    <3>1. s[p] \in Nat
      BY <1>6
    <3> QED
      BY <1>8, <2>1, <2>2, <3>1
  <2>4. f \in here /\ l \in here /\ f \in 1..n /\ l \in 1..n /\ f <= p /\ p <= l
    <3>1. f <= p /\ p <= l
      BY <1>11, <2>3
    <3>2. f # n + 1 /\ l # 0
      BY <1>3, <1>11, <2>3, <3>1
    <3>3. f \in here /\ l \in here
      BY <1>11, <3>2
    <3>4. here \subseteq 1..n
      BY <1>8
    <3> QED
      BY <3>1, <3>3, <3>4
  <2>5. /\ begin < s[f + 1] /\ s[f] < end /\ begin < s[l + 1] /\ s[l] < end
    BY <1>8, <2>4
  <2>6. s[f] <= begin
    <3>1. CASE f = p
      BY <2>2, <3>1
    <3>2. CASE f # p
      <4>1. f < p /\ f \in 1..n + 1 /\ p \in 1..n + 1
        BY <2>2, <2>4, <3>2
      <4>2. s[f] < s[p] /\ s[f] \in Nat /\ s[p] \in Nat
        BY <1>3, <4>1
      <4> QED
        BY <2>2, <4>2
    <3> QED
      BY <3>1, <3>2
  <2>7. end <= s[l + 1]
    <3>1. CASE l = n
      BY <1>2, <1>4, <3>1
    <3>2. CASE l # n
      <4>1. PICK g : g = l + 1
        OBVIOUS
      <4>2. g \in 1..n /\ ~(g <= l)
        BY <1>3, <2>4, <3>2, <4>1
      <4>3. g \notin here
        BY <1>11, <4>2
      <4>4. s[g] \in Nat /\ s[g + 1] \in Nat /\ s[g] < s[g + 1]
        BY <1>6, <4>2
      <4>5. ~(begin < s[g + 1] /\ s[g] < end)
        BY <1>8, <2>1, <4>2, <4>3
      <4>6. begin < s[g]
        BY <2>5, <4>1
      <4>7. begin < s[g + 1]
        <5>1. PICK x, y : x = s[g] /\ y = s[g + 1]
          OBVIOUS
        <5>2. x \in Nat /\ y \in Nat /\ x < y /\ begin < x
          BY <4>4, <4>6, <5>1
        <5>3. begin < y
          BY <5>2
        <5> QED
          BY <5>1, <5>3
      <4> QED
        BY <4>1, <4>4, <4>5, <4>7
    <3> QED
      BY <3>1, <3>2
  <2>8. PICK cut : cut = Cut(jrnl, begin, end)
    OBVIOUS
  <2>9. ASSUME NEW m \in 1..l - f + 1
        PROVE  part(f + m - 1) =
                 [stream |-> chunks[f + m - 1].stream,
                  data |-> Span(IF s[f + m - 1] <= begin THEN begin ELSE s[f + m - 1],
                                IF s[f + m] <= end THEN s[f + m] ELSE end)]
    <3>1. PICK k : k = f + m - 1
      OBVIOUS
    <3>2. k \in 1..n /\ k + 1 = f + m /\ f <= k /\ k <= l
      BY <2>4, <3>1
    <3>3. PICK x, y, u, v : /\ x = s[k] /\ y = s[k + 1]
                            /\ u = (IF s[k] <= begin THEN begin ELSE s[k])
                            /\ v = (IF s[k + 1] <= end THEN s[k + 1] ELSE end)
      OBVIOUS
    <3>4. x \in Nat /\ y \in Nat /\ x < y /\ from(k) = u /\ to(k) = v /\ data(k)[1] = x
      BY <1>6, <3>2, <3>3
    <3>5. begin < y /\ x < end
      <4>1. CASE k = f
        <5>1. begin < s[k + 1]
          BY <2>5, <4>1
        <5>2. s[k] < end
          BY <2>5, <4>1
        <5> QED
          BY <3>3, <5>1, <5>2
      <4>2. CASE k # f
        <5>1. f + 1 \in 1..n + 1 /\ k \in 1..n + 1 /\ l \in 1..n + 1 /\ f + 1 <= k /\ k <= l
          BY <2>4, <3>2, <4>2
        <5>2. PICK g : g = f + 1
          OBVIOUS
        <5>3. s[g] <= s[k] /\ s[k] <= s[l] /\ s[g] \in Nat /\ s[l] \in Nat
          BY <1>3, <5>1, <5>2
        <5>4. begin < s[g] /\ s[l] < end
          BY <2>5, <5>2
        <5> QED
          BY <3>3, <3>4, <5>3, <5>4
      <4> QED
        BY <4>1, <4>2
    <3>6. u \in Nat /\ v \in Nat /\ x <= u /\ u <= v /\ v <= y
      <4>1. u = (IF x <= begin THEN begin ELSE x) /\ v = (IF y <= end THEN y ELSE end)
        BY <3>3
      <4> QED
        BY <2>1, <3>4, <3>5, <4>1
    <3>7. PICK i \in Int, j \in Int : i = u - x + 1 /\ j = v - x
      BY <3>4, <3>6
    <3>8. Piece(Span(x, y), i, j) = Span(u, v)
      <4>1. x \in Nat /\ y \in Nat /\ u \in Nat /\ v \in Nat /\ x <= u /\ u <= v /\ v <= y
        BY <3>4, <3>6
      <4> HIDE DEF from, to, data
      <4> QED
        BY <3>7, <4>1, SpanPart
    <3>9. PICK z, chunk : z = chunks[k].stream /\ chunk = chunks[k]
      OBVIOUS
    <3>10. chunk = [stream |-> z, data |-> Span(x, y)]
      BY <1>3, <3>2, <3>3, <3>9
    <3>11. chunk.data[1] = x /\ chunk.data = Span(x, y)
      BY <1>1, <3>4, <3>9, <3>10
    <3> HIDE DEF from, to
    <3>12. part(k) = [chunk EXCEPT !.data = SubSeq(@, i, j)]
      <4>1. part(k) = [chunk EXCEPT !.data = SubSeq(@, from(k) - @[1] + 1, to(k) - @[1])]
        BY <1>1, <3>9
      <4>2. from(k) - chunk.data[1] + 1 = i /\ to(k) - chunk.data[1] = j
        BY <3>4, <3>7, <3>11
      <4> QED
        BY <4>1, <4>2
    <3>13. part(k) = [stream |-> z, data |-> SubSeq(Span(x, y), i, j)]
      <4>1. PICK d : d = SubSeq(Span(x, y), i, j)
        OBVIOUS
      <4>2. part(k) = [chunk EXCEPT !.data = d]
        BY <3>11, <3>12, <4>1
      <4> HIDE DEF part
      <4>3. part(k) = [stream |-> z, data |-> d]
        BY <3>10, <4>2
      <4> QED
        BY <4>1, <4>3
    <3>14. part(k) = [stream |-> z, data |-> Span(u, v)]
      BY <3>8, <3>13 DEF Piece
    <3> HIDE DEF part
    <3> QED
      BY <3>1, <3>2, <3>3, <3>9, <3>14
  <2> HIDE DEF part
  <2>10. PartIs(cut, chunks, s, f, l, begin, end)
    <3>1. cut = [m \in 1..l - f + 1 |-> part(f + m - 1)]
      BY <1>5, <1>10, <2>8
    <3> QED
      BY <2>9, <3>1 DEF PartIs
  <2>11. PICK q, t : /\ Laid(cut, q, t) /\ t[1] = begin /\ t[q + 1] = end
                     /\ \A src : Sourced(chunks, n, s, src) => Sourced(cut, q, t, src)
    <3>1. Laid(chunks, n, s)
      BY <1>2
    <3>2. /\ f \in 1..n /\ l \in 1..n /\ f <= l /\ s[f] <= begin
          /\ begin < s[f + 1] /\ s[l] < end /\ end <= s[l + 1] /\ begin < end
      BY <2>1, <2>4, <2>5, <2>6, <2>7
    <3> QED
      BY <2>10, <3>1, <3>2, PartLaid
  <2>12. Stretch(cut, begin, end, source)
    BY <1>2, <2>11 DEF Stretch
  <2> QED
    BY <2>8, <2>12
<1> QED
  BY <1>12, <1>13

\* The bytes of a stretch are its positions.
LEMMA StretchIs ==
  ASSUME NEW chunks, NEW a, NEW b, NEW source, Stretch(chunks, a, b, source)
  PROVE  /\ a \in Nat /\ b \in Nat /\ a <= b
         /\ Bytes(chunks) = Span(a, b) /\ Len(Bytes(chunks)) = b - a
         /\ (a = b => chunks = <<>>)
<1>1. PICK n, s : Laid(chunks, n, s) /\ s[1] = a /\ s[n + 1] = b /\ Sourced(chunks, n, s, source)
  BY DEF Stretch
<1>2. /\ n \in Nat /\ \A j \in 1..n + 1 : s[j] \in Nat
      /\ \A i, j \in 1..n + 1 : i < j => s[i] < s[j]
      /\ \A i, j \in 1..n + 1 : i <= j => s[i] <= s[j]
      /\ DOMAIN chunks = 1..n /\ Len(chunks) = n
  BY <1>1, LaidIs
<1>3. 1 \in 1..n + 1 /\ n + 1 \in 1..n + 1 /\ 1 <= n + 1
  BY <1>2
<1>4. a \in Nat /\ b \in Nat /\ a <= b
  BY <1>1, <1>2, <1>3
<1>5. Bytes(chunks) = Span(a, b)
  BY <1>1, BytesOfLaid
<1>6. Len(Span(a, b)) = b - a
  BY <1>4, SpanIs
<1>7. ASSUME a = b
      PROVE  chunks = <<>>
  <2>1. n = 0
    <3>1. ASSUME n # 0
          PROVE  FALSE
      <4>1. s[1] < s[n + 1]
        BY <1>2, <1>3, <3>1
      <4> QED
        BY <1>1, <1>4, <1>7, <4>1
    <3> QED
      BY <3>1
  <2>2. chunks = [k \in 1..n |-> [stream |-> chunks[k].stream, data |-> Span(s[k], s[k + 1])]]
    BY <1>1 DEF Laid
  <2> QED
    BY <2>1, <2>2
<1> QED
  BY <1>4, <1>5, <1>6, <1>7

\* Every byte of a chunk came from the chunk's stream.
LEMMA StretchSource ==
  ASSUME NEW chunks, NEW a, NEW b, NEW source, Stretch(chunks, a, b, source),
         NEW k \in DOMAIN chunks, NEW m \in DOMAIN chunks[k].data
  PROVE  source[chunks[k].data[m] + 1] = chunks[k].stream
<1>1. PICK n, s : Laid(chunks, n, s) /\ s[1] = a /\ s[n + 1] = b /\ Sourced(chunks, n, s, source)
  BY DEF Stretch
<1>2. /\ n \in Nat /\ \A j \in 1..n + 1 : s[j] \in Nat
      /\ \A i, j \in 1..n + 1 : i < j => s[i] < s[j]
      /\ DOMAIN chunks = 1..n
      /\ \A j \in 1..n : chunks[j] = [stream |-> chunks[j].stream, data |-> Span(s[j], s[j + 1])]
  BY <1>1, LaidIs
<1>3. k \in 1..n
  BY <1>2
<1>4. PICK x, y : x = s[k] /\ y = s[k + 1]
  OBVIOUS
<1>5. x \in Nat /\ y \in Nat /\ x < y
  <2>1. PICK h : h = k + 1
    OBVIOUS
  <2>2. h \in 1..n + 1 /\ k \in 1..n + 1 /\ k < h
    BY <1>2, <1>3, <2>1
  <2> QED
    BY <1>2, <1>4, <2>1, <2>2
<1>6. PICK chunk : chunk = chunks[k]
  OBVIOUS
<1>7. chunk = [stream |-> chunk.stream, data |-> Span(x, y)]
  BY <1>2, <1>3, <1>4, <1>6
<1>8. chunk.data = Span(x, y)
  BY <1>7
<1>9. Span(x, y) = [j \in 1..y - x |-> x + j - 1]
  BY DEF Span
<1>10. m \in 1..y - x /\ Span(x, y)[m] = x + m - 1
  BY <1>6, <1>8, <1>9
<1>11. PICK z : z = x + m - 1
  OBVIOUS
<1>12. z \in Nat /\ x <= z /\ z < y
  BY <1>5, <1>10, <1>11
<1>13. source[z + 1] = chunk.stream
  BY <1>1, <1>3, <1>4, <1>6, <1>12 DEF Sourced
<1> QED
  BY <1>6, <1>8, <1>10, <1>11, <1>13

\* What was read later changes nothing of it.
LEMMA StretchKeeps ==
  ASSUME NEW chunks, NEW a, NEW b, NEW source, Stretch(chunks, a, b, source),
         NEW more, \A x \in Nat : x < b => more[x + 1] = source[x + 1]
  PROVE  Stretch(chunks, a, b, more)
<1>1. PICK n, s : Laid(chunks, n, s) /\ s[1] = a /\ s[n + 1] = b /\ Sourced(chunks, n, s, source)
  BY DEF Stretch
<1>2. /\ n \in Nat /\ \A j \in 1..n + 1 : s[j] \in Nat
      /\ \A i, j \in 1..n + 1 : i <= j => s[i] <= s[j]
  BY <1>1, LaidIs
<1>3. ASSUME NEW k \in 1..n, NEW x \in Nat, s[k] <= x, x < s[k + 1]
      PROVE  more[x + 1] = chunks[k].stream
  <2>1. PICK h : h = k + 1
    OBVIOUS
  <2>2. h \in 1..n + 1 /\ n + 1 \in 1..n + 1 /\ h <= n + 1
    BY <1>2, <2>1
  <2>3. s[h] <= s[n + 1] /\ s[h] \in Nat /\ s[n + 1] \in Nat
    BY <1>2, <2>2
  <2>4. x < b
    BY <1>1, <1>3, <2>1, <2>3
  <2>5. source[x + 1] = chunks[k].stream
    BY <1>1, <1>3 DEF Sourced
  <2> QED
    BY <2>4, <2>5
<1>4. Sourced(chunks, n, s, more)
  BY <1>3 DEF Sourced
<1> QED
  BY <1>1, <1>4 DEF Stretch

\* A chunk is appended.
LEMMA StretchGrows ==
  ASSUME NEW chunks, NEW a, NEW b, NEW source, Stretch(chunks, a, b, source),
         NEW c \in Nat, b < c, NEW stream,
         \A x \in Nat : b <= x /\ x < c => source[x + 1] = stream
  PROVE  Stretch(Append(chunks, Chunk(stream, Span(b, c))), a, c, source)
<1>1. PICK n, s : Laid(chunks, n, s) /\ s[1] = a /\ s[n + 1] = b /\ Sourced(chunks, n, s, source)
  BY DEF Stretch
<1>2. n \in Nat /\ b \in Nat
  <2>1. n \in Nat /\ \A j \in 1..n + 1 : s[j] \in Nat
    BY <1>1, LaidIs
  <2>2. n + 1 \in 1..n + 1
    BY <2>1
  <2> QED
    BY <1>1, <2>1, <2>2
<1>3. PICK m \in Nat \ {0} : m = c - b
  BY <1>2
<1>4. b + m = c
  BY <1>2, <1>3
<1> DEFINE more == Append(chunks, Chunk(stream, Span(s[n + 1], s[n + 1] + m)))
           t == [k \in 1..n + 2 |-> IF k = n + 2 THEN s[n + 1] + m ELSE s[k]]
<1>5. /\ Laid(more, n + 1, t)
      /\ \A src : Sourced(chunks, n, s, src)
                    /\ (\A x \in Nat : s[n + 1] <= x /\ x < s[n + 1] + m => src[x + 1] = stream)
                  => Sourced(more, n + 1, t, src)
  BY <1>1, AppendLaid
<1>6. t[1] = a /\ t[(n + 1) + 1] = c
  <2>1. 1 \in 1..n + 2 /\ 1 # n + 2 /\ (n + 1) + 1 = n + 2 /\ n + 2 \in 1..n + 2
    BY <1>2
  <2> QED
    BY <1>1, <1>4, <2>1
<1>7. more = Append(chunks, Chunk(stream, Span(b, c)))
  BY <1>1, <1>4
<1> HIDE DEF more, t
<1>8. Sourced(more, n + 1, t, source)
  BY <1>1, <1>4, <1>5
<1>9. Stretch(more, a, c, source)
  BY <1>5, <1>6, <1>8 DEF Stretch
<1> QED
  BY <1>7, <1>9

\* Journal::append: what it keeps is the end of what was read.
LEMMA AppendStretch ==
  ASSUME NEW jrnl, jrnl = [chunks |-> jrnl.chunks, start |-> jrnl.start,
                                 end |-> jrnl.end, revision |-> jrnl.revision],
         NEW source, Stretch(jrnl.chunks, jrnl.start, jrnl.end, source),
         NEW n \in Nat \ {0}, NEW capacity \in Nat, NEW stream,
         \A x \in Nat : jrnl.end <= x /\ x < jrnl.end + n => source[x + 1] = stream
  PROVE  LET more == append(jrnl, capacity, stream, Span(jrnl.end, jrnl.end + n))
         IN  /\ more = [chunks |-> more.chunks, start |-> more.start,
                        end |-> more.end, revision |-> more.revision]
             /\ Stretch(more.chunks, more.start, more.end, source)
             /\ more.end = jrnl.end + n
<1>1. PICK chunks, a, b, r : /\ chunks = jrnl.chunks /\ a = jrnl.start /\ b = jrnl.end
                             /\ r = jrnl.revision
  OBVIOUS
<1>2. a \in Nat /\ b \in Nat /\ a <= b
  BY <1>1, StretchIs
<1>3. PICK c : c = b + n
  OBVIOUS
<1>4. c \in Nat /\ b < c /\ b <= c
  BY <1>2, <1>3
<1>5. Len(Span(b, c)) = n
  <2>1. c - b = n
    BY <1>2, <1>3
  <2> QED
    BY <1>2, <1>4, <2>1, SpanIs
<1>6. PICK start : start = Max({a, c - capacity})
  OBVIOUS
<1>7. start \in Nat /\ a <= start /\ start <= c
  <2>1. c - capacity \in Int
    BY <1>4
  <2>2. start = (IF a >= c - capacity THEN a ELSE c - capacity)
    BY <1>2, <1>6, <2>1, MinMaxOfTwo
  <2> QED
    BY <1>2, <1>4, <2>2
<1>8. PICK whole : whole = Append(chunks, Chunk(stream, Span(b, c)))
  OBVIOUS
<1>9. Stretch(whole, a, c, source)
  BY <1>1, <1>3, <1>4, <1>8, StretchGrows
<1>10. PICK count : count = c - start
  OBVIOUS
<1>11. count \in Nat /\ count <= c - a /\ c - count = start
  BY <1>2, <1>4, <1>7, <1>10
<1>12. Stretch(KeptChunks(whole, count), start, c, source)
  BY <1>9, <1>11, KeptLaid
<1>13. PICK kept : kept = KeptChunks(whole, count)
  OBVIOUS
<1>14. jrnl = [chunks |-> chunks, start |-> a, end |-> b, revision |-> r]
  BY <1>1
<1>15. append(jrnl, capacity, stream, Span(b, c)) =
         [jrnl EXCEPT !.end = c, !.start = start, !.chunks = kept]
  BY <1>1, <1>3, <1>5, <1>6, <1>8, <1>10, <1>13 DEF append
<1>16. append(jrnl, capacity, stream, Span(b, c)) =
         [chunks |-> kept, start |-> start, end |-> c, revision |-> r]
  BY <1>14, <1>15
<1> QED
  BY <1>1, <1>3, <1>12, <1>13, <1>16

-----------------------------------------------------------------------------
(* The spool and an answer read from the jrnl, step by step. *)

\* What a spool holds of an output of captured bytes.
SpoolInv(spl, source) ==
  /\ spl = [size |-> spl.size, open |-> spl.open, error |-> spl.error,
            captured |-> spl.captured, tail |-> spl.tail]
  /\ spl.open \in BOOLEAN /\ spl.error \in BOOLEAN /\ spl.size \in Nat
  /\ \E a : Stretch(spl.tail, a, spl.captured, source)
  /\ TailCapacity = 0 => spl.tail = <<>>
  /\ ~spl.error => spl.size = spl.captured

\* OutputSpool::append
LEMMA AppendSpool ==
  ASSUME NEW spl, NEW source, SpoolInv(spl, source), NEW n \in Nat \ {0}, NEW stream,
         \A x \in Nat : spl.captured <= x /\ x < spl.captured + n => source[x + 1] = stream,
         NEW count \in 0..n, spl.open \/ spl.error
  PROVE  LET more == spoolAppend(spl, TailCapacity, stream,
                                 Span(spl.captured, spl.captured + n), count)
         IN  /\ SpoolInv(more, source) /\ more.captured = spl.captured + n
             /\ more.open \/ more.error
<1>1. PICK b, a, tail : /\ b = spl.captured /\ Stretch(tail, a, b, source) /\ tail = spl.tail
  BY DEF SpoolInv
<1>2. a \in Nat /\ b \in Nat /\ a <= b
  BY <1>1, StretchIs
<1>3. PICK c : c = b + n
  OBVIOUS
<1>4. c \in Nat /\ b < c /\ b <= c
  BY <1>2, <1>3
<1>5. PICK data : data = Span(b, c)
  OBVIOUS
<1>6. Len(data) = n
  <2>1. c - b = n
    BY <1>2, <1>3
  <2> QED
    BY <1>2, <1>4, <1>5, <2>1, SpanIs
<1>7. PICK longer : longer = Append(tail, Chunk(stream, data))
  OBVIOUS
<1>8. Stretch(longer, a, c, source)
  BY <1>1, <1>3, <1>4, <1>5, <1>7, StretchGrows
<1>9. PICK kept : kept = KeptChunks(longer, Min({TailCapacity, Len(Bytes(longer))}))
  OBVIOUS
<1>10. \E z : Stretch(kept, z, c, source)
  <2>1. PICK count1 : count1 = Min({TailCapacity, Len(Bytes(longer))})
    OBVIOUS
  <2>2. Len(Bytes(longer)) = c - a /\ a <= c
    BY <1>8, StretchIs
  <2>3. count1 \in Nat /\ count1 <= c - a
    <3>1. TailCapacity \in Int /\ c - a \in Int /\ TailCapacity >= 0 /\ c - a >= 0
      BY <1>2, <1>4, <2>2, SizesAreBytes
    <3>2. count1 = (IF TailCapacity <= c - a THEN TailCapacity ELSE c - a)
      BY <2>1, <2>2, <3>1, MinMaxOfTwo
    <3> QED
      BY <3>1, <3>2
  <2> QED
    BY <1>8, <1>9, <2>1, <2>3, KeptLaid
<1>11. PICK nextTail, nextSize, nextError, nextOpen :
         /\ nextTail = (IF TailCapacity = 0 THEN tail ELSE kept)
         /\ nextSize = (IF spl.open THEN spl.size + count ELSE spl.size)
         /\ nextError \in BOOLEAN /\ nextOpen \in BOOLEAN
         /\ nextError <=> (spl.error \/ (spl.open /\ count < n))
         /\ nextOpen <=> (spl.open /\ count = n)
  <2>1. (spl.error \/ (spl.open /\ count < n)) \in BOOLEAN /\ (spl.open /\ count = n) \in BOOLEAN
    OBVIOUS
  <2> QED
    BY <2>1
<1>12. PICK size, open, error : size = spl.size /\ open = spl.open /\ error = spl.error
  OBVIOUS
<1>13. /\ spl = [size |-> size, open |-> open, error |-> error, captured |-> b, tail |-> tail]
       /\ open \in BOOLEAN /\ error \in BOOLEAN /\ size \in Nat
       /\ ~error => size = b
  BY <1>1, <1>12 DEF SpoolInv
<1>14. PICK more : more = spoolAppend(spl, TailCapacity, stream, data, count)
  OBVIOUS
<1>15. more = [size |-> nextSize, open |-> nextOpen, error |-> nextError,
               captured |-> c, tail |-> nextTail]
  <2>1. /\ nextTail = (IF TailCapacity = 0 THEN tail ELSE kept)
        /\ nextSize = (IF open THEN size + count ELSE size)
        /\ nextError = (error \/ (open /\ count < n))
        /\ nextOpen = (open /\ count = n)
    BY <1>11, <1>12, <1>13
  <2>2. more = [spl EXCEPT !.captured = c, !.tail = nextTail, !.size = nextSize,
                           !.error = nextError, !.open = nextOpen]
    BY <1>1, <1>3, <1>6, <1>7, <1>9, <1>12, <1>14, <2>1 DEF spoolAppend
  <2> QED
    BY <1>13, <2>2
<1>16. \E z : Stretch(nextTail, z, c, source)
  <2>1. CASE TailCapacity = 0
    <3>1. nextTail = <<>>
      BY <1>1, <1>11, <2>1 DEF SpoolInv
    <3>2. Stretch(nextTail, c, c, source)
      BY <1>4, <3>1, NothingLaid
    <3> QED
      BY <3>2
  <2>2. CASE TailCapacity # 0
    BY <1>10, <1>11, <2>2
  <2> QED
    BY <2>1, <2>2
<1>17. TailCapacity = 0 => nextTail = <<>>
  BY <1>1, <1>11 DEF SpoolInv
<1>18. nextSize \in Nat /\ (~nextError => nextSize = c) /\ (nextOpen \/ nextError)
  <2>1. open \/ error
    BY <1>12
  <2>2. CASE open
    <3>1. nextSize = size + count
      BY <1>11, <1>12, <2>2
    <3>2. ~nextError => count = n /\ ~error
      BY <1>11, <1>12, <2>2
    <3>3. nextOpen \/ nextError
      BY <1>11, <1>12, <2>2
    <3> QED
      BY <1>3, <1>13, <3>1, <3>2, <3>3
  <2>3. CASE ~open
    BY <1>11, <1>12, <1>13, <2>1, <2>3
  <2> QED
    BY <2>2, <2>3
<1>19. /\ more.size = nextSize /\ more.open = nextOpen /\ more.error = nextError
       /\ more.captured = c /\ more.tail = nextTail
  BY <1>15
<1>20. SpoolInv(more, source)
  BY <1>11, <1>15, <1>16, <1>17, <1>18, <1>19 DEF SpoolInv
<1>21. more.open \/ more.error
  BY <1>18, <1>19
<1> QED
  BY <1>1, <1>3, <1>5, <1>14, <1>19, <1>20, <1>21

\* Journal::read: the answer goes on where the cursor stands.
Told(seen, source, over) ==
  /\ seen.next.offset \in Nat /\ seen.next.offset <= Len(source)
  /\ \E first : /\ Stretch(seen.output, first, seen.next.offset, source)
                /\ IF seen.gap THEN first > seen.requested ELSE first = seen.requested
  /\ seen.reason = "finished" => over /\ seen.next.offset = Len(source) /\ ~seen.has_more

\* What Journal::read answers from a journal of the whole output tells the truth.
LEMMA ReadTells ==
  ASSUME NEW jrnl, NEW source, Stretch(jrnl.chunks, jrnl.start, jrnl.end, source),
         jrnl.end = Len(source), NEW cursor, cursor.offset \in Nat, cursor.offset <= jrnl.end,
         NEW limit \in Nat \ {0}, NEW over
  PROVE  LET seen == read(jrnl, cursor, limit, over)
         IN  Told([requested |-> cursor.offset, output |-> seen.output, next |-> seen.next,
                   gap |-> seen.gap, has_more |-> seen.has_more, reason |-> seen.reason],
                  source, over)
<1>1. PICK a, b, r : a = jrnl.start /\ b = jrnl.end /\ r = cursor.offset
  OBVIOUS
<1>2. a \in Nat /\ b \in Nat /\ a <= b /\ r \in Nat /\ r <= b
  BY <1>1, StretchIs
<1>3. PICK begin : begin = Max({r, a})
  OBVIOUS
<1>4. begin = (IF r >= a THEN r ELSE a)
  <2>1. r \in Int /\ a \in Int
    BY <1>2
  <2> QED
    BY <1>3, <2>1, MinMaxOfTwo
<1>5. begin \in Nat /\ a <= begin /\ begin <= b
  BY <1>2, <1>4
<1>6. PICK end : end = Min({b, begin + limit})
  OBVIOUS
<1>7. end = (IF b <= begin + limit THEN b ELSE begin + limit)
  <2>1. begin + limit \in Int
    BY <1>5
  <2> QED
    BY <1>2, <1>6, <2>1, MinMaxOfTwo
<1>8. end \in Nat /\ begin <= end /\ end <= b
  BY <1>2, <1>5, <1>7
<1>9. PICK output : output = Cut(jrnl, begin, end)
  OBVIOUS
<1>10. Stretch(output, begin, end, source)
  BY <1>1, <1>5, <1>8, <1>9, CutLaid
<1> DEFINE gap == Gap(jrnl, r)
           news == output # <<>> \/ gap \/ cursor.revision < jrnl.revision
           reason == CASE end - begin >= limit -> "output_limit"
                       [] end - begin < limit /\ over -> "finished"
                       [] end - begin < limit /\ ~over /\ news -> "activity"
                       [] OTHER -> "wait_elapsed"
<1>11. PICK seen : seen = read(jrnl, cursor, limit, over)
  OBVIOUS
<1>12. seen = [output |-> output, next |-> [offset |-> end, revision |-> jrnl.revision],
               has_more |-> end < b, gap |-> gap, reason |-> reason]
  BY <1>1, <1>3, <1>6, <1>9, <1>11 DEF read
<1>13. gap <=> r < a
  BY <1>1 DEF Gap
<1>14. ASSUME reason = "finished"
       PROVE  over /\ end = b
  <2>1. end - begin \in Int
    BY <1>5, <1>8
  <2>2. ~(end - begin >= limit)
    <3>1. ASSUME end - begin >= limit
          PROVE  FALSE
      <4>1. PICK d \in Int : d = end - begin
        BY <2>1
      <4>2. d >= limit /\ ~(d < limit)
        BY <3>1, <4>1
      <4>3. reason = "output_limit"
        BY <4>1, <4>2
      <4> QED
        BY <1>14, <4>3
    <3> QED
      BY <3>1
  <2>3. end - begin < limit
    BY <2>1, <2>2
  <2>4. over
    BY <1>14, <2>2, <2>3
  <2>5. end = b
    BY <1>2, <1>5, <1>7, <2>3
  <2> QED
    BY <2>4, <2>5
<1>15. PICK g, h, w, x : g = gap /\ h = (end < b) /\ w = reason /\ x = [offset |-> end, revision |-> jrnl.revision]
  OBVIOUS
<1> HIDE DEF gap, reason
<1>16. seen = [output |-> output, next |-> x, has_more |-> h, gap |-> g, reason |-> w]
  BY <1>12, <1>15
<1>17. /\ seen.output = output /\ seen.next = x /\ seen.has_more = h /\ seen.gap = g
       /\ seen.reason = w /\ x.offset = end
  BY <1>15, <1>16
<1>18. PICK answer : answer = [requested |-> cursor.offset, output |-> seen.output,
                               next |-> seen.next, gap |-> seen.gap,
                               has_more |-> seen.has_more, reason |-> seen.reason]
  OBVIOUS
<1>19. answer = [requested |-> r, output |-> output, next |-> x, gap |-> g,
                 has_more |-> h, reason |-> w]
  BY <1>1, <1>17, <1>18
<1>20. /\ answer.requested = r /\ answer.output = output /\ answer.next.offset = end
       /\ answer.gap = g /\ answer.has_more = h /\ answer.reason = w
  BY <1>17, <1>19
<1>21. IF answer.gap THEN begin > answer.requested ELSE begin = answer.requested
  <2>1. CASE r < a
    <3>1. begin > r
      BY <1>2, <1>4, <2>1
    <3>2. answer.gap
      BY <1>13, <1>15, <1>20, <2>1
    <3> QED
      BY <1>20, <3>1, <3>2
  <2>2. CASE ~(r < a)
    <3>1. begin = r
      BY <1>2, <1>4, <2>2
    <3>2. ~answer.gap
      BY <1>13, <1>15, <1>20, <2>2
    <3> QED
      BY <1>20, <3>1, <3>2
  <2> QED
    BY <2>1, <2>2
<1>22. answer.reason = "finished" => over /\ answer.next.offset = Len(source) /\ ~answer.has_more
  <2>1. ASSUME answer.reason = "finished"
        PROVE  over /\ answer.next.offset = Len(source) /\ ~answer.has_more
    <3>1. over /\ end = b
      BY <1>14, <1>15, <1>20, <2>1
    <3>2. ~(end < b)
      BY <1>2, <3>1
    <3> QED
      BY <1>1, <1>15, <1>20, <3>1, <3>2
  <2> QED
    BY <2>1
<1>23. Told(answer, source, over)
  BY <1>1, <1>8, <1>10, <1>20, <1>21, <1>22 DEF Told
<1> QED
  BY <1>11, <1>18, <1>23

-----------------------------------------------------------------------------
(* What the journal and the spool hold, and what is left in the pipes. *)

\* The journal holds the end of what was read.
JournalInv ==
  /\ origin \in Seq(Streams)
  /\ journal = [chunks |-> journal.chunks, start |-> journal.start,
                end |-> journal.end, revision |-> journal.revision]
  /\ Stretch(journal.chunks, journal.start, journal.end, origin)
  /\ journal.end = Len(origin)

\* The spool counts all of it; only the end of the execution closes a file
\* without an error.
CapturedInv ==
  /\ SpoolInv(spool, origin) /\ spool.captured = Len(origin)
  /\ spool.open \/ spool.error \/ phase = "over"

\* Nothing is left in a pipe unless the output is marked incomplete.
ReadersInv ==
  /\ incomplete \in BOOLEAN
  /\ pipe \in [Streams -> Nat]
  /\ readers \in [Streams -> {"reading", "eof", "failed", "aborted"}]
  /\ phase = "new" => \A s \in Streams : pipe[s] = 0
  /\ \A s \in Streams : /\ readers[s] = "eof" => pipe[s] = 0 /\ (s \in ended \/ phase = "over")
                        /\ readers[s] = "aborted" => incomplete
                        /\ phase \in {"drained", "over"} => readers[s] # "reading"
                        /\ phase \in {"drained", "over"} /\ ~incomplete => readers[s] = "eof"

\* What a read adds.
LEMMA Extended ==
  ASSUME NEW S, NEW source \in Seq(S), NEW s \in S, NEW n \in Nat,
         NEW new, new = [k \in 1..n |-> s]
  PROVE  LET more == source \o new
         IN  /\ more \in Seq(S) /\ Len(more) = Len(source) + n
             /\ \A x \in Nat : x < Len(source) => more[x + 1] = source[x + 1]
             /\ \A x \in Nat : Len(source) <= x /\ x < Len(source) + n => more[x + 1] = s
<1>1. new = [k \in 1..n |-> s]
  OBVIOUS
<1>2. new \in [1..n -> S] /\ \A k \in 1..n : new[k] = s
  BY <1>1
<1>3. new \in Seq(S) /\ Len(new) = n
  BY <1>2
<1>4. PICK l : l = Len(source)
  OBVIOUS
<1>5. l \in Nat
  BY <1>4
<1>6. /\ source \o new \in Seq(S) /\ Len(source \o new) = l + n
      /\ \A i \in 1..l + n : (source \o new)[i] = IF i <= l THEN source[i] ELSE new[i - l]
  BY <1>3, <1>4, ConcatProperties
<1>7. PICK more : more = source \o new
  OBVIOUS
<1>8. ASSUME NEW x \in Nat, x < l
      PROVE  more[x + 1] = source[x + 1]
  <2>1. PICK i : i = x + 1
    OBVIOUS
  <2>2. i \in 1..l + n /\ i <= l
    BY <1>5, <1>8, <2>1
  <2> QED
    BY <1>6, <1>7, <2>1, <2>2
<1>9. ASSUME NEW x \in Nat, l <= x, x < l + n
      PROVE  more[x + 1] = s
  <2>1. PICK i, j : i = x + 1 /\ j = i - l
    OBVIOUS
  <2>2. i \in 1..l + n /\ ~(i <= l) /\ j \in 1..n
    BY <1>5, <1>9, <2>1
  <2> QED
    BY <1>2, <1>6, <1>7, <2>1, <2>2
<1> QED
  BY <1>1, <1>4, <1>6, <1>7, <1>8, <1>9

\* A reader's step, as the chunk of n bytes it appends, of which the file takes
\* count.
Adds(s, n, count) ==
  LET data == Span(Len(origin), Len(origin) + n)
  IN  /\ n \in Nat \ {0} /\ n <= pipe[s] /\ count \in 0..n
      /\ origin' \in Seq(Streams) /\ Len(origin') = Len(origin) + n
      /\ \A x \in Nat : x < Len(origin) => origin'[x + 1] = origin[x + 1]
      /\ \A x \in Nat : Len(origin) <= x /\ x < Len(origin) + n => origin'[x + 1] = s
      /\ pipe' = [pipe EXCEPT ![s] = @ - n]
      /\ journal' = append(journal, Capacity, s, data)
      /\ spool' = spoolAppend(spool, TailCapacity, s, data, count)

\* Every read of a reader adds such a chunk.
LEMMA ReadsIs ==
  ASSUME JournalInv, ReadersInv, NEW s \in Streams, reads(s)
  PROVE  \E n, count : Adds(s, n, count)
<1>1. PICK n \in 1..pipe[s] :
        /\ pipe' = [pipe EXCEPT ![s] = @ - n]
        /\ origin' = origin \o [k \in 1..n |-> s]
        /\ journal' = append(journal, Capacity, s, [k \in 1..n |-> Len(origin) + k - 1])
        /\ \E count \in 0..n :
             spool' = spoolAppend(spool, TailCapacity, s, [k \in 1..n |-> Len(origin) + k - 1], count)
  BY DEF reads
<1>2. PICK count \in 0..n :
        spool' = spoolAppend(spool, TailCapacity, s, [k \in 1..n |-> Len(origin) + k - 1], count)
  BY <1>1
<1>3. n \in Nat \ {0} /\ count \in Nat
  BY DEF ReadersInv
<1>16. n <= pipe[s]
  BY DEF ReadersInv
<1>4. PICK l, source : l = Len(origin) /\ source = origin
  OBVIOUS
<1>5. l \in Nat /\ source \in Seq(Streams) /\ n \in Nat
  BY <1>3, <1>4 DEF JournalInv
<1>6. PICK m : m = l + n
  OBVIOUS
<1>7. m - l = n
  BY <1>5, <1>6
<1>8. [k \in 1..n |-> l + k - 1] = Span(l, m)
  BY <1>7 DEF Span
<1>15. PICK new : new = [k \in 1..n |-> s]
  OBVIOUS
<1>9. PICK more : more = source \o new
  OBVIOUS
<1>10. /\ more \in Seq(Streams) /\ Len(more) = l + n
       /\ \A x \in Nat : x < l => more[x + 1] = source[x + 1]
       /\ \A x \in Nat : l <= x /\ x < l + n => more[x + 1] = s
  BY <1>4, <1>5, <1>9, <1>15, Extended
<1>11. origin' = more
  BY <1>1, <1>4, <1>9, <1>15
<1>12. PICK data : data = [k \in 1..n |-> l + k - 1]
  OBVIOUS
<1>13. data = Span(l, l + n)
  BY <1>6, <1>8, <1>12
<1>14. journal' = append(journal, Capacity, s, data) /\ spool' = spoolAppend(spool, TailCapacity, s, data, count)
  BY <1>1, <1>2, <1>4, <1>12
<1> QED
  BY <1>1, <1>2, <1>3, <1>4, <1>10, <1>11, <1>13, <1>14, <1>16 DEF Adds

\* A new revision of the journal has the same output.
LEMMA RevisedIs ==
  ASSUME NEW jrnl, jrnl = [chunks |-> jrnl.chunks, start |-> jrnl.start,
                           end |-> jrnl.end, revision |-> jrnl.revision]
  PROVE  LET next == Revised(jrnl)
         IN  /\ next = [chunks |-> next.chunks, start |-> next.start,
                        end |-> next.end, revision |-> next.revision]
             /\ next.chunks = jrnl.chunks /\ next.start = jrnl.start /\ next.end = jrnl.end
<1>1. PICK a, b, c, d, e : a = jrnl.chunks /\ b = jrnl.start /\ c = jrnl.end /\ d = jrnl.revision
                           /\ e = jrnl.revision + 1
  OBVIOUS
<1>2. jrnl = [chunks |-> a, start |-> b, end |-> c, revision |-> d]
  BY <1>1
<1>3. Revised(jrnl) = [jrnl EXCEPT !.revision = e]
  BY <1>1 DEF Revised
<1>4. Revised(jrnl) = [chunks |-> a, start |-> b, end |-> c, revision |-> e]
  BY <1>2, <1>3
<1> QED
  BY <1>1, <1>4

\* A step that reads nothing leaves what was read, and the journal but for its
\* revision.
LEMMA OtherSteps ==
  ASSUME [Next]_vars
  PROVE  \/ \E s \in Streams : reads(s)
         \/ origin' = origin /\ (journal' = journal \/ journal' = Revised(journal))
<1>1. CASE ownerStep
  BY <1>1 DEF ownerStep, launches, spawnFails, Finishes, rootExits, killsRest, drains,
              drainTimesOut, finishes, outVars
<1>2. CASE outputStep
  <2>1. PICK s \in Streams : childWrites(s) \/ childCloses(s) \/ reads(s) \/ readerEnds(s)
    BY <1>2 DEF outputStep
  <2> QED
    BY <2>1 DEF childWrites, childCloses, readerEnds
<1>3. CASE stdinStep
  BY <1>3 DEF stdinStep, write, close_input, takes, puts, putFails, writerEnds, outVars
<1>4. CASE observerStep
  BY <1>4 DEF observerStep, observe, looks, sleeps, wakes, Observes, outVars
<1>5. CASE terminates \/ resize_terminal
  BY <1>5 DEF terminates, resize_terminal
<1>6. CASE \E who \in Streams \cup {"owner", "writer", "caller"} : notify(who)
  BY <1>6 DEF notify, outVars
<1>7. CASE UNCHANGED vars
  BY <1>7 DEF vars, outVars
<1> QED
  BY <1>1, <1>2, <1>3, <1>4, <1>5, <1>6, <1>7 DEF Next

\* Every step keeps the journal the end of what was read.
LEMMA JournalStep ==
  ASSUME JournalInv, ReadersInv, [Next]_vars
  PROVE  JournalInv'
<1>1. CASE \E s \in Streams : reads(s)
  <2>1. PICK s \in Streams : reads(s)
    BY <1>1
  <2>2. PICK n, count : Adds(s, n, count)
    BY <2>1, ReadsIs
  <2>3. PICK jrnl, more, b : jrnl = journal /\ more = origin' /\ b = Len(origin)
    OBVIOUS
  <2>4. Stretch(jrnl.chunks, jrnl.start, jrnl.end, origin) /\ jrnl.end = b
    BY <2>3 DEF JournalInv
  <2>5. Stretch(jrnl.chunks, jrnl.start, jrnl.end, more)
    <3>1. \A x \in Nat : x < b => more[x + 1] = origin[x + 1]
      BY <2>2, <2>3 DEF Adds
    <3> QED
      BY <2>4, <3>1, StretchKeeps
  <2>6. jrnl = [chunks |-> jrnl.chunks, start |-> jrnl.start, end |-> jrnl.end,
                revision |-> jrnl.revision]
    BY <2>3 DEF JournalInv
  <2>7. \A x \in Nat : jrnl.end <= x /\ x < jrnl.end + n => more[x + 1] = s
    BY <2>2, <2>3, <2>4 DEF Adds
  <2>8. PICK next : next = append(jrnl, Capacity, s, Span(jrnl.end, jrnl.end + n))
    OBVIOUS
  <2>9. /\ next = [chunks |-> next.chunks, start |-> next.start,
                   end |-> next.end, revision |-> next.revision]
        /\ Stretch(next.chunks, next.start, next.end, more)
        /\ next.end = jrnl.end + n
    <3>1. n \in Nat \ {0} /\ Capacity \in Nat
      BY <2>2, SizesAreBytes DEF Adds
    <3> QED
      BY <2>5, <2>6, <2>7, <2>8, <3>1, AppendStretch
  <2>10. journal' = next
    BY <2>2, <2>3, <2>4, <2>8 DEF Adds
  <2> QED
    BY <2>2, <2>3, <2>4, <2>9, <2>10 DEF JournalInv, Adds
<1>2. CASE origin' = origin /\ (journal' = journal \/ journal' = Revised(journal))
  <2>1. PICK jrnl : jrnl = journal
    OBVIOUS
  <2>2. jrnl = [chunks |-> jrnl.chunks, start |-> jrnl.start, end |-> jrnl.end,
                revision |-> jrnl.revision]
    BY <2>1 DEF JournalInv
  <2>3. PICK next : next = Revised(jrnl)
    OBVIOUS
  <2>4. /\ next = [chunks |-> next.chunks, start |-> next.start,
                   end |-> next.end, revision |-> next.revision]
        /\ next.chunks = jrnl.chunks /\ next.start = jrnl.start /\ next.end = jrnl.end
    BY <2>2, <2>3, RevisedIs
  <2>5. journal' = jrnl \/ journal' = next
    BY <1>2, <2>1, <2>3
  <2> QED
    BY <1>2, <2>1, <2>2, <2>4, <2>5 DEF JournalInv
<1> QED
  BY <1>1, <1>2, OtherSteps

\* A step that reads nothing leaves the spool, or is the end and closes it.
LEMMA OtherCaptures ==
  ASSUME [Next]_vars
  PROVE  \/ \E s \in Streams : reads(s)
         \/ /\ origin' = origin
            /\ \/ spool' = spool /\ (phase = "over" => phase' = "over")
               \/ phase' = "over" /\ \E flushed \in BOOLEAN : spool' = finalize(spool, flushed)
<1>1. CASE ownerStep
  <2>1. CASE spawnFails
    <3>1. Finishes(TRUE)
      BY <2>1 DEF spawnFails
    <3> QED
      BY <3>1 DEF Finishes
  <2>2. CASE finishes
    <3>1. PICK flushed \in BOOLEAN : Finishes(flushed)
      BY <2>2 DEF finishes
    <3> QED
      BY <3>1 DEF Finishes
  <2> QED
    BY <1>1, <2>1, <2>2 DEF ownerStep, launches, rootExits, killsRest, drains, drainTimesOut,
                            outVars
<1>2. CASE outputStep
  <2>1. PICK s \in Streams : childWrites(s) \/ childCloses(s) \/ reads(s) \/ readerEnds(s)
    BY <1>2 DEF outputStep
  <2> QED
    BY <2>1 DEF childWrites, childCloses, readerEnds, ownVars
<1>3. CASE stdinStep
  BY <1>3 DEF stdinStep, write, close_input, takes, puts, putFails, writerEnds, outVars, ownVars
<1>4. CASE observerStep
  BY <1>4 DEF observerStep, observe, looks, sleeps, wakes, Observes, outVars, ownVars
<1>5. CASE terminates \/ resize_terminal
  BY <1>5 DEF terminates, resize_terminal, ownVars
<1>6. CASE \E who \in Streams \cup {"owner", "writer", "caller"} : notify(who)
  BY <1>6 DEF notify, outVars, ownVars
<1>7. CASE UNCHANGED vars
  BY <1>7 DEF vars, outVars, ownVars
<1> QED
  BY <1>1, <1>2, <1>3, <1>4, <1>5, <1>6, <1>7 DEF Next

\* The end of the execution loses nothing the spool holds.
LEMMA FinalizeIs ==
  ASSUME NEW spl, NEW source, SpoolInv(spl, source), NEW flushed \in BOOLEAN
  PROVE  SpoolInv(finalize(spl, flushed), source) /\ finalize(spl, flushed).captured = spl.captured
<1>1. PICK size, open, error, captured, tail :
        /\ size = spl.size /\ open = spl.open /\ error = spl.error
        /\ captured = spl.captured /\ tail = spl.tail
  OBVIOUS
<1>2. /\ spl = [size |-> size, open |-> open, error |-> error, captured |-> captured, tail |-> tail]
      /\ open \in BOOLEAN /\ error \in BOOLEAN /\ size \in Nat
      /\ \E a : Stretch(tail, a, captured, source)
      /\ TailCapacity = 0 => tail = <<>>
      /\ ~error => size = captured
  BY <1>1 DEF SpoolInv
<1>3. PICK off \in BOOLEAN : off = FALSE
  OBVIOUS
<1>4. PICK bad \in BOOLEAN : bad = (error \/ (open /\ ~flushed))
  OBVIOUS
<1>5. finalize(spl, flushed) = [spl EXCEPT !.open = off, !.error = bad]
  BY <1>1, <1>2, <1>3, <1>4 DEF finalize
<1>6. PICK next : next = finalize(spl, flushed)
  OBVIOUS
<1>7. next = [size |-> size, open |-> off, error |-> bad, captured |-> captured, tail |-> tail]
  BY <1>2, <1>5, <1>6
<1>8. /\ next.size = size /\ next.open = off /\ next.error = bad
      /\ next.captured = captured /\ next.tail = tail
  BY <1>7
<1>9. ~bad => ~error
  BY <1>4
<1>10. SpoolInv(next, source)
  BY <1>2, <1>7, <1>8, <1>9 DEF SpoolInv
<1> QED
  BY <1>1, <1>6, <1>8, <1>10

\* What is read later changes nothing of what the spool holds.
LEMMA SpoolKeeps ==
  ASSUME NEW spl, NEW source, SpoolInv(spl, source), NEW more,
         \A x \in Nat : x < spl.captured => more[x + 1] = source[x + 1]
  PROVE  SpoolInv(spl, more)
<1>1. PICK a : Stretch(spl.tail, a, spl.captured, source)
  BY DEF SpoolInv
<1>2. Stretch(spl.tail, a, spl.captured, more)
  BY <1>1, StretchKeeps
<1> QED
  BY <1>2 DEF SpoolInv

\* Every step keeps the spool true to what was read.
LEMMA CapturedStep ==
  ASSUME JournalInv, CapturedInv, ReadersInv, [Next]_vars
  PROVE  CapturedInv'
<1>1. CASE \E s \in Streams : reads(s)
  <2>1. PICK s \in Streams : reads(s)
    BY <1>1
  <2>2. PICK n, count : Adds(s, n, count)
    BY <2>1, ReadsIs
  <2>3. PICK spl, more, b, capacity : spl = spool /\ more = origin' /\ b = Len(origin)
    OBVIOUS
  <2>4. SpoolInv(spl, origin) /\ spl.captured = b /\ (spl.open \/ spl.error)
    BY <2>1, <2>3 DEF CapturedInv, reads
  <2>5. SpoolInv(spl, more)
    <3>1. \A x \in Nat : x < spl.captured => more[x + 1] = origin[x + 1]
      BY <2>2, <2>3, <2>4 DEF Adds
    <3> QED
      BY <2>4, <3>1, SpoolKeeps
  <2>6. PICK next : next = spoolAppend(spl, TailCapacity, s, Span(spl.captured, spl.captured + n), count)
    OBVIOUS
  <2>7. /\ SpoolInv(next, more) /\ next.captured = spl.captured + n
        /\ next.open \/ next.error
    <3>1. n \in Nat \ {0} /\ count \in 0..n
      BY <2>2 DEF Adds
    <3>2. \A x \in Nat : spl.captured <= x /\ x < spl.captured + n => more[x + 1] = s
      BY <2>2, <2>3, <2>4 DEF Adds
    <3> QED
      BY <2>4, <2>5, <2>6, <3>1, <3>2, AppendSpool
  <2>8. spool' = next
    BY <2>2, <2>3, <2>4, <2>6 DEF Adds
  <2>9. Len(more) = b + n
    BY <2>2, <2>3 DEF Adds
  <2> QED
    BY <2>3, <2>4, <2>7, <2>8, <2>9 DEF CapturedInv
<1>2. CASE origin' = origin /\ spool' = spool /\ (phase = "over" => phase' = "over")
  BY <1>2 DEF CapturedInv, SpoolInv
<1>3. CASE /\ origin' = origin /\ phase' = "over"
           /\ \E flushed \in BOOLEAN : spool' = finalize(spool, flushed)
  <2>1. PICK flushed \in BOOLEAN : spool' = finalize(spool, flushed)
    BY <1>3
  <2>2. PICK spl : spl = spool
    OBVIOUS
  <2>3. SpoolInv(finalize(spl, flushed), origin) /\ finalize(spl, flushed).captured = spl.captured
    BY <2>2, FinalizeIs DEF CapturedInv
  <2>4. PICK next : next = finalize(spl, flushed)
    OBVIOUS
  <2> QED
    BY <1>3, <2>1, <2>2, <2>3, <2>4 DEF CapturedInv
<1> QED
  BY <1>1, <1>2, <1>3, OtherCaptures

\* Every step keeps what is known of the pipes and their readers.
LEMMA ReadersStep ==
  ASSUME JournalInv, ReadersInv, [Next]_vars
  PROVE  ReadersInv'
<1>1. CASE launches
  BY <1>1 DEF launches, ReadersInv
<1>2. CASE spawnFails
  <2>1. /\ readers' = [s \in Streams |-> "eof"] /\ phase = "new" /\ phase' = "over"
        /\ pipe' = pipe /\ ended' = ended
        /\ incomplete' = (incomplete \/ spool'.error)
    BY <1>2 DEF spawnFails, Finishes
  <2>2. incomplete' \in BOOLEAN
    BY <2>1
  <2> QED
    BY <2>1, <2>2 DEF ReadersInv
<1>3. CASE rootExits \/ killsRest
  BY <1>3 DEF rootExits, killsRest, ReadersInv, outVars
<1>4. CASE drains
  <2>1. /\ phase = "draining" /\ phase' = "drained" /\ readers' = readers /\ pipe' = pipe
        /\ ended' = ended /\ \A s \in Streams : readers[s] # "reading"
        /\ incomplete' = (incomplete \/ \E s \in Streams : readers[s] = "failed")
    BY <1>4 DEF drains
  <2>2. incomplete' \in BOOLEAN /\ (incomplete => incomplete')
        /\ (~incomplete' => \A s \in Streams : readers[s] # "failed")
    BY <2>1 DEF ReadersInv
  <2>3. ~incomplete' => \A s \in Streams : readers[s] = "eof"
    BY <2>1, <2>2 DEF ReadersInv
  <2> QED
    BY <2>1, <2>2, <2>3 DEF ReadersInv
<1>5. CASE drainTimesOut
  <2>1. /\ phase = "draining" /\ phase' = "drained" /\ pipe' = pipe
        /\ ended' = ended /\ incomplete' = TRUE
        /\ readers' = [s \in Streams |-> IF readers[s] = "reading" THEN "aborted" ELSE readers[s]]
    BY <1>5 DEF drainTimesOut
  <2>2. \A s \in Streams : readers'[s] = IF readers[s] = "reading" THEN "aborted" ELSE readers[s]
    BY <2>1
  <2>3. readers' \in [Streams -> {"reading", "eof", "failed", "aborted"}]
    BY <2>1 DEF ReadersInv
  <2> QED
    BY <2>1, <2>2, <2>3 DEF ReadersInv
<1>6. CASE finishes
  <2>1. PICK flushed \in BOOLEAN : Finishes(flushed)
    BY <1>6 DEF finishes
  <2>2. /\ phase = "drained" /\ phase' = "over" /\ pipe' = pipe /\ ended' = ended
        /\ readers' = readers /\ incomplete' = (incomplete \/ spool'.error)
    BY <1>6, <2>1 DEF finishes, Finishes
  <2>3. incomplete' \in BOOLEAN /\ (incomplete => incomplete')
    BY <2>2 DEF ReadersInv
  <2> QED
    BY <2>2, <2>3 DEF ReadersInv
<1>7. CASE outputStep
  <2>1. PICK s \in Streams : childWrites(s) \/ childCloses(s) \/ reads(s) \/ readerEnds(s)
    BY <1>7 DEF outputStep
  <2>2. CASE childWrites(s)
    <3>1. /\ phase \notin {"new", "over"} /\ s \notin ended /\ pipe' = [pipe EXCEPT ![s] = @ + 1]
          /\ phase' = phase /\ ended' = ended /\ readers' = readers /\ incomplete' = incomplete
      BY <2>2 DEF childWrites, ownVars
    <3>2. pipe' \in [Streams -> Nat] /\ \A r \in Streams : r # s => pipe'[r] = pipe[r]
      BY <3>1 DEF ReadersInv
    <3>3. readers[s] # "eof"
      BY <3>1 DEF ReadersInv
    <3> QED
      BY <3>1, <3>2, <3>3 DEF ReadersInv
  <2>3. CASE childCloses(s)
    BY <2>3 DEF childCloses, ownVars, ReadersInv
  <2>4. CASE reads(s)
    <3>1. PICK n, count : Adds(s, n, count)
      BY <2>4, ReadsIs
    <3>2. /\ phase \notin {"new", "over"} /\ readers[s] = "reading"
          /\ phase' = phase /\ ended' = ended /\ readers' = readers
          /\ incomplete' = (incomplete \/ spool'.error)
      BY <2>4 DEF reads, ownVars
    <3>3. pipe' = [pipe EXCEPT ![s] = @ - n] /\ n \in Nat /\ n <= pipe[s]
      BY <3>1 DEF Adds
    <3>4. pipe' \in [Streams -> Nat] /\ \A r \in Streams : r # s => pipe'[r] = pipe[r]
      <4>1. pipe[s] - n \in Nat
        BY <3>3 DEF ReadersInv
      <4> QED
        BY <3>3, <4>1 DEF ReadersInv
    <3>5. incomplete' \in BOOLEAN /\ (incomplete => incomplete')
      BY <3>2 DEF ReadersInv
    <3>6. phase # "drained"
      BY <3>2 DEF ReadersInv
    <3> QED
      BY <3>2, <3>4, <3>5, <3>6 DEF ReadersInv
  <2>5. CASE readerEnds(s)
    <3>1. PICK end \in {"eof", "failed"} :
            /\ readers' = [readers EXCEPT ![s] = end] /\ (end = "eof" => pipe[s] = 0 /\ s \in ended)
      BY <2>5 DEF readerEnds
    <3>2. /\ phase \notin {"new", "over"} /\ readers[s] = "reading"
          /\ phase' = phase /\ ended' = ended /\ pipe' = pipe /\ incomplete' = incomplete
      BY <2>5 DEF readerEnds, ownVars
    <3>3. phase # "drained"
      BY <3>2 DEF ReadersInv
    <3>4. /\ readers' \in [Streams -> {"reading", "eof", "failed", "aborted"}]
          /\ \A r \in Streams : readers'[r] = IF r = s THEN end ELSE readers[r]
      BY <3>1 DEF ReadersInv
    <3> QED
      BY <3>1, <3>2, <3>3, <3>4 DEF ReadersInv
  <2> QED
    BY <2>1, <2>2, <2>3, <2>4, <2>5
<1>8. CASE stdinStep
  BY <1>8 DEF stdinStep, write, close_input, takes, puts, putFails, writerEnds, outVars, ownVars,
              ReadersInv
<1>9. CASE observerStep
  <2>1. UNCHANGED <<ownVars, outVars>>
    BY <1>9 DEF observerStep, observe, looks, sleeps, wakes, Observes
  <2> QED
    BY <2>1 DEF outVars, ownVars, ReadersInv
<1>10. CASE terminates \/ resize_terminal
  BY <1>10 DEF terminates, resize_terminal, ownVars, ReadersInv
<1>11. CASE \E who \in Streams \cup {"owner", "writer", "caller"} : notify(who)
  BY <1>11 DEF notify, outVars, ownVars, ReadersInv
<1>12. CASE UNCHANGED vars
  BY <1>12 DEF vars, outVars, ownVars, ReadersInv
<1> QED
  BY <1>1, <1>2, <1>3, <1>4, <1>5, <1>6, <1>7, <1>8, <1>9, <1>10, <1>11, <1>12
     DEF Next, ownerStep

OutputInv == JournalInv /\ CapturedInv /\ ReadersInv

\* At the start there is no output.
LEMMA OutputInit == Init => OutputInv
<1> SUFFICES ASSUME Init PROVE OutputInv
  OBVIOUS
<1>1. origin = <<>> /\ Len(origin) = 0 /\ origin \in Seq(Streams)
  BY DEF Init
<1>2. PICK r : r = 0 /\ journal = [chunks |-> <<>>, start |-> 0, end |-> 0, revision |-> r]
  BY DEF Init, NewJournal
<1>3. /\ journal = [chunks |-> journal.chunks, start |-> journal.start,
                    end |-> journal.end, revision |-> journal.revision]
      /\ journal.chunks = <<>> /\ journal.start = 0 /\ journal.end = 0
  BY <1>2
<1>4. Stretch(<<>>, 0, 0, origin)
  BY NothingLaid
<1>5. JournalInv
  BY <1>1, <1>3, <1>4 DEF JournalInv
<1>6. PICK off \in BOOLEAN, on \in BOOLEAN : off = FALSE /\ on = TRUE
  OBVIOUS
<1>7. spool = [size |-> 0, open |-> on, error |-> off, captured |-> 0, tail |-> <<>>]
  BY <1>6 DEF Init, NewSpool
<1>8. CapturedInv
  BY <1>1, <1>4, <1>6, <1>7 DEF CapturedInv, SpoolInv
<1>9. ReadersInv
  BY DEF Init, ReadersInv
<1> QED
  BY <1>5, <1>8, <1>9 DEF OutputInv

\* Every step keeps the three.
LEMMA OutputStep == OutputInv /\ [Next]_vars => OutputInv'
  BY JournalStep, CapturedStep, ReadersStep DEF OutputInv

\* A file called complete holds all that the command wrote.
LEMMA OutputIsWhole ==
  ASSUME OutputInv, phase = "over"
  PROVE  CompleteFileIsWhole
<1>1. PICK spl, l : spl = spool /\ l = Len(origin)
  OBVIOUS
<1>2. SpoolInv(spl, origin) /\ spl.captured = l
  BY <1>1 DEF OutputInv, CapturedInv
<1>3. PICK a : Stretch(spl.tail, a, l, origin)
  BY <1>2 DEF SpoolInv
<1>4. a \in Nat /\ l \in Nat /\ a <= l /\ Len(Bytes(spl.tail)) = l - a
  BY <1>3, StretchIs
<1>5. PICK count : count = Min({TailCapacity, l - a})
  OBVIOUS
<1>6. count \in Nat /\ count <= l - a
  <2>1. TailCapacity \in Int /\ l - a \in Int /\ TailCapacity >= 0 /\ l - a >= 0
    BY <1>4, SizesAreBytes
  <2>2. count = (IF TailCapacity <= l - a THEN TailCapacity ELSE l - a)
    BY <1>5, <2>1, MinMaxOfTwo
  <2> QED
    BY <2>1, <2>2
<1>7. PICK kept : kept = KeptChunks(spl.tail, count)
  OBVIOUS
<1>8. Stretch(kept, l - count, l, origin)
  BY <1>3, <1>6, <1>7, KeptLaid
<1>9. PICK first : first = l - count
  OBVIOUS
<1>10. first \in Nat /\ first <= l /\ Bytes(kept) = Span(first, l) /\ Len(Bytes(kept)) = l - first
  BY <1>8, <1>9, StretchIs
<1>11. preview(spl, TailCapacity) = kept
  BY <1>4, <1>5, <1>7 DEF preview, TailBytes
<1>12. PICK output : output = Bytes(kept)
  OBVIOUS
<1>13. l - Len(output) = first
  BY <1>4, <1>10, <1>12
<1>14. output = [k \in 1..Len(output) |-> l - Len(output) + k - 1]
  <2>1. Len(output) = l - first
    BY <1>10, <1>12
  <2> QED
    BY <1>10, <1>12, <1>13, <2>1 DEF Span
<1>15. PICK result : result = run_result(spl, incomplete, TailCapacity)
  OBVIOUS
<1>16. PICK c, t : c = Complete(spl, incomplete) /\ t = (incomplete \/ spl.captured > Len(Bytes(kept)))
  OBVIOUS
<1>17. result = [complete |-> c, size |-> spl.size, output |-> kept, truncated |-> t]
  BY <1>11, <1>15, <1>16 DEF run_result
<1>18. result.complete = c /\ result.size = spl.size /\ result.output = kept /\ result.truncated = t
  BY <1>17
<1>19. ASSUME c
       PROVE  result.size = l /\ \A s \in Streams : pipe[s] = 0
  <2>1. ~incomplete /\ ~spl.error
    BY <1>16, <1>19 DEF Complete
  <2>2. spl.size = l
    BY <1>2, <2>1 DEF SpoolInv
  <2>3. \A s \in Streams : pipe[s] = 0
    BY <2>1 DEF OutputInv, ReadersInv
  <2> QED
    BY <1>18, <2>2, <2>3
<1>20. ASSUME ~t
       PROVE  Len(output) = l
  <2>1. ~(l > Len(output))
    BY <1>2, <1>12, <1>16, <1>20
  <2> QED
    BY <1>4, <1>10, <1>12, <2>1
<1> QED
  BY <1>1, <1>12, <1>14, <1>15, <1>18, <1>19, <1>20 DEF CompleteFileIsWhole

\* A file that is called complete has every byte the command wrote, none left in a
\* pipe, and a preview not called truncated has them too (drain, append, finalize,
\* run_result).
THEOREM CompleteIsWhole == Spec => []CompleteFileIsWhole
<1>1. OutputInv => CompleteFileIsWhole
  <2>1. phase # "over" => CompleteFileIsWhole
    BY DEF CompleteFileIsWhole
  <2> QED
    BY <2>1, OutputIsWhole
<1> QED
  BY <1>1, OutputInit, OutputStep, PTL DEF Spec

-----------------------------------------------------------------------------
(* What the observers are told. *)

\* A call whose cursor lies in the output and whose last answer told the truth.
Truthful(call, source, over) ==
  /\ call.cursor.offset \in Nat /\ call.cursor.offset <= Len(source)
  /\ call.pc # "idle" => call.limit \in Limits
  /\ call.last = NoObservation \/ Told(call.last, source, over)

ToldInv ==
  /\ ObserversAreCalls
  /\ \A o \in Observers : Truthful(observers[o], origin, Finished)
  /\ Finished => phase = "over"

\* What the property asks of an answer.
LEMMA ToldIsProperty ==
  ASSUME OutputInv, ToldInv
  PROVE  NothingSilentlySkipped
<1> SUFFICES ASSUME NEW o \in Observers, observers[o].last # NoObservation
    PROVE  LET seen == observers[o].last
               output == Bytes(seen.output)
               first == seen.next.offset - Len(output)
           IN  /\ output = [k \in 1..Len(output) |-> first + k - 1]
               /\ IF seen.gap THEN first > seen.requested ELSE first = seen.requested
               /\ \A k \in DOMAIN seen.output : \A n \in DOMAIN seen.output[k].data :
                    origin[seen.output[k].data[n] + 1] = seen.output[k].stream
               /\ seen.reason = "finished" => seen.next.offset = Len(origin) /\ ~seen.has_more
  BY DEF NothingSilentlySkipped
<1>1. PICK seen, output, end : /\ seen = observers[o].last /\ output = Bytes(seen.output)
                               /\ end = seen.next.offset
  OBVIOUS
<1>2. Told(seen, origin, Finished)
  BY <1>1 DEF ToldInv, Truthful
<1>3. PICK first : /\ Stretch(seen.output, first, end, origin)
                   /\ IF seen.gap THEN first > seen.requested ELSE first = seen.requested
  BY <1>1, <1>2 DEF Told
<1>4. /\ first \in Nat /\ end \in Nat /\ first <= end
      /\ output = Span(first, end) /\ Len(output) = end - first
  BY <1>1, <1>3, StretchIs
<1>5. end - Len(output) = first
  BY <1>4
<1>6. output = [k \in 1..Len(output) |-> first + k - 1]
  BY <1>4 DEF Span
<1>7. \A k \in DOMAIN seen.output : \A n \in DOMAIN seen.output[k].data :
        origin[seen.output[k].data[n] + 1] = seen.output[k].stream
  BY <1>3, StretchSource
<1>8. seen.reason = "finished" => end = Len(origin) /\ ~seen.has_more
  BY <1>1, <1>2 DEF Told
<1> QED
  BY <1>1, <1>3, <1>5, <1>6, <1>7, <1>8

\* More output leaves what was told true.
LEMMA TruthfulStays ==
  ASSUME NEW call, NEW S, NEW source \in Seq(S), NEW over, Truthful(call, source, over),
         NEW more, NEW last, Len(more) \in Nat, Len(source) <= Len(more),
         \A x \in Nat : x < Len(source) => more[x + 1] = source[x + 1],
         over => last /\ more = source
  PROVE  Truthful(call, more, last)
<1>1. PICK l, m : l = Len(source) /\ m = Len(more)
  OBVIOUS
<1>2. l \in Nat /\ m \in Nat /\ l <= m
  BY <1>1
<1>3. call.cursor.offset \in Nat /\ call.cursor.offset <= m
  BY <1>1, <1>2 DEF Truthful
<1>4. CASE call.last # NoObservation
  <2>1. PICK seen : seen = call.last
    OBVIOUS
  <2>2. Told(seen, source, over)
    BY <1>4, <2>1 DEF Truthful
  <2>3. PICK first, end : /\ end = seen.next.offset /\ Stretch(seen.output, first, end, source)
                          /\ IF seen.gap THEN first > seen.requested ELSE first = seen.requested
    BY <2>2 DEF Told
  <2>4. end \in Nat /\ end <= l
    BY <1>1, <2>2, <2>3 DEF Told
  <2>5. \A x \in Nat : x < end => more[x + 1] = source[x + 1]
    <3>1. ASSUME NEW x \in Nat, x < end
          PROVE  more[x + 1] = source[x + 1]
      <4>1. x < l
        BY <1>2, <2>4, <3>1
      <4> QED
        BY <1>1, <4>1
    <3> QED
      BY <3>1
  <2>6. Stretch(seen.output, first, end, more)
    BY <2>3, <2>5, StretchKeeps
  <2>7. end <= m
    BY <1>2, <2>4
  <2>8. seen.reason = "finished" => last /\ end = m /\ ~seen.has_more
    BY <1>1, <2>2, <2>3 DEF Told
  <2>9. Told(seen, more, last)
    BY <1>1, <2>3, <2>4, <2>6, <2>7, <2>8 DEF Told
  <2> QED
    BY <1>1, <1>3, <2>1, <2>9 DEF Truthful
<1>5. CASE call.last = NoObservation
  BY <1>1, <1>3, <1>5 DEF Truthful
<1> QED
  BY <1>4, <1>5

\* An execution that is over stays over, and nothing is read any more.
LEMMA OverIsOver ==
  ASSUME ToldInv, [Next]_vars
  PROVE  /\ Finished' => phase' = "over"
         /\ Finished => Finished' /\ \A s \in Streams : ~reads(s)
<1>0. Finished => phase = "over"
  BY DEF ToldInv
<1>1. CASE ownerStep
  <2>1. CASE launches
    BY <1>0, <2>1 DEF launches, reads, Finished
  <2>2. CASE spawnFails
    BY <1>0, <2>2 DEF spawnFails, Finishes, reads, Finished
  <2>3. CASE rootExits
    BY <1>0, <2>3 DEF rootExits, reads, Finished
  <2>4. CASE killsRest
    BY <1>0, <2>4 DEF killsRest, reads, Finished
  <2>5. CASE drains
    BY <1>0, <2>5 DEF drains, reads, Finished
  <2>6. CASE drainTimesOut
    BY <1>0, <2>6 DEF drainTimesOut, reads, Finished
  <2>7. CASE finishes
    BY <1>0, <2>7 DEF finishes, Finishes, reads, Finished
  <2> QED
    BY <1>1, <2>1, <2>2, <2>3, <2>4, <2>5, <2>6, <2>7 DEF ownerStep
<1>2. CASE terminates
  BY <1>0, <1>2 DEF terminates, Finished
<1>3. CASE UNCHANGED ownVars
  BY <1>0, <1>3 DEF ownVars, reads, Finished
<1>4. outputStep => UNCHANGED ownVars
  BY DEF outputStep, childWrites, childCloses, reads, readerEnds
<1>5. stdinStep => UNCHANGED ownVars
  BY DEF stdinStep, write, close_input, takes, puts, putFails, writerEnds
<1>6. observerStep => UNCHANGED ownVars
  BY DEF observerStep, observe, looks, sleeps, wakes, Observes
<1>7. resize_terminal => UNCHANGED ownVars
  BY DEF resize_terminal
<1>8. (\E who \in Streams \cup {"owner", "writer", "caller"} : notify(who)) => UNCHANGED ownVars
  BY DEF notify
<1>9. UNCHANGED vars => UNCHANGED ownVars
  BY DEF vars
<1> QED
  BY <1>1, <1>2, <1>3, <1>4, <1>5, <1>6, <1>7, <1>8, <1>9 DEF Next

\* What is computed from an observation as the answer of a call.
Recorded(requested, seen) ==
  [requested |-> requested, output |-> seen.output, next |-> seen.next, gap |-> seen.gap,
   has_more |-> seen.has_more, reason |-> seen.reason]

\* An observation: all its parts.
LEMMA ObservationIs ==
  ASSUME NEW o
  PROVE  \E out, nxt, more, gap, why :
           Seen(o) = [output |-> out, next |-> nxt, has_more |-> more, gap |-> gap,
                      reason |-> why]
<1> DEFINE begin == Max({observers[o].cursor.offset, journal.start})
           end == Min({journal.end, begin + observers[o].limit})
           out == Cut(journal, begin, end)
           nxt == [offset |-> end, revision |-> journal.revision]
           gap == Gap(journal, observers[o].cursor.offset)
           more == end < journal.end
           news == out # <<>> \/ gap \/ observers[o].cursor.revision < journal.revision
           limit == observers[o].limit
           why == CASE end - begin >= limit -> "output_limit"
                    [] end - begin < limit /\ Finished -> "finished"
                    [] end - begin < limit /\ ~Finished /\ news -> "activity"
                    [] OTHER -> "wait_elapsed"
<1>1. Seen(o) = [output |-> out, next |-> nxt, has_more |-> more, gap |-> gap, reason |-> why]
  BY Zenon DEF Seen, read
<1> HIDE DEF out, nxt, gap, more, why
<1> QED
  BY <1>1, Zenon

\* The call that has been answered, and its answer.
LEMMA AnsweredIs ==
  ASSUME NEW o, NEW seen, NEW next
  PROVE  LET new == Answered(o, seen, next)
         IN  /\ IsCall(new) /\ new.pc = "idle" /\ new.cursor = next
             /\ new.last = Recorded(observers[o].cursor.offset, seen)
<1>1. PICK c, l : c = observers[o].calls /\ l = Recorded(observers[o].cursor.offset, seen)
  OBVIOUS
<1>2. PICK n, s : n = NoObservation /\ s = NoCursor
  OBVIOUS
<1>3. Ready = [pc |-> "idle", cursor |-> s, when |-> "activity", limit |-> 0,
               signal |-> FALSE, late |-> FALSE, calls |-> 0, last |-> n]
  BY <1>2 DEF Ready
<1>4. Answered(o, seen, next) = [Ready EXCEPT !.cursor = next, !.calls = c, !.last = l]
  BY <1>1 DEF Answered, Recorded
<1> DEFINE new == [pc |-> "idle", cursor |-> next, when |-> "activity", limit |-> 0,
                   signal |-> FALSE, late |-> FALSE, calls |-> c, last |-> l]
<1>5. Answered(o, seen, next) = new
  BY <1>3, <1>4
<1>6. IsCall(new)
  BY Zenon DEF IsCall
<1>7. new.pc = "idle" /\ new.cursor = next /\ new.last = l
  OBVIOUS
<1> HIDE DEF new
<1> QED
  BY <1>1, <1>5, <1>6, <1>7

\* An observer's step takes its call on, or answers it.
LEMMA CallGoesOn ==
  ASSUME ObserversAreCalls, NEW o \in Observers,
         observe(o) \/ looks(o) \/ sleeps(o) \/ wakes(o)
  PROVE  \E new :
           /\ Observes(o, new) /\ IsCall(new)
           /\ \/ /\ new.cursor = observers[o].cursor /\ new.last = observers[o].last
                 /\ \/ new.limit \in Limits
                    \/ new.limit = observers[o].limit /\ observers[o].pc # "idle"
              \/ /\ observers[o].pc # "idle" /\ new.pc = "idle"
                 /\ new.cursor \in {Seen(o).next, observers[o].cursor}
                 /\ new.last.reason # "finished" \/ new.last.reason = Seen(o).reason
                 /\ \E reason : new.last =
                      Recorded(observers[o].cursor.offset, [Seen(o) EXCEPT !.reason = reason])
<1>1. PICK pc, cursor, when, limit, signal, late, calls, last :
        observers[o] = [pc |-> pc, cursor |-> cursor, when |-> when, limit |-> limit,
                        signal |-> signal, late |-> late, calls |-> calls, last |-> last]
  BY DEF ObserversAreCalls, IsCall
<1>2. CASE observe(o)
  <2>1. PICK more : more = observers[o].calls + 1
    OBVIOUS
  <2>14. PICK w : \E n \in Limits :
          Observes(o, [observers[o] EXCEPT !.pc = "armed", !.when = w, !.limit = n,
                                           !.calls = more])
    BY <1>2, <2>1 DEF observe
  <2>2. PICK n \in Limits :
          Observes(o, [observers[o] EXCEPT !.pc = "armed", !.when = w, !.limit = n,
                                           !.calls = more])
    BY <2>14
  <2>3. PICK x : x = [observers[o] EXCEPT !.pc = "armed"]
    OBVIOUS
  <2>4. PICK y : y = [x EXCEPT !.when = w]
    OBVIOUS
  <2>5. PICK z : z = [y EXCEPT !.limit = n]
    OBVIOUS
  <2>6. x = [pc |-> "armed", cursor |-> cursor, when |-> when, limit |-> limit,
             signal |-> signal, late |-> late, calls |-> calls, last |-> last]
    BY <1>1, <2>3
  <2>7. y = [pc |-> "armed", cursor |-> cursor, when |-> w, limit |-> limit,
             signal |-> signal, late |-> late, calls |-> calls, last |-> last]
    BY <2>4, <2>6
  <2>8. z = [pc |-> "armed", cursor |-> cursor, when |-> w, limit |-> n,
             signal |-> signal, late |-> late, calls |-> calls, last |-> last]
    BY <2>5, <2>7
  <2>9. PICK new : new = [z EXCEPT !.calls = more]
    OBVIOUS
  <2>10. new = [pc |-> "armed", cursor |-> cursor, when |-> w, limit |-> n,
                signal |-> signal, late |-> late, calls |-> more, last |-> last]
    BY <2>8, <2>9
  <2>11. Observes(o, new)
    BY <2>2, <2>3, <2>4, <2>5, <2>9
  <2>12. IsCall(new)
    BY <2>10, Zenon DEF IsCall
  <2>13. new.cursor = observers[o].cursor /\ new.last = observers[o].last /\ new.limit \in Limits
    BY <1>1, <2>2, <2>10
  <2> QED
    BY <2>11, <2>12, <2>13
<1>3. ASSUME NEW p, NEW new, new = [observers[o] EXCEPT !.pc = p]
      PROVE  /\ IsCall(new) /\ new.cursor = observers[o].cursor /\ new.last = observers[o].last
             /\ new.limit = observers[o].limit
  <2>1. new = [pc |-> p, cursor |-> cursor, when |-> when, limit |-> limit,
               signal |-> signal, late |-> late, calls |-> calls, last |-> last]
    BY <1>1, <1>3
  <2>2. IsCall(new)
    BY <2>1, Zenon DEF IsCall
  <2> QED
    BY <1>1, <2>1, <2>2
<1>5. CASE sleeps(o)
  <2>1. observers[o].pc = "quiet" /\ Observes(o, [observers[o] EXCEPT !.pc = "asleep"])
    BY <1>5 DEF sleeps
  <2>2. PICK new : new = [observers[o] EXCEPT !.pc = "asleep"]
    OBVIOUS
  <2>3. /\ IsCall(new) /\ new.cursor = observers[o].cursor /\ new.last = observers[o].last
        /\ new.limit = observers[o].limit
    BY <1>3, <2>2
  <2> QED
    BY <2>1, <2>2, <2>3
<1>6. CASE wakes(o)
  <2>1. PICK off \in BOOLEAN : off = FALSE
    OBVIOUS
  <2>2. PICK b : Observes(o, [observers[o] EXCEPT !.pc = "armed", !.signal = off, !.late = b])
    BY <1>6, <2>1 DEF wakes
  <2>6. PICK x : x = [observers[o] EXCEPT !.pc = "armed"]
    OBVIOUS
  <2>7. PICK y : y = [x EXCEPT !.signal = off]
    OBVIOUS
  <2>3. PICK new : new = [y EXCEPT !.late = b]
    OBVIOUS
  <2>8. x = [pc |-> "armed", cursor |-> cursor, when |-> when, limit |-> limit,
             signal |-> signal, late |-> late, calls |-> calls, last |-> last]
    BY <1>1, <2>6
  <2>9. y = [pc |-> "armed", cursor |-> cursor, when |-> when, limit |-> limit,
             signal |-> off, late |-> late, calls |-> calls, last |-> last]
    BY <2>7, <2>8
  <2>10. new = [pc |-> "armed", cursor |-> cursor, when |-> when, limit |-> limit,
                signal |-> off, late |-> b, calls |-> calls, last |-> last]
    BY <2>3, <2>9
  <2>11. IsCall(new)
    BY <2>10, Zenon DEF IsCall
  <2>4. /\ IsCall(new) /\ new.cursor = observers[o].cursor /\ new.last = observers[o].last
        /\ new.limit = observers[o].limit
    BY <1>1, <2>10, <2>11
  <2>12. Observes(o, new)
    BY <2>2, <2>3, <2>6, <2>7
  <2>5. observers[o].pc # "idle"
    BY <1>6 DEF wakes
  <2> QED
    BY <2>4, <2>5, <2>12
<1>7. CASE looks(o)
  <2>1. PICK seen : seen = Seen(o)
    OBVIOUS
  <2>2. PICK out, nxt, more, gap, why :
          seen = [output |-> out, next |-> nxt, has_more |-> more, gap |-> gap, reason |-> why]
    BY <2>1, ObservationIs
  <2>3. ASSUME NEW r
        PROVE  /\ [seen EXCEPT !.reason = r] = [output |-> out, next |-> nxt, has_more |-> more,
                                                gap |-> gap, reason |-> r]
    BY <2>2
  <2>4. seen = [seen EXCEPT !.reason = why] /\ seen.reason = why
    BY <2>2
  <2>5. ASSUME NEW r, r # "finished" \/ r = why, NEW next, next \in {seen.next, observers[o].cursor},
               NEW shown, shown = [seen EXCEPT !.reason = r],
               Observes(o, Answered(o, shown, next)), observers[o].pc # "idle"
        PROVE  \E new :
           /\ Observes(o, new) /\ IsCall(new)
           /\ observers[o].pc # "idle" /\ new.pc = "idle"
           /\ new.cursor \in {seen.next, observers[o].cursor}
           /\ new.last.reason # "finished" \/ new.last.reason = seen.reason
           /\ \E reason : new.last =
                Recorded(observers[o].cursor.offset, [seen EXCEPT !.reason = reason])
    <3>1. PICK new : new = Answered(o, shown, next)
      OBVIOUS
    <3>2. /\ IsCall(new) /\ new.pc = "idle" /\ new.cursor = next
          /\ new.last = Recorded(observers[o].cursor.offset, shown)
      BY <3>1, AnsweredIs
    <3>3. shown.reason = r
      BY <2>3, <2>5
    <3>4. new.last.reason = r
      BY <3>2, <3>3 DEF Recorded
    <3>5. \E reason : new.last =
            Recorded(observers[o].cursor.offset, [seen EXCEPT !.reason = reason])
      BY <2>5, <3>2
    <3>6. Observes(o, new) /\ new.cursor \in {seen.next, observers[o].cursor}
      BY <2>5, <3>1, <3>2
    <3>7. new.last.reason # "finished" \/ new.last.reason = seen.reason
      BY <2>4, <2>5, <3>4
    <3> QED
      BY <2>5, <3>2, <3>5, <3>6, <3>7
  <2>6. observers[o].pc = "armed"
    BY <1>7 DEF looks
  <2>7. CASE Immediate(o, seen)
    <3>1. PICK next \in {seen.next, observers[o].cursor} : Observes(o, Answered(o, seen, next))
      BY <1>7, <2>1, <2>7 DEF looks
    <3>2. \E new :
           /\ Observes(o, new) /\ IsCall(new)
           /\ observers[o].pc # "idle" /\ new.pc = "idle"
           /\ new.cursor \in {seen.next, observers[o].cursor}
           /\ new.last.reason # "finished" \/ new.last.reason = seen.reason
           /\ \E reason : new.last =
                Recorded(observers[o].cursor.offset, [seen EXCEPT !.reason = reason])
      BY <2>4, <2>5, <2>6, <3>1
    <3> QED
      BY <2>1, <3>2
  <2>8. CASE ~Immediate(o, seen) /\ observers[o].late
    <3>1. Observes(o, Answered(o, [seen EXCEPT !.reason = "wait_elapsed"], seen.next))
      BY <1>7, <2>1, <2>8 DEF looks
    <3>2. PICK shown, r : r = "wait_elapsed" /\ shown = [seen EXCEPT !.reason = r]
      OBVIOUS
    <3>3. Observes(o, Answered(o, shown, seen.next)) /\ r # "finished"
      BY <3>1, <3>2
    <3>4. \E new :
           /\ Observes(o, new) /\ IsCall(new)
           /\ observers[o].pc # "idle" /\ new.pc = "idle"
           /\ new.cursor \in {seen.next, observers[o].cursor}
           /\ new.last.reason # "finished" \/ new.last.reason = seen.reason
           /\ \E reason : new.last =
                Recorded(observers[o].cursor.offset, [seen EXCEPT !.reason = reason])
      BY <2>5, <2>6, <3>2, <3>3
    <3> QED
      BY <2>1, <3>4
  <2>9. CASE ~Immediate(o, seen) /\ ~observers[o].late
    <3>1. Observes(o, [observers[o] EXCEPT !.pc = "quiet"])
      BY <1>7, <2>1, <2>9 DEF looks
    <3>2. PICK new : new = [observers[o] EXCEPT !.pc = "quiet"]
      OBVIOUS
    <3>3. /\ IsCall(new) /\ new.cursor = observers[o].cursor /\ new.last = observers[o].last
          /\ new.limit = observers[o].limit
      BY <1>3, <3>2
    <3> QED
      BY <2>6, <3>1, <3>2, <3>3
  <2> QED
    BY <2>7, <2>8, <2>9
<1> QED
  BY <1>2, <1>5, <1>6, <1>7

\* What an observer reads now it is told truthfully, under whatever reason but
\* that all is over.
LEMMA SeenIsTold ==
  ASSUME OutputInv, ToldInv, NEW o \in Observers, observers[o].pc # "idle", NEW last, NEW reason,
         last = Recorded(observers[o].cursor.offset, [Seen(o) EXCEPT !.reason = reason]),
         last.reason # "finished" \/ last.reason = Seen(o).reason
  PROVE  /\ Told(last, origin, Finished)
         /\ Seen(o).next.offset \in Nat /\ Seen(o).next.offset <= Len(origin)
<1>1. PICK jrnl, cursor, limit, over :
        /\ jrnl = journal /\ cursor = observers[o].cursor /\ limit = observers[o].limit
        /\ over = Finished
  OBVIOUS
<1>2. PICK seen : seen = Seen(o)
  OBVIOUS
<1>3. seen = read(jrnl, cursor, limit, over)
  BY <1>1, <1>2 DEF Seen
<1>4. Stretch(jrnl.chunks, jrnl.start, jrnl.end, origin) /\ jrnl.end = Len(origin)
  BY <1>1 DEF OutputInv, JournalInv
<1>5. cursor.offset \in Nat /\ cursor.offset <= jrnl.end /\ limit \in Nat \ {0}
  BY <1>1, <1>4, SizesAreBytes DEF ToldInv, Truthful
<1>6. PICK told : told = Recorded(cursor.offset, seen)
  OBVIOUS
<1>7. Told([requested |-> cursor.offset, output |-> seen.output, next |-> seen.next,
            gap |-> seen.gap, has_more |-> seen.has_more, reason |-> seen.reason], origin, over)
  BY <1>3, <1>4, <1>5, ReadTells
<1>8. Told(told, origin, over)
  BY <1>6, <1>7 DEF Recorded
<1>9. PICK out, nxt, more, gap, why :
        seen = [output |-> out, next |-> nxt, has_more |-> more, gap |-> gap, reason |-> why]
  BY <1>2, ObservationIs
<1>10. PICK r : r = cursor.offset
  OBVIOUS
<1>11. told = [requested |-> r, output |-> out, next |-> nxt, gap |-> gap,
               has_more |-> more, reason |-> why]
  BY <1>6, <1>9, <1>10 DEF Recorded
<1>12. last = [requested |-> r, output |-> out, next |-> nxt, gap |-> gap,
               has_more |-> more, reason |-> reason]
  <2>1. PICK shown : shown = [seen EXCEPT !.reason = reason]
    OBVIOUS
  <2>2. shown = [output |-> out, next |-> nxt, has_more |-> more, gap |-> gap, reason |-> reason]
    BY <1>9, <2>1
  <2>3. last = Recorded(r, shown)
    BY <1>1, <1>2, <1>10, <2>1
  <2> QED
    BY <2>2, <2>3 DEF Recorded
<1>13. /\ last.requested = told.requested /\ last.output = told.output /\ last.next = told.next
       /\ last.gap = told.gap /\ last.has_more = told.has_more
  BY <1>11, <1>12
<1>14. last.reason = "finished" => told.reason = "finished"
  <2>1. seen.reason = why /\ told.reason = why
    BY <1>9, <1>11
  <2> QED
    BY <1>2, <2>1
<1>15. Told(last, origin, over)
  BY <1>8, <1>13, <1>14 DEF Told
<1>16. seen.next = told.next
  BY <1>9, <1>11
<1>17. seen.next.offset \in Nat /\ seen.next.offset <= Len(origin)
  BY <1>8, <1>16 DEF Told
<1> QED
  BY <1>1, <1>2, <1>15, <1>17

\* A step of an observer leaves it with the truth.
LEMMA ObserversStayTold ==
  ASSUME OutputInv, ToldInv, observerStep
  PROVE  ToldInv'
<1>1. PICK o \in Observers : observe(o) \/ looks(o) \/ sleeps(o) \/ wakes(o)
  BY DEF observerStep
<1>2. ObserversAreCalls
  BY DEF ToldInv
<1>3. PICK new :
           /\ Observes(o, new) /\ IsCall(new)
           /\ \/ /\ new.cursor = observers[o].cursor /\ new.last = observers[o].last
                 /\ \/ new.limit \in Limits
                    \/ new.limit = observers[o].limit /\ observers[o].pc # "idle"
              \/ /\ observers[o].pc # "idle" /\ new.pc = "idle"
                 /\ new.cursor \in {Seen(o).next, observers[o].cursor}
                 /\ new.last.reason # "finished" \/ new.last.reason = Seen(o).reason
                 /\ \E reason : new.last =
                      Recorded(observers[o].cursor.offset, [Seen(o) EXCEPT !.reason = reason])
  BY <1>1, <1>2, CallGoesOn
<1>4. /\ observers' = [observers EXCEPT ![o] = new]
      /\ origin' = origin /\ phase' = phase /\ Finished' = Finished
  BY <1>3 DEF Observes, outVars, ownVars, Finished
<1>5. observers' = [p \in Observers |-> IF p = o THEN new ELSE observers[p]]
  BY <1>2, <1>4 DEF ObserversAreCalls
<1>6. \A p \in Observers : observers'[p] = IF p = o THEN new ELSE observers[p]
  BY <1>5
<1>7. Truthful(observers[o], origin, Finished)
  BY DEF ToldInv
<1>8. Truthful(new, origin, Finished)
  <2>1. CASE /\ new.cursor = observers[o].cursor /\ new.last = observers[o].last
             /\ \/ new.limit \in Limits
                \/ new.limit = observers[o].limit /\ observers[o].pc # "idle"
    BY <1>7, <2>1 DEF Truthful
  <2>2. CASE /\ observers[o].pc # "idle" /\ new.pc = "idle"
             /\ new.cursor \in {Seen(o).next, observers[o].cursor}
             /\ new.last.reason # "finished" \/ new.last.reason = Seen(o).reason
             /\ \E reason : new.last =
                  Recorded(observers[o].cursor.offset, [Seen(o) EXCEPT !.reason = reason])
    <3>1. PICK last, reason : /\ last = new.last
                              /\ last = Recorded(observers[o].cursor.offset,
                                                 [Seen(o) EXCEPT !.reason = reason])
      BY <2>2
    <3>2. /\ Told(last, origin, Finished)
          /\ Seen(o).next.offset \in Nat /\ Seen(o).next.offset <= Len(origin)
      BY <2>2, <3>1, SeenIsTold
    <3>3. new.cursor.offset \in Nat /\ new.cursor.offset <= Len(origin)
      BY <1>7, <2>2, <3>2 DEF Truthful
    <3> QED
      BY <2>2, <3>1, <3>2, <3>3 DEF Truthful
  <2> QED
    BY <1>3, <2>1, <2>2
<1>9. ObserversAreCalls'
  BY <1>2, <1>3, <1>5, <1>6 DEF ObserversAreCalls
<1>10. ASSUME NEW p \in Observers
       PROVE  Truthful(observers'[p], origin, Finished)
  BY <1>6, <1>8 DEF ToldInv
<1>11. Finished => phase = "over"
  BY DEF ToldInv
<1> QED
  BY <1>4, <1>9, <1>10, <1>11 DEF ToldInv, Truthful, Told

\* A notification changes no answer.
LEMMA NotifyStaysTold ==
  ASSUME ToldInv, NEW who, notify(who)
  PROVE  ToldInv'
<1>1. observers' = [o \in Observers |->
        IF observers[o].pc \in {"armed", "quiet", "asleep"}
        THEN [observers[o] EXCEPT !.signal = TRUE] ELSE observers[o]]
  BY DEF notify
<1>2. origin' = origin /\ phase' = phase /\ Finished' = Finished
  BY DEF notify, outVars, ownVars, Finished
<1>3. ASSUME NEW o \in Observers
      PROVE  IsCall(observers'[o]) /\ Truthful(observers'[o], origin, Finished)
  <2>1. PICK pc, cursor, when, limit, signal, late, calls, last :
          observers[o] = [pc |-> pc, cursor |-> cursor, when |-> when, limit |-> limit,
                          signal |-> signal, late |-> late, calls |-> calls, last |-> last]
    BY DEF ToldInv, ObserversAreCalls, IsCall
  <2>2. CASE observers[o].pc \in {"armed", "quiet", "asleep"}
    <3>1. PICK on \in BOOLEAN : on = TRUE
      OBVIOUS
    <3>2. observers'[o] = [observers[o] EXCEPT !.signal = TRUE]
      BY <1>1, <2>2
    <3>3. observers'[o] = [observers[o] EXCEPT !.signal = on]
      BY <3>1, <3>2
    <3>4. observers'[o] = [pc |-> pc, cursor |-> cursor, when |-> when, limit |-> limit,
                           signal |-> on, late |-> late, calls |-> calls, last |-> last]
      BY <2>1, <3>3
    <3>5. IsCall(observers'[o])
      BY <3>4, Zenon DEF IsCall
    <3>6. /\ observers'[o].cursor = observers[o].cursor /\ observers'[o].pc = observers[o].pc
          /\ observers'[o].limit = observers[o].limit /\ observers'[o].last = observers[o].last
      BY <2>1, <3>4
    <3> QED
      BY <3>5, <3>6 DEF ToldInv, Truthful
  <2>3. CASE observers[o].pc \notin {"armed", "quiet", "asleep"}
    BY <1>1, <2>3 DEF ToldInv, ObserversAreCalls
  <2> QED
    BY <2>2, <2>3
<1>4. observers' = [o \in Observers |-> observers'[o]]
  BY <1>1
<1>5. ObserversAreCalls'
  BY <1>3, <1>4 DEF ObserversAreCalls
<1>6. Finished => phase = "over"
  BY DEF ToldInv
<1> QED
  BY <1>2, <1>3, <1>5, <1>6 DEF ToldInv, Truthful, Told

\* Every step keeps every observer told the truth.
LEMMA ToldStep == OutputInv /\ ToldInv /\ [Next]_vars => ToldInv'
<1> SUFFICES ASSUME OutputInv, ToldInv, [Next]_vars PROVE ToldInv'
  OBVIOUS
<1>1. CASE observerStep
  BY <1>1, ObserversStayTold
<1>2. CASE \E who \in Streams \cup {"owner", "writer", "caller"} : notify(who)
  BY <1>2, NotifyStaysTold
<1>3. CASE observers' = observers
  <2>1. PICK source, more, over, after :
          source = origin /\ more = origin' /\ over = Finished /\ after = Finished'
    OBVIOUS
  <2>2. /\ Finished' => phase' = "over"
        /\ Finished => Finished' /\ \A s \in Streams : ~reads(s)
    BY OverIsOver
  <2>3. /\ Len(more) \in Nat /\ Len(source) <= Len(more) /\ source \in Seq(Streams)
        /\ \A x \in Nat : x < Len(source) => more[x + 1] = source[x + 1]
        /\ over => after /\ more = source
    <3>1. CASE \E s \in Streams : reads(s)
      <4>1. PICK s \in Streams : reads(s)
        BY <3>1
      <4>2. PICK n, count : Adds(s, n, count)
        BY <4>1, ReadsIs DEF OutputInv
      <4>3. source \in Seq(Streams) /\ Len(source) \in Nat
        BY <2>1 DEF OutputInv, JournalInv
      <4>4. n \in Nat /\ Len(more) = Len(source) + n
        BY <2>1, <4>2 DEF Adds
      <4>5. \A x \in Nat : x < Len(source) => more[x + 1] = source[x + 1]
        BY <2>1, <4>2 DEF Adds
      <4>6. ~over
        BY <2>1, <2>2, <4>1
      <4> QED
        BY <4>3, <4>4, <4>5, <4>6
    <3>2. CASE origin' = origin
      BY <2>1, <2>2, <3>2 DEF OutputInv, JournalInv
    <3> QED
      BY <3>1, <3>2, OtherSteps
  <2>4. ASSUME NEW o \in Observers
        PROVE  Truthful(observers[o], more, after)
    <3>1. PICK call : call = observers[o]
      OBVIOUS
    <3>2. Truthful(call, source, over)
      BY <2>1, <3>1 DEF ToldInv
    <3>3. Truthful(call, more, after)
      BY <2>3, <3>2, TruthfulStays
    <3> QED
      BY <3>1, <3>3
  <2>5. \A o \in Observers : Truthful(observers'[o], origin', Finished')
    BY <1>3, <2>1, <2>4
  <2>6. ObserversAreCalls'
    BY <1>3 DEF ToldInv, ObserversAreCalls
  <2> QED
    BY <2>2, <2>5, <2>6 DEF ToldInv, Truthful, Told
<1>4. CASE ownerStep
  <2>1. observers' = observers
    BY <1>4 DEF ownerStep, launches, spawnFails, finishes, Finishes, rootExits, killsRest, drains,
                drainTimesOut
  <2> QED
    BY <1>3, <2>1
<1>5. CASE outputStep \/ stdinStep \/ terminates \/ resize_terminal \/ UNCHANGED vars
  <2>1. observers' = observers
    BY <1>5 DEF outputStep, childWrites, childCloses, reads, readerEnds, stdinStep, write,
                close_input, takes, puts, putFails, writerEnds, terminates, resize_terminal, vars
  <2> QED
    BY <1>3, <2>1
<1> QED
  BY <1>1, <1>2, <1>4, <1>5 DEF Next

\* At the start nobody has been told anything.
LEMMA ToldInit == Init => ToldInv
<1> SUFFICES ASSUME Init PROVE ToldInv
  OBVIOUS
<1>1. PICK n, s, off : n = NoObservation /\ s = NoCursor /\ off = FALSE
  OBVIOUS
<1>2. Ready = [pc |-> "idle", cursor |-> s, when |-> "activity", limit |-> 0,
               signal |-> off, late |-> off, calls |-> 0, last |-> n]
  BY <1>1 DEF Ready
<1>3. PICK other : other = [Ready EXCEPT !.calls = MaxObservations]
  OBVIOUS
<1>4. other = [pc |-> "idle", cursor |-> s, when |-> "activity", limit |-> 0,
               signal |-> off, late |-> off, calls |-> MaxObservations, last |-> n]
  BY <1>2, <1>3
<1>5. IsCall(Ready)
  BY <1>2, Zenon DEF IsCall
<1>6. IsCall(other)
  BY <1>4, Zenon DEF IsCall
<1>7. s.offset = 0
  BY <1>1 DEF NoCursor
<1>8. Len(origin) = 0
  BY DEF Init
<1>9. Truthful(Ready, origin, Finished)
  BY <1>1, <1>2, <1>7, <1>8 DEF Truthful
<1>10. Truthful(other, origin, Finished)
  BY <1>1, <1>4, <1>7, <1>8 DEF Truthful
<1>11. observers \in [Observers -> {Ready, other}]
  BY <1>3 DEF Init
<1>12. Finished => phase = "over"
  BY DEF Init, Finished
<1> QED
  BY <1>5, <1>6, <1>9, <1>10, <1>11, <1>12 DEF ToldInv, ObserversAreCalls

\* The answers of an observer follow one another byte for byte, each byte of the
\* stream it came from, or say that there is a gap; and the answer that all is over
\* comes with the last of the output (Journal::append, Journal::read).
THEOREM NothingEverSkipped == Spec => []NothingSilentlySkipped
<1>1. OutputInv /\ ToldInv => NothingSilentlySkipped
  BY ToldIsProperty
<1> QED
  BY <1>1, OutputInit, OutputStep, ToldInit, ToldStep, PTL DEF Spec
=============================================================================
