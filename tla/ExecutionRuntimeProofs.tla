----------------------- MODULE ExecutionRuntimeProofs -----------------------
(***************************************************************************)
(* The runtime of ExecutionRuntime, for any identities, callers and limits:*)
(* the registry's maps agree, nothing is left running behind a result that *)
(* does not say so, a cancelled run never spawns, a shutdown is final, and *)
(* the first reason to stop decides.                                       *)
(***************************************************************************)
EXTENDS ExecutionRuntime, FiniteSetTheorems, TLAPS

Live == {"starting", "running", "stopping"}

\* A session x, the task o that runs it and its processes p: where the task is
\* tells what the session shows and what may be running.
SessionOK(x, o, p) ==
  /\ x.state = "absent" => ~x.cancelled /\ o.at = "none"
  /\ x.state = "running" => o.at = "loop"
  /\ x.state \in {"absent", "starting", "running"} => x.stop = "none"
  /\ x.state = "finished" =>
       o.at \in {"none", "done"} /\ (x.result # "lost" => p.root # "alive" /\ ~p.rest)
  /\ o.at \in {"none", "spawn"} => p.root = "none" /\ ~p.rest
  /\ o.at = "spawn" => x.state \in {"starting", "stopping"}
  /\ o.at = "loop" => x.state \in {"running", "stopping"}
  /\ o.at \in {"exited", "drain"} => x.state = "stopping"
  /\ o.at = "drain" => o.failed \/ (p.root # "alive" /\ ~p.rest)
  /\ o.at = "done" => x.state = "finished"
  /\ o.timer => o.at \notin {"none", "done"}
  /\ x.cancelled => o.at = "none"

SessionsInv == \A s \in Sequences : SessionOK(sessions[s], owner[s], process[s])

\* Sequences are handed out in order.
Created ==
  /\ NextSequence \in Nat
  /\ \A s \in Sequences : (sessions[s].state # "absent") = (s < NextSequence)

\* The registry knows executions that were created, and forgets only those that
\* have finished.
EntriesInv ==
  /\ \A s \in entries : sessions[s].state # "absent"
  /\ \A s \in aged : sessions[s].state = "finished"

\* A call refers to an execution there is; one caller alone is about to launch it.
CallsInv ==
  /\ \A c \in Callers : calls[c].at # "idle" =>
       calls[c].seq \in Sequences /\ sessions[calls[c].seq].state # "absent"
  /\ \A c \in Callers : calls[c].at = "launch" =>
       owner[calls[c].seq].at = "none" /\ sessions[calls[c].seq].state \in Live
  /\ \A c, d \in Callers :
       calls[c].at = "launch" /\ calls[d].at = "launch" /\ calls[c].seq = calls[d].seq => c = d

StopsInv ==
  \A t \in Terminators : stops[t].at = "found" =>
    stops[t].seq \in Sequences /\ sessions[stops[t].seq].state # "absent"

\* Shutdown has collected all that was under way, and nothing comes after it.
ShutdownInv ==
  /\ \A s \in shutdown.left : sessions[s].state # "absent"
  /\ Closing => \A s \in Sequences : sessions[s].state \in Live => s \in shutdown.all
  /\ shutdown.at = "done" => \A s \in Sequences : sessions[s].state \notin Live

RuntimeInv ==
  TypeOK /\ SessionsInv /\ Created /\ EntriesInv /\ RegistrySound /\ CallsInv /\ StopsInv
  /\ ShutdownInv

\* What every step but an admission does to the sessions,
SessionsProgress ==
  \A s \in Sequences :
    /\ sessions'[s].key = sessions[s].key
    /\ (sessions'[s].state = "absent") = (sessions[s].state = "absent")
    /\ sessions'[s].state \in Live => sessions[s].state \in Live
    /\ sessions[s].state = "finished" => sessions'[s].state = "finished"

\* and to the registry, which may forget executions that have finished.
RegistryShrinks ==
  /\ entries' \subseteq entries /\ pending' \subseteq RunIds
  /\ aged' \subseteq entries' /\ stale' \subseteq pending'
  /\ \A s \in aged' : sessions[s].state = "finished"
  /\ \A s \in entries : sessions[s].state \in Live => s \in entries'
  /\ index' \in [Keys -> Sequences \cup {0}]
  /\ \A k \in Keys : index'[k] # 0 => index'[k] = index[k] /\ index'[k] \in entries'
  /\ \A s \in entries : sessions[s].state \in Live =>
       index'[sessions[s].key] = index[sessions[s].key]

-----------------------------------------------------------------------------
(* Sessions and their number. *)

\* There are finitely many sequences.
LEMMA SequencesFinite ==
  /\ IsFiniteSet(Sequences) /\ Sequences \subseteq Nat \ {0}
  /\ \A S \in SUBSET Sequences : IsFiniteSet(S) /\ Cardinality(S) \in Nat
  <1>1. IsFiniteSet(Sequences) /\ Sequences \subseteq Nat \ {0}
    BY FS_Interval, LimitsAssumption DEF Sequences
  <1> QED BY <1>1, FS_Subset, FS_CardinalityType

\* terminate, of a session there is: the state may change, the rest agrees.
LEMMA TerminatedSession ==
  ASSUME NEW x \in Session, NEW o, NEW p, SessionOK(x, o, p), x.state # "absent",
         NEW reason \in {"explicit", "timeout", "shutdown"}
  PROVE  LET y == Terminated(x, reason)
         IN  /\ y \in Session /\ SessionOK(y, o, p) /\ y.key = x.key /\ y.state # "absent"
             /\ y.state \in Live <=> x.state \in Live
             /\ x.state = "finished" => y.state = "finished"
             /\ x.stop # "none" => y.stop = x.stop
  <1> DEFINE y == Terminated(x, reason)
  <1>1. CASE x.state # "finished" /\ ~x.rootExited /\ x.stop = "none"
    <2>1. y = [x EXCEPT !.stop = reason, !.state = "stopping"]
      BY <1>1 DEF Terminated
    <2>2. /\ y \in Session /\ y.key = x.key /\ y.state = "stopping" /\ y.cancelled = x.cancelled
          /\ x.state \in Live
      BY <1>1, <2>1 DEF Session, States, StopReasons, Live
    <2> HIDE DEF y
    <2>3. SessionOK(y, o, p)
      BY <1>1, <2>2 DEF SessionOK
    <2>4. /\ y \in Session /\ SessionOK(y, o, p) /\ y.key = x.key /\ y.state # "absent"
          /\ y.state \in Live <=> x.state \in Live
          /\ x.state = "finished" => y.state = "finished"
          /\ x.stop # "none" => y.stop = x.stop
      BY <1>1, <2>2, <2>3 DEF Live
    <2> QED BY <2>4 DEF y
  <1>2. CASE ~(x.state # "finished" /\ ~x.rootExited /\ x.stop = "none")
    <2>1. Terminated(x, reason) = x
      BY <1>2 DEF Terminated
    <2> QED BY <2>1
  <1> QED BY <1>1, <1>2

\* Sessions that are neither made nor unmade leave the numbers as they are.
LEMMA CreatedKept ==
  ASSUME Created, SessionsProgress
  PROVE  Created' /\ NextSequence' = NextSequence
  <1>1. {s \in Sequences : sessions'[s].state # "absent"}
          = {s \in Sequences : sessions[s].state # "absent"}
    BY DEF SessionsProgress
  <1>2. NextSequence' = NextSequence
    BY <1>1 DEF NextSequence
  <1>3. \A s \in Sequences : (sessions'[s].state # "absent") = (sessions[s].state # "absent")
    BY DEF SessionsProgress
  <1> QED BY <1>2, <1>3 DEF Created

-----------------------------------------------------------------------------
(* The registry. *)

\* What cleanup keeps: all that has not finished, where its identity leads to it.
LEMMA KeptFacts ==
  ASSUME TypeOK, EntriesInv, RegistrySound
  PROVE  /\ Kept \subseteq entries /\ KeptIndex \in [Keys -> Sequences \cup {0}]
         /\ \A k \in Keys : KeptIndex[k] # 0 => KeptIndex[k] \in Kept /\ KeptIndex[k] = index[k]
         /\ \A s \in Sequences : sessions[s].state \in Live =>
              s \in Kept /\ sessions[s].key \in Keys /\ KeptIndex[sessions[s].key] = s
              /\ index[sessions[s].key] = s
         /\ KeptPending \subseteq RunIds
  <1>1. Kept \subseteq entries /\ aged \subseteq Sequences /\ entries \subseteq Sequences
    BY DEF Kept, TypeOK
  <1>2. KeptIndex \in [Keys -> Sequences \cup {0}]
    BY DEF KeptIndex, TypeOK
  <1>3. \A k \in Keys : KeptIndex[k] # 0 => KeptIndex[k] \in Kept /\ KeptIndex[k] = index[k]
    BY DEF KeptIndex, Kept, RegistrySound
  <1>4. \A s \in Sequences : sessions[s].state \in Live =>
          s \in Kept /\ sessions[s].key \in Keys /\ KeptIndex[sessions[s].key] = s
          /\ index[sessions[s].key] = s
    <2> SUFFICES ASSUME NEW s \in Sequences, sessions[s].state \in Live
                 PROVE  s \in Kept /\ sessions[s].key \in Keys /\ KeptIndex[sessions[s].key] = s
                        /\ index[sessions[s].key] = s
      OBVIOUS
    <2>1. sessions[s].key \in Keys
      BY DEF TypeOK, Session
    <2>2. s \in entries /\ index[sessions[s].key] = s /\ s \notin aged
      BY <2>1 DEF RegistrySound, Unfinished, EntriesInv, Live
    <2> QED BY <2>1, <2>2 DEF Kept, KeptIndex
  <1>5. KeptPending \subseteq RunIds
    BY DEF KeptPending, TypeOK
  <1> QED BY <1>1, <1>2, <1>3, <1>4, <1>5

\* cleanup forgets what has aged, which has finished.
LEMMA CleanupShrinks ==
  ASSUME TypeOK, EntriesInv, RegistrySound, cleanup
  PROVE  /\ RegistryShrinks
         /\ Kept \subseteq entries /\ KeptIndex \in [Keys -> Sequences \cup {0}]
         /\ \A k \in Keys : KeptIndex[k] # 0 => KeptIndex[k] \in Kept /\ KeptIndex[k] = index[k]
  <1>1. entries \subseteq Sequences
    BY DEF TypeOK
  <1>2. /\ Kept \subseteq entries /\ KeptIndex \in [Keys -> Sequences \cup {0}]
        /\ \A k \in Keys : KeptIndex[k] # 0 => KeptIndex[k] \in Kept /\ KeptIndex[k] = index[k]
        /\ \A s \in Sequences : sessions[s].state \in Live =>
             s \in Kept /\ sessions[s].key \in Keys /\ KeptIndex[sessions[s].key] = s
             /\ index[sessions[s].key] = s
        /\ KeptPending \subseteq RunIds
    BY KeptFacts
  <1>3. RegistryShrinks
    BY <1>1, <1>2 DEF RegistryShrinks, cleanup
  <1> QED BY <1>2, <1>3

\* A registry that is left alone.
LEMMA RegistryAlone ==
  ASSUME TypeOK, EntriesInv, RegistrySound, UNCHANGED registry
  PROVE  RegistryShrinks
  BY DEF RegistryShrinks, registry, TypeOK, EntriesInv, RegistrySound

\* A registry that shrinks, over sessions that go on, is sound.
LEMMA RegistryKept ==
  ASSUME TypeOK, EntriesInv, RegistrySound, RegistryShrinks, SessionsProgress
  PROVE  /\ RegistrySound' /\ EntriesInv'
         /\ entries' \subseteq Sequences /\ index' \in [Keys -> Sequences \cup {0}]
         /\ pending' \subseteq RunIds /\ aged' \subseteq entries' /\ stale' \subseteq pending'
  <1>1. entries \subseteq Sequences /\ entries' \subseteq entries /\ aged' \subseteq entries'
    BY DEF TypeOK, RegistryShrinks
  <1>2. EntriesInv'
    BY <1>1 DEF EntriesInv, RegistryShrinks, SessionsProgress
  <1>3. \A k \in Keys : index'[k] # 0 => index'[k] \in entries' /\ sessions'[index'[k]].key = k
    <2> SUFFICES ASSUME NEW k \in Keys, index'[k] # 0
                 PROVE  index'[k] \in entries' /\ sessions'[index'[k]].key = k
      OBVIOUS
    <2>1. index'[k] = index[k] /\ index'[k] \in entries' /\ index'[k] \in Sequences
      BY <1>1 DEF RegistryShrinks
    <2>2. sessions[index[k]].key = k
      BY <2>1 DEF RegistrySound
    <2> QED BY <2>1, <2>2 DEF SessionsProgress
  <1>4. \A s \in Sequences : Unfinished(s)' => s \in entries' /\ index'[sessions'[s].key] = s
    <2> SUFFICES ASSUME NEW s \in Sequences, sessions'[s].state \in Live
                 PROVE  s \in entries' /\ index'[sessions'[s].key] = s
      BY DEF Unfinished, Live
    <2>1. sessions[s].state \in Live /\ sessions'[s].key = sessions[s].key
      BY DEF SessionsProgress
    <2>2. s \in entries /\ index[sessions[s].key] = s
      BY <2>1 DEF RegistrySound, Unfinished, Live
    <2> QED BY <2>1, <2>2 DEF RegistryShrinks
  <1>5. Cardinality({s \in Sequences : Unfinished(s)'}) <= MaxActive
    <2> DEFINE A == {s \in Sequences : Unfinished(s)}
               B == {s \in Sequences : Unfinished(s)'}
    <2>1. B \subseteq A /\ A \in SUBSET Sequences /\ B \in SUBSET Sequences
      BY DEF SessionsProgress, Unfinished, Live
    <2>2. Cardinality(A) <= MaxActive
      BY DEF RegistrySound
    <2> HIDE DEF A, B
    <2>3. IsFiniteSet(A) /\ Cardinality(B) <= Cardinality(A)
          /\ Cardinality(A) \in Nat /\ Cardinality(B) \in Nat
      BY <2>1, SequencesFinite, FS_Subset
    <2>4. Cardinality(B) <= MaxActive
      BY <2>2, <2>3, LimitsAssumption
    <2> QED BY <2>4 DEF B
  <1>6. Cardinality(entries') <= MaxRetained
    <2>1. Cardinality(entries') <= Cardinality(entries)
          /\ Cardinality(entries') \in Nat /\ Cardinality(entries) \in Nat
      BY <1>1, SequencesFinite, FS_Subset
    <2>2. Cardinality(entries) <= MaxRetained
      BY DEF RegistrySound
    <2> QED BY <2>1, <2>2, LimitsAssumption
  <1>7. RegistrySound'
    BY <1>3, <1>4, <1>5, <1>6 DEF RegistrySound
  <1> QED BY <1>1, <1>2, <1>7 DEF RegistryShrinks

-----------------------------------------------------------------------------
(* Those who refer to sessions. *)

\* Calls that stay where they are, or let go, keep their sessions; a launch keeps
\* its own.
LEMMA CallsKept ==
  ASSUME TypeOK, CallsInv, SessionsProgress, UNCHANGED calls,
         \A s \in Sequences : owner[s].at = "none" /\ sessions[s].state \in Live =>
           owner'[s].at = "none" /\ sessions'[s].state \in Live
  PROVE  CallsInv'
  BY DEF CallsInv, SessionsProgress

\* So do the terminators.
LEMMA StopsKept ==
  ASSUME StopsInv, SessionsProgress, UNCHANGED stops
  PROVE  StopsInv'
  BY DEF StopsInv, SessionsProgress

\* Shutdown goes through what it has collected.
LEMMA ShutdownKept ==
  ASSUME TypeOK, ShutdownInv, SessionsProgress, shutdown'.at = shutdown.at,
         shutdown'.all = shutdown.all, shutdown'.left \subseteq shutdown.left
  PROVE  ShutdownInv'
  <1>1. shutdown.left \subseteq Sequences
    BY DEF TypeOK, Shutdown
  <1> QED BY <1>1 DEF ShutdownInv, SessionsProgress, Closing

-----------------------------------------------------------------------------
(* Steps. *)

\* What FirstStopWins says of a step.
FirstStop ==
  \A s \in Sequences : sessions[s].stop # "none" => sessions'[s].stop = sessions[s].stop

CallersKept ==
  /\ calls' \in [Callers -> Call] /\ CallsInv'
  /\ stops' \in [Terminators -> Stop] /\ StopsInv'
  /\ shutdown' \in Shutdown /\ ShutdownInv'

\* A step of the registry or of the callers only.
LEMMA Bookkeeping ==
  ASSUME RuntimeInv, UNCHANGED <<sessions, owner, process>>, RegistryShrinks, CallersKept
  PROVE  RuntimeInv' /\ FirstStop
  <1>1. TypeOK /\ SessionsInv /\ Created /\ EntriesInv /\ RegistrySound
    BY DEF RuntimeInv
  <1>2. SessionsProgress
    BY DEF SessionsProgress
  <1>3. Created' /\ RegistrySound' /\ EntriesInv'
        /\ entries' \subseteq Sequences /\ index' \in [Keys -> Sequences \cup {0}]
        /\ pending' \subseteq RunIds /\ aged' \subseteq entries' /\ stale' \subseteq pending'
    BY <1>1, <1>2, CreatedKept, RegistryKept
  <1>4. TypeOK'
    BY <1>1, <1>3 DEF TypeOK, CallersKept
  <1>5. SessionsInv'
    BY <1>1 DEF SessionsInv
  <1>6. FirstStop
    BY DEF FirstStop
  <1> QED BY <1>3, <1>4, <1>5, <1>6 DEF RuntimeInv, CallersKept

\* Callers that are left alone, while sessions go on and no launch is overtaken.
LEMMA CallersAlone ==
  ASSUME RuntimeInv, SessionsProgress, UNCHANGED callers,
         \A s \in Sequences : owner[s].at = "none" /\ sessions[s].state \in Live =>
           owner'[s].at = "none" /\ sessions'[s].state \in Live
  PROVE  CallersKept
  <1>1. TypeOK /\ CallsInv /\ StopsInv /\ ShutdownInv
    BY DEF RuntimeInv
  <1>2. UNCHANGED <<calls, stops, shutdown>>
    BY DEF callers
  <1>3. CallsInv'
    BY <1>1, <1>2, CallsKept
  <1>4. StopsInv'
    BY <1>1, <1>2, StopsKept
  <1>5. ShutdownInv'
    BY <1>1, <1>2, ShutdownKept
  <1> QED BY <1>1, <1>2, <1>3, <1>4, <1>5 DEF CallersKept, TypeOK

\* What becomes of session s, its task and its processes in a step.
Becomes(s, x, o, p) ==
  /\ sessions' = [sessions EXCEPT ![s] = x]
  /\ owner' = [owner EXCEPT ![s] = o]
  /\ process' = [process EXCEPT ![s] = p]

\* and when that is in order.
InOrder(y, x, o, p) ==
  /\ x \in Session /\ o \in Owner /\ p \in Process /\ SessionOK(x, o, p)
  /\ x.key = y.key /\ y.state # "absent" /\ x.state # "absent"
  /\ x.state \in Live => y.state \in Live
  /\ y.state = "finished" => x.state = "finished"
  /\ y.stop # "none" => x.stop = y.stop

\* A step of one session.
LEMMA SessionMoves ==
  ASSUME RuntimeInv, NEW s \in Sequences, NEW x, NEW o, NEW p,
         Becomes(s, x, o, p), InOrder(sessions[s], x, o, p)
  PROVE  /\ SessionsProgress /\ FirstStop /\ SessionsInv' /\ Created'
         /\ sessions' \in [Sequences -> Session] /\ owner' \in [Sequences -> Owner]
         /\ process' \in [Sequences -> Process]
         /\ sessions'[s] = x /\ owner'[s] = o
         /\ \A r \in Sequences \ {s} : sessions'[r] = sessions[r] /\ owner'[r] = owner[r]
  <1>1. TypeOK /\ SessionsInv /\ Created
    BY DEF RuntimeInv
  <1>2. /\ sessions' \in [Sequences -> Session] /\ owner' \in [Sequences -> Owner]
        /\ process' \in [Sequences -> Process]
        /\ sessions'[s] = x /\ owner'[s] = o /\ process'[s] = p
        /\ \A r \in Sequences \ {s} :
             sessions'[r] = sessions[r] /\ owner'[r] = owner[r] /\ process'[r] = process[r]
    BY <1>1 DEF TypeOK, Becomes, InOrder
  <1>3. SessionsProgress /\ FirstStop
    BY <1>2 DEF SessionsProgress, FirstStop, InOrder
  <1>4. SessionsInv'
    BY <1>1, <1>2 DEF SessionsInv, InOrder
  <1>5. Created'
    BY <1>1, <1>3, CreatedKept
  <1> QED BY <1>2, <1>3, <1>4, <1>5

\* It keeps the invariant, if the registry and the callers are kept.
LEMMA SessionKeeps ==
  ASSUME RuntimeInv, NEW s \in Sequences, NEW x, NEW o, NEW p,
         Becomes(s, x, o, p), InOrder(sessions[s], x, o, p), RegistryShrinks,
         SessionsProgress => CallersKept
  PROVE  RuntimeInv' /\ FirstStop
  <1>1. TypeOK /\ EntriesInv /\ RegistrySound
    BY DEF RuntimeInv
  <1>2. /\ SessionsProgress /\ FirstStop /\ SessionsInv' /\ Created'
        /\ sessions' \in [Sequences -> Session] /\ owner' \in [Sequences -> Owner]
        /\ process' \in [Sequences -> Process]
    BY SessionMoves
  <1>3. RegistrySound' /\ EntriesInv'
        /\ entries' \subseteq Sequences /\ index' \in [Keys -> Sequences \cup {0}]
        /\ pending' \subseteq RunIds /\ aged' \subseteq entries' /\ stale' \subseteq pending'
    BY <1>1, <1>2, RegistryKept
  <1>4. TypeOK'
    BY <1>2, <1>3 DEF TypeOK, CallersKept
  <1> QED BY <1>2, <1>3, <1>4 DEF RuntimeInv, CallersKept

\* A step of the session's own task, or of the processes.
LEMMA TaskKeeps ==
  ASSUME RuntimeInv, NEW s \in Sequences, NEW x, NEW o, NEW p,
         Becomes(s, x, o, p), InOrder(sessions[s], x, o, p),
         owner[s].at = "none" /\ sessions[s].state \in Live =>
           o.at = "none" /\ x.state \in Live,
         RegistryShrinks, UNCHANGED callers
  PROVE  RuntimeInv' /\ FirstStop
  <1>1. SessionsProgress /\ sessions'[s] = x /\ owner'[s] = o
        /\ \A r \in Sequences \ {s} : sessions'[r] = sessions[r] /\ owner'[r] = owner[r]
    BY SessionMoves
  <1>2. CallersKept
    <2>1. \A r \in Sequences : owner[r].at = "none" /\ sessions[r].state \in Live =>
            owner'[r].at = "none" /\ sessions'[r].state \in Live
      BY <1>1
    <2> QED BY <1>1, <2>1, CallersAlone
  <1> QED BY <1>2, SessionKeeps

\* What is known of a session, its task and its processes.
LEMMA SessionFacts ==
  ASSUME RuntimeInv, NEW s \in Sequences
  PROVE  /\ sessions[s] \in Session /\ owner[s] \in Owner /\ process[s] \in Process
         /\ SessionOK(sessions[s], owner[s], process[s])
         /\ sessions = [sessions EXCEPT ![s] = sessions[s]]
         /\ owner = [owner EXCEPT ![s] = owner[s]]
         /\ process = [process EXCEPT ![s] = process[s]]
         /\ UNCHANGED registry => RegistryShrinks
  <1>1. sessions[s] \in Session /\ owner[s] \in Owner /\ process[s] \in Process
        /\ SessionOK(sessions[s], owner[s], process[s])
    BY DEF RuntimeInv, TypeOK, SessionsInv
  <1>2. /\ sessions = [sessions EXCEPT ![s] = sessions[s]]
        /\ owner = [owner EXCEPT ![s] = owner[s]]
        /\ process = [process EXCEPT ![s] = process[s]]
    BY DEF RuntimeInv, TypeOK
  <1>3. UNCHANGED registry => RegistryShrinks
    BY RegistryAlone DEF RuntimeInv
  <1> QED BY <1>1, <1>2, <1>3

\* The terminations, whoever asks for them.
LEMMA TerminationKeeps ==
  ASSUME RuntimeInv, NEW s \in Sequences, NEW reason \in {"explicit", "timeout", "shutdown"},
         sessions[s].state # "absent",
         sessions' = [sessions EXCEPT ![s] = Terminated(@, reason)],
         UNCHANGED <<owner, process>>, RegistryShrinks,
         UNCHANGED callers \/ (SessionsProgress => CallersKept)
  PROVE  RuntimeInv' /\ FirstStop
  <1>1. PICK x, o, p : x = sessions[s] /\ o = owner[s] /\ p = process[s]
    OBVIOUS
  <1>2. PICK y : y = Terminated(x, reason)
    OBVIOUS
  <1>3. x \in Session /\ o \in Owner /\ p \in Process /\ SessionOK(x, o, p)
    BY <1>1, SessionFacts
  <1>4. /\ y \in Session /\ SessionOK(y, o, p) /\ y.key = x.key /\ y.state # "absent"
        /\ y.state \in Live <=> x.state \in Live
        /\ x.state = "finished" => y.state = "finished"
        /\ x.stop # "none" => y.stop = x.stop
    BY <1>1, <1>2, <1>3, TerminatedSession
  <1>5. Becomes(s, y, o, p)
    BY <1>1, <1>2, SessionFacts DEF Becomes, RuntimeInv, TypeOK
  <1>6. InOrder(sessions[s], y, o, p)
    BY <1>1, <1>3, <1>4 DEF InOrder
  <1>7. CASE UNCHANGED callers
    <2>1. owner[s].at = "none" /\ sessions[s].state \in Live => o.at = "none" /\ y.state \in Live
      BY <1>1, <1>4
    <2> QED BY <1>5, <1>6, <1>7, <2>1, TaskKeeps
  <1>8. CASE SessionsProgress => CallersKept
    BY <1>5, <1>6, <1>8, SessionKeeps
  <1> QED BY <1>7, <1>8

\* The timer's, which is then off.
LEMMA TimeoutKeeps ==
  ASSUME RuntimeInv, NEW s \in Sequences, timeoutFires(s)
  PROVE  RuntimeInv' /\ FirstStop
  <1>1. PICK x, o, p : x = sessions[s] /\ o = owner[s] /\ p = process[s]
    OBVIOUS
  <1>2. PICK y : y = Terminated(x, "timeout")
    OBVIOUS
  <1>3. PICK q : q = [o EXCEPT !.timer = FALSE]
    OBVIOUS
  <1>4. x \in Session /\ o \in Owner /\ p \in Process /\ SessionOK(x, o, p)
    BY <1>1, SessionFacts
  <1>5. o.timer /\ o.at \notin {"none", "done"} /\ x.state # "absent"
    BY <1>1, <1>4 DEF timeoutFires, SessionOK
  <1>6. /\ y \in Session /\ SessionOK(y, o, p) /\ y.key = x.key /\ y.state # "absent"
        /\ y.state \in Live <=> x.state \in Live
        /\ x.state = "finished" => y.state = "finished"
        /\ x.stop # "none" => y.stop = x.stop
    BY <1>2, <1>4, <1>5, TerminatedSession
  <1>7. q \in Owner /\ q.at = o.at /\ q.failed = o.failed /\ q.timer = FALSE
    BY <1>3, <1>4 DEF Owner
  <1>8. SessionOK(y, q, p)
    BY <1>6, <1>7 DEF SessionOK
  <1>9. Becomes(s, y, q, p)
    BY <1>1, <1>2, <1>3, SessionFacts DEF Becomes, RuntimeInv, TypeOK, timeoutFires
  <1>10. InOrder(sessions[s], y, q, p)
    BY <1>1, <1>4, <1>5, <1>6, <1>7, <1>8 DEF InOrder
  <1>11. RegistryShrinks /\ UNCHANGED callers
    BY SessionFacts DEF timeoutFires
  <1>12. ~(owner[s].at = "none" /\ sessions[s].state \in Live)
    BY <1>1, <1>5
  <1> QED BY <1>9, <1>10, <1>11, <1>12, TaskKeeps

\* A step of the task that runs a session: it is somewhere, and the session there.
LEMMA TaskRuns ==
  ASSUME RuntimeInv, NEW s \in Sequences, owner[s].at \in {"spawn", "loop", "exited", "drain"},
         UNCHANGED registry, UNCHANGED callers,
         NEW x \in Session, NEW o \in Owner, NEW p \in Process, Becomes(s, x, o, p),
         SessionOK(x, o, p), x.key = sessions[s].key, x.state # "absent",
         sessions[s].stop # "none" => x.stop = sessions[s].stop
  PROVE  RuntimeInv' /\ FirstStop
  <1>1. /\ sessions[s].state \in Live
        /\ sessions[s] \in Session
    BY SessionFacts DEF SessionOK, Live
  <1>2. InOrder(sessions[s], x, o, p)
    BY <1>1 DEF InOrder, Live
  <1>3. RegistryShrinks
    BY SessionFacts
  <1> QED BY <1>2, <1>3, TaskKeeps

\* From the spawn to the loop, or to the end.
LEMMA SpawnKeeps ==
  ASSUME RuntimeInv, NEW s \in Sequences, spawnFails(s) \/ spawns(s)
  PROVE  RuntimeInv' /\ FirstStop
  <1>1. PICK x, o, p : x = sessions[s] /\ o = owner[s] /\ p = process[s]
    OBVIOUS
  <1>2. x \in Session /\ o \in Owner /\ p \in Process /\ SessionOK(x, o, p) /\ o.at = "spawn"
    BY <1>1, SessionFacts DEF spawnFails, spawns
  <1>3. CASE spawnFails(s)
    <2>1. PICK y, q : y = Finished(x, "start_failed") /\ q = [NoOwner EXCEPT !.at = "done"]
      OBVIOUS
    <2>2. /\ y \in Session /\ y.state = "finished" /\ y.key = x.key /\ y.stop = x.stop
          /\ y.cancelled = x.cancelled
      BY <1>2, <2>1 DEF Finished, Session, States, Results
    <2>3. q \in Owner /\ q.at = "done" /\ q.timer = FALSE
      BY <2>1 DEF NoOwner, Owner
    <2>4. SessionOK(y, q, p)
      BY <1>2, <2>2, <2>3 DEF SessionOK
    <2>5. Becomes(s, y, q, p)
      BY <1>1, <1>3, <2>1, SessionFacts DEF Becomes, RuntimeInv, TypeOK, spawnFails
    <2> QED BY <1>1, <1>2, <1>3, <2>2, <2>3, <2>4, <2>5, TaskRuns DEF spawnFails
  <1>4. CASE spawns(s)
    <2>1. PICK forks \in BOOLEAN :
            process' = [process EXCEPT ![s] = [root |-> "alive", rest |-> forks]]
      BY <1>4 DEF spawns
    <2>2. PICK y, q, r : /\ y = [x EXCEPT !.state = IF x.stop = "none" THEN "running" ELSE @]
                         /\ q = [o EXCEPT !.at = "loop"]
                         /\ r = [root |-> "alive", rest |-> forks]
      OBVIOUS
    <2>3. /\ y \in Session /\ y.key = x.key /\ y.stop = x.stop /\ y.cancelled = x.cancelled
          /\ y.state = IF x.stop = "none" THEN "running" ELSE x.state
      BY <1>2, <2>2 DEF Session, States
    <2>4. x.stop # "none" => x.state = "stopping"
      BY <1>2 DEF SessionOK
    <2>5. q \in Owner /\ q.at = "loop"
      BY <1>2, <2>2 DEF Owner
    <2>6. r \in Process /\ r.root = "alive"
      BY <2>2 DEF Process
    <2>7. SessionOK(y, q, r)
      BY <1>2, <2>3, <2>4, <2>5 DEF SessionOK
    <2>8. Becomes(s, y, q, r)
      BY <1>1, <1>4, <2>1, <2>2, SessionFacts DEF Becomes, RuntimeInv, TypeOK, spawns
    <2>9. y.state # "absent" /\ UNCHANGED registry /\ UNCHANGED callers
      BY <1>2, <1>4, <2>3 DEF spawns, SessionOK
    <2> QED BY <1>1, <1>2, <2>3, <2>5, <2>6, <2>7, <2>8, <2>9, TaskRuns
  <1> QED BY <1>3, <1>4

\* The loop stops the child, politely or not: the session is as it was.
LEMMA LoopStops ==
  ASSUME RuntimeInv, NEW s \in Sequences, stopGracefully(s) \/ stopForcibly(s) \/ graceEnds(s)
  PROVE  RuntimeInv' /\ FirstStop
  <1>1. PICK x, o, p : x = sessions[s] /\ o = owner[s] /\ p = process[s]
    OBVIOUS
  <1>2. x \in Session /\ o \in Owner /\ p \in Process /\ SessionOK(x, o, p) /\ o.at = "loop"
    BY <1>1, SessionFacts DEF stopGracefully, stopForcibly, graceEnds
  <1>3. PICK stopping, killed, failed \in BOOLEAN :
          owner' = [owner EXCEPT ![s] =
                     [o EXCEPT !.stopping = stopping, !.killed = killed, !.failed = failed]]
    <2>1. CASE stopGracefully(s)
      <3>1. owner' = [owner EXCEPT ![s] = [o EXCEPT !.stopping = TRUE]]
        BY <1>1, <2>1 DEF stopGracefully
      <3>2. [o EXCEPT !.stopping = TRUE]
              = [o EXCEPT !.stopping = TRUE, !.killed = o.killed, !.failed = o.failed]
            /\ o.killed \in BOOLEAN /\ o.failed \in BOOLEAN
        BY <1>2 DEF Owner
      <3> QED BY <3>1, <3>2
    <2>2. CASE stopForcibly(s)
      <3>1. PICK asked \in CallsWork, works \in CallsWork :
              owner' = [owner EXCEPT ![s].stopping = TRUE, ![s].killed = TRUE,
                                     ![s].failed = ~(asked /\ works)]
        BY <2>2, Zenon DEF stopForcibly
      <3>2. PICK failed \in BOOLEAN : failed = ~(asked /\ works)
        OBVIOUS
      <3>3. owner' = [owner EXCEPT ![s].stopping = TRUE, ![s].killed = TRUE,
                                   ![s].failed = failed]
        BY <3>1, <3>2, Zenon
      <3>4. owner' = [owner EXCEPT ![s] = [o EXCEPT !.stopping = TRUE, !.killed = TRUE,
                                                    !.failed = failed]]
        BY <1>1, <3>3 DEF RuntimeInv, TypeOK
      <3> QED BY <3>4
    <2>3. CASE graceEnds(s)
      <3>1. PICK works \in CallsWork :
              owner' = [owner EXCEPT ![s].killed = TRUE, ![s].failed = @ \/ ~works]
        BY <2>3, Zenon DEF graceEnds
      <3>2. PICK failed \in BOOLEAN : failed = (o.failed \/ ~works)
        OBVIOUS
      <3>3. [o EXCEPT !.killed = TRUE, !.failed = failed]
              = [o EXCEPT !.stopping = o.stopping, !.killed = TRUE, !.failed = failed]
            /\ o.stopping \in BOOLEAN
        BY <1>2 DEF Owner
      <3>4. owner' = [owner EXCEPT ![s] = [o EXCEPT !.killed = TRUE, !.failed = failed]]
        BY <1>1, <3>1, <3>2 DEF RuntimeInv, TypeOK
      <3> QED BY <3>3, <3>4
    <2> QED BY <2>1, <2>2, <2>3
  <1>4. PICK r \in Process : process' = [process EXCEPT ![s] = r]
    <2>1. [root |-> "dead", rest |-> FALSE] \in Process
      BY DEF Process
    <2>2. process = [process EXCEPT ![s] = p]
      BY <1>1, SessionFacts
    <2> QED BY <1>2, <2>1, <2>2 DEF stopGracefully, stopForcibly, graceEnds, Killed
  <1>5. PICK q : q = [o EXCEPT !.stopping = stopping, !.killed = killed, !.failed = failed]
    OBVIOUS
  <1>6. q \in Owner /\ q.at = "loop"
    BY <1>2, <1>5 DEF Owner
  <1>7. SessionOK(x, q, r)
    BY <1>2, <1>6 DEF SessionOK
  <1>8. UNCHANGED <<sessions, registry>> /\ UNCHANGED callers
    BY DEF stopGracefully, stopForcibly, graceEnds
  <1>9. Becomes(s, x, q, r)
    BY <1>1, <1>3, <1>4, <1>5, <1>8, SessionFacts DEF Becomes
  <1>10. x.state # "absent"
    BY <1>2 DEF SessionOK
  <1> QED BY <1>1, <1>2, <1>6, <1>7, <1>8, <1>9, <1>10, TaskRuns

\* The child ends by itself, whether or not its session still waits for it.
LEMMA ChildExitKeeps ==
  ASSUME RuntimeInv, NEW s \in Sequences, childExits(s)
  PROVE  RuntimeInv' /\ FirstStop
  <1>1. PICK x, o, p : x = sessions[s] /\ o = owner[s] /\ p = process[s]
    OBVIOUS
  <1>2. x \in Session /\ o \in Owner /\ p \in Process /\ SessionOK(x, o, p) /\ p.root = "alive"
    BY <1>1, SessionFacts DEF childExits
  <1>3. PICK r : r = [p EXCEPT !.root = "dead"]
    OBVIOUS
  <1>4. r \in Process /\ r.root = "dead" /\ r.rest = p.rest
    BY <1>2, <1>3 DEF Process
  <1>5. o.at # "none" /\ x.state # "absent" /\ SessionOK(x, o, r)
    BY <1>2, <1>4 DEF SessionOK
  <1>6. Becomes(s, x, o, r)
    BY <1>1, <1>3, SessionFacts DEF Becomes, childExits, RuntimeInv, TypeOK
  <1>7. InOrder(sessions[s], x, o, r)
    BY <1>1, <1>2, <1>4, <1>5 DEF InOrder
  <1>8. RegistryShrinks /\ UNCHANGED callers
    BY SessionFacts DEF childExits
  <1> QED BY <1>1, <1>5, <1>6, <1>7, <1>8, TaskKeeps

\* The last descendants in the group leave it, while the session runs or after it.
LEMMA LeaveGroupKeeps ==
  ASSUME RuntimeInv, NEW s \in Sequences, leaveGroup(s)
  PROVE  RuntimeInv' /\ FirstStop
  <1>1. PICK x, o, p : x = sessions[s] /\ o = owner[s] /\ p = process[s]
    OBVIOUS
  <1>2. x \in Session /\ o \in Owner /\ p \in Process /\ SessionOK(x, o, p) /\ p.rest
    BY <1>1, SessionFacts DEF leaveGroup
  <1>3. PICK r : r = [p EXCEPT !.rest = FALSE]
    OBVIOUS
  <1>4. r \in Process /\ r.root = p.root /\ ~r.rest
    BY <1>2, <1>3 DEF Process
  <1>5. o.at # "none" /\ x.state # "absent" /\ SessionOK(x, o, r)
    BY <1>2, <1>4 DEF SessionOK
  <1>6. Becomes(s, x, o, r)
    BY <1>1, <1>3, SessionFacts DEF Becomes, leaveGroup, RuntimeInv, TypeOK
  <1>7. InOrder(sessions[s], x, o, r)
    BY <1>1, <1>2, <1>4, <1>5 DEF InOrder
  <1>8. RegistryShrinks /\ UNCHANGED callers
    BY SessionFacts DEF leaveGroup
  <1> QED BY <1>1, <1>5, <1>6, <1>7, <1>8, TaskKeeps

\* wait resolves, one way or the other.
LEMMA WaitKeeps ==
  ASSUME RuntimeInv, NEW s \in Sequences, rootExits(s) \/ waitFails(s)
  PROVE  RuntimeInv' /\ FirstStop
  <1>1. PICK x, o, p : x = sessions[s] /\ o = owner[s] /\ p = process[s]
    OBVIOUS
  <1>2. x \in Session /\ o \in Owner /\ p \in Process /\ SessionOK(x, o, p) /\ o.at = "loop"
    BY <1>1, SessionFacts DEF rootExits, waitFails
  <1>3. PICK y : y = [x EXCEPT !.rootExited = TRUE, !.state = "stopping"]
    OBVIOUS
  <1>4. /\ y \in Session /\ y.state = "stopping" /\ y.key = x.key /\ y.stop = x.stop
        /\ y.cancelled = x.cancelled
    BY <1>2, <1>3 DEF Session, States
  <1>5. PICK q : /\ q \in Owner /\ q.at = "exited"
                 /\ owner' = [owner EXCEPT ![s] = q]
    <2>1. [o EXCEPT !.at = "exited"] \in Owner /\ [o EXCEPT !.at = "exited", !.failed = TRUE] \in Owner
          /\ [o EXCEPT !.at = "exited"].at = "exited"
          /\ [o EXCEPT !.at = "exited", !.failed = TRUE].at = "exited"
      BY <1>2 DEF Owner
    <2>2. \/ owner' = [owner EXCEPT ![s] = [o EXCEPT !.at = "exited"]]
          \/ owner' = [owner EXCEPT ![s] = [o EXCEPT !.at = "exited", !.failed = TRUE]]
      BY <1>1 DEF rootExits, waitFails, RuntimeInv, TypeOK
    <2> QED BY <2>1, <2>2
  <1>6. SessionOK(y, q, p)
    BY <1>2, <1>4, <1>5 DEF SessionOK
  <1>7. sessions' = [sessions EXCEPT ![s] = y] /\ UNCHANGED <<registry, process>>
        /\ UNCHANGED callers
    <2>1. sessions' = [sessions EXCEPT ![s].rootExited = TRUE, ![s].state = "stopping"]
          /\ UNCHANGED <<registry, process>> /\ UNCHANGED callers
      BY DEF rootExits, waitFails
    <2>2. sessions' = [sessions EXCEPT ![s] = [x EXCEPT !.rootExited = TRUE,
                                                        !.state = "stopping"]]
      BY <1>1, <2>1 DEF RuntimeInv, TypeOK
    <2> QED BY <1>3, <2>1, <2>2
  <1>8. Becomes(s, y, q, p)
    BY <1>1, <1>5, <1>7, SessionFacts DEF Becomes
  <1> QED BY <1>1, <1>2, <1>4, <1>5, <1>6, <1>7, <1>8, TaskRuns

\* What the root left is killed, or the task knows that it was not.
LEMMA KillsRestKeeps ==
  ASSUME RuntimeInv, NEW s \in Sequences, killsRest(s)
  PROVE  RuntimeInv' /\ FirstStop
  <1>1. PICK x, o, p : x = sessions[s] /\ o = owner[s] /\ p = process[s]
    OBVIOUS
  <1>2. x \in Session /\ o \in Owner /\ p \in Process /\ SessionOK(x, o, p) /\ o.at = "exited"
    BY <1>1, SessionFacts DEF killsRest
  <1>3. PICK works \in BOOLEAN :
          /\ Killed(s, works)
          /\ owner' = [owner EXCEPT ![s].at = "drain", ![s].failed = @ \/ ~works]
    BY CallsAssumption, Zenon DEF killsRest
  <1>4. PICK failed \in BOOLEAN : failed = (o.failed \/ ~works)
    OBVIOUS
  <1>5. PICK q : q = [o EXCEPT !.at = "drain", !.failed = failed]
    OBVIOUS
  <1>6. q \in Owner /\ q.at = "drain" /\ q.failed = failed
    BY <1>2, <1>5 DEF Owner
  <1>7. owner' = [owner EXCEPT ![s] = q]
    <2>1. owner' = [owner EXCEPT ![s] = [o EXCEPT !.at = "drain", !.failed = failed]]
      BY <1>1, <1>3, <1>4 DEF RuntimeInv, TypeOK
    <2> QED BY <1>5, <2>1
  <1>8. PICK r \in Process : /\ process' = [process EXCEPT ![s] = r]
                             /\ works => r.root = "dead" /\ ~r.rest
    <2>1. CASE works
      <3>1. [root |-> "dead", rest |-> FALSE] \in Process
        BY DEF Process
      <3> QED BY <1>3, <2>1, <3>1 DEF Killed
    <2>2. CASE ~works
      BY <1>1, <1>2, <1>3, <2>2, SessionFacts DEF Killed
    <2> QED BY <2>1, <2>2
  <1>9. SessionOK(x, q, r)
    BY <1>2, <1>4, <1>6, <1>8 DEF SessionOK
  <1>10. UNCHANGED <<sessions, registry>> /\ UNCHANGED callers
    BY DEF killsRest
  <1>11. Becomes(s, x, q, r)
    BY <1>1, <1>7, <1>8, <1>10, SessionFacts DEF Becomes
  <1>12. x.state # "absent"
    BY <1>2 DEF SessionOK
  <1> QED BY <1>1, <1>2, <1>6, <1>8, <1>9, <1>10, <1>11, <1>12, TaskRuns

\* The result admits what the task knows.
LEMMA FinishKeeps ==
  ASSUME RuntimeInv, NEW s \in Sequences, finishes(s)
  PROVE  RuntimeInv' /\ FirstStop
  <1>1. PICK x, o, p : x = sessions[s] /\ o = owner[s] /\ p = process[s]
    OBVIOUS
  <1>2. x \in Session /\ o \in Owner /\ p \in Process /\ SessionOK(x, o, p) /\ o.at = "drain"
    BY <1>1, SessionFacts DEF finishes
  <1>3. PICK result \in Results : result = Result(s)
    BY DEF Result, Results
  <1>4. o.failed => result = "lost"
    BY <1>1, <1>3 DEF Result
  <1>5. PICK y, q : y = Finished(x, result) /\ q = [NoOwner EXCEPT !.at = "done"]
    OBVIOUS
  <1>6. /\ y \in Session /\ y.state = "finished" /\ y.key = x.key /\ y.stop = x.stop
        /\ y.cancelled = x.cancelled /\ y.result = result
    BY <1>2, <1>5 DEF Finished, Session, States
  <1>7. q \in Owner /\ q.at = "done" /\ q.timer = FALSE
    BY <1>5 DEF NoOwner, Owner
  <1>8. SessionOK(y, q, p)
    BY <1>2, <1>4, <1>6, <1>7 DEF SessionOK
  <1>9. Becomes(s, y, q, p)
    BY <1>1, <1>3, <1>5, SessionFacts DEF Becomes, RuntimeInv, TypeOK, finishes
  <1>10. UNCHANGED registry /\ UNCHANGED callers
    BY DEF finishes
  <1> QED BY <1>1, <1>2, <1>6, <1>7, <1>8, <1>9, <1>10, TaskRuns

\* A termination stops what is alive, and leaves it so.
LEMMA TerminationLeavesLive ==
  ASSUME RuntimeInv, NEW s \in Sequences, NEW reason \in {"explicit", "timeout", "shutdown"},
         sessions[s].state # "absent",
         sessions' = [sessions EXCEPT ![s] = Terminated(@, reason)]
  PROVE  \A r \in Sequences : sessions[r].state \in Live => sessions'[r].state \in Live
  <1>1. PICK y : y = Terminated(sessions[s], reason)
    OBVIOUS
  <1>2. y.state \in Live <=> sessions[s].state \in Live
    BY <1>1, SessionFacts, TerminatedSession
  <1>3. sessions'[s] = y /\ \A r \in Sequences \ {s} : sessions'[r] = sessions[r]
    BY <1>1 DEF RuntimeInv, TypeOK
  <1> QED BY <1>2, <1>3

\* The terminations by handle, by shutdown and by the shutdown token.
LEMMA TerminationSteps ==
  ASSUME RuntimeInv, NEW s \in Sequences,
         terminate_execution(s) \/ shutdownStops(s) \/ seesShutdown(s)
  PROVE  RuntimeInv' /\ FirstStop
  <1>1. CASE terminate_execution(s)
    <2>1. RegistryShrinks /\ s \in entries
      <3>1. TypeOK /\ EntriesInv /\ RegistrySound /\ cleanup /\ s \in Kept
        BY <1>1 DEF RuntimeInv, terminate_execution
      <3> QED BY <3>1, CleanupShrinks
    <2>2. sessions[s].state # "absent"
      BY <2>1 DEF RuntimeInv, EntriesInv
    <2>3. sessions' = [sessions EXCEPT ![s] = Terminated(@, "explicit")]
          /\ UNCHANGED <<owner, process>> /\ UNCHANGED callers
      BY <1>1 DEF terminate_execution
    <2> QED BY <2>1, <2>2, <2>3, TerminationKeeps
  <1>2. CASE shutdownStops(s)
    <2>1. /\ sessions' = [sessions EXCEPT ![s] = Terminated(@, "shutdown")]
          /\ shutdown' = [shutdown EXCEPT !.left = @ \ {s}]
          /\ UNCHANGED registry /\ UNCHANGED <<calls, stops>> /\ UNCHANGED <<owner, process>>
          /\ s \in shutdown.left
      BY <1>2 DEF shutdownStops
    <2>2. sessions[s].state # "absent"
      BY <2>1 DEF RuntimeInv, ShutdownInv
    <2>3. RegistryShrinks
      BY <2>1, SessionFacts
    <2>4. /\ shutdown' \in Shutdown /\ shutdown'.at = shutdown.at
          /\ shutdown'.all = shutdown.all /\ shutdown'.left \subseteq shutdown.left
      BY <2>1 DEF RuntimeInv, TypeOK, Shutdown
    <2>5. \A r \in Sequences : sessions[r].state \in Live => sessions'[r].state \in Live
      BY <2>1, <2>2, TerminationLeavesLive
    <2>6. ASSUME SessionsProgress PROVE CallersKept
      <3>1. TypeOK /\ CallsInv /\ StopsInv /\ ShutdownInv
        BY DEF RuntimeInv
      <3>2. CallsInv'
        BY <2>1, <2>5, <2>6, <3>1, CallsKept
      <3>3. StopsInv' /\ ShutdownInv'
        BY <2>1, <2>4, <2>6, <3>1, StopsKept, ShutdownKept
      <3> QED BY <2>1, <2>4, <3>1, <3>2, <3>3 DEF CallersKept, TypeOK
    <2> QED BY <2>1, <2>2, <2>3, <2>6, TerminationKeeps
  <1>3. CASE seesShutdown(s)
    <2>1. /\ sessions' = [sessions EXCEPT ![s] = Terminated(@, "shutdown")]
          /\ UNCHANGED registry /\ UNCHANGED callers /\ UNCHANGED <<owner, process>>
          /\ owner[s].at = "loop"
      BY <1>3 DEF seesShutdown
    <2>2. sessions[s].state # "absent" /\ RegistryShrinks
      BY <2>1, SessionFacts DEF SessionOK
    <2> QED BY <2>1, <2>2, TerminationKeeps
  <1> QED BY <1>1, <1>2, <1>3

\* Callers whose calls change, over sessions that do not.
LEMMA CallMoves ==
  ASSUME RuntimeInv, UNCHANGED <<sessions, owner>>, NEW c \in Callers, NEW call \in Call,
         call.at # "launch",
         call.at # "idle" => call.seq \in Sequences /\ sessions[call.seq].state # "absent",
         calls' = [calls EXCEPT ![c] = call], UNCHANGED <<stops, shutdown>>
  PROVE  CallersKept
  <1>1. TypeOK /\ CallsInv /\ StopsInv /\ ShutdownInv /\ SessionsProgress
    BY DEF RuntimeInv, SessionsProgress
  <1>2. calls' \in [Callers -> Call] /\ calls'[c] = call
        /\ \A d \in Callers \ {c} : calls'[d] = calls[d]
    BY <1>1 DEF TypeOK
  <1>3. CallsInv'
    BY <1>1, <1>2 DEF CallsInv
  <1>4. StopsInv' /\ ShutdownInv'
    BY <1>1, StopsKept, ShutdownKept
  <1> QED BY <1>1, <1>2, <1>3, <1>4 DEF CallersKept, TypeOK

\* Terminators whose calls change.
LEMMA StopMoves ==
  ASSUME RuntimeInv, SessionsProgress, NEW t \in Terminators, NEW stop \in Stop,
         stop.at = "found" => stop.seq \in Sequences /\ sessions[stop.seq].state # "absent",
         stops' = [stops EXCEPT ![t] = stop]
  PROVE  stops' \in [Terminators -> Stop] /\ StopsInv'
  <1>1. TypeOK /\ StopsInv
    BY DEF RuntimeInv
  <1>2. stops' \in [Terminators -> Stop] /\ stops'[t] = stop
        /\ \A u \in Terminators \ {t} : stops'[u] = stops[u]
    BY <1>1 DEF TypeOK
  <1>3. StopsInv'
    BY <1>1, <1>2 DEF StopsInv, SessionsProgress
  <1> QED BY <1>2, <1>3

\* Sessions, tasks and callers as they were: the registry alone moves.
LEMMA RegistryStep ==
  ASSUME RuntimeInv, UNCHANGED <<sessions, owner, process>>, UNCHANGED callers, RegistryShrinks
  PROVE  RuntimeInv' /\ FirstStop
  <1>1. SessionsProgress
    BY DEF SessionsProgress
  <1>2. CallersKept
    BY <1>1, CallersAlone
  <1> QED BY <1>2, Bookkeeping

\* Time and housekeeping, and a request that is turned away.
LEMMA RegistrySteps ==
  ASSUME RuntimeInv,
         \/ housekeeping
         \/ \E s \in Sequences : executionAges(s)
         \/ \E k \in RunIds : terminationAges(k)
         \/ \E c \in Callers, k \in Keys : refused(c, k)
  PROVE  RuntimeInv' /\ FirstStop
  <1>1. TypeOK /\ EntriesInv /\ RegistrySound
    BY DEF RuntimeInv
  <1>2. CASE housekeeping
    <2>1. RegistryShrinks
      BY <1>1, <1>2, CleanupShrinks DEF housekeeping
    <2> QED BY <1>2, <2>1, RegistryStep DEF housekeeping
  <1>3. ASSUME NEW s \in Sequences, executionAges(s) PROVE RuntimeInv' /\ FirstStop
    <2>1. UNCHANGED registry => RegistryShrinks
      BY <1>1, RegistryAlone
    <2>2. RegistryShrinks
      BY <1>1, <1>3 DEF RegistryShrinks, executionAges, TypeOK, EntriesInv, RegistrySound
    <2> QED BY <1>3, <2>2, RegistryStep DEF executionAges
  <1>4. ASSUME NEW k \in RunIds, terminationAges(k) PROVE RuntimeInv' /\ FirstStop
    <2>1. RegistryShrinks
      BY <1>1, <1>4 DEF RegistryShrinks, terminationAges, TypeOK, EntriesInv, RegistrySound
    <2> QED BY <1>4, <2>1, RegistryStep DEF terminationAges
  <1>5. ASSUME NEW c \in Callers, NEW k \in Keys, refused(c, k) PROVE RuntimeInv' /\ FirstStop
    <2>1. RegistryShrinks
      BY <1>1, <1>5, CleanupShrinks DEF refused
    <2> QED BY <1>5, <2>1, RegistryStep DEF refused
  <1> QED BY <1>2, <1>3, <1>4, <1>5

\* A request that joins its execution waits for one there is.
LEMMA JoinKeeps ==
  ASSUME RuntimeInv, NEW c \in Callers, NEW k \in Keys, NEW a \in Args, joins(c, k, a)
  PROVE  RuntimeInv' /\ FirstStop
  <1>1. TypeOK /\ EntriesInv /\ RegistrySound /\ cleanup
    BY DEF RuntimeInv, joins
  <1>2. /\ RegistryShrinks
        /\ KeptIndex[k] \in Kept /\ Kept \subseteq entries
    BY <1>1, CleanupShrinks DEF joins
  <1>3. KeptIndex[k] \in Sequences /\ sessions[KeptIndex[k]].state # "absent"
    BY <1>1, <1>2 DEF TypeOK, EntriesInv
  <1>4. UNCHANGED <<sessions, owner, process>> /\ UNCHANGED <<stops, shutdown>>
    BY DEF joins
  <1>5. CallersKept
    <2>1. CASE UNCHANGED calls
      <3>1. SessionsProgress
        BY <1>4 DEF SessionsProgress
      <3> QED BY <1>4, <2>1, <3>1, CallersAlone DEF callers
    <2>2. CASE Begin(c, KeptIndex[k], "waiting")
      <3>1. PICK call : call = [at |-> "waiting", seq |-> KeptIndex[k]]
        OBVIOUS
      <3>2. call \in Call /\ calls' = [calls EXCEPT ![c] = call]
        BY <1>3, <2>2, <3>1 DEF Call, Begin
      <3> QED BY <1>3, <1>4, <3>1, <3>2, CallMoves
    <2> QED BY <2>1, <2>2 DEF joins
  <1> QED BY <1>2, <1>4, <1>5, Bookkeeping

\* A call that returns is idle.
LEMMA ReturnKeeps ==
  ASSUME RuntimeInv, NEW c \in Callers, returns(c)
  PROVE  RuntimeInv' /\ FirstStop
  <1>1. UNCHANGED <<sessions, owner, process>> /\ UNCHANGED <<stops, shutdown>>
        /\ UNCHANGED registry
    BY DEF returns
  <1>2. RegistryShrinks
    BY <1>1, RegistryAlone DEF RuntimeInv
  <1>3. PICK call : call = [at |-> "idle", seq |-> 0]
    OBVIOUS
  <1>4. call \in Call /\ calls' = [calls EXCEPT ![c] = call]
    BY <1>3 DEF Call, Begin, returns
  <1>5. CallersKept
    BY <1>1, <1>3, <1>4, CallMoves
  <1> QED BY <1>1, <1>2, <1>5, Bookkeeping

\* The two locks of terminate_run, before it knows a session.
LEMMA TerminateRunKeeps ==
  ASSUME RuntimeInv, NEW t \in Terminators,
         retains(t) \/ \E k \in RunIds : terminate_run(t, k)
  PROVE  RuntimeInv' /\ FirstStop
  <1>1. TypeOK /\ EntriesInv /\ RegistrySound /\ CallsInv /\ ShutdownInv
    BY DEF RuntimeInv
  <1>2. UNCHANGED <<sessions, owner, process>> /\ UNCHANGED <<calls, shutdown>>
    BY DEF retains, terminate_run
  <1>3. SessionsProgress /\ CallsInv' /\ ShutdownInv'
    <2>1. SessionsProgress
      BY <1>2 DEF SessionsProgress
    <2>2. CallsInv'
      BY <1>1, <1>2, <2>1, CallsKept
    <2>3. ShutdownInv'
      BY <1>1, <1>2, <2>1, ShutdownKept
    <2> QED BY <2>1, <2>2, <2>3
  <1>4. CASE retains(t)
    <2>1. RegistryShrinks
      <3>1. stops[t].key \in RunIds
        BY <1>1 DEF TypeOK, Stop
      <3>2. pending' \subseteq RunIds /\ pending \subseteq pending'
            /\ UNCHANGED <<entries, index, aged, stale>>
        BY <1>1, <1>4, <3>1 DEF TypeOK, retains
      <3> QED BY <1>1, <1>2, <3>2 DEF RegistryShrinks, TypeOK, EntriesInv, RegistrySound
    <2>2. PICK stop : stop = [stops[t] EXCEPT !.at = "idle", !.seq = 0]
      OBVIOUS
    <2>3. stop \in Stop /\ stop.at = "idle"
      BY <1>1, <2>2 DEF TypeOK, Stop
    <2>4. stops' = [stops EXCEPT ![t] = stop]
      BY <1>1, <1>4, <2>2 DEF TypeOK, retains
    <2>5. stops' \in [Terminators -> Stop] /\ StopsInv'
      BY <1>3, <2>3, <2>4, StopMoves
    <2>6. CallersKept
      BY <1>1, <1>2, <1>3, <2>5 DEF CallersKept, TypeOK
    <2> QED BY <1>2, <2>1, <2>6, Bookkeeping
  <1>5. ASSUME NEW k \in RunIds, terminate_run(t, k) PROVE RuntimeInv' /\ FirstStop
    <2>1. k \in Keys /\ cleanup
      BY <1>5 DEF Keys, terminate_run
    <2>2. /\ RegistryShrinks /\ KeptIndex[k] \in Sequences \cup {0}
          /\ KeptIndex[k] # 0 => KeptIndex[k] \in Kept
          /\ Kept \subseteq entries
      BY <1>1, <2>1, CleanupShrinks
    <2>3. KeptIndex[k] # 0 => KeptIndex[k] \in Sequences /\ sessions[KeptIndex[k]].state # "absent"
      BY <1>1, <2>2 DEF TypeOK, EntriesInv
    <2>4. PICK stop : stop = [at |-> IF KeptIndex[k] = 0 THEN "missing" ELSE "found", key |-> k,
                              seq |-> KeptIndex[k]]
      OBVIOUS
    <2>5. stop \in Stop /\ stop.seq = KeptIndex[k] /\ (stop.at = "found" => KeptIndex[k] # 0)
      BY <2>2, <2>4 DEF Stop
    <2>6. stops' = [stops EXCEPT ![t] = stop]
      BY <1>5, <2>4 DEF terminate_run
    <2>7. stops' \in [Terminators -> Stop] /\ StopsInv'
      BY <1>3, <2>3, <2>5, <2>6, StopMoves
    <2>8. CallersKept
      BY <1>1, <1>2, <1>3, <2>7 DEF CallersKept, TypeOK
    <2> QED BY <1>2, <2>2, <2>8, Bookkeeping
  <1> QED BY <1>4, <1>5

\* terminate_run, with a session in hand.
LEMMA StopsRunKeeps ==
  ASSUME RuntimeInv, NEW t \in Terminators, stopsRun(t)
  PROVE  RuntimeInv' /\ FirstStop
  <1>1. TypeOK /\ CallsInv /\ StopsInv /\ ShutdownInv
    BY DEF RuntimeInv
  <1>2. PICK s : s = stops[t].seq
    OBVIOUS
  <1>3. s \in Sequences /\ sessions[s].state # "absent"
    BY <1>1, <1>2 DEF StopsInv, stopsRun
  <1>4. /\ sessions' = [sessions EXCEPT ![s] = Terminated(@, "explicit")]
        /\ UNCHANGED registry /\ UNCHANGED <<calls, shutdown>> /\ UNCHANGED <<owner, process>>
    BY <1>2 DEF stopsRun
  <1>5. PICK stop : stop = [stops[t] EXCEPT !.at = "idle", !.seq = 0]
    OBVIOUS
  <1>6. stop \in Stop /\ stop.at = "idle"
    BY <1>1, <1>5 DEF TypeOK, Stop
  <1>7. stops' = [stops EXCEPT ![t] = stop]
    BY <1>1, <1>5 DEF TypeOK, stopsRun
  <1>8. ASSUME SessionsProgress PROVE CallersKept
    <2>1. stops' \in [Terminators -> Stop] /\ StopsInv'
      BY <1>6, <1>7, <1>8, StopMoves
    <2>2. \A r \in Sequences : sessions[r].state \in Live => sessions'[r].state \in Live
      BY <1>3, <1>4, TerminationLeavesLive
    <2>3. CallsInv'
      BY <1>1, <1>4, <1>8, <2>2, CallsKept
    <2>4. ShutdownInv'
      BY <1>1, <1>4, <1>8, ShutdownKept
    <2> QED BY <1>1, <1>4, <2>1, <2>3, <2>4 DEF CallersKept, TypeOK
  <1>9. RegistryShrinks
    BY <1>3, <1>4, SessionFacts
  <1> QED BY <1>3, <1>4, <1>8, <1>9, TerminationKeeps
\* A launch: a cancelled run is finished, any other gets its task, and the caller,
\* who alone was about to launch it, waits.
LEMMA LaunchKeeps ==
  ASSUME RuntimeInv, NEW c \in Callers, launch(c)
  PROVE  RuntimeInv' /\ FirstStop
  <1>1. TypeOK /\ CallsInv /\ StopsInv /\ ShutdownInv
    BY DEF RuntimeInv
  <1>2. PICK s : s = calls[c].seq
    OBVIOUS
  <1>3. /\ s \in Sequences /\ owner[s].at = "none" /\ sessions[s].state \in Live
        /\ \A d \in Callers \ {c} : calls[d].at = "launch" => calls[d].seq # s
    BY <1>1, <1>2 DEF CallsInv, launch
  <1>4. PICK x, o, p : x = sessions[s] /\ o = owner[s] /\ p = process[s]
    OBVIOUS
  <1>5. x \in Session /\ o \in Owner /\ p \in Process /\ SessionOK(x, o, p) /\ o.at = "none"
        /\ x.state \in Live
    BY <1>3, <1>4, SessionFacts
  <1>6. PICK call : call = [at |-> "waiting", seq |-> s]
    OBVIOUS
  <1>7. call \in Call /\ calls' = [calls EXCEPT ![c] = call]
        /\ UNCHANGED <<stops, shutdown>> /\ UNCHANGED registry /\ UNCHANGED process
    BY <1>2, <1>3, <1>6 DEF Call, Begin, launch
  <1>8. PICK y, q : Becomes(s, y, q, p) /\ InOrder(x, y, q, p)
    <2>1. CASE x.cancelled
      <3>1. PICK y : y = Finished(x, "terminated")
        OBVIOUS
      <3>2. /\ y \in Session /\ y.state = "finished" /\ y.key = x.key /\ y.stop = x.stop
            /\ y.cancelled = x.cancelled
        BY <1>5, <3>1 DEF Finished, Session, States, Results
      <3>3. SessionOK(y, o, p)
        BY <1>5, <3>2 DEF SessionOK
      <3>4. sessions' = [sessions EXCEPT ![s] = y] /\ UNCHANGED owner
        BY <1>2, <1>4, <2>1, <3>1 DEF launch
      <3>5. Becomes(s, y, o, p)
        BY <1>3, <1>4, <1>7, <3>4, SessionFacts DEF Becomes
      <3>6. InOrder(x, y, o, p)
        BY <1>5, <3>2, <3>3 DEF InOrder, Live
      <3> QED BY <3>5, <3>6
    <2>2. CASE ~x.cancelled
      <3>1. PICK timed \in BOOLEAN :
              owner' = [owner EXCEPT ![s].at = "spawn", ![s].timer = timed]
        BY <1>2, <1>4, <2>2 DEF launch
      <3>2. PICK q : q = [o EXCEPT !.at = "spawn", !.timer = timed]
        OBVIOUS
      <3>3. q \in Owner /\ q.at = "spawn"
        BY <1>5, <3>2 DEF Owner
      <3>4. x.state \in {"starting", "stopping"}
        BY <1>5 DEF SessionOK, Live
      <3>5. SessionOK(x, q, p)
        BY <1>5, <2>2, <3>3, <3>4 DEF SessionOK
      <3>6. owner' = [owner EXCEPT ![s] = [o EXCEPT !.at = "spawn", !.timer = timed]]
        BY <1>1, <1>3, <1>4, <3>1 DEF TypeOK
      <3>7. UNCHANGED sessions
        BY <1>2, <1>4, <2>2 DEF launch
      <3>8. Becomes(s, x, q, p)
        BY <1>3, <1>4, <1>7, <3>2, <3>6, <3>7, SessionFacts DEF Becomes
      <3>9. InOrder(x, x, q, p)
        BY <1>5, <3>3, <3>4, <3>5 DEF InOrder
      <3> QED BY <3>8, <3>9
    <2> QED BY <2>1, <2>2
  <1>9. InOrder(sessions[s], y, q, p)
    BY <1>4, <1>8
  <1>10. SessionsProgress
         /\ \A r \in Sequences \ {s} : sessions'[r] = sessions[r] /\ owner'[r] = owner[r]
    BY <1>3, <1>8, <1>9, SessionMoves
  <1>11. CallersKept
    <2>1. calls' \in [Callers -> Call] /\ calls'[c] = call
          /\ \A d \in Callers \ {c} : calls'[d] = calls[d]
      BY <1>1, <1>7 DEF TypeOK
    <2>2. call.at = "waiting" /\ call.seq = s
      BY <1>6
    <2>3. \A d \in Callers : calls'[d].at # "idle" =>
            calls'[d].seq \in Sequences /\ sessions'[calls'[d].seq].state # "absent"
      BY <1>1, <1>3, <1>10, <2>1, <2>2 DEF CallsInv, SessionsProgress, Live
    <2>4. \A d \in Callers : calls'[d].at = "launch" =>
            owner'[calls'[d].seq].at = "none" /\ sessions'[calls'[d].seq].state \in Live
      BY <1>1, <1>3, <1>10, <2>1, <2>2 DEF CallsInv
    <2>5. CallsInv'
      BY <1>1, <2>1, <2>2, <2>3, <2>4 DEF CallsInv
    <2>6. StopsInv' /\ ShutdownInv'
      BY <1>1, <1>7, <1>10, StopsKept, ShutdownKept
    <2> QED BY <1>1, <1>7, <2>1, <2>5, <2>6 DEF CallersKept, TypeOK
  <1>12. RegistryShrinks
    BY <1>3, <1>7, SessionFacts
  <1> QED BY <1>3, <1>8, <1>9, <1>11, <1>12, SessionKeeps

\* shutdown collects all that is under way, and returns when it has finished.
LEMMA ShutdownSteps ==
  ASSUME RuntimeInv, shutdownBegins \/ shutdownReturns
  PROVE  RuntimeInv' /\ FirstStop
  <1>1. TypeOK /\ EntriesInv /\ RegistrySound /\ CallsInv /\ StopsInv /\ ShutdownInv
    BY DEF RuntimeInv
  <1>2. UNCHANGED <<sessions, owner, process>> /\ UNCHANGED registry /\ UNCHANGED <<calls, stops>>
    BY DEF shutdownBegins, shutdownReturns
  <1>3. RegistryShrinks
    BY <1>1, <1>2, RegistryAlone
  <1>4. SessionsProgress
    BY <1>2 DEF SessionsProgress
  <1>5. CallsInv' /\ StopsInv'
    BY <1>1, <1>2, <1>4, CallsKept, StopsKept
  <1>6. shutdown' \in Shutdown /\ ShutdownInv'
    <2>1. CASE shutdownBegins
      <3>1. shutdown' \in Shutdown /\ shutdown'.at = "called" /\ shutdown'.left = entries
            /\ shutdown'.all = entries
        BY <1>1, <2>1 DEF shutdownBegins, Shutdown, TypeOK
      <3>2. \A s \in Sequences : sessions[s].state \in Live => s \in entries
        BY <1>1 DEF RegistrySound, Unfinished, Live
      <3> QED BY <1>1, <1>2, <3>1, <3>2 DEF ShutdownInv, EntriesInv
    <2>2. CASE shutdownReturns
      <3>1. shutdown' \in Shutdown /\ shutdown'.left = shutdown.left
            /\ shutdown'.all = shutdown.all
        BY <1>1, <2>2 DEF shutdownReturns, Shutdown, TypeOK
      <3>2. \A s \in Sequences : sessions[s].state \in Live => s \in shutdown.all
        BY <1>1, <2>2 DEF ShutdownInv, Closing, shutdownReturns
      <3>3. \A s \in shutdown.all : sessions[s].state \notin Live
        BY <2>2 DEF shutdownReturns, Live
      <3> QED BY <1>1, <1>2, <3>1, <3>2, <3>3 DEF ShutdownInv
    <2> QED BY <2>1, <2>2
  <1>7. CallersKept
    BY <1>1, <1>2, <1>5, <1>6 DEF CallersKept, TypeOK
  <1> QED BY <1>2, <1>3, <1>7, Bookkeeping
\* An admission: a session that was not there, under an identity that is free.
LEMMA AdmissionKeeps ==
  ASSUME RuntimeInv, NEW c \in Callers, NEW k \in Keys, NEW a \in Args, admitted(c, k, a)
  PROVE  RuntimeInv' /\ FirstStop
  <1>1. /\ TypeOK /\ SessionsInv /\ Created /\ EntriesInv /\ RegistrySound /\ CallsInv
        /\ StopsInv /\ ShutdownInv
    BY DEF RuntimeInv
  <1>2. PICK s : s = NextSequence
    OBVIOUS
  <1>3. s \in Sequences /\ s \in Nat /\ sessions[s].state = "absent" /\ KeptIndex[k] = 0
    BY <1>1, <1>2, SequencesFinite DEF admitted, Created
  <1>4. PICK x : x = NewSession(k, a)
    OBVIOUS
  <1>5. /\ x \in Session /\ x.key = k /\ x.state = "starting" /\ x.stop = "none"
        /\ x.cancelled = (k \in KeptPending)
    <2>1. NoSession.key \in Keys /\ NoSession.args \in Args
      BY RequestsAssumption DEF NoSession, Keys
    <2>2. NoSession \in Session /\ NoSession.stop = "none"
      BY <2>1 DEF NoSession, Session, States, StopReasons, Results
    <2>3. PICK cancelled \in BOOLEAN : cancelled = (k \in KeptPending)
      <3>1. CASE k \in KeptPending
        <4>1. TRUE = (k \in KeptPending)
          BY <3>1
        <4> QED BY <4>1
      <3>2. CASE k \notin KeptPending
        <4>1. FALSE = (k \in KeptPending)
          BY <3>2
        <4> QED BY <4>1
      <3> QED BY <3>1, <3>2
    <2>4. x = [NoSession EXCEPT !.key = k, !.args = a, !.state = "starting",
                                !.cancelled = cancelled]
      BY <1>4, <2>3 DEF NewSession
    <2>5. /\ x \in Session /\ x.key = k /\ x.state = "starting" /\ x.stop = "none"
          /\ x.cancelled = cancelled
      BY <2>2, <2>4 DEF Session, States
    <2> QED BY <2>3, <2>5
  <1>6. PICK at \in {"launch", "waiting"} :
          /\ calls' = [calls EXCEPT ![c] = [at |-> at, seq |-> s]]
          /\ owner' = IF at = "launch" THEN owner ELSE [owner EXCEPT ![s].at = "spawn"]
          /\ at = "launch" <=> k \in RunIds
    BY <1>2 DEF admitted, Begin
  <1>7. /\ sessions' = [sessions EXCEPT ![s] = x]
        /\ entries' = Kept \cup {s} /\ index' = [KeptIndex EXCEPT ![k] = s]
        /\ pending' = KeptPending \ {k} /\ aged' = {} /\ stale' = {}
        /\ UNCHANGED <<stops, shutdown, process>> /\ ~Closing /\ ~Full
    BY <1>2, <1>4 DEF admitted
  <1>8. /\ Kept \subseteq entries /\ KeptIndex \in [Keys -> Sequences \cup {0}]
        /\ \A j \in Keys : KeptIndex[j] # 0 => KeptIndex[j] \in Kept /\ KeptIndex[j] = index[j]
        /\ \A r \in Sequences : sessions[r].state \in Live =>
             r \in Kept /\ sessions[r].key \in Keys /\ KeptIndex[sessions[r].key] = r
             /\ index[sessions[r].key] = r
        /\ KeptPending \subseteq RunIds
    BY <1>1, KeptFacts
  <1>9. s \notin entries /\ s \notin Kept /\ entries \subseteq Sequences
    BY <1>1, <1>3, <1>8 DEF EntriesInv, TypeOK
  <1>10. /\ sessions' \in [Sequences -> Session] /\ sessions'[s] = x
         /\ \A r \in Sequences \ {s} : sessions'[r] = sessions[r]
    BY <1>1, <1>3, <1>5, <1>7 DEF TypeOK
  <1>11. /\ owner' \in [Sequences -> Owner] /\ SessionOK(x, owner'[s], process[s])
         /\ \A r \in Sequences \ {s} : owner'[r] = owner[r]
         /\ at = "launch" => owner'[s].at = "none"
    <2>1. PICK o : o = owner[s]
      OBVIOUS
    <2>2. o \in Owner /\ o.at = "none" /\ process[s].root = "none" /\ ~process[s].rest /\ ~o.timer
      BY <1>1, <1>3, <2>1 DEF SessionsInv, SessionOK, TypeOK
    <2>3. CASE at = "launch"
      <3>1. SessionOK(x, o, process[s])
        BY <1>5, <2>2 DEF SessionOK
      <3> QED BY <1>1, <1>6, <2>1, <2>2, <2>3, <3>1 DEF TypeOK
    <2>4. CASE at = "waiting"
      <3>1. PICK q : q = [o EXCEPT !.at = "spawn"]
        OBVIOUS
      <3>2. q \in Owner /\ q.at = "spawn" /\ q.timer = o.timer
        BY <2>2, <3>1 DEF Owner
      <3>3. owner' = [owner EXCEPT ![s] = q]
        BY <1>1, <1>3, <1>6, <2>1, <2>4, <3>1 DEF TypeOK
      <3>4. ~x.cancelled
        BY <1>5, <1>6, <1>8, <2>4
      <3>5. SessionOK(x, q, process[s])
        BY <1>5, <2>2, <3>2, <3>4 DEF SessionOK
      <3> QED BY <1>1, <1>3, <2>4, <3>2, <3>3, <3>5 DEF TypeOK
    <2> QED BY <1>6, <2>3, <2>4
  <1>12. SessionsInv'
    BY <1>1, <1>7, <1>10, <1>11 DEF SessionsInv
  <1>13. Created'
    <2> DEFINE A == {r \in Sequences : sessions[r].state # "absent"}
               B == {r \in Sequences : sessions'[r].state # "absent"}
    <2>1. B = A \cup {s} /\ s \notin A /\ A \in SUBSET Sequences
      BY <1>3, <1>5, <1>10
    <2>2. NextSequence = 1 + Cardinality(A) /\ NextSequence' = 1 + Cardinality(B)
      BY DEF NextSequence
    <2> HIDE DEF A, B
    <2>3. Cardinality(B) = Cardinality(A) + 1 /\ Cardinality(A) \in Nat
      BY <2>1, SequencesFinite, FS_AddElement
    <2>4. NextSequence' = s + 1 /\ NextSequence' \in Nat
      BY <1>2, <1>3, <2>2, <2>3
    <2>5. \A r \in Sequences : (sessions'[r].state # "absent") = (r < s + 1)
      <3> SUFFICES ASSUME NEW r \in Sequences
                   PROVE  (sessions'[r].state # "absent") = (r < s + 1)
        OBVIOUS
      <3>1. r \in Nat /\ s \in Nat
        BY <1>3, SequencesFinite
      <3>2. CASE r = s
        BY <1>5, <1>10, <3>1, <3>2
      <3>3. CASE r # s
        <4>1. (sessions'[r].state # "absent") = (r < s)
          BY <1>1, <1>2, <1>10, <3>3 DEF Created
        <4>2. (r < s) = (r < s + 1)
          BY <3>1, <3>3
        <4> QED BY <4>1, <4>2
      <3> QED BY <3>2, <3>3
    <2>6. \A r \in Sequences : (sessions'[r].state # "absent") = (r < NextSequence')
      BY <2>4, <2>5
    <2> QED BY <2>4, <2>6 DEF Created
  <1>14. EntriesInv'
    BY <1>1, <1>5, <1>7, <1>8, <1>9, <1>10 DEF EntriesInv
  <1>15. RegistrySound'
    <2>1. \A j \in Keys : index'[j] # 0 => index'[j] \in entries' /\ sessions'[index'[j]].key = j
      <3> SUFFICES ASSUME NEW j \in Keys, index'[j] # 0
                   PROVE  index'[j] \in entries' /\ sessions'[index'[j]].key = j
        OBVIOUS
      <3>1. CASE j = k
        BY <1>5, <1>7, <1>8, <1>10, <3>1
      <3>2. CASE j # k
        <4>1. index'[j] = KeptIndex[j]
          BY <1>7, <1>8, <3>2
        <4>2. index'[j] \in Kept /\ index'[j] = index[j] /\ index'[j] \in Sequences \ {s}
          BY <1>8, <1>9, <4>1
        <4>3. sessions[index[j]].key = j
          BY <1>1, <4>2 DEF RegistrySound
        <4> QED BY <1>7, <1>10, <4>2, <4>3
      <3> QED BY <3>1, <3>2
    <2>2. \A r \in Sequences : Unfinished(r)' => r \in entries' /\ index'[sessions'[r].key] = r
      <3> SUFFICES ASSUME NEW r \in Sequences, sessions'[r].state \in Live
                   PROVE  r \in entries' /\ index'[sessions'[r].key] = r
        BY DEF Unfinished, Live
      <3>1. CASE r = s
        BY <1>5, <1>7, <1>8, <1>10, <3>1
      <3>2. CASE r # s
        <4>1. sessions'[r] = sessions[r]
          BY <1>10, <3>2
        <4>2. r \in Kept /\ sessions[r].key \in Keys /\ KeptIndex[sessions[r].key] = r
          BY <1>8, <4>1
        <4>3. sessions[r].key # k
          <5>1. r # 0
            BY SequencesFinite
          <5> QED BY <1>3, <4>2, <5>1
        <4> QED BY <1>7, <1>8, <4>1, <4>2, <4>3
      <3> QED BY <3>1, <3>2
    <2>3. Cardinality({r \in Sequences : Unfinished(r)'}) <= MaxActive
      <3> DEFINE A == {r \in Kept : Unfinished(r)}
                 B == {r \in Sequences : Unfinished(r)'}
      <3>1. A \in SUBSET Sequences /\ B \in SUBSET Sequences /\ B \subseteq A \cup {s}
        BY <1>8, <1>9, <1>10 DEF Unfinished, Live
      <3>2. ~(Cardinality(A) >= MaxActive)
        BY <1>7 DEF Full
      <3> HIDE DEF A, B
      <3>3. IsFiniteSet(A) /\ Cardinality(A) \in Nat /\ Cardinality(B) \in Nat
        BY <3>1, SequencesFinite
      <3>4. IsFiniteSet(A \cup {s})
            /\ Cardinality(A \cup {s}) \in {Cardinality(A), Cardinality(A) + 1}
        BY <3>3, FS_AddElement
      <3>5. Cardinality(B) <= Cardinality(A \cup {s})
        BY <3>1, <3>4, FS_Subset
      <3>6. Cardinality(B) <= MaxActive
        BY <3>2, <3>3, <3>4, <3>5, LimitsAssumption
      <3> QED BY <3>6 DEF B
    <2>4. Cardinality(entries') <= MaxRetained
      <3>1. ~(Cardinality(Kept) >= MaxRetained) /\ Kept \in SUBSET Sequences
        BY <1>7, <1>8, <1>9 DEF Full
      <3>2. IsFiniteSet(Kept) /\ Cardinality(Kept) \in Nat
        BY <3>1, SequencesFinite
      <3>3. Cardinality(Kept \cup {s}) = Cardinality(Kept) + 1
        BY <1>9, <3>2, FS_AddElement
      <3> QED BY <1>7, <3>1, <3>2, <3>3, LimitsAssumption
    <2> QED BY <2>1, <2>2, <2>3, <2>4 DEF RegistrySound
  <1>16. CallsInv' /\ calls' \in [Callers -> Call]
    <2>1. PICK call : call = [at |-> at, seq |-> s]
      OBVIOUS
    <2>2. call \in Call /\ call.at = at /\ call.seq = s
      BY <1>3, <2>1 DEF Call
    <2>3. calls' \in [Callers -> Call] /\ calls'[c] = call
          /\ \A d \in Callers \ {c} : calls'[d] = calls[d]
      BY <1>1, <1>6, <2>1, <2>2 DEF TypeOK
    <2>4. \A d \in Callers \ {c} : calls[d].at # "idle" => calls[d].seq \in Sequences \ {s}
      BY <1>1, <1>3 DEF CallsInv
    <2>5. x.state # "absent" /\ x.state \in Live
      BY <1>5 DEF Live
    <2>6. \A d \in Callers : calls'[d].at # "idle" =>
            calls'[d].seq \in Sequences /\ sessions'[calls'[d].seq].state # "absent"
      <3>1. calls'[c].seq \in Sequences /\ sessions'[calls'[c].seq].state # "absent"
        BY <1>3, <1>10, <2>2, <2>3, <2>5
      <3>2. \A d \in Callers \ {c} : calls'[d].at # "idle" =>
              calls'[d].seq \in Sequences /\ sessions'[calls'[d].seq].state # "absent"
        BY <1>1, <1>10, <2>3, <2>4 DEF CallsInv
      <3> QED BY <3>1, <3>2
    <2>7. \A d \in Callers : calls'[d].at = "launch" =>
            owner'[calls'[d].seq].at = "none" /\ sessions'[calls'[d].seq].state \in Live
      <3>1. calls'[c].at = "launch" =>
              owner'[calls'[c].seq].at = "none" /\ sessions'[calls'[c].seq].state \in Live
        BY <1>10, <1>11, <2>2, <2>3, <2>5
      <3>2. \A d \in Callers \ {c} : calls'[d].at = "launch" =>
              owner'[calls'[d].seq].at = "none" /\ sessions'[calls'[d].seq].state \in Live
        BY <1>1, <1>10, <1>11, <2>3, <2>4 DEF CallsInv
      <3> QED BY <3>1, <3>2
    <2>8. \A d, e \in Callers :
            calls'[d].at = "launch" /\ calls'[e].at = "launch" /\ calls'[d].seq = calls'[e].seq
              => d = e
      BY <1>1, <2>2, <2>3, <2>4 DEF CallsInv
    <2> QED BY <2>3, <2>6, <2>7, <2>8 DEF CallsInv
  <1>17. StopsInv'
    BY <1>1, <1>3, <1>7, <1>10 DEF StopsInv
  <1>18. ShutdownInv'
    <2>1. shutdown.left \subseteq Sequences \ {s} /\ shutdown.at = "no"
      BY <1>1, <1>3, <1>7 DEF TypeOK, Shutdown, ShutdownInv, Closing
    <2> QED BY <1>1, <1>7, <1>10, <2>1 DEF ShutdownInv, Closing
  <1>19. TypeOK'
    <2>1. entries' \subseteq Sequences /\ index' \in [Keys -> Sequences \cup {0}]
          /\ pending' \subseteq RunIds /\ aged' \subseteq entries' /\ stale' \subseteq pending'
      BY <1>3, <1>7, <1>8, <1>9
    <2> QED BY <1>1, <1>7, <1>10, <1>11, <1>16, <2>1 DEF TypeOK
  <1>20. FirstStop
    <2>1. sessions[s].stop = "none"
      BY <1>1, <1>3 DEF SessionsInv, SessionOK
    <2> QED BY <1>10, <2>1 DEF FirstStop
  <1> QED BY <1>12, <1>13, <1>14, <1>15, <1>16, <1>17, <1>18, <1>19, <1>20 DEF RuntimeInv

-----------------------------------------------------------------------------
(* The specification. *)

\* Every step keeps the invariant, and the first reason to stop.
LEMMA RuntimeStep ==
  ASSUME RuntimeInv, [Next]_vars
  PROVE  RuntimeInv' /\ FirstStop
  <1>1. CASE Next
    <2>1. CASE housekeeping \/ \E k \in RunIds : terminationAges(k)
      BY <2>1, RegistrySteps
    <2>2. CASE shutdownBegins \/ shutdownReturns
      BY <2>2, ShutdownSteps
    <2>3. ASSUME NEW c \in Callers, CallStep(c) PROVE RuntimeInv' /\ FirstStop
      <3>1. ASSUME NEW k \in Keys, NEW a \in Args, joins(c, k, a) PROVE RuntimeInv' /\ FirstStop
        BY <3>1, JoinKeeps
      <3>2. ASSUME NEW k \in Keys, NEW a \in Args, admitted(c, k, a)
            PROVE  RuntimeInv' /\ FirstStop
        BY <3>2, AdmissionKeeps
      <3>3. ASSUME NEW k \in Keys, refused(c, k) PROVE RuntimeInv' /\ FirstStop
        BY <3>3, RegistrySteps
      <3>4. CASE launch(c)
        BY <3>4, LaunchKeeps
      <3>5. CASE returns(c)
        BY <3>5, ReturnKeeps
      <3> QED BY <2>3, <3>1, <3>2, <3>3, <3>4, <3>5 DEF CallStep
    <2>4. ASSUME NEW t \in Terminators, StopStep(t) PROVE RuntimeInv' /\ FirstStop
      BY <2>4, TerminateRunKeeps, StopsRunKeeps DEF StopStep
    <2>5. ASSUME NEW s \in Sequences, SessionStep(s) PROVE RuntimeInv' /\ FirstStop
      <3>1. CASE terminate_execution(s) \/ shutdownStops(s) \/ seesShutdown(s)
        BY <3>1, TerminationSteps
      <3>2. CASE executionAges(s)
        BY <3>2, RegistrySteps
      <3>3. CASE timeoutFires(s)
        BY <3>3, TimeoutKeeps
      <3>4. CASE spawnFails(s) \/ spawns(s)
        BY <3>4, SpawnKeeps
      <3>5. CASE stopGracefully(s) \/ stopForcibly(s) \/ graceEnds(s)
        BY <3>5, LoopStops
      <3>6. CASE childExits(s)
        BY <3>6, ChildExitKeeps
      <3>7. CASE rootExits(s) \/ waitFails(s)
        BY <3>7, WaitKeeps
      <3>8. CASE killsRest(s)
        BY <3>8, KillsRestKeeps
      <3>9. CASE finishes(s)
        BY <3>9, FinishKeeps
      <3>10. CASE leaveGroup(s)
        BY <3>10, LeaveGroupKeeps
      <3> QED BY <2>5, <3>1, <3>2, <3>3, <3>4, <3>5, <3>6, <3>7, <3>8, <3>9, <3>10 DEF SessionStep
    <2> QED BY <1>1, <2>1, <2>2, <2>3, <2>4, <2>5 DEF Next
  <1>2. CASE UNCHANGED vars
    <2>1. UNCHANGED <<sessions, owner, process>> /\ UNCHANGED registry /\ UNCHANGED callers
      BY <1>2 DEF vars
    <2>2. RegistryShrinks
      BY <2>1, RegistryAlone DEF RuntimeInv
    <2> QED BY <2>1, <2>2, RegistryStep
  <1> QED BY <1>1, <1>2

\* Nothing has been asked of the runtime yet.
LEMMA RuntimeInitially ==
  ASSUME Init
  PROVE  RuntimeInv
  <1>1. NoSession \in Session /\ NoSession.state = "absent" /\ NoSession.stop = "none"
        /\ NoSession.cancelled = FALSE
    <2>1. NoSession.key \in Keys /\ NoSession.args \in Args
      BY RequestsAssumption DEF NoSession, Keys
    <2> QED BY <2>1 DEF NoSession, Session, States, StopReasons, Results
  <1>2. /\ sessions \in [Sequences -> Session]
        /\ \A s \in Sequences : sessions[s] = NoSession /\ owner[s] = NoOwner
                                /\ process[s] = NoProcess
    BY <1>1 DEF Init
  <1>3. NoOwner \in Owner /\ NoProcess \in Process
    BY DEF NoOwner, Owner, NoProcess, Process
  <1>4. TypeOK
    <2>1. stops \in [Terminators -> Stop]
      <3>1. PICK j \in RunIds : j = CHOOSE k \in RunIds : TRUE
        BY RequestsAssumption
      <3>2. stops = [t \in Terminators |-> [at |-> "idle", key |-> j, seq |-> 0]]
        BY <3>1 DEF Init
      <3> QED BY <3>2 DEF Stop
    <2> QED BY <1>2, <1>3, <2>1 DEF Init, TypeOK, Call, Shutdown
  <1>5. SessionsInv
    BY <1>1, <1>2 DEF SessionsInv, SessionOK, NoOwner, NoProcess
  <1>6. Created
    <2>1. {s \in Sequences : sessions[s].state # "absent"} = {}
      BY <1>1, <1>2
    <2>2. NextSequence = 1
      BY <2>1, FS_EmptySet DEF NextSequence
    <2>3. \A s \in Sequences : ~(s < 1)
      BY SequencesFinite
    <2> QED BY <1>1, <1>2, <2>2, <2>3 DEF Created
  <1>7. EntriesInv /\ StopsInv /\ CallsInv
    BY DEF Init, EntriesInv, StopsInv, CallsInv
  <1>8. RegistrySound
    <2>1. {s \in Sequences : Unfinished(s)} = {}
      BY <1>1, <1>2 DEF Unfinished
    <2>2. entries = {} /\ \A k \in Keys : index[k] = 0
      BY DEF Init
    <2>3. Cardinality({s \in Sequences : Unfinished(s)}) = 0 /\ Cardinality(entries) = 0
      BY <2>1, <2>2, FS_EmptySet
    <2>4. 0 <= MaxActive /\ 0 <= MaxRetained
      BY LimitsAssumption
    <2> QED BY <2>1, <2>2, <2>3, <2>4 DEF RegistrySound
  <1>9. ShutdownInv
    BY DEF Init, ShutdownInv, Closing
  <1> QED BY <1>4, <1>5, <1>6, <1>7, <1>8, <1>9 DEF RuntimeInv

\* The inductive invariant holds of every behaviour.
LEMMA RuntimeInvariant == Spec => []RuntimeInv
  <1>1. RuntimeInv /\ [Next]_vars => RuntimeInv'
    BY RuntimeStep
  <1> QED BY <1>1, RuntimeInitially, PTL DEF Spec

\* Every variable keeps its shape, whatever the runtime is asked, and when.
THEOREM RuntimeTyped == Spec => []TypeOK
  <1>1. RuntimeInv => TypeOK
    BY DEF RuntimeInv
  <1> QED BY <1>1, RuntimeInvariant, PTL

\* An identity leads to the entry of its execution, an execution that has not
\* finished is the one its identity leads to, and the limits of the registry hold.
THEOREM RegistryAlwaysSound == Spec => []RegistrySound
  <1>1. RuntimeInv => RegistrySound
    BY DEF RuntimeInv
  <1> QED BY <1>1, RuntimeInvariant, PTL

\* An execution that finished, and whose result is not "lost", has left nothing
\* running in its process group or job object, neither the child nor a descendant.
\* It says nothing of descendants that have left the group.
THEOREM GroupAlwaysLeftEmpty == Spec => []GroupLeftEmpty
  <1>1. RuntimeInv => GroupLeftEmpty
    BY DEF RuntimeInv, SessionsInv, SessionOK, GroupLeftEmpty
  <1> QED BY <1>1, RuntimeInvariant, PTL

\* Once shutdown has returned no execution goes on and no task runs.
THEOREM ShutdownEndsAll == Spec => []ShutdownIsFinal
  <1>1. ASSUME RuntimeInv PROVE ShutdownIsFinal
    <2> SUFFICES ASSUME shutdown.at = "done", NEW s \in Sequences
                 PROVE  ~Unfinished(s) /\ owner[s].at \in {"none", "done"}
      BY DEF ShutdownIsFinal
    <2>1. sessions[s].state \notin Live /\ sessions[s] \in Session
      BY <1>1 DEF RuntimeInv, ShutdownInv, TypeOK
    <2>2. SessionOK(sessions[s], owner[s], process[s])
      BY <1>1 DEF RuntimeInv, SessionsInv
    <2> QED BY <2>1, <2>2 DEF Unfinished, Live, SessionOK, Session, States
  <1> QED BY <1>1, RuntimeInvariant, PTL

\* A run that was cancelled before it came never starts a process.
THEOREM CancelledStaysUnspawned == Spec => []CancelledNeverSpawns
  <1>1. RuntimeInv => CancelledNeverSpawns
    BY DEF RuntimeInv, SessionsInv, SessionOK, CancelledNeverSpawns
  <1> QED BY <1>1, RuntimeInvariant, PTL

\* A timeout, a termination and a shutdown that race never replace one another.
THEOREM FirstStopDecides == Spec => FirstStopWins
  <1>1. RuntimeInv /\ [Next]_vars => FirstStop
    BY RuntimeStep
  <1>2. Spec => [][FirstStop]_vars
    BY <1>1, RuntimeInvariant, PTL DEF Spec
  <1> QED BY <1>2 DEF FirstStopWins, FirstStop
=============================================================================
