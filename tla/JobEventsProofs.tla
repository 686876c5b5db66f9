-------------------------- MODULE JobEventsProofs --------------------------
(***************************************************************************)
(* The waits and the outbox of JobEvents, for any users, jobs, waits,      *)
(* workers and limits: no wake-up is missed, the registry's counters are   *)
(* its waiters, the attempts tell what became of a delivery, and a cycle   *)
(* is bounded.                                                             *)
(***************************************************************************)
EXTENDS JobEvents, FiniteSetTheorems, SequenceTheorems, TLAPS

\* The registry, as one set.
Registered == {w \in Waits : w \in by_job[JobOf[w]]}
RegisteredBy(u) == {w \in Registered : UserOf(w) = u}

WaitPlaces == {"new", "first", "open", "over"} \cup Subscribed

CompletionType ==
  /\ ended \subseteq Jobs /\ notices \subseteq Jobs /\ lost \subseteq Jobs
  /\ listening \in BOOLEAN
  /\ waits \in [Waits -> WaitPlaces]
  /\ by_job \in [Jobs -> SUBSET Waits]
  /\ by_user \in [Users -> Nat] /\ total \in Nat
  /\ woken \subseteq Waits

\* A waiter is registered with its own job, from its subscription until it is
\* woken or leaves; only a subscribed wait has been woken.
RegistryExact ==
  /\ \A j \in Jobs : \A w \in by_job[j] : JobOf[w] = j
  /\ \A w \in Waits : (w \in by_job[JobOf[w]]) = (waits[w] \in Subscribed /\ w \notin woken)
  /\ \A w \in woken : waits[w] \in Subscribed \cup {"over"}

CountersExact ==
  /\ IsFiniteSet(Registered)
  /\ total = Cardinality(Registered) /\ total <= MaxWaiters
  /\ \A u \in Users : by_user[u] = Cardinality(RegisteredBy(u))
                      /\ by_user[u] <= MaxWaitersPerUser

CompletionInv == CompletionType /\ RegistryExact /\ CountersExact /\ NoMissedWakeup

-----------------------------------------------------------------------------
DeliveryRow ==
  [status : Active \cup Final, due : BOOLEAN, lease : Nat, held : BOOLEAN,
   from : Nat \ {0}, over : BOOLEAN]
AttemptRow == {"open", "success", "failed", "lease_expired"}
Claim == [pc : {"sending", "finalizing"}, job : Jobs, number : Nat, cycle : Int,
          outcome : {"none", "success", "retry", "error"}]

\* What AttemptsTellDelivery says of one delivery and its attempts, and what
\* CycleBounded says.
Told(d, rows) ==
  /\ {n \in 1..Len(rows) : rows[n] = "open"}
       = IF d.status = "delivering" THEN {Len(rows)} ELSE {}
  /\ d.status = "delivering" => d.lease = Len(rows)
  /\ d.status = "delivered" => Len(rows) >= d.from /\ rows[Len(rows)] = "success"
  /\ d.status \in {"pending", "retry_wait"} /\ Len(rows) >= d.from =>
       rows[Len(rows)] = "failed"

Bounded(d, rows) == Len(rows) - d.from + 1 <= MaxAttempts

\* A lease is held only while it is delivered, and a cycle starts at most one
\* behind the attempts there are.
Ordered(d, rows) ==
  /\ d.held => d.status = "delivering"
  /\ d.from <= Len(rows) + 1
  /\ d.status = "delivering" => d.from <= Len(rows)

RowInv(d, rows) ==
  d \in DeliveryRow /\ rows \in Seq(AttemptRow) /\ Told(d, rows) /\ Bounded(d, rows)
  /\ Ordered(d, rows)

\* An event is written by the end of its job, and has attempts only after that.
EventInv(j) ==
  \/ deliveries[j] = NoDelivery /\ attempts[j] = <<>>
  \/ j \in ended /\ RowInv(deliveries[j], attempts[j])

OutboxInv ==
  /\ deliveries \in [Jobs -> {NoDelivery} \cup DeliveryRow]
  /\ attempts \in [Jobs -> Seq(AttemptRow)]
  /\ workers \in [Workers -> {Resting} \cup Claim]
  /\ enabled \subseteq Users /\ callback \subseteq Users
  /\ \A j \in Jobs : EventInv(j)
  /\ \A w \in Workers : workers[w] # Resting => deliveries[workers[w].job] # NoDelivery

-----------------------------------------------------------------------------
(* The registry. *)

\* A wait has a job and a user, who owns it.
LEMMA WaitHasUser ==
  ASSUME NEW w \in Waits
  PROVE  JobOf[w] \in Jobs /\ UserOf(w) \in Users
  BY WaitsHaveJobs, JobsHaveOwners DEF UserOf

\* What is registered is finite, and so is each user's share.
LEMMA ShareFinite ==
  ASSUME NEW R, IsFiniteSet(R), NEW T \in SUBSET R
  PROVE  /\ IsFiniteSet(T) /\ Cardinality(T) \in Nat
         /\ IsFiniteSet(R \ T) /\ Cardinality(R \ T) = Cardinality(R) - Cardinality(T)
  <1>1. IsFiniteSet(T) /\ IsFiniteSet(R \ T)
    BY FS_Subset
  <1>2. Cardinality(T) \in Nat /\ Cardinality(R \ T) \in Nat /\ Cardinality(R) \in Nat
    BY <1>1, FS_CardinalityType
  <1>3. Cardinality((R \ T) \cup T)
          = Cardinality(R \ T) + Cardinality(T) - Cardinality((R \ T) \cap T)
    BY <1>1, FS_Union
  <1>4. (R \ T) \cup T = R /\ (R \ T) \cap T = {}
    OBVIOUS
  <1>5. Cardinality(R) = Cardinality(R \ T) + Cardinality(T)
    BY <1>2, <1>3, <1>4, FS_EmptySet
  <1> QED BY <1>1, <1>2, <1>5

\* The entries are the registered waits.
LEMMA RegisteredIsUnion ==
  ASSUME CompletionType, RegistryExact
  PROVE  Registered = UNION {by_job[j] : j \in Jobs}
  <1>1. ASSUME NEW w \in Registered PROVE w \in UNION {by_job[j] : j \in Jobs}
    BY <1>1, WaitHasUser DEF Registered
  <1>2. ASSUME NEW j \in Jobs, NEW w \in by_job[j] PROVE w \in Registered
    BY <1>2 DEF Registered, CompletionType, RegistryExact
  <1> QED BY <1>1, <1>2

\* Waiters that leave, each counted down once.
LEMMA CountersDown ==
  ASSUME CountersExact, NEW S \in SUBSET Registered, Registered' = Registered \ S,
         total' = total - Cardinality(S),
         \A u \in Users : by_user'[u] = by_user[u] - Cardinality({w \in S : UserOf(w) = u})
  PROVE  CountersExact' /\ total' \in Nat /\ \A u \in Users : by_user'[u] \in Nat
  <1>1. /\ IsFiniteSet(S) /\ Cardinality(S) \in Nat /\ IsFiniteSet(Registered \ S)
        /\ Cardinality(Registered \ S) = Cardinality(Registered) - Cardinality(S)
        /\ Cardinality(Registered) \in Nat
    BY ShareFinite, FS_CardinalityType DEF CountersExact
  <1>2. total' = Cardinality(Registered \ S) /\ total' <= MaxWaiters /\ total' \in Nat
    <2>1. Cardinality(Registered \ S) \in Nat
      BY <1>1, FS_CardinalityType
    <2> QED BY <1>1, <2>1, WaitsHaveJobs DEF CountersExact
  <1>3. ASSUME NEW u \in Users
        PROVE  /\ by_user'[u] = Cardinality(RegisteredBy(u)') /\ by_user'[u] \in Nat
               /\ by_user'[u] <= MaxWaitersPerUser
    <2> DEFINE R == RegisteredBy(u)
               T == {w \in S : UserOf(w) = u}
    <2>1. RegisteredBy(u)' = R \ T /\ T \in SUBSET R /\ R \in SUBSET Registered
      BY DEF RegisteredBy
    <2>2. IsFiniteSet(R)
      BY <2>1, FS_Subset DEF CountersExact
    <2>3. by_user[u] = Cardinality(R) /\ by_user[u] <= MaxWaitersPerUser
      BY DEF CountersExact
    <2>4. by_user'[u] = by_user[u] - Cardinality(T)
      OBVIOUS
    <2> HIDE DEF R, T
    <2>5. /\ Cardinality(T) \in Nat /\ IsFiniteSet(R \ T)
          /\ Cardinality(R \ T) = Cardinality(R) - Cardinality(T)
      BY <2>1, <2>2, ShareFinite
    <2>6. Cardinality(R) \in Nat /\ Cardinality(R \ T) \in Nat
      BY <2>2, <2>5, FS_CardinalityType
    <2> QED BY <2>1, <2>3, <2>4, <2>5, <2>6, WaitsHaveJobs
  <1> QED BY <1>1, <1>2, <1>3 DEF CountersExact

\* A waiter that comes where there is room.
LEMMA CountersUp ==
  ASSUME CompletionType, CountersExact, NEW w \in Waits, w \notin Registered, Room(w),
         Registered' = Registered \cup {w},
         total' = total + 1, by_user' = [by_user EXCEPT ![UserOf(w)] = @ + 1]
  PROVE  CountersExact'
  <1>1. /\ IsFiniteSet(Registered \cup {w})
        /\ Cardinality(Registered \cup {w}) = Cardinality(Registered) + 1
    BY FS_AddElement DEF CountersExact
  <1>2. total' = Cardinality(Registered \cup {w}) /\ total' <= MaxWaiters
    BY <1>1, WaitsHaveJobs DEF CountersExact, CompletionType, Room
  <1>3. ASSUME NEW u \in Users
        PROVE  by_user'[u] = Cardinality(RegisteredBy(u)') /\ by_user'[u] <= MaxWaitersPerUser
    <2>1. by_user[u] = Cardinality(RegisteredBy(u)) /\ by_user[u] <= MaxWaitersPerUser
          /\ by_user[u] \in Nat
      BY DEF CountersExact, CompletionType
    <2>2. CASE u = UserOf(w)
      <3>1. RegisteredBy(u)' = RegisteredBy(u) \cup {w} /\ w \notin RegisteredBy(u)
        BY <2>2 DEF RegisteredBy
      <3>2. IsFiniteSet(RegisteredBy(u))
        BY FS_Subset DEF RegisteredBy, CountersExact
      <3>3. Cardinality(RegisteredBy(u) \cup {w}) = Cardinality(RegisteredBy(u)) + 1
        BY <3>1, <3>2, FS_AddElement
      <3>4. by_user'[u] = by_user[u] + 1 /\ by_user[u] < MaxWaitersPerUser
        BY <2>2 DEF CompletionType, Room
      <3> QED BY <2>1, <3>1, <3>3, <3>4, WaitsHaveJobs
    <2>3. CASE u # UserOf(w)
      <3>1. RegisteredBy(u)' = RegisteredBy(u)
        BY <2>3 DEF RegisteredBy
      <3>2. by_user'[u] = by_user[u]
        BY <2>3 DEF CompletionType
      <3> QED BY <2>1, <3>1, <3>2
    <2> QED BY <2>2, <2>3
  <1> QED BY <1>1, <1>2, <1>3 DEF CountersExact

RegistryType ==
  /\ by_job \in [Jobs -> SUBSET Waits] /\ by_user \in [Users -> Nat] /\ total \in Nat
  /\ woken \subseteq Waits

\* Waiters leave the registry, together: by the wake-up or on their own.
LEMMA WaitersLeave ==
  ASSUME CompletionType, RegistryExact, CountersExact, NEW j \in Jobs,
         NEW S \in SUBSET by_job[j],
         by_job' = [by_job EXCEPT ![j] = @ \ S],
         total' = total - Cardinality(S),
         by_user' = [u \in Users |-> by_user[u] - Cardinality({w \in S : UserOf(w) = u})],
         woken' \subseteq Waits
  PROVE  /\ RegistryType' /\ CountersExact'
         /\ \A i \in Jobs : \A w \in by_job'[i] : JobOf[w] = i
         /\ \A w \in Waits : w \in by_job'[JobOf[w]] <=> w \in by_job[JobOf[w]] /\ w \notin S
  <1>1. /\ by_job'[j] = by_job[j] \ S /\ \A i \in Jobs \ {j} : by_job'[i] = by_job[i]
        /\ by_job' \in [Jobs -> SUBSET Waits]
    BY DEF CompletionType
  <1>2. \A i \in Jobs : \A w \in by_job'[i] : JobOf[w] = i
    BY <1>1 DEF RegistryExact
  <1>3. \A w \in S : JobOf[w] = j /\ w \in Waits
    BY DEF RegistryExact, CompletionType
  <1>4. ASSUME NEW w \in Waits
        PROVE  w \in by_job'[JobOf[w]] <=> w \in by_job[JobOf[w]] /\ w \notin S
    BY <1>1, <1>3, WaitHasUser
  <1>5. Registered' = Registered \ S /\ S \in SUBSET Registered
    BY <1>3, <1>4 DEF Registered
  <1>6. \A u \in Users : by_user'[u] = by_user[u] - Cardinality({w \in S : UserOf(w) = u})
    OBVIOUS
  <1>7. CountersExact' /\ total' \in Nat /\ \A u \in Users : by_user'[u] \in Nat
    BY <1>5, <1>6, CountersDown
  <1> QED BY <1>1, <1>2, <1>4, <1>7 DEF RegistryType

\* notify: all waiters of the job leave and are woken.
LEMMA NotifyKeeps ==
  ASSUME CompletionInv, NEW j \in Jobs, Notified(j), UNCHANGED waits
  PROVE  /\ RegistryType' /\ RegistryExact' /\ CountersExact'
         /\ \A w \in Waits : /\ w \in woken => w \in woken'
                             /\ waits[w] = "asleep" /\ JobOf[w] = j => w \in woken'
  <1>1. CompletionType /\ RegistryExact /\ CountersExact
    BY DEF CompletionInv
  <1> DEFINE S == by_job[j]
  <1>2. /\ S \in SUBSET by_job[j] /\ S \subseteq Waits
        /\ by_job' = [by_job EXCEPT ![j] = @ \ S]
        /\ woken' = woken \cup S /\ woken' \subseteq Waits
    BY <1>1 DEF Notified, CompletionType
  <1>3. /\ total' = total - Cardinality(S)
        /\ by_user' = [u \in Users |-> by_user[u] - Cardinality({w \in S : UserOf(w) = u})]
    BY DEF Notified
  <1>4. \A w \in S : JobOf[w] = j /\ waits[w] \in Subscribed
    BY <1>1 DEF RegistryExact, CompletionType
  <1>5. \A w \in Waits : JobOf[w] = j /\ waits[w] \in Subscribed /\ w \notin woken => w \in S
    BY <1>1 DEF RegistryExact
  <1> HIDE DEF S
  <1>6. /\ RegistryType' /\ CountersExact'
        /\ \A i \in Jobs : \A w \in by_job'[i] : JobOf[w] = i
        /\ \A w \in Waits : w \in by_job'[JobOf[w]] <=> w \in by_job[JobOf[w]] /\ w \notin S
    BY <1>1, <1>2, <1>3, WaitersLeave
  <1>7. RegistryExact'
    <2>1. \A w \in Waits : (w \in by_job'[JobOf[w]])
                             = (waits'[w] \in Subscribed /\ w \notin woken')
      BY <1>1, <1>2, <1>6 DEF RegistryExact
    <2>2. \A w \in woken' : waits'[w] \in Subscribed \cup {"over"}
      BY <1>1, <1>2, <1>4 DEF RegistryExact
    <2> QED BY <1>6, <2>1, <2>2 DEF RegistryExact
  <1> QED BY <1>2, <1>5, <1>6, <1>7 DEF Subscribed

\* remove: one waiter leaves, if it is still there.
LEMMA RemoveKeeps ==
  ASSUME CompletionInv, NEW w \in Waits, waits[w] \in Subscribed,
         Removed(w), Goes(w, "over")
  PROVE  RegistryType' /\ RegistryExact' /\ CountersExact' /\ waits' \in [Waits -> WaitPlaces]
  <1>1. CompletionType /\ RegistryExact /\ CountersExact
    BY DEF CompletionInv
  <1> DEFINE j == JobOf[w]
             S == by_job[j] \cap {w}
  <1>2. j \in Jobs /\ UserOf(w) \in Users
    BY WaitHasUser
  <1>3. /\ S \in SUBSET by_job[j]
        /\ by_job' = [by_job EXCEPT ![j] = @ \ S]
        /\ woken' = woken /\ woken' \subseteq Waits
    BY <1>1, <1>2 DEF Removed, CompletionType
  <1>4. total' = total - Cardinality(S)
        /\ by_user' = [by_user EXCEPT ![UserOf(w)] = @ - Cardinality(S)]
    BY DEF Removed
  <1>5. by_user' = [u \in Users |-> by_user[u] - Cardinality({v \in S : UserOf(v) = u})]
    <2>1. ASSUME NEW u \in Users
          PROVE  by_user'[u] = by_user[u] - Cardinality({v \in S : UserOf(v) = u})
      <3>1. CASE u = UserOf(w)
        <4>1. {v \in S : UserOf(v) = u} = S
          BY <3>1
        <4>2. by_user'[u] = by_user[u] - Cardinality(S)
          BY <1>1, <1>2, <1>4, <3>1 DEF CompletionType
        <4> QED BY <4>1, <4>2
      <3>2. CASE u # UserOf(w)
        <4>1. {v \in S : UserOf(v) = u} = {}
          BY <3>2
        <4>2. by_user'[u] = by_user[u] /\ by_user[u] \in Nat
          BY <1>1, <1>4, <3>2 DEF CompletionType
        <4>3. Cardinality({v \in S : UserOf(v) = u}) = 0
          BY <4>1, FS_EmptySet
        <4> HIDE DEF S
        <4> QED BY <4>2, <4>3
      <3> QED BY <3>1, <3>2
    <2> QED BY <1>1, <1>4, <2>1 DEF CompletionType
  <1> HIDE DEF j, S
  <1>6. /\ RegistryType' /\ CountersExact'
        /\ \A i \in Jobs : \A v \in by_job'[i] : JobOf[v] = i
        /\ \A v \in Waits : v \in by_job'[JobOf[v]] <=> v \in by_job[JobOf[v]] /\ v \notin S
    BY <1>1, <1>2, <1>3, <1>4, <1>5, WaitersLeave
  <1>7. /\ waits' \in [Waits -> WaitPlaces]
        /\ \A v \in Waits : waits'[v] = IF v = w THEN "over" ELSE waits[v]
    BY <1>1 DEF Goes, CompletionType, WaitPlaces
  <1>8. \A v \in Waits : v \in S <=> v = w /\ w \in by_job[JobOf[w]]
    BY DEF S, j
  <1>9. ASSUME NEW v \in Waits
        PROVE  (v \in by_job'[JobOf[v]]) = (waits'[v] \in Subscribed /\ v \notin woken')
    <2>1. (v \in by_job[JobOf[v]]) = (waits[v] \in Subscribed /\ v \notin woken)
      BY <1>1 DEF RegistryExact
    <2>2. "over" \notin Subscribed
      BY DEF Subscribed
    <2> QED BY <1>3, <1>6, <1>7, <1>8, <2>1, <2>2
  <1>10. \A v \in woken' : waits'[v] \in Subscribed \cup {"over"}
    BY <1>1, <1>3, <1>7 DEF RegistryExact
  <1> QED BY <1>6, <1>7, <1>9, <1>10 DEF RegistryExact

\* subscribe: one waiter comes.
LEMMA SubscribeKeeps ==
  ASSUME CompletionInv, NEW w \in Waits, subscribe(w)
  PROVE  RegistryType' /\ RegistryExact' /\ CountersExact' /\ waits' \in [Waits -> WaitPlaces]
  <1>1. CompletionType /\ RegistryExact /\ CountersExact
    BY DEF CompletionInv
  <1>2. JobOf[w] \in Jobs /\ UserOf(w) \in Users /\ waits[w] = "open" /\ woken' = woken
    BY WaitHasUser DEF subscribe
  <1>3. w \notin Registered /\ w \notin woken
    BY <1>1, <1>2 DEF Registered, RegistryExact, Subscribed
  <1>4. CASE Room(w)
    <2>1. /\ by_job' = [by_job EXCEPT ![JobOf[w]] = @ \cup {w}]
          /\ by_user' = [by_user EXCEPT ![UserOf(w)] = @ + 1] /\ total' = total + 1
          /\ waits' = [waits EXCEPT ![w] = "subscribed"]
      BY <1>4 DEF subscribe, Goes
    <2>2. \A i \in Jobs : by_job'[i] = IF i = JobOf[w] THEN by_job[i] \cup {w} ELSE by_job[i]
      BY <1>1, <2>1 DEF CompletionType
    <2>3. \A v \in Waits : v \in by_job'[JobOf[v]] <=> v \in by_job[JobOf[v]] \/ v = w
      BY <1>2, <2>2, WaitHasUser
    <2>4. Registered' = Registered \cup {w}
      BY <2>3 DEF Registered
    <2>5. CountersExact'
      BY <1>1, <1>3, <1>4, <2>1, <2>4, CountersUp
    <2>6. RegistryType' /\ waits' \in [Waits -> WaitPlaces]
      <3>1. /\ by_job' \in [Jobs -> SUBSET Waits] /\ by_user' \in [Users -> Nat]
            /\ total' \in Nat /\ woken' \subseteq Waits
        BY <1>1, <1>2, <2>1 DEF CompletionType
      <3>2. waits' \in [Waits -> WaitPlaces]
        BY <1>1, <2>1 DEF CompletionType, WaitPlaces, Subscribed
      <3> QED BY <3>1, <3>2 DEF RegistryType
    <2>7. \A v \in Waits : waits'[v] = IF v = w THEN "subscribed" ELSE waits[v]
      BY <1>1, <2>1 DEF CompletionType
    <2>8. ASSUME NEW v \in Waits
          PROVE  (v \in by_job'[JobOf[v]]) = (waits'[v] \in Subscribed /\ v \notin woken')
      <3>1. (v \in by_job[JobOf[v]]) = (waits[v] \in Subscribed /\ v \notin woken)
        BY <1>1 DEF RegistryExact
      <3>2. "subscribed" \in Subscribed
        BY DEF Subscribed
      <3> QED BY <1>2, <1>3, <2>3, <2>7, <3>1, <3>2
    <2>9. \A v \in woken' : waits'[v] \in Subscribed \cup {"over"}
      BY <1>1, <1>2, <1>3, <2>7 DEF RegistryExact, CompletionType
    <2>10. ASSUME NEW i \in Jobs, NEW v \in by_job'[i] PROVE JobOf[v] = i
      <3>1. v \in by_job[i] \/ (v = w /\ i = JobOf[w])
        BY <2>2, <2>10
      <3> QED BY <1>1, <3>1 DEF RegistryExact
    <2> QED BY <2>5, <2>6, <2>8, <2>9, <2>10 DEF RegistryExact
  <1>5. CASE ~Room(w)
    <2>1. UNCHANGED <<by_job, by_user, total, woken>> /\ waits' = [waits EXCEPT ![w] = "over"]
      BY <1>5 DEF subscribe, Goes
    <2>2. Registered' = Registered
      BY <2>1 DEF Registered
    <2>3. \A u : RegisteredBy(u)' = RegisteredBy(u)
      BY <2>2 DEF RegisteredBy
    <2>4. CountersExact'
      BY <1>1, <2>1, <2>2, <2>3 DEF CountersExact
    <2>5. \A v \in Waits : waits'[v] = IF v = w THEN "over" ELSE waits[v]
      BY <1>1, <2>1 DEF CompletionType
    <2>6. RegistryType' /\ waits' \in [Waits -> WaitPlaces]
      BY <1>1, <2>1 DEF CompletionType, RegistryType, WaitPlaces
    <2>7. RegistryExact'
      BY <1>1, <1>2, <1>3, <2>1, <2>5 DEF RegistryExact, CompletionType, Subscribed
    <2> QED BY <2>4, <2>6, <2>7
  <1> QED BY <1>4, <1>5

-----------------------------------------------------------------------------
(* Every step keeps the waits in order. *)

\* The registry and the steps of a wait.
LEMMA WaitStepKeeps ==
  ASSUME CompletionInv, NEW w \in Waits, waitStep(w), UNCHANGED <<ended, listenerVars>>
  PROVE  CompletionInv'
  <1>1. CompletionType /\ RegistryExact /\ CountersExact /\ NoMissedWakeup
    BY DEF CompletionInv
  <1>2. UNCHANGED <<ended, notices, lost, listening>>
    BY DEF listenerVars
  <1>3. \A to : Goes(w, to) => \A v \in Waits : waits'[v] = IF v = w THEN to ELSE waits[v]
    BY <1>1 DEF Goes, CompletionType
  <1>4. woken' = woken
    BY DEF waitStep, begins, firstRead, subscribe, secondRead, wakes, ends, Removed
  <1>5. ASSUME NEW to \in WaitPlaces, Goes(w, to), UNCHANGED <<by_job, by_user, total>>,
               (to \in Subscribed) = (waits[w] \in Subscribed),
               w \in woken => to \in Subscribed \cup {"over"}
        PROVE  RegistryType' /\ RegistryExact' /\ CountersExact' /\ waits' \in [Waits -> WaitPlaces]
    <2>1. waits' \in [Waits -> WaitPlaces]
      BY <1>1, <1>5 DEF Goes, CompletionType
    <2>2. RegistryType'
      BY <1>1, <1>4, <1>5 DEF RegistryType, CompletionType
    <2>3. \A v \in Waits : (v \in by_job[JobOf[v]]) = (waits'[v] \in Subscribed /\ v \notin woken)
      BY <1>1, <1>3, <1>5 DEF RegistryExact
    <2>4. \A v \in woken : waits'[v] \in Subscribed \cup {"over"}
      BY <1>1, <1>3, <1>5 DEF RegistryExact, CompletionType
    <2>5. RegistryExact'
      BY <1>1, <1>4, <1>5, <2>3, <2>4 DEF RegistryExact
    <2>6. Registered' = Registered
      BY <1>5 DEF Registered
    <2>7. \A u : RegisteredBy(u)' = RegisteredBy(u)
      BY <2>6 DEF RegisteredBy
    <2>8. CountersExact'
      BY <1>1, <1>5, <2>6, <2>7 DEF CountersExact
    <2> QED BY <2>1, <2>2, <2>5, <2>8
  <1>6. \/ subscribe(w) \/ (waits[w] \in Subscribed /\ Removed(w) /\ Goes(w, "over"))
        \/ \E to \in WaitPlaces :
             /\ Goes(w, to) /\ UNCHANGED <<by_job, by_user, total>>
             /\ (to \in Subscribed) = (waits[w] \in Subscribed)
             /\ w \in woken => to \in Subscribed \cup {"over"}
    <2>1. w \in woken => waits[w] \in Subscribed \cup {"over"}
      BY <1>1 DEF RegistryExact
    <2> QED BY <2>1 DEF waitStep, begins, firstRead, secondRead, wakes, ends, Subscribed, WaitPlaces
  <1>7. RegistryType' /\ RegistryExact' /\ CountersExact' /\ waits' \in [Waits -> WaitPlaces]
    BY <1>5, <1>6, SubscribeKeeps, RemoveKeeps
  <1>8. CompletionType'
    BY <1>1, <1>2, <1>7 DEF CompletionType, RegistryType
  <1>9. ASSUME NEW v \in Waits, waits'[v] = "asleep"
        PROVE  waits[v] = "asleep" \/ JobOf[v] \notin ended'
    BY <1>2, <1>3, <1>9 DEF waitStep, begins, firstRead, subscribe, secondRead, wakes, ends
  <1>10. NoMissedWakeup'
    BY <1>1, <1>2, <1>4, <1>9 DEF NoMissedWakeup
  <1> QED BY <1>7, <1>8, <1>10 DEF CompletionInv

\* The listener tells the waiters of a job, or loses its connection.
LEMMA ListenerKeeps ==
  ASSUME CompletionInv, listenerStep, UNCHANGED ended
  PROVE  CompletionInv'
  <1>1. CompletionType /\ RegistryExact /\ CountersExact /\ NoMissedWakeup
    BY DEF CompletionInv
  <1>2. CASE listen
    <2>1. PICK j \in notices : /\ notices' = notices \ {j} /\ Notified(j)
                               /\ UNCHANGED <<waits, listening, lost>>
      BY <1>2 DEF listen
    <2>2. j \in Jobs
      BY <1>1 DEF CompletionType
    <2>3. /\ RegistryType' /\ RegistryExact' /\ CountersExact'
          /\ \A w \in Waits : /\ w \in woken => w \in woken'
                              /\ waits[w] = "asleep" /\ JobOf[w] = j => w \in woken'
      BY <2>1, <2>2, NotifyKeeps
    <2>4. CompletionType'
      BY <1>1, <2>1, <2>3 DEF CompletionType, RegistryType
    <2>5. NoMissedWakeup'
      BY <1>1, <2>1, <2>3 DEF NoMissedWakeup
    <2> QED BY <2>3, <2>4, <2>5 DEF CompletionInv
  <1>3. CASE disconnected \/ reconnected
    <2>1. /\ UNCHANGED <<waits, by_job, by_user, total, woken>>
          /\ listening' \in BOOLEAN /\ notices' \subseteq notices
          /\ lost \subseteq lost' /\ lost' \subseteq lost \cup notices
          /\ notices' \cup lost' = notices \cup lost
      BY <1>1, <1>3 DEF disconnected, reconnected, waitVars, CompletionType
    <2>2. CompletionType' /\ RegistryExact'
      BY <1>1, <2>1 DEF CompletionType, RegistryExact
    <2>3. Registered' = Registered /\ \A u : RegisteredBy(u)' = RegisteredBy(u)
      BY <2>1 DEF Registered, RegisteredBy
    <2>4. CountersExact'
      BY <1>1, <2>1, <2>3 DEF CountersExact
    <2>5. NoMissedWakeup'
      BY <1>1, <2>1 DEF NoMissedWakeup
    <2> QED BY <2>2, <2>4, <2>5 DEF CompletionInv
  <1> QED BY <1>2, <1>3 DEF listenerStep

\* finish_tx publishes the end of the job.
LEMMA FinishKeepsWaits ==
  ASSUME CompletionInv, NEW j \in Jobs, ended' = ended \cup {j}, publish(j), UNCHANGED waitVars
  PROVE  CompletionInv'
  <1>1. CompletionType /\ RegistryExact /\ CountersExact /\ NoMissedWakeup
    BY DEF CompletionInv
  <1>2. /\ UNCHANGED <<waits, by_job, by_user, total, woken>> /\ listening' = listening
        /\ notices' \cup lost' = notices \cup lost \cup {j}
    BY DEF publish, waitVars
  <1>3. CompletionType' /\ RegistryExact'
    BY <1>1, <1>2 DEF CompletionType, RegistryExact, publish
  <1>4. Registered' = Registered /\ \A u : RegisteredBy(u)' = RegisteredBy(u)
    BY <1>2 DEF Registered, RegisteredBy
  <1>5. CountersExact'
    BY <1>1, <1>2, <1>4 DEF CountersExact
  <1>6. NoMissedWakeup'
    BY <1>1, <1>2 DEF NoMissedWakeup
  <1> QED BY <1>3, <1>5, <1>6 DEF CompletionInv

\* CompletionInv is inductive.
LEMMA CompletionStep == CompletionInv /\ [Next]_vars => CompletionInv'
  <1> SUFFICES ASSUME CompletionInv, [Next]_vars PROVE CompletionInv'
    OBVIOUS
  <1>1. ASSUME UNCHANGED <<ended, waitVars, listenerVars>> PROVE CompletionInv'
    <2>1. UNCHANGED <<ended, waits, by_job, by_user, total, woken, notices, lost, listening>>
      BY <1>1 DEF waitVars, listenerVars
    <2>2. Registered' = Registered /\ \A u : RegisteredBy(u)' = RegisteredBy(u)
      BY <2>1 DEF Registered, RegisteredBy
    <2>3. CountersExact'
      BY <2>1, <2>2 DEF CountersExact, CompletionInv
    <2>4. CompletionType' /\ RegistryExact' /\ NoMissedWakeup'
      BY <2>1 DEF CompletionInv, CompletionType, RegistryExact, NoMissedWakeup
    <2> QED BY <2>3, <2>4 DEF CompletionInv
  <1>2. ASSUME NEW j \in Jobs, finish_tx(j) PROVE CompletionInv'
    BY <1>2, FinishKeepsWaits DEF finish_tx
  <1>3. ASSUME NEW w \in Waits, waitStep(w), UNCHANGED <<ended, listenerVars>>
        PROVE  CompletionInv'
    BY <1>3, WaitStepKeeps
  <1>4. CASE listenerStep /\ UNCHANGED ended
    BY <1>4, ListenerKeeps
  <1> QED BY <1>1, <1>2, <1>3, <1>4 DEF Next, vars

\* It holds before anybody waits.
LEMMA CompletionInitially == Init => CompletionInv
  <1> SUFFICES ASSUME Init PROVE CompletionInv
    OBVIOUS
  <1>1. CompletionInit
    BY DEF Init
  <1>2. Registered = {}
    BY <1>1, WaitHasUser DEF CompletionInit, Registered
  <1>3. \A u \in Users : RegisteredBy(u) = {}
    BY <1>2 DEF RegisteredBy
  <1>4. CountersExact
    BY <1>1, <1>2, <1>3, FS_EmptySet, WaitsHaveJobs DEF CompletionInit, CountersExact
  <1>5. CompletionType /\ NoMissedWakeup
    BY <1>1 DEF CompletionInit, CompletionType, WaitPlaces, NoMissedWakeup
  <1>6. RegistryExact
    BY <1>1, WaitHasUser DEF CompletionInit, RegistryExact, Subscribed
  <1> QED BY <1>4, <1>5, <1>6 DEF CompletionInv

\* It holds in every reachable state.
LEMMA CompletionInvariant == Spec => []CompletionInv
  BY CompletionInitially, CompletionStep, PTL DEF Spec

\* wait subscribes between two reads of the status and finish_tx publishes in its
\* own transaction: no call sleeps through the end of its job unless the
\* listener's connection lost the wake-up.
THEOREM NoWakeupMissed == Spec => []NoMissedWakeup
  <1>1. CompletionInv => NoMissedWakeup
    BY DEF CompletionInv
  <1> QED BY <1>1, CompletionInvariant, PTL

\* subscribe, notify and remove keep the counters equal to the waiters and within
\* the limits, however a waiter leaves.
THEOREM AccountsBalance == Spec => []WaiterAccounts
  <1>1. CompletionInv => WaiterAccounts
    <2>1. SUFFICES ASSUME CompletionInv PROVE WaiterAccounts
      OBVIOUS
    <2>2. CompletionType /\ RegistryExact /\ CountersExact
      BY <2>1 DEF CompletionInv
    <2>3. Registered = UNION {by_job[j] : j \in Jobs}
      BY <2>2, RegisteredIsUnion
    <2>4. \A u \in Users :
            RegisteredBy(u) = {w \in Waits : UserOf(w) = u /\ w \in by_job[JobOf[w]]}
      BY DEF RegisteredBy, Registered
    <2> QED BY <2>2, <2>3, <2>4 DEF WaiterAccounts, CountersExact, RegistryExact
  <1> QED BY <1>1, CompletionInvariant, PTL

-----------------------------------------------------------------------------
(* The outbox. *)

\* A row is not the absence of one.
LEMMA RowsAreRows ==
  /\ NoDelivery \notin DeliveryRow /\ NoDelivery.status = "none"
  /\ \A d \in DeliveryRow : d.status # "none"
  /\ Resting \notin Claim
  BY DEF NoDelivery, DeliveryRow, Active, Final, Resting, Claim

\* The two properties, of all deliveries.
LEMMA OutboxSays == OutboxInv => AttemptsTellDelivery /\ CycleBounded
  BY DEF OutboxInv, EventInv, RowInv, Told, Bounded, AttemptsTellDelivery, CycleBounded

\* The attempt whose lease ran out is closed, and the others are as they were.
LEMMA ClosedRows ==
  ASSUME NEW rows \in Seq(AttemptRow)
  PROVE  /\ Closed(rows) \in Seq(AttemptRow) /\ Len(Closed(rows)) = Len(rows)
         /\ \A n \in 1..Len(rows) : /\ Closed(rows)[n] # "open"
                                    /\ rows[n] # "open" => Closed(rows)[n] = rows[n]
  <1>1. Len(rows) \in Nat /\ DOMAIN rows = 1..Len(rows)
    BY LenProperties
  <1>2. \A n \in 1..Len(rows) : rows[n] \in AttemptRow
    BY ElementOfSeq
  <1>3. Closed(rows) = [n \in 1..Len(rows) |-> IF rows[n] = "open" THEN "lease_expired" ELSE rows[n]]
    BY <1>1 DEF Closed
  <1>4. Closed(rows) \in [1..Len(rows) -> AttemptRow]
    BY <1>2, <1>3 DEF AttemptRow
  <1>5. Closed(rows) \in Seq(AttemptRow)
    BY <1>1, <1>4, SeqDef
  <1>6. Len(Closed(rows)) = Len(rows)
    BY <1>1, <1>3, <1>5, LenProperties
  <1> QED BY <1>3, <1>5, <1>6

\* A claim that goes on opens one more attempt, within the cycle.
LEMMA ClaimedRow ==
  ASSUME NEW d, NEW rows, RowInv(d, rows),
         Len(rows) + 1 - d.from + 1 <= MaxAttempts
  PROVE  RowInv([d EXCEPT !.status = "delivering", !.lease = Len(rows) + 1, !.held = TRUE],
                Append(Closed(rows), "open"))
  <1> DEFINE e == [d EXCEPT !.status = "delivering", !.lease = Len(rows) + 1, !.held = TRUE]
             c == Closed(rows)
             q == Append(c, "open")
  <1>1. d \in DeliveryRow /\ rows \in Seq(AttemptRow) /\ Len(rows) \in Nat
        /\ Ordered(d, rows)
    BY LenProperties DEF RowInv
  <1>2. /\ c \in Seq(AttemptRow) /\ Len(c) = Len(rows)
        /\ \A n \in 1..Len(c) : c[n] # "open"
    BY <1>1, ClosedRows
  <1>3. e.status = "delivering" /\ e.lease = Len(rows) + 1 /\ e.from = d.from
        /\ e \in DeliveryRow /\ e.from \in Nat
    <2>1. PICK number \in Nat : number = Len(rows) + 1
      BY <1>1
    <2> DEFINE f == [d EXCEPT !.status = "delivering", !.lease = number, !.held = TRUE]
    <2>2. /\ f.status = "delivering" /\ f.lease = number /\ f.from = d.from
          /\ f \in DeliveryRow /\ f.from \in Nat
      BY <1>1 DEF DeliveryRow, Active
    <2>3. e = f
      BY <2>1
    <2> QED BY <2>1, <2>2, <2>3
  <1> HIDE DEF e, c
  <1>4. /\ q \in Seq(AttemptRow) /\ Len(q) = Len(rows) + 1 /\ q[Len(q)] = "open"
        /\ \A n \in 1..Len(rows) : q[n] = c[n]
    BY <1>1, <1>2 DEF AttemptRow
  <1> HIDE DEF q
  <1>5. {n \in 1..Len(q) : q[n] = "open"} = {Len(q)}
    BY <1>1, <1>2, <1>4
  <1>6. Told(e, q)
    BY <1>3, <1>4, <1>5 DEF Told
  <1>7. Bounded(e, q)
    BY <1>3, <1>4 DEF Bounded
  <1>8. Ordered(e, q)
    BY <1>1, <1>3, <1>4 DEF Ordered
  <1>9. RowInv(e, q)
    BY <1>3, <1>4, <1>6, <1>7, <1>8 DEF RowInv
  <1> QED BY <1>9 DEF e, q, c

\* A claim of a spent cycle closes it.
LEMMA SpentRow ==
  ASSUME NEW d, NEW rows, RowInv(d, rows)
  PROVE  RowInv(Ended(d, "failed"), Closed(rows))
  <1> DEFINE e == Ended(d, "failed")
             c == Closed(rows)
  <1>1. d \in DeliveryRow /\ rows \in Seq(AttemptRow) /\ Len(rows) \in Nat
        /\ Ordered(d, rows) /\ Bounded(d, rows)
    BY LenProperties DEF RowInv
  <1>2. /\ c \in Seq(AttemptRow) /\ Len(c) = Len(rows)
        /\ \A n \in 1..Len(c) : c[n] # "open"
    BY <1>1, ClosedRows
  <1>3. e.status = "failed" /\ e.held = FALSE /\ e.from = d.from /\ e \in DeliveryRow
    BY <1>1 DEF Ended, DeliveryRow, Final
  <1> HIDE DEF e, c
  <1>4. Told(e, c)
    BY <1>2, <1>3 DEF Told
  <1>5. Bounded(e, c) /\ Ordered(e, c)
    BY <1>1, <1>2, <1>3 DEF Bounded, Ordered
  <1>6. RowInv(e, c)
    BY <1>2, <1>3, <1>4, <1>5 DEF RowInv
  <1> QED BY <1>6 DEF e, c

\* The worker that holds the lease writes its attempt, the last, and what follows.
LEMMA FinalizedRow ==
  ASSUME NEW d, NEW rows, RowInv(d, rows), d.held,
         NEW r \in {"success", "failed"}, NEW e \in DeliveryRow, ~e.held, e.from = d.from,
         \/ r = "success" /\ e.status = "delivered"
         \/ r = "failed" /\ e.status \in {"retry_wait", "failed"}
  PROVE  d.lease \in 1..Len(rows) /\ RowInv(e, [rows EXCEPT ![d.lease] = r])
  <1> DEFINE n == Len(rows)
             q == [rows EXCEPT ![n] = r]
  <1>1. d \in DeliveryRow /\ rows \in Seq(AttemptRow) /\ n \in Nat
        /\ Ordered(d, rows) /\ Bounded(d, rows) /\ Told(d, rows)
    BY LenProperties DEF RowInv
  <1>2. d.status = "delivering" /\ d.from <= n /\ d.lease = n /\ d.from \in Nat \ {0}
    BY <1>1 DEF Ordered, Told, DeliveryRow
  <1>3. n \in 1..Len(rows) /\ r \in AttemptRow
    BY <1>1, <1>2 DEF AttemptRow
  <1>4. \A k \in 1..n : rows[k] = "open" => k = n
    BY <1>1, <1>2 DEF Told
  <1>5. /\ q \in Seq(AttemptRow) /\ Len(q) = n
        /\ \A k \in 1..n : q[k] = IF k = n THEN r ELSE rows[k]
    BY <1>1, <1>3, ExceptSeq
  <1> HIDE DEF q
  <1>6. {k \in 1..Len(q) : q[k] = "open"} = {} /\ q[Len(q)] = r
    BY <1>3, <1>4, <1>5
  <1>7. Told(e, q)
    BY <1>2, <1>5, <1>6 DEF Told
  <1>8. Bounded(e, q)
    BY <1>1, <1>5 DEF Bounded
  <1>9. Ordered(e, q)
    <2>1. e.from <= Len(q) + 1
      BY <1>1, <1>2, <1>5
    <2>2. e.status # "delivering"
      OBVIOUS
    <2> QED BY <2>1, <2>2 DEF Ordered
  <1>10. RowInv(e, q)
    BY <1>5, <1>7, <1>8, <1>9 DEF RowInv
  <1> QED BY <1>2, <1>3, <1>10 DEF q

\* Time and redelivery touch the row alone.
LEMMA TimedRow ==
  ASSUME NEW d, NEW rows, RowInv(d, rows)
  PROVE  /\ RowInv([d EXCEPT !.due = TRUE], rows)
         /\ RowInv([d EXCEPT !.held = FALSE], rows)
         /\ RowInv([d EXCEPT !.over = TRUE], rows)
         /\ d.status \in Final => RowInv([NewDelivery EXCEPT !.from = Len(rows) + 1], rows)
  <1>1. d \in DeliveryRow /\ rows \in Seq(AttemptRow) /\ Len(rows) \in Nat
        /\ Ordered(d, rows) /\ Bounded(d, rows) /\ Told(d, rows)
    BY LenProperties DEF RowInv
  <1>2. ASSUME NEW e \in DeliveryRow, e.status = d.status, e.lease = d.lease, e.from = d.from,
               e.held => d.held
        PROVE  RowInv(e, rows)
    <2>1. Told(e, rows)
      BY <1>1, <1>2 DEF Told
    <2>2. Bounded(e, rows)
      BY <1>1, <1>2 DEF Bounded
    <2>3. Ordered(e, rows)
      BY <1>1, <1>2 DEF Ordered
    <2> QED BY <1>1, <2>1, <2>2, <2>3 DEF RowInv
  <1>3. RowInv([d EXCEPT !.due = TRUE], rows)
    <2> DEFINE e == [d EXCEPT !.due = TRUE]
    <2>1. e \in DeliveryRow /\ e.status = d.status /\ e.lease = d.lease /\ e.from = d.from
          /\ e.held = d.held
      BY <1>1 DEF DeliveryRow
    <2> HIDE DEF e
    <2>2. RowInv(e, rows)
      BY <1>2, <2>1
    <2> QED BY <2>2 DEF e
  <1>4. RowInv([d EXCEPT !.held = FALSE], rows)
    <2> DEFINE e == [d EXCEPT !.held = FALSE]
    <2>1. e \in DeliveryRow /\ e.status = d.status /\ e.lease = d.lease /\ e.from = d.from
          /\ ~e.held
      BY <1>1 DEF DeliveryRow
    <2> HIDE DEF e
    <2>2. RowInv(e, rows)
      BY <1>2, <2>1
    <2> QED BY <2>2 DEF e
  <1>5. RowInv([d EXCEPT !.over = TRUE], rows)
    <2> DEFINE e == [d EXCEPT !.over = TRUE]
    <2>1. e \in DeliveryRow /\ e.status = d.status /\ e.lease = d.lease /\ e.from = d.from
          /\ e.held = d.held
      BY <1>1 DEF DeliveryRow
    <2> HIDE DEF e
    <2>2. RowInv(e, rows)
      BY <1>2, <2>1
    <2> QED BY <2>2 DEF e
  <1>6. ASSUME d.status \in Final PROVE RowInv([NewDelivery EXCEPT !.from = Len(rows) + 1], rows)
    <2> DEFINE e == [NewDelivery EXCEPT !.from = Len(rows) + 1]
    <2>1. e \in DeliveryRow /\ e.status = "pending" /\ ~e.held /\ e.from = Len(rows) + 1
      <3>1. PICK number \in Nat \ {0} : number = Len(rows) + 1
        BY <1>1
      <3> DEFINE f == [NewDelivery EXCEPT !.from = number]
      <3>2. f \in DeliveryRow /\ f.status = "pending" /\ ~f.held /\ f.from = number
        BY DEF NewDelivery, DeliveryRow, Active
      <3>3. e = f
        BY <3>1
      <3> QED BY <3>1, <3>2, <3>3
    <2> HIDE DEF e
    <2>2. {n \in 1..Len(rows) : rows[n] = "open"} = {}
      BY <1>1, <1>6 DEF Told, Final
    <2>3. Told(e, rows)
      BY <1>1, <2>1, <2>2 DEF Told
    <2>4. Bounded(e, rows)
      BY <1>1, <2>1, CyclesHaveAttempts DEF Bounded
    <2>5. Ordered(e, rows)
      BY <1>1, <2>1 DEF Ordered
    <2>6. RowInv(e, rows)
      BY <1>1, <2>1, <2>3, <2>4, <2>5 DEF RowInv
    <2> QED BY <2>6 DEF e
  <1> QED BY <1>3, <1>4, <1>5, <1>6

\* One delivery changes, in order.
LEMMA OneEvent ==
  ASSUME OutboxInv, NEW j \in Jobs, NEW d, NEW rows, RowInv(d, rows), j \in ended,
         deliveries' = [deliveries EXCEPT ![j] = d],
         \/ attempts' = [attempts EXCEPT ![j] = rows]
         \/ attempts' = attempts /\ rows = attempts[j],
         workers' \in [Workers -> {Resting} \cup Claim],
         \A w \in Workers : workers'[w] # Resting =>
           workers'[w].job = j \/ (workers[w] # Resting /\ workers'[w].job = workers[w].job),
         UNCHANGED <<ended, enabled, callback>>
  PROVE  OutboxInv'
  <1>1. /\ deliveries \in [Jobs -> {NoDelivery} \cup DeliveryRow]
        /\ attempts \in [Jobs -> Seq(AttemptRow)]
        /\ workers \in [Workers -> {Resting} \cup Claim]
        /\ enabled \subseteq Users /\ callback \subseteq Users
        /\ \A i \in Jobs : EventInv(i)
        /\ \A w \in Workers : workers[w] # Resting => deliveries[workers[w].job] # NoDelivery
    BY DEF OutboxInv
  <1>2. d \in DeliveryRow /\ rows \in Seq(AttemptRow)
    BY DEF RowInv
  <1>3. /\ deliveries' \in [Jobs -> {NoDelivery} \cup DeliveryRow]
        /\ deliveries'[j] = d /\ \A i \in Jobs \ {j} : deliveries'[i] = deliveries[i]
    BY <1>1, <1>2
  <1>4. /\ attempts' \in [Jobs -> Seq(AttemptRow)]
        /\ attempts'[j] = rows /\ \A i \in Jobs \ {j} : attempts'[i] = attempts[i]
    BY <1>1, <1>2
  <1>5. ASSUME NEW i \in Jobs PROVE EventInv(i)'
    <2>1. CASE i = j
      BY <1>3, <1>4, <2>1 DEF EventInv, RowInv, Told, Bounded, Ordered
    <2>2. CASE i # j
      <3>1. deliveries'[i] = deliveries[i] /\ attempts'[i] = attempts[i] /\ EventInv(i)
        BY <1>1, <1>3, <1>4, <2>2
      <3> QED BY <3>1 DEF EventInv, RowInv, Told, Bounded, Ordered
    <2> QED BY <2>1, <2>2
  <1>6. NoDelivery \notin DeliveryRow
    BY RowsAreRows
  <1>7. ASSUME NEW w \in Workers, workers'[w] # Resting
        PROVE  deliveries'[workers'[w].job] # NoDelivery
    <2>1. workers[w] # Resting => workers[w].job \in Jobs
      BY <1>1 DEF Claim
    <2> QED BY <1>1, <1>2, <1>3, <1>6, <1>7, <2>1
  <1>8. enabled' \subseteq Users /\ callback' \subseteq Users
    BY <1>1
  <1> QED BY <1>3, <1>4, <1>5, <1>7, <1>8 DEF OutboxInv

\* The row and the attempts of an event that there is.
LEMMA EventRow ==
  ASSUME OutboxInv, NEW j \in Jobs, deliveries[j] # NoDelivery
  PROVE  /\ j \in ended /\ RowInv(deliveries[j], attempts[j])
         /\ deliveries[j] \in DeliveryRow /\ attempts[j] \in Seq(AttemptRow)
         /\ Len(attempts[j]) \in Nat
  <1>1. j \in ended /\ RowInv(deliveries[j], attempts[j])
    BY DEF OutboxInv, EventInv
  <1>2. deliveries[j] \in DeliveryRow /\ attempts[j] \in Seq(AttemptRow)
    BY <1>1 DEF RowInv
  <1> QED BY <1>1, <1>2, LenProperties

\* The first row of a job's event.
LEMMA FirstRow == RowInv(NewDelivery, <<>>)
  <1>1. NewDelivery \in DeliveryRow /\ NewDelivery.status = "pending"
        /\ NewDelivery.from = 1 /\ ~NewDelivery.held
    BY DEF NewDelivery, DeliveryRow, Active
  <1>2. <<>> \in Seq(AttemptRow) /\ Len(<<>>) = 0
    BY EmptySeq
  <1>3. Told(NewDelivery, <<>>)
    BY <1>1, <1>2 DEF Told
  <1>4. Bounded(NewDelivery, <<>>) /\ Ordered(NewDelivery, <<>>)
    BY <1>1, <1>2, CyclesHaveAttempts DEF Bounded, Ordered
  <1> QED BY <1>1, <1>2, <1>3, <1>4 DEF RowInv

\* finish_tx writes the event of a job that had none.
LEMMA FinishKeepsOutbox ==
  ASSUME OutboxInv, NEW j \in Jobs, finish_tx(j)
  PROVE  OutboxInv'
  <1>1. /\ deliveries \in [Jobs -> {NoDelivery} \cup DeliveryRow]
        /\ attempts \in [Jobs -> Seq(AttemptRow)]
        /\ \A i \in Jobs : EventInv(i)
        /\ \A w \in Workers : workers[w] # Resting => deliveries[workers[w].job] # NoDelivery
    BY DEF OutboxInv
  <1>2. deliveries[j] = NoDelivery /\ attempts[j] = <<>> /\ j \notin ended
    BY <1>1 DEF finish_tx, EventInv
  <1>3. UNCHANGED <<attempts, workers, enabled, callback>> /\ ended' = ended \cup {j}
    BY DEF finish_tx
  <1>4. /\ deliveries'[j] \in {NoDelivery, NewDelivery}
        /\ \A i \in Jobs \ {j} : deliveries'[i] = deliveries[i]
        /\ deliveries' \in [Jobs -> {NoDelivery} \cup DeliveryRow]
    BY <1>1, <1>2, FirstRow DEF finish_tx, RowInv
  <1>5. ASSUME NEW i \in Jobs PROVE EventInv(i)'
    <2>1. CASE i = j
      <3>1. CASE deliveries'[j] = NoDelivery
        BY <1>2, <1>3, <2>1, <3>1 DEF EventInv
      <3>2. CASE deliveries'[j] = NewDelivery
        <4>1. attempts'[j] = <<>> /\ j \in ended'
          BY <1>2, <1>3
        <4> QED BY <2>1, <3>2, <4>1, FirstRow DEF EventInv, RowInv, Told, Bounded, Ordered
      <3> QED BY <1>4, <3>1, <3>2
    <2>2. CASE i # j
      BY <1>1, <1>3, <1>4, <2>2 DEF EventInv, RowInv, Told, Bounded, Ordered
    <2> QED BY <2>1, <2>2
  <1>6. ASSUME NEW w \in Workers, workers'[w] # Resting
        PROVE  deliveries'[workers'[w].job] # NoDelivery
    <2>1. workers[w] \in Claim
      BY <1>3, <1>6 DEF OutboxInv
    <2>2. workers[w].job \in Jobs
      BY <2>1 DEF Claim
    <2> QED BY <1>1, <1>2, <1>3, <1>4, <1>6, <2>2
  <1>7. /\ workers' \in [Workers -> {Resting} \cup Claim]
        /\ enabled' \subseteq Users /\ callback' \subseteq Users
        /\ attempts' \in [Jobs -> Seq(AttemptRow)]
    BY <1>1, <1>3 DEF OutboxInv
  <1> QED BY <1>4, <1>5, <1>6, <1>7 DEF OutboxInv

\* What is due has a row.
LEMMA RunnableHasRow ==
  ASSUME NEW j \in Jobs, deliveries[j].status \in Active \cup Final
  PROVE  deliveries[j] # NoDelivery
  BY RowsAreRows DEF Active, Final

\* claim opens one more attempt, or closes a cycle that is spent.
LEMMA ClaimKeeps ==
  ASSUME OutboxInv, NEW w \in Workers, NEW j \in Jobs, claim(w, j), UNCHANGED ended
  PROVE  OutboxInv'
  <1> DEFINE d == deliveries[j]
             rows == attempts[j]
             number == Len(rows) + 1
             cycle == CycleNumber(j)
             spent == cycle > MaxAttempts \/ d.over
             claimed == [d EXCEPT !.status = "delivering", !.lease = number, !.held = TRUE]
             told == [pc |-> "sending", job |-> j, number |-> number,
                      cycle |-> cycle, outcome |-> "none"]
  <1>1. d.status \in Active
    BY DEF claim, Runnable, Active
  <1>2. d # NoDelivery
    BY <1>1, RunnableHasRow
  <1>3. /\ j \in ended /\ RowInv(d, rows) /\ d \in DeliveryRow /\ rows \in Seq(AttemptRow)
        /\ Len(rows) \in Nat
    BY <1>2, EventRow
  <1>4. /\ deliveries \in [Jobs -> {NoDelivery} \cup DeliveryRow]
        /\ attempts \in [Jobs -> Seq(AttemptRow)]
        /\ workers \in [Workers -> {Resting} \cup Claim]
    BY DEF OutboxInv
  <1>5. UNCHANGED <<ended, enabled, callback>>
    BY DEF claim
  <1>6. CASE spent
    <2>1. /\ deliveries' = [deliveries EXCEPT ![j] = Ended(d, "failed")]
          /\ attempts' = [attempts EXCEPT ![j] = Closed(rows)]
          /\ workers' = workers
      BY <1>4, <1>6 DEF claim, CycleNumber
    <2>2. RowInv(Ended(d, "failed"), Closed(rows))
      BY <1>3, SpentRow
    <2> QED BY <1>3, <1>4, <1>5, <2>1, <2>2, OneEvent
  <1>7. CASE ~spent
    <2>1. /\ deliveries' = [deliveries EXCEPT ![j] = claimed]
          /\ attempts' = [attempts EXCEPT ![j] = Append(Closed(rows), "open")]
          /\ workers' = [workers EXCEPT ![w] = told]
      BY <1>4, <1>7 DEF claim, CycleNumber
    <2>2. /\ d.from \in Nat /\ MaxAttempts \in Nat /\ cycle = Len(rows) + 1 - d.from + 1
      BY <1>3, CyclesHaveAttempts DEF DeliveryRow, CycleNumber
    <2>3. cycle \in Int /\ number \in Nat /\ Len(rows) + 1 - d.from + 1 <= MaxAttempts
      <3>1. ~(cycle > MaxAttempts)
        BY <1>7
      <3> HIDE DEF cycle, d, rows
      <3> QED BY <1>3, <2>2, <3>1
    <2>4. RowInv(claimed, Append(Closed(rows), "open"))
      <3>1. RowInv(d, rows) /\ Len(rows) + 1 - d.from + 1 <= MaxAttempts
        BY <1>3, <2>3
      <3> HIDE DEF d, rows, cycle
      <3> QED BY ONLY <3>1, ClaimedRow, Zenon
    <2> HIDE DEF number, cycle
    <2>5. told \in Claim /\ told.job = j
      BY <2>3 DEF Claim
    <2> HIDE DEF told, claimed
    <2>6. /\ workers' \in [Workers -> {Resting} \cup Claim]
          /\ \A v \in Workers : workers'[v] # Resting =>
               workers'[v].job = j \/ (workers[v] # Resting /\ workers'[v].job = workers[v].job)
      BY <1>4, <2>1, <2>5
    <2> QED BY <1>3, <1>5, <2>1, <2>4, <2>6, OneEvent
  <1> QED BY <1>6, <1>7

\* A worker goes on or rests; no row is touched.
LEMMA WorkersOnly ==
  ASSUME OutboxInv, NEW w \in Workers, NEW c \in {Resting} \cup Claim,
         workers' = [workers EXCEPT ![w] = c],
         c # Resting => workers[w] # Resting /\ c.job = workers[w].job,
         UNCHANGED <<ended, deliveries, attempts, enabled, callback>>
  PROVE  OutboxInv'
  <1>1. /\ workers' \in [Workers -> {Resting} \cup Claim]
        /\ \A v \in Workers : workers'[v] # Resting =>
             workers[v] # Resting /\ workers'[v].job = workers[v].job
    BY DEF OutboxInv
  <1>2. \A j \in Jobs : EventInv(j)'
    BY DEF OutboxInv, EventInv, RowInv, Told, Bounded, Ordered
  <1>3. \A v \in Workers : workers'[v] # Resting => deliveries'[workers'[v].job] # NoDelivery
    BY <1>1 DEF OutboxInv
  <1> QED BY <1>1, <1>2, <1>3 DEF OutboxInv

\* The attempt is made.
LEMMA DeliverKeeps ==
  ASSUME OutboxInv, NEW w \in Workers, deliver(w), UNCHANGED ended
  PROVE  OutboxInv'
  <1>1. workers \in [Workers -> {Resting} \cup Claim] /\ workers[w] \in {Resting} \cup Claim
    BY DEF OutboxInv
  <1>2. workers[w] # Resting /\ workers[w] \in Claim
    BY <1>1 DEF deliver, Resting
  <1>3. PICK outcome \in {"success", "retry", "error"} :
          workers' = [workers EXCEPT ![w].pc = "finalizing", ![w].outcome = outcome]
    BY DEF deliver
  <1> DEFINE c == [workers[w] EXCEPT !.pc = "finalizing", !.outcome = outcome]
  <1>4. c \in Claim /\ c.job = workers[w].job /\ workers' = [workers EXCEPT ![w] = c]
    BY <1>1, <1>2, <1>3 DEF Claim
  <1> HIDE DEF c
  <1> QED BY <1>2, <1>4, WorkersOnly DEF deliver

\* The worker under the lease writes what became of the attempt; any other writes
\* nothing.
LEMMA FinalizeKeeps ==
  ASSUME OutboxInv, NEW w \in Workers, finalize(w), UNCHANGED ended
  PROVE  OutboxInv'
  <1> DEFINE c == workers[w]
             j == c.job
             d == deliveries[j]
             rows == attempts[j]
             r == IF c.outcome = "success" THEN "success" ELSE "failed"
  <1>1. /\ workers \in [Workers -> {Resting} \cup Claim] /\ c \in {Resting} \cup Claim
        /\ deliveries \in [Jobs -> {NoDelivery} \cup DeliveryRow]
        /\ attempts \in [Jobs -> Seq(AttemptRow)]
    BY DEF OutboxInv
  <1>2. c # Resting /\ c \in Claim
    BY <1>1 DEF finalize, Resting
  <1>3. j \in Jobs /\ d # NoDelivery
    BY <1>2 DEF Claim, OutboxInv
  <1>4. /\ j \in ended /\ RowInv(d, rows) /\ d \in DeliveryRow /\ rows \in Seq(AttemptRow)
    BY <1>3, EventRow
  <1>5. workers' = [workers EXCEPT ![w] = Resting] /\ UNCHANGED <<ended, enabled, callback>>
    BY DEF finalize
  <1>6. CASE ~Holds(c)
    BY <1>5, <1>6, WorkersOnly DEF finalize
  <1>7. CASE Holds(c)
    <2>1. d.lease = c.number /\ d.held
      BY <1>7 DEF Holds
    <2>2. attempts' = [attempts EXCEPT ![j] = [rows EXCEPT ![d.lease] = r]]
      BY <1>1, <1>3, <1>7, <2>1 DEF finalize
    <2>3. PICK e : /\ deliveries' = [deliveries EXCEPT ![j] = e]
                   /\ \/ e = Ended(d, "delivered") /\ r = "success"
                      \/ e = [Ended(d, "retry_wait") EXCEPT !.due = FALSE] /\ r = "failed"
                      \/ e = Ended(d, "failed") /\ r = "failed"
      <3>1. PICK later \in BOOLEAN :
              deliveries' = [deliveries EXCEPT ![j] =
                IF c.outcome = "success" THEN Ended(d, "delivered")
                ELSE IF (c.outcome = "retry" /\ c.cycle < MaxAttempts) /\ later
                THEN [Ended(d, "retry_wait") EXCEPT !.due = FALSE]
                ELSE Ended(d, "failed")]
        BY <1>7 DEF finalize
      <3> QED BY <3>1
    <2>4. /\ e \in DeliveryRow /\ ~e.held /\ e.from = d.from
          /\ \/ r = "success" /\ e.status = "delivered"
             \/ r = "failed" /\ e.status \in {"retry_wait", "failed"}
      <3>1. /\ Ended(d, "delivered") \in DeliveryRow /\ Ended(d, "failed") \in DeliveryRow
            /\ [Ended(d, "retry_wait") EXCEPT !.due = FALSE] \in DeliveryRow
        BY <1>4 DEF Ended, DeliveryRow, Active, Final
      <3>2. /\ ~e.held /\ e.from = d.from
            /\ e.status = "delivered" \/ e.status \in {"retry_wait", "failed"}
            /\ r = "success" <=> e.status = "delivered"
        BY <1>4, <2>3 DEF Ended, DeliveryRow
      <3> QED BY <2>3, <3>1, <3>2
    <2>5. r \in {"success", "failed"}
      OBVIOUS
    <2>6. RowInv(e, [rows EXCEPT ![d.lease] = r])
      <3> HIDE DEF r, rows, d
      <3> QED BY <1>4, <2>1, <2>4, <2>5, FinalizedRow
    <2>7. /\ workers' \in [Workers -> {Resting} \cup Claim]
          /\ \A v \in Workers : workers'[v] # Resting =>
               workers[v] # Resting /\ workers'[v].job = workers[v].job
      BY <1>1, <1>5
    <2> HIDE DEF r, rows, d
    <2> QED BY <1>3, <1>4, <1>5, <2>2, <2>3, <2>6, <2>7, OneEvent
  <1> QED BY <1>6, <1>7

\* Time, and a caller who asks for another cycle.
LEMMA TimeKeeps ==
  ASSUME OutboxInv, NEW j \in Jobs, UNCHANGED ended,
         comesDue(j) \/ leaseExpires(j) \/ cycleExpires(j) \/ redeliver(j)
  PROVE  OutboxInv'
  <1> DEFINE d == deliveries[j]
             rows == attempts[j]
  <1>1. d.status \in Active \cup Final
    BY DEF comesDue, leaseExpires, cycleExpires, redeliver, Active
  <1>2. d # NoDelivery
    BY <1>1, RunnableHasRow
  <1>3. j \in ended /\ RowInv(d, rows)
    BY <1>2, EventRow
  <1>4. UNCHANGED <<ended, attempts, workers, enabled, callback>>
        /\ workers' \in [Workers -> {Resting} \cup Claim]
    BY DEF comesDue, leaseExpires, cycleExpires, redeliver, OutboxInv
  <1>5. PICK e : deliveries' = [deliveries EXCEPT ![j] = e] /\ RowInv(e, rows)
    <2>1. CASE comesDue(j)
      BY <1>3, <2>1, TimedRow DEF comesDue
    <2>2. CASE leaseExpires(j)
      BY <1>3, <2>2, TimedRow DEF leaseExpires
    <2>3. CASE cycleExpires(j)
      BY <1>3, <2>3, TimedRow DEF cycleExpires
    <2>4. CASE redeliver(j)
      BY <1>3, <2>4, TimedRow DEF redeliver
    <2> QED BY <2>1, <2>2, <2>3, <2>4
  <1> HIDE DEF d, rows
  <1>6. rows = attempts[j]
    BY DEF rows
  <1> QED BY <1>3, <1>4, <1>5, <1>6, OneEvent

\* OutboxInv does not read what the waits and the listener change.
LEMMA OutboxStutters ==
  ASSUME OutboxInv, UNCHANGED <<ended, deliveries, attempts, workers>>,
         enabled' \subseteq Users, callback' \subseteq Users
  PROVE  OutboxInv'
  <1>1. \A j \in Jobs : EventInv(j)'
    BY DEF OutboxInv, EventInv, RowInv, Told, Bounded, Ordered
  <1> QED BY <1>1 DEF OutboxInv

\* OutboxInv is inductive.
LEMMA OutboxStep == OutboxInv /\ [Next]_vars => OutboxInv'
  <1> SUFFICES ASSUME OutboxInv, [Next]_vars PROVE OutboxInv'
    OBVIOUS
  <1>1. ASSUME UNCHANGED <<ended, outboxVars>> PROVE OutboxInv'
    BY <1>1, OutboxStutters DEF outboxVars, OutboxInv
  <1>2. ASSUME NEW j \in Jobs, finish_tx(j) PROVE OutboxInv'
    BY <1>2, FinishKeepsOutbox
  <1>3. ASSUME outboxStep, UNCHANGED ended PROVE OutboxInv'
    <2>1. ASSUME NEW w \in Workers, NEW j \in Jobs, claim(w, j) PROVE OutboxInv'
      BY <1>3, <2>1, ClaimKeeps
    <2>2. ASSUME NEW w \in Workers, deliver(w) PROVE OutboxInv'
      BY <1>3, <2>2, DeliverKeeps
    <2>3. ASSUME NEW w \in Workers, finalize(w) PROVE OutboxInv'
      BY <1>3, <2>3, FinalizeKeeps
    <2>4. ASSUME NEW w \in Workers, dies(w) PROVE OutboxInv'
      BY <1>3, <2>4, WorkersOnly DEF dies
    <2>5. ASSUME NEW j \in Jobs, comesDue(j) \/ leaseExpires(j) \/ cycleExpires(j) \/ redeliver(j)
          PROVE  OutboxInv'
      BY <1>3, <2>5, TimeKeeps
    <2>6. ASSUME NEW u \in Users, patch_user(u) PROVE OutboxInv'
      <3>1. enabled' \subseteq Users /\ callback' \subseteq Users
        BY <2>6 DEF patch_user, OutboxInv
      <3> QED BY <1>3, <2>6, <3>1, OutboxStutters DEF patch_user
    <2> QED BY <1>3, <2>1, <2>2, <2>3, <2>4, <2>5, <2>6 DEF outboxStep
  <1>4. CASE UNCHANGED vars
    BY <1>1, <1>4 DEF vars
  <1>5. CASE Next
    BY <1>1, <1>2, <1>3, <1>5 DEF Next
  <1> QED BY <1>4, <1>5

\* It holds before any job has ended.
LEMMA OutboxInitially == Init => OutboxInv
  <1> SUFFICES ASSUME Init PROVE OutboxInv
    OBVIOUS
  <1>1. \A j \in Jobs : EventInv(j)
    BY DEF Init, EventInv
  <1> QED BY <1>1, EmptySeq DEF Init, OutboxInv

\* It holds in every reachable state.
LEMMA OutboxInvariant == Spec => []OutboxInv
  BY OutboxInitially, OutboxStep, PTL DEF Spec

\* claim and finalize write under the lease, whichever worker comes late or is
\* gone: the attempts say what became of the delivery.
THEOREM AttemptsAlwaysTell == Spec => []AttemptsTellDelivery
  BY OutboxSays, OutboxInvariant, PTL

\* cycle_number counts the expired attempts too: no cycle makes more attempts
\* than its number.
THEOREM CyclesAlwaysBounded == Spec => []CycleBounded
  BY OutboxSays, OutboxInvariant, PTL
=============================================================================
