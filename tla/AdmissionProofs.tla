-------------------------- MODULE AdmissionProofs --------------------------
(***************************************************************************)
(* The transactions of Admission, for any users, machines, calls, keys and *)
(* limits: under their row locks nothing is admitted twice, and nothing is *)
(* granted that a setting changed during the call forbids.                 *)
(***************************************************************************)
EXTENDS Admission, FiniteSetTheorems, TLAPS

MachineRow == [state : {"absent", "present", "removed"}, enabled : BOOLEAN, version : Nat,
               credential : Calls \cup {"none", "first"}]
TokenRow == [state : {"absent", "outstanding", "consumed", "revoked"}, expired : BOOLEAN,
             machine : Machines \cup {"none"}, uses : Nat]
JobRow == [by : Calls, machine : Machines, key : Keys, outstanding : BOOLEAN]
ActiveCall == [pc : {"arrived", "machine", "user", "admission", "counted"}, op : Ops,
               machine : Machines, token : Tokens \cup {"none"},
               key : Keys \cup {"none"}, found : SUBSET Tokens]
IdleCall == {NoCall, [NoCall EXCEPT !.pc = "over"]}

AdmissionType ==
  /\ users \in [Users -> BOOLEAN]
  /\ machines \in [Machines -> MachineRow]
  /\ tokens \in [Tokens -> TokenRow]
  /\ jobs \subseteq JobRow /\ IsFiniteSet(jobs)
  /\ calls \in [Calls -> ActiveCall \cup IdleCall]

\* A row is locked by one call, or by several to share.
LocksExclude ==
  \A k, l \in locks : k.row = l.row /\ k.call # l.call => k.mode = "share" /\ l.mode = "share"

\* Call c has locked a row.
Has(c, row, mode) == [row |-> row, call |-> c, mode |-> mode] \in locks

\* The machine of a call that saw it enabled, with its user, and locked both.
Allowed(c, m) ==
  /\ machines[m].state = "present" /\ machines[m].enabled /\ users[Owner[m]]
  /\ Has(c, Owner[m], "share")

\* What the transaction of a call has locked and read so far is still so: of the
\* calls that write the machine's row and its tokens,
WriterInv(c, k) ==
  /\ k.pc \in {"machine", "user"} /\ Has(c, k.machine, "update")
  /\ \A t \in Tokens :
       t \in k.found <=> tokens[t].machine = k.machine /\ tokens[t].state = "outstanding"
  /\ k.op = "issue_registration" =>
       k.pc = "machine" /\ machines[k.machine].state = "present" /\ machines[k.machine].enabled
  /\ k.op = "register" => machines[k.machine].state = "present"
  /\ k.op = "remove" => k.pc = "machine"
  /\ k.pc = "user" => Allowed(c, k.machine)

\* and of those that write a job.
SubmitInv(c, k) ==
  /\ Has(c, AdmissionOf(Owner[k.machine]), "update")
  /\ k.pc # "admission" => machines[k.machine].state = "present" /\ Has(c, k.machine, "share")
  /\ k.pc \in {"user", "counted"} => Allowed(c, k.machine)
  /\ k.pc = "counted" =>
       \A u \in Users : u = Owner[k.machine] => Cardinality(Pending(u)) < MaxOutstanding

CallInv(c, k) ==
  k.pc \notin {"new", "over"} =>
    /\ k.op # "create" => machines[k.machine].state # "absent"
    /\ k.op = "submit" => k.key \in Keys
    /\ k.op = "create" => k.pc = "arrived"
    /\ k.op \in {"issue_registration", "register", "remove"} /\ k.pc # "arrived" =>
         WriterInv(c, k)
    /\ k.op = "submit" /\ k.pc # "arrived" => SubmitInv(c, k)

CallsInv == \A c \in Calls : \A k \in ActiveCall \cup IdleCall : k = calls[c] => CallInv(c, k)

\* A token outstanding is the only one of a machine that is there; it is named
\* after a call that is over, or after its machine.
TokensInv ==
  /\ \A t \in Tokens :
       /\ tokens[t].uses = (IF tokens[t].state = "consumed" THEN 1 ELSE 0)
       /\ tokens[t].state = "outstanding" =>
            tokens[t].machine \in Machines /\ machines[tokens[t].machine].state = "present"
       /\ tokens[t].state # "absent" =>
            /\ t \in Calls => calls[t].pc = "over"
            /\ t \in Machines => machines[t].state # "absent"
  /\ \A s, t \in Tokens :
       tokens[s].state = "outstanding" /\ tokens[t].state = "outstanding"
         /\ tokens[s].machine = tokens[t].machine => s = t

MachinesInv == \A m \in Machines : machines[m].state = "removed" => machines[m].credential = "none"

JobsInv ==
  /\ \A i, j \in jobs : i.key = j.key /\ Owner[i.machine] = Owner[j.machine] => i = j
  /\ \A u \in Users : Cardinality(Pending(u)) <= MaxOutstanding

AdmissionInv ==
  AdmissionType /\ LocksExclude /\ CallsInv /\ TokensInv /\ MachinesInv /\ JobsInv

-----------------------------------------------------------------------------
(* Locks. *)

\* A lock is taken beside those there are.
LEMMA LockTaken ==
  ASSUME LocksExclude, NEW c \in Calls, NEW row, NEW mode \in {"share", "update"},
         Locks(c, row, mode)
  PROVE  /\ LocksExclude' /\ Has(c, row, mode)'
         /\ \A l \in locks : l \in locks'
  <1> DEFINE n == [row |-> row, call |-> c, mode |-> mode]
  <1>1. locks' = locks \cup {n}
    BY DEF Locks
  <1>2. \A l \in locks : l.row = row /\ l.call # c => l.mode = "share" /\ mode = "share"
    BY DEF Locks, MayLock
  <1>3. n.row = row /\ n.call = c /\ n.mode = mode
    OBVIOUS
  <1> HIDE DEF n
  <1>4. LocksExclude'
    BY <1>1, <1>2, <1>3 DEF LocksExclude
  <1>5. Has(c, row, mode)'
    BY <1>1 DEF Has, n
  <1> QED BY <1>1, <1>4, <1>5

\* Whoever has a lock for update has it alone.
LEMMA UpdateIsAlone ==
  ASSUME LocksExclude, NEW c \in Calls, NEW d \in Calls, c # d, NEW row,
         NEW mode, Has(c, row, "update"), Has(d, row, mode)
  PROVE  FALSE
  BY DEF LocksExclude, Has

\* What a call has read under its locks stays so, whatever is written elsewhere.
LEMMA CallKept ==
  ASSUME NEW d \in Calls, NEW k \in ActiveCall \cup IdleCall, CallInv(d, k),
         \A l \in locks : l.call = d => l \in locks',
         k \in ActiveCall /\ machines[k.machine].state # "absent"
           => machines'[k.machine].state # "absent",
         Has(d, k.machine, "share") \/ Has(d, k.machine, "update") =>
           /\ machines'[k.machine].state = machines[k.machine].state
           /\ machines'[k.machine].enabled = machines[k.machine].enabled,
         Has(d, k.machine, "update") =>
           \A t \in Tokens :
             (tokens'[t].machine = k.machine /\ tokens'[t].state = "outstanding")
               = (tokens[t].machine = k.machine /\ tokens[t].state = "outstanding"),
         Has(d, Owner[k.machine], "share") => users'[Owner[k.machine]] = users[Owner[k.machine]],
         Has(d, AdmissionOf(Owner[k.machine]), "update") =>
           \A u \in Users : u = Owner[k.machine] /\ Cardinality(Pending(u)) < MaxOutstanding =>
             Cardinality(Pending(u)') < MaxOutstanding
  PROVE  CallInv(d, k)'
  <1>1. CASE k \in IdleCall
    BY <1>1 DEF IdleCall, CallInv, NoCall
  <1>2. CASE k \in ActiveCall
    <2>1. \A row, mode : Has(d, row, mode) => Has(d, row, mode)'
      BY DEF Has
    <2>2. ASSUME k.op \in {"issue_registration", "register", "remove"}, k.pc # "arrived",
                 k.pc \notin {"new", "over"}
          PROVE  WriterInv(d, k)'
      <3>1. WriterInv(d, k)
        BY <2>2 DEF CallInv
      <3>2. Has(d, k.machine, "update") /\ Has(d, k.machine, "update")'
        BY <2>1, <3>1 DEF WriterInv
      <3>3. k.pc = "user" => Allowed(d, k.machine)'
        BY <2>1, <3>1, <3>2 DEF WriterInv, Allowed
      <3>4. \A t \in Tokens :
              t \in k.found <=> tokens'[t].machine = k.machine /\ tokens'[t].state = "outstanding"
        BY <3>1, <3>2 DEF WriterInv
      <3> QED BY <3>1, <3>2, <3>3, <3>4 DEF WriterInv
    <2>3. ASSUME k.op = "submit", k.pc # "arrived", k.pc \notin {"new", "over"}
          PROVE  SubmitInv(d, k)'
      <3>1. SubmitInv(d, k)
        BY <2>3 DEF CallInv
      <3>2. Has(d, AdmissionOf(Owner[k.machine]), "update")
            /\ Has(d, AdmissionOf(Owner[k.machine]), "update")'
        BY <2>1, <3>1 DEF SubmitInv
      <3>3. k.pc # "admission" => Has(d, k.machine, "share") /\ Has(d, k.machine, "share")'
        BY <2>1, <3>1 DEF SubmitInv
      <3>4. k.pc \in {"user", "counted"} => Allowed(d, k.machine)'
        BY <2>1, <3>1, <3>3 DEF SubmitInv, Allowed
      <3>5. k.pc # "admission" => machines'[k.machine].state = "present"
        BY <3>1, <3>3 DEF SubmitInv
      <3>6. k.pc = "counted" =>
              \A u \in Users : u = Owner[k.machine] => Cardinality(Pending(u)') < MaxOutstanding
        BY <3>1, <3>2 DEF SubmitInv
      <3> QED BY <3>2, <3>3, <3>4, <3>5, <3>6 DEF SubmitInv
    <2> QED BY <1>2, <2>2, <2>3 DEF CallInv
  <1> QED BY <1>1, <1>2

-----------------------------------------------------------------------------
(* Steps that write no row. *)

\* A call goes on, with its locks, and no row changes.
LEMMA CallMoves ==
  ASSUME AdmissionInv, NEW c \in Calls, NEW k \in ActiveCall \cup IdleCall,
         calls' = [calls EXCEPT ![c] = k], calls[c].pc # "over",
         CallInv(c, k)', LocksExclude', UNCHANGED rows,
         \A l \in locks : l.call # c => l \in locks'
  PROVE  AdmissionInv'
  <1>1. AdmissionType /\ CallsInv /\ TokensInv /\ MachinesInv /\ JobsInv
    BY DEF AdmissionInv
  <1>2. UNCHANGED <<users, machines, tokens, jobs>> /\ \A u : Pending(u)' = Pending(u)
    BY DEF rows, Pending
  <1>3. AdmissionType' /\ MachinesInv' /\ JobsInv'
    <2>1. AdmissionType'
      BY <1>1, <1>2 DEF AdmissionType
    <2>2. MachinesInv' /\ JobsInv'
      BY <1>1, <1>2 DEF MachinesInv, JobsInv
    <2> QED BY <2>1, <2>2
  <1>4. TokensInv'
    <2>1. \A t \in Calls : calls[t].pc = "over" => calls'[t].pc = "over"
      BY <1>1 DEF AdmissionType
    <2> QED BY <1>1, <1>2, <2>1 DEF TokensInv
  <1>5. CallsInv'
    <2> SUFFICES ASSUME NEW d \in Calls, NEW r \in ActiveCall \cup IdleCall, r = calls'[d]
                 PROVE  CallInv(d, r)'
      BY DEF CallsInv
    <2>1. CASE d = c
      <3>1. r = k
        BY <1>1, <2>1 DEF AdmissionType
      <3> QED BY <2>1, <3>1
    <2>2. CASE d # c
      <3>1. r = calls[d] /\ CallInv(d, r)
        BY <1>1, <2>2 DEF AdmissionType, CallsInv
      <3>2. \A l \in locks : l.call = d => l \in locks'
        BY <2>2
      <3> QED BY <1>2, <3>1, <3>2, CallKept
    <2> QED BY <2>1, <2>2
  <1> QED BY <1>3, <1>4, <1>5 DEF AdmissionInv

\* The locks of a call that is over are free.
LEMMA LocksFreed ==
  ASSUME LocksExclude, NEW c, locks' = {l \in locks : l.call # c}
  PROVE  LocksExclude' /\ \A l \in locks : l.call # c => l \in locks'
  BY DEF LocksExclude

\* A call that is over has nothing to keep.
LEMMA OverHolds ==
  ASSUME NEW c
  PROVE  /\ [NoCall EXCEPT !.pc = "over"] \in ActiveCall \cup IdleCall
         /\ [NoCall EXCEPT !.pc = "over"].pc = "over"
         /\ CallInv(c, [NoCall EXCEPT !.pc = "over"])'
  <1> DEFINE o == [NoCall EXCEPT !.pc = "over"]
  <1>1. o.pc = "over" /\ o \in IdleCall
    BY DEF NoCall, IdleCall
  <1> HIDE DEF o
  <1>2. CallInv(c, o)'
    BY <1>1 DEF CallInv
  <1> QED BY <1>1, <1>2 DEF o

\* A rollback, or a refusal.
LEMMA GivenUp ==
  ASSUME AdmissionInv, NEW c \in Calls, calls[c].pc # "over", UNCHANGED rows,
         calls' = [calls EXCEPT ![c] = [NoCall EXCEPT !.pc = "over"]],
         locks' = {l \in locks : l.call # c}
  PROVE  AdmissionInv'
  <1>1. LocksExclude
    BY DEF AdmissionInv
  <1>2. LocksExclude' /\ \A l \in locks : l.call # c => l \in locks'
    BY <1>1, LocksFreed
  <1> DEFINE o == [NoCall EXCEPT !.pc = "over"]
  <1>3. o \in ActiveCall \cup IdleCall /\ CallInv(c, o)'
    BY OverHolds
  <1> HIDE DEF o
  <1>4. calls' = [calls EXCEPT ![c] = o]
    BY DEF o
  <1> QED BY <1>2, <1>3, <1>4, CallMoves

\* A refusal, before anything is written.
LEMMA RefusedKeeps ==
  ASSUME AdmissionInv, NEW c \in Calls, calls[c].pc # "over", Refused(c)
  PROVE  AdmissionInv'
  BY GivenUp DEF Refused, Ends

\* A call under way, its machine, and what it has kept.
LEMMA UnderWay ==
  ASSUME AdmissionInv, NEW c \in Calls, calls[c].pc \notin {"new", "over"}
  PROVE  /\ calls[c] \in ActiveCall /\ CallInv(c, calls[c])
         /\ calls[c].machine \in Machines /\ OwnerOf(c) \in Users
         /\ OwnerOf(c) = Owner[calls[c].machine]
  <1>1. calls[c] \in ActiveCall \cup IdleCall
    BY DEF AdmissionInv, AdmissionType
  <1>2. calls[c] \in ActiveCall
    BY <1>1 DEF IdleCall, NoCall
  <1>3. CallInv(c, calls[c])
    BY <1>2 DEF AdmissionInv, CallsInv
  <1> QED BY <1>2, <1>3, MachinesHaveOwners DEF ActiveCall, OwnerOf

\* arrives: nothing is locked yet, and only create finds no machine.
LEMMA ArrivesKeeps ==
  ASSUME AdmissionInv, NEW c \in Calls, arrives(c)
  PROVE  AdmissionInv'
  <1>1. PICK op \in Ops, m \in Machines, t \in Tokens \cup {"none"}, key \in Keys \cup {"none"} :
          /\ IF op = "register" THEN t # "none" /\ tokens[t].machine = m
             ELSE t = "none" /\ users[Owner[m]]
          /\ (op = "submit") <=> (key # "none")
          /\ op = "create" <=> machines[m].state = "absent"
          /\ calls' = [calls EXCEPT ![c] = [pc |-> "arrived", op |-> op, machine |-> m,
                                            token |-> t, key |-> key, found |-> {}]]
    BY DEF arrives
  <1> DEFINE k == [pc |-> "arrived", op |-> op, machine |-> m, token |-> t, key |-> key,
                   found |-> {}]
  <1>2. k \in ActiveCall /\ k.pc = "arrived" /\ k.op = op /\ k.machine = m /\ k.key = key
    BY DEF ActiveCall
  <1>3. UNCHANGED rows /\ locks' = locks /\ calls[c].pc = "new" /\ UNCHANGED machines
    BY DEF arrives, rows
  <1>4. calls' = [calls EXCEPT ![c] = k]
    BY <1>1
  <1> HIDE DEF k
  <1>5. CallInv(c, k)'
    BY <1>1, <1>2, <1>3 DEF CallInv
  <1>6. LocksExclude'
    BY <1>3 DEF AdmissionInv, LocksExclude
  <1> QED BY <1>2, <1>3, <1>4, <1>5, <1>6, CallMoves

\* A call under way goes on to another place, perhaps with a lock or with what it
\* found.
LEMMA CallGoesOn ==
  ASSUME AdmissionInv, NEW c \in Calls, calls[c].pc \notin {"new", "over"},
         NEW pc \in {"machine", "user", "admission", "counted"},
         NEW found \in SUBSET Tokens, NEW k, k = [calls[c] EXCEPT !.pc = pc, !.found = found],
         calls' = [calls EXCEPT ![c] = k], UNCHANGED rows, LocksExclude',
         \A l \in locks : l \in locks',
         k.op # "create",
         k.op \in {"issue_registration", "register", "remove"} => WriterInv(c, k)',
         k.op = "submit" => SubmitInv(c, k)'
  PROVE  AdmissionInv'
  <1>1. calls[c] \in ActiveCall /\ CallInv(c, calls[c])
    BY UnderWay
  <1>2. k \in ActiveCall /\ k.pc = pc /\ k.op = calls[c].op /\ k.machine = calls[c].machine
        /\ k.key = calls[c].key
    BY <1>1 DEF ActiveCall
  <1>3. /\ k.op = "submit" => k.key \in Keys
        /\ machines[k.machine].state # "absent"
    BY <1>1, <1>2 DEF CallInv
  <1>4. CallInv(c, k)'
    <2>1. UNCHANGED machines
      BY DEF rows
    <2> QED BY <1>3, <2>1 DEF CallInv
  <1> QED BY <1>2, <1>4, CallMoves

\* FOR UPDATE of a machine that is there, or that is to be removed anyway.
LEMMA WriterBegins ==
  ASSUME AdmissionInv, NEW c \in Calls, calls[c].pc = "arrived",
         calls[c].op \in {"issue_registration", "register", "remove"},
         LocksMachine(c, "update"),
         calls[c].op = "issue_registration" => Usable(calls[c].machine),
         calls[c].op = "register" => Present(calls[c].machine)
  PROVE  AdmissionInv'
  <1>1. calls[c] \in ActiveCall /\ calls[c].machine \in Machines
    BY UnderWay
  <1>2. PICK m \in Machines : m = calls[c].machine
    BY <1>1
  <1>3. PICK found \in SUBSET Tokens : found = Outstanding(m)
    BY DEF Outstanding
  <1>4. PICK k : k = [calls[c] EXCEPT !.pc = "machine", !.found = found]
    OBVIOUS
  <1>5. /\ calls' = [calls EXCEPT ![c] = k] /\ UNCHANGED rows /\ Locks(c, m, "update")
        /\ UNCHANGED <<machines, tokens>>
    BY <1>2, <1>3, <1>4 DEF LocksMachine, rows
  <1>6. /\ k.pc = "machine" /\ k.op = calls[c].op /\ k.machine = m /\ k.found = found
    BY <1>1, <1>2, <1>4 DEF ActiveCall
  <1>7. LocksExclude' /\ Has(c, m, "update")' /\ \A l \in locks : l \in locks'
    BY <1>5, LockTaken DEF AdmissionInv
  <1>8. WriterInv(c, k)'
    BY <1>2, <1>3, <1>5, <1>6, <1>7 DEF WriterInv, Outstanding, Usable, Present
  <1> QED BY <1>4, <1>5, <1>6, <1>7, <1>8, CallGoesOn

\* The three calls that begin so.
LEMMA WritersBegin ==
  ASSUME AdmissionInv, NEW c \in Calls,
         issueBegins(c) \/ registerBegins(c) \/ removeBegins(c)
  PROVE  AdmissionInv'
  <1>1. CASE issueBegins(c)
    BY <1>1, WriterBegins, RefusedKeeps DEF issueBegins, At
  <1>2. CASE registerBegins(c)
    BY <1>2, WriterBegins, RefusedKeeps DEF registerBegins, At
  <1>3. CASE removeBegins(c)
    BY <1>3, WriterBegins DEF removeBegins, At
  <1> QED BY <1>1, <1>2, <1>3

\* submit takes the user's advisory lock, then the machine to share.
LEMMA SubmitBegins ==
  ASSUME AdmissionInv, NEW c \in Calls, submitBegins(c) \/ submitLocksMachine(c)
  PROVE  AdmissionInv'
  <1>1. calls[c] \in ActiveCall /\ calls[c].machine \in Machines /\ CallInv(c, calls[c])
        /\ calls[c].op = "submit" /\ calls[c].pc \in {"arrived", "admission"}
    BY UnderWay DEF submitBegins, submitLocksMachine, At
  <1>2. PICK m \in Machines : m = calls[c].machine
    BY <1>1
  <1>3. CASE Refused(c)
    BY <1>1, <1>3, RefusedKeeps
  <1>4. ASSUME submitBegins(c), ~Refused(c) PROVE AdmissionInv'
    <2>1. PICK row : row = AdmissionOf(Owner[m])
      OBVIOUS
    <2>2. Locks(c, row, "update") /\ UNCHANGED rows
          /\ calls' = [calls EXCEPT ![c].pc = "admission"]
      BY <1>2, <1>4, <2>1 DEF submitBegins, OwnerOf
    <2>3. PICK found \in SUBSET Tokens : found = calls[c].found
      BY <1>1 DEF ActiveCall
    <2>4. PICK k : k = [calls[c] EXCEPT !.pc = "admission", !.found = found]
      OBVIOUS
    <2>5. /\ k.pc = "admission" /\ k.op = "submit" /\ k.machine = m
          /\ calls' = [calls EXCEPT ![c] = k]
      BY <1>1, <1>2, <2>2, <2>3, <2>4 DEF ActiveCall
    <2>6. LocksExclude' /\ Has(c, row, "update")' /\ \A l \in locks : l \in locks'
      BY <2>2, LockTaken DEF AdmissionInv
    <2>7. SubmitInv(c, k)'
      BY <2>1, <2>5, <2>6 DEF SubmitInv
    <2> QED BY <1>1, <2>2, <2>4, <2>5, <2>6, <2>7, CallGoesOn
  <1>5. ASSUME submitLocksMachine(c), ~Refused(c) PROVE AdmissionInv'
    <2>1. Locks(c, m, "share") /\ UNCHANGED rows /\ machines[m].state = "present"
          /\ UNCHANGED machines
          /\ calls' = [calls EXCEPT ![c].pc = "machine", ![c].found = Outstanding(m)]
          /\ calls[c].pc = "admission"
      BY <1>2, <1>5 DEF submitLocksMachine, LocksMachine, Present, rows, At
    <2>2. PICK found \in SUBSET Tokens : found = Outstanding(m)
      BY DEF Outstanding
    <2>3. PICK k : k = [calls[c] EXCEPT !.pc = "machine", !.found = found]
      OBVIOUS
    <2>4. /\ k.pc = "machine" /\ k.op = "submit" /\ k.machine = m
          /\ calls' = [calls EXCEPT ![c] = k]
      BY <1>1, <1>2, <2>1, <2>2, <2>3 DEF ActiveCall
    <2>5. LocksExclude' /\ Has(c, m, "share")' /\ \A l \in locks : l \in locks'
      BY <2>1, LockTaken DEF AdmissionInv
    <2>6. Has(c, AdmissionOf(Owner[m]), "update")
      BY <1>1, <1>2, <2>1 DEF CallInv, SubmitInv
    <2>7. SubmitInv(c, k)'
      BY <2>1, <2>4, <2>5, <2>6 DEF SubmitInv, Has
    <2> QED BY <1>1, <2>1, <2>2, <2>3, <2>4, <2>5, <2>7, CallGoesOn
  <1> QED BY <1>3, <1>4, <1>5

\* The user, to share, behind the machine.
LEMMA LocksUserKeeps ==
  ASSUME AdmissionInv, NEW c \in Calls, locksUser(c)
  PROVE  AdmissionInv'
  <1>1. calls[c] \in ActiveCall /\ calls[c].machine \in Machines /\ CallInv(c, calls[c])
        /\ calls[c].op \in {"register", "submit"} /\ calls[c].pc = "machine"
    BY UnderWay DEF locksUser
  <1>2. PICK m \in Machines : m = calls[c].machine
    BY <1>1
  <1>3. CASE Refused(c)
    BY <1>1, <1>3, RefusedKeeps
  <1>4. CASE ~Refused(c)
    <2>1. PICK row : row = Owner[m]
      OBVIOUS
    <2>2. Locks(c, row, "share") /\ UNCHANGED rows /\ users[Owner[m]] /\ machines[m].enabled
          /\ UNCHANGED <<users, machines, tokens>>
          /\ calls' = [calls EXCEPT ![c].pc = "user"]
      BY <1>2, <1>4, <2>1 DEF locksUser, LocksUser, OwnerOf, rows
    <2>3. PICK found \in SUBSET Tokens : found = calls[c].found
      BY <1>1 DEF ActiveCall
    <2>4. PICK k : k = [calls[c] EXCEPT !.pc = "user", !.found = found]
      OBVIOUS
    <2>5. /\ k.pc = "user" /\ k.op = calls[c].op /\ k.machine = m /\ k.found = calls[c].found
          /\ calls' = [calls EXCEPT ![c] = k]
      BY <1>1, <1>2, <2>2, <2>3, <2>4 DEF ActiveCall
    <2>6. LocksExclude' /\ Has(c, row, "share")' /\ \A l \in locks : l \in locks'
      BY <2>2, LockTaken DEF AdmissionInv
    <2>7. machines[m].state = "present"
      BY <1>1, <1>2 DEF CallInv, WriterInv, SubmitInv
    <2>8. Allowed(c, m)'
      BY <2>1, <2>2, <2>6, <2>7 DEF Allowed
    <2>9. k.op = "register" => WriterInv(c, k)'
      <3>1. ASSUME k.op = "register" PROVE WriterInv(c, calls[c])
        BY <1>1, <2>5, <3>1 DEF CallInv
      <3>2. ASSUME k.op = "register"
            PROVE  \A t \in Tokens :
              t \in k.found <=> tokens'[t].machine = k.machine /\ tokens'[t].state = "outstanding"
        BY <1>2, <2>2, <2>5, <3>1, <3>2 DEF WriterInv
      <3>3. ASSUME k.op = "register" PROVE Has(c, m, "update")'
        BY <1>2, <2>5, <2>6, <3>1, <3>3 DEF WriterInv, Has
      <3> QED BY <2>2, <2>5, <2>7, <2>8, <3>2, <3>3 DEF WriterInv
    <2>10. k.op = "submit" => SubmitInv(c, k)'
      <3>1. ASSUME k.op = "submit" PROVE SubmitInv(c, calls[c])
        BY <1>1, <2>5, <3>1 DEF CallInv
      <3>2. ASSUME k.op = "submit"
            PROVE  Has(c, m, "share")' /\ Has(c, AdmissionOf(Owner[m]), "update")'
        BY <1>1, <1>2, <2>6, <3>1, <3>2 DEF SubmitInv, Has
      <3>3. ASSUME k.op = "submit" PROVE SubmitInv(c, k)'
        <4>1. machines'[m].state = "present"
          BY <2>2, <2>7
        <4> QED BY <2>5, <2>8, <3>2, <3>3, <4>1 DEF SubmitInv
      <3> QED BY <3>3
    <2>11. /\ calls[c].pc \notin {"new", "over"} /\ k.op # "create"
           /\ "user" \in {"machine", "user", "admission", "counted"}
           /\ k.op \in {"issue_registration", "register", "remove"} => WriterInv(c, k)'
      BY <1>1, <2>5, <2>9
    <2>12. UNCHANGED rows /\ calls' = [calls EXCEPT ![c] = k]
      BY <2>2, <2>5
    <2>13. LocksExclude' /\ \A l \in locks : l \in locks'
      BY <2>6
    <2> QED BY <2>4, <2>10, <2>11, <2>12, <2>13, CallGoesOn
  <1> QED BY <1>3, <1>4

\* The count, under the advisory lock.
LEMMA CountsKeep ==
  ASSUME AdmissionInv, NEW c \in Calls, submitCounts(c)
  PROVE  AdmissionInv'
  <1>1. calls[c] \in ActiveCall /\ calls[c].machine \in Machines /\ CallInv(c, calls[c])
        /\ calls[c].op = "submit" /\ calls[c].pc = "user"
    BY UnderWay DEF submitCounts, At
  <1>2. PICK m \in Machines : m = calls[c].machine
    BY <1>1
  <1>3. CASE Refused(c)
    BY <1>1, <1>3, RefusedKeeps
  <1>4. CASE ~Refused(c)
    <2>1. /\ Cardinality(Pending(Owner[m])) < MaxOutstanding
          /\ UNCHANGED <<users, machines, tokens, jobs, locks, rows>>
          /\ calls' = [calls EXCEPT ![c].pc = "counted"]
      BY <1>2, <1>4 DEF submitCounts, OwnerOf, rows
    <2>2. PICK found \in SUBSET Tokens : found = calls[c].found
      BY <1>1 DEF ActiveCall
    <2>3. PICK k : k = [calls[c] EXCEPT !.pc = "counted", !.found = found]
      OBVIOUS
    <2>4. /\ k.pc = "counted" /\ k.op = "submit" /\ k.machine = m
          /\ calls' = [calls EXCEPT ![c] = k]
      BY <1>1, <1>2, <2>1, <2>2, <2>3 DEF ActiveCall
    <2>5. SubmitInv(c, calls[c])
      BY <1>1 DEF CallInv
    <2>6. /\ Has(c, AdmissionOf(Owner[m]), "update")' /\ Has(c, m, "share")'
          /\ Allowed(c, m)' /\ machines'[m].state = "present"
      BY <1>1, <1>2, <2>1, <2>5 DEF SubmitInv, Has, Allowed
    <2>7. \A u \in Users : u = Owner[m] => Cardinality(Pending(u)') < MaxOutstanding
      BY <2>1 DEF Pending
    <2>8. SubmitInv(c, k)'
      BY <2>4, <2>6, <2>7 DEF SubmitInv
    <2>9. LocksExclude' /\ \A l \in locks : l \in locks'
      BY <2>1 DEF AdmissionInv, LocksExclude
    <2> QED BY <1>1, <2>1, <2>2, <2>3, <2>4, <2>8, <2>9, CallGoesOn
  <1> QED BY <1>3, <1>4

-----------------------------------------------------------------------------
(* Commits. *)

\* A commit that writes one machine and its tokens, under the machine's lock or
\* because there was no such machine: what the other calls have read stays so.
LEMMA RowsWritten ==
  ASSUME AdmissionInv, NEW c \in Calls, NEW m \in Machines,
         Has(c, m, "update") \/ machines[m].state = "absent",
         Ends(c), UNCHANGED <<users, jobs>>,
         machines' \in [Machines -> MachineRow], tokens' \in [Tokens -> TokenRow],
         machines'[m].state # "absent",
         \A n \in Machines \ {m} : machines'[n] = machines[n],
         \A n \in Machines \ {m} : \A t \in Tokens :
           (tokens'[t].machine = n /\ tokens'[t].state = "outstanding")
             = (tokens[t].machine = n /\ tokens[t].state = "outstanding")
  PROVE  /\ AdmissionType' /\ LocksExclude' /\ CallsInv' /\ JobsInv'
         /\ \A d \in Calls : calls'[d].pc = "over" <=> d = c \/ calls[d].pc = "over"
  <1>1. AdmissionType /\ LocksExclude /\ CallsInv /\ JobsInv
    BY DEF AdmissionInv
  <1> DEFINE o == [NoCall EXCEPT !.pc = "over"]
  <1>2. /\ o \in ActiveCall \cup IdleCall /\ CallInv(c, o)' /\ o.pc = "over"
        /\ calls' = [calls EXCEPT ![c] = o]
    BY OverHolds DEF Ends
  <1> HIDE DEF o
  <1>3. LocksExclude' /\ \A l \in locks : l.call # c => l \in locks'
    BY <1>1, LocksFreed DEF Ends
  <1>4. AdmissionType'
    BY <1>1, <1>2 DEF AdmissionType
  <1>5. \A u : Pending(u)' = Pending(u)
    BY DEF Pending
  <1>6. JobsInv'
    BY <1>1, <1>5 DEF JobsInv
  <1>7. /\ calls'[c] = o /\ \A d \in Calls \ {c} : calls'[d] = calls[d]
    BY <1>1, <1>2 DEF AdmissionType
  <1>8. CallsInv'
    <2> SUFFICES ASSUME NEW d \in Calls, NEW r \in ActiveCall \cup IdleCall, r = calls'[d]
                 PROVE  CallInv(d, r)'
      BY DEF CallsInv
    <2>1. CASE d = c
      <3>1. r = o
        BY <1>7, <2>1
      <3> QED BY <1>2, <2>1, <3>1
    <2>2. CASE d # c
      <3>1. r = calls[d] /\ CallInv(d, r)
        BY <1>1, <1>7, <2>2 DEF CallsInv
      <3>2. \A l \in locks : l.call = d => l \in locks'
        BY <1>3, <2>2
      <3>3. CASE r \in IdleCall
        BY <3>3 DEF CallInv, IdleCall, NoCall
      <3>4. CASE r \in ActiveCall /\ r.machine # m
        <4>1. r.machine \in Machines \ {m}
          BY <3>4 DEF ActiveCall
        <4> QED BY <1>5, <3>1, <3>2, <4>1, CallKept
      <3>5. CASE r \in ActiveCall /\ r.machine = m /\ Has(c, m, "update")
        <4>1. ~Has(d, m, "share") /\ ~Has(d, m, "update")
          BY <1>1, <2>2, <3>5, UpdateIsAlone
        <4> QED BY <1>5, <3>1, <3>2, <3>5, <4>1, CallKept
      <3>6. CASE r \in ActiveCall /\ r.machine = m /\ machines[m].state = "absent"
        <4>1. r.op = "create" /\ r.pc = "arrived"
          BY <3>1, <3>6 DEF CallInv, ActiveCall
        <4> QED BY <4>1 DEF CallInv
      <3> QED BY <3>3, <3>4, <3>5, <3>6
    <2> QED BY <2>1, <2>2
  <1>9. \A d \in Calls : calls'[d].pc = "over" <=> d = c \/ calls[d].pc = "over"
    BY <1>2, <1>7
  <1> QED BY <1>3, <1>4, <1>6, <1>8, <1>9

\* The tokens that are revoked, and those that are not.
LEMMA WithoutTokens ==
  ASSUME tokens \in [Tokens -> TokenRow], NEW S \in SUBSET Tokens
  PROVE  /\ Without(S) \in [Tokens -> TokenRow]
         /\ \A t \in Tokens : t \notin S => Without(S)[t] = tokens[t]
         /\ \A t \in S : /\ Without(S)[t].state = "revoked" /\ Without(S)[t].uses = tokens[t].uses
                         /\ Without(S)[t].machine = tokens[t].machine
  BY DEF Without, TokenRow

\* The tokens of a machine once a new one is issued: it is the only one.
LEMMA Reissued ==
  ASSUME AdmissionType, TokensInv, NEW m \in Machines, NEW new \in Tokens,
         tokens[new].state = "absent", NEW unused \in SUBSET Tokens,
         \A t \in Tokens : t \in unused <=> tokens[t].machine = m /\ tokens[t].state = "outstanding",
         tokens' = registration(m, new, unused)
  PROVE  /\ tokens' \in [Tokens -> TokenRow]
         /\ tokens'[new].state = "outstanding" /\ tokens'[new].machine = m /\ tokens'[new].uses = 0
         /\ \A t \in Tokens \ {new} :
              /\ t \notin unused => tokens'[t] = tokens[t]
              /\ t \in unused => /\ tokens'[t].state = "revoked" /\ tokens'[t].machine = m
                                 /\ tokens'[t].uses = 0
  <1> DEFINE W == Without(unused)
             row == [NoToken EXCEPT !.state = "outstanding", !.machine = m]
  <1>1. /\ W \in [Tokens -> TokenRow] /\ \A t \in Tokens : t \notin unused => W[t] = tokens[t]
        /\ \A t \in unused : /\ W[t].state = "revoked" /\ W[t].uses = tokens[t].uses
                             /\ W[t].machine = tokens[t].machine
    BY WithoutTokens DEF AdmissionType
  <1>2. \A t \in unused : tokens[t].uses = 0
    BY DEF TokensInv
  <1>3. row \in TokenRow /\ row.state = "outstanding" /\ row.machine = m /\ row.uses = 0
    BY DEF NoToken, TokenRow
  <1> HIDE DEF row, W
  <1>4. tokens' = [W EXCEPT ![new] = row]
    BY DEF registration, W, row
  <1> QED BY <1>1, <1>2, <1>3, <1>4

\* A new token in the place of the old ones keeps the tokens in order.
LEMMA ReissueKeeps ==
  ASSUME AdmissionInv, NEW c \in Calls, NEW m \in Machines, NEW new \in Tokens,
         Has(c, m, "update") \/ machines[m].state = "absent",
         tokens[new].state = "absent", NEW unused \in SUBSET Tokens,
         \A t \in Tokens : t \in unused <=> tokens[t].machine = m /\ tokens[t].state = "outstanding",
         tokens' = registration(m, new, unused), Ends(c), UNCHANGED <<users, jobs>>,
         machines' \in [Machines -> MachineRow], machines'[m].state = "present",
         \A n \in Machines \ {m} : machines'[n] = machines[n],
         new = c \/ new = m
  PROVE  AdmissionInv'
  <1>1. AdmissionType /\ TokensInv /\ MachinesInv
    BY DEF AdmissionInv
  <1>2. /\ tokens' \in [Tokens -> TokenRow]
        /\ tokens'[new].state = "outstanding" /\ tokens'[new].machine = m /\ tokens'[new].uses = 0
        /\ \A t \in Tokens \ {new} :
             /\ t \notin unused => tokens'[t] = tokens[t]
             /\ t \in unused => /\ tokens'[t].state = "revoked" /\ tokens'[t].machine = m
                                /\ tokens'[t].uses = 0
    BY <1>1, Reissued
  <1>3. \A n \in Machines \ {m} : \A t \in Tokens :
          (tokens'[t].machine = n /\ tokens'[t].state = "outstanding")
            = (tokens[t].machine = n /\ tokens[t].state = "outstanding")
    <2> SUFFICES ASSUME NEW n \in Machines \ {m}, NEW t \in Tokens
                 PROVE  (tokens'[t].machine = n /\ tokens'[t].state = "outstanding")
                          <=> (tokens[t].machine = n /\ tokens[t].state = "outstanding")
      OBVIOUS
    <2>1. CASE t = new
      BY <1>2, <2>1
    <2>2. CASE t # new /\ t \in unused
      BY <1>2, <2>2
    <2>3. CASE t # new /\ t \notin unused
      BY <1>2, <2>3
    <2> QED BY <2>1, <2>2, <2>3
  <1>4. /\ AdmissionType' /\ LocksExclude' /\ CallsInv' /\ JobsInv'
        /\ \A d \in Calls : calls'[d].pc = "over" <=> d = c \/ calls[d].pc = "over"
    BY <1>2, <1>3, RowsWritten
  <1>5. MachinesInv'
    BY <1>1 DEF MachinesInv
  <1>6. ASSUME NEW t \in Tokens
        PROVE  /\ tokens'[t].uses = (IF tokens'[t].state = "consumed" THEN 1 ELSE 0)
               /\ tokens'[t].state = "outstanding" =>
                    tokens'[t].machine \in Machines
                    /\ machines'[tokens'[t].machine].state = "present"
    <2>1. CASE t = new
      BY <1>2, <2>1
    <2>2. CASE t # new /\ t \in unused
      BY <1>2, <2>2
    <2>3. CASE t # new /\ t \notin unused
      <3>1. tokens'[t] = tokens[t]
        BY <1>2, <2>3
      <3>2. /\ tokens[t].uses = (IF tokens[t].state = "consumed" THEN 1 ELSE 0)
            /\ tokens[t].state = "outstanding" =>
                 tokens[t].machine \in Machines \ {m}
                 /\ machines[tokens[t].machine].state = "present"
        BY <1>1, <2>3 DEF TokensInv
      <3> QED BY <3>1, <3>2
    <2> QED BY <2>1, <2>2, <2>3
  <1>7. ASSUME NEW t \in Tokens, tokens'[t].state # "absent"
        PROVE  (t \in Calls => calls'[t].pc = "over") /\ (t \in Machines => machines'[t].state # "absent")
    <2>1. CASE t = new
      BY <1>4, <2>1, MachinesHaveOwners
    <2>2. CASE t # new
      <3>1. tokens[t].state # "absent"
        BY <1>2, <1>7, <2>2
      <3>2. (t \in Calls => calls[t].pc = "over") /\ (t \in Machines => machines[t].state # "absent")
        BY <1>1, <3>1 DEF TokensInv
      <3> QED BY <1>4, <3>2
    <2> QED BY <2>1, <2>2
  <1>8. ASSUME NEW s \in Tokens, NEW t \in Tokens,
               tokens'[s].state = "outstanding", tokens'[t].state = "outstanding",
               tokens'[s].machine = tokens'[t].machine
        PROVE  s = t
    <2>1. \A r \in Tokens \ {new} : tokens'[r].state = "outstanding" =>
            tokens'[r] = tokens[r] /\ tokens'[r].machine # m
      BY <1>2
    <2>2. s # new /\ t # new => s = t
      BY <1>1, <1>8, <2>1 DEF TokensInv
    <2> QED BY <1>2, <1>8, <2>1, <2>2
  <1>9. TokensInv'
    BY <1>6, <1>7, <1>8 DEF TokensInv
  <1> QED BY <1>4, <1>5, <1>9 DEF AdmissionInv

\* create: the machine is new, and so is its first token.
LEMMA CreateKeeps ==
  ASSUME AdmissionInv, NEW c \in Calls, create(c)
  PROVE  AdmissionInv'
  <1>1. calls[c].machine \in Machines /\ calls[c].pc = "arrived"
    BY UnderWay DEF create, At
  <1>2. PICK m \in Machines : m = calls[c].machine
    BY <1>1
  <1>3. CASE Refused(c)
    BY <1>1, <1>3, RefusedKeeps
  <1>4. CASE ~Refused(c)
    <2>1. /\ machines[m].state = "absent"
          /\ machines' = [machines EXCEPT ![m] = [NoMachine EXCEPT !.state = "present"]]
          /\ tokens' = registration(m, m, {}) /\ UNCHANGED <<users, jobs>> /\ Ends(c)
      BY <1>2, <1>4 DEF create
    <2>2. AdmissionType /\ TokensInv
      BY DEF AdmissionInv
    <2>3. m \in Tokens /\ tokens[m].state = "absent"
      BY <2>1, <2>2 DEF Tokens, TokensInv
    <2>4. \A t \in Tokens : ~(tokens[t].machine = m /\ tokens[t].state = "outstanding")
      BY <2>1, <2>2 DEF TokensInv
    <2>5. /\ machines' \in [Machines -> MachineRow] /\ machines'[m].state = "present"
          /\ \A n \in Machines \ {m} : machines'[n] = machines[n]
      BY <2>1, <2>2 DEF AdmissionType, MachineRow, NoMachine
    <2>6. PICK unused \in SUBSET Tokens : unused = {}
      OBVIOUS
    <2> QED BY <2>1, <2>3, <2>4, <2>5, <2>6, ReissueKeeps
  <1> QED BY <1>3, <1>4

\* issue_registration: the token of the call is new, and those it found go.
LEMMA IssueKeeps ==
  ASSUME AdmissionInv, NEW c \in Calls, issue_registration(c)
  PROVE  AdmissionInv'
  <1>1. calls[c] \in ActiveCall /\ CallInv(c, calls[c]) /\ calls[c].machine \in Machines
        /\ calls[c].op = "issue_registration" /\ calls[c].pc = "machine"
    BY UnderWay DEF issue_registration, At
  <1>2. PICK m \in Machines : m = calls[c].machine
    BY <1>1
  <1>3. PICK unused \in SUBSET Tokens : unused = calls[c].found
    BY <1>1 DEF ActiveCall
  <1>4. WriterInv(c, calls[c])
    BY <1>1 DEF CallInv
  <1>5. /\ Has(c, m, "update") /\ machines[m].state = "present"
        /\ \A t \in Tokens :
             t \in unused <=> tokens[t].machine = m /\ tokens[t].state = "outstanding"
    BY <1>1, <1>2, <1>3, <1>4 DEF WriterInv
  <1>6. c \in Tokens /\ tokens[c].state = "absent"
    BY <1>1 DEF Tokens, AdmissionInv, TokensInv
  <1>7. /\ tokens' = registration(m, c, unused) /\ UNCHANGED <<users, machines, jobs>> /\ Ends(c)
    BY <1>2, <1>3 DEF issue_registration
  <1>8. machines' \in [Machines -> MachineRow]
    BY <1>7 DEF AdmissionInv, AdmissionType
  <1> QED BY <1>5, <1>6, <1>7, <1>8, ReissueKeeps

\* register: the token is used up, and the machine has a credential.
LEMMA RegisterKeeps ==
  ASSUME AdmissionInv, NEW c \in Calls, register(c)
  PROVE  AdmissionInv'
  <1>1. calls[c] \in ActiveCall /\ CallInv(c, calls[c]) /\ calls[c].machine \in Machines
        /\ calls[c].op = "register" /\ calls[c].pc = "user"
    BY UnderWay DEF register, At
  <1>2. PICK m \in Machines : m = calls[c].machine
    BY <1>1
  <1>3. CASE Refused(c)
    BY <1>1, <1>3, RefusedKeeps
  <1>4. CASE ~Refused(c)
    <2>1. PICK t : t = calls[c].token
      OBVIOUS
    <2>2. /\ t \in calls[c].found
          /\ tokens' = [tokens EXCEPT ![t].state = "consumed", ![t].uses = @ + 1]
          /\ machines' = [machines EXCEPT ![m].credential = c, ![m].version = @ + 1]
          /\ UNCHANGED <<users, jobs>> /\ Ends(c)
      BY <1>2, <1>4, <2>1 DEF register
    <2>3. WriterInv(c, calls[c])
      BY <1>1 DEF CallInv
    <2>4. AdmissionType /\ TokensInv /\ MachinesInv
      BY DEF AdmissionInv
    <2>5. /\ Has(c, m, "update") /\ machines[m].state = "present"
          /\ t \in Tokens /\ tokens[t].machine = m /\ tokens[t].state = "outstanding"
          /\ tokens[t].uses = 0
      BY <1>1, <1>2, <2>2, <2>3, <2>4 DEF WriterInv, ActiveCall, TokensInv
    <2>6. /\ machines' \in [Machines -> MachineRow] /\ machines'[m].state = "present"
          /\ \A n \in Machines \ {m} : machines'[n] = machines[n]
      <3>1. machines[m] \in MachineRow
        BY <2>4 DEF AdmissionType
      <3>2. machines[m].version + 1 \in Nat
        BY <3>1 DEF MachineRow
      <3>3. PICK version \in Nat : version = machines[m].version + 1
        BY <3>2
      <3>4. machines' = [machines EXCEPT ![m] =
                          [machines[m] EXCEPT !.credential = c, !.version = version]]
        BY <2>2, <2>4, <3>3 DEF AdmissionType
      <3>5. [machines[m] EXCEPT !.credential = c, !.version = version] \in MachineRow
        BY <3>1 DEF MachineRow
      <3>6. [machines[m] EXCEPT !.credential = c, !.version = version].state = "present"
        BY <2>5, <3>1 DEF MachineRow
      <3> QED BY <2>4, <3>4, <3>5, <3>6 DEF AdmissionType
    <2>7. /\ tokens' \in [Tokens -> TokenRow]
          /\ tokens'[t].state = "consumed" /\ tokens'[t].uses = 1 /\ tokens'[t].machine = m
          /\ \A s \in Tokens \ {t} : tokens'[s] = tokens[s]
      <3>0. PICK uses : uses = tokens[t].uses + 1
        OBVIOUS
      <3>1. tokens' = [tokens EXCEPT ![t] = [tokens[t] EXCEPT !.state = "consumed", !.uses = uses]]
        BY <2>2, <2>4, <2>5, <3>0 DEF AdmissionType
      <3>4. uses = 1
        BY <2>5, <3>0
      <3>2. tokens[t] \in TokenRow
        BY <2>4, <2>5 DEF AdmissionType
      <3>3. [tokens[t] EXCEPT !.state = "consumed", !.uses = 1] \in TokenRow
        BY <3>2 DEF TokenRow
      <3> QED BY <2>4, <2>5, <3>1, <3>2, <3>3, <3>4 DEF AdmissionType, TokenRow
    <2>8. \A n \in Machines \ {m} : \A s \in Tokens :
            (tokens'[s].machine = n /\ tokens'[s].state = "outstanding")
              = (tokens[s].machine = n /\ tokens[s].state = "outstanding")
      <3> SUFFICES ASSUME NEW n \in Machines \ {m}, NEW s \in Tokens
                   PROVE  (tokens'[s].machine = n /\ tokens'[s].state = "outstanding")
                            <=> (tokens[s].machine = n /\ tokens[s].state = "outstanding")
        OBVIOUS
      <3> QED BY <2>5, <2>7
    <2>9. /\ AdmissionType' /\ LocksExclude' /\ CallsInv' /\ JobsInv'
          /\ \A d \in Calls : calls'[d].pc = "over" <=> d = c \/ calls[d].pc = "over"
      BY <2>2, <2>5, <2>6, <2>7, <2>8, RowsWritten
    <2>10. MachinesInv'
      BY <2>4, <2>6 DEF MachinesInv
    <2>11. TokensInv'
      <3>1. ASSUME NEW s \in Tokens
            PROVE  /\ tokens'[s].uses = (IF tokens'[s].state = "consumed" THEN 1 ELSE 0)
                   /\ tokens'[s].state = "outstanding" =>
                        tokens'[s].machine \in Machines
                        /\ machines'[tokens'[s].machine].state = "present"
                   /\ tokens'[s].state # "absent" =>
                        /\ s \in Calls => calls'[s].pc = "over"
                        /\ s \in Machines => machines'[s].state # "absent"
        <4>1. \A n \in Machines : machines[n].state # "absent" => machines'[n].state # "absent"
          BY <2>6
        <4>2. \A n \in Machines : machines[n].state = "present" => machines'[n].state = "present"
          BY <2>6
        <4>3. tokens[s].state # "absent" =>
                /\ s \in Calls => calls'[s].pc = "over"
                /\ s \in Machines => machines'[s].state # "absent"
          BY <2>4, <2>9, <4>1 DEF TokensInv
        <4>4. CASE s = t
          BY <2>5, <2>7, <4>3, <4>4
        <4>5. CASE s # t
          BY <2>4, <2>7, <4>2, <4>3, <4>5 DEF TokensInv
        <4> QED BY <4>4, <4>5
      <3>2. ASSUME NEW r \in Tokens, NEW s \in Tokens,
                   tokens'[r].state = "outstanding", tokens'[s].state = "outstanding",
                   tokens'[r].machine = tokens'[s].machine
            PROVE  r = s
        <4>1. r # t /\ s # t
          BY <2>7, <3>2
        <4>2. tokens'[r] = tokens[r] /\ tokens'[s] = tokens[s]
          BY <2>7, <4>1
        <4> QED BY <2>4, <3>2, <4>2 DEF TokensInv
      <3> QED BY <3>1, <3>2 DEF TokensInv
    <2> QED BY <2>9, <2>10, <2>11 DEF AdmissionInv
  <1> QED BY <1>3, <1>4

\* remove: the machine and its tokens are gone for good.
LEMMA RemoveKeeps ==
  ASSUME AdmissionInv, NEW c \in Calls, remove(c)
  PROVE  AdmissionInv'
  <1>1. calls[c] \in ActiveCall /\ CallInv(c, calls[c]) /\ calls[c].machine \in Machines
        /\ calls[c].op = "remove" /\ calls[c].pc = "machine"
    BY UnderWay DEF remove, At
  <1>2. PICK m \in Machines : m = calls[c].machine
    BY <1>1
  <1>3. CASE Refused(c)
    BY <1>1, <1>3, RefusedKeeps
  <1>4. CASE ~Refused(c)
    <2>1. PICK found \in SUBSET Tokens : found = calls[c].found
      BY <1>1 DEF ActiveCall
    <2>2. AdmissionType /\ TokensInv /\ MachinesInv
      BY DEF AdmissionInv
    <2>3. /\ machines' = [machines EXCEPT ![m] = [state |-> "removed", enabled |-> FALSE,
                            version |-> machines[m].version + 1, credential |-> "none"]]
          /\ tokens' = Without(found) /\ UNCHANGED <<users, jobs>> /\ Ends(c)
      BY <1>2, <1>4, <2>1, <2>2 DEF remove, AdmissionType
    <2>4. WriterInv(c, calls[c])
      BY <1>1 DEF CallInv
    <2>5. /\ Has(c, m, "update")
          /\ \A t \in Tokens :
               t \in found <=> tokens[t].machine = m /\ tokens[t].state = "outstanding"
      BY <1>2, <2>1, <2>4 DEF WriterInv
    <2>6. /\ machines' \in [Machines -> MachineRow] /\ machines'[m].state = "removed"
          /\ machines'[m].credential = "none"
          /\ \A n \in Machines \ {m} : machines'[n] = machines[n]
      <3>1. machines[m].version + 1 \in Nat
        BY <2>2 DEF AdmissionType, MachineRow
      <3>2. PICK version \in Nat : version = machines[m].version + 1
        BY <3>1
      <3> DEFINE row == [state |-> "removed", enabled |-> FALSE, version |-> version,
                         credential |-> "none"]
      <3>3. row \in MachineRow /\ row.state = "removed" /\ row.credential = "none"
        BY DEF MachineRow
      <3>4. machines' = [machines EXCEPT ![m] = row]
        BY <2>3, <3>2
      <3> HIDE DEF row
      <3> QED BY <2>2, <3>3, <3>4 DEF AdmissionType
    <2>7. /\ tokens' \in [Tokens -> TokenRow]
          /\ \A t \in Tokens : t \notin found => tokens'[t] = tokens[t]
          /\ \A t \in found : /\ tokens'[t].state = "revoked" /\ tokens'[t].uses = tokens[t].uses
                              /\ tokens'[t].machine = tokens[t].machine
      BY <2>2, <2>3, WithoutTokens DEF AdmissionType
    <2>8. \A n \in Machines \ {m} : \A s \in Tokens :
            (tokens'[s].machine = n /\ tokens'[s].state = "outstanding")
              = (tokens[s].machine = n /\ tokens[s].state = "outstanding")
      <3> SUFFICES ASSUME NEW n \in Machines \ {m}, NEW s \in Tokens
                   PROVE  (tokens'[s].machine = n /\ tokens'[s].state = "outstanding")
                            <=> (tokens[s].machine = n /\ tokens[s].state = "outstanding")
        OBVIOUS
      <3> QED BY <2>5, <2>7
    <2>9. /\ AdmissionType' /\ LocksExclude' /\ CallsInv' /\ JobsInv'
          /\ \A d \in Calls : calls'[d].pc = "over" <=> d = c \/ calls[d].pc = "over"
      BY <2>3, <2>5, <2>6, <2>7, <2>8, RowsWritten
    <2>10. MachinesInv'
      BY <2>2, <2>6 DEF MachinesInv
    <2>11. \A t \in Tokens : tokens'[t].state = "outstanding" =>
             t \notin found /\ tokens'[t] = tokens[t] /\ tokens[t].machine # m
      BY <2>5, <2>7
    <2>12. TokensInv'
      <3>1. ASSUME NEW s \in Tokens
            PROVE  /\ tokens'[s].uses = (IF tokens'[s].state = "consumed" THEN 1 ELSE 0)
                   /\ tokens'[s].state = "outstanding" =>
                        tokens'[s].machine \in Machines
                        /\ machines'[tokens'[s].machine].state = "present"
                   /\ tokens'[s].state # "absent" =>
                        /\ s \in Calls => calls'[s].pc = "over"
                        /\ s \in Machines => machines'[s].state # "absent"
        <4>1. \A n \in Machines : machines[n].state # "absent" => machines'[n].state # "absent"
          BY <2>6
        <4>2. tokens[s].state # "absent" =>
                /\ s \in Calls => calls'[s].pc = "over"
                /\ s \in Machines => machines'[s].state # "absent"
          BY <2>2, <2>9, <4>1 DEF TokensInv
        <4>3. /\ tokens[s].uses = (IF tokens[s].state = "consumed" THEN 1 ELSE 0)
              /\ tokens[s].state = "outstanding" =>
                   tokens[s].machine \in Machines
                   /\ machines[tokens[s].machine].state = "present"
          BY <2>2 DEF TokensInv
        <4>4. CASE s \in found
          BY <2>5, <2>7, <4>2, <4>3, <4>4
        <4>5. CASE s \notin found
          BY <2>6, <2>7, <2>11, <4>2, <4>3, <4>5
        <4> QED BY <4>4, <4>5
      <3>2. ASSUME NEW r \in Tokens, NEW s \in Tokens,
                   tokens'[r].state = "outstanding", tokens'[s].state = "outstanding",
                   tokens'[r].machine = tokens'[s].machine
            PROVE  r = s
        BY <2>2, <2>11, <3>2 DEF TokensInv
      <3> QED BY <3>1, <3>2 DEF TokensInv
    <2> QED BY <2>9, <2>10, <2>12 DEF AdmissionInv
  <1> QED BY <1>3, <1>4

\* The jobs a user has outstanding.
LEMMA PendingFinite ==
  ASSUME AdmissionType, NEW u
  PROVE  IsFiniteSet(Pending(u)) /\ Cardinality(Pending(u)) \in Nat
  <1>1. Pending(u) \in SUBSET jobs
    BY DEF Pending
  <1> QED BY <1>1, FS_Subset, FS_CardinalityType DEF AdmissionType

\* submit: the one call that counts the user's jobs inserts one that is new.
LEMMA SubmitKeeps ==
  ASSUME AdmissionInv, NEW c \in Calls, submit(c)
  PROVE  AdmissionInv'
  <1>1. calls[c] \in ActiveCall /\ CallInv(c, calls[c]) /\ calls[c].machine \in Machines
        /\ calls[c].op = "submit" /\ calls[c].pc = "counted"
    BY UnderWay DEF submit, At
  <1>2. PICK m \in Machines : m = calls[c].machine
    BY <1>1
  <1>3. CASE Refused(c)
    BY <1>1, <1>3, RefusedKeeps
  <1>4. CASE ~Refused(c)
    <2>1. calls[c].key \in Keys
      BY <1>1 DEF CallInv
    <2>2. PICK key \in Keys : key = calls[c].key
      BY <2>1
    <2>3. PICK u \in Users : u = Owner[m]
      BY MachinesHaveOwners
    <2> DEFINE row == [by |-> c, machine |-> m, key |-> key, outstanding |-> TRUE]
    <2>4. row \in JobRow /\ row.key = key /\ row.machine = m /\ row.outstanding = TRUE
      BY DEF JobRow
    <2>5. /\ WithKey(u, key) = {} /\ jobs' = jobs \cup {row}
          /\ UNCHANGED <<users, machines, tokens>> /\ Ends(c)
      BY <1>2, <1>4, <2>2, <2>3 DEF submit, OwnerOf
    <2> HIDE DEF row
    <2>6. AdmissionType /\ LocksExclude /\ CallsInv /\ TokensInv /\ MachinesInv /\ JobsInv
      BY DEF AdmissionInv
    <2>7. \A j \in jobs : ~(j.key = key /\ Owner[j.machine] = u)
      BY <2>5 DEF WithKey
    <2>8. row \notin jobs
      BY <2>3, <2>4, <2>7
    <2>9. SubmitInv(c, calls[c])
      BY <1>1 DEF CallInv
    <2>10. Has(c, AdmissionOf(u), "update") /\ Cardinality(Pending(u)) < MaxOutstanding
      BY <1>1, <1>2, <2>3, <2>9 DEF SubmitInv
    <2>11. Pending(u)' = Pending(u) \cup {row} /\ row \notin Pending(u)
      BY <2>3, <2>4, <2>5, <2>8 DEF Pending
    <2>12. \A v \in Users \ {u} : Pending(v)' = Pending(v)
      BY <2>3, <2>4, <2>5 DEF Pending
    <2>13. Cardinality(Pending(u) \cup {row}) = Cardinality(Pending(u)) + 1
           /\ Cardinality(Pending(u)) \in Nat
      BY <2>6, <2>11, PendingFinite, FS_AddElement
    <2>14. JobsInv'
      <3>1. \A v \in Users : Cardinality(Pending(v)') <= MaxOutstanding
        <4>1. Cardinality(Pending(u)') <= MaxOutstanding
          BY <2>10, <2>11, <2>13, LimitIsNumber
        <4> QED BY <2>6, <2>12, <4>1 DEF JobsInv
      <3>2. \A i, j \in jobs' : i.key = j.key /\ Owner[i.machine] = Owner[j.machine] => i = j
        BY <2>3, <2>4, <2>5, <2>6, <2>7 DEF JobsInv
      <3> QED BY <3>1, <3>2 DEF JobsInv
    <2> DEFINE o == [NoCall EXCEPT !.pc = "over"]
    <2>15. /\ o \in ActiveCall \cup IdleCall /\ CallInv(c, o)' /\ o.pc = "over"
           /\ calls' = [calls EXCEPT ![c] = o]
      BY <2>5, OverHolds DEF Ends
    <2> HIDE DEF o
    <2>16. LocksExclude' /\ \A l \in locks : l.call # c => l \in locks'
      BY <2>5, <2>6, LocksFreed DEF Ends
    <2>17. AdmissionType'
      <3>1. IsFiniteSet(jobs')
        BY <2>5, <2>6, FS_AddElement DEF AdmissionType
      <3> QED BY <2>4, <2>5, <2>6, <2>15, <3>1 DEF AdmissionType
    <2>18. /\ calls'[c] = o /\ \A d \in Calls \ {c} : calls'[d] = calls[d]
      BY <2>6, <2>15 DEF AdmissionType
    <2>19. CallsInv'
      <3> SUFFICES ASSUME NEW d \in Calls, NEW r \in ActiveCall \cup IdleCall, r = calls'[d]
                   PROVE  CallInv(d, r)'
        BY DEF CallsInv
      <3>1. CASE d = c
        <4>1. r = o
          BY <2>18, <3>1
        <4> QED BY <2>15, <3>1, <4>1
      <3>2. CASE d # c
        <4>1. r = calls[d] /\ CallInv(d, r)
          BY <2>6, <2>18, <3>2 DEF CallsInv
        <4>2. \A l \in locks : l.call = d => l \in locks'
          BY <2>16, <3>2
        <4>3. Has(d, AdmissionOf(Owner[r.machine]), "update") => Owner[r.machine] # u
          BY <2>6, <2>10, <3>2, UpdateIsAlone
        <4>4. UNCHANGED <<users, machines, tokens>>
          BY <2>5
        <4> QED BY <2>12, <4>1, <4>2, <4>3, <4>4, CallKept
      <3> QED BY <3>1, <3>2
    <2>20. MachinesInv'
      BY <2>5, <2>6 DEF MachinesInv
    <2>21. TokensInv'
      <3>1. \A d \in Calls : calls[d].pc = "over" => calls'[d].pc = "over"
        BY <2>15, <2>18
      <3> QED BY <2>5, <2>6, <3>1 DEF TokensInv
    <2> QED BY <2>14, <2>16, <2>17, <2>19, <2>20, <2>21 DEF AdmissionInv
  <1> QED BY <1>3, <1>4

-----------------------------------------------------------------------------
(* Beside the calls. *)

\* What is changed beside the calls, unlocked, is read by none of them.
LEMMA BesideCalls ==
  ASSUME AdmissionInv, UNCHANGED <<calls, locks>>,
         \A m \in Machines : machines'[m].state = machines[m].state
           /\ (machines'[m].enabled = machines[m].enabled \/ Unlocked(m)),
         \A u \in Users : users'[u] = users[u] \/ Unlocked(u),
         \A t \in Tokens : tokens'[t].state = tokens[t].state
                           /\ tokens'[t].machine = tokens[t].machine,
         \A u \in Users : Cardinality(Pending(u)) < MaxOutstanding =>
                          Cardinality(Pending(u)') < MaxOutstanding
  PROVE  CallsInv' /\ LocksExclude'
  <1>1. LocksExclude'
    BY DEF AdmissionInv, LocksExclude
  <1> SUFFICES ASSUME NEW d \in Calls, NEW r \in ActiveCall \cup IdleCall, r = calls'[d]
               PROVE  CallInv(d, r)'
    BY <1>1 DEF CallsInv
  <1>2. r = calls[d] /\ CallInv(d, r)
    BY DEF AdmissionInv, CallsInv
  <1>3. CASE r \in IdleCall
    BY <1>3 DEF CallInv, IdleCall, NoCall
  <1>4. CASE r \in ActiveCall
    <2>1. r.machine \in Machines /\ Owner[r.machine] \in Users
      BY <1>4, MachinesHaveOwners DEF ActiveCall
    <2>2. \A row, mode : Has(d, row, mode) => ~Unlocked(row)
      BY DEF Has, Unlocked
    <2>3. \A l \in locks : l \in locks'
      OBVIOUS
    <2>4. /\ machines'[r.machine].state = machines[r.machine].state
          /\ machines'[r.machine].enabled = machines[r.machine].enabled \/ Unlocked(r.machine)
          /\ users'[Owner[r.machine]] = users[Owner[r.machine]] \/ Unlocked(Owner[r.machine])
      BY <2>1
    <2> QED BY <1>2, <2>2, <2>3, <2>4, CallKept
  <1> QED BY <1>3, <1>4

\* Settings and the clock.
LEMMA SettingsKeep ==
  ASSUME AdmissionInv,
         \/ \E u \in Users : patch_user(u)
         \/ \E m \in Machines : update(m)
         \/ \E t \in Tokens : expires(t)
  PROVE  AdmissionInv'
  <1>1. AdmissionType /\ TokensInv /\ MachinesInv /\ JobsInv
    BY DEF AdmissionInv
  <1>2. UNCHANGED <<jobs, calls, locks>> /\ \A u : Pending(u)' = Pending(u)
    BY DEF patch_user, update, expires, Edits, Pending
  <1>3. /\ machines' \in [Machines -> MachineRow]
        /\ \A m \in Machines : /\ machines'[m].state = machines[m].state
                               /\ machines'[m].credential = machines[m].credential
                               /\ machines'[m].enabled = machines[m].enabled \/ Unlocked(m)
    <2>1. CASE \E m \in Machines : update(m)
      <3>1. PICK m \in Machines : update(m)
        BY <2>1
      <3>2. PICK row : row = [machines[m] EXCEPT !.enabled = ~@]
        OBVIOUS
      <3>3. machines[m] \in MachineRow /\ machines' = [machines EXCEPT ![m] = row] /\ Unlocked(m)
        BY <1>1, <3>1, <3>2 DEF update, AdmissionType
      <3>4. /\ row \in MachineRow /\ row.state = machines[m].state
            /\ row.credential = machines[m].credential
        BY <3>2, <3>3 DEF MachineRow
      <3> QED BY <1>1, <3>3, <3>4 DEF AdmissionType
    <2>2. CASE UNCHANGED machines
      BY <1>1, <2>2 DEF AdmissionType
    <2> QED BY <2>1, <2>2 DEF patch_user, expires
  <1>4. /\ users' \in [Users -> BOOLEAN]
        /\ \A u \in Users : users'[u] = users[u] \/ Unlocked(u)
    BY <1>1 DEF patch_user, update, expires, AdmissionType
  <1>5. /\ tokens' \in [Tokens -> TokenRow]
        /\ \A t \in Tokens : /\ tokens'[t].state = tokens[t].state
                             /\ tokens'[t].machine = tokens[t].machine
                             /\ tokens'[t].uses = tokens[t].uses
    <2>1. CASE \E t \in Tokens : expires(t)
      <3>1. PICK t \in Tokens : expires(t)
        BY <2>1
      <3>2. PICK row : row = [tokens[t] EXCEPT !.expired = TRUE]
        OBVIOUS
      <3>3. tokens[t] \in TokenRow /\ tokens' = [tokens EXCEPT ![t] = row]
        BY <1>1, <3>1, <3>2 DEF expires, AdmissionType
      <3>4. /\ row \in TokenRow /\ row.state = tokens[t].state
            /\ row.machine = tokens[t].machine /\ row.uses = tokens[t].uses
        BY <3>2, <3>3 DEF TokenRow
      <3> QED BY <1>1, <3>3, <3>4 DEF AdmissionType
    <2>2. CASE UNCHANGED tokens
      BY <1>1, <2>2 DEF AdmissionType
    <2> QED BY <2>1, <2>2 DEF patch_user, update
  <1>6. CallsInv' /\ LocksExclude'
    BY <1>2, <1>3, <1>4, <1>5, BesideCalls
  <1>7. AdmissionType'
    BY <1>1, <1>2, <1>3, <1>4, <1>5 DEF AdmissionType
  <1>8. JobsInv' /\ MachinesInv'
    BY <1>1, <1>2, <1>3 DEF JobsInv, MachinesInv
  <1>9. TokensInv'
    BY <1>1, <1>2, <1>3, <1>5 DEF TokensInv
  <1> QED BY <1>6, <1>7, <1>8, <1>9 DEF AdmissionInv

\* The end of a job.
LEMMA JobEndKeeps ==
  ASSUME AdmissionInv, NEW j \in jobs, jobEnds(j)
  PROVE  AdmissionInv'
  <1>1. AdmissionType /\ TokensInv /\ MachinesInv /\ JobsInv /\ j \in JobRow
    BY DEF AdmissionInv, AdmissionType
  <1>2. PICK o \in JobRow : o = [j EXCEPT !.outstanding = FALSE]
    BY <1>1 DEF JobRow
  <1>3. o.key = j.key /\ o.machine = j.machine /\ ~o.outstanding
    BY <1>1, <1>2 DEF JobRow
  <1>4. jobs' = (jobs \ {j}) \cup {o} /\ UNCHANGED <<users, machines, tokens, calls, locks>>
    BY <1>2 DEF jobEnds, Edits
  <1>5. IsFiniteSet(jobs') /\ jobs' \subseteq JobRow
    <2>1. IsFiniteSet(jobs \ {j})
      BY <1>1, FS_Subset DEF AdmissionType
    <2> QED BY <1>1, <1>4, <2>1, FS_AddElement DEF AdmissionType
  <1>6. ASSUME NEW u \in Users
        PROVE  Cardinality(Pending(u)') <= Cardinality(Pending(u))
               /\ Cardinality(Pending(u)') \in Nat /\ Cardinality(Pending(u)) \in Nat
    <2>1. Pending(u)' \subseteq Pending(u)
      BY <1>3, <1>4 DEF Pending
    <2> QED BY <1>1, <2>1, PendingFinite, FS_Subset, FS_CardinalityType
  <1>7. CallsInv' /\ LocksExclude'
    <2>1. \A u \in Users : Cardinality(Pending(u)) < MaxOutstanding =>
                           Cardinality(Pending(u)') < MaxOutstanding
      BY <1>6, LimitIsNumber
    <2> QED BY <1>4, <2>1, BesideCalls
  <1>8. JobsInv'
    <2>1. \A u \in Users : Cardinality(Pending(u)') <= MaxOutstanding
      BY <1>1, <1>6, LimitIsNumber DEF JobsInv
    <2>2. \A i, k \in jobs' : i.key = k.key /\ Owner[i.machine] = Owner[k.machine] => i = k
      BY <1>1, <1>3, <1>4 DEF JobsInv
    <2> QED BY <2>1, <2>2 DEF JobsInv
  <1>9. AdmissionType' /\ MachinesInv' /\ TokensInv'
    BY <1>1, <1>4, <1>5 DEF AdmissionType, MachinesInv, TokensInv
  <1> QED BY <1>7, <1>8, <1>9 DEF AdmissionInv

\* AdmissionInv is inductive.
LEMMA AdmissionStep == AdmissionInv /\ [Next]_vars => AdmissionInv'
  <1> SUFFICES ASSUME AdmissionInv, [Next]_vars PROVE AdmissionInv'
    OBVIOUS
  <1>1. CASE UNCHANGED vars
    <2>1. UNCHANGED <<users, machines, tokens, jobs, calls, locks>>
          /\ \A u : Pending(u)' = Pending(u)
      BY <1>1 DEF vars, Pending
    <2>2. CallsInv' /\ LocksExclude'
      BY <2>1, BesideCalls
    <2> QED BY <2>1, <2>2 DEF AdmissionInv, AdmissionType, TokensInv, MachinesInv, JobsInv
  <1>2. ASSUME NEW c \in Calls, callStep(c) PROVE AdmissionInv'
    <2>1. CASE arrives(c)
      BY <2>1, ArrivesKeeps
    <2>2. CASE aborted(c)
      BY <2>2, GivenUp DEF aborted
    <2>3. CASE create(c)
      BY <2>3, CreateKeeps
    <2>4. CASE issueBegins(c) \/ registerBegins(c) \/ removeBegins(c)
      BY <2>4, WritersBegin
    <2>5. CASE issue_registration(c)
      BY <2>5, IssueKeeps
    <2>6. CASE locksUser(c)
      BY <2>6, LocksUserKeeps
    <2>7. CASE register(c)
      BY <2>7, RegisterKeeps
    <2>8. CASE remove(c)
      BY <2>8, RemoveKeeps
    <2>9. CASE submitBegins(c) \/ submitLocksMachine(c)
      BY <2>9, SubmitBegins
    <2>10. CASE submitCounts(c)
      BY <2>10, CountsKeep
    <2>11. CASE submit(c)
      BY <2>11, SubmitKeeps
    <2> QED BY <1>2, <2>1, <2>2, <2>3, <2>4, <2>5, <2>6, <2>7, <2>8, <2>9, <2>10, <2>11
         DEF callStep
  <1> QED BY <1>1, <1>2, SettingsKeep, JobEndKeeps DEF Next, quiet

\* It holds before any call.
LEMMA AdmissionInitially == Init => AdmissionInv
  <1> SUFFICES ASSUME Init PROVE AdmissionInv
    OBVIOUS
  <1>1. jobs = {} /\ locks = {} /\ \A u : Pending(u) = {}
    BY DEF Init, Pending
  <1>2. \A m \in Machines : machines[m] \in {NoMachine, Enrolled}
    BY DEF Init
  <1>3. \A t \in Tokens : /\ tokens[t].state \in {"absent", "consumed"} /\ tokens[t] \in TokenRow
                          /\ tokens[t].uses = (IF tokens[t].state = "consumed" THEN 1 ELSE 0)
                          /\ tokens[t].state # "absent" => t \in Machines /\ machines[t] = Enrolled
    <2> SUFFICES ASSUME NEW t \in Tokens
                 PROVE  /\ tokens[t].state \in {"absent", "consumed"} /\ tokens[t] \in TokenRow
                        /\ tokens[t].uses = (IF tokens[t].state = "consumed" THEN 1 ELSE 0)
                        /\ tokens[t].state # "absent" => t \in Machines /\ machines[t] = Enrolled
      OBVIOUS
    <2>0. tokens[t] = IF t \in Machines /\ machines[t] = Enrolled
                      THEN [NoToken EXCEPT !.state = "consumed", !.machine = t, !.uses = 1]
                      ELSE NoToken
      BY Zenon DEF Init
    <2>1. CASE t \in Machines /\ machines[t] = Enrolled
      <3>1. tokens[t] = [NoToken EXCEPT !.state = "consumed", !.machine = t, !.uses = 1]
        BY <2>0, <2>1
      <3> DEFINE row == [NoToken EXCEPT !.state = "consumed", !.machine = t, !.uses = 1]
      <3>2. row \in TokenRow /\ row.state = "consumed" /\ row.uses = 1
        BY <2>1 DEF NoToken, TokenRow
      <3> HIDE DEF row
      <3>3. tokens[t] = row
        BY <3>1 DEF row
      <3> QED BY <2>1, <3>2, <3>3
    <2>2. CASE ~(t \in Machines /\ machines[t] = Enrolled)
      <3>1. tokens[t] = NoToken
        BY <2>0, <2>2
      <3> QED BY <3>1 DEF NoToken, TokenRow
    <2> QED BY <2>1, <2>2
  <1>4. AdmissionType
    <2>1. users \in [Users -> BOOLEAN] /\ calls \in [Calls -> ActiveCall \cup IdleCall]
      BY DEF Init, IdleCall
    <2>2. NoMachine \in MachineRow /\ Enrolled \in MachineRow
      BY DEF NoMachine, Enrolled, MachineRow
    <2>3. machines \in [Machines -> MachineRow] /\ tokens \in [Tokens -> TokenRow]
      BY <1>3, <2>2 DEF Init
    <2> QED BY <1>1, <2>1, <2>3, FS_EmptySet DEF AdmissionType
  <1>5. LocksExclude /\ JobsInv
    <2>1. Cardinality({}) <= MaxOutstanding
      BY FS_EmptySet, LimitIsNumber
    <2>2. \A u \in Users : Cardinality(Pending(u)) <= MaxOutstanding
      BY <1>1, <2>1
    <2> QED BY <1>1, <2>2 DEF LocksExclude, JobsInv
  <1>6. CallsInv
    <2>1. NoCall.pc = "new"
      BY DEF NoCall
    <2>2. \A c \in Calls : calls[c].pc = "new"
      BY <2>1 DEF Init
    <2> QED BY <2>2 DEF CallsInv, CallInv
  <1>7. MachinesInv
    BY <1>2 DEF MachinesInv, NoMachine, Enrolled
  <1>8. TokensInv
    BY <1>3, MachinesHaveOwners DEF TokensInv, Enrolled
  <1> QED BY <1>4, <1>5, <1>6, <1>7, <1>8 DEF AdmissionInv

\* It holds in every reachable state.
LEMMA AdmissionInvariant == Spec => []AdmissionInv
  BY AdmissionInitially, AdmissionStep, PTL DEF Spec

-----------------------------------------------------------------------------
(* The theorems. *)

\* Under the locks of the machine, the advisory lock of the user and the check of
\* the key at the insertion: one token to redeem and only once, nothing left of a
\* removed machine, one job for a key, no more jobs than the limit.
THEOREM NothingTwice == Spec => []OneOfEach
  <1>1. AdmissionInv => OneOfEach
    <2> SUFFICES ASSUME AdmissionInv PROVE OneOfEach
      OBVIOUS
    <2>1. TokensInv /\ MachinesInv /\ JobsInv /\ AdmissionType
      BY DEF AdmissionInv
    <2>2. ASSUME NEW m \in Machines PROVE Cardinality(Outstanding(m)) <= 1
      <3>1. CASE Outstanding(m) = {}
        BY <3>1, FS_EmptySet
      <3>2. CASE Outstanding(m) # {}
        <4>1. PICK t \in Tokens : t \in Outstanding(m)
          BY <3>2 DEF Outstanding
        <4>2. Outstanding(m) = {t}
          BY <2>1, <4>1 DEF Outstanding, TokensInv
        <4> QED BY <4>2, FS_Singleton
      <3> QED BY <3>1, <3>2
    <2>3. ASSUME NEW m \in Machines, machines[m].state = "removed"
          PROVE  Outstanding(m) = {} /\ machines[m].credential = "none"
      <3>1. Outstanding(m) = {}
        BY <2>1, <2>3 DEF Outstanding, TokensInv
      <3> QED BY <2>1, <2>3, <3>1 DEF MachinesInv
    <2>4. \A t \in Tokens : tokens[t].uses = (IF tokens[t].state = "consumed" THEN 1 ELSE 0)
      BY <2>1 DEF TokensInv
    <2> QED BY <2>1, <2>2, <2>3, <2>4 DEF OneOfEach, JobsInv
  <1> QED BY <1>1, AdmissionInvariant, PTL

\* What GrantedWhileAllowed says of a step.
Granted ==
  /\ \A m \in Machines : machines'[m].credential \notin {machines[m].credential, "none"}
       => Usable(m) /\ users[Owner[m]]
  /\ \A t \in Calls : tokens[t].state = "absent" /\ tokens'[t].state # "absent"
       => Usable(tokens'[t].machine)
  /\ \A j \in jobs' : (\A i \in jobs : i.by # j.by)
       => Usable(j.machine) /\ users[Owner[j.machine]]

\* Where nothing is written, nothing is granted.
LEMMA NothingGranted ==
  ASSUME UNCHANGED <<machines, tokens, jobs>>
  PROVE  Granted
  BY DEF Granted

\* What a call has seen when it commits.
LEMMA CallSaw ==
  ASSUME AdmissionInv, NEW c \in Calls, calls[c].pc \notin {"new", "over"},
         NEW m, m = calls[c].machine
  PROVE  /\ At(c, "issue_registration", "machine") => Usable(m)
         /\ At(c, "register", "user") => Usable(m) /\ users[Owner[m]]
         /\ At(c, "submit", "counted") => Usable(m) /\ users[Owner[m]]
  <1>1. CallInv(c, calls[c])
    BY UnderWay
  <1>2. ASSUME At(c, "issue_registration", "machine") PROVE Usable(m)
    BY <1>1, <1>2 DEF At, CallInv, WriterInv, Usable, Present
  <1>3. ASSUME At(c, "register", "user") PROVE Usable(m) /\ users[Owner[m]]
    BY <1>1, <1>3 DEF At, CallInv, WriterInv, Allowed, Usable, Present
  <1>4. ASSUME At(c, "submit", "counted") PROVE Usable(m) /\ users[Owner[m]]
    BY <1>1, <1>4 DEF At, CallInv, SubmitInv, Allowed, Usable, Present
  <1> QED BY <1>2, <1>3, <1>4

\* Nothing is granted by a step that the settings, as they are then, forbid.
LEMMA StepGranted == AdmissionInv /\ [Next]_vars => [Granted]_vars
  <1> SUFFICES ASSUME AdmissionInv, Next PROVE Granted
    <2>1. AdmissionInv /\ Next => Granted
      OBVIOUS
    <2> QED BY <2>1
  <1>0. AdmissionType /\ TokensInv
    BY DEF AdmissionInv
  <1>1. ASSUME NEW c \in Calls, callStep(c) PROVE Granted
    <2>1. CASE UNCHANGED rows
      BY <2>1, NothingGranted DEF rows
    <2>2. CASE ~UNCHANGED rows
      <3>1. \/ create(c) /\ ~Refused(c)
            \/ issue_registration(c)
            \/ register(c) /\ ~Refused(c)
            \/ remove(c) /\ ~Refused(c)
            \/ submit(c) /\ ~Refused(c)
        BY <1>1, <2>2 DEF callStep, arrives, aborted, create, issueBegins, registerBegins,
           locksUser, register, removeBegins, remove, submitBegins, submitLocksMachine,
           submitCounts, submit, LocksMachine, Refused
      <3>2. calls[c].pc \notin {"new", "over"}
        BY <3>1 DEF create, issue_registration, register, remove, submit, At
      <3>3. calls[c] \in ActiveCall
        BY <3>2, UnderWay
      <3>4. PICK m \in Machines : m = calls[c].machine
        BY <3>3 DEF ActiveCall
      <3>5. CASE create(c) /\ ~Refused(c)
        <4>1. /\ machines' = [machines EXCEPT ![m] = [NoMachine EXCEPT !.state = "present"]]
              /\ tokens' = registration(m, m, {}) /\ UNCHANGED <<users, jobs>>
          BY <3>4, <3>5 DEF create
        <4>2. \A n \in Machines : machines'[n].credential \in {machines[n].credential, "none"}
          BY <1>0, <4>1 DEF AdmissionType, NoMachine
        <4>3. \A t \in Calls : tokens'[t] = tokens[t]
          BY <4>1, MachinesHaveOwners DEF registration, Without, Tokens
        <4> QED BY <4>1, <4>2, <4>3 DEF Granted
      <3>6. CASE issue_registration(c)
        <4>1. PICK unused \in SUBSET Tokens : unused = calls[c].found
          BY <3>3 DEF ActiveCall
        <4>2. tokens' = registration(m, c, unused) /\ UNCHANGED <<users, machines, jobs>>
          BY <3>4, <3>6, <4>1 DEF issue_registration
        <4>3. Usable(m)
          BY <3>2, <3>4, <3>6, CallSaw DEF issue_registration
        <4>4. WriterInv(c, calls[c])
          BY <3>2, <3>6, UnderWay DEF issue_registration, At, CallInv
        <4>5. /\ \A t \in Tokens : t \in unused <=>
                   tokens[t].machine = m /\ tokens[t].state = "outstanding"
              /\ c \in Tokens /\ tokens[c].state = "absent"
          BY <1>0, <3>2, <3>4, <4>1, <4>4 DEF WriterInv, Tokens, TokensInv
        <4>6. /\ tokens'[c].machine = m
              /\ \A t \in Tokens \ {c} :
                   /\ t \notin unused => tokens'[t] = tokens[t]
                   /\ t \in unused => tokens[t].state # "absent"
          BY <1>0, <4>2, <4>5, Reissued
        <4>7. \A t \in Calls : tokens[t].state = "absent" /\ tokens'[t].state # "absent"
                => tokens'[t].machine = m
          BY <4>6 DEF Tokens
        <4> QED BY <4>2, <4>3, <4>7 DEF Granted
      <3>7. CASE register(c) /\ ~Refused(c)
        <4>1. PICK t : t = calls[c].token
          OBVIOUS
        <4>2. /\ t \in calls[c].found
              /\ tokens' = [tokens EXCEPT ![t].state = "consumed", ![t].uses = @ + 1]
              /\ machines' = [machines EXCEPT ![m].credential = c, ![m].version = @ + 1]
              /\ UNCHANGED <<users, jobs>>
          BY <3>4, <3>7, <4>1 DEF register
        <4>3. Usable(m) /\ users[Owner[m]]
          BY <3>2, <3>4, <3>7, CallSaw DEF register
        <4>4. \A n \in Machines \ {m} : machines'[n] = machines[n]
          BY <1>0, <4>2 DEF AdmissionType
        <4>5. WriterInv(c, calls[c])
          BY <3>2, <3>7, UnderWay DEF register, At, CallInv
        <4>6. tokens[t].state = "outstanding" /\ t \in Tokens
          BY <3>3, <4>2, <4>5 DEF WriterInv, ActiveCall
        <4>7. \A s \in Calls : tokens[s].state = "absent" => tokens'[s] = tokens[s]
          BY <1>0, <4>2, <4>6 DEF AdmissionType, Tokens
        <4> QED BY <4>2, <4>3, <4>4, <4>7 DEF Granted
      <3>8. CASE remove(c) /\ ~Refused(c)
        <4>1. PICK found \in SUBSET Tokens : found = calls[c].found
          BY <3>3 DEF ActiveCall
        <4>2. /\ machines' = [machines EXCEPT ![m] = [state |-> "removed", enabled |-> FALSE,
                                version |-> @.version + 1, credential |-> "none"]]
              /\ tokens' = Without(found) /\ UNCHANGED <<users, jobs>>
          BY <3>4, <3>8, <4>1 DEF remove
        <4>3. \A n \in Machines : machines'[n].credential \in {machines[n].credential, "none"}
          BY <1>0, <4>2 DEF AdmissionType
        <4>4. WriterInv(c, calls[c])
          BY <3>2, <3>8, UnderWay DEF remove, At, CallInv
        <4>5. \A t \in found : tokens[t].state = "outstanding"
          BY <4>1, <4>4 DEF WriterInv
        <4>6. \A t \in Calls : tokens[t].state = "absent" => tokens'[t] = tokens[t]
          BY <1>0, <4>2, <4>5, WithoutTokens DEF AdmissionType, Tokens
        <4> QED BY <4>2, <4>3, <4>6 DEF Granted
      <3>9. CASE submit(c) /\ ~Refused(c)
        <4>1. PICK key : key = calls[c].key
          OBVIOUS
        <4> DEFINE row == [by |-> c, machine |-> m, key |-> key, outstanding |-> TRUE]
        <4>2. jobs' = jobs \cup {row} /\ UNCHANGED <<users, machines, tokens>>
          BY <3>4, <3>9, <4>1 DEF submit
        <4>3. Usable(m) /\ users[Owner[m]]
          BY <3>2, <3>4, <3>9, CallSaw DEF submit
        <4>4. row.machine = m
          OBVIOUS
        <4> HIDE DEF row
        <4>5. \A j \in jobs' : (\A i \in jobs : i.by # j.by) => j = row
          BY <4>2
        <4> QED BY <4>2, <4>3, <4>4, <4>5 DEF Granted
      <3> QED BY <3>1, <3>5, <3>6, <3>7, <3>8, <3>9
    <2> QED BY <2>1, <2>2
  <1>2. ASSUME NEW u \in Users, patch_user(u) PROVE Granted
    BY <1>2, NothingGranted DEF patch_user
  <1>3. ASSUME NEW m \in Machines, update(m) PROVE Granted
    <2>1. UNCHANGED <<tokens, jobs>>
          /\ \A n \in Machines : machines'[n].credential = machines[n].credential
      <3>1. PICK row : row = [machines[m] EXCEPT !.enabled = ~@]
        OBVIOUS
      <3>2. machines[m] \in MachineRow /\ machines' = [machines EXCEPT ![m] = row]
            /\ UNCHANGED <<tokens, jobs>>
        BY <1>0, <1>3, <3>1 DEF update, AdmissionType
      <3>3. row.credential = machines[m].credential
        BY <3>1, <3>2 DEF MachineRow
      <3> QED BY <1>0, <3>2, <3>3 DEF AdmissionType
    <2> QED BY <2>1 DEF Granted
  <1>4. ASSUME NEW t \in Tokens, expires(t) PROVE Granted
    <2>1. UNCHANGED <<machines, jobs>> /\ \A s \in Calls : tokens'[s].state = tokens[s].state
      <3>1. PICK row : row = [tokens[t] EXCEPT !.expired = TRUE]
        OBVIOUS
      <3>2. tokens[t] \in TokenRow /\ tokens' = [tokens EXCEPT ![t] = row]
            /\ UNCHANGED <<machines, jobs>>
        BY <1>0, <1>4, <3>1 DEF expires, AdmissionType
      <3>3. row.state = tokens[t].state
        BY <3>1, <3>2 DEF TokenRow
      <3> QED BY <1>0, <3>2, <3>3 DEF AdmissionType, Tokens
    <2> QED BY <2>1 DEF Granted
  <1>5. ASSUME NEW j \in jobs, jobEnds(j) PROVE Granted
    <2>1. j \in JobRow
      BY <1>0 DEF AdmissionType
    <2>2. PICK o : o = [j EXCEPT !.outstanding = FALSE]
      OBVIOUS
    <2>3. o.by = j.by /\ jobs' = (jobs \ {j}) \cup {o} /\ UNCHANGED <<machines, tokens>>
      BY <1>5, <2>1, <2>2 DEF JobRow, jobEnds
    <2>4. \A i \in jobs' : \E k \in jobs : k.by = i.by
      BY <2>3
    <2> QED BY <2>3, <2>4 DEF Granted
  <1>6. ASSUME quiet PROVE Granted
    BY <1>6, NothingGranted DEF quiet, vars
  <1> QED BY <1>1, <1>2, <1>3, <1>4, <1>5, <1>6 DEF Next

\* A credential, a token and a job are granted only while the machine and its user
\* are enabled, though a setting may be changed between any two reads of the call:
\* the rows read are locked to the commit.
THEOREM NothingOverrun == Spec => GrantedWhileAllowed
  <1>1. Spec => [][Granted]_vars
    BY AdmissionInvariant, StepGranted, PTL DEF Spec
  <1> QED BY <1>1 DEF GrantedWhileAllowed, Granted
=============================================================================
