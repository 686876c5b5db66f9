------------------------------ MODULE Admission ------------------------------
(***************************************************************************)
(* The calls that let a machine or a job in, or shut it out (machines.rs,  *)
(* users.rs, jobs.rs submit), as the transactions they are: each takes its *)
(* row locks one after another, reads under them, and writes at its commit. *)
(*                                                                         *)
(* Writes of a transaction are seen by nobody before the commit and every  *)
(* row it writes is locked by then, so that a commit is one step.  What a  *)
(* call tells the connections of the machine after the commit is in        *)
(* JobDispatch.                                                            *)
(***************************************************************************)
EXTENDS Integers, FiniteSets

CONSTANTS
  Users, Machines,
  Owner,          \* Machines -> Users
  Calls,          \* the requests of users and hosts
  Ops,            \* the operations they ask for
  Keys,           \* idempotency keys
  MaxOutstanding, \* jobs of a user: 256
  MaxEdits,       \* settings changed and jobs ended
  MaxAborts       \* transactions that end before their commit

ASSUME MachinesHaveOwners ==
  /\ Owner \in [Machines -> Users] /\ Calls \cap Machines = {}
  /\ Ops \subseteq {"create", "issue_registration", "register", "remove", "submit"}
ASSUME LimitIsNumber == MaxOutstanding \in Nat

\* A registration token is named after the call that issued it, that of create
\* after the machine.
Tokens == Calls \cup Machines

VARIABLES
  users,     \* Users -> enabled
  machines,  \* Machines -> the row
  tokens,    \* Tokens -> the row
  jobs,      \* the rows, each named after the call that admitted it
  calls, locks,
  edits, aborts

vars == <<users, machines, tokens, jobs, calls, locks, edits, aborts>>
rows == <<users, machines, tokens, jobs>>

NoMachine == [state |-> "absent", enabled |-> TRUE, version |-> 0, credential |-> "none"]
Enrolled == [state |-> "present", enabled |-> TRUE, version |-> 1, credential |-> "first"]
NoToken == [state |-> "absent", expired |-> FALSE, machine |-> "none", uses |-> 0]
NoCall == [pc |-> "new", op |-> "none", machine |-> "none", token |-> "none",
           key |-> "none", found |-> {}]

Present(m) == machines[m].state = "present"
Usable(m) == Present(m) /\ machines[m].enabled
OwnerOf(c) == Owner[calls[c].machine]
Pending(u) == {j \in jobs : Owner[j.machine] = u /\ j.outstanding}
WithKey(u, key) == {j \in jobs : Owner[j.machine] = u /\ j.key = key}

-----------------------------------------------------------------------------
(* Locks: FOR UPDATE and FOR SHARE of a row, and the advisory lock of a user. *)

AdmissionOf(u) == <<"admission", u>>

MayLock(c, row, mode) ==
  \A l \in locks : l.row = row /\ l.call # c => l.mode = "share" /\ mode = "share"

Locks(c, row, mode) ==
  /\ MayLock(c, row, mode)
  /\ locks' = locks \cup {[row |-> row, call |-> c, mode |-> mode]}

\* Nobody holds the row: an UPDATE outside of the transactions below.
Unlocked(row) == \A l \in locks : l.row # row

At(c, op, pc) == calls[c].op = op /\ calls[c].pc = pc

\* The end of a transaction, by commit or rollback.
Ends(c) ==
  /\ calls' = [calls EXCEPT ![c] = [NoCall EXCEPT !.pc = "over"]]
  /\ locks' = {l \in locks : l.call # c}
  /\ UNCHANGED <<edits, aborts>>

Refused(c) == Ends(c) /\ UNCHANGED rows

-----------------------------------------------------------------------------
(* Arrival. *)

\* user_auth: the user is enabled when the call comes, and may not be later.
\* A host is known by its token only.
arrives(c) ==
  /\ calls[c].pc = "new"
  /\ \E op \in Ops, m \in Machines, t \in Tokens \cup {"none"},
        key \in Keys \cup {"none"} :
       /\ IF op = "register" THEN t # "none" /\ tokens[t].machine = m
          ELSE t = "none" /\ users[Owner[m]]
       /\ (op = "submit") <=> (key # "none")
       /\ op = "create" <=> machines[m].state = "absent"
       /\ calls' = [calls EXCEPT ![c] = [pc |-> "arrived", op |-> op, machine |-> m,
                                         token |-> t, key |-> key, found |-> {}]]
  /\ UNCHANGED <<rows, locks, edits, aborts>>

\* The request is dropped, or the gateway stops, before the commit.
aborted(c) ==
  /\ calls[c].pc \notin {"new", "over"} /\ aborts < MaxAborts
  /\ aborts' = aborts + 1
  /\ calls' = [calls EXCEPT ![c] = [NoCall EXCEPT !.pc = "over"]]
  /\ locks' = {l \in locks : l.call # c}
  /\ UNCHANGED <<rows, edits>>

-----------------------------------------------------------------------------
(* Machines. *)

Outstanding(m) == {t \in Tokens : tokens[t].machine = m /\ tokens[t].state = "outstanding"}

\* The tokens once those of a set are revoked.
Without(revoked) ==
  [t \in Tokens |-> IF t \in revoked THEN [tokens[t] EXCEPT !.state = "revoked"]
                    ELSE tokens[t]]

\* registration: the tokens found unused are revoked, and a new one is issued.
registration(m, new, unused) ==
  [Without(unused) EXCEPT ![new] = [NoToken EXCEPT !.state = "outstanding", !.machine = m]]

\* A new machine's id is new: only one call creates it.
create(c) ==
  /\ At(c, "create", "arrived")
  /\ LET m == calls[c].machine
     IN  IF machines[m].state = "absent"
         THEN /\ machines' = [machines EXCEPT ![m] = [NoMachine EXCEPT !.state = "present"]]
              /\ tokens' = registration(m, m, {}) /\ UNCHANGED <<users, jobs>> /\ Ends(c)
         ELSE Refused(c)

\* FOR UPDATE of the machine, and what the statements after it find, which
\* cannot change while the lock is held.
LocksMachine(c, mode) ==
  /\ Locks(c, calls[c].machine, mode)
  /\ calls' = [calls EXCEPT ![c].pc = "machine",
                            ![c].found = Outstanding(calls[c].machine)]
  /\ UNCHANGED <<rows, edits, aborts>>

\* Faulty variant: the machine is read without a lock.
issueBeginsUnlocked(c) ==
  /\ At(c, "issue_registration", "arrived")
  /\ IF Usable(calls[c].machine)
     THEN /\ calls' = [calls EXCEPT ![c].pc = "machine",
                                    ![c].found = Outstanding(calls[c].machine)]
          /\ UNCHANGED <<rows, locks, edits, aborts>>
     ELSE Refused(c)

\* issue_registration: a machine that is there and enabled.
issueBegins(c) ==
  /\ At(c, "issue_registration", "arrived") /\ MayLock(c, calls[c].machine, "update")
  /\ IF Usable(calls[c].machine) THEN LocksMachine(c, "update") ELSE Refused(c)

issue_registration(c) ==
  /\ At(c, "issue_registration", "machine")
  /\ tokens' = registration(calls[c].machine, c, calls[c].found)
  /\ UNCHANGED <<users, machines, jobs>> /\ Ends(c)

\* register locks the machine, then its user, and gives the host a credential
\* for a token that is neither used, revoked nor late.
registerBegins(c) ==
  /\ At(c, "register", "arrived") /\ MayLock(c, calls[c].machine, "update")
  /\ IF Present(calls[c].machine) THEN LocksMachine(c, "update") ELSE Refused(c)

\* Faulty variant: the user is read without a lock.
LocksUserNot(c) == UNCHANGED locks

LocksUser(c) == Locks(c, OwnerOf(c), "share")

locksUser(c) ==
  /\ calls[c].op \in {"register", "submit"} /\ calls[c].pc = "machine"
  /\ MayLock(c, OwnerOf(c), "share")
  /\ IF users[OwnerOf(c)] /\ machines[calls[c].machine].enabled
     THEN /\ LocksUser(c) /\ calls' = [calls EXCEPT ![c].pc = "user"]
          /\ UNCHANGED <<rows, edits, aborts>>
     ELSE Refused(c)

register(c) ==
  /\ At(c, "register", "user")
  /\ LET m == calls[c].machine
         t == calls[c].token
     IN  IF t \in calls[c].found /\ ~tokens[t].expired
         THEN /\ tokens' = [tokens EXCEPT ![t].state = "consumed", ![t].uses = @ + 1]
              /\ machines' = [machines EXCEPT ![m].credential = c, ![m].version = @ + 1]
              /\ UNCHANGED <<users, jobs>> /\ Ends(c)
         ELSE Refused(c)

\* remove: for good, and again without an effect.
removeBegins(c) ==
  /\ At(c, "remove", "arrived") /\ LocksMachine(c, "update")

remove(c) ==
  /\ At(c, "remove", "machine")
  /\ LET m == calls[c].machine
     IN  IF Present(m)
         THEN /\ machines' = [machines EXCEPT ![m] = [state |-> "removed", enabled |-> FALSE,
                                version |-> @.version + 1, credential |-> "none"]]
              /\ tokens' = Without(calls[c].found) /\ UNCHANGED <<users, jobs>> /\ Ends(c)
         ELSE Refused(c)

-----------------------------------------------------------------------------
(* Jobs: submit. *)

\* The advisory lock, under which the key is looked up: a known one is answered
\* with its job, or with a conflict.
submitBegins(c) ==
  /\ At(c, "submit", "arrived") /\ MayLock(c, AdmissionOf(OwnerOf(c)), "update")
  /\ IF WithKey(OwnerOf(c), calls[c].key) = {}
     THEN /\ Locks(c, AdmissionOf(OwnerOf(c)), "update")
          /\ calls' = [calls EXCEPT ![c].pc = "admission"]
          /\ UNCHANGED <<rows, edits, aborts>>
     ELSE Refused(c)

submitLocksMachine(c) ==
  /\ At(c, "submit", "admission") /\ MayLock(c, calls[c].machine, "share")
  /\ IF Present(calls[c].machine) THEN LocksMachine(c, "share") ELSE Refused(c)

\* The jobs outstanding are counted before the insertion.
submitCounts(c) ==
  /\ At(c, "submit", "user")
  /\ IF Cardinality(Pending(OwnerOf(c))) < MaxOutstanding
     THEN calls' = [calls EXCEPT ![c].pc = "counted"] /\ UNCHANGED <<rows, locks, edits, aborts>>
     ELSE Refused(c)

\* The key is unique in the table, and another one's row refuses the insertion.
submit(c) ==
  /\ At(c, "submit", "counted")
  /\ IF WithKey(OwnerOf(c), calls[c].key) = {}
     THEN /\ jobs' = jobs \cup {[by |-> c, machine |-> calls[c].machine,
                                 key |-> calls[c].key, outstanding |-> TRUE]}
          /\ UNCHANGED <<users, machines, tokens>> /\ Ends(c)
     ELSE Refused(c)

-----------------------------------------------------------------------------
(* What happens beside them: settings, the clock, and the end of a job. *)

Edits == edits < MaxEdits /\ edits' = edits + 1 /\ UNCHANGED <<calls, locks, aborts>>

\* patch_user
patch_user(u) ==
  /\ Edits /\ Unlocked(u) /\ users' = [users EXCEPT ![u] = ~@]
  /\ UNCHANGED <<machines, tokens, jobs>>

\* machines::update
update(m) ==
  /\ Edits /\ Unlocked(m) /\ Present(m)
  /\ machines' = [machines EXCEPT ![m].enabled = ~@] /\ UNCHANGED <<users, tokens, jobs>>

\* 15 minutes have passed.
expires(t) ==
  /\ tokens[t].state = "outstanding" /\ ~tokens[t].expired
  /\ tokens' = [tokens EXCEPT ![t].expired = TRUE]
  /\ UNCHANGED <<users, machines, jobs, calls, locks, edits, aborts>>

jobEnds(j) ==
  /\ Edits /\ j.outstanding
  /\ jobs' = (jobs \ {j}) \cup {[j EXCEPT !.outstanding = FALSE]}
  /\ UNCHANGED <<users, machines, tokens>>

-----------------------------------------------------------------------------
\* Machines that are yet to come, or enrolled with their first token.
Init ==
  /\ users = [u \in Users |-> TRUE] /\ jobs = {}
  /\ machines \in [Machines -> {NoMachine, Enrolled}]
  /\ tokens = [t \in Tokens |->
       IF t \in Machines /\ machines[t] = Enrolled
       THEN [NoToken EXCEPT !.state = "consumed", !.machine = t, !.uses = 1] ELSE NoToken]
  /\ calls = [c \in Calls |-> NoCall] /\ locks = {}
  /\ edits = 0 /\ aborts = 0

callStep(c) ==
  \/ arrives(c) \/ aborted(c) \/ create(c) \/ issueBegins(c) \/ issue_registration(c)
  \/ registerBegins(c) \/ locksUser(c) \/ register(c) \/ removeBegins(c) \/ remove(c)
  \/ submitBegins(c) \/ submitLocksMachine(c) \/ submitCounts(c) \/ submit(c)

\* No transaction is under way: none may wait for a lock for ever.
quiet == (\A c \in Calls : calls[c].pc \in {"new", "over"}) /\ UNCHANGED vars

Next ==
  \/ \E c \in Calls : callStep(c)
  \/ \E u \in Users : patch_user(u)
  \/ \E m \in Machines : update(m)
  \/ \E t \in Tokens : expires(t)
  \/ \E j \in jobs : jobEnds(j)
  \/ quiet

Spec == Init /\ [][Next]_vars

-----------------------------------------------------------------------------
\* However calls interleave, a machine has one token that can be redeemed, a
\* token is redeemed once, a removed machine keeps neither token nor credential,
\* a key admits one job, and a user's jobs stay within the limit (FOR UPDATE in
\* issue_registration, register and remove; the advisory lock of submit).
OneOfEach ==
  /\ \A m \in Machines :
       /\ Cardinality(Outstanding(m)) <= 1
       /\ machines[m].state = "removed" =>
            Outstanding(m) = {} /\ machines[m].credential = "none"
  /\ \A t \in Tokens : tokens[t].uses = (IF tokens[t].state = "consumed" THEN 1 ELSE 0)
  /\ \A i, j \in jobs : i.key = j.key /\ Owner[i.machine] = Owner[j.machine] => i = j
  /\ \A u \in Users : Cardinality(Pending(u)) <= MaxOutstanding

\* A credential, a token of an old machine and a job are granted only while the
\* machine is there and enabled, the first and the last only while its user is
\* enabled too: a setting changed during the call is not overrun by its commit
\* (FOR SHARE and FOR UPDATE in register, issue_registration and submit).
GrantedWhileAllowed ==
  [][ /\ \A m \in Machines : machines'[m].credential \notin {machines[m].credential, "none"}
           => Usable(m) /\ users[Owner[m]]
      /\ \A t \in Calls : tokens[t].state = "absent" /\ tokens'[t].state # "absent"
           => Usable(tokens'[t].machine)
      /\ \A j \in jobs' : (\A i \in jobs : i.by # j.by)
           => Usable(j.machine) /\ users[Owner[j.machine]] ]_vars
=============================================================================
