----------------------- MODULE HostInstallationProofs -----------------------
(***************************************************************************)
(* The installation of HostInstallation, for any number of invocations and *)
(* faults: the directory has one identity and the credential the gateway   *)
(* accepts, and an update that restarted the service leaves nothing old    *)
(* running.                                                                *)
(***************************************************************************)
EXTENDS HostInstallation, TLAPS

Locks == {"names", "opened", "answered", "running"}
PCs == Over \cup Locks \cup
       {"new", "opens", "inspects", "fetches", "stops", "restarts", "asked", "installs",
        "enables", "waits", "drains", "replaces"}
Names == Procs \cup {"none", "old"}

Proc == [op : Ops \cup {"none", "run"}, pc : PCs, id : Names, found : Procs \cup {"free"},
         looking : BOOLEAN, was_running : BOOLEAN, version : Nat]

Service == [installed : BOOLEAN, enabled : BOOLEAN, state : {"inactive", "active", "waiting"},
            job : Calls \cup {"none"}, again : BOOLEAN]

HostType ==
  /\ lock \in Procs \cup {"free"} /\ identity \in Names
  /\ binary \in Nat /\ service \in Service /\ procs \in [Procs -> Proc]

\* Who is at work in the directory holds its lock.
LocksHeld == \A p \in Procs : procs[p].pc \in Locks => lock = p

\* Who makes up an identity is the first to do so.
Identified ==
  \A p \in Procs :
    /\ procs[p].id \in {"none", identity}
    /\ procs[p].pc = "names" => identity = "none"

\* Whoever has an answer to store has the last that the gateway gave.
Answering(c) == At(c, "register", "answered")
Enrolled ==
  /\ \A c \in Calls : Answering(c) => gateway \in {c, "none"}
  /\ \/ credential = gateway
     \/ gateway \in lost \cup {"none"}
     \/ \E c \in Calls : gateway = c /\ Answering(c)

\* Nothing runs that was not installed, and the service only ever runs.
Restarted(c) == procs[c].op = "update" /\ procs[c].pc = "done" /\ procs[c].was_running
Versions ==
  /\ procs[Daemon].op \in {"none", "run"}
  /\ \A p \in Procs : procs[p].version <= binary
  /\ \A c \in Calls :
       Restarted(c) /\ service.state = "active" => procs[Daemon].version >= procs[c].version

HostInv == HostType /\ LocksHeld /\ Identified /\ Enrolled /\ Versions

-----------------------------------------------------------------------------
(* One process moves. *)

\* Process p becomes r: its lock, the service and the executable as they were, or
\* let go.
Moves(p, r) ==
  /\ procs' = [procs EXCEPT ![p] = r]
  /\ lock' \in {lock, Unlocked(p)} \/ (lock = "free" /\ lock' = p)
  /\ UNCHANGED <<identity, binary>>
  /\ service' \in Service /\ (service'.state = "active" => service.state = "active")

\* What it may become.
Allowed(p, r) ==
  /\ r \in Proc /\ r.version <= binary /\ ~(r.op = "update" /\ r.pc = "done" /\ r.was_running)
  /\ r.id \in {"none", identity} /\ (r.pc = "names" => identity = "none")
  /\ p = Daemon => r.op \in {"none", "run"} /\ r.version = procs[p].version

\* The names of the processes are names.
LEMMA ProcNames == Daemon \in Procs /\ Calls \subseteq Procs /\ "free" \notin Procs
                   /\ Daemon \notin Calls
  BY CommandsAreKnown DEF Procs, Daemon

\* What the move of one process changes.
LEMMA Moved ==
  ASSUME HostType, NEW p \in Procs, NEW r \in Proc, procs' = [procs EXCEPT ![p] = r]
  PROVE  /\ procs' \in [Procs -> Proc] /\ procs'[p] = r
         /\ \A q \in Procs \ {p} : procs'[q] = procs[q]
  BY DEF HostType

\* A move keeps the invariant, if it keeps the enrollment.
LEMMA MovesKeep ==
  ASSUME HostInv, NEW p \in Procs, NEW r, Moves(p, r), Allowed(p, r),
         r.pc \in Locks => lock' = p, Enrolled'
  PROVE  HostInv'
  <1>1. HostType /\ LocksHeld /\ Identified /\ Versions
    BY DEF HostInv
  <1>2. /\ procs' \in [Procs -> Proc] /\ procs'[p] = r
        /\ \A q \in Procs \ {p} : procs'[q] = procs[q]
    BY <1>1, Moved DEF Moves, Allowed
  <1>3. lock' \in Procs \cup {"free"} /\ \A q \in Procs \ {p} : lock = q => lock' = q
    BY <1>1, ProcNames DEF Moves, Unlocked, HostType
  <1>4. HostType'
    BY <1>1, <1>2, <1>3 DEF HostType, Moves
  <1>5. LocksHeld'
    BY <1>1, <1>2, <1>3 DEF LocksHeld
  <1>6. Identified'
    BY <1>1, <1>2 DEF Identified, Moves, Allowed
  <1>7. Versions'
    <2>1. procs'[Daemon].op \in {"none", "run"} /\ procs'[Daemon].version = procs[Daemon].version
      BY <1>1, <1>2, ProcNames DEF Versions, Allowed
    <2>2. \A q \in Procs : procs'[q].version <= binary'
      BY <1>1, <1>2 DEF Versions, Moves, Allowed
    <2>3. \A c \in Calls : Restarted(c)' => Restarted(c) /\ procs'[c] = procs[c]
      BY <1>2, ProcNames DEF Restarted, Allowed
    <2>4. service'.state = "active" => service.state = "active"
      BY DEF Moves
    <2> QED BY <1>1, <2>1, <2>2, <2>3, <2>4 DEF Versions
  <1> QED BY <1>4, <1>5, <1>6, <1>7 DEF HostInv

\* A process that has no answer to store, or loses it, keeps the enrollment.
LEMMA EnrollmentKept ==
  ASSUME HostInv, NEW p \in Procs, NEW r \in Proc, procs' = [procs EXCEPT ![p] = r],
         UNCHANGED <<credential, gateway>>, lost \subseteq lost',
         p \in Calls /\ Answering(p) => p \in lost',
         r.pc # "answered"
  PROVE  Enrolled'
  <1>1. HostType /\ Enrolled
    BY DEF HostInv
  <1>2. procs'[p] = r /\ \A q \in Procs \ {p} : procs'[q] = procs[q]
    BY <1>1, Moved
  <1>3. \A c \in Calls : Answering(c)' => Answering(c)
    BY <1>2, ProcNames DEF Answering, At
  <1>4. \A c \in Calls : Answering(c) => Answering(c)' \/ c \in lost'
    BY <1>2, ProcNames DEF Answering, At
  <1> QED BY <1>1, <1>3, <1>4 DEF Enrolled

\* Most moves have nothing to do with the enrollment.
LEMMA Ordinary ==
  ASSUME HostInv, NEW p \in Procs, NEW r, Moves(p, r), Allowed(p, r),
         r.pc \in Locks => lock' = p, UNCHANGED <<credential, gateway, lost>>,
         ~(p \in Calls /\ Answering(p)), r.pc # "answered"
  PROVE  HostInv'
  <1>1. Enrolled'
    BY EnrollmentKept DEF Moves, Allowed
  <1> QED BY <1>1, MovesKeep

\* What is known of a process.
LEMMA ProcFacts ==
  ASSUME HostInv, NEW p \in Procs
  PROVE  /\ procs[p] \in Proc /\ procs[p].version <= binary /\ binary \in Nat
         /\ procs[p].id \in {"none", identity} /\ lock \in Procs \cup {"free"}
         /\ procs[p].pc \in Locks => lock = p
         /\ p = Daemon => procs[p].op \in {"none", "run"}
         /\ service \in Service
  BY DEF HostInv, HostType, LocksHeld, Identified, Versions

\* A process that goes on, without a lock if it is not at work in the directory.
LEMMA GoingOn ==
  ASSUME HostInv, NEW p \in Procs, NEW pc \in PCs \ {"names", "answered"}, Goes(p, pc),
         lock' \in {lock, Unlocked(p)}, pc \in Locks => lock' = p,
         UNCHANGED <<stored, enrolled, binary>>,
         service' \in Service, service'.state = "active" => service.state = "active",
         ~(p \in Calls /\ Answering(p)),
         ~(procs[p].op = "update" /\ pc = "done" /\ procs[p].was_running)
  PROVE  HostInv'
  <1>1. PICK r : r = [procs[p] EXCEPT !.pc = pc]
    OBVIOUS
  <1>2. /\ r \in Proc /\ r.pc = pc /\ r.op = procs[p].op /\ r.id = procs[p].id
        /\ r.version = procs[p].version /\ r.was_running = procs[p].was_running
    BY <1>1, ProcFacts DEF Proc
  <1>3. Allowed(p, r)
    BY <1>2, ProcFacts DEF Allowed
  <1>4. Moves(p, r)
    BY <1>1 DEF Moves, Goes, stored
  <1> QED BY <1>2, <1>3, <1>4, Ordinary DEF stored, enrolled

-----------------------------------------------------------------------------
(* The steps of a process. *)

\* A process at its end lets go of the directory.
LEMMA ExitKeeps ==
  ASSUME HostInv, NEW p \in Procs, NEW how \in Over, Exits(p, how),
         UNCHANGED <<stored, enrolled, installed>>, ~(p \in Calls /\ Answering(p)),
         ~(procs[p].op = "update" /\ how = "done")
  PROVE  HostInv'
  <1>1. how \in PCs \ {"names", "answered"} /\ how \notin Locks
    BY DEF Over, PCs, Locks
  <1>2. Goes(p, how) /\ lock' \in {lock, Unlocked(p)}
    BY DEF Exits
  <1>3. UNCHANGED binary /\ service' \in Service
        /\ (service'.state = "active" => service.state = "active")
    BY ProcFacts DEF installed
  <1> QED BY <1>1, <1>2, <1>3, GoingOn

\* invoked: a shell runs the executable that is installed.
LEMMA InvokedKeeps ==
  ASSUME HostInv, NEW c \in Calls, invoked(c)
  PROVE  HostInv'
  <1>1. c \in Procs /\ c # Daemon
    BY ProcNames
  <1>2. PICK op \in Ops : procs' = [procs EXCEPT ![c] = [NoProc EXCEPT !.op = op,
                                      !.pc = Begins(op), !.version = binary]]
    BY DEF invoked
  <1>3. PICK r : r = [NoProc EXCEPT !.op = op, !.pc = Begins(op), !.version = binary]
    OBVIOUS
  <1>4. Begins(op) \in {"opens", "inspects", "fetches", "stops"}
    BY CommandsAreKnown DEF Begins
  <1>5. r \in Proc /\ r.pc = Begins(op) /\ r.id = "none" /\ r.version = binary
    BY <1>3, <1>4, ProcFacts, <1>1 DEF Proc, NoProc, PCs, Names
  <1>6. Allowed(c, r) /\ Moves(c, r) /\ r.pc \notin Locks /\ r.pc # "answered"
    <2>1. r.op = op /\ op \in Ops /\ ~r.was_running
      BY <1>3 DEF NoProc
    <2>2. Allowed(c, r)
      BY <1>1, <1>4, <1>5, <2>1, ProcFacts DEF Allowed
    <2>3. Moves(c, r)
      BY <1>1, <1>2, <1>3, ProcFacts DEF Moves, invoked, stored, installed
    <2>4. r.pc \notin Locks /\ r.pc # "answered"
      BY <1>4, <1>5 DEF Locks
    <2> QED BY <2>2, <2>3, <2>4
  <1>7. ~Answering(c) /\ UNCHANGED <<credential, gateway, lost>>
    BY DEF Answering, At, invoked, stored, enrolled
  <1> QED BY <1>1, <1>6, <1>7, Ordinary

\* Store::open, by its first owner or another.
LEMMA OpenKeeps ==
  ASSUME HostInv, NEW p \in Procs, open(p)
  PROVE  HostInv'
  <1>1. ~Answering(p) /\ UNCHANGED <<credential, gateway, lost>> /\ UNCHANGED <<identity, binary>>
        /\ UNCHANGED service
    BY DEF Answering, At, open, stored, enrolled, installed
  <1>2. CASE MayOwn(p)
    <2>1. PICK r : r = [procs[p] EXCEPT !.pc = IF identity = "none" THEN "names" ELSE "opened",
                                        !.id = identity]
      OBVIOUS
    <2>2. lock = "free" /\ lock' = p /\ procs' = [procs EXCEPT ![p] = r]
      BY <1>2, <2>1 DEF MayOwn, open, HostInv, HostType
    <2>3. /\ r \in Proc /\ r.id = identity /\ r.version = procs[p].version /\ r.op = procs[p].op
          /\ r.pc = IF identity = "none" THEN "names" ELSE "opened"
      <3>1. identity \in Names /\ procs[p] \in Proc
        BY ProcFacts DEF HostInv, HostType
      <3>2. PICK next \in {"names", "opened"} :
              next = IF identity = "none" THEN "names" ELSE "opened"
        OBVIOUS
      <3>3. r = [procs[p] EXCEPT !.pc = next, !.id = identity] /\ next \in PCs
        BY <2>1, <3>2 DEF PCs, Locks
      <3> QED BY <3>1, <3>2, <3>3 DEF Proc
    <2>4. Allowed(p, r) /\ Moves(p, r) /\ r.pc # "answered"
      BY <1>1, <2>2, <2>3, ProcFacts DEF Allowed, Moves
    <2> QED BY <1>1, <2>2, <2>4, Ordinary
  <1>3. CASE ~MayOwn(p)
    <2>1. PICK r : r = [procs[p] EXCEPT !.pc = "refused", !.found = lock]
      OBVIOUS
    <2>2. UNCHANGED lock /\ procs' = [procs EXCEPT ![p] = r]
      BY <1>3, <2>1 DEF open, HostInv, HostType
    <2>3. /\ r \in Proc /\ r.id = procs[p].id /\ r.version = procs[p].version
          /\ r.op = procs[p].op /\ r.pc = "refused"
      BY <2>1, ProcFacts DEF Proc, PCs, Over
    <2>4. Allowed(p, r) /\ Moves(p, r) /\ r.pc # "answered" /\ r.pc \notin Locks
      BY <1>1, <2>2, <2>3, ProcFacts DEF Allowed, Moves, Locks
    <2> QED BY <1>1, <2>4, Ordinary
  <1> QED BY <1>2, <1>3

\* The first owner, whom the lock keeps the only one, names the machine.
LEMMA NamesKeeps ==
  ASSUME HostInv, NEW p \in Procs, names(p)
  PROVE  HostInv'
  <1>1. HostType /\ LocksHeld /\ Identified /\ Enrolled /\ Versions
    BY DEF HostInv
  <1>2. PICK r : r = [procs[p] EXCEPT !.pc = "opened", !.id = p]
    OBVIOUS
  <1>3. /\ procs' = [procs EXCEPT ![p] = r] /\ identity' = p
        /\ UNCHANGED <<lock, credential, gateway, lost, binary, service>>
        /\ procs[p].pc = "names"
    BY <1>1, <1>2 DEF names, HostType, enrolled, installed
  <1>4. /\ r \in Proc /\ r.pc = "opened" /\ r.id = p /\ r.version = procs[p].version
        /\ r.op = procs[p].op
    BY <1>2, ProcFacts DEF Proc, PCs, Locks, Names
  <1>5. /\ procs' \in [Procs -> Proc] /\ procs'[p] = r
        /\ \A q \in Procs \ {p} : procs'[q] = procs[q]
    BY <1>1, <1>3, <1>4, Moved
  <1>6. lock = p /\ p # "free" /\ identity = "none"
    BY <1>1, <1>3, ProcNames DEF LocksHeld, Locks, Identified
  <1>7. HostType'
    BY <1>1, <1>3, <1>5 DEF HostType, Names
  <1>8. LocksHeld'
    BY <1>1, <1>3, <1>5, <1>6 DEF LocksHeld
  <1>9. Identified'
    <2>1. \A q \in Procs \ {p} : procs[q].pc # "names" /\ procs[q].id = "none"
      BY <1>1, <1>6 DEF LocksHeld, Identified, Locks
    <2> QED BY <1>3, <1>4, <1>5, <2>1 DEF Identified
  <1>10. Enrolled'
    BY <1>3, <1>4, <1>5, EnrollmentKept DEF Answering, At
  <1>11. Versions'
    <2>1. \A c \in Calls : Restarted(c)' => Restarted(c) /\ procs'[c] = procs[c]
      BY <1>4, <1>5, ProcNames DEF Restarted
    <2>2. procs'[Daemon].op \in {"none", "run"} /\ procs'[Daemon].version = procs[Daemon].version
      BY <1>1, <1>4, <1>5, ProcNames DEF Versions
    <2>3. \A q \in Procs : procs'[q].version <= binary'
      BY <1>1, <1>3, <1>4, <1>5 DEF Versions
    <2> QED BY <1>1, <1>3, <2>1, <2>2, <2>3 DEF Versions
  <1> QED BY <1>7, <1>8, <1>9, <1>10, <1>11 DEF HostInv

\* A lock is one process's: of those that answer there is one.
LEMMA OneAnswers ==
  ASSUME HostInv, NEW p \in Procs, NEW c \in Calls, procs[p].pc \in Locks, Answering(c)
  PROVE  c = p
  BY ProcNames DEF HostInv, LocksHeld, Answering, At, Locks

\* register: what the gateway has accepted, the one that asked will store.
LEMMA RegisterKeeps ==
  ASSUME HostInv, NEW c \in Calls, register(c)
  PROVE  HostInv'
  <1>1. c \in Procs /\ procs[c].op = "register" /\ procs[c].pc = "opened" /\ ~procs[c].looking
        /\ UNCHANGED <<stored, lost, installed>>
    BY ProcNames DEF register, At
  <1>2. CASE Exits(c, "failed") /\ UNCHANGED gateway
    BY <1>1, <1>2, ExitKeeps DEF Over, Answering, At, enrolled
  <1>3. CASE gateway' = c /\ Goes(c, "answered") /\ UNCHANGED lock
    <2>1. PICK r : r = [procs[c] EXCEPT !.pc = "answered"]
      OBVIOUS
    <2>2. /\ r \in Proc /\ r.pc = "answered" /\ r.id = procs[c].id
          /\ r.version = procs[c].version /\ r.op = procs[c].op /\ r.looking = procs[c].looking
      BY <1>1, <2>1, ProcFacts DEF Proc, PCs, Locks
    <2>3. procs' = [procs EXCEPT ![c] = r]
      BY <1>3, <2>1 DEF Goes
    <2>4. Allowed(c, r) /\ Moves(c, r) /\ lock' = c
      BY <1>1, <1>3, <2>2, <2>3, ProcFacts, ProcNames
         DEF Allowed, Moves, stored, installed, Locks
    <2>5. Enrolled'
      <3>1. procs'[c] = r /\ \A q \in Procs \ {c} : procs'[q] = procs[q]
        BY <1>1, <2>2, <2>3, Moved DEF HostInv
      <3>2. \A d \in Calls : Answering(d)' <=> d = c
        <4>1. \A d \in Calls \ {c} : ~Answering(d)
          BY <1>1, OneAnswers DEF Locks
        <4> QED BY <1>1, <2>2, <3>1, <4>1, ProcNames DEF Answering, At
      <3> QED BY <1>3, <3>2 DEF Enrolled
    <2> QED BY <1>1, <2>4, <2>5, MovesKeep
  <1> QED BY <1>2, <1>3 DEF register

\* The command stores the credential of its answer.
LEMMA StoresKeeps ==
  ASSUME HostInv, NEW c \in Calls, stores(c)
  PROVE  HostInv'
  <1>1. c \in Procs /\ Answering(c) /\ Exits(c, "done") /\ credential' = c
        /\ UNCHANGED <<identity, enrolled, installed>>
    BY ProcNames DEF stores, Answering
  <1>2. PICK r : r = [procs[c] EXCEPT !.pc = "done"]
    OBVIOUS
  <1>3. /\ r \in Proc /\ r.pc = "done" /\ r.id = procs[c].id
        /\ r.version = procs[c].version /\ r.op = "register"
    BY <1>1, <1>2, ProcFacts DEF Proc, PCs, Over, Answering, At
  <1>4. Allowed(c, r) /\ Moves(c, r) /\ r.pc \notin Locks
    BY <1>1, <1>2, <1>3, ProcFacts, ProcNames
       DEF Allowed, Moves, installed, Exits, Goes, Locks
  <1>5. Enrolled'
    <2>1. procs'[c] = r /\ \A q \in Procs \ {c} : procs'[q] = procs[q]
      BY <1>1, <1>3, <1>4, Moved DEF HostInv, Moves
    <2>2. \A d \in Calls : ~Answering(d)'
      <3>1. \A d \in Calls \ {c} : ~Answering(d)
        BY <1>1, OneAnswers DEF Locks, Answering, At
      <3> QED BY <1>3, <2>1, <3>1, ProcNames DEF Answering, At
    <2>3. gateway \in {c, "none"}
      BY <1>1 DEF HostInv, Enrolled
    <2> QED BY <1>1, <2>2, <2>3 DEF Enrolled, enrolled
  <1> QED BY <1>1, <1>4, <1>5, MovesKeep

\* The command configure stores the credential that the gateway knows.
LEMMA ConfigureKeeps ==
  ASSUME HostInv, NEW c \in Calls, configure(c)
  PROVE  HostInv'
  <1>1. c \in Procs /\ procs[c].op = "configure" /\ procs[c].pc = "opened"
        /\ UNCHANGED <<identity, enrolled, installed>>
    BY ProcNames DEF configure, At
  <1>2. CASE Exits(c, "failed") /\ UNCHANGED credential
    BY <1>1, <1>2, ExitKeeps DEF Over, Answering, At, stored
  <1>3. CASE credential' = gateway /\ Exits(c, "done")
    <2>1. PICK r : r = [procs[c] EXCEPT !.pc = "done"]
      OBVIOUS
    <2>2. /\ r \in Proc /\ r.pc = "done" /\ r.id = procs[c].id
          /\ r.version = procs[c].version /\ r.op = "configure"
      BY <1>1, <2>1, ProcFacts DEF Proc, PCs, Over
    <2>3. Allowed(c, r) /\ Moves(c, r) /\ r.pc \notin Locks
      BY <1>1, <1>3, <2>1, <2>2, ProcFacts, ProcNames
         DEF Allowed, Moves, installed, Exits, Goes, Locks
    <2>4. Enrolled'
      <3>1. procs'[c] = r /\ \A q \in Procs \ {c} : procs'[q] = procs[q]
        BY <1>1, <2>2, <2>3, Moved DEF HostInv, Moves
      <3>2. \A d \in Calls : ~Answering(d)'
        <4>1. \A d \in Calls : ~Answering(d)
          BY <1>1, OneAnswers DEF Locks, Answering, At
        <4> QED BY <2>2, <3>1, <4>1, ProcNames DEF Answering, At
      <3> QED BY <1>1, <1>3, <3>2 DEF Enrolled, enrolled
    <2> QED BY <1>1, <2>3, <2>4, MovesKeep
  <1> QED BY <1>2, <1>3 DEF configure

\* run, and the ways in which it ends.
LEMMA RunKeeps ==
  ASSUME HostInv, NEW p \in Procs, run(p) \/ rejected(p) \/ shutdown_signal(p)
  PROVE  HostInv'
  <1>1. procs[p].op = "run" /\ ~Answering(p) /\ UNCHANGED <<stored, enrolled, installed>>
    BY DEF run, rejected, shutdown_signal, At, Answering
  <1>2. CASE run(p) /\ credential # "none"
    <2>1. Goes(p, "running") /\ UNCHANGED lock /\ procs[p].pc \in Locks
      BY <1>2 DEF run, At, Locks
    <2>2. lock = p /\ service' \in Service /\ service' = service /\ UNCHANGED binary
      BY <1>1, <2>1, ProcFacts DEF installed
    <2> QED BY <1>1, <2>1, <2>2, GoingOn DEF PCs, Locks
  <1>3. ASSUME NEW how \in Over, Exits(p, how) PROVE HostInv'
    BY <1>1, <1>3, ExitKeeps
  <1> QED BY <1>2, <1>3 DEF run, rejected, shutdown_signal, Over

\* A failure or a kill, which may lose an answer.
LEMMA BreaksKeeps ==
  ASSUME HostInv, NEW p \in Procs, breaks(p)
  PROVE  HostInv'
  <1>1. PICK how \in {"failed", "killed"} : Exits(p, how)
    BY DEF breaks
  <1>2. PICK r : r = [procs[p] EXCEPT !.pc = how]
    OBVIOUS
  <1>3. /\ r \in Proc /\ r.pc = how /\ r.id = procs[p].id
        /\ r.version = procs[p].version /\ r.op = procs[p].op
    BY <1>2, ProcFacts DEF Proc, PCs, Over
  <1>4. /\ UNCHANGED <<identity, credential, gateway, binary, service>>
        /\ lost \subseteq lost' /\ (procs[p].pc = "answered" => p \in lost')
    BY DEF breaks, stored, installed
  <1>5. Allowed(p, r)
    BY <1>3, ProcFacts DEF Allowed
  <1>6. Moves(p, r)
    BY <1>1, <1>2, <1>4, ProcFacts DEF Moves, Exits, Goes
  <1>7. Enrolled'
    BY <1>3, <1>4, <1>6, EnrollmentKept DEF Moves, Answering, At
  <1>8. r.pc \notin Locks
    BY <1>3 DEF Locks
  <1> QED BY <1>5, <1>6, <1>7, <1>8, MovesKeep

-----------------------------------------------------------------------------
(* The commands that look, and those that ask the manager. *)

\* A command that takes the lock to see whether anybody has it.
LEMMA LooksKeeps ==
  ASSUME HostInv, NEW c \in Calls, looks(c)
  PROVE  HostInv'
  <1>1. /\ c \in Procs /\ c # Daemon /\ procs[c].pc \in {"inspects", "waits", "drains"}
        /\ UNCHANGED <<stored, enrolled, installed>>
    BY ProcNames DEF looks
  <1>2. PICK r : r = [procs[c] EXCEPT !.found = lock, !.looking = TRUE]
    OBVIOUS
  <1>3. /\ r \in Proc /\ r.pc = procs[c].pc /\ r.id = procs[c].id
        /\ r.version = procs[c].version /\ r.op = procs[c].op
    BY <1>1, <1>2, ProcFacts DEF Proc
  <1>4. procs' = [procs EXCEPT ![c] = r] /\ lock' = IF lock = "free" THEN c ELSE lock
    BY <1>1, <1>2 DEF looks, HostInv, HostType
  <1>5. Allowed(c, r)
    BY <1>1, <1>3, ProcFacts DEF Allowed
  <1>6. Moves(c, r)
    BY <1>1, <1>4, ProcFacts DEF Moves, stored, installed
  <1>7. r.pc \notin Locks /\ r.pc # "answered" /\ ~Answering(c)
    BY <1>1, <1>3 DEF Locks, Answering, At
  <1> QED BY <1>1, <1>5, <1>6, <1>7, Ordinary DEF stored, enrolled

\* The answer of a look: the lock is let go.
LEMMA InspectKeeps ==
  ASSUME HostInv, NEW c \in Calls,
         NEW pc \in {"done", "failed", "installs", "waits", "drains", "replaces"},
         inspect(c, pc), procs[c].op # "register", procs[c].op = "update" => pc # "done"
  PROVE  HostInv'
  <1>1. c \in Procs /\ c # Daemon /\ UNCHANGED <<stored, enrolled, installed>>
    BY ProcNames DEF inspect
  <1>2. PICK r : r = [procs[c] EXCEPT !.pc = pc, !.looking = FALSE]
    OBVIOUS
  <1>3. /\ r \in Proc /\ r.pc = pc /\ r.id = procs[c].id
        /\ r.version = procs[c].version /\ r.op = procs[c].op
    BY <1>1, <1>2, ProcFacts DEF Proc, PCs, Over
  <1>4. procs' = [procs EXCEPT ![c] = r] /\ lock' = Unlocked(c)
    BY <1>1, <1>2 DEF inspect, HostInv, HostType
  <1>5. Allowed(c, r)
    BY <1>1, <1>3, ProcFacts DEF Allowed
  <1>6. Moves(c, r)
    BY <1>1, <1>4, ProcFacts DEF Moves, stored, installed
  <1>7. r.pc \notin Locks /\ r.pc # "answered" /\ ~Answering(c)
    BY <1>3 DEF Locks, Answering, At
  <1> QED BY <1>1, <1>5, <1>6, <1>7, Ordinary DEF stored, enrolled

\* status, connect and the waits for the daemon use it.
LEMMA LooksAnswered ==
  ASSUME HostInv, NEW c \in Calls,
         status(c) \/ connect(c) \/ wait_until_running(c) \/ wait_until_stopped(c)
  PROVE  HostInv'
  <1>1. CASE status(c)
    BY <1>1, InspectKeeps DEF status
  <1>2. CASE connect(c)
    BY <1>2, InspectKeeps DEF connect
  <1>3. CASE wait_until_running(c)
    BY <1>3, InspectKeeps DEF wait_until_running
  <1>4. CASE wait_until_stopped(c)
    BY <1>4, InspectKeeps DEF wait_until_stopped
  <1> QED BY <1>1, <1>2, <1>3, <1>4

\* The first look of an update, and the fetch before it.
LEMMA UpdateKeeps ==
  ASSUME HostInv, NEW c \in Calls, fetches(c) \/ wasRunning(c)
  PROVE  HostInv'
  <1>1. c \in Procs /\ c # Daemon /\ procs[c].op = "update" /\ ~Answering(c)
        /\ UNCHANGED <<stored, enrolled, installed>>
    BY ProcNames DEF fetches, wasRunning, Answering, At
  <1>2. CASE fetches(c)
    <2>1. PICK pc \in {"inspects", "failed"} : Goes(c, pc)
      BY <1>2 DEF fetches
    <2>2. UNCHANGED <<binary, service>> /\ UNCHANGED lock
      BY <1>2 DEF fetches, installed
    <2>3. pc \in PCs \ {"names", "answered"} /\ pc \notin Locks /\ pc # "done"
      BY DEF PCs, Over, Locks
    <2> QED BY <1>1, <2>1, <2>2, <2>3, ProcFacts, GoingOn
  <1>3. CASE wasRunning(c)
    <2>1. PICK running \in BOOLEAN : running = Running(c)
      BY DEF Running
    <2>2. PICK r : r = [procs[c] EXCEPT !.pc = IF running THEN "stops" ELSE "replaces",
                                        !.looking = FALSE, !.was_running = running]
      OBVIOUS
    <2>3. /\ r \in Proc /\ r.pc \in {"stops", "replaces"} /\ r.id = procs[c].id
          /\ r.version = procs[c].version /\ r.op = procs[c].op
      <3>1. PICK next \in {"stops", "replaces"} : next = IF running THEN "stops" ELSE "replaces"
        OBVIOUS
      <3>2. r = [procs[c] EXCEPT !.pc = next, !.looking = FALSE, !.was_running = running]
            /\ next \in PCs /\ procs[c] \in Proc
        BY <1>1, <2>2, <3>1, ProcFacts DEF PCs
      <3> QED BY <3>1, <3>2 DEF Proc
    <2>4. procs' = [procs EXCEPT ![c] = r] /\ lock' = Unlocked(c)
      BY <1>1, <1>3, <2>1, <2>2 DEF wasRunning, HostInv, HostType
    <2>5. Allowed(c, r)
      BY <1>1, <2>3, ProcFacts DEF Allowed
    <2>6. Moves(c, r)
      BY <1>1, <2>4, ProcFacts DEF Moves, stored, installed
    <2>7. r.pc \notin Locks /\ r.pc # "answered"
      BY <2>3 DEF Locks
    <2> QED BY <1>1, <2>5, <2>6, <2>7, Ordinary DEF stored, enrolled
  <1> QED BY <1>2, <1>3

\* writesUnit, and a job for the manager.
LEMMA AsksKeeps ==
  ASSUME HostInv, NEW c \in Calls, writesUnit(c) \/ asks(c)
  PROVE  HostInv'
  <1>1. c \in Procs /\ c # Daemon /\ ~Answering(c) /\ UNCHANGED <<lock, stored, enrolled, binary>>
    BY ProcNames DEF writesUnit, asks, Answering, At
  <1>2. CASE writesUnit(c)
    <2>1. Goes(c, "enables") /\ service' = [service EXCEPT !.installed = TRUE]
      BY <1>2 DEF writesUnit
    <2>2. service' \in Service /\ service'.state = service.state
      BY <2>1, <1>1, ProcFacts DEF Service
    <2>3. "enables" \in PCs \ {"names", "answered"} /\ "enables" \notin Locks
      BY DEF PCs, Locks
    <2> QED BY <1>1, <2>1, <2>2, <2>3, GoingOn
  <1>3. CASE asks(c) /\ service.installed
    <2>1. /\ Goes(c, "asked")
          /\ service' = [service EXCEPT !.job = c, !.again = procs[c].pc = "restarts",
                           !.enabled = @ /\ procs[c].op # "disconnect",
                           !.state = IF @ = "waiting" THEN "inactive" ELSE @]
      BY <1>3 DEF asks
    <2>2. PICK again \in BOOLEAN : again = (procs[c].pc = "restarts")
      OBVIOUS
    <2>3. PICK enabled \in BOOLEAN : enabled = (service.enabled /\ procs[c].op # "disconnect")
      OBVIOUS
    <2>4. service' = [service EXCEPT !.job = c, !.again = again, !.enabled = enabled,
                                     !.state = IF @ = "waiting" THEN "inactive" ELSE @]
      BY <2>1, <2>2, <2>3, Zenon
    <2>5. service' \in Service /\ (service'.state = "active" => service.state = "active")
      BY <2>4, <1>1, ProcFacts DEF Service
    <2>6. "asked" \in PCs \ {"names", "answered"} /\ "asked" \notin Locks
      BY DEF PCs, Locks
    <2> QED BY <1>1, <2>1, <2>5, <2>6, GoingOn
  <1>4. CASE asks(c) /\ ~service.installed
    <2>1. PICK pc \in {"done", "failed"} : Goes(c, pc) /\ (pc = "done" => procs[c].op = "disconnect")
      BY <1>4 DEF asks
    <2>2. service' = service /\ service \in Service
      BY <1>1, <1>4, ProcFacts DEF asks
    <2>3. pc \in PCs \ {"names", "answered"} /\ pc \notin Locks
      BY DEF PCs, Over, Locks
    <2> QED BY <1>1, <2>1, <2>2, <2>3, GoingOn
  <1> QED BY <1>2, <1>3, <1>4

\* The executable is newer than all that runs, until it runs itself.
LEMMA ReplacesKeeps ==
  ASSUME HostInv, NEW c \in Calls, replaces(c)
  PROVE  HostInv'
  <1>1. HostType /\ LocksHeld /\ Identified /\ Enrolled /\ Versions
    BY DEF HostInv
  <1>2. c \in Procs /\ c # Daemon /\ procs[c].op = "update" /\ ~Answering(c)
        /\ UNCHANGED <<lock, stored, enrolled, service>>
    BY ProcNames DEF replaces, At, Answering
  <1>3. PICK version \in Nat : version = binary + 1
    BY <1>1 DEF HostType
  <1>4. PICK r : r = [procs[c] EXCEPT !.version = version,
                                      !.pc = IF procs[c].was_running THEN "restarts" ELSE "done"]
    OBVIOUS
  <1>5. procs' = [procs EXCEPT ![c] = r] /\ binary' = version
    BY <1>1, <1>2, <1>3, <1>4 DEF replaces, HostType
  <1>6. /\ r \in Proc /\ r.id = procs[c].id /\ r.version = version /\ r.op = "update"
        /\ r.pc \in {"restarts", "done"} /\ (r.pc = "done" => ~r.was_running)
    <2>1. PICK next \in {"restarts", "done"} :
            next = IF procs[c].was_running THEN "restarts" ELSE "done"
      OBVIOUS
    <2>2. r = [procs[c] EXCEPT !.version = version, !.pc = next] /\ next \in PCs
          /\ procs[c] \in Proc
      BY <1>2, <1>4, <2>1, ProcFacts DEF PCs, Over
    <2> QED BY <1>2, <2>1, <2>2 DEF Proc
  <1>7. /\ procs' \in [Procs -> Proc] /\ procs'[c] = r
        /\ \A q \in Procs \ {c} : procs'[q] = procs[q]
    BY <1>1, <1>2, <1>5, <1>6, Moved
  <1>8. HostType'
    BY <1>1, <1>2, <1>5, <1>7 DEF HostType, stored
  <1>9. LocksHeld'
    BY <1>1, <1>2, <1>6, <1>7 DEF LocksHeld, Locks
  <1>10. Identified'
    BY <1>1, <1>2, <1>6, <1>7 DEF Identified, stored
  <1>11. Enrolled'
    BY <1>2, <1>5, <1>6, EnrollmentKept DEF stored, enrolled
  <1>12. Versions'
    <2>1. \A q \in Procs : procs'[q].version <= version
      <3>1. \A q \in Procs : procs[q].version \in Nat /\ procs[q].version <= binary /\ binary \in Nat
        BY <1>1 DEF HostType, Proc, Versions
      <3> QED BY <1>3, <1>6, <1>7, <3>1
    <2>2. \A d \in Calls : Restarted(d)' => Restarted(d) /\ procs'[d] = procs[d]
      BY <1>6, <1>7, ProcNames DEF Restarted
    <2>3. procs'[Daemon] = procs[Daemon]
      BY <1>2, <1>7, ProcNames
    <2> QED BY <1>1, <1>2, <1>5, <2>1, <2>2, <2>3 DEF Versions
  <1> QED BY <1>8, <1>9, <1>10, <1>11, <1>12 DEF HostInv

-----------------------------------------------------------------------------
(* The manager. *)

\* What it starts is what is installed.
LEMMA StartedFacts ==
  ASSUME HostInv
  PROVE  Started \in Proc /\ Started.op = "run" /\ Started.pc = "opens" /\ Started.id = "none"
         /\ Started.version = binary
  <1>1. binary \in Nat /\ "free" \in Procs \cup {"free"} /\ "none" \in Names
    BY DEF HostInv, HostType, Names
  <1> QED BY <1>1 DEF Started, NoProc, Proc, PCs

\* Whoever waits for the manager goes on; the daemon goes on, or is started anew.
LEMMA ServiceMoves ==
  ASSUME HostInv, procs' \in [Procs -> Proc], UNCHANGED <<lock, stored, enrolled, binary>>,
         service' \in Service,
         \A c \in Calls : procs'[c] = procs[c] \/
           /\ procs[c].pc \in {"enables", "asked"} /\ procs'[c].pc \in {"waits", "done", "drains"}
           /\ procs'[c].id = procs[c].id /\ procs'[c].version = procs[c].version,
         \/ procs'[Daemon] = Started
         \/ procs'[Daemon] = procs[Daemon] /\ (service'.state = "active" =>
              service.state = "active" /\ \A c \in Calls : Restarted(c)' => Restarted(c))
  PROVE  HostInv'
  <1>1. HostType /\ LocksHeld /\ Identified /\ Enrolled /\ Versions
    BY DEF HostInv
  <1>2. \A p \in Procs : p \in Calls \/ p = Daemon
    BY DEF Procs
  <1>3. Started.op = "run" /\ Started.pc = "opens" /\ Started.id = "none"
        /\ Started.version = binary
    BY StartedFacts
  <1>4. HostType'
    BY <1>1 DEF HostType, stored
  <1>5. LocksHeld'
    BY <1>1, <1>2, <1>3 DEF LocksHeld, Locks
  <1>6. Identified'
    BY <1>1, <1>2, <1>3 DEF Identified, stored
  <1>7. Enrolled'
    <2>1. \A c \in Calls : Answering(c)' <=> Answering(c)
      BY DEF Answering, At
    <2> QED BY <1>1, <2>1 DEF Enrolled, stored, enrolled
  <1>8. Versions'
    <2>1. \A c \in Calls : procs'[c].version = procs[c].version /\ procs[c].version <= binary
      BY <1>1, ProcNames DEF Versions
    <2>2. binary \in Nat /\ binary' = binary
      BY <1>1 DEF HostType
    <2>3. CASE procs'[Daemon] = Started
      <3>1. \A p \in Procs : procs'[p].version <= binary
        BY <1>2, <1>3, <2>1, <2>2, <2>3
      <3>2. \A c \in Calls : procs'[Daemon].version >= procs'[c].version
        <4>1. \A c \in Calls : procs[c].version \in Nat
          BY <1>1, ProcNames DEF HostType, Proc
        <4> QED BY <1>3, <2>1, <2>2, <2>3, <4>1
      <3> QED BY <1>3, <2>2, <2>3, <3>1, <3>2 DEF Versions
    <2>4. CASE procs'[Daemon] = procs[Daemon] /\ (service'.state = "active" =>
              service.state = "active" /\ \A c \in Calls : Restarted(c)' => Restarted(c))
      <3>1. \A p \in Procs : procs'[p].version <= binary
        BY <1>1, <1>2, <2>1, <2>4 DEF Versions
      <3>2. \A c \in Calls : Restarted(c)' /\ service'.state = "active" =>
              procs'[Daemon].version >= procs'[c].version
        BY <1>1, <2>1, <2>4 DEF Versions
      <3> QED BY <1>1, <2>2, <2>4, <3>1, <3>2 DEF Versions
    <2> QED BY <2>3, <2>4
  <1> QED BY <1>4, <1>5, <1>6, <1>7, <1>8 DEF HostInv

\* The ends and starts of the daemon.
LEMMA ManagerKeeps ==
  ASSUME HostInv, daemonEnded \/ managerStarts
  PROVE  HostInv'
  <1>1. procs \in [Procs -> Proc] /\ service \in Service
    BY DEF HostInv, HostType
  <1>2. CASE daemonEnded
    <2>1. PICK state \in {"inactive", "waiting"} : service' = [service EXCEPT !.state = state]
      BY <1>2 DEF daemonEnded, unit
    <2>2. service' \in Service /\ service'.state # "active"
      BY <1>1, <2>1 DEF Service
    <2>3. UNCHANGED <<lock, stored, enrolled, binary>> /\ procs' = procs
      BY <1>2 DEF daemonEnded
    <2> QED BY <1>1, <2>2, <2>3, ServiceMoves
  <1>3. CASE managerStarts
    <2>1. service' \in Service
      BY <1>1, <1>3 DEF managerStarts, Service
    <2>2. procs' = [procs EXCEPT ![Daemon] = Started] /\ UNCHANGED <<lock, stored, enrolled, binary>>
      BY <1>3 DEF managerStarts
    <2>3. /\ procs' \in [Procs -> Proc] /\ procs'[Daemon] = Started
          /\ \A c \in Calls : procs'[c] = procs[c]
      BY <1>1, <2>2, StartedFacts, ProcNames
    <2> QED BY <2>1, <2>2, <2>3, ServiceMoves
  <1> QED BY <1>2, <1>3

\* connect starts the service, if it does not run.
LEMMA EnablesKeeps ==
  ASSUME HostInv, NEW c \in Calls, enables(c)
  PROVE  HostInv'
  <1>1. procs \in [Procs -> Proc] /\ service \in Service /\ c \in Procs /\ c # Daemon
        /\ Daemon \in Procs
    BY ProcNames DEF HostInv, HostType
  <1>2. /\ procs[c].op = "connect" /\ procs[c].pc = "enables"
        /\ UNCHANGED <<lock, stored, enrolled, binary>>
        /\ service' = [service EXCEPT !.enabled = TRUE, !.state = "active"]
    BY DEF enables, At
  <1>3. service' \in Service
    BY <1>1, <1>2 DEF Service
  <1>4. PICK r, d : /\ r = [procs[c] EXCEPT !.pc = "waits"]
                    /\ d = IF service.state = "active" THEN procs[Daemon] ELSE Started
    OBVIOUS
  <1>5. procs' = [[procs EXCEPT ![c] = r] EXCEPT ![Daemon] = d]
    BY <1>1, <1>4 DEF enables
  <1>6. /\ r \in Proc /\ r.pc = "waits" /\ r.id = procs[c].id /\ r.version = procs[c].version
    BY <1>1, <1>4 DEF Proc, PCs
  <1>7. d \in Proc
    BY <1>1, <1>4, StartedFacts
  <1>8. /\ procs' \in [Procs -> Proc] /\ procs'[Daemon] = d /\ procs'[c] = r
        /\ \A q \in Procs \ {c, Daemon} : procs'[q] = procs[q]
    BY <1>1, <1>5, <1>6, <1>7
  <1>9. \A b \in Calls : Restarted(b)' => Restarted(b)
    BY <1>6, <1>8, ProcNames DEF Restarted
  <1>10. \A b \in Calls : procs'[b] = procs[b] \/
           /\ procs[b].pc \in {"enables", "asked"} /\ procs'[b].pc \in {"waits", "done", "drains"}
           /\ procs'[b].id = procs[b].id /\ procs'[b].version = procs[b].version
    BY <1>2, <1>6, <1>8, ProcNames
  <1>11. \/ procs'[Daemon] = Started
         \/ procs'[Daemon] = procs[Daemon] /\ (service'.state = "active" =>
              service.state = "active" /\ \A b \in Calls : Restarted(b)' => Restarted(b))
    BY <1>4, <1>8, <1>9
  <1> QED BY <1>2, <1>3, <1>8, <1>10, <1>11, ServiceMoves

\* A job is done: a restart starts what is installed by now.
LEMMA JobKeeps ==
  ASSUME HostInv, jobDone
  PROVE  HostInv'
  <1>1. procs \in [Procs -> Proc] /\ service \in Service /\ Daemon \in Procs
    BY ProcNames DEF HostInv, HostType
  <1>2. PICK c : c = service.job
    OBVIOUS
  <1>3. c \in Calls /\ c \in Procs /\ c # Daemon /\ service.state = "inactive"
    BY <1>1, <1>2, ProcNames DEF jobDone, Service
  <1>4. PICK next \in {"drains", "done"} :
          procs' = [procs EXCEPT ![c].pc = IF @ = "asked" THEN next ELSE @,
                                 ![Daemon] = IF service.again THEN Started ELSE @]
    BY <1>2 DEF jobDone
  <1>5. PICK r, d : /\ r = [procs[c] EXCEPT !.pc = IF @ = "asked" THEN next ELSE @]
                    /\ d = IF service.again THEN Started ELSE procs[Daemon]
    OBVIOUS
  <1>6. procs' = [[procs EXCEPT ![c] = r] EXCEPT ![Daemon] = d]
    BY <1>1, <1>3, <1>4, <1>5
  <1>7. /\ r \in Proc /\ r.id = procs[c].id /\ r.version = procs[c].version
        /\ r = procs[c] \/ (procs[c].pc = "asked" /\ r.pc = next)
    BY <1>1, <1>3, <1>5 DEF Proc, PCs, Over
  <1>8. d \in Proc
    BY <1>1, <1>5, StartedFacts
  <1>9. /\ procs' \in [Procs -> Proc] /\ procs'[Daemon] = d /\ procs'[c] = r
        /\ \A q \in Procs \ {c, Daemon} : procs'[q] = procs[q]
    BY <1>1, <1>3, <1>6, <1>7, <1>8
  <1>10. /\ UNCHANGED <<lock, stored, enrolled, binary>>
         /\ service' = [service EXCEPT !.job = "none", !.again = FALSE,
                                       !.state = IF service.again THEN "active" ELSE @]
    BY DEF jobDone
  <1>11. service' \in Service /\ (service'.state = "active" => service.again)
    BY <1>1, <1>3, <1>10 DEF Service
  <1>12. \A b \in Calls : procs'[b] = procs[b] \/
           /\ procs[b].pc \in {"enables", "asked"} /\ procs'[b].pc \in {"waits", "done", "drains"}
           /\ procs'[b].id = procs[b].id /\ procs'[b].version = procs[b].version
    BY <1>3, <1>7, <1>9, ProcNames
  <1>13. \/ procs'[Daemon] = Started
         \/ procs'[Daemon] = procs[Daemon] /\ service'.state # "active"
    BY <1>5, <1>9, <1>11
  <1> QED BY <1>9, <1>10, <1>11, <1>12, <1>13, ServiceMoves

\* The gateway revokes what it accepted.
LEMMA RevokedKeeps ==
  ASSUME HostInv, revoked
  PROVE  HostInv'
  <1>1. gateway' = "none" /\ UNCHANGED <<lock, stored, lost, installed, procs>>
    BY DEF revoked
  <1> QED BY <1>1 DEF HostInv, HostType, LocksHeld, Identified, Enrolled, Versions, Answering,
                     Restarted, At, stored, installed

-----------------------------------------------------------------------------
(* The specification. *)

\* Every step keeps the invariant.
LEMMA HostStep ==
  ASSUME HostInv, [Next]_vars
  PROVE  HostInv'
  <1>1. ASSUME NEW p \in Procs, ownerStep(p) PROVE HostInv'
    <2>1. CASE open(p)
      BY <2>1, OpenKeeps
    <2>2. CASE names(p)
      BY <2>2, NamesKeeps
    <2>3. CASE run(p) \/ rejected(p) \/ shutdown_signal(p)
      BY <2>3, RunKeeps
    <2>4. CASE breaks(p)
      BY <2>4, BreaksKeeps
    <2> QED BY <1>1, <2>1, <2>2, <2>3, <2>4 DEF ownerStep
  <1>2. ASSUME NEW c \in Calls, callStep(c) PROVE HostInv'
    <2>1. CASE invoked(c)
      BY <2>1, InvokedKeeps
    <2>2. CASE register(c)
      BY <2>2, RegisterKeeps
    <2>3. CASE stores(c)
      BY <2>3, StoresKeeps
    <2>4. CASE configure(c)
      BY <2>4, ConfigureKeeps
    <2>5. CASE looks(c)
      BY <2>5, LooksKeeps
    <2>6. CASE status(c) \/ connect(c) \/ wait_until_running(c) \/ wait_until_stopped(c)
      BY <2>6, LooksAnswered
    <2>7. CASE writesUnit(c) \/ asks(c)
      BY <2>7, AsksKeeps
    <2>8. CASE enables(c)
      BY <2>8, EnablesKeeps
    <2>9. CASE fetches(c) \/ wasRunning(c)
      BY <2>9, UpdateKeeps
    <2>10. CASE replaces(c)
      BY <2>10, ReplacesKeeps
    <2> QED BY <1>2, <2>1, <2>2, <2>3, <2>4, <2>5, <2>6, <2>7, <2>8, <2>9, <2>10 DEF callStep
  <1>3. CASE daemonEnded \/ managerStarts
    BY <1>3, ManagerKeeps
  <1>4. CASE jobDone
    BY <1>4, JobKeeps
  <1>5. CASE revoked
    BY <1>5, RevokedKeeps
  <1>6. CASE UNCHANGED vars
    BY <1>6 DEF vars, stored, enrolled, installed, HostInv, HostType, LocksHeld, Identified,
                Enrolled, Versions, Answering, Restarted, At
  <1> QED BY <1>1, <1>2, <1>3, <1>4, <1>5, <1>6 DEF Next, quiet

\* A directory that is new, or of an enrolled machine.
LEMMA HostInitially ==
  ASSUME Init
  PROVE  HostInv
  <1>1. \A p \in Procs : procs[p] = NoProc
    BY DEF Init
  <1>2. NoProc \in Proc
    BY DEF NoProc, Proc, PCs, Names
  <1>3. HostType
    BY <1>2 DEF Init, HostType, Names, Service
  <1>4. LocksHeld /\ Identified
    BY <1>1 DEF NoProc, LocksHeld, Locks, Identified
  <1>5. \A c \in Calls : ~Answering(c) /\ ~Restarted(c)
    BY <1>1, ProcNames DEF NoProc, Answering, Restarted, At
  <1>6. Enrolled
    BY <1>5 DEF Init, Enrolled
  <1>7. Versions
    BY <1>1, <1>5, ProcNames DEF Init, NoProc, Versions
  <1> QED BY <1>3, <1>4, <1>6, <1>7 DEF HostInv

\* The inductive invariant holds of every behaviour.
LEMMA HostInvariant == Spec => []HostInv
  <1>1. HostInv /\ [Next]_vars => HostInv'
    BY HostStep
  <1> QED BY <1>1, HostInitially, PTL DEF Spec

\* Whatever commands and enrollments overlap or die, the directory has one
\* identity and the credential that the gateway accepts.
THEOREM EnrollmentAlwaysCurrent == Spec => []EnrollmentCurrent
  <1>1. HostInv => EnrollmentCurrent
    BY DEF HostInv, Identified, Enrolled, Answering, EnrollmentCurrent
  <1> QED BY <1>1, HostInvariant, PTL

\* An update that has restarted the service leaves nothing older running.
THEOREM RestartedAlwaysNew == Spec => []RestartedRunsNew
  <1>1. HostInv => RestartedRunsNew
    BY DEF HostInv, Versions, Restarted, At, RestartedRunsNew
  <1> QED BY <1>1, HostInvariant, PTL
=============================================================================
