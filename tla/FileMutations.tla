---------------------------- MODULE FileMutations ----------------------------
(***************************************************************************)
(* write_file, remove_file and apply_patch of the core runtime             *)
(* (filesystem.rs, filesystem/patch.rs): the registry of receipts and its  *)
(* lock, the blocking work on the disk, and the other writers of the disk. *)
(*                                                                         *)
(* A step of the work is one call of the file system, except that the      *)
(* planning of a section reads its source and its destination in one step: *)
(* they are different paths, so a write between the two reads is a write   *)
(* before or after both.  The lock's holder is the request whose caller    *)
(* waits; a caller that drops its request releases the lock, and its work  *)
(* goes on.  Content is a sequence of at most one text: <<>> is no file.   *)
(***************************************************************************)
EXTENDS PatchText, TLC

CONSTANTS
  Paths,          \* the names the requests and the other programs use
  InitialDisk,    \* Paths -> Node
  OutsideWrites,  \* what the other programs may do: records of a path and a node
  Requests,       \* the mutations the callers may send
  MaxReceipts,    \* limits.max_file_mutation_receipts
  MaxOutside, MaxFailures, MaxLeaves, MaxRestarts,  \* how often each fault happens
  MaxFaults       \* and how many happen in all

Slots == 1..MaxLeaves + 1

None == [type |-> "none"]
File(text) == [type |-> "file", text |-> text]
Link(to) == [type |-> "link", to |-> to]

ASSUME RequestsHaveKinds ==
  /\ MaxReceipts \in Nat /\ MaxLeaves \in Nat
  /\ \A r \in Requests : r.kind \in {"write", "remove", "patch"}

\* A patch is a sequence of lines or of files, and names paths.
ASSUME PatchesNamePaths ==
  \A r \in Requests : r.kind = "patch" =>
    \/ /\ r.form = "codex" /\ r.lines \in Seq(ToSet(r.lines))
       /\ \A line \in ToSet(r.lines) :
            line.kind \in {"add", "delete", "update", "moveTo"} => line.path \in Paths
    \/ /\ r.form = "replacements" /\ r.files \in Seq(ToSet(r.files))
       /\ \A file \in ToSet(r.files) : file.path \in Paths

\* A text is a sequence of characters, a line of a patch is a text, an anchor
\* is a sequence of lines.
ASSUME TextsAreSequences ==
  /\ \A node \in {InitialDisk[p] : p \in Paths} \cup {o.node : o \in OutsideWrites} :
       node.type = "file" => node.text \in Seq(STRING)
  /\ \A r \in Requests :
       /\ r.kind = "write" => r.text \in Seq(STRING)
       /\ r.kind = "patch" /\ r.form = "codex" =>
            \A line \in ToSet(r.lines) :
              /\ line.kind \in {"+", "-", " "} => line.line \in Seq(STRING)
              /\ line.kind = "anchor" => line.line \in Seq(Seq(STRING))
       /\ r.kind = "patch" /\ r.form = "replacements" =>
            \A file \in ToSet(r.files) :
              file.edits \in Seq([old : Seq(STRING), new : Seq(STRING)])

\* Links lead to paths, and at the start after two of them to what is no link.
ASSUME LinksEnd ==
  LET next(p) == IF InitialDisk[p].type = "link" THEN InitialDisk[p].to ELSE p
  IN  /\ \A o \in OutsideWrites : o.node.type = "link" => o.node.to \in Paths
      /\ InitialDisk = [p \in Paths |-> InitialDisk[p]] /\ "" \notin Paths
      /\ \A p \in Paths : next(p) \in Paths /\ InitialDisk[next(next(p))].type # "link"

VARIABLES
  disk,      \* Paths -> Node
  registry,  \* mutation ids -> the request that used it and its answer
  lock,      \* the slot whose caller holds file_mutations, or 0
  work,      \* Slots -> a blocking task, or Idle
  answers,   \* history: the answers given by this process, per mutation id
  faults     \* how many of each fault have happened

vars == <<disk, registry, lock, work, answers, faults>>

-----------------------------------------------------------------------------
(* The disk. *)

\* follow_final_symlinks, and the resolution of target(): the links here form
\* chains of at most two, far below the limit of 40.
follow_final_symlinks(path) ==
  LET next(p) == IF disk[p].type = "link" THEN disk[p].to ELSE p IN next(next(path))

\* read_file_at, read_optional, existing_hash: the content the path leads to.
read_optional(path) ==
  LET node == disk[follow_final_symlinks(path)]
  IN  IF node.type = "file" THEN <<node.text>> ELSE <<>>

\* The staged file takes the place of what the path names, a link too.
atomic_replace(path, text) == [disk EXCEPT ![path] = File(text)]

\* The file is what the caller, or the plan, saw; <<>> stands for no file.
check_precondition(path, before) == read_optional(path) = before

Put(path, text) == [op |-> "put", path |-> path, text |-> text]
Unlinked(path) == [op |-> "unlink", path |-> path]

-----------------------------------------------------------------------------
(* The work of a request. *)

Idle == [pc |-> "idle"]

IsPatch(r) == r.kind = "patch"

\* What the patch says to do; nothing, if it cannot be read.
sections(r) ==
  CASE ~IsPatch(r) -> <<>>
    [] IsPatch(r) /\ r.form = "codex" -> LET read == parse_codex(r.lines)
         IN   IF read.ok THEN read.sections ELSE <<>>
    [] IsPatch(r) /\ r.form = "replacements" ->
         [k \in DOMAIN r.files |->
            [kind |-> "replace", path |-> r.files[k].path, moveTo |-> "",
             content |-> <<>>, chunks |-> <<>>, edits |-> r.files[k].edits]]

\* Where the blocking task starts.
Start(r) ==
  CASE IsPatch(r) -> "plan"
    [] r.kind = "write" /\ r.mode = "overwrite" -> "follow"
    [] OTHER -> "look"

\* target: what a write replaces.  done: what the task is known to have put on
\* disk.  raced: another writer came after the last look at what the next call
\* replaces.  orphan: the caller is gone.
Task(r) ==
  [request |-> r, pc |-> Start(r), at |-> 1,
   target |-> IF IsPatch(r) THEN "" ELSE r.path,
   sections |-> sections(r), view |-> <<>>, aliases |-> <<>>, steps |-> <<>>, left |-> {},
   status |-> "applied", exact |-> TRUE, changes |-> <<>>,
   done |-> <<>>, raced |-> FALSE, orphan |-> FALSE]

Step(w) == w.steps[w.at]

\* The write under way: write_file's arguments, or those commit_planned_write passes.
Write(w) ==
  IF ~IsPatch(w.request) THEN w.request
  ELSE LET s == Step(w)
       IN  [mode |-> "conditional", text |-> s.after[1],
            path |-> IF s.kind = "move" THEN s.to ELSE s.path,
            before |-> IF s.kind = "move" THEN s.toBefore ELSE s.before]

IsConditional(w) == Write(w).mode = "conditional"

\* The precondition of the call under way; a move ends with its source.
Expected(w) ==
  IF w.pc = "unlink" /\ IsPatch(w.request) THEN Step(w).before ELSE Write(w).before

Ended(w, status) == [w EXCEPT !.pc = "returned", !.status = status]

\* Faulty variant: a failure after the first write is reported as exact.
FailedExact(w, uncertain, changes) ==
  [w EXCEPT !.pc = "returned", !.changes = changes, !.exact = TRUE,
            !.status = IF changes # <<>> THEN "partial" ELSE "rejected"]

\* PatchReceipt::fail
fail(w, uncertain, changes) ==
  [w EXCEPT !.pc = "returned", !.changes = changes, !.exact = ~uncertain,
            !.status = IF uncertain \/ changes # <<>> THEN "partial" ELSE "rejected"]

\* The record of the step's change, or of a move's destination alone.
Change(s) == [kind |-> s.kind, path |-> s.path, to |-> s.to, after |-> s.after]
DestinationChange(s) ==
  [kind |-> IF s.toBefore = <<>> THEN "add" ELSE "update",
   path |-> s.to, to |-> "", after |-> s.after]

\* A move whose destination is written and whose source is not yet deleted.
DestinationWritten(w) ==
  w.pc \in {"verifySource", "unlink"} /\ Step(w).kind = "move"

\* The call under way fails.
Failing(w, code) ==
  IF ~IsPatch(w.request) THEN Ended(w, code)
  ELSE IF w.pc \in {"plan", "verifyAll", "verify", "verifyTo"} THEN fail(w, FALSE, w.changes)
  ELSE fail(w, DestinationWritten(w) \/ code # "precondition_failed",
            IF DestinationWritten(w) THEN Append(w.changes, DestinationChange(Step(w)))
            ELSE w.changes)

\* The step is recorded; the next one, or the receipt.
Recorded(w) ==
  [w EXCEPT !.changes = Append(@, Change(Step(w))),
            !.at = @ + 1,
            !.pc = IF w.at = Len(w.steps) THEN "returned" ELSE "verify"]

\* The write or the removal has its effect, which it may have found in place.
Committed(w, effect, status) ==
  LET now == [w EXCEPT !.done = Append(@, effect)]
  IN  IF ~IsPatch(w.request) THEN Ended(now, status)
      ELSE IF w.pc # "unlink" /\ Step(w).kind = "move" THEN [now EXCEPT !.pc = "verifySource"]
      ELSE Recorded(now)

\* The next call replaces or removes what was just looked at.
Ready(w, pc) == [w EXCEPT !.pc = pc, !.raced = FALSE]

-----------------------------------------------------------------------------
(* Planning: one section after another, over a view of the files as the     *)
(* sections before would leave them.                                        *)

IsMove(section) == section.moveTo # ""

\* The paths a section names, by what they lead to; two names for one file
\* are rejected, also when different sections use them.
Named(section) ==
  {section.path} \cup (IF IsMove(section) THEN {section.moveTo} ELSE {})

Aliased(aliases, section) ==
  \E n, m \in Named(section) :
    LET path == follow_final_symlinks(n)
    IN  \/ path \in DOMAIN aliases /\ aliases[path] # n
        \/ n # m /\ path = follow_final_symlinks(m)

WithAliases(aliases, section) ==
  [path \in {follow_final_symlinks(n) : n \in Named(section)} |->
     CHOOSE n \in Named(section) : path = follow_final_symlinks(n)] @@ aliases

\* state: the view of a path, read from the disk the first time.
state(view, path) ==
  IF path \in DOMAIN view THEN view[path]
  ELSE [original |-> read_optional(path), current |-> read_optional(path)]

\* What the section makes of the content before it: no text for a deletion.
After(section, before) ==
  CASE section.kind = "add" -> [ok |-> TRUE, content |-> <<section.content>>]
    [] section.kind # "add" /\ before = <<>> -> [ok |-> FALSE, content |-> <<>>]
    [] section.kind = "delete" /\ before # <<>> -> [ok |-> TRUE, content |-> <<>>]
    [] section.kind \in {"update", "replace"} /\ before # <<>> ->
         LET modified == IF section.kind = "update"
                         THEN apply_codex(before[1], section.chunks)
                         ELSE apply_replacements(before[1], section.edits)
         IN  [ok |-> modified.ok,
              content |-> IF modified.ok THEN <<modified.text>> ELSE <<>>]

\* The step of a section that leaves the content after.
Planned(w, section, after) ==
  LET path == follow_final_symlinks(section.path)
      to == follow_final_symlinks(section.moveTo)
  IN  [kind |-> CASE IsMove(section) -> "move"
                  [] section.kind = "replace" -> "update"
                  [] OTHER -> section.kind,
       path |-> path, before |-> state(w.view, path).current, after |-> after,
       to |-> IF IsMove(section) THEN to ELSE "",
       toBefore |-> IF IsMove(section) THEN state(w.view, to).current ELSE <<>>,
       section |-> section]

\* The paths that a step changes, and what it leaves there.
Touched(step) == {step.path} \cup (IF step.to = "" THEN {} ELSE {step.to})
LeftBy(step, path) == IF step.kind = "move" /\ path = step.path THEN <<>> ELSE step.after

\* Faulty variant: the view keeps what was read, whatever the sections make of it.
ViewedStale(w, step) == [p \in Touched(step) \cup DOMAIN w.view |-> state(w.view, p)]

\* The view with the step's effect.
Viewed(w, step) ==
  [p \in Touched(step) \cup DOMAIN w.view |->
     [state(w.view, p) EXCEPT !.current = IF p \in Touched(step) THEN LeftBy(step, p) ELSE @]]

\* What a section is refused for.
Refused(w, section) ==
  \/ Aliased(w.aliases, section)
  \/ section.kind = "replace" /\ follow_final_symlinks(section.path) \in DOMAIN w.view
  \/ (section.kind = "delete" \/ IsMove(section)) /\ disk[section.path].type = "link"
  \/ IsMove(section) /\ follow_final_symlinks(section.moveTo) = follow_final_symlinks(section.path)

\* What a section leaves of the work: the receipt of a refusal, or its step.
Planning(w, step, view) ==
  LET last == w.at = Len(w.sections)
  IN  [w EXCEPT !.steps = Append(@, step), !.view = view,
                !.aliases = WithAliases(@, step.section),
                !.at = IF last THEN 1 ELSE @ + 1,
                !.pc = IF last THEN "verifyAll" ELSE "plan",
                !.left = IF last THEN DOMAIN view ELSE {}]

-----------------------------------------------------------------------------
(* The steps of a blocking task. *)

\* The task in slot s becomes w and the disk stays.
Becomes(s, w) ==
  /\ work' = [work EXCEPT ![s] = w]
  /\ UNCHANGED <<disk, registry, lock, answers, faults>>

\* A call of slot s changes the disk: the tasks that are about to replace
\* something are raced if they or this one go on without the lock.
Effects(s, new, w) ==
  /\ disk' = new
  /\ work' = [t \in Slots |->
                IF t = s THEN w
                ELSE IF work[t].pc \in {"rename", "unlink"}
                        /\ (work[s].orphan \/ work[t].orphan)
                     THEN [work[t] EXCEPT !.raced = TRUE] ELSE work[t]]
  /\ UNCHANGED <<registry, lock, answers>>

\* plan_section
plans(s) ==
  LET w == work[s]
      section == w.sections[w.at]
  IN  /\ w.pc = "plan" /\ w.sections # <<>>
      /\ \E after \in {After(section, state(w.view, follow_final_symlinks(section.path)).current)} :
           IF Refused(w, section) \/ ~after.ok THEN Becomes(s, fail(w, FALSE, <<>>))
           ELSE \E step \in {Planned(w, section, after.content)} :
                  Becomes(s, Planning(w, step, Viewed(w, step)))

\* There is nothing to plan: the patch cannot be read.
refuses(s) ==
  /\ work[s].pc = "plan" /\ work[s].sections = <<>>
  /\ Becomes(s, fail(work[s], FALSE, <<>>))

\* Every path the plan looked at is read again before the first write.
verifiesAll(s) ==
  LET w == work[s]
  IN  /\ w.pc = "verifyAll"
      /\ \E p \in w.left :
           LET left == w.left \ {p}
           IN  Becomes(s, IF read_optional(p) # w.view[p].original
                          THEN fail(w, FALSE, w.changes)
                          ELSE [w EXCEPT !.left = left,
                                         !.pc = IF left = {} THEN "verify" ELSE @])

\* After its source is verified a step verifies its destination, deletes or writes.
verifies(s) ==
  LET w == work[s]
      step == Step(w)
      writes == [w EXCEPT !.pc = "look", !.target = Write(w).path]
  IN  /\ w.pc = "verify"
      /\ Becomes(s, CASE read_optional(step.path) # step.before ->
                           Failing(w, "precondition_failed")
                      [] read_optional(step.path) = step.before /\ step.kind = "move" ->
                           [w EXCEPT !.pc = "verifyTo"]
                      [] read_optional(step.path) = step.before /\ step.kind = "delete" ->
                           Ready([w EXCEPT !.target = step.path], "unlink")
                      [] OTHER -> writes)

verifiesTo(s) ==
  LET w == work[s]
  IN  /\ w.pc = "verifyTo"
      /\ Becomes(s, IF read_optional(Step(w).to) # Step(w).toBefore
                    THEN Failing(w, "precondition_failed")
                    ELSE [w EXCEPT !.pc = "look", !.target = Write(w).path])

verifiesSource(s) ==
  LET w == work[s]
  IN  /\ w.pc = "verifySource"
      /\ Becomes(s, IF read_optional(Step(w).path) # Step(w).before
                    THEN Failing(w, "precondition_failed")
                    ELSE Ready([w EXCEPT !.target = Step(w).path], "unlink"))

\* An overwrite goes where the links lead.
follows(s) ==
  LET w == work[s]
  IN  /\ w.pc = "follow"
      /\ Becomes(s, [w EXCEPT !.pc = "look", !.target = follow_final_symlinks(w.target)])

\* write_file_at: what is there may be right already, or not what the caller saw.
looks(s) ==
  LET w == work[s]
      existing == read_optional(w.target)
  IN  /\ w.pc = "look" /\ w.request.kind # "remove"
      /\ \/ /\ existing = <<Write(w).text>>
            /\ Becomes(s, Committed(w, Put(w.target, Write(w).text), "already_applied"))
         \/ /\ existing # <<Write(w).text>> /\ IsConditional(w)
            /\ Becomes(s, IF check_precondition(w.target, Write(w).before)
                          THEN [w EXCEPT !.pc = "recheck"] ELSE Failing(w, "precondition_failed"))
         \/ /\ existing # <<Write(w).text>> /\ ~IsConditional(w)
            /\ Becomes(s, Ready(w, "rename"))

\* remove_file_at
looksToRemove(s) ==
  LET w == work[s]
      existing == read_optional(w.target)
  IN  /\ w.pc = "look" /\ w.request.kind = "remove"
      /\ Becomes(s, CASE existing = <<>> -> Committed(w, Unlinked(w.target), "already_applied")
                      [] existing # <<>> /\ ~check_precondition(w.target, w.request.before) ->
                           Failing(w, "precondition_failed")
                      [] OTHER -> Ready(w, "unlink"))

\* Faulty variant: the file is not read again once the new content is staged.
rechecksNothing(s) ==
  /\ work[s].pc = "recheck"
  /\ Becomes(s, Ready(work[s], "rename"))

\* The new content is staged beside the file, and the precondition checked again.
rechecks(s) ==
  LET w == work[s]
  IN  /\ w.pc = "recheck"
      /\ Becomes(s, IF check_precondition(w.target, Write(w).before) THEN Ready(w, "rename")
                    ELSE Failing(w, "precondition_failed"))

\* A link at the target is replaced, not followed.
renames(s) ==
  LET w == work[s]
      text == Write(w).text
  IN  /\ w.pc = "rename"
      /\ Effects(s, atomic_replace(w.target, text), Committed(w, Put(w.target, text), "applied"))
      /\ UNCHANGED faults

\* fs::remove_file: a link is removed, not what it leads to.
unlinks(s) ==
  LET w == work[s]
  IN  /\ w.pc = "unlink"
      /\ IF disk[w.target] = None THEN Becomes(s, Failing(w, "not_found"))
         ELSE /\ Effects(s, [disk EXCEPT ![w.target] = None],
                         Committed(w, Unlinked(w.target), "applied"))
              /\ UNCHANGED faults

-----------------------------------------------------------------------------
(* Faults. *)

Another(fault, max) ==
  /\ faults[fault] < max /\ MapThenSumSet(LAMBDA f : faults[f], DOMAIN faults) < MaxFaults
  /\ faults' = [faults EXCEPT ![fault] = @ + 1]

\* Any call of the file system may fail, and planning may meet a limit on sizes
\* or matching work.  A failed replacement or removal may have had its effect.
fails(s) ==
  LET w == work[s]
      new == IF w.pc = "unlink" THEN [disk EXCEPT ![w.target] = None]
             ELSE atomic_replace(w.target, Write(w).text)
      took == w.pc \in {"rename", "unlink"}
  IN  /\ w.pc \notin {"idle", "returned"}
      /\ Another("failures", MaxFailures)
      /\ \/ Effects(s, disk, Failing(w, "io"))
         \/ took /\ Effects(s, new,
                            [Failing(w, "io") EXCEPT !.done = Append(@,
                               IF w.pc = "unlink" THEN Unlinked(w.target)
                               ELSE Put(w.target, Write(w).text))])

\* A program outside this runtime writes, removes or links a file.
outside ==
  /\ Another("outside", MaxOutside)
  /\ \E o \in OutsideWrites :
       /\ disk[o.path] # o.node
       /\ disk' = [disk EXCEPT ![o.path] = o.node]
  /\ work' = [t \in Slots |-> IF work[t].pc \in {"rename", "unlink"}
                              THEN [work[t] EXCEPT !.raced = TRUE] ELSE work[t]]
  /\ UNCHANGED <<registry, lock, answers>>

-----------------------------------------------------------------------------
(* The callers. *)

Answer(w) == [status |-> w.status, exact |-> w.exact, changes |-> w.changes]
Given(r, answer) == answers \cup {[id |-> r.id, answer |-> answer]}

ensure_receipt_capacity == Cardinality(DOMAIN registry) < MaxReceipts

\* Neither a replay nor a conflict, and room for one more receipt.
MayStart(r) == r.id \notin DOMAIN registry /\ ensure_receipt_capacity

\* write_file, remove_file, apply_patch up to spawn_blocking, with the lock.
begins(r) ==
  /\ lock = 0 /\ MayStart(r)
  /\ LET s == CHOOSE t \in Slots : work[t] = Idle
     IN  lock' = s /\ work' = [work EXCEPT ![s] = Task(r)]
  /\ UNCHANGED <<disk, registry, answers, faults>>

\* The same id and arguments: the recorded answer.  Other arguments are an
\* error that changes nothing, and no answer to the mutation.
replays(r) ==
  /\ lock = 0 /\ r.id \in DOMAIN registry /\ registry[r.id].request = r
  /\ answers' = Given(r, registry[r.id].answer)
  /\ UNCHANGED <<disk, registry, lock, work, faults>>

\* The registry with one more receipt.
Inserted(r, answer) ==
  [id \in DOMAIN registry \cup {r.id} |->
     IF id = r.id THEN [request |-> r, answer |-> answer] ELSE registry[id]]

\* Faulty variant: a request that failed may be tried again.
finishesIfApplied ==
  /\ lock # 0 /\ work[lock].pc = "returned"
  /\ LET w == work[lock]
     IN  /\ registry' = IF w.status \notin {"applied", "already_applied"} THEN registry
                        ELSE Inserted(w.request, Answer(w))
         /\ answers' = Given(w.request, Answer(w))
  /\ work' = [work EXCEPT ![lock] = Idle]
  /\ lock' = 0
  /\ UNCHANGED <<disk, faults>>

\* The outcome, an error too, is recorded and answered.
finishes ==
  /\ lock # 0 /\ work[lock].pc = "returned"
  /\ LET w == work[lock]
     IN  /\ registry' = Inserted(w.request, Answer(w))
         /\ answers' = Given(w.request, Answer(w))
  /\ work' = [work EXCEPT ![lock] = Idle]
  /\ lock' = 0
  /\ UNCHANGED <<disk, faults>>

\* The caller drops its request: the lock is free, the task goes on.
leaves ==
  /\ lock # 0 /\ Another("leaves", MaxLeaves)
  /\ work' = [work EXCEPT ![lock].orphan = TRUE]
  /\ lock' = 0
  /\ UNCHANGED <<disk, registry, answers>>

\* The outcome of such a task is dropped.
forgets(s) ==
  /\ work[s].pc = "returned" /\ work[s].orphan
  /\ Becomes(s, Idle)

\* The process ends, and another starts with an empty registry.
restarts ==
  /\ Another("restarts", MaxRestarts)
  /\ registry' = <<>> /\ lock' = 0 /\ answers' = {}
  /\ work' = [s \in Slots |-> Idle]
  /\ UNCHANGED disk

-----------------------------------------------------------------------------
Init ==
  /\ disk = InitialDisk
  /\ registry = <<>> /\ lock = 0 /\ answers = {}
  /\ work = [s \in Slots |-> Idle]
  /\ faults = [outside |-> 0, failures |-> 0, leaves |-> 0, restarts |-> 0]

task(s) ==
  \/ plans(s) \/ refuses(s) \/ verifiesAll(s) \/ verifies(s) \/ verifiesTo(s) \/ verifiesSource(s)
  \/ follows(s) \/ looks(s) \/ looksToRemove(s) \/ rechecks(s) \/ renames(s) \/ unlinks(s)

Next ==
  \/ \E s \in Slots : task(s) \/ fails(s) \/ forgets(s)
  \/ \E r \in Requests : begins(r) \/ replays(r)
  \/ finishes \/ leaves \/ restarts \/ outside

Spec == Init /\ [][Next]_vars

-----------------------------------------------------------------------------
(* Properties of the receipts and of the disk. *)

\* Within a process a mutation id has one answer, however often the request is
\* sent again, whatever it failed for, and whoever stopped waiting (the
\* registry's lookup and insertion under file_mutations).
OneAnswerPerMutation ==
  \A a, b \in answers : a.id = b.id => a.answer = b.answer

\* A conditional write, a removal or a patch replaces only what its caller or
\* its plan saw, unless another program, or a task that went on without the
\* lock, wrote after the last look (write_file_at, remove_file_at, execute).
NoLostUpdate ==
  [][\A s \in Slots :
       LET w == work[s]
       IN  (/\ w.pc \in {"rename", "unlink"}
            /\ w.request.kind # "write" \/ w.request.mode = "conditional"
            /\ work'[s].pc # "idle" /\ work'[s].done # w.done)
           => (w.raced \/ read_optional(w.target) = Expected(w))]_vars

\* What a change says was done to the disk.
EffectsOf(c) ==
  CASE c.kind = "delete" -> <<Unlinked(c.path)>>
    [] c.kind = "move" -> <<Put(c.to, c.after[1]), Unlinked(c.path)>>
    [] c.kind \in {"add", "update"} -> <<Put(c.path, c.after[1])>>

ReturnedPatches ==
  {work[s] : s \in {t \in Slots : work[t].pc = "returned" /\ IsPatch(work[t].request)}}

\* A patch's receipt tells what happened however far it came: exact changes are
\* all of them, uncertain ones miss at most the call that failed, a rejected
\* patch changed nothing and an applied one did every step (execute, fail).
PatchReportsTruth ==
  \A w \in ReturnedPatches :
    LET told == FlattenSeq([k \in DOMAIN w.changes |-> EffectsOf(w.changes[k])])
    IN  /\ w.exact => w.done = told
        /\ IsPrefix(told, w.done) /\ Len(w.done) <= Len(told) + 1
        /\ w.status = "rejected" => w.done = <<>> /\ w.exact
        /\ w.status = "applied" => Len(w.changes) = Len(w.sections)

\* Sections that build on each other, through links and moves, leave the files
\* as the plan saw them, when nobody else writes (plan_section's view).
AppliedAsPlanned ==
  \A w \in ReturnedPatches :
    (w.status = "applied" /\ faults.outside = 0 /\ faults.leaves = 0)
    => \A p \in DOMAIN w.view : read_optional(p) = w.view[p].current

-----------------------------------------------------------------------------
(* The text algorithms against references that say what the result is and   *)
(* not how it is found.                                                     *)

\* at: where each hunk goes.  short: it goes without its trailing blank line.
IsPlacement(lines, chunks, at, short) ==
  LET old(k) == IF short[k] THEN Front(chunks[k].old) ELSE chunks[k].old
      matched == {k \in DOMAIN chunks : chunks[k].old # <<>>}
  IN  /\ \A k \in DOMAIN chunks :
           /\ short[k] => k \in matched /\ Last(chunks[k].old) = <<>>
           /\ k \notin matched => at[k] = Len(lines)
           /\ chunks[k].anchor # <<>> =>
                \E a \in 0..Len(lines) - 1 :
                  (k \in matched => a < at[k]) /\ Fits(lines, chunks[k].anchor, a, 3)
      /\ \A k \in matched :
           /\ at[k] + Len(old(k)) <= Len(lines)
           /\ Fits(lines, old(k), at[k], 3)
           /\ chunks[k].eof => at[k] + Len(old(k)) = Len(lines)
           /\ \A j \in matched : j < k => at[j] + Len(old(j)) <= at[k]

\* Every line that no hunk matched stays, the new ones in the place of the old.
Assembled(lines, chunks, at, short) ==
  LET count(k) == Len(chunks[k].old) - (IF short[k] THEN 1 ELSE 0)
      new(k) == IF short[k] THEN DropBlank(chunks[k].new) ELSE chunks[k].new
      here(i) == FlattenSeq([k \in DOMAIN chunks |-> IF at[k] = i THEN new(k) ELSE <<>>])
      covered(i) == \E k \in DOMAIN chunks : at[k] <= i /\ i < at[k] + count(k)
  IN  FlattenSeq([n \in 1..Len(lines) + 1 |->
        here(n - 1) \o (IF n > Len(lines) \/ covered(n - 1) THEN <<>> ELSE <<lines[n]>>)])

IsCodexResult(before, chunks, after) ==
  LET lines == LinesOf(before)
  IN  \E at \in [DOMAIN chunks -> 0..Len(lines)], short \in [DOMAIN chunks -> BOOLEAN] :
        /\ IsPlacement(lines, chunks, at, short)
        /\ after = join(Terminated(Assembled(lines, chunks, at, short)))

\* at: where each old text is; it is nowhere else, the places are disjoint.
IsReplacementResult(before, edits, after) ==
  LET base == Normalized(WithoutBom(before))
      old(k) == Normalized(edits[k].old)
      Apart(i, m, j, n) == i + m <= j \/ j + n <= i
      kept(at, i) == \A k \in DOMAIN edits : i < at[k] \/ at[k] + Len(old(k)) <= i
      here(at, i) == FlattenSeq([k \in DOMAIN edits |->
                       IF at[k] = i THEN Normalized(edits[k].new) ELSE <<>>])
      marked == IsBom(before)
  IN  /\ marked => IsBom(after)
      /\ \A k \in DOMAIN after :
           after[k] = LF => (k > 1 /\ after[k - 1] = CR) = IsCrlf(WithoutBom(before))
      /\ \E at \in [DOMAIN edits -> 0..Len(base)] :
           /\ \A k \in DOMAIN edits :
                /\ at[k] \in Occurrences(base, old(k))
                /\ \A o \in Occurrences(base, old(k)) :
                     o = at[k] \/ ~Apart(o, Len(old(k)), at[k], Len(old(k)))
                /\ \A j \in DOMAIN edits :
                     j # k => Apart(at[k], Len(old(k)), at[j], Len(old(j)))
           /\ Normalized(IF marked THEN Tail(after) ELSE after) =
                FlattenSeq([n \in 1..Len(base) + 1 |->
                  here(at, n - 1)
                    \o (IF n > Len(base) \/ ~kept(at, n - 1) THEN <<>> ELSE <<base[n]>>)])

PlannedSteps ==
  UNION {{work[s].steps[k] : k \in DOMAIN work[s].steps} :
           s \in {t \in Slots : work[t].pc = "verifyAll"}}

\* An update changes the matched lines and no others: hunks in order, each on
\* lines it describes up to whitespace and punctuation, insertions at the end,
\* whatever the file holds by then (apply_codex, seek).
CodexAgrees ==
  \A step \in PlannedSteps :
    step.section.kind = "update" =>
      IsCodexResult(step.before[1], step.section.chunks, step.after[1])

\* Replacements take place all at once, each where its text is and nowhere
\* else.  The byte order mark stays; line ends all take the style of the first
\* one, LF or CR LF, and a CR alone becomes one too (apply_replacements).
ReplacementsAgree ==
  \A step \in PlannedSteps :
    step.section.kind = "replace" =>
      IsReplacementResult(step.before[1], step.section.edits, step.after[1])
=============================================================================
