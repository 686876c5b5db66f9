----------------------------- MODULE ExecutionIO -----------------------------
(***************************************************************************)
(* The input and output of one execution (session.rs, runtime.rs observe): *)
(* the task that owns the child, the readers of its streams, the writer of *)
(* its stdin, the callers that write and close, resize and terminate,      *)
(* and the observers that wait for output.                                 *)
(*                                                                         *)
(* A step is what happens under the session's lock.  The notification that *)
(* follows comes after the unlock: owed holds who still has to call        *)
(* notify_waiters.                                                         *)
(***************************************************************************)
EXTENDS OutputJournal, FiniteSets

CONSTANTS
  Streams,           \* the readers: stdout and stderr
  Observers,
  Inputs,            \* the input ids of the callers
  Size,              \* Inputs -> the number of bytes
  Capacity,          \* max_retained_output_bytes
  TailCapacity,      \* the preview's limit
  QueueCapacity,     \* max_queued_input_bytes
  MaxReceipts,       \* max_input_receipts
  Limits,            \* what an observation may ask for as max_output_bytes
  MaxOutput,         \* the bytes the child writes
  PipeCapacity,      \* the bytes a pipe holds
  MaxObservations,   \* the calls of an observer
  MaxControls,       \* resizes and terminations
  MaxFaults          \* file and pipe errors, timeouts of the drain

ASSUME SizesAreBytes ==
  /\ Size \in [Inputs -> Nat \ {0}] /\ QueueCapacity \in Nat /\ Capacity \in Nat \ {0}
  /\ TailCapacity \in Nat /\ Limits \subseteq Nat \ {0}

\* The end of input travels in the same channel and is none of the inputs.
ASSUME EndIsNoInput == "close" \notin Inputs

VARIABLES
  phase,       \* the owner: new, running, exited, drained, over
  state,       \* execution.state
  terminated,  \* stop_deadline is set
  pipe,        \* Streams -> the bytes the child wrote and nobody read yet
  ended,       \* the streams whose writers are all gone
  readers,     \* Streams -> reading, eof, failed
  journal, spool, incomplete,
  origin,      \* history: the stream of every byte read
  observers,   \* Observers -> a call
  owed,        \* who changed something and has not notified yet
  stdin,       \* open, closing, closed
  queue,       \* the input channel: input ids and "close"
  tx,          \* input_tx is there
  writer,      \* the writer task: idle, writing, closing, stopping, done
  current,     \* the input the writer has taken, which keeps its permit
  receipts,    \* history: the inputs accepted, in order
  written,     \* history: what the child got of them
  faults, controls

ownVars == <<phase, state, terminated>>
outVars == <<pipe, ended, readers, journal, spool, incomplete, origin>>
inVars == <<stdin, queue, tx, writer, current, receipts, written>>
vars == <<ownVars, outVars, inVars, observers, owed, faults, controls>>

Finished == state = "finished"

\* What changed under the lock is announced by who, after the unlock.
Owes(who) == owed' = owed \cup {who}

notify(who) ==
  /\ who \in owed /\ owed' = owed \ {who}
  /\ observers' = [o \in Observers |->
       IF observers[o].pc \in {"armed", "quiet", "asleep"} THEN [observers[o] EXCEPT !.signal = TRUE]
       ELSE observers[o]]
  /\ UNCHANGED <<ownVars, outVars, inVars, faults, controls>>

-----------------------------------------------------------------------------
(* Stdin. *)

Queued == {queue[k] : k \in DOMAIN queue} \ {"close"}

\* The permits taken: those of the queue and of the input being written.
Taken == FoldSet(LAMBDA i, n : n + Size[i], 0, Queued \cup current)

\* The conditions under which write accepts a new input.
MayWrite(i) ==
  /\ i \notin ToSet(receipts) /\ Len(receipts) < MaxReceipts
  /\ state = "running" /\ stdin = "open" /\ tx /\ Taken + Size[i] <= QueueCapacity

\* Session::write.  A known id answers its receipt, or a conflict if the bytes
\* differ: neither changes anything.  (An empty input leaves only its receipt.)
write(i) ==
  /\ MayWrite(i)
  /\ receipts' = Append(receipts, i)
  /\ queue' = Append(queue, i)
  /\ UNCHANGED <<ownVars, outVars, observers, owed, stdin, tx, writer, current, written,
                 faults, controls>>

\* Faulty variant: the close does not wait for its turn.
closeFirst ==
  /\ stdin = "open" /\ tx
  /\ stdin' = "closing" /\ queue' = <<"close">> \o queue
  /\ UNCHANGED <<ownVars, outVars, observers, owed, tx, writer, current, receipts, written,
                 faults, controls>>

\* close_input: behind the input accepted so far.
close_input ==
  /\ stdin = "open" /\ tx
  /\ stdin' = "closing" /\ queue' = Append(queue, "close")
  /\ UNCHANGED <<ownVars, outVars, observers, owed, tx, writer, current, receipts, written,
                 faults, controls>>

\* write_input takes the next element of the channel, or sees that no more
\* will come.
takes ==
  /\ writer = "idle"
  /\ \/ queue = <<>> /\ ~tx /\ writer' = "stopping" /\ UNCHANGED <<queue, current>>
     \/ /\ queue # <<>> /\ queue' = Tail(queue)
        /\ IF Head(queue) = "close" THEN writer' = "closing" /\ UNCHANGED current
           ELSE writer' = "writing" /\ current' = {Head(queue)}
  /\ UNCHANGED <<ownVars, outVars, observers, owed, stdin, tx, receipts, written, faults, controls>>

\* The child has all of it, or sees the end of its input.
puts ==
  /\ \/ /\ writer = "writing" /\ writer' = "idle" /\ current' = {}
        /\ written' = written \o SetToSeq(current)
     \/ /\ writer = "closing" /\ writer' = "stopping" /\ UNCHANGED current
        /\ written' = Append(written, "close")
  /\ UNCHANGED <<ownVars, outVars, observers, owed, stdin, queue, tx, receipts, faults, controls>>

\* A write fails: the task ends, and what is queued is never written.
putFails ==
  /\ writer \in {"writing", "closing"} /\ faults < MaxFaults /\ faults' = faults + 1
  /\ writer' = "failing" /\ UNCHANGED <<current, written>>
  /\ UNCHANGED <<ownVars, outVars, observers, owed, stdin, queue, tx, receipts, controls>>

\* The end of write_input: closed, by an error or after the end of input.  The
\* channel's receiver is dropped with what it holds.
writerEnds ==
  /\ writer \in {"stopping", "failing"}
  /\ writer' = "done" /\ stdin' = "closed" /\ tx' = FALSE /\ current' = {} /\ queue' = <<>>
  /\ journal' = IF writer = "failing" THEN Revised(journal) ELSE journal
  /\ Owes("writer")
  /\ UNCHANGED <<ownVars, pipe, ended, readers, spool, incomplete, origin, observers,
                 receipts, written, faults, controls>>

stdinStep == (\E i \in Inputs : write(i)) \/ close_input \/ takes \/ puts \/ putFails \/ writerEnds

-----------------------------------------------------------------------------
(* The owner (run), which notifies before it goes on. *)

Owner == "owner" \notin owed

\* The child is there; a termination that came before keeps it stopping.
launches ==
  /\ phase = "new" /\ phase' = "running"
  /\ state' = IF terminated THEN state ELSE "running"
  /\ tx' = (stdin = "open") /\ writer' = IF tx' THEN "idle" ELSE "done"
  /\ journal' = Revised(journal) /\ Owes("owner")
  /\ UNCHANGED <<terminated, pipe, ended, readers, spool, incomplete, origin, observers,
                 stdin, queue, current, receipts, written, faults, controls>>

\* Session::finish
Finishes(flushed) ==
  /\ phase' = "over" /\ state' = "finished"
  /\ spool' = finalize(spool, flushed)
  /\ incomplete' = (incomplete \/ spool'.error)
  /\ stdin' = "closed" /\ tx' = FALSE
  /\ journal' = Revised(journal) /\ Owes("owner")
  /\ UNCHANGED <<terminated, pipe, ended, origin, observers, queue, current,
                 receipts, written, controls>>

spawnFails ==
  /\ phase = "new" /\ faults < MaxFaults /\ faults' = faults + 1
  /\ Finishes(TRUE) /\ writer' = "done"
  /\ readers' = [s \in Streams |-> "eof"]

\* The direct child exits: no more input, while its descendants may still write.
rootExits ==
  /\ phase = "running" /\ Owner
  /\ phase' = "exited" /\ state' = "stopping" /\ stdin' = "closed" /\ tx' = FALSE
  /\ journal' = Revised(journal) /\ Owes("owner")
  /\ UNCHANGED <<terminated, pipe, ended, readers, spool, incomplete, origin, observers,
                 queue, writer, current, receipts, written, faults, controls>>

\* The writer is aborted at an await, with what it holds, and the descendants
\* are killed.
killsRest ==
  /\ phase = "exited" /\ Owner /\ "writer" \notin owed /\ writer \notin {"stopping", "failing"}
  /\ phase' = "draining" /\ writer' = "done" /\ queue' = <<>> /\ current' = {}
  /\ UNCHANGED <<state, terminated, outVars, observers, owed, stdin, tx, receipts, written,
                 faults, controls>>

\* Faulty variant: only the timeout of the drain makes the output incomplete.
drainsAny ==
  /\ phase = "draining" /\ \A s \in Streams : readers[s] # "reading" /\ s \notin owed
  /\ phase' = "drained"
  /\ UNCHANGED <<state, terminated, pipe, ended, readers, journal, spool, incomplete, origin,
                 inVars, observers, owed, faults, controls>>

\* Every reader is joined; one that failed leaves the output incomplete.
drains ==
  /\ phase = "draining" /\ \A s \in Streams : readers[s] # "reading" /\ s \notin owed
  /\ phase' = "drained"
  /\ incomplete' = (incomplete \/ \E s \in Streams : readers[s] = "failed")
  /\ UNCHANGED <<state, terminated, pipe, ended, readers, journal, spool, origin,
                 inVars, observers, owed, faults, controls>>

\* output_drain_timeout: the readers are aborted at their next await.
drainTimesOut ==
  /\ phase = "draining" /\ faults < MaxFaults /\ faults' = faults + 1
  /\ \A s \in Streams : s \notin owed
  /\ phase' = "drained" /\ incomplete' = TRUE
  /\ readers' = [s \in Streams |-> IF readers[s] = "reading" THEN "aborted" ELSE readers[s]]
  /\ UNCHANGED <<state, terminated, pipe, ended, journal, spool, origin,
                 inVars, observers, owed, controls>>

finishes ==
  /\ phase = "drained"
  /\ \E flushed \in BOOLEAN :
       /\ Finishes(flushed)
       /\ IF flushed THEN UNCHANGED faults ELSE faults < MaxFaults /\ faults' = faults + 1
  /\ UNCHANGED <<readers, writer>>

ownerStep ==
  launches \/ spawnFails \/ rootExits \/ killsRest \/ drains \/ drainTimesOut \/ finishes

-----------------------------------------------------------------------------
(* The child, its descendants, and the readers. *)

Produced == Len(origin) + FoldSet(LAMBDA s, n : n + pipe[s], 0, Streams)

childWrites(s) ==
  /\ phase \notin {"new", "over"} /\ s \notin ended
  /\ Produced < MaxOutput /\ pipe[s] < PipeCapacity
  /\ pipe' = [pipe EXCEPT ![s] = @ + 1]
  /\ UNCHANGED <<ownVars, inVars, ended, readers, journal, spool, incomplete, origin,
                 observers, owed, faults, controls>>

childCloses(s) ==
  /\ phase \notin {"new", "over"} /\ ended' = ended \cup {s} /\ s \notin ended
  /\ UNCHANGED <<ownVars, inVars, pipe, readers, journal, spool, incomplete, origin,
                 observers, owed, faults, controls>>

\* read_output: into the journal, and into the file, which may take a part only.
reads(s) ==
  /\ phase \notin {"new", "over"} /\ readers[s] = "reading" /\ s \notin owed
  /\ \E n \in 1..pipe[s] :
       /\ pipe' = [pipe EXCEPT ![s] = @ - n]
       /\ origin' = origin \o [k \in 1..n |-> s]
       /\ LET data == [k \in 1..n |-> Len(origin) + k - 1]
          IN  /\ journal' = append(journal, Capacity, s, data)
              /\ \E count \in 0..n :
                   /\ spool' = spoolAppend(spool, TailCapacity, s, data, count)
                   /\ IF count = n \/ ~spool.open THEN count = n /\ UNCHANGED faults
                      ELSE faults < MaxFaults /\ faults' = faults + 1
       /\ incomplete' = (incomplete \/ spool'.error)
  /\ Owes(s)
  /\ UNCHANGED <<ownVars, inVars, ended, readers, observers, controls>>

readerEnds(s) ==
  /\ readers[s] = "reading" /\ s \notin owed /\ phase \notin {"new", "over"}
  /\ \/ pipe[s] = 0 /\ s \in ended /\ readers' = [readers EXCEPT ![s] = "eof"]
        /\ UNCHANGED faults
     \/ faults < MaxFaults /\ faults' = faults + 1
        /\ readers' = [readers EXCEPT ![s] = "failed"]
  /\ UNCHANGED <<ownVars, inVars, pipe, ended, journal, spool, incomplete, origin,
                 observers, owed, controls>>

outputStep == \E s \in Streams : childWrites(s) \/ childCloses(s) \/ reads(s) \/ readerEnds(s)

-----------------------------------------------------------------------------
(* Other callers. *)

\* Session::terminate, the first time and before the child's exit.
terminates ==
  /\ phase \in {"new", "running"} /\ ~terminated
  /\ controls < MaxControls /\ controls' = controls + 1
  /\ terminated' = TRUE /\ state' = "stopping"
  /\ journal' = Revised(journal) /\ Owes("caller")
  /\ UNCHANGED <<phase, inVars, pipe, ended, readers, spool, incomplete, origin,
                 observers, faults>>

resize_terminal ==
  /\ state = "running" /\ controls < MaxControls /\ controls' = controls + 1
  /\ journal' = Revised(journal) /\ Owes("caller")
  /\ UNCHANGED <<ownVars, inVars, pipe, ended, readers, spool, incomplete, origin,
                 observers, faults>>

-----------------------------------------------------------------------------
(* Observers: observe_session. *)

NoObservation == [requested |-> 0, output |-> <<>>, next |-> NoCursor, gap |-> FALSE,
                  has_more |-> FALSE, reason |-> "none"]

Ready == [pc |-> "idle", cursor |-> NoCursor, when |-> "activity", limit |-> 0,
          signal |-> FALSE, late |-> FALSE, calls |-> 0, last |-> NoObservation]

Immediate(o, observation) ==
  \/ observation.reason \in {"finished", "output_limit"}
  \/ observers[o].when = "activity" /\ observation.reason = "activity"

Seen(o) == read(journal, observers[o].cursor, observers[o].limit, Finished)

Observes(o, new) ==
  /\ observers' = [observers EXCEPT ![o] = new]
  /\ UNCHANGED <<ownVars, outVars, inVars, owed, faults, controls>>

\* The notification is awaited from here on, before anything is read.
observe(o) ==
  /\ observers[o].pc = "idle" /\ observers[o].calls < MaxObservations
  /\ \E when \in {"activity", "finished"} : \E limit \in Limits :
       Observes(o, [observers[o] EXCEPT !.pc = "armed", !.when = when, !.limit = limit,
                                        !.calls = @ + 1])

\* The answer; the caller goes on from its cursor, or, having lost the answer,
\* from the one it had.
Answered(o, observation, cursor) ==
  [Ready EXCEPT !.cursor = cursor, !.calls = observers[o].calls,
     !.last = [requested |-> observers[o].cursor.offset, output |-> observation.output,
               next |-> observation.next, gap |-> observation.gap,
               has_more |-> observation.has_more, reason |-> observation.reason]]

looks(o) ==
  LET observation == Seen(o)
  IN  /\ observers[o].pc = "armed"
      /\ \/ /\ Immediate(o, observation)
            /\ \E cursor \in {observation.next, observers[o].cursor} :
                 Observes(o, Answered(o, observation, cursor))
         \/ /\ ~Immediate(o, observation) /\ observers[o].late
            /\ Observes(o, Answered(o, [observation EXCEPT !.reason = "wait_elapsed"],
                                    observation.next))
         \/ /\ ~Immediate(o, observation) /\ ~observers[o].late
            /\ Observes(o, [observers[o] EXCEPT !.pc = "quiet"])

\* Faulty variant: the notification is awaited only after the read.
sleepsUnarmed(o) ==
  /\ observers[o].pc = "quiet"
  /\ Observes(o, [observers[o] EXCEPT !.pc = "asleep", !.signal = FALSE])

\* Nothing to answer yet: the call waits for the notification it has armed.
sleeps(o) ==
  /\ observers[o].pc = "quiet" /\ Observes(o, [observers[o] EXCEPT !.pc = "asleep"])

\* Notified, or at the deadline: the loop reads once more.
wakes(o) ==
  /\ observers[o].pc = "asleep"
  /\ \E late \in BOOLEAN :
       /\ late \/ observers[o].signal
       /\ Observes(o, [observers[o] EXCEPT !.pc = "armed", !.signal = FALSE, !.late = late])

observerStep == \E o \in Observers : observe(o) \/ looks(o) \/ sleeps(o) \/ wakes(o)

-----------------------------------------------------------------------------
\* A child with or without a stdin, which may close its streams at once;
\* observers that call or never do; and so many faults and controls to come.
Init ==
  /\ phase = "new" /\ state = "starting" /\ terminated = FALSE
  /\ pipe = [s \in Streams |-> 0] /\ ended \in {{}, Streams}
  /\ readers = [s \in Streams |-> "reading"]
  /\ journal = NewJournal /\ spool = NewSpool /\ incomplete = FALSE /\ origin = <<>>
  /\ observers \in [Observers -> {Ready, [Ready EXCEPT !.calls = MaxObservations]}]
  /\ owed = {} /\ stdin \in {"open", "closed"}
  /\ queue = <<>> /\ tx = FALSE /\ writer = "none" /\ current = {}
  /\ receipts = <<>> /\ written = <<>>
  /\ faults \in 0..MaxFaults /\ controls \in 0..MaxControls

Next ==
  \/ ownerStep \/ outputStep \/ stdinStep \/ observerStep \/ terminates \/ resize_terminal
  \/ \E who \in Streams \cup {"owner", "writer", "caller"} : notify(who)

Spec == Init /\ [][Next]_vars

-----------------------------------------------------------------------------
\* What an observer gets goes on where its cursor stands, byte for byte and with
\* the stream each came from, or says that there is a gap; and the answer that
\* the execution is over comes with the last of its output (Journal::append, read).
NothingSilentlySkipped ==
  \A o \in Observers :
    LET seen == observers[o].last
        output == Bytes(seen.output)
        first == seen.next.offset - Len(output)
    IN  seen # NoObservation =>
          /\ output = [k \in 1..Len(output) |-> first + k - 1]
          /\ IF seen.gap THEN first > seen.requested ELSE first = seen.requested
          /\ \A k \in DOMAIN seen.output : \A n \in DOMAIN seen.output[k].data :
               origin[seen.output[k].data[n] + 1] = seen.output[k].stream
          /\ seen.reason = "finished" => seen.next.offset = Len(origin) /\ ~seen.has_more

\* An observer sleeps only while there is nothing it waits for, or somebody is
\* about to notify it: a change between its read and its sleep is not lost
\* (enable before read in observe_session, notify_waiters after every change).
NoLostWakeup ==
  \A o \in Observers :
    observers[o].pc = "asleep" /\ ~observers[o].signal /\ Immediate(o, Seen(o))
    => owed # {}

\* The child gets the accepted inputs once each and in the order of acceptance,
\* and the end of input after all of them, though calls are repeated, the queue
\* is full and the close comes in between; and what is accepted and not yet
\* written never exceeds the queue (write, close_input, write_input).
InputOnceInOrder ==
  /\ IsInjective(receipts) /\ IsPrefix(written, Append(receipts, "close"))
  /\ Taken <= QueueCapacity

\* A run's file that is called complete holds all that the command wrote, and a
\* preview not called truncated shows all of it, whichever reader failed or was
\* cut off and whatever the file could not take (drain, append, run_result).
CompleteFileIsWhole ==
  LET result == run_result(spool, incomplete, TailCapacity)
      output == Bytes(result.output)
  IN  phase = "over" =>
        /\ result.complete => result.size = Len(origin) /\ \A s \in Streams : pipe[s] = 0
        /\ ~result.truncated => Len(output) = Len(origin)
        /\ output = [k \in 1..Len(output) |-> Len(origin) - Len(output) + k - 1]
=============================================================================
