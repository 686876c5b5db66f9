---------------------------- MODULE OutputJournal ----------------------------
(***************************************************************************)
(* The two stores of an execution's output: the bounded journal that       *)
(* observers read by cursor (journal.rs) and the file and preview of a run *)
(* (session.rs OutputSpool).  Operators only.                              *)
(*                                                                         *)
(* A byte is its position in the output, counted from 0; a chunk is a      *)
(* stream and a sequence of bytes.                                         *)
(***************************************************************************)
EXTENDS Integers, Sequences, SequencesExt

Chunk(stream, data) == [stream |-> stream, data |-> data]

\* The bytes of a sequence of chunks.
Bytes(chunks) == FlattenSeq([k \in DOMAIN chunks |-> chunks[k].data])

-----------------------------------------------------------------------------
(* Journal. *)

NewJournal == [chunks |-> <<>>, start |-> 0, end |-> 0, revision |-> 0]

\* The last count bytes of the chunks: whole ones go, the first that stays
\* loses its front.
KeptChunks(chunks, count) ==
  LET before(k) == Len(Bytes(SubSeq(chunks, k + 1, Len(chunks))))  \* the bytes behind
      room(k) == count - before(k)
      first == Min({Len(chunks) + 1} \cup {k \in DOMAIN chunks : room(k) > 0})
      kept(k) == IF room(k) >= Len(chunks[k].data) THEN chunks[k]
                 ELSE [chunks[k] EXCEPT !.data =
                         SubSeq(@, Len(@) - room(k) + 1, Len(@))]
  IN  [n \in 1..Len(chunks) - first + 1 |-> kept(first + n - 1)]

\* Journal::append
append(journal, capacity, stream, data) ==
  LET end == journal.end + Len(data)
      start == Max({journal.start, end - capacity})
  IN  [journal EXCEPT !.end = end, !.start = start,
                      !.chunks = KeptChunks(Append(@, Chunk(stream, data)), end - start)]

Revised(journal) == [journal EXCEPT !.revision = @ + 1]

\* A cursor is an offset and a revision; NoCursor reads from the start.
NoCursor == [offset |-> 0, revision |-> -1]

\* What lies between two positions: the chunks that meet it, which follow one
\* another, each without what is outside.
Cut(journal, begin, end) ==
  LET data(k) == journal.chunks[k].data
      from(k) == Max({begin, data(k)[1]})
      to(k) == Min({end, data(k)[1] + Len(data(k))})
      here == {k \in DOMAIN journal.chunks : from(k) < to(k)}
      first == Min(here \cup {Len(journal.chunks) + 1})
      last == Max(here \cup {0})
      part(k) == [journal.chunks[k] EXCEPT
                    !.data = SubSeq(@, from(k) - @[1] + 1, to(k) - @[1])]
  IN  [n \in 1..last - first + 1 |-> part(first + n - 1)]

\* Faulty variant: the discarded part is skipped and not told.
GapNever(journal, requested) == FALSE

Gap(journal, requested) == requested < journal.start

\* Journal::read
read(journal, cursor, limit, finished) ==
  LET begin == Max({cursor.offset, journal.start})
      end == Min({journal.end, begin + limit})
      output == Cut(journal, begin, end)
      gap == Gap(journal, cursor.offset)
      news == output # <<>> \/ gap \/ cursor.revision < journal.revision
  IN  [output |-> output,
       next |-> [offset |-> end, revision |-> journal.revision],
       has_more |-> end < journal.end,
       gap |-> gap,
       reason |-> CASE end - begin >= limit -> "output_limit"
                    [] end - begin < limit /\ finished -> "finished"
                    [] end - begin < limit /\ ~finished /\ news -> "activity"
                    [] OTHER -> "wait_elapsed"]

-----------------------------------------------------------------------------
(* Spool. *)

\* size: what the file holds, always a prefix of the output.
NewSpool == [size |-> 0, open |-> TRUE, error |-> FALSE, captured |-> 0, tail |-> <<>>]

TailBytes(spool) == Len(Bytes(spool.tail))

\* OutputSpool::append, of which the file takes count bytes.
spoolAppend(spool, tailCapacity, stream, data, count) ==
  LET tail == Append(spool.tail, Chunk(stream, data))
  IN  [spool EXCEPT !.captured = @ + Len(data),
                    !.tail = IF tailCapacity = 0 THEN @
                             ELSE KeptChunks(tail, Min({tailCapacity, Len(Bytes(tail))})),
                    !.size = IF spool.open THEN @ + count ELSE @,
                    !.error = @ \/ (spool.open /\ count < Len(data)),
                    !.open = @ /\ count = Len(data)]

\* finalize; flushed: the file was synchronised.
finalize(spool, flushed) ==
  [spool EXCEPT !.open = FALSE, !.error = @ \/ (spool.open /\ ~flushed)]

\* preview
preview(spool, limit) ==
  KeptChunks(spool.tail, Min({limit, TailBytes(spool)}))

\* output_file's flag.
Complete(spool, incomplete) == ~incomplete /\ ~spool.error

\* run_result
run_result(spool, incomplete, limit) ==
  LET output == preview(spool, limit)
  IN  [complete |-> Complete(spool, incomplete), size |-> spool.size, output |-> output,
       truncated |-> incomplete \/ spool.captured > Len(Bytes(output))]
=============================================================================
