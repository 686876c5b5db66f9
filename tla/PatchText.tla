------------------------------ MODULE PatchText ------------------------------
(***************************************************************************)
(* The text algorithms of apply_patch (filesystem/patch.rs): reading a     *)
(* patch, placing the hunks of an update, replacing unique substrings.     *)
(* Operators only.                                                         *)
(*                                                                         *)
(* A text is a sequence of characters, each a string, since the matching   *)
(* tells whitespace, line ends and typographic punctuation apart: "\n",    *)
(* "\r", " ", "~" for a character that punctuation() maps to "-", "bom"    *)
(* for the byte order mark; every other string is an ordinary character.   *)
(* A line is a text without "\n"; a position is the number of elements     *)
(* before it.  The limits on bytes and on matching work are left out here: *)
(* FileMutations lets every planning step meet one.                        *)
(***************************************************************************)
EXTENDS Integers, Sequences, SequencesExt

LF == "\n"
CR == "\r"
Space == {" ", CR}

-----------------------------------------------------------------------------
(* Lines. *)

\* text.split('\n')
split(text) ==
  FoldLeft(LAMBDA lines, c : IF c = LF THEN Append(lines, <<>>)
                             ELSE [lines EXCEPT ![Len(lines)] = Append(@, c)],
           << <<>> >>, text)

\* lines.join("\n")
join(lines) ==
  FlattenSeq([k \in DOMAIN lines |-> IF k = 1 THEN lines[k] ELSE <<LF>> \o lines[k]])

\* The text's lines: split leaves an empty one after the final line end.
LinesOf(text) ==
  LET lines == split(text) IN IF Last(lines) = <<>> THEN Front(lines) ELSE lines

trim_end(line) ==
  SubSeq(line, 1, Max({0} \cup {k \in DOMAIN line : line[k] \notin Space}))

trim(line) ==
  LET kept == trim_end(line)
  IN  SubSeq(kept, Min({Len(kept) + 1} \cup {k \in DOMAIN kept : kept[k] \notin Space}),
             Len(kept))

punctuation(line) == [k \in DOMAIN line |-> IF line[k] = "~" THEN "-" ELSE line[k]]

\* What a pass of seek compares of a line.
Seen(line, pass) ==
  CASE pass = 0 -> line
    [] pass = 1 -> trim_end(line)
    [] pass = 2 -> trim(line)
    [] pass = 3 -> punctuation(trim(line))

Passes == 0..3

Fits(lines, pattern, at, pass) ==
  \A k \in DOMAIN pattern : Seen(lines[at + k], pass) = Seen(pattern[k], pass)

NotFound == -1

\* The position of the pattern: the strictest pass that finds one, and the
\* first place that pass finds; at the end of the file only, if eof.
seek(lines, pattern, start, eof) ==
  LET end == Len(lines) - Len(pattern)
      places(pass) == {at \in (IF eof THEN end ELSE start)..end :
                         Fits(lines, pattern, at, pass)}
      found == {pass \in Passes : places(pass) # {}}
  IN  IF end < 0 \/ found = {} THEN NotFound ELSE Min(places(Min(found)))

-----------------------------------------------------------------------------
(* Replacing ranges.  An edit is the range that follows a position and the  *)
(* elements that take its place.                                            *)

Edit(at, count, new) == [at |-> at, count |-> count, new |-> new]

Splice(s, e) == SubSeq(s, 1, e.at) \o e.new \o SubSeq(s, e.at + e.count + 1, Len(s))

\* The edits at one position, from the last to the first.
SpliceAt(at, s, edits) ==
  FoldRight(LAMBDA e, t : IF e.at = at THEN Splice(t, e) ELSE t, edits, s)

\* The edits in the stable order of their positions, from the back, so that
\* the ranges in front stay where they are.
SpliceAll(s, edits) ==
  FoldRight(LAMBDA n, t : SpliceAt(n - 1, t, edits), [n \in 1..Len(s) + 1 |-> n], s)

-----------------------------------------------------------------------------
(* Updates in Codex form.  A chunk has an optional anchor (a sequence of at *)
(* most one line), the lines it expects, the lines that take their place.   *)

NoChunk == [anchor |-> <<>>, old |-> <<>>, new |-> <<>>, eof |-> FALSE]

DropBlank(lines) == IF lines # <<>> /\ Last(lines) = <<>> THEN Front(lines) ELSE lines

Failed == [ok |-> FALSE, cursor |-> 0, edits |-> <<>>]

\* Faulty variant: the cursor stays in front of the lines just matched.
PlaceStay(lines, plan, chunk) ==
  LET at == seek(lines, chunk.old, plan.cursor, chunk.eof)
  IN  IF at = NotFound THEN Failed
      ELSE [plan EXCEPT !.edits = Append(@, Edit(at, Len(chunk.old), chunk.new))]

\* The expected lines, searched from the cursor; a trailing blank line that is
\* not there stands for the final line end.
Place(lines, plan, chunk) ==
  LET first == seek(lines, chunk.old, plan.cursor, chunk.eof)
      again == first = NotFound /\ Last(chunk.old) = <<>>
      old == IF again THEN Front(chunk.old) ELSE chunk.old
      new == IF again THEN DropBlank(chunk.new) ELSE chunk.new
      at == IF again THEN seek(lines, old, plan.cursor, chunk.eof) ELSE first
  IN  IF at = NotFound \/ at < plan.cursor THEN Failed
      ELSE [plan EXCEPT !.cursor = at + Len(old),
                        !.edits = Append(@, Edit(at, Len(old), new))]

\* One hunk: its anchor moves the cursor; an insertion goes to the end.
PlanChunk(lines, plan, chunk) ==
  LET anchor == seek(lines, chunk.anchor, plan.cursor, FALSE)
      from == IF chunk.anchor = <<>> THEN plan ELSE [plan EXCEPT !.cursor = anchor + 1]
  IN  IF ~plan.ok \/ (chunk.anchor # <<>> /\ anchor = NotFound) THEN Failed
      ELSE IF chunk.old = <<>>
      THEN [from EXCEPT !.edits = Append(@, Edit(Len(lines), 0, chunk.new))]
      ELSE Place(lines, from, chunk)

\* The lines end with a blank one, which join turns into the final line end.
Terminated(lines) ==
  IF lines = <<>> \/ Last(lines) # <<>> THEN Append(lines, <<>>) ELSE lines

Rejected == [ok |-> FALSE, text |-> <<>>]
Modified(text) == [ok |-> TRUE, text |-> text]

apply_codex(text, chunks) ==
  LET lines == LinesOf(text)
      plan == FoldLeft(LAMBDA p, c : PlanChunk(lines, p, c),
                       [ok |-> TRUE, cursor |-> 0, edits |-> <<>>], chunks)
  IN  IF ~plan.ok THEN Rejected
      ELSE Modified(join(Terminated(SpliceAll(lines, plan.edits))))

-----------------------------------------------------------------------------
(* Unique replacements. *)

IsBom(text) == text # <<>> /\ Head(text) = "bom"
WithoutBom(text) == IF IsBom(text) THEN Tail(text) ELSE text

\* "\r\n" and then "\r" become "\n".
Normalized(text) ==
  LET pair(k) == text[k] = LF /\ k > 1 /\ text[k - 1] = CR
  IN  FlattenSeq([k \in DOMAIN text |-> IF pair(k) THEN <<>>
                                        ELSE IF text[k] = CR THEN <<LF>> ELSE <<text[k]>>])

\* The first line end of the text is "\r\n".
IsCrlf(text) ==
  LET ends == {k \in DOMAIN text : text[k] = LF}
  IN  ends # {} /\ Min(ends) > 1 /\ text[Min(ends) - 1] = CR

Crlf(text) ==
  FlattenSeq([k \in DOMAIN text |-> IF text[k] = LF THEN <<CR, LF>> ELSE <<text[k]>>])

Occurrences(base, old) ==
  {at \in 0..(Len(base) - Len(old)) : SubSeq(base, at + 1, at + Len(old)) = old}

\* match_indices: the occurrences that remain when each one is skipped whole.
IsUnique(base, old) ==
  LET places == Occurrences(base, old)
  IN  places # {} /\ \A at \in places : at < Min(places) + Len(old)

\* Faulty variant: ranges may overlap.
OverlapNever(edits) == FALSE

\* Some two of the ranges overlap.
Overlap(edits) ==
  \E i, j \in DOMAIN edits :
    i # j /\ edits[i].at <= edits[j].at /\ edits[i].at + edits[i].count > edits[j].at

\* changes: the pairs of old and new text, all matched against the text as it is.
apply_replacements(text, changes) ==
  LET base == Normalized(WithoutBom(text))
      old(k) == Normalized(changes[k].old)
      edits == [k \in DOMAIN changes |->
                  Edit(Min(Occurrences(base, old(k))), Len(old(k)), Normalized(changes[k].new))]
      result == SpliceAll(base, edits)
      styled == IF IsCrlf(WithoutBom(text)) THEN Crlf(result) ELSE result
  IN  IF \/ \E k \in DOMAIN changes : old(k) = <<>> \/ ~IsUnique(base, old(k))
         \/ Overlap(edits)
         \/ result = base
      THEN Rejected
      ELSE Modified(IF IsBom(text) THEN <<"bom">> \o styled ELSE styled)

-----------------------------------------------------------------------------
(* Reading a patch.  A patch line is a record: its kind and its path or     *)
(* line.  "other" is a line that no directive and no hunk admits.           *)

\* The section a header opens.
Opened(line) ==
  [kind |-> line.kind, path |-> line.path, moveTo |-> "", content |-> <<>>,
   chunks |-> <<>>, edits |-> <<>>]

\* header: the line before was a header.
Reading(sections, chunk, header) ==
  [ok |-> TRUE, sections |-> sections, chunk |-> chunk, header |-> header]
Unreadable == [ok |-> FALSE, sections |-> <<>>, chunk |-> NoChunk, header |-> FALSE]

IsEmptyChunk(chunk) == chunk.old = <<>> /\ chunk.new = <<>>

\* The chunk under way joins its section.
PushChunk(state) ==
  IF state.sections = <<>> \/ IsEmptyChunk(state.chunk)
  THEN [state EXCEPT !.chunk = NoChunk]
  ELSE [state EXCEPT !.sections[Len(state.sections)].chunks = Append(@, state.chunk),
                     !.chunk = NoChunk]

\* The end of a section: an update has to have changed something.
CloseSection(state) ==
  LET closed == PushChunk(state)
      open == Last(closed.sections)
  IN  IF closed.sections # <<>> /\ open.kind = "update" /\ open.chunks = <<>>
      THEN Unreadable ELSE closed

UpdateLine(state, line) ==
  CASE line.kind = "anchor" ->
         LET next == IF IsEmptyChunk(state.chunk) THEN state ELSE PushChunk(state)
         IN  [next EXCEPT !.chunk.anchor = line.line]
    [] line.kind = "eof" -> [state EXCEPT !.chunk.eof = TRUE]
    [] line.kind = "+" -> [state EXCEPT !.chunk.new = Append(@, line.line)]
    [] line.kind = "-" -> [state EXCEPT !.chunk.old = Append(@, line.line)]
    [] line.kind = " " -> [state EXCEPT !.chunk.old = Append(@, line.line),
                                        !.chunk.new = Append(@, line.line)]

\* One line of the patch, in the section that is open.
ReadLine(state, line) ==
  LET n == Len(state.sections)
      kind == IF n = 0 THEN "none" ELSE state.sections[n].kind
      here == [state EXCEPT !.header = FALSE]
      closed == CloseSection(state)
  IN  CASE ~state.ok -> Unreadable
        [] state.ok /\ line.kind \in {"add", "delete", "update"} ->
             IF closed.ok THEN Reading(Append(closed.sections, Opened(line)), NoChunk, TRUE)
             ELSE Unreadable
        [] state.ok /\ line.kind = "moveTo" /\ kind = "update" /\ state.header ->
             [here EXCEPT !.sections[n].moveTo = line.path]
        [] state.ok /\ line.kind = "+" /\ kind = "add" ->
             [here EXCEPT !.sections[n].content = @ \o line.line \o <<LF>>]
        [] state.ok /\ line.kind \in {"anchor", "eof", "+", "-", " "} /\ kind = "update" ->
             UpdateLine(here, line)
        [] OTHER -> Unreadable

\* The lines between the begin and end markers.
parse_codex(lines) == CloseSection(FoldLeft(ReadLine, Reading(<<>>, NoChunk, FALSE), lines))
=============================================================================
