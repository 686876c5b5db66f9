--------------------------- MODULE MCFileMutations ---------------------------
(* An instance of FileMutations: a file p, a free name q and a link l to q.  *)
EXTENDS FileMutations

Text == <<"a", "\n", "b", "\n", "a", "\n">>

MCDisk == ("p" :> File(Text)) @@ ("q" :> None) @@ ("l" :> Link("q"))

Spaced == <<"a", " ", "\n", "b", "\n", "\n", "a">>
Windows == <<"bom", "a", "\r", "\n", "b", "\r", "\n">>
Mac == <<"b", "a", "b", "\r">>

MCOutside ==
  {[path |-> "p", node |-> n] :
     n \in {None, Link("q"), File(Spaced), File(Windows), File(Mac)}}
  \cup {[path |-> "q", node |-> File(<<>>)]}

Line(kind, line) == [kind |-> kind, line |-> line]
Header(kind, path) == [kind |-> kind, path |-> path]

write(id, path, mode, before, text) ==
  [id |-> id, kind |-> "write", path |-> path, mode |-> mode, before |-> before, text |-> text]
remove(id, path, before) == [id |-> id, kind |-> "remove", path |-> path, before |-> before]
codex(id, lines) == [id |-> id, kind |-> "patch", form |-> "codex", lines |-> lines]
replacements(id, files) ==
  [id |-> id, kind |-> "patch", form |-> "replacements", files |-> files]

\* The second id is used for two different mutations.
MCRequests ==
  { write("1", "p", "conditional", <<Text>>, <<"b">>),
    write("2", "l", "overwrite", <<>>, <<"a">>),
    remove("2", "p", <<Text>>),
    \* an update without a change
    codex("1", << Header("update", "p"), Line("eof", <<>>) >>),
    \* two hunks, which expect the same line
    codex("3", << Header("update", "p"), Line("-", <<"a">>), Line("+", <<"c">>),
                  Line("+", <<"c">>),
                  Line("anchor", <<>>), Line("-", <<"a">>),
                  Line("+", <<"d">>),
                  Header("add", "q"), Line("+", <<"a">>) >>),
    \* a move onto a name, and a section that builds on it
    codex("4", << Header("update", "p"), [kind |-> "moveTo", path |-> "q"],
                  Line("anchor", << <<"b">> >>), Line("-", <<"a">>), Line("eof", <<>>),
                  Header("update", "q"), Line("+", <<"e">>), Line("anchor", <<>>),
                  Line("-", <<"a">>), Line("-", <<>>) >>),
    \* the name and the link are one file
    codex("5", << Header("add", "q"), Line("+", <<"~">>), Header("delete", "p"),
                  Header("update", "l"), Line("-", <<"-">>), Line("+", <<"f">>) >>),
    codex("5", << Header("add", "l"), Line("+", <<" ", "~">>), Header("delete", "p"),
                  Header("update", "l"), Line("-", <<"-">>), Line("+", <<"f">>) >>),
    \* a move onto itself
    codex("6", << Header("update", "p"), [kind |-> "moveTo", path |-> "p"],
                  Line("-", <<"b">>), Line("+", <<"c">>) >>),
    \* the ranges are disjoint in one file and overlap in another
    replacements("6", << [path |-> "p", edits |->
        << [old |-> <<"b", "\r", "\n">>, new |-> <<"c", "c", "\n">>],
           [old |-> <<"a", "\n", "b">>, new |-> <<>>] >>] >>),
    replacements("6", << [path |-> "p", edits |->
        << [old |-> <<"b">>, new |-> <<"c", "\r", "c">>],
           [old |-> <<"a", "\n">>, new |-> <<"d">>] >>] >>) }
=============================================================================
