---------------------------- MODULE MCExecutionIO ----------------------------
(* An instance of ExecutionIO: inputs of 1, 2 and 1 bytes.                    *)
EXTENDS ExecutionIO, TLC

CONSTANTS i1, i2, i3, o1, stdout, stderr

StreamSymmetry == Permutations(Streams)

MCSize == (i1 :> 1) @@ (i2 :> 2) @@ (i3 :> 1)

\* Three scenarios: an observer of two streams, without faults; the capture of
\* the streams, with faults; and the input, with faults.
Watched == \E o \in Observers : observers[o].calls = 0
MCInit ==
  /\ Init
  /\ \/ /\ stdin = "closed" /\ ended = {} /\ Watched
        /\ faults = MaxFaults /\ controls = MaxControls
     \/ /\ stdin = "closed" /\ ended = {} /\ ~Watched
        /\ faults = 0 /\ controls = 0
     \/ /\ stdin = "open" /\ ended = Streams /\ ~Watched
        /\ faults = 0 /\ controls = 0

MCSpec == MCInit /\ [][Next]_vars
=============================================================================
