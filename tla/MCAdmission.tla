----------------------------- MODULE MCAdmission -----------------------------
(* An instance of Admission: a user with a machine or two.                   *)
EXTENDS Admission, TLC

CONSTANTS u1, m1, m2, c1, c2, c3, c4

MCOwner == [m \in Machines |-> u1]

\* The calls are alike.
CallSymmetry == Permutations(Calls)
=============================================================================
