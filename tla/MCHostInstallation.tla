-------------------------- MODULE MCHostInstallation --------------------------
(* An instance of HostInstallation: some commands of one user.               *)
EXTENDS HostInstallation, TLC

CONSTANTS shell1, shell2, shell3

\* The invocations are alike.
CallSymmetry == Permutations(Calls)
=============================================================================
