------------------------------- MODULE JobUsers -------------------------------
(* The users and the jobs they own (migrations/0001_initial.sql, jobs).      *)
CONSTANTS
  Users, Jobs,
  Owner      \* Jobs -> Users

ASSUME JobsHaveOwners == Owner \in [Jobs -> Users]
=============================================================================
