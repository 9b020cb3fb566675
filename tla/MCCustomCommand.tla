--------------------------- MODULE MCCustomCommand ---------------------------
(* Instances of CustomCommand for TLC. *)
EXTENDS CustomCommand, TLC

CONSTANTS a, b, c

\* Shared locks sort before exclusive ones for all actions, and no two actions
\* can wait for the same lock exclusively.
OrderedShared == a :> {} @@ b :> {1} @@ c :> {1, 2}
OrderedExclusive == a :> {1, 2} @@ b :> {2} @@ c :> {}
==============================================================================
