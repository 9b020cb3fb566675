---------------------------- MODULE MCChrootBuild ----------------------------
(* Instances of ChrootBuild for TLC. *)
EXTENDS ChrootBuild

CONSTANTS a, b, c, root, user, other

\* c is set to use another working copy than a and b.
MCUserOf == [x \in Clients |-> IF x = c THEN other ELSE user]
==============================================================================
