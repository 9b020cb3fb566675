--------------------------- MODULE MCConductBuild ---------------------------
(* Instances of ConductBuild for TLC. *)
EXTENDS ConductBuild

CONSTANTS a, b, c

\* c is in the second batch because it depends on a.
MCBatches == <<<<a>>, <<b, c>>>>
MCDependencies == [p \in Packages |-> IF p = c THEN {a} ELSE {}]

WithFlags(asFar, staging, checksums, relevant) ==
    [asFarAsPossible |-> asFar, autoStaging |-> staging, updateChecksums |-> checksums,
     relevant |-> relevant]

MCParams == {WithFlags(FALSE, TRUE, TRUE, {a, c}), WithFlags(TRUE, FALSE, FALSE, {})}
==============================================================================
