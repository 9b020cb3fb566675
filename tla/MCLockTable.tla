---- MODULE MCLockTable ----
(* Instances of LockTable for TLC. *)
EXTENDS LockTable

CONSTANTS r1, r2, w1, a1, n1, n2

\* a1 uses a lock of its own, everybody else the same one.
MCNameOf == [c \in Clients |-> IF c = a1 THEN n2 ELSE n1]
====
