---- MODULE MCGlobalLock ----
(* Instances of GlobalLock for TLC. *)
EXTENDS GlobalLock

CONSTANTS c1, c2, c3

\* All functions from every client.
MCEverything == [c \in Clients |-> Calls]
====
