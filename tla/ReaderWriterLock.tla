--------------------------- MODULE ReaderWriterLock ---------------------------
(***************************************************************************)
(* What GlobalSharedMutex promises its users, without threads, condition   *)
(* variables or counters: readers exclude writers, and the last owner to   *)
(* release hands the lock over to the queued callbacks in the same step,   *)
(* all readers before the writer, so that a free lock has nobody queued.   *)
(***************************************************************************)
CONSTANT Clients

VARIABLES
    readers, writers,   \* current owners
    queuedReaders,      \* clients to be called back with shared ownership
    queuedWriters       \* the client to be called back with exclusive ownership

vars == <<readers, writers, queuedReaders, queuedWriters>>

Owners == readers \cup writers
Queued == queuedReaders \cup queuedWriters

Init ==
    /\ readers = {}
    /\ writers = {}
    /\ queuedReaders = {}
    /\ queuedWriters = {}

BecomeWriter(c) ==
    /\ c \notin Queued
    /\ Owners = {}
    /\ writers' = {c}
    /\ UNCHANGED <<readers, queuedReaders, queuedWriters>>

BecomeReader(c) ==
    /\ c \notin Owners \cup Queued
    /\ writers = {}
    /\ readers' = readers \cup {c}
    /\ UNCHANGED <<writers, queuedReaders, queuedWriters>>

\* Only the latest writer is queued.
QueueWriter(c) ==
    /\ c \notin Owners \cup Queued
    /\ Owners # {}
    /\ queuedWriters' = {c}
    /\ UNCHANGED <<readers, writers, queuedReaders>>

QueueReader(c) ==
    /\ c \notin Owners \cup Queued
    /\ writers # {}
    /\ queuedReaders' = queuedReaders \cup {c}
    /\ UNCHANGED <<readers, writers, queuedWriters>>

Leave(c) ==
    /\ c \in Owners
    /\ Owners # {c}
    /\ readers' = readers \ {c}
    /\ UNCHANGED <<writers, queuedReaders, queuedWriters>>

HandOver(c) ==
    /\ Owners = {c}
    /\ readers' = queuedReaders
    /\ queuedReaders' = {}
    /\ IF queuedReaders = {}
       THEN writers' = queuedWriters /\ queuedWriters' = {}
       ELSE writers' = {} /\ UNCHANGED queuedWriters

Next ==
    \E c \in Clients :
        \/ BecomeWriter(c) \/ BecomeReader(c)
        \/ QueueWriter(c) \/ QueueReader(c)
        \/ Leave(c) \/ HandOver(c)

Spec == Init /\ [][Next]_vars
===============================================================================
