-------------------------- MODULE GlobalSharedMutex --------------------------
(***************************************************************************)
(* The data of LibRepoMgr::GlobalSharedMutex (librepomgr/globallock.h): a  *)
(* reader-writer lock whose ownership is not tied to a thread.  The        *)
(* operators are pure functions of the mutex's fields; GlobalLock (one     *)
(* mutex) and LockTable (the table of named mutexes) build their actions   *)
(* from them.  Each of the code's functions runs its state change inside   *)
(* one critical section of m_mutex, so one application of an operator is   *)
(* one atomic step.                                                        *)
(*                                                                         *)
(* A callback is identified with the client that registered it.            *)
(***************************************************************************)
EXTENDS Integers, FiniteSets

CONSTANTS
    Clients,    \* whoever requests the lock: threads and asynchronous build actions
    None        \* the empty m_exclusiveCallback

ASSUME ClientsAssumption == IsFiniteSet(Clients) /\ None \notin Clients

\* The fields m_sharedOwners, m_exclusivelyOwned, m_sharedCallbacks (a list in
\* the code; only its set of elements matters as all are invoked together) and
\* m_exclusiveCallback (one slot).
MutexType ==
    [sharedOwners : Nat, exclusivelyOwned : BOOLEAN,
     sharedCallbacks : SUBSET Clients, exclusiveCallback : Clients \cup {None}]

NewMutex ==
    [sharedOwners |-> 0, exclusivelyOwned |-> FALSE,
     sharedCallbacks |-> {}, exclusiveCallback |-> None]

\* Mutation of CanLock: lock() checks m_exclusivelyOwned only.
CanLockDespiteReaders(m) == ~m.exclusivelyOwned

\* The negated loop conditions of lock() and lock_shared().
CanLock(m) == m.sharedOwners = 0 /\ ~m.exclusivelyOwned
CanLockShared(m) == ~m.exclusivelyOwned

Locked(m) == [m EXCEPT !.exclusivelyOwned = TRUE]
LockedShared(m) == [m EXCEPT !.sharedOwners = @ + 1]

\* lock_async() and lock_shared_async() on a mutex they cannot get at once.
\* The single slot for an exclusive callback is overwritten.
WithExclusiveCallback(m, c) == [m EXCEPT !.exclusiveCallback = c]
WithSharedCallback(m, c) == [m EXCEPT !.sharedCallbacks = @ \cup {c}]

\* Mutation of InvokedShared: notify() prefers an exclusive callback.
InvokedSharedAfterWriter(m) ==
    IF m.exclusivelyOwned \/ m.exclusiveCallback # None THEN {} ELSE m.sharedCallbacks

\* The callbacks notify() invokes, decided by the state in which it is entered.
InvokedShared(m) ==
    IF m.exclusivelyOwned THEN {} ELSE m.sharedCallbacks

\* Mutation of InvokedExclusive: notify() only serves the shared callbacks.
InvokedExclusiveNever(m) == {}

InvokedExclusive(m) ==
    IF InvokedShared(m) = {} /\ CanLock(m) THEN {m.exclusiveCallback} \ {None} ELSE {}

\* Mutation of NotifiesThread: notify() lacks m_cv.notify_one().
NotifiesThreadNever(m) == FALSE

\* notify() wakes a thread blocked on m_cv only if it invoked no callback.
NotifiesThread(m) == InvokedShared(m) \cup InvokedExclusive(m) = {}

\* The state notify() leaves: ownership passes to the callbacks before
\* m_mutex is released.
Notified(m) ==
    IF InvokedShared(m) # {}
    THEN [m EXCEPT !.sharedOwners = @ + Cardinality(InvokedShared(m)),
                   !.sharedCallbacks = {}]
    ELSE IF InvokedExclusive(m) # {}
    THEN [m EXCEPT !.exclusivelyOwned = TRUE, !.exclusiveCallback = None]
    ELSE m

\* unlock() and unlock_shared() up to the call of notify().
Unlocked(m) == [m EXCEPT !.exclusivelyOwned = FALSE]

UnlockedShared(m) == [m EXCEPT !.sharedOwners = @ - 1]
=============================================================================
