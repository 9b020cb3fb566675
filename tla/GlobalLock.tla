------------------------------ MODULE GlobalLock ------------------------------
(***************************************************************************)
(* One GlobalSharedMutex (librepomgr/globallock.h) used by concurrent      *)
(* clients through lock(), try_lock(), lock_async(), their shared          *)
(* counterparts and the two unlock functions.                              *)
(*                                                                         *)
(* A client is one requester: a thread that calls a blocking function, or  *)
(* a build action whose callback was passed to an asynchronous one.        *)
(* Condition variables (external, std::condition_variable) are modelled    *)
(* with a wait set, one arbitrary waiter per notify_one(), and spurious    *)
(* wakeups.  notify_one() is a step of its own because notify() releases   *)
(* m_mutex before it.  The callbacks that notify() invokes one after the   *)
(* other on the releasing thread may run here in any order.                *)
(***************************************************************************)
EXTENDS GlobalSharedMutex

CONSTANTS
    MayCall,        \* the functions each client uses
    MaxRequests     \* bound: number of requests each client makes

Calls == {"lock", "try_lock", "lock_async",
          "lock_shared", "try_lock_shared", "lock_shared_async"}

ASSUME CallsAssumption == MayCall \in [Clients -> SUBSET Calls]
ASSUME RequestsAssumption == MaxRequests \in Nat

VARIABLES
    mutex,  \* the fields of the mutex
    pc,     \* where each client is
    made    \* number of requests made by each client

vars == <<mutex, pc, made>>

\* idle      no request
\* waitX/S   blocked in m_cv.wait() of lock()/lock_shared()
\* wokenX/S  left the wait set, still has to re-acquire m_mutex and re-check
\* asyncX/S  callback stored in the mutex
\* grantX/S  mutex owned on behalf of the callback, which has not been run yet
\* holdX/S   owns the mutex
\* notify    released m_mutex at the end of notify(), notify_one() still to be called
\* dropped   callback destroyed by a later lock_async()
PCs == {"idle", "waitX", "waitS", "wokenX", "wokenS", "asyncX", "asyncS",
        "grantX", "grantS", "holdX", "holdS", "notify", "dropped"}

At(S) == {c \in Clients : pc[c] \in S}

ExclusiveOwners == At({"grantX", "holdX"})
SharedOwners == At({"grantS", "holdS"})
WaitSet == At({"waitX", "waitS"})

Init ==
    /\ mutex = NewMutex
    /\ pc = [c \in Clients |-> "idle"]
    /\ made = [c \in Clients |-> 0]

Request(c, call) ==
    /\ pc[c] = "idle"
    /\ call \in MayCall[c]
    /\ made[c] < MaxRequests
    /\ made' = [made EXCEPT ![c] = @ + 1]

\* One pass of the loop of lock() resp. lock_shared(): acquire or wait.
AcquireOrWait(c) ==
    IF CanLock(mutex)
    THEN mutex' = Locked(mutex) /\ pc' = [pc EXCEPT ![c] = "holdX"]
    ELSE pc' = [pc EXCEPT ![c] = "waitX"] /\ UNCHANGED mutex

AcquireSharedOrWait(c) ==
    IF CanLockShared(mutex)
    THEN mutex' = LockedShared(mutex) /\ pc' = [pc EXCEPT ![c] = "holdS"]
    ELSE pc' = [pc EXCEPT ![c] = "waitS"] /\ UNCHANGED mutex

Lock(c) == Request(c, "lock") /\ AcquireOrWait(c)
LockShared(c) == Request(c, "lock_shared") /\ AcquireSharedOrWait(c)

\* A thread that returns from m_cv.wait() checks the loop condition again.
ResumeLock(c) == pc[c] = "wokenX" /\ AcquireOrWait(c) /\ UNCHANGED made
ResumeLockShared(c) == pc[c] = "wokenS" /\ AcquireSharedOrWait(c) /\ UNCHANGED made

TryLock(c) ==
    /\ Request(c, "try_lock")
    /\ IF CanLock(mutex)
       THEN mutex' = Locked(mutex) /\ pc' = [pc EXCEPT ![c] = "holdX"]
       ELSE UNCHANGED <<mutex, pc>>

TryLockShared(c) ==
    /\ Request(c, "try_lock_shared")
    /\ IF CanLockShared(mutex)
       THEN mutex' = LockedShared(mutex) /\ pc' = [pc EXCEPT ![c] = "holdS"]
       ELSE UNCHANGED <<mutex, pc>>

\* The slot's previous callback, if any, is destroyed without being invoked.
LockAsync(c) ==
    /\ Request(c, "lock_async")
    /\ IF CanLock(mutex)
       THEN /\ mutex' = Locked(mutex)
            /\ pc' = [pc EXCEPT ![c] = "grantX"]
       ELSE /\ mutex' = WithExclusiveCallback(mutex, c)
            /\ pc' = [d \in Clients |-> IF d = c THEN "asyncX"
                                        ELSE IF d = mutex.exclusiveCallback THEN "dropped"
                                        ELSE pc[d]]

LockSharedAsync(c) ==
    /\ Request(c, "lock_shared_async")
    /\ IF CanLockShared(mutex)
       THEN /\ mutex' = LockedShared(mutex)
            /\ pc' = [pc EXCEPT ![c] = "grantS"]
       ELSE /\ mutex' = WithSharedCallback(mutex, c)
            /\ pc' = [pc EXCEPT ![c] = "asyncS"]

\* The callback adopts the lock.
RunCallback(c) ==
    /\ pc[c] \in {"grantX", "grantS"}
    /\ pc' = [pc EXCEPT ![c] = IF @ = "grantX" THEN "holdX" ELSE "holdS"]
    /\ UNCHANGED <<mutex, made>>

\* notify() entered in state m by client c: grant the stored callbacks or go on
\* to notify_one().
EnterNotify(m, c) ==
    /\ mutex' = Notified(m)
    /\ pc' = [d \in Clients |->
                IF d \in InvokedShared(m) THEN "grantS"
                ELSE IF d \in InvokedExclusive(m) THEN "grantX"
                ELSE IF d # c THEN pc[d]
                ELSE IF NotifiesThread(m) THEN "notify" ELSE "idle"]

Unlock(c) ==
    /\ pc[c] = "holdX"
    /\ EnterNotify(Unlocked(mutex), c)
    /\ UNCHANGED made

UnlockShared(c) ==
    /\ pc[c] = "holdS"
    /\ IF UnlockedShared(mutex).sharedOwners = 0
       THEN EnterNotify(UnlockedShared(mutex), c)
       ELSE mutex' = UnlockedShared(mutex) /\ pc' = [pc EXCEPT ![c] = "idle"]
    /\ UNCHANGED made

Woken(d) == IF pc[d] = "waitX" THEN "wokenX" ELSE "wokenS"

\* m_cv.notify_one(): one arbitrary thread leaves the wait set, if there is one.
NotifyOne(c) ==
    /\ pc[c] = "notify"
    /\ \/ /\ WaitSet = {}
          /\ pc' = [pc EXCEPT ![c] = "idle"]
       \/ \E d \in WaitSet :
            pc' = [pc EXCEPT ![c] = "idle", ![d] = Woken(d)]
    /\ UNCHANGED <<mutex, made>>

SpuriousWakeup(c) ==
    /\ c \in WaitSet
    /\ pc' = [pc EXCEPT ![c] = Woken(c)]
    /\ UNCHANGED <<mutex, made>>

Next ==
    \E c \in Clients :
        \/ Lock(c) \/ TryLock(c) \/ LockAsync(c)
        \/ LockShared(c) \/ TryLockShared(c) \/ LockSharedAsync(c)
        \/ ResumeLock(c) \/ ResumeLockShared(c)
        \/ RunCallback(c)
        \/ Unlock(c) \/ UnlockShared(c)
        \/ NotifyOne(c) \/ SpuriousWakeup(c)

\* Threads inside the mutex's functions keep running and every owner releases
\* the lock at some point (locks are released by destructors of LoggingLock).
\* No client is obliged to request the lock and nothing relies on spurious
\* wakeups.
Fairness ==
    \A c \in Clients :
        /\ WF_vars(ResumeLock(c) \/ ResumeLockShared(c))
        /\ WF_vars(RunCallback(c))
        /\ WF_vars(Unlock(c) \/ UnlockShared(c))
        /\ WF_vars(NotifyOne(c))

Spec == Init /\ [][Next]_vars
FairSpec == Spec /\ Fairness

-------------------------------------------------------------------------------

\* Types of the mutex's fields and of the clients' state.
TypeOK ==
    /\ mutex \in MutexType
    /\ pc \in [Clients -> PCs]
    /\ made \in [Clients -> 0..MaxRequests]

\* The mutex's own counter and flag (m_sharedOwners, m_exclusivelyOwned) agree
\* with who owns it, counting owners whose callback is still to be run: notify()
\* adds the number of callbacks before any of them runs, and every owner
\* subtracts itself once.
OwnersCounted ==
    /\ mutex.sharedOwners = Cardinality(SharedOwners)
    /\ mutex.exclusivelyOwned <=> ExclusiveOwners # {}

\* Never two exclusive owners, never an exclusive and a shared owner.
MutualExclusion ==
    \A c \in ExclusiveOwners : \A d \in Clients \ {c} :
        d \notin ExclusiveOwners \cup SharedOwners

\* A stored callback is always backed by an owner that will invoke it when it
\* releases the mutex: no callback is stranded in a free mutex, and a shared
\* callback is only stored behind an exclusive owner.
CallbacksBehindOwner ==
    /\ mutex.sharedCallbacks # {} => mutex.exclusivelyOwned
    /\ mutex.exclusiveCallback # None => ~CanLock(mutex)

\* Exactly the clients waiting for a callback have it stored in the mutex.
CallbacksStored ==
    /\ mutex.sharedCallbacks = At({"asyncS"})
    /\ {mutex.exclusiveCallback} \ {None} = At({"asyncX"})

\* The mutex's own view of its owners and waiters is right: fields keep their
\* types, the counters match the owners, writers exclude everybody else, and each
\* callback is stored for exactly the clients that wait for one, behind an owner
\* that will invoke it.
Consistent ==
    /\ TypeOK
    /\ OwnersCounted
    /\ MutualExclusion
    /\ CallbacksBehindOwner
    /\ CallbacksStored

\* No lost wakeup: whenever the mutex is free and threads are in the wait set of
\* m_cv, a notify_one() is still to come or a woken thread is about to take the
\* mutex.  notify() returns without notify_one() when it invokes callbacks.
NoLostWakeup ==
    CanLock(mutex) /\ WaitSet # {} => At({"notify", "wokenX", "wokenS"}) # {}

\* "async callbacks are handled first" (tests/utils.cpp): a blocking lock() that
\* had to wait never gets the mutex while a callback is stored.
AsyncHandledFirst ==
    [][\A c \in Clients :
        pc[c] = "wokenX" /\ pc'[c] = "holdX" =>
            mutex.sharedCallbacks = {} /\ mutex.exclusiveCallback = None]_vars

\* Once requested, the mutex is obtained: by threads blocked in lock() and
\* lock_shared() and by callbacks of lock_shared_async() and lock_async(), the
\* latter unless another lock_async() destroys the callback.
Waiting(c) == pc[c] \in {"waitX", "waitS", "wokenX", "wokenS", "asyncX", "asyncS"}
EventuallyAcquired ==
    \A c \in Clients : Waiting(c) ~> pc[c] \in {"holdX", "holdS", "dropped"}

\* The mutex implements the abstract lock: waiting on m_cv, waking up and running
\* callbacks are invisible, every other step is a step of ReaderWriterLock.
RW == INSTANCE ReaderWriterLock WITH
        readers <- SharedOwners, writers <- ExclusiveOwners,
        queuedReaders <- At({"asyncS"}), queuedWriters <- At({"asyncX"})
ImplementsReaderWriterLock == RW!Spec

===============================================================================
