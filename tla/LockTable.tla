------------------------------ MODULE LockTable ------------------------------
(***************************************************************************)
(* ServiceSetup::Locks (librepomgr/serversetup.h, serversetup.cpp): the    *)
(* table of named GlobalSharedMutexes, its users and clear().              *)
(*                                                                         *)
(* The users are the jobs that run on the pool of building threads:        *)
(*  - a blocking job (reloaddatabase.cpp) keeps the configuration locked   *)
(*    for reading, occupies its thread while it waits for the named lock,  *)
(*    and releases first the named lock, then the configuration;           *)
(*  - an asynchronous job (repomanagement.cpp, conductbuild.cpp,           *)
(*    customcommand.cpp) registers a callback; once the callback has run   *)
(*    the lock belongs to a subprocess, and releasing it is the job of the *)
(*    process's exit handler, which needs a free thread;                   *)
(*  - reloading the configuration (reloadconfiguration.cpp) locks it for   *)
(*    writing and calls clear().                                           *)
(*                                                                         *)
(* m_cleanupMutex and the configuration's lock are std::shared_mutexes     *)
(* (external): only who may hold them matters.                             *)
(***************************************************************************)
EXTENDS GlobalSharedMutex

CONSTANTS
    Names,          \* lock names
    NameOf,         \* the lock each client uses
    Blocking,       \* clients that call the blocking overloads
    Writers,        \* clients that call acquireToWrite()
    Workers,        \* number of building threads (building.threadCount)
    MaxRequests,    \* bound: number of requests each client makes
    MaxClears       \* bound: number of times the configuration is reloaded

ASSUME TableAssumption ==
    /\ NameOf \in [Clients -> Names]
    /\ Blocking \subseteq Clients
    /\ Writers \subseteq Clients
    /\ Workers \in Nat /\ MaxRequests \in Nat /\ MaxClears \in Nat

VARIABLES
    entries,    \* names present in m_locksByName
    mutexes,    \* the mutex of each entry
    pc,         \* where each client is
    made,       \* number of requests made by each client
    clearer,    \* where ReloadConfiguration/clear() is
    todo,       \* names clear() has not visited yet
    clears      \* number of reloads started

vars == <<entries, mutexes, pc, made, clearer, todo, clears>>

\* idle      no job                     config   blocking job holding the configuration lock
\* entered   holds m_cleanupMutex shared and a reference to the named mutex
\* wait      in m_cv.wait() of the mutex   woken  left the wait set
\* async     callback stored            grant    callback invoked by a releasing thread
\* inner     callback invoked within acquireToRead()/acquireToWrite()
\* hold      owns the mutex             notify   before m_cv.notify_one() in notify()
\* dropped   callback overwritten
PCs == {"idle", "config", "entered", "wait", "woken", "async", "grant", "inner",
        "hold", "notify", "dropped"}

NotClearing == [at |-> "idle", name |-> None]

Users(n) == {c \in Clients : NameOf[c] = n}
CleanupReaders == {c \in Clients : pc[c] \in {"entered", "wait", "woken", "inner"}}
ConfigReaders == {c \in Blocking : pc[c] # "idle"}
Busy ==
    Cardinality({c \in Clients \ Blocking : pc[c] \in {"entered", "inner", "notify"}})
        + Cardinality(ConfigReaders) + IF clearer.at = "idle" THEN 0 ELSE 1

Owning(c) == pc[c] \in {"grant", "inner", "hold"}
MutexOf(c) == mutexes[NameOf[c]]

Init ==
    /\ entries = {}
    /\ mutexes = [n \in Names |-> NewMutex]
    /\ pc = [c \in Clients |-> "idle"]
    /\ made = [c \in Clients |-> 0]
    /\ clearer = NotClearing
    /\ todo = {}
    /\ clears = 0

UnchangedClearer == UNCHANGED <<clearer, todo, clears>>

\* config.lockToRead() of a blocking job.
LockConfig(c) ==
    /\ c \in Blocking
    /\ pc[c] = "idle"
    /\ made[c] < MaxRequests
    /\ Busy < Workers
    /\ clearer.at = "idle"
    /\ made' = [made EXCEPT ![c] = @ + 1]
    /\ pc' = [pc EXCEPT ![c] = "config"]
    /\ UNCHANGED <<entries, mutexes>> /\ UnchangedClearer

\* m_cleanupMutex locked shared, then namedLock(): the entry is created if missing.
EnterTable(c) ==
    /\ IF c \in Blocking
       THEN pc[c] = "config" /\ UNCHANGED made
       ELSE /\ pc[c] = "idle"
            /\ made[c] < MaxRequests
            /\ Busy < Workers
            /\ made' = [made EXCEPT ![c] = @ + 1]
    /\ clearer.at \in {"idle", "config"}
    /\ entries' = entries \cup {NameOf[c]}
    /\ pc' = [pc EXCEPT ![c] = "entered"]
    /\ UNCHANGED mutexes /\ UnchangedClearer

\* Mutation of CanTake: acquireToWrite() uses the condition of acquireToRead().
CanTakeShared(c) == CanLockShared(MutexOf(c))

CanTake(c) == IF c \in Writers THEN CanLock(MutexOf(c)) ELSE CanLockShared(MutexOf(c))
Taken(c) == IF c \in Writers THEN Locked(MutexOf(c)) ELSE LockedShared(MutexOf(c))

\* lock()/lock_shared() of a blocking job, initially and after waking up;
\* m_cleanupMutex is released only when the lock is acquired.
AcquireBlocking(c) ==
    /\ c \in Blocking
    /\ pc[c] \in {"entered", "woken"}
    /\ IF CanTake(c)
       THEN /\ mutexes' = [mutexes EXCEPT ![NameOf[c]] = Taken(c)]
            /\ pc' = [pc EXCEPT ![c] = "hold"]
       ELSE /\ pc' = [pc EXCEPT ![c] = "wait"]
            /\ UNCHANGED mutexes
    /\ UNCHANGED <<entries, made>> /\ UnchangedClearer

\* lock_async()/lock_shared_async(); a stored exclusive callback is overwritten.
AcquireAsync(c) ==
    /\ c \in Clients \ Blocking
    /\ pc[c] = "entered"
    /\ \/ /\ CanTake(c)
          /\ mutexes' = [mutexes EXCEPT ![NameOf[c]] = Taken(c)]
          /\ pc' = [pc EXCEPT ![c] = "inner"]
       \/ /\ ~CanTake(c)
          /\ c \in Writers
          /\ mutexes' = [mutexes EXCEPT ![NameOf[c]] = WithExclusiveCallback(@, c)]
          /\ pc' = [d \in Clients |-> IF d = c THEN "async"
                                      ELSE IF d = MutexOf(c).exclusiveCallback THEN "dropped"
                                      ELSE pc[d]]
       \/ /\ ~CanTake(c)
          /\ c \notin Writers
          /\ mutexes' = [mutexes EXCEPT ![NameOf[c]] = WithSharedCallback(@, c)]
          /\ pc' = [pc EXCEPT ![c] = "async"]
    /\ UNCHANGED <<entries, made>> /\ UnchangedClearer

\* The callback hands the lock to the job's subprocess; called within
\* acquireTo...() it returns there and m_cleanupMutex is released.
RunCallback(c) ==
    /\ pc[c] \in {"grant", "inner"}
    /\ pc' = [pc EXCEPT ![c] = "hold"]
    /\ UNCHANGED <<entries, mutexes, made>> /\ UnchangedClearer

\* The states of the clients after notify() was entered in state m by client c,
\* which goes on to notify_one() unless it invoked callbacks.
AfterNotify(m, c) ==
    [d \in Clients |->
        IF d \in InvokedShared(m) \cup InvokedExclusive(m) THEN "grant"
        ELSE IF d # c THEN pc[d]
        ELSE IF NotifiesThread(m) THEN "notify" ELSE "idle"]

ReleasedMutex(c) == IF c \in Writers THEN Unlocked(MutexOf(c)) ELSE UnlockedShared(MutexOf(c))

\* unlock()/unlock_shared(): by the blocking job's thread resp. by the exit
\* handler of the subprocess.
Release(c) ==
    /\ pc[c] = "hold"
    /\ c \in Blocking \/ Busy < Workers
    /\ LET m == ReleasedMutex(c)
       IN  IF m.sharedOwners = 0
           THEN /\ mutexes' = [mutexes EXCEPT ![NameOf[c]] = Notified(m)]
                /\ pc' = AfterNotify(m, c)
           ELSE /\ mutexes' = [mutexes EXCEPT ![NameOf[c]] = m]
                /\ pc' = [pc EXCEPT ![c] = "idle"]
    /\ UNCHANGED <<entries, made>> /\ UnchangedClearer

WaitSet(n) == {d \in Users(n) : pc[d] = "wait"}

\* m_cv.notify_one() after m_mutex was released.
NotifyOne(c) ==
    /\ pc[c] = "notify"
    /\ \/ /\ WaitSet(NameOf[c]) = {}
          /\ pc' = [pc EXCEPT ![c] = "idle"]
       \/ \E d \in WaitSet(NameOf[c]) :
            pc' = [pc EXCEPT ![c] = "idle", ![d] = "woken"]
    /\ UNCHANGED <<entries, mutexes, made>> /\ UnchangedClearer

-----------------------------------------------------------------------------
(* ReloadConfiguration::run() and ServiceSetup::Locks::clear(). *)

\* Mutation of StartReload: the configuration is not locked.
StartReloadUnlocked ==
    /\ clearer.at = "idle"
    /\ clears < MaxClears
    /\ Busy < Workers
    /\ clearer' = [NotClearing EXCEPT !.at = "config"]
    /\ clears' = clears + 1
    /\ UNCHANGED <<entries, mutexes, pc, made, todo>>

\* config.lockToWrite()
StartReload ==
    /\ clearer.at = "idle"
    /\ clears < MaxClears
    /\ Busy < Workers
    /\ ConfigReaders = {}
    /\ clearer' = [NotClearing EXCEPT !.at = "config"]
    /\ clears' = clears + 1
    /\ UNCHANGED <<entries, mutexes, pc, made, todo>>

\* clear() locks m_cleanupMutex and starts iterating.
StartClear ==
    /\ clearer.at = "config"
    /\ CleanupReaders = {}
    /\ clearer' = [clearer EXCEPT !.at = "visit"]
    /\ todo' = entries
    /\ UNCHANGED <<entries, mutexes, pc, made, clears>>

\* Mutation of ClearTryLock: the result of tryLockToWrite() is ignored.
ClearTryLockUnchecked(n) ==
    /\ clearer.at = "visit"
    /\ n \in todo
    /\ todo' = todo \ {n}
    /\ mutexes' = [mutexes EXCEPT ![n] = Locked(@)]
    /\ clearer' = [at |-> "locked", name |-> n]
    /\ UNCHANGED <<entries, pc, made, clears>>

\* tryLockToWrite(): a lock somebody owns is skipped.
ClearTryLock(n) ==
    /\ clearer.at = "visit"
    /\ n \in todo
    /\ todo' = todo \ {n}
    /\ IF CanLock(mutexes[n])
       THEN /\ mutexes' = [mutexes EXCEPT ![n] = Locked(@)]
            /\ clearer' = [at |-> "locked", name |-> n]
       ELSE UNCHANGED <<mutexes, clearer>>
    /\ UNCHANGED <<entries, pc, made, clears>>

\* lock2.lock().unlock()
ClearUnlock ==
    /\ clearer.at = "locked"
    /\ LET m == Unlocked(mutexes[clearer.name])
       IN  /\ mutexes' = [mutexes EXCEPT ![clearer.name] = Notified(m)]
           /\ pc' = AfterNotify(m, None)
    /\ clearer' = [clearer EXCEPT !.at = "unlocked"]
    /\ UNCHANGED <<entries, made, todo, clears>>

\* m_locksByName.erase(); the mutex is destroyed.
ClearErase ==
    /\ clearer.at = "unlocked"
    /\ entries' = entries \ {clearer.name}
    /\ mutexes' = [mutexes EXCEPT ![clearer.name] = NewMutex]
    /\ clearer' = [at |-> "visit", name |-> None]
    /\ UNCHANGED <<pc, made, todo, clears>>

\* m_cleanupMutex and the configuration are unlocked.
FinishReload ==
    /\ clearer.at = "visit"
    /\ todo = {}
    /\ clearer' = NotClearing
    /\ UNCHANGED <<entries, mutexes, pc, made, todo, clears>>

ClearStep == StartClear \/ (\E n \in Names : ClearTryLock(n)) \/ ClearUnlock \/ ClearErase \/ FinishReload

Next ==
    \/ \E c \in Clients :
        \/ LockConfig(c) \/ EnterTable(c)
        \/ AcquireBlocking(c) \/ AcquireAsync(c)
        \/ RunCallback(c) \/ Release(c) \/ NotifyOne(c)
    \/ StartReload \/ ClearStep

\* Threads keep running, subprocesses exit and their exit handlers are executed
\* once a thread is free.  Nobody is obliged to start a job or a reload.
Fairness ==
    /\ WF_vars(ClearStep)
    /\ \A c \in Clients :
        /\ WF_vars(c \in Blocking /\ EnterTable(c))
        /\ WF_vars(AcquireBlocking(c) \/ AcquireAsync(c))
        /\ WF_vars(RunCallback(c))
        /\ WF_vars(Release(c))
        /\ WF_vars(NotifyOne(c))

Spec == Init /\ [][Next]_vars
FairSpec == Spec /\ Fairness

-----------------------------------------------------------------------------

\* Types of the table, its mutexes, the jobs and clear(); in particular
\* m_sharedOwners never drops below zero.
TypeOK ==
    /\ entries \subseteq Names
    /\ mutexes \in [Names -> MutexType]
    /\ pc \in [Clients -> PCs]
    /\ made \in [Clients -> 0..MaxRequests]
    /\ clearer \in [at : {"idle", "config", "visit", "locked", "unlocked"}, name : Names \cup {None}]
    /\ todo \subseteq Names
    /\ clears \in 0..MaxClears

\* Two owners of the same name are both readers: holders of a lock are not
\* affected by clear() destroying and namedLock() re-creating mutexes of that name.
NamedExclusion ==
    \A c, d \in Clients :
        c # d /\ NameOf[c] = NameOf[d] /\ Owning(c) /\ Owning(d)
            => c \notin Writers /\ d \notin Writers

\* Types, and the exclusion per name that reloading the configuration must keep.
Consistent == TypeOK /\ NamedExclusion

\* "check whether nobody holds the lock anymore" (serversetup.cpp:1017): clear()
\* never destroys a mutex that somebody owns, waits for or has a callback in, or
\* that a thread is about to lock.
ErasedUnowned ==
    [][\A n \in Names : \A c \in Users(n) :
        n \in entries \ entries' => pc[c] \in {"idle", "config", "notify", "dropped"}]_vars

\* Every lock that was requested is acquired, also if the table is cleared
\* concurrently: waiting for m_cleanupMutex, for the configuration, for the named
\* lock and for a free thread never forms a cycle.
EventuallyAcquired ==
    \A c \in Clients : pc[c] \in {"config", "entered", "async"} ~> pc[c] = "hold"

\* "should not deadlock (and simply ignore the still acquired lock)"
\* (tests/utils.cpp:126): clear() returns.
ClearReturns == clearer.at # "idle" ~> clearer.at = "idle"
=============================================================================
