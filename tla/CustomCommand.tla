---------------------------- MODULE CustomCommand ----------------------------
(***************************************************************************)
(* Build actions of type CustomCommand (librepomgr/buildactions/           *)
(* customcommand.cpp) competing for named locks: the process is prepared,  *)
(* the shared and then the exclusive locks are acquired asynchronously and *)
(* one after the other, the process is launched, and when it has exited    *)
(* its locks are released before the exit handler concludes the action.    *)
(* Stopping such an action (BuildAction::abort, terminateOngoingBuild-     *)
(* Processes) may happen at any point of this.                             *)
(*                                                                         *)
(* Clients are the actions.  Lock names are numbers, ordered as std::set   *)
(* orders them.  The table of locks is not cleared here (see LockTable).   *)
(***************************************************************************)
EXTENDS GlobalSharedMutex

CONSTANTS
    MaxName,    \* lock names are 1..MaxName
    Shared,     \* the action's setting for shared locks
    Exclusive   \* the action's setting for exclusive locks

Names == 1 .. MaxName

ASSUME CommandsAssumption ==
    /\ MaxName \in Nat
    /\ Shared \in [Clients -> SUBSET Names]
    /\ Exclusive \in [Clients -> SUBSET Names]

VARIABLES
    mutexes,    \* the mutex of each name
    pc,         \* where each action is
    todo,       \* locks still to be acquired
    locks,      \* locks held by the process session (m_locks)
    aborted,    \* m_aborted
    stop,       \* a posted stop handler has not run yet
    result      \* result of the action, "none" while it is executing

vars == <<mutexes, pc, todo, locks, aborted, stop, result>>

\* posted    the job has not run yet         acquire  about to acquire the next lock
\* wait      callback stored in the mutex    grant    mutex owned, callback not run yet
\* launched  the process is running          release  the session is being destroyed
\* exited    exit handler posted             ended    the job has nothing left to do
\* dropped   callback overwritten
PCs == {"posted", "acquire", "wait", "grant", "launched", "release", "exited", "ended", "dropped"}

Lock == [name : Names, exclusive : BOOLEAN]
LocksOf(c) ==
    {[name |-> n, exclusive |-> FALSE] : n \in Shared[c]}
        \cup {[name |-> n, exclusive |-> TRUE] : n \in Exclusive[c]}

\* Mutation of Before: exclusive locks are acquired in the opposite order.
BeforeReversed(k, l) ==
    \/ ~k.exclusive /\ l.exclusive
    \/ k.exclusive /\ l.exclusive /\ k.name > l.name
    \/ ~k.exclusive /\ ~l.exclusive /\ k.name < l.name

\* The order of acquisition: the shared locks by name, then the exclusive ones.
Before(k, l) ==
    \/ ~k.exclusive /\ l.exclusive
    \/ k.exclusive = l.exclusive /\ k.name < l.name

IsNext(c, l) == l \in todo[c] /\ \A k \in todo[c] \ {l} : Before(l, k)

CanTake(l) == IF l.exclusive THEN CanLock(mutexes[l.name]) ELSE CanLockShared(mutexes[l.name])
Taken(l) == IF l.exclusive THEN Locked(mutexes[l.name]) ELSE LockedShared(mutexes[l.name])
Released(l) == IF l.exclusive THEN Unlocked(mutexes[l.name]) ELSE UnlockedShared(mutexes[l.name])

\* m_ongoingProcesses is empty: before the session is made, after it concluded.
NoProcess(c) == pc[c] \in {"posted", "release", "exited", "ended"}

Init ==
    /\ mutexes = [n \in Names |-> NewMutex]
    /\ pc = [c \in Clients |-> "posted"]
    /\ todo = [c \in Clients |-> {}]
    /\ locks = [c \in Clients |-> {}]
    /\ aborted = [c \in Clients |-> FALSE]
    /\ stop = [c \in Clients |-> FALSE]
    /\ result = [c \in Clients |-> "none"]

\* run(): makeBuildProcess() refuses to make a process for an aborted action.
Run(c) ==
    /\ pc[c] = "posted"
    /\ IF aborted[c]
       THEN pc' = [pc EXCEPT ![c] = "ended"] /\ UNCHANGED todo
       ELSE /\ pc' = [pc EXCEPT ![c] = "acquire"]
            /\ todo' = [todo EXCEPT ![c] = LocksOf(c)]
    /\ UNCHANGED <<mutexes, locks, aborted, stop, result>>

\* acquireNextSharedLock()/acquireNextExclusiveLock(): the callback runs at once
\* or is stored, in which case a stored exclusive callback is lost.
Acquire(c) ==
    /\ pc[c] = "acquire"
    /\ \E l \in todo[c] :
        /\ IsNext(c, l)
        /\ \/ /\ CanTake(l)
              /\ mutexes' = [mutexes EXCEPT ![l.name] = Taken(l)]
              /\ todo' = [todo EXCEPT ![c] = @ \ {l}]
              /\ locks' = [locks EXCEPT ![c] = @ \cup {l}]
              /\ UNCHANGED pc
           \/ /\ ~CanTake(l) /\ l.exclusive
              /\ mutexes' = [mutexes EXCEPT ![l.name] = WithExclusiveCallback(@, c)]
              /\ pc' = [d \in Clients |-> IF d = c THEN "wait"
                                          ELSE IF d = mutexes[l.name].exclusiveCallback THEN "dropped"
                                          ELSE pc[d]]
              /\ UNCHANGED <<todo, locks>>
           \/ /\ ~CanTake(l) /\ ~l.exclusive
              /\ mutexes' = [mutexes EXCEPT ![l.name] = WithSharedCallback(@, c)]
              /\ pc' = [pc EXCEPT ![c] = "wait"]
              /\ UNCHANGED <<todo, locks>>
    /\ UNCHANGED <<aborted, stop, result>>

\* The stored callback: the lock goes to the session and the next one is tried.
RunCallback(c) ==
    /\ pc[c] = "grant"
    /\ \E l \in todo[c] :
        /\ IsNext(c, l)
        /\ todo' = [todo EXCEPT ![c] = @ \ {l}]
        /\ locks' = [locks EXCEPT ![c] = @ \cup {l}]
    /\ pc' = [pc EXCEPT ![c] = "acquire"]
    /\ UNCHANGED <<mutexes, aborted, stop, result>>

\* All locks acquired: launch(), which may fail.
Launch(c) ==
    /\ pc[c] = "acquire"
    /\ todo[c] = {}
    /\ \E to \in {"launched", "release"} : pc' = [pc EXCEPT ![c] = to]
    /\ UNCHANGED <<mutexes, todo, locks, aborted, stop, result>>

\* The process exits, by itself or terminated.
Exit(c) ==
    /\ pc[c] = "launched"
    /\ pc' = [pc EXCEPT ![c] = "release"]
    /\ UNCHANGED <<mutexes, todo, locks, aborted, stop, result>>

\* ~BuildProcessSession() releases the locks one by one; unlock() hands a mutex
\* over to stored callbacks.
Release(c, l) ==
    LET m == Released(l) IN
    /\ pc[c] = "release"
    /\ l \in locks[c]
    /\ locks' = [locks EXCEPT ![c] = @ \ {l}]
    /\ IF m.sharedOwners = 0
       THEN /\ mutexes' = [mutexes EXCEPT ![l.name] = Notified(m)]
            /\ pc' = [d \in Clients |->
                        IF d \in InvokedShared(m) \cup InvokedExclusive(m) THEN "grant" ELSE pc[d]]
       ELSE mutexes' = [mutexes EXCEPT ![l.name] = m] /\ UNCHANGED pc
    /\ UNCHANGED <<todo, aborted, stop, result>>

\* ~BaseProcessSession() posts the exit handler.
PostHandler(c) ==
    /\ pc[c] = "release"
    /\ locks[c] = {}
    /\ pc' = [pc EXCEPT ![c] = "exited"]
    /\ UNCHANGED <<mutexes, todo, locks, aborted, stop, result>>

\* The exit handler reports success or an error.
RunHandler(c) ==
    /\ pc[c] = "exited"
    /\ \E r \in {"success", "failure"} : result' = [result EXCEPT ![c] = r]
    /\ pc' = [pc EXCEPT ![c] = "ended"]
    /\ UNCHANGED <<mutexes, todo, locks, aborted, stop>>

\* postStopBuildActions()/abort(); these actions never set m_waitingOnAsyncLock.
Abort(c) ==
    /\ result[c] = "none"
    /\ ~aborted[c]
    /\ aborted' = [aborted EXCEPT ![c] = TRUE]
    /\ stop' = [stop EXCEPT ![c] = TRUE]
    /\ UNCHANGED <<mutexes, pc, todo, locks, result>>

\* Mutation of RunStopHandler: an action without processes is left alone.
RunStopHandlerIdle(c) ==
    /\ stop[c]
    /\ stop' = [stop EXCEPT ![c] = FALSE]
    /\ UNCHANGED <<mutexes, pc, todo, locks, aborted, result>>

\* terminateOngoingBuildProcesses(): concludes the action if it has no process.
\* A process that was launched exits (Exit); one that was not is not affected.
RunStopHandler(c) ==
    /\ stop[c]
    /\ stop' = [stop EXCEPT ![c] = FALSE]
    /\ result' = [result EXCEPT ![c] = IF NoProcess(c) /\ @ = "none" THEN "aborted" ELSE @]
    /\ UNCHANGED <<mutexes, pc, todo, locks, aborted>>

Next ==
    \E c \in Clients :
        \/ Run(c) \/ Acquire(c) \/ RunCallback(c) \/ Launch(c) \/ Exit(c)
        \/ (\E l \in Lock : Release(c, l))
        \/ PostHandler(c) \/ RunHandler(c)
        \/ Abort(c) \/ RunStopHandler(c)

\* Posted handlers and callbacks are executed and processes exit.  Nobody is
\* obliged to stop an action.
Fairness ==
    \A c \in Clients :
        /\ WF_vars(Run(c))
        /\ WF_vars(Acquire(c) \/ RunCallback(c) \/ Launch(c))
        /\ WF_vars(Exit(c))
        /\ WF_vars(\E l \in Lock : Release(c, l))
        /\ WF_vars(PostHandler(c) \/ RunHandler(c))
        /\ WF_vars(RunStopHandler(c))

Spec == Init /\ [][Next]_vars
FairSpec == Spec /\ Fairness

------------------------------------------------------------------------------

\* Types of the mutexes and of the actions' state.
TypeOK ==
    /\ mutexes \in [Names -> MutexType]
    /\ pc \in [Clients -> PCs]
    /\ todo \in [Clients -> SUBSET Lock]
    /\ locks \in [Clients -> SUBSET Lock]
    /\ aborted \in [Clients -> BOOLEAN]
    /\ stop \in [Clients -> BOOLEAN]
    /\ result \in [Clients -> {"none", "success", "failure", "aborted"}]

\* Two commands whose lock settings conflict never run at the same time: every
\* process is covered by its locks from launch to exit.
ConflictingNeverTogether ==
    \A c, d \in Clients :
        c # d /\ pc[c] = "launched" /\ pc[d] = "launched" =>
            Exclusive[c] \cap (Shared[d] \cup Exclusive[d]) = {}

\* The locks an action that waits is waiting for, and the actions in its way.
Wanted(c) == {l \in todo[c] : pc[c] = "wait" /\ IsNext(c, l)}
InTheWay(c) ==
    {d \in Clients : \E l \in Wanted(c), k \in locks[d] :
        k.name = l.name /\ (k.exclusive \/ l.exclusive)}

\* "locks are always acquired in the same order (to prevent deadlocks)"
\* (customcommand.cpp:84): no set of actions waits for each other's locks.
NoCircularWait ==
    ~ \E D \in (SUBSET Clients) \ {{}} : \A c \in D : InTheWay(c) \cap D # {}

\* The two sides of locking several names, safety and order: conflicting commands
\* never run together, and no commands wait for each other in a circle.
Consistent == TypeOK /\ ConflictingNeverTogether /\ NoCircularWait

\* Every command is concluded at some point, stopped or not: waiting for locks,
\* exit handlers and stop handlers never leaves an action executing for ever.
EventuallyConcluded == \A c \in Clients : <>(result[c] # "none")
==============================================================================
