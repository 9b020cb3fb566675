----------------------------- MODULE ChrootBuild -----------------------------
(***************************************************************************)
(* Building a package in a chroot (ConductBuild::invokeMakechrootpkg and   *)
(* its steps 2 and 3, librepomgr/buildactions/conductbuild.cpp) on top of  *)
(* BuildAction::acquireToWrite(), raced by BuildAction::abort() and the    *)
(* stop handler.                                                           *)
(*                                                                         *)
(* The action first locks the chroot's root directory, then the user's     *)
(* working copy; actions using different chroots have no lock in common.   *)
(* The locks and the process session travel inside the callbacks:          *)
(* destroying a callback releases its locks and, through the destructors   *)
(* of the sessions, posts the handlers that conclude the action.  Clients  *)
(* are the actions, each building one package.                             *)
(***************************************************************************)
EXTENDS GlobalSharedMutex

CONSTANTS
    Names,      \* lock names
    Root,       \* lock of the root directory of the chroot
    UserOf,     \* lock of the working copy an action uses
    Stoppable   \* bound: the actions somebody stops

ASSUME ChrootAssumption ==
    /\ Root \in Names
    /\ UserOf \in [Clients -> Names \ {Root}]
    /\ Stoppable \subseteq Clients

VARIABLES
    mutexes,    \* the mutex of each name
    pc,         \* where the action's job is
    held,       \* locks owned by the job's callback or process session
    session,    \* the process session
    failed,     \* the package was added to the failed ones (addResponse)
    waiting,    \* m_waitingOnAsyncLock
    aborted,    \* m_aborted
    aborting,   \* abort() has set m_aborted and not tested m_waitingOnAsyncLock yet
    stop,       \* the stop handler is posted
    outcome     \* result of the action, "none" while it is executing

chrootVars == <<mutexes, pc, held, session, failed, waiting, aborted, aborting, stop, outcome>>

\* start     about to lock the root directory    flagged   m_waitingOnAsyncLock is set
\* request   about to call Locks::acquireToWrite wait      callback stored in the mutex
\* granted   callback invoked by the mutex       posted    callback posted to another thread
\* callback  executing it                        prepared  about to lock the working copy
\* process   makechrootpkg is running            unwind    callback or session being destroyed
\* exited    exit handler posted                 enqueue   about to start the next package
\* finish    checkBuildErrors() posted           ended     nothing left to do
JobStates == {"start", "flagged", "request", "wait", "granted", "posted", "callback", "prepared",
        "process", "unwind", "exited", "enqueue", "finish", "ended"}

\* none  not made   ongoing  in m_ongoingProcesses   detached  removed, never exited   exited
Sessions == {"none", "ongoing", "detached", "exited"}

Current(c) == IF session[c] = "none" THEN Root ELSE UserOf[c]

\* The building lock is free; abort() is called with it.
BuildLock == \A c \in Clients : ~aborting[c]

ChrootInit ==
    /\ mutexes = [n \in Names |-> NewMutex]
    /\ pc = [c \in Clients |-> "start"]
    /\ held = [c \in Clients |-> {}]
    /\ session = [c \in Clients |-> "none"]
    /\ failed = [c \in Clients |-> FALSE]
    /\ waiting = [c \in Clients |-> FALSE]
    /\ aborted = [c \in Clients |-> FALSE]
    /\ aborting = [c \in Clients |-> FALSE]
    /\ stop = [c \in Clients |-> FALSE]
    /\ outcome = [c \in Clients |-> "none"]

\* conclude(r) drops the session from m_ongoingProcesses.
Concluded(c, r, to) ==
    /\ outcome' = [outcome EXCEPT ![c] = r]
    /\ session' = [session EXCEPT ![c] = IF @ = "ongoing" THEN "detached" ELSE @]
    /\ pc' = [pc EXCEPT ![c] = to]

\* if (isExecuting()) conclude(Aborted)
ConcludedIfExecuting(c, to) ==
    IF outcome[c] = "none"
    THEN Concluded(c, "aborted", to)
    ELSE pc' = [pc EXCEPT ![c] = to] /\ UNCHANGED <<outcome, session>>

------------------------------------------------------------------------------
(* BuildAction::acquireToWrite() *)

SetWaiting(c) ==
    /\ pc[c] \in {"start", "prepared"}
    /\ waiting' = [waiting EXCEPT ![c] = TRUE]
    /\ pc' = [pc EXCEPT ![c] = "flagged"]
    /\ UNCHANGED <<mutexes, held, session, failed, aborted, aborting, stop, outcome>>

\* Mutation of CheckAborted: the flag is not checked after setting the other one.
CheckAbortedNever(c) ==
    /\ pc[c] = "flagged"
    /\ pc' = [pc EXCEPT ![c] = "request"]
    /\ UNCHANGED <<mutexes, held, session, failed, waiting, aborted, aborting, stop, outcome>>

CheckAborted(c) ==
    /\ pc[c] = "flagged"
    /\ \/ /\ aborted[c] /\ BuildLock
          /\ ConcludedIfExecuting(c, "unwind")
       \/ /\ ~aborted[c]
          /\ pc' = [pc EXCEPT ![c] = "request"]
          /\ UNCHANGED <<session, outcome>>
    /\ UNCHANGED <<mutexes, held, failed, waiting, aborted, aborting, stop>>

\* Locks::acquireToWrite(); a callback stored before is destroyed.
Request(c) ==
    LET n == Current(c) IN
    /\ pc[c] = "request"
    /\ IF CanLock(mutexes[n])
       THEN /\ mutexes' = [mutexes EXCEPT ![n] = Locked(@)]
            /\ pc' = [pc EXCEPT ![c] = "granted"]
       ELSE /\ mutexes' = [mutexes EXCEPT ![n] = WithExclusiveCallback(@, c)]
            /\ pc' = [d \in Clients |-> IF d = c THEN "wait"
                                        ELSE IF d = mutexes[n].exclusiveCallback THEN "unwind"
                                        ELSE pc[d]]
    /\ UNCHANGED <<held, session, failed, waiting, aborted, aborting, stop, outcome>>

\* The callback invoked by the mutex posts the one passed to acquireToWrite().
Granted(c) ==
    /\ pc[c] = "granted"
    /\ held' = [held EXCEPT ![c] = @ \cup {Current(c)}]
    /\ waiting' = [waiting EXCEPT ![c] = FALSE]
    /\ pc' = [pc EXCEPT ![c] = "posted"]
    /\ UNCHANGED <<mutexes, session, failed, aborted, aborting, stop, outcome>>

\* Mutation of RunPosted: the lock of an aborted action is not released.
RunPostedLeaking(c) ==
    /\ pc[c] = "posted"
    /\ BuildLock
    /\ IF aborted[c]
       THEN ConcludedIfExecuting(c, "finish")
       ELSE pc' = [pc EXCEPT ![c] = "callback"] /\ UNCHANGED <<session, outcome>>
    /\ UNCHANGED <<mutexes, held, failed, waiting, aborted, aborting, stop>>

RunPosted(c) ==
    /\ pc[c] = "posted"
    /\ BuildLock
    /\ IF aborted[c]
       THEN ConcludedIfExecuting(c, "unwind")
       ELSE pc' = [pc EXCEPT ![c] = "callback"] /\ UNCHANGED <<session, outcome>>
    /\ UNCHANGED <<mutexes, held, failed, waiting, aborted, aborting, stop>>

------------------------------------------------------------------------------
(* Releasing locks *)

Released(n) == Unlocked(mutexes[n])

\* Client c releases lock n and goes to "to"; a stored callback is invoked.
Release(c, n, to) ==
    LET m == Released(n) IN
    /\ held' = [held EXCEPT ![c] = @ \ {n}]
    /\ mutexes' = [mutexes EXCEPT ![n] = Notified(m)]
    /\ pc' = [d \in Clients |-> IF d \in InvokedExclusive(m) THEN "granted"
                                ELSE IF d = c THEN to ELSE pc[d]]

\* Destructors of a callback or of a process session.
Unwind(c) ==
    /\ pc[c] = "unwind"
    /\ \E n \in held[c] : Release(c, n, "unwind")
    /\ UNCHANGED <<session, failed, waiting, aborted, aborting, stop, outcome>>

\* A destroyed process session posts its exit handler, the last reference to the
\* batch session posts checkBuildErrors().
Unwound(c) ==
    /\ pc[c] = "unwind"
    /\ held[c] = {}
    /\ pc' = [pc EXCEPT ![c] = IF session[c] = "none" THEN "finish" ELSE "exited"]
    /\ UNCHANGED <<mutexes, held, session, failed, waiting, aborted, aborting, stop, outcome>>

------------------------------------------------------------------------------
(* The steps of ConductBuild *)

\* invokeMakechrootpkgStep2(): configuring the chroot may fail, and no process
\* session is made for an aborted action (enqueueMakechrootpkg() then reports it
\* as aborted).
Prepare(c) ==
    /\ pc[c] = "callback" /\ session[c] = "none"
    /\ \/ /\ Release(c, Root, "enqueue")
          /\ failed' = [failed EXCEPT ![c] = TRUE]
          /\ UNCHANGED <<session, outcome>>
       \/ /\ aborted[c] /\ BuildLock
          /\ Concluded(c, "aborted", "unwind")
          /\ UNCHANGED <<mutexes, held, failed>>
       \/ /\ ~aborted[c] /\ BuildLock
          /\ session' = [session EXCEPT ![c] = "ongoing"]
          /\ pc' = [pc EXCEPT ![c] = "prepared"]
          /\ UNCHANGED <<mutexes, held, failed, outcome>>
    /\ UNCHANGED <<waiting, aborted, aborting, stop>>

\* invokeMakechrootpkgStep3(): launching may fail.
Launch(c) ==
    /\ pc[c] = "callback" /\ session[c] # "none"
    /\ \/ pc' = [pc EXCEPT ![c] = "process"] /\ UNCHANGED session
       \/ pc' = [pc EXCEPT ![c] = "unwind"] /\ session' = [session EXCEPT ![c] = "detached"]
    /\ UNCHANGED <<mutexes, held, failed, waiting, aborted, aborting, stop, outcome>>

\* "Synchronizing chroot copy" in the output: locks().pop_back().
Synchronized(c) ==
    /\ pc[c] = "process" /\ Root \in held[c]
    /\ Release(c, Root, "process")
    /\ UNCHANGED <<session, failed, waiting, aborted, aborting, stop, outcome>>

\* The process exits, by itself or terminated.
Exit(c) ==
    /\ pc[c] = "process"
    /\ pc' = [pc EXCEPT ![c] = "unwind"]
    /\ session' = [session EXCEPT ![c] = "exited"]
    /\ UNCHANGED <<mutexes, held, failed, waiting, aborted, aborting, stop, outcome>>

\* handleMakechrootpkgErrorsAndAddPackageToRepo(): a process that was never
\* launched counts as failed.  Adding the package to the repository may fail, too.
RunExitHandler(c) ==
    /\ pc[c] = "exited"
    /\ \E f \in BOOLEAN :
        /\ session[c] = "detached" => f
        /\ failed' = [failed EXCEPT ![c] = f]
    /\ pc' = [pc EXCEPT ![c] = "enqueue"]
    /\ UNCHANGED <<mutexes, held, session, waiting, aborted, aborting, stop, outcome>>

\* enqueueMakechrootpkg() when there is no further package: reportAbortedIfAborted().
Enqueue(c) ==
    /\ pc[c] = "enqueue"
    /\ \/ aborted[c] /\ BuildLock /\ Concluded(c, "aborted", "finish")
       \/ /\ ~aborted[c]
          /\ pc' = [pc EXCEPT ![c] = "finish"]
          /\ UNCHANGED <<session, outcome>>
    /\ UNCHANGED <<mutexes, held, failed, waiting, aborted, aborting, stop>>

\* checkBuildErrors(): reports an error if a package has failed, success otherwise.
FinishBuild(c) ==
    /\ pc[c] = "finish" /\ BuildLock
    /\ Concluded(c, IF failed[c] THEN "failure" ELSE "success", "ended")
    /\ UNCHANGED <<mutexes, held, failed, waiting, aborted, aborting, stop>>

------------------------------------------------------------------------------
(* Stopping the action *)

\* abort() is called under the building lock for an executing action; the second
\* call would set the same flag again, so one call per action is enough.
Abort(c) ==
    /\ BuildLock
    /\ outcome[c] = "none" /\ ~aborted[c]
    /\ aborted' = [aborted EXCEPT ![c] = TRUE]
    /\ aborting' = [aborting EXCEPT ![c] = TRUE]
    /\ stop' = [stop EXCEPT ![c] = TRUE]
    /\ UNCHANGED <<mutexes, pc, held, session, failed, waiting, outcome>>

AbortWaiting(c) ==
    /\ aborting[c]
    /\ aborting' = [aborting EXCEPT ![c] = FALSE]
    /\ IF waiting[c]
       THEN ConcludedIfExecuting(c, pc[c])
       ELSE UNCHANGED <<pc, session, outcome>>
    /\ UNCHANGED <<mutexes, held, failed, waiting, aborted, stop>>

\* terminateOngoingBuildProcesses(): terminates the process if it is running
\* (Exit) and concludes the action if it has no process session.
RunStopHandler(c) ==
    /\ stop[c]
    /\ stop' = [stop EXCEPT ![c] = FALSE]
    /\ \/ /\ session[c] = "ongoing"
          /\ UNCHANGED <<pc, session, outcome>>
       \/ /\ session[c] # "ongoing" /\ BuildLock
          /\ ConcludedIfExecuting(c, pc[c])
    /\ UNCHANGED <<mutexes, held, failed, waiting, aborted, aborting>>

------------------------------------------------------------------------------
Job(c) ==
    \/ SetWaiting(c) \/ CheckAborted(c) \/ Request(c) \/ Granted(c) \/ RunPosted(c)
    \/ Unwind(c) \/ Unwound(c) \/ Prepare(c) \/ Launch(c)
    \/ RunExitHandler(c) \/ Enqueue(c) \/ FinishBuild(c)

ChrootNext ==
    \E c \in Clients :
        \/ Job(c) \/ Synchronized(c) \/ Exit(c)
        \/ (c \in Stoppable /\ Abort(c)) \/ AbortWaiting(c) \/ RunStopHandler(c)

\* Threads keep running and posted handlers are executed.  Processes may run for
\* ever and nobody is obliged to stop an action.
ChrootFairness ==
    \A c \in Clients : WF_chrootVars(Job(c)) /\ WF_chrootVars(AbortWaiting(c)) /\ WF_chrootVars(RunStopHandler(c))

ChrootSpec == ChrootInit /\ [][ChrootNext]_chrootVars
FairChrootSpec == ChrootSpec /\ ChrootFairness

------------------------------------------------------------------------------

\* Types of the mutexes and of the actions' state.
ChrootTypeOK ==
    /\ mutexes \in [Names -> MutexType]
    /\ pc \in [Clients -> JobStates]
    /\ held \in [Clients -> SUBSET Names]
    /\ session \in [Clients -> Sessions]
    /\ failed \in [Clients -> BOOLEAN]
    /\ waiting \in [Clients -> BOOLEAN]
    /\ aborted \in [Clients -> BOOLEAN]
    /\ aborting \in [Clients -> BOOLEAN]
    /\ stop \in [Clients -> BOOLEAN]
    /\ outcome \in [Clients -> {"none", "success", "failure", "aborted"}]

\* While an action configures the root directory or waits for the working copy
\* it owns the root directory alone, while makechrootpkg runs it owns the working
\* copy alone, whatever is aborted or overwritten meanwhile.
ChrootProtected ==
    /\ \A c, d \in Clients : c # d => held[c] \cap held[d] = {}
    /\ \A c \in Clients :
        /\ pc[c] \in {"callback", "prepared", "request", "wait"} =>
              (session[c] = "none" /\ pc[c] # "callback") \/ Root \in held[c]
        /\ pc[c] = "process" => UserOf[c] \in held[c]

\* A mutex is owned exactly by the action that holds it or is being granted it:
\* destroying callbacks and sessions on the way of an abort leaks no lock, a job
\* that has ended holds none, and a session whose owner is destroyed is not kept
\* alive by m_ongoingProcesses, so that its exit handler is executed.
NoLeakedLock ==
    /\ \A n \in Names : mutexes[n].exclusivelyOwned <=>
          \E c \in Clients : n \in held[c] \/ (pc[c] = "granted" /\ Current(c) = n)
    /\ \A c \in Clients : pc[c] \in {"exited", "enqueue", "finish", "ended"} => held[c] = {}
    /\ \A c \in Clients : pc[c] = "unwind" => session[c] # "ongoing"

\* The directories are protected and no lock is leaked on any way out.
ChrootConsistent == ChrootTypeOK /\ ChrootProtected /\ NoLeakedLock

\* "thus the build action is not stuck in running until the lock is acquired"
\* (buildaction.cpp:379): an aborted action that waits for a lock is concluded
\* although the process in its way may run for ever.
AbortConcludes ==
    \A c \in Clients : aborted[c] /\ pc[c] = "wait" ~> outcome[c] # "none"

\* Provided that processes exit, every action is concluded, whether it is aborted
\* or its callback is overwritten by another action's.
EventuallyEnded ==
    (\A c \in Clients : WF_chrootVars(Exit(c)))
        => \A c \in Clients : <>[](outcome[c] # "none")

==============================================================================
