---------------------------- MODULE BuildActions ----------------------------
(***************************************************************************)
(* The life cycle of build actions: ServiceSetup::BuildSetup (the store,   *)
(* the cache of running actions and the index of follow-up actions),       *)
(* BuildAction::start/conclude/abort and the handlers of the web API that  *)
(* create, start, stop, clone and delete actions.                          *)
(*                                                                         *)
(* A record is reduced to its status, with Finished split by hasSucceeded, *)
(* and its startAfter.  "placeholder" is the empty record that             *)
(* allocateBuildActionID() stores: its own id field is invalidId, so       *)
(* whatever is keyed by that field (an index entry, a deletion, the record *)
(* start() writes for it) never concerns the allocated id.                 *)
(*                                                                         *)
(* Every step except TaskRead, TaskStart and TaskRelease runs under the    *)
(* exclusive building lock and is atomic; those three run under the shared *)
(* lock.  Restart and Shutdown end the process.                            *)
(***************************************************************************)
EXTENDS Integers, FiniteSets

CONSTANTS MaxId,       \* bound: ids the store can hand out
          Posters,     \* threads serving POST /build-action with a type
          Taskers,     \* threads serving POST /build-action with a task
          Requests,    \* the other requests clients issue
          MaxMentions  \* how often a start request may name one id

ASSUME BuildActionsAssumption ==
    /\ MaxId \in Nat
    /\ MaxMentions \in Nat \ {0}

VARIABLES status,      \* status of the record stored under an id
          startAfter,  \* startAfter of that record
          running,     \* keys of m_runningActions
          followUps,   \* m_followUpActions
          runs,        \* number of BuildAction objects executing under an id
          aborted,     \* how far abort() got with the executing object
          grave,       \* status a record had when its deletion was answered "ok"
          posts,       \* postBuildAction() calls in progress
          tasks        \* postBuildActionsFromTask() calls in progress

vars == <<status, startAfter, running, followUps, runs, aborted, grave, posts, tasks>>
store == <<status, startAfter, running, followUps, runs, aborted, grave>>

Ids == 1 .. MaxId
Status == {"absent", "placeholder", "created", "running", "succeeded", "failed"}
Committed == Status \ {"absent", "placeholder"}

NoPost == [id |-> 0, now |-> FALSE, after |-> {}]
NoTask == [phase |-> "idle", first |-> 0, second |-> 0, now |-> FALSE,
           after |-> {}, copied |-> {}]

PostType == [id : Ids \cup {0}, now : BOOLEAN, after : SUBSET Ids]
TaskType == [phase : {"idle", "allocated", "reading", "started", "gap"},
             first : Ids \cup {0}, second : Ids \cup {0}, now : BOOLEAN,
             after : SUBSET Ids, copied : SUBSET Ids]

\* The building lock: the shared lock is held while a task handler serializes
\* and starts its actions, the exclusive lock needs all of those to be done.
ReadLocked == {t \in Taskers : tasks[t].phase \in {"reading", "started"}}
WriteLock == ReadLocked = {}

IsScheduled(i) == status[i] \in {"created", "placeholder"}
IsExecuting(i) == status[i] = "running"
IsDone(i) == status[i] \in {"succeeded", "failed"}

\* External (LMDB store): newID() is one above the highest stored id, so the
\* id of a deleted action can be handed out again.
NewId(i) ==
    /\ \A j \in Ids : j >= i => status[j] = "absent"
    /\ i > 1 => status[i - 1] # "absent"

\* The ids of S that storeBuildAction() files a follow-up under.  Ids without a
\* record are skipped; a placeholder is filed under invalidId.
Pending(S) == {p \in S : status[p] \in {"created", "running", "failed"}}

Registered(index, f, S) ==
    [p \in Ids |-> IF p \in S THEN index[p] \cup {f} ELSE index[p]]

Withdrawn(index, f, S) ==
    [p \in Ids |-> IF p \in S THEN index[p] \ {f} ELSE index[p]]

Unregistered(index, F) ==
    [p \in Ids |-> index[p] \ {f \in F : p \in startAfter[f]}]

\* What a handler's pointer to an action shows, the record deleted or not.
Object(i) == IF status[i] = "absent" THEN grave[i] ELSE status[i]

------------------------------------------------------------------------------
(* POST /build-action with a type *)

PostAllocate(h) ==
    /\ posts[h] = NoPost
    /\ WriteLock
    /\ \E i \in Ids, now \in BOOLEAN, S \in SUBSET {p \in Ids : status[p] \in Committed} :
        /\ NewId(i)
        /\ now => S = {}
        /\ posts' = [posts EXCEPT ![h] = [id |-> i, now |-> now, after |-> S]]
        /\ status' = [status EXCEPT ![i] = "placeholder"]
        /\ startAfter' = [startAfter EXCEPT ![i] = {}]
        /\ grave' = [grave EXCEPT ![i] = "absent"]
    /\ UNCHANGED <<running, followUps, runs, aborted, tasks>>

\* "immediately": start(), which stores the action as running.
PostStart(h) ==
    LET i == posts[h].id IN
    /\ i # 0 /\ posts[h].now
    /\ WriteLock
    /\ status' = [status EXCEPT ![i] = "running"]
    /\ running' = running \cup {i}
    /\ runs' = [runs EXCEPT ![i] = @ + 1]
    /\ posts' = [posts EXCEPT ![h] = NoPost]
    /\ UNCHANGED <<startAfter, followUps, aborted, grave, tasks>>

\* "manually" or "after": only storeBuildAction().  Its branch that would start
\* an action whose predecessors all succeeded is dead (allSucceeded is never true).
PostStore(h) ==
    LET i == posts[h].id
        S == posts[h].after IN
    /\ i # 0 /\ ~posts[h].now
    /\ WriteLock
    /\ status' = [status EXCEPT ![i] = "created"]
    /\ startAfter' = [startAfter EXCEPT ![i] = S]
    /\ running' = running \ {i}
    /\ followUps' = Registered(followUps, i, Pending(S))
    /\ posts' = [posts EXCEPT ![h] = NoPost]
    /\ UNCHANGED <<runs, aborted, grave, tasks>>

------------------------------------------------------------------------------
(* POST /build-action with a task: a sequence of two actions, the second    *)
(* after the first.                                                         *)

\* Ids are allocated and the actions to start after are looked up.  Those not
\* running at this point are copies that later changes do not reach.
TaskAllocate(t) ==
    /\ tasks[t] = NoTask
    /\ WriteLock
    /\ \E i \in Ids, now \in BOOLEAN, S \in SUBSET {p \in Ids : status[p] \in Committed} :
        /\ NewId(i) /\ i + 1 \in Ids
        /\ now => S = {}
        /\ tasks' = [tasks EXCEPT ![t] =
                [phase |-> "allocated", first |-> i, second |-> i + 1, now |-> now,
                 after |-> S,
                 copied |-> {p \in S : status[p] \in {"created", "failed"}}]]
        /\ status' = [status EXCEPT ![i] = "placeholder", ![i + 1] = "placeholder"]
        /\ startAfter' = [startAfter EXCEPT ![i] = {}, ![i + 1] = {}]
        /\ grave' = [grave EXCEPT ![i] = "absent", ![i + 1] = "absent"]
    /\ UNCHANGED <<running, followUps, runs, aborted, posts>>

StartNow(t) ==
    \/ tasks[t].now
    \/ /\ tasks[t].after # {} /\ tasks[t].copied = {}
       /\ \A p \in tasks[t].after : Object(p) = "succeeded"

\* lockToRead(); startNow is computed and the response serialized.
TaskRead(t) ==
    /\ tasks[t].phase = "allocated"
    /\ tasks' = [tasks EXCEPT ![t].phase = "reading", ![t].now = StartNow(t)]
    /\ UNCHANGED <<store, posts>>

\* startFirstBuildActions() under the shared lock.
TaskStart(t) ==
    LET i == tasks[t].first IN
    /\ tasks[t].phase = "reading" /\ tasks[t].now
    /\ status' = [status EXCEPT ![i] = "running"]
    /\ startAfter' = [startAfter EXCEPT ![i] = tasks[t].after]
    /\ running' = running \cup {i}
    /\ runs' = [runs EXCEPT ![i] = @ + 1]
    /\ followUps' = Withdrawn(followUps, i, tasks[t].after)
    /\ tasks' = [tasks EXCEPT ![t].phase = "started"]
    /\ UNCHANGED <<aborted, grave, posts>>

\* lockToWrite(readLock) gives up the shared lock before it waits for the
\* exclusive one.
TaskRelease(t) ==
    /\ tasks[t].phase = IF tasks[t].now THEN "started" ELSE "reading"
    /\ tasks' = [tasks EXCEPT ![t].phase = "gap"]
    /\ UNCHANGED <<store, posts>>

\* storeBuildAction() for both actions, in whatever state the first one is now.
TaskStore(t) ==
    LET i == tasks[t].first
        s == tasks[t].second
        first == IF tasks[t].now THEN Object(i) ELSE "created"
        index == IF first = "created"
                 THEN Registered(followUps, i, Pending(tasks[t].after))
                 ELSE Withdrawn(followUps, i, tasks[t].after)
    IN
    /\ tasks[t].phase = "gap"
    /\ WriteLock
    /\ status' = [status EXCEPT ![i] = first, ![s] = "created"]
    /\ startAfter' = [startAfter EXCEPT ![i] = tasks[t].after, ![s] = {i}]
    /\ running' = (IF first = "running" THEN running \cup {i} ELSE running \ {i}) \ {s}
    /\ followUps' = Registered(index, s, IF first = "succeeded" THEN {} ELSE {i})
    /\ tasks' = [tasks EXCEPT ![t] = NoTask]
    /\ UNCHANGED <<runs, aborted, grave, posts>>

------------------------------------------------------------------------------
(* The other requests.  Those naming several ids check all of them first    *)
(* and alter nothing when one does not qualify.                             *)

\* Every mention of an id that is not running loads an object of its own.
StartActions(S, n) ==
    LET T == {i \in S : status[i] = "created"} IN
    /\ WriteLock
    /\ \A i \in S : IsScheduled(i)
    /\ status' = [i \in Ids |-> IF i \in T THEN "running" ELSE status[i]]
    /\ running' = running \cup T
    /\ runs' = [i \in Ids |-> IF i \in T THEN runs[i] + n ELSE runs[i]]
    /\ followUps' = Unregistered(followUps, T)
    /\ UNCHANGED <<startAfter, aborted, grave, posts, tasks>>

\* An action concluded as aborted: conclude() stores it and starts no follow-ups.
Aborted(W) ==
    /\ status' = [i \in Ids |-> IF i \in W THEN "failed" ELSE status[i]]
    /\ running' = running \ W
    /\ followUps' = Unregistered(followUps, W)

\* abort() sets m_aborted and posts the stop handler.  An action waiting for an
\* asynchronous lock (W) is concluded at once; its job comes to nothing.
StopActions(S, W) ==
    /\ WriteLock
    /\ \A i \in S : IsExecuting(i)
    /\ Aborted(W)
    /\ aborted' = [i \in Ids |-> IF i \in W THEN "dismissed" ELSE IF i \in S THEN "posted" ELSE aborted[i]]
    /\ UNCHANGED <<startAfter, runs, grave, posts, tasks>>

\* Mutation of RunStopHandler: the action stays in m_runningActions.
RunStopHandlerKeepingCache(i) ==
    /\ aborted[i] = "posted"
    /\ WriteLock
    /\ status' = [status EXCEPT ![i] = "failed"]
    /\ aborted' = [aborted EXCEPT ![i] = "concluded"]
    /\ UNCHANGED <<startAfter, running, followUps, runs, grave, posts, tasks>>

\* terminateOngoingBuildProcesses(): without processes the action is concluded,
\* its job possibly still at work; otherwise the processes are signalled and the
\* job is left to conclude the action.
RunStopHandler(i) ==
    /\ aborted[i] = "posted"
    /\ \/ /\ WriteLock
          /\ Aborted({i})
          /\ aborted' = [aborted EXCEPT ![i] = "concluded"]
          /\ UNCHANGED <<startAfter, runs, grave, posts, tasks>>
       \/ /\ aborted' = [aborted EXCEPT ![i] = "signalled"]
          /\ UNCHANGED <<status, startAfter, running, followUps, runs, grave, posts, tasks>>

\* The job of an action that was concluded as aborted may end silently: the callback
\* passed to acquireToWrite() is not executed, makeBuildProcess() returns nullptr.
\* It may as well conclude the action once more (Conclude, see ChrootBuild).
AbandonJob(i) ==
    /\ aborted[i] \in {"dismissed", "concluded"}
    /\ runs[i] > 0
    /\ runs' = [runs EXCEPT ![i] = @ - 1]
    /\ aborted' = [aborted EXCEPT ![i] = "no"]
    /\ UNCHANGED <<status, startAfter, running, followUps, grave, posts, tasks>>

\* Mutation of DeleteActions: the index of follow-up actions is left alone.
DeleteActionsKeepingIndex(S) ==
    LET T == {i \in S : status[i] # "placeholder"} IN
    /\ WriteLock
    /\ \A i \in S : status[i] # "absent" /\ ~IsExecuting(i)
    /\ status' = [i \in Ids |-> IF i \in T THEN "absent" ELSE status[i]]
    /\ grave' = [i \in Ids |-> IF i \in S THEN status[i] ELSE grave[i]]
    /\ running' = running \ T
    /\ UNCHANGED <<startAfter, followUps, runs, aborted, posts, tasks>>

DeleteActions(S) ==
    LET T == {i \in S : status[i] # "placeholder"} IN
    /\ WriteLock
    /\ \A i \in S : status[i] # "absent" /\ ~IsExecuting(i)
    /\ status' = [i \in Ids |-> IF i \in T THEN "absent" ELSE status[i]]
    /\ grave' = [i \in Ids |-> IF i \in S THEN status[i] ELSE grave[i]]
    /\ running' = running \ T
    /\ followUps' = [p \in Ids |-> IF p \in T THEN {} ELSE followUps[p] \ T]
    /\ UNCHANGED <<startAfter, runs, aborted, posts, tasks>>

CloneAction(orig, i, now) ==
    LET S == startAfter[orig] IN
    /\ WriteLock
    /\ IsDone(orig)
    /\ NewId(i)
    /\ status' = [status EXCEPT ![i] = IF now THEN "running" ELSE "created"]
    /\ startAfter' = [startAfter EXCEPT ![i] = S]
    /\ running' = IF now THEN running \cup {i} ELSE running \ {i}
    /\ runs' = [runs EXCEPT ![i] = IF now THEN @ + 1 ELSE @]
    /\ followUps' = Registered(followUps, i, IF now THEN {} ELSE Pending(S))
    /\ grave' = [grave EXCEPT ![i] = "absent"]
    /\ UNCHANGED <<aborted, posts, tasks>>

------------------------------------------------------------------------------
(* The worker threads: an execution ends.                                   *)

\* The follow-ups conclude() starts: those filed under i that are scheduled and
\* whose predecessors with a record have all succeeded, i's own state being
\* seen as "own".
Triggered(i, own) ==
    {f \in followUps[i] :
        /\ IsScheduled(f)
        /\ \A p \in startAfter[f] \ {i} : status[p] \in {"succeeded", "absent"}
        /\ i \in startAfter[f] => own \in {"succeeded", "absent"}}

\* Mutation of Own: conclude() reads its own status from the storage.
OwnStored(i, result, cached) == status[i]

\* The concluding object is the one in m_runningActions ("cached") or, when the
\* action was started more than once, another one.  Only the former sees itself
\* as finished when it looks up its own id.
Own(i, result, cached) ==
    IF i \notin running THEN status[i] ELSE IF cached THEN result ELSE "running"

Conclude(i, result, cached) ==
    LET F == IF result = "succeeded" THEN Triggered(i, Own(i, result, cached)) ELSE {} IN
    /\ WriteLock
    /\ runs[i] > 0
    /\ cached => i \in running
    /\ ~cached => i \notin running \/ runs[i] > 1
    /\ status' = [j \in Ids |-> IF j = i THEN result
                                ELSE IF j \in F THEN "running" ELSE status[j]]
    /\ running' = (running \cup F) \ {i}
    /\ runs' = [j \in Ids |-> IF j = i THEN runs[j] - 1
                              ELSE IF j \in F THEN runs[j] + 1 ELSE runs[j]]
    /\ followUps' = Unregistered(followUps, F \cup {i})
    /\ aborted' = [aborted EXCEPT ![i] = "no"]
    /\ UNCHANGED <<startAfter, grave, posts, tasks>>

------------------------------------------------------------------------------
(* The end of the process, and the next one's restoreState().               *)

\* Mutation of Restored: every action that was ever started counts as crashed.
RestoredFailed(K) ==
    /\ status' = [i \in Ids |-> IF i \in K \/ status[i] = "succeeded" THEN "failed" ELSE status[i]]
    /\ running' = {}
    /\ followUps' = [p \in Ids |-> {f \in Ids \ K : status[f] = "created" /\ p \in startAfter[f]}]
    /\ runs' = [i \in Ids |-> 0]
    /\ aborted' = [i \in Ids |-> "no"]
    /\ posts' = [h \in Posters |-> NoPost]
    /\ tasks' = [t \in Taskers |-> NoTask]
    /\ UNCHANGED <<startAfter, grave>>

\* What restoreState() makes of the stored records: K are stored as running.
Restored(K) ==
    /\ status' = [i \in Ids |-> IF i \in K THEN "failed" ELSE status[i]]
    /\ running' = {}
    /\ followUps' = [p \in Ids |-> {f \in Ids \ K : status[f] = "created" /\ p \in startAfter[f]}]
    /\ runs' = [i \in Ids |-> 0]
    /\ aborted' = [i \in Ids |-> "no"]
    /\ posts' = [h \in Posters |-> NoPost]
    /\ tasks' = [t \in Taskers |-> NoTask]
    /\ UNCHANGED <<startAfter, grave>>

\* A crash, possibly in the middle of conclude(), which stores every follow-up
\* it starts before the concluded action itself.
Restart ==
    \E F \in SUBSET UNION {Triggered(i, "succeeded") : i \in running} :
        /\ F # {} => WriteLock /\ \E i \in running : F \subseteq Triggered(i, "succeeded")
        /\ Restored({i \in Ids : IsExecuting(i)} \cup F)

\* run() after the web server and the workers have stopped: executing actions are
\* stored as aborted.
Shutdown ==
    /\ \A h \in Posters : posts[h] = NoPost
    /\ \A t \in Taskers : tasks[t] = NoTask
    /\ Restored({i \in Ids : IsExecuting(i)})

------------------------------------------------------------------------------
Init ==
    /\ status = [i \in Ids |-> "absent"]
    /\ startAfter = [i \in Ids |-> {}]
    /\ running = {}
    /\ followUps = [i \in Ids |-> {}]
    /\ runs = [i \in Ids |-> 0]
    /\ aborted = [i \in Ids |-> "no"]
    /\ grave = [i \in Ids |-> "absent"]
    /\ posts = [h \in Posters |-> NoPost]
    /\ tasks = [t \in Taskers |-> NoTask]

Post(h) == PostAllocate(h) \/ PostStart(h) \/ PostStore(h)

Task(t) == TaskAllocate(t) \/ TaskRead(t) \/ TaskStart(t) \/ TaskRelease(t) \/ TaskStore(t)

\* Clients wait with the deletion of a stopped action until its job has ended:
\* the late result of a deleted action would hit whatever has got its id since.
Request ==
    \/ /\ "start" \in Requests
       /\ \E S \in (SUBSET Ids) \ {{}}, n \in 1 .. MaxMentions : StartActions(S, n)
    \/ /\ "stop" \in Requests
       /\ \E S \in (SUBSET Ids) \ {{}} : \E W \in SUBSET S : StopActions(S, W)
    \/ /\ "delete" \in Requests
       /\ \E S \in (SUBSET {i \in Ids : aborted[i] = "no"}) \ {{}} : DeleteActions(S)
    \/ /\ "clone" \in Requests
       /\ \E orig, i \in Ids, now \in BOOLEAN : CloneAction(orig, i, now)

Next ==
    \/ \E h \in Posters : Post(h)
    \/ \E t \in Taskers : Task(t)
    \/ Request
    \/ \E i \in Ids : RunStopHandler(i) \/ AbandonJob(i)
    \/ \E i \in Ids, result \in {"succeeded", "failed"}, cached \in BOOLEAN :
            Conclude(i, result, cached)
    \/ Restart
    \/ Shutdown

Spec == Init /\ [][Next]_vars

------------------------------------------------------------------------------
(* Properties *)

\* Types of the store, its cache and index, and the handlers in progress.
TypeOK ==
    /\ status \in [Ids -> Status]
    /\ startAfter \in [Ids -> SUBSET Ids]
    /\ running \in SUBSET Ids
    /\ followUps \in [Ids -> SUBSET Ids]
    /\ runs \in [Ids -> Nat]
    /\ aborted \in [Ids -> {"no", "posted", "signalled", "dismissed", "concluded"}]
    /\ grave \in [Ids -> Status]
    /\ posts \in [Posters -> PostType]
    /\ tasks \in [Taskers -> TaskType]

\* m_runningActions, the stored status and the executions agree: a record says
\* "running" exactly if its action is cached, and its job is under way exactly
\* then, unless the action was concluded as aborted ahead of its job.  So no
\* action is executed twice at once, forgotten by the cache or left running in
\* the store (storeBuildAction, conclude, abort, restoreState).
SingleExecution ==
    \A i \in Ids :
        /\ i \in running <=> status[i] = "running"
        /\ runs[i] <= 1
        /\ aborted[i] \notin {"dismissed", "concluded"} => (runs[i] = 1 <=> i \in running)

\* m_followUpActions only names scheduled actions, under ids they start after,
\* and names every scheduled action under each predecessor that can still
\* succeed: conclude() finds every follow-up it has to start (storeBuildAction,
\* deleteBuildAction, restoreState).
FollowUpIndex ==
    /\ \A p \in Ids : \A f \in followUps[p] : status[f] = "created" /\ p \in startAfter[f]
    /\ \A f \in Ids : status[f] = "created" =>
          \A p \in startAfter[f] : status[p] \in {"created", "running"} => f \in followUps[p]

\* Types, and the index of follow-ups kept in memory beside the stored actions.
Consistent == TypeOK /\ FollowUpIndex

\* The step in which an action succeeds starts exactly the scheduled actions that
\* start after it and whose remaining predecessors have all succeeded or been
\* deleted (conclude() with followUpBuildActions() and haveSucceeded()).
FollowUpsTriggered ==
    [][\A i, f \in Ids :
        status[i] = "running" /\ status'[i] = "succeeded" /\ status[f] = "created" =>
            (status'[f] = "running" <=>
                /\ i \in startAfter[f]
                /\ \A p \in startAfter[f] : status'[p] \in {"succeeded", "absent"})]_vars

Final(i) == status'[i] \in {status[i], "absent"}

\* The result of a finished action is final: whatever handler or restart comes
\* after its job has ended, the record stays as it is until it is deleted
\* (postBuildActionsFromTask() stores actions again that may have finished).
FinishedFinal == [][\A i \in Ids : IsDone(i) /\ runs[i] = 0 => Final(i)]_vars

==============================================================================
