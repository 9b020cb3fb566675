--------------------------- MODULE BuildActionsProofs ---------------------------
(***************************************************************************)
(* Proofs about the build actions: first about the records of all of them  *)
(* (BuildActions) for any numbers of ids, threads and requests, as long as *)
(* a start request names each id once (MaxMentions = 1), then about the    *)
(* one that prepares a build (PrepareBuild) for any packages, recipes,     *)
(* repositories and orders of iteration. The latter needs the comparison   *)
(* of versions (VersionComparison), which is proved to be an order of all  *)
(* versions.                                                               *)
(***************************************************************************)
EXTENDS BuildActions, PrepareBuild, FiniteSetTheorems, WellFoundedInduction, TLAPS

\* The record, the cache and the job agree; only a job whose action was
\* concluded as aborted ahead of it is at work without a running action.
JobsRight ==
    \A i \in Ids :
        /\ i \in running <=> status[i] = "running"
        /\ runs[i] \in {0, 1}
        /\ aborted[i] \in {"posted", "signalled"} => status[i] = "running"
        /\ aborted[i] \in {"dismissed", "concluded"} => status[i] = "failed" /\ runs[i] = 1
        /\ aborted[i] \notin {"dismissed", "concluded"} => (runs[i] = 1 <=> i \in running)

\* Ids grow, so the id of an action that others start after is not handed out again.
Precedes(p, i) == p < i /\ status[p] # "placeholder"

PredecessorsRight ==
    \A f \in Ids : status[f] # "absent" => \A p \in startAfter[f] : Precedes(p, f)

\* What the handlers in progress have allocated stays theirs.  The first action of a
\* task may have been started, have finished and be deleted before it is stored.
Begun(i) ==
    \/ status[i] \in {"running", "succeeded", "failed"}
    \/ status[i] = "absent" /\ grave[i] \in {"succeeded", "failed"}

Active(t) == tasks[t].phase # "idle"
Unstored(t) ==
    \/ tasks[t].phase \in {"allocated", "reading"}
    \/ tasks[t].phase = "gap" /\ ~tasks[t].now

PostRight(h) ==
    posts[h].id # 0 =>
        /\ status[posts[h].id] = "placeholder"
        /\ \A p \in posts[h].after : Precedes(p, posts[h].id)

TaskRight(t) ==
    Active(t) =>
        /\ tasks[t].first \in Ids /\ tasks[t].second \in Ids
        /\ tasks[t].second = tasks[t].first + 1
        /\ status[tasks[t].second] = "placeholder"
        /\ IF Unstored(t) THEN status[tasks[t].first] = "placeholder" ELSE Begun(tasks[t].first)
        /\ tasks[t].phase = "started" => tasks[t].now
        /\ \A p \in tasks[t].after : Precedes(p, tasks[t].first)

Distinct ==
    /\ \A h, g \in Posters : h # g /\ posts[h].id # 0 => posts[h].id # posts[g].id
    /\ \A h \in Posters, t \in Taskers : posts[h].id # 0 /\ Active(t) =>
          posts[h].id # tasks[t].first /\ posts[h].id # tasks[t].second
    /\ \A t, u \in Taskers : t # u /\ Active(t) /\ Active(u) =>
          /\ tasks[t].first # tasks[u].first /\ tasks[t].first # tasks[u].second
          /\ tasks[t].second # tasks[u].second

HandlersRight ==
    /\ \A h \in Posters : PostRight(h)
    /\ \A t \in Taskers : TaskRight(t)
    /\ Distinct

\* SingleExecution needs to know how aborted jobs end; the index needs the ids
\* of predecessors not to be handed out again, and both need the handlers to
\* store their own placeholders only.
IInv ==
    /\ TypeOK
    /\ FollowUpIndex
    /\ JobsRight
    /\ PredecessorsRight
    /\ HandlersRight

-------------------------------------------------------------------------------

LEMMA InitIInv == Init => IInv
  <1> SUFFICES ASSUME Init PROVE IInv OBVIOUS
  <1> USE DEF Init
  <1>1. TypeOK
    BY BuildActionsAssumption DEF TypeOK, Status, NoPost, NoTask, PostType, TaskType
  <1>2. FollowUpIndex BY DEF FollowUpIndex
  <1>3. JobsRight BY DEF JobsRight
  <1>4. PredecessorsRight BY DEF PredecessorsRight
  <1>5. HandlersRight
    BY DEF HandlersRight, PostRight, TaskRight, Distinct, Active, NoPost, NoTask
  <1> QED BY <1>1, <1>2, <1>3, <1>4, <1>5 DEF IInv

LEMMA Implied == IInv => Consistent /\ SingleExecution
  BY DEF IInv, Consistent, JobsRight, SingleExecution

\* Steps of others leave the handlers alone if they respect placeholders.
LEMMA HandlersKept ==
    ASSUME TypeOK, HandlersRight, UNCHANGED <<posts, tasks>>,
           \A i \in Ids : /\ status'[i] = "placeholder" <=> status[i] = "placeholder"
                          /\ Begun(i) => Begun(i)' \/ NewId(i)
    PROVE  HandlersRight'
  <1>1. ASSUME NEW h \in Posters PROVE PostRight(h)'
    <2>1. posts[h].id # 0 => posts[h].id \in Ids /\ posts[h].after \subseteq Ids
      BY DEF TypeOK, PostType
    <2> QED BY <2>1 DEF HandlersRight, PostRight, Precedes
  <1>2. ASSUME NEW t \in Taskers PROVE TaskRight(t)'
    <2>1. tasks[t].after \subseteq Ids BY DEF TypeOK, TaskType
    <2>2. Active(t) => ~NewId(tasks[t].first)
      BY DEF HandlersRight, TaskRight, NewId, Ids
    <2> QED BY <2>1, <2>2 DEF HandlersRight, TaskRight, Active, Unstored, Precedes
  <1>3. Distinct' BY DEF HandlersRight, Distinct, Active
  <1> QED BY <1>1, <1>2, <1>3 DEF HandlersRight

\* An id that is handed out is above all others.
LEMMA Fresh ==
    ASSUME NEW i \in Ids, NewId(i), NEW f \in Ids, status[f] # "absent"
    PROVE  f < i
  BY BuildActionsAssumption DEF NewId, Ids

\* An action that has neither started nor been aborted has no job.
LEMMA NoJob ==
    ASSUME TypeOK, JobsRight, NEW i \in Ids,
           status[i] \in {"absent", "placeholder", "created", "succeeded"}
    PROVE  runs[i] = 0 /\ aborted[i] = "no" /\ i \notin running
  BY DEF TypeOK, JobsRight

-------------------------------------------------------------------------------
(* What is common to several requests.                                     *)

\* Placeholders are stored under new ids.
LEMMA Allocated ==
    ASSUME IInv, NEW i \in Ids, NewId(i), NEW N \in SUBSET Ids, \A j \in N : j >= i,
           status' = [j \in Ids |-> IF j \in N THEN "placeholder" ELSE status[j]],
           startAfter' = [j \in Ids |-> IF j \in N THEN {} ELSE startAfter[j]],
           grave' = [j \in Ids |-> IF j \in N THEN "absent" ELSE grave[j]],
           UNCHANGED <<running, followUps, runs, aborted>>
    PROVE  /\ FollowUpIndex' /\ JobsRight' /\ PredecessorsRight'
           /\ \A h \in Posters : /\ posts'[h] = posts[h] => PostRight(h)'
                                 /\ posts[h].id # 0 => posts[h].id \notin N
           /\ \A t \in Taskers : /\ tasks'[t] = tasks[t] => TaskRight(t)'
                                 /\ Active(t) => tasks[t].first \notin N /\ tasks[t].second \notin N
           /\ \A p \in Ids : status[p] \in Committed => \A j \in N : Precedes(p, j)'
  <1>1. \A j \in N : status[j] = "absent" BY DEF NewId
  <1>2. \A f \in Ids : status[f] # "absent" => f \notin N /\ \A j \in N : f < j
    BY Fresh DEF Ids
  <1>3. \A f \in Ids : status[f] # "absent" => \A p \in startAfter[f] : p \notin N
    <2> SUFFICES ASSUME NEW f \in Ids, status[f] # "absent", NEW p \in startAfter[f], p \in N
                 PROVE  FALSE
      OBVIOUS
    <2>1. p \in Ids BY DEF IInv, TypeOK
    <2>2. p < f BY DEF IInv, PredecessorsRight, Precedes
    <2>3. f < p BY <1>2
    <2> QED BY <2>1, <2>2, <2>3 DEF Ids
  <1>4. FollowUpIndex' BY <1>1, <1>3 DEF IInv, TypeOK, FollowUpIndex
  <1>5. JobsRight' BY <1>1 DEF IInv, TypeOK, JobsRight
  <1>6. PredecessorsRight' BY <1>1, <1>3 DEF IInv, TypeOK, PredecessorsRight, Precedes
  <1>7. ASSUME NEW h \in Posters
        PROVE  /\ posts'[h] = posts[h] => PostRight(h)'
               /\ posts[h].id # 0 => posts[h].id \notin N
    <2>1. CASE posts[h].id = 0 BY <2>1 DEF PostRight
    <2>2. CASE posts[h].id # 0
      <3>1. posts[h].id \in Ids /\ posts[h].after \subseteq Ids
        BY <2>2 DEF IInv, TypeOK, PostType
      <3>2. posts[h].id \notin N /\ \A j \in N : posts[h].id < j
        BY <1>2, <2>2, <3>1 DEF IInv, HandlersRight, PostRight
      <3>3. \A p \in posts[h].after : Precedes(p, posts[h].id) /\ p \notin N
        BY <2>2, <3>1, <3>2 DEF IInv, HandlersRight, PostRight, Precedes, Ids
      <3> QED BY <2>2, <3>1, <3>2, <3>3 DEF IInv, HandlersRight, PostRight, Precedes
    <2> QED BY <2>1, <2>2
  <1>8. ASSUME NEW t \in Taskers
        PROVE  /\ tasks'[t] = tasks[t] => TaskRight(t)'
               /\ Active(t) => tasks[t].first \notin N /\ tasks[t].second \notin N
    <2>1. CASE ~Active(t) BY <2>1 DEF TaskRight, Active
    <2>2. CASE Active(t)
      <3>1. /\ tasks[t].after \subseteq Ids /\ tasks[t].first \in Ids /\ tasks[t].second \in Ids
            /\ tasks[t].first < tasks[t].second
        BY <2>2 DEF IInv, TypeOK, TaskType, HandlersRight, TaskRight, Ids
      <3>2. \A j \in N : tasks[t].second < j
        BY <1>2, <2>2, <3>1 DEF IInv, HandlersRight, TaskRight
      <3>3. tasks[t].first \notin N /\ tasks[t].second \notin N BY <3>1, <3>2 DEF Ids
      <3>4. \A p \in tasks[t].after : Precedes(p, tasks[t].first) /\ p \notin N
        BY <2>2, <3>1, <3>2 DEF IInv, HandlersRight, TaskRight, Precedes, Ids
      <3>5. ASSUME tasks'[t] = tasks[t] PROVE TaskRight(t)'
        <4>1. \A j \in Ids \ N : status'[j] = status[j] /\ grave'[j] = grave[j] OBVIOUS
        <4> QED BY <2>2, <3>1, <3>3, <3>4, <3>5, <4>1
            DEF IInv, HandlersRight, TaskRight, Active, Unstored, Begun, Precedes
      <3> QED BY <3>3, <3>5
    <2> QED BY <2>1, <2>2
  <1>9. ASSUME NEW q \in Ids, status[q] \in Committed, NEW j \in N PROVE Precedes(q, j)'
    BY <1>2, <1>9 DEF Precedes, Committed
  <1> QED BY <1>4, <1>5, <1>6, <1>7, <1>8, <1>9

\* An action is stored as running under an id no scheduled action starts after.
LEMMA StartedIndex ==
    ASSUME TypeOK, FollowUpIndex, NEW i \in Ids, status[i] # "created",
           \A f \in Ids : status[f] = "created" => i \notin startAfter[f],
           status' = [status EXCEPT ![i] = "running"],
           \A f \in Ids \ {i} : startAfter'[f] = startAfter[f],
           \A p \in Ids : followUps'[p] \subseteq followUps[p] /\ followUps[p] \ {i} \subseteq followUps'[p]
    PROVE  FollowUpIndex'
  <1>1. \A f \in Ids : status'[f] = "created" <=> status[f] = "created" /\ f # i
    BY DEF TypeOK
  <1>2. \A f \in Ids \ {i} : status'[f] = status[f] BY DEF TypeOK
  <1>3. ASSUME NEW p \in Ids, NEW f \in followUps'[p]
        PROVE  status'[f] = "created" /\ p \in startAfter'[f]
    <2>1. f \in Ids /\ status[f] = "created" /\ p \in startAfter[f]
      BY <1>3 DEF TypeOK, FollowUpIndex
    <2> QED BY <1>1, <2>1
  <1>4. ASSUME NEW f \in Ids, status'[f] = "created", NEW p \in startAfter'[f],
               status'[p] \in {"created", "running"}
        PROVE  f \in followUps'[p]
    <2>1. status[f] = "created" /\ f # i /\ p \in startAfter[f] /\ p \in Ids /\ p # i
      BY <1>1, <1>4 DEF TypeOK
    <2> QED BY <1>2, <1>4, <2>1 DEF FollowUpIndex
  <1> QED BY <1>3, <1>4 DEF FollowUpIndex

\* An action is stored as scheduled under an id no scheduled action starts after.
LEMMA FiledIndex ==
    ASSUME TypeOK, FollowUpIndex, NEW i \in Ids, status[i] # "created",
           \A f \in Ids : status[f] = "created" => i \notin startAfter[f],
           NEW S \in SUBSET Ids, i \notin S,
           status' = [status EXCEPT ![i] = "created"],
           startAfter' = [startAfter EXCEPT ![i] = S],
           followUps' = Registered(followUps, i, Pending(S))
    PROVE  FollowUpIndex'
  <1>1. \A p \in Ids : followUps'[p] = IF p \in Pending(S) THEN followUps[p] \cup {i} ELSE followUps[p]
    BY DEF Registered
  <1>2. \A f \in Ids \ {i} : status'[f] = status[f] /\ startAfter'[f] = startAfter[f]
    BY DEF TypeOK
  <1>3. status'[i] = "created" /\ startAfter'[i] = S BY DEF TypeOK
  <1>4. ASSUME NEW p \in Ids, NEW f \in followUps'[p]
        PROVE  status'[f] = "created" /\ p \in startAfter'[f]
    <2>1. CASE f = i
      <3>1. i \notin followUps[p] BY DEF FollowUpIndex
      <3>2. p \in S BY <1>1, <1>4, <2>1, <3>1 DEF Pending
      <3> QED BY <1>3, <2>1, <3>2
    <2>2. CASE f # i
      <3>1. f \in followUps[p] /\ f \in Ids BY <1>1, <1>4, <2>2 DEF TypeOK
      <3> QED BY <1>2, <2>2, <3>1 DEF FollowUpIndex
    <2> QED BY <2>1, <2>2
  <1>5. ASSUME NEW f \in Ids, status'[f] = "created", NEW p \in startAfter'[f],
               status'[p] \in {"created", "running"}
        PROVE  f \in followUps'[p]
    <2>1. CASE f = i
      <3>1. p \in S /\ p \in Ids /\ p # i BY <1>3, <1>5, <2>1
      <3>2. p \in Pending(S) BY <1>2, <1>5, <3>1 DEF Pending
      <3> QED BY <1>1, <2>1, <3>1, <3>2
    <2>2. CASE f # i
      <3>1. status[f] = "created" /\ p \in startAfter[f] BY <1>2, <1>5, <2>2
      <3>2. p \in Ids /\ p # i BY <3>1 DEF TypeOK
      <3>3. status[p] \in {"created", "running"} BY <1>2, <1>5, <3>2
      <3>4. f \in followUps[p] BY <3>1, <3>2, <3>3 DEF FollowUpIndex
      <3> QED BY <1>1, <3>2, <3>4
    <2> QED BY <2>1, <2>2
  <1> QED BY <1>4, <1>5 DEF FollowUpIndex

-------------------------------------------------------------------------------
(* POST with a type.                                                       *)

LEMMA PostAllocateIInv ==
    ASSUME IInv, NEW h \in Posters, PostAllocate(h) PROVE IInv'
  <1>1. PICK i \in Ids, now \in BOOLEAN, S \in SUBSET {p \in Ids : status[p] \in Committed} :
            /\ NewId(i)
            /\ posts' = [posts EXCEPT ![h] = [id |-> i, now |-> now, after |-> S]]
            /\ status' = [status EXCEPT ![i] = "placeholder"]
            /\ startAfter' = [startAfter EXCEPT ![i] = {}]
            /\ grave' = [grave EXCEPT ![i] = "absent"]
    BY DEF PostAllocate
  <1>2. UNCHANGED <<running, followUps, runs, aborted, tasks>> BY DEF PostAllocate
  <1>3. TypeOK'
    <2>1. [id |-> i, now |-> now, after |-> S] \in PostType BY DEF PostType
    <2> QED BY <1>1, <1>2, <2>1 DEF IInv, TypeOK, Status
  <1>4. /\ FollowUpIndex' /\ JobsRight' /\ PredecessorsRight'
        /\ \A g \in Posters : /\ posts'[g] = posts[g] => PostRight(g)'
                              /\ posts[g].id # 0 => posts[g].id # i
        /\ \A t \in Taskers : /\ TaskRight(t)'
                              /\ Active(t) => tasks[t].first # i /\ tasks[t].second # i
        /\ \A p \in Ids : status[p] \in Committed => Precedes(p, i)'
    <2>1. /\ status' = [j \in Ids |-> IF j \in {i} THEN "placeholder" ELSE status[j]]
          /\ startAfter' = [j \in Ids |-> IF j \in {i} THEN {} ELSE startAfter[j]]
          /\ grave' = [j \in Ids |-> IF j \in {i} THEN "absent" ELSE grave[j]]
      BY <1>1 DEF IInv, TypeOK
    <2> DEFINE N == {i}
    <2>2. N \in SUBSET Ids /\ (\A j \in N : j >= i) /\ i \in N BY DEF Ids
    <2>3. NewId(i) /\ UNCHANGED <<running, followUps, runs, aborted>> BY <1>1, <1>2
    <2>4. tasks' = tasks BY <1>2
    <2> HIDE DEF N
    <2>5. /\ status' = [j \in Ids |-> IF j \in N THEN "placeholder" ELSE status[j]]
          /\ startAfter' = [j \in Ids |-> IF j \in N THEN {} ELSE startAfter[j]]
          /\ grave' = [j \in Ids |-> IF j \in N THEN "absent" ELSE grave[j]]
      BY <2>1 DEF N
    <2>6. /\ FollowUpIndex' /\ JobsRight' /\ PredecessorsRight'
          /\ \A g \in Posters : /\ posts'[g] = posts[g] => PostRight(g)'
                                /\ posts[g].id # 0 => posts[g].id \notin N
          /\ \A t \in Taskers : /\ tasks'[t] = tasks[t] => TaskRight(t)'
                                /\ Active(t) => tasks[t].first \notin N /\ tasks[t].second \notin N
          /\ \A p \in Ids : status[p] \in Committed => \A j \in N : Precedes(p, j)'
      BY <2>2, <2>3, <2>5, Allocated
    <2> QED BY <2>2, <2>4, <2>6
  <1>5. posts'[h].id = i /\ posts'[h].after = S /\ \A g \in Posters \ {h} : posts'[g] = posts[g]
    BY <1>1 DEF IInv, TypeOK
  <1>6. status'[i] = "placeholder" BY <1>1 DEF IInv, TypeOK
  <1>7. PostRight(h)' BY <1>4, <1>5, <1>6 DEF PostRight
  <1>8. Distinct' BY <1>2, <1>4, <1>5 DEF IInv, TypeOK, PostType, HandlersRight, Distinct, Active, Ids
  <1> QED BY <1>3, <1>4, <1>5, <1>7, <1>8 DEF IInv, HandlersRight

\* A POST stores the action it has allocated an id for.
LEMMA PostHandlersRight ==
    ASSUME IInv, NEW h \in Posters, posts[h].id # 0, posts' = [posts EXCEPT ![h] = NoPost],
           UNCHANGED <<grave, tasks>>, NEW to \in {"running", "created"},
           status' = [status EXCEPT ![posts[h].id] = to]
    PROVE  HandlersRight'
  <1>1. PICK i \in Ids : i = posts[h].id BY DEF IInv, TypeOK, PostType
  <1>2. status[i] = "placeholder" BY <1>1 DEF IInv, HandlersRight, PostRight
  <1>3. /\ \A j \in Ids \ {i} : status'[j] = status[j]
        /\ status'[i] = to
        /\ posts'[h].id = 0
        /\ \A g \in Posters \ {h} : posts'[g] = posts[g]
    BY <1>1 DEF IInv, TypeOK, NoPost
  <1>4. ASSUME NEW g \in Posters PROVE PostRight(g)'
    <2>1. CASE g = h BY <1>3, <2>1 DEF PostRight
    <2>2. CASE g # h
      <3>1. posts[g].id # 0 => posts[g].id \in Ids \ {i} /\ posts[g].after \subseteq Ids
        BY <1>1, <2>2 DEF IInv, TypeOK, PostType, HandlersRight, Distinct
      <3> QED BY <1>2, <1>3, <2>2, <3>1 DEF IInv, HandlersRight, PostRight, Precedes
    <2> QED BY <2>1, <2>2
  <1>5. ASSUME NEW t \in Taskers PROVE TaskRight(t)'
    <2>1. Active(t) => /\ tasks[t].first \in Ids \ {i} /\ tasks[t].second \in Ids \ {i}
                       /\ tasks[t].after \subseteq Ids
      BY <1>1 DEF IInv, TypeOK, TaskType, HandlersRight, TaskRight, Distinct
    <2> QED BY <1>2, <1>3, <2>1
        DEF IInv, HandlersRight, TaskRight, Active, Unstored, Begun, Precedes
  <1>6. Distinct'
    BY <1>3 DEF IInv, HandlersRight, Distinct, Active
  <1> QED BY <1>4, <1>5, <1>6 DEF HandlersRight

LEMMA PostStartIInv ==
    ASSUME IInv, NEW h \in Posters, PostStart(h) PROVE IInv'
  <1>1. PICK i \in Ids : i = posts[h].id BY DEF IInv, TypeOK, PostType, PostStart
  <1>2. /\ i # 0
        /\ status' = [status EXCEPT ![i] = "running"]
        /\ running' = running \cup {i}
        /\ runs' = [runs EXCEPT ![i] = @ + 1]
        /\ posts' = [posts EXCEPT ![h] = NoPost]
        /\ UNCHANGED <<startAfter, followUps, aborted, grave, tasks>>
    BY <1>1 DEF PostStart
  <1>3. status[i] = "placeholder" BY <1>1, <1>2 DEF IInv, HandlersRight, PostRight
  <1>4. runs[i] = 0 /\ aborted[i] = "no" /\ i \notin running BY <1>3, NoJob DEF IInv
  <1>5. TypeOK' BY <1>2 DEF IInv, TypeOK, Status, NoPost, PostType
  <1>6. FollowUpIndex'
    <2>1. \A f \in Ids : status[f] = "created" => i \notin startAfter[f]
      BY <1>3 DEF IInv, PredecessorsRight, Precedes
    <2> QED BY <1>2, <1>3, <2>1, StartedIndex DEF IInv
  <1>7. JobsRight' BY <1>2, <1>4 DEF IInv, TypeOK, JobsRight
  <1>8. PredecessorsRight' BY <1>2, <1>3 DEF IInv, TypeOK, PredecessorsRight, Precedes
  <1>9. HandlersRight' BY <1>1, <1>2, PostHandlersRight
  <1> QED BY <1>5, <1>6, <1>7, <1>8, <1>9 DEF IInv

LEMMA PostStoreIInv ==
    ASSUME IInv, NEW h \in Posters, PostStore(h) PROVE IInv'
  <1>1. PICK i \in Ids : i = posts[h].id BY DEF IInv, TypeOK, PostType, PostStore
  <1> DEFINE S == posts[h].after
  <1>2. /\ i # 0
        /\ status' = [status EXCEPT ![i] = "created"]
        /\ startAfter' = [startAfter EXCEPT ![i] = S]
        /\ running' = running \ {i}
        /\ followUps' = Registered(followUps, i, Pending(S))
        /\ posts' = [posts EXCEPT ![h] = NoPost]
        /\ UNCHANGED <<runs, aborted, grave, tasks>>
    BY <1>1 DEF PostStore
  <1>3. status[i] = "placeholder" /\ \A p \in S : Precedes(p, i)
    BY <1>1, <1>2 DEF IInv, HandlersRight, PostRight
  <1>4. runs[i] = 0 /\ aborted[i] = "no" /\ i \notin running BY <1>3, NoJob DEF IInv
  <1>5. S \subseteq Ids BY DEF IInv, TypeOK, PostType
  <1> HIDE DEF S
  <1>6. TypeOK'
    <2>1. followUps' \in [Ids -> SUBSET Ids] BY <1>2 DEF IInv, TypeOK, Registered
    <2> QED BY <1>2, <1>5, <2>1 DEF IInv, TypeOK, Status, NoPost, PostType
  <1>7. FollowUpIndex'
    <2>1. \A f \in Ids : status[f] = "created" => i \notin startAfter[f]
      BY <1>3 DEF IInv, PredecessorsRight, Precedes
    <2>2. i \notin S BY <1>3 DEF Precedes
    <2> QED BY <1>2, <1>3, <1>5, <2>1, <2>2, FiledIndex DEF IInv
  <1>8. JobsRight' BY <1>2, <1>4 DEF IInv, TypeOK, JobsRight
  <1>9. PredecessorsRight' BY <1>2, <1>3 DEF IInv, TypeOK, PredecessorsRight, Precedes
  <1>10. HandlersRight' BY <1>1, <1>2, PostHandlersRight
  <1> QED BY <1>6, <1>7, <1>8, <1>9, <1>10 DEF IInv

-------------------------------------------------------------------------------
(* POST with a task.                                                       *)

LEMMA TaskAllocateIInv ==
    ASSUME IInv, NEW t \in Taskers, TaskAllocate(t) PROVE IInv'
  <1>1. PICK i \in Ids, now \in BOOLEAN, S \in SUBSET {p \in Ids : status[p] \in Committed} :
            /\ NewId(i) /\ i + 1 \in Ids
            /\ tasks' = [tasks EXCEPT ![t] =
                   [phase |-> "allocated", first |-> i, second |-> i + 1, now |-> now,
                    after |-> S,
                    copied |-> {p \in S : status[p] \in {"created", "failed"}}]]
            /\ status' = [status EXCEPT ![i] = "placeholder", ![i + 1] = "placeholder"]
            /\ startAfter' = [startAfter EXCEPT ![i] = {}, ![i + 1] = {}]
            /\ grave' = [grave EXCEPT ![i] = "absent", ![i + 1] = "absent"]
    BY DEF TaskAllocate
  <1>2. UNCHANGED <<running, followUps, runs, aborted, posts>> BY DEF TaskAllocate
  <1> DEFINE N == {i, i + 1}
  <1>3. TypeOK'
    <2>1. [phase |-> "allocated", first |-> i, second |-> i + 1, now |-> now, after |-> S,
           copied |-> {p \in S : status[p] \in {"created", "failed"}}] \in TaskType
      BY <1>1 DEF TaskType
    <2> QED BY <1>1, <1>2, <2>1 DEF IInv, TypeOK, Status
  <1>4. /\ N \in SUBSET Ids /\ (\A j \in N : j >= i)
        /\ i \in N /\ i + 1 \in N /\ i # i + 1
        /\ \A j \in Ids : j \in N <=> j = i \/ j = i + 1
    BY <1>1 DEF Ids
  <1>5. /\ status' = [j \in Ids |-> IF j \in N THEN "placeholder" ELSE status[j]]
        /\ startAfter' = [j \in Ids |-> IF j \in N THEN {} ELSE startAfter[j]]
        /\ grave' = [j \in Ids |-> IF j \in N THEN "absent" ELSE grave[j]]
    <2> HIDE DEF N
    <2> QED BY <1>1, <1>4 DEF IInv, TypeOK
  <1> HIDE DEF N
  <1>6. /\ FollowUpIndex' /\ JobsRight' /\ PredecessorsRight'
        /\ \A h \in Posters : /\ posts'[h] = posts[h] => PostRight(h)'
                              /\ posts[h].id # 0 => posts[h].id \notin N
        /\ \A u \in Taskers : /\ tasks'[u] = tasks[u] => TaskRight(u)'
                              /\ Active(u) => tasks[u].first \notin N /\ tasks[u].second \notin N
        /\ \A p \in Ids : status[p] \in Committed => \A j \in N : Precedes(p, j)'
    BY <1>1, <1>2, <1>4, <1>5, Allocated
  <1>7. /\ tasks'[t].phase = "allocated" /\ tasks'[t].first = i /\ tasks'[t].second = i + 1
        /\ tasks'[t].after = S
        /\ \A u \in Taskers \ {t} : tasks'[u] = tasks[u]
    BY <1>1 DEF IInv, TypeOK
  <1>8. status'[i] = "placeholder" /\ status'[i + 1] = "placeholder" BY <1>1, <1>4, <1>5
  <1>9. TaskRight(t)' BY <1>1, <1>4, <1>6, <1>7, <1>8 DEF TaskRight, Unstored
  <1>10. Distinct'
    BY <1>2, <1>4, <1>6, <1>7 DEF IInv, HandlersRight, Distinct, Active
  <1>11. HandlersRight' BY <1>2, <1>6, <1>7, <1>9, <1>10 DEF HandlersRight
  <1> QED BY <1>3, <1>6, <1>11 DEF IInv

\* A task handler takes a step that stores nothing.
LEMMA TaskKept ==
    ASSUME IInv, NEW t \in Taskers, UNCHANGED <<store, posts>>, TypeOK',
           \A u \in Taskers \ {t} : tasks'[u] = tasks[u],
           tasks'[t].first = tasks[t].first, tasks'[t].second = tasks[t].second,
           tasks'[t].after = tasks[t].after, Active(t),
           Unstored(t)' <=> Unstored(t), tasks'[t].phase # "started"
    PROVE  IInv'
  <1>1. FollowUpIndex' /\ JobsRight' /\ PredecessorsRight'
    BY DEF IInv, FollowUpIndex, JobsRight, PredecessorsRight, Precedes, store
  <1>2. \A h \in Posters : PostRight(h)'
    BY DEF IInv, HandlersRight, PostRight, Precedes, store
  <1>3. \A u \in Taskers \ {t} : TaskRight(u)'
    BY DEF IInv, HandlersRight, TaskRight, Active, Unstored, Begun, Precedes, store
  <1>4. TaskRight(t)'
    <2>1. /\ tasks[t].first \in Ids /\ tasks[t].second \in Ids
          /\ tasks[t].second = tasks[t].first + 1
          /\ status[tasks[t].second] = "placeholder"
          /\ IF Unstored(t) THEN status[tasks[t].first] = "placeholder" ELSE Begun(tasks[t].first)
          /\ \A p \in tasks[t].after : Precedes(p, tasks[t].first)
      BY DEF IInv, HandlersRight, TaskRight
    <2> QED BY <2>1 DEF TaskRight, Begun, Precedes, store
  <1>5. Distinct'
    BY DEF IInv, HandlersRight, Distinct, Active
  <1> QED BY <1>1, <1>2, <1>3, <1>4, <1>5 DEF IInv, HandlersRight

LEMMA TaskReadIInv ==
    ASSUME IInv, NEW t \in Taskers, TaskRead(t) PROVE IInv'
  <1>1. /\ tasks[t].phase = "allocated"
        /\ tasks' = [tasks EXCEPT ![t].phase = "reading", ![t].now = StartNow(t)]
        /\ UNCHANGED <<store, posts>>
    BY DEF TaskRead
  <1>2. tasks[t] \in TaskType BY DEF IInv, TypeOK
  <1>3. StartNow(t) \in BOOLEAN BY <1>2 DEF StartNow, TaskType
  <1>4. tasks'[t] = [tasks[t] EXCEPT !.phase = "reading", !.now = StartNow(t)]
    BY <1>1 DEF IInv, TypeOK
  <1>5. /\ tasks'[t] \in TaskType
        /\ tasks'[t].phase = "reading"
        /\ tasks'[t].first = tasks[t].first /\ tasks'[t].second = tasks[t].second
        /\ tasks'[t].after = tasks[t].after
    <2> HIDE DEF StartNow
    <2> QED BY <1>2, <1>3, <1>4 DEF TaskType
  <1>6. \A u \in Taskers \ {t} : tasks'[u] = tasks[u] BY <1>1 DEF IInv, TypeOK
  <1>7. TypeOK'
    <2>1. tasks' \in [Taskers -> TaskType] BY <1>1, <1>5, <1>6 DEF IInv, TypeOK
    <2> QED BY <1>1, <2>1 DEF IInv, TypeOK, store
  <1>8. Active(t) /\ (Unstored(t)' <=> Unstored(t)) BY <1>1, <1>5 DEF Active, Unstored
  <1> QED BY <1>1, <1>5, <1>6, <1>7, <1>8, TaskKept

LEMMA TaskReleaseIInv ==
    ASSUME IInv, NEW t \in Taskers, TaskRelease(t) PROVE IInv'
  <1>1. /\ tasks[t].phase = IF tasks[t].now THEN "started" ELSE "reading"
        /\ tasks' = [tasks EXCEPT ![t].phase = "gap"]
        /\ UNCHANGED <<store, posts>>
    BY DEF TaskRelease
  <1>2. tasks[t] \in TaskType BY DEF IInv, TypeOK
  <1>3. tasks'[t] = [tasks[t] EXCEPT !.phase = "gap"] BY <1>1 DEF IInv, TypeOK
  <1>4. /\ tasks'[t] \in TaskType
        /\ tasks'[t].phase = "gap" /\ tasks'[t].now = tasks[t].now
        /\ tasks'[t].first = tasks[t].first /\ tasks'[t].second = tasks[t].second
        /\ tasks'[t].after = tasks[t].after
    BY <1>2, <1>3 DEF TaskType
  <1>5. \A u \in Taskers \ {t} : tasks'[u] = tasks[u] BY <1>1 DEF IInv, TypeOK
  <1>6. TypeOK'
    <2>1. tasks' \in [Taskers -> TaskType] BY <1>1, <1>4, <1>5 DEF IInv, TypeOK
    <2> QED BY <1>1, <2>1 DEF IInv, TypeOK, store
  <1>7. Active(t) /\ (Unstored(t)' <=> Unstored(t)) BY <1>1, <1>4 DEF Active, Unstored
  <1> QED BY <1>1, <1>4, <1>5, <1>6, <1>7, TaskKept

\* Whatever a task handler does with its own two actions leaves the others alone.
LEMMA OthersKept ==
    ASSUME IInv, NEW t \in Taskers, Active(t), UNCHANGED <<posts, grave>>,
           \A u \in Taskers \ {t} : tasks'[u] = tasks[u],
           \A j \in Ids : j # tasks[t].first /\ j # tasks[t].second => status'[j] = status[j],
           \A j \in Ids : status'[j] = "placeholder" => status[j] = "placeholder"
    PROVE  /\ \A h \in Posters : PostRight(h)'
           /\ \A u \in Taskers \ {t} : TaskRight(u)'
  <1>1. ASSUME NEW p \in Ids, NEW j \in Ids, Precedes(p, j) PROVE Precedes(p, j)'
    BY <1>1 DEF Precedes
  <1>2. ASSUME NEW h \in Posters PROVE PostRight(h)'
    <2>1. CASE posts[h].id = 0 BY <2>1 DEF PostRight
    <2>2. CASE posts[h].id # 0
      <3>1. posts[h].id \in Ids /\ posts[h].after \subseteq Ids
        BY <2>2 DEF IInv, TypeOK, PostType
      <3>2. posts[h].id # tasks[t].first /\ posts[h].id # tasks[t].second
        BY <2>2 DEF IInv, HandlersRight, Distinct
      <3> QED BY <1>1, <2>2, <3>1, <3>2 DEF IInv, HandlersRight, PostRight
    <2> QED BY <2>1, <2>2
  <1>3. ASSUME NEW u \in Taskers \ {t} PROVE TaskRight(u)'
    <2>1. CASE ~Active(u) BY <2>1 DEF TaskRight, Active
    <2>2. CASE Active(u)
      <3>1. tasks[u].first \in Ids /\ tasks[u].second \in Ids /\ tasks[u].after \subseteq Ids
        BY <2>2 DEF IInv, TypeOK, TaskType, HandlersRight, TaskRight
      <3>2. /\ tasks[u].first # tasks[t].first /\ tasks[u].first # tasks[t].second
            /\ tasks[u].second # tasks[t].first /\ tasks[u].second # tasks[t].second
        BY <2>2 DEF IInv, HandlersRight, Distinct
      <3>3. status'[tasks[u].first] = status[tasks[u].first] /\ status'[tasks[u].second] = status[tasks[u].second]
        BY <3>1, <3>2
      <3>4. \A p \in tasks[u].after : Precedes(p, tasks[u].first)'
        BY <1>1, <2>2, <3>1 DEF IInv, HandlersRight, TaskRight
      <3> QED BY <2>2, <3>1, <3>3, <3>4 DEF IInv, HandlersRight, TaskRight, Active, Unstored, Begun
    <2> QED BY <2>1, <2>2
  <1> QED BY <1>2, <1>3

LEMMA TaskStartIInv ==
    ASSUME IInv, NEW t \in Taskers, TaskStart(t) PROVE IInv'
  <1> DEFINE after == tasks[t].after
  <1>1. tasks[t].phase = "reading" /\ tasks[t].now /\ Active(t) /\ Unstored(t)
    BY DEF TaskStart, Active, Unstored
  <1>2. PICK i \in Ids, s \in Ids : i = tasks[t].first /\ s = tasks[t].second /\ s = i + 1
    BY <1>1 DEF IInv, HandlersRight, TaskRight
  <1>3. /\ status[i] = "placeholder" /\ status[s] = "placeholder"
        /\ \A p \in after : Precedes(p, i)
    BY <1>1, <1>2 DEF IInv, HandlersRight, TaskRight
  <1>4. /\ status' = [status EXCEPT ![i] = "running"]
        /\ startAfter' = [startAfter EXCEPT ![i] = after]
        /\ running' = running \cup {i}
        /\ runs' = [runs EXCEPT ![i] = @ + 1]
        /\ followUps' = Withdrawn(followUps, i, after)
        /\ tasks' = [tasks EXCEPT ![t].phase = "started"]
        /\ UNCHANGED <<aborted, grave, posts>>
    BY <1>2 DEF TaskStart
  <1>5. runs[i] = 0 /\ aborted[i] = "no" /\ i \notin running BY <1>3, NoJob DEF IInv
  <1>6. after \subseteq Ids /\ tasks[t] \in TaskType BY DEF IInv, TypeOK, TaskType
  <1>7. /\ tasks'[t] \in TaskType
        /\ tasks'[t].phase = "started" /\ tasks'[t].now
        /\ tasks'[t].first = i /\ tasks'[t].second = s /\ tasks'[t].after = after
        /\ \A u \in Taskers \ {t} : tasks'[u] = tasks[u]
    <2>1. tasks'[t] = [tasks[t] EXCEPT !.phase = "started"] BY <1>4 DEF IInv, TypeOK
    <2>2. \A u \in Taskers \ {t} : tasks'[u] = tasks[u] BY <1>4 DEF IInv, TypeOK
    <2> DEFINE k == tasks[t]
               l == tasks'[t]
    <2>3. k \in TaskType /\ l = [k EXCEPT !.phase = "started"] BY <1>6, <2>1
    <2>4. k.first = i /\ k.second = s /\ k.after = after /\ k.now BY <1>1, <1>2
    <2> HIDE DEF k, l, after
    <2>5. l \in TaskType /\ l.phase = "started" BY <2>3 DEF TaskType
    <2>6. l.now = k.now /\ l.first = k.first /\ l.second = k.second /\ l.after = k.after
      BY <2>3 DEF TaskType
    <2>7. /\ l \in TaskType /\ l.phase = "started" /\ l.now
          /\ l.first = i /\ l.second = s /\ l.after = after
      BY <2>4, <2>5, <2>6
    <2> QED BY <2>2, <2>7 DEF l
  <1>8. status'[i] = "running" /\ \A j \in Ids \ {i} : status'[j] = status[j]
    BY <1>4 DEF IInv, TypeOK
  <1> HIDE DEF after
  <1>9. TypeOK'
    <2>1. followUps' \in [Ids -> SUBSET Ids] BY <1>4 DEF IInv, TypeOK, Withdrawn
    <2>2. tasks' \in [Taskers -> TaskType] BY <1>4, <1>7 DEF IInv, TypeOK
    <2>3. status' \in [Ids -> Status] /\ runs' \in [Ids -> Nat]
      BY <1>4 DEF IInv, TypeOK, Status
    <2>4. startAfter' \in [Ids -> SUBSET Ids] BY <1>4, <1>6 DEF IInv, TypeOK
    <2>5. running' \in SUBSET Ids BY <1>4 DEF IInv, TypeOK
    <2> QED BY <1>4, <2>1, <2>2, <2>3, <2>4, <2>5 DEF IInv, TypeOK
  <1>10. FollowUpIndex'
    <2>1. \A f \in Ids : status[f] = "created" => i \notin startAfter[f]
      BY <1>3 DEF IInv, PredecessorsRight, Precedes
    <2>2. \A p \in Ids : followUps'[p] \subseteq followUps[p] /\ followUps[p] \ {i} \subseteq followUps'[p]
      BY <1>4 DEF Withdrawn
    <2>3. \A f \in Ids \ {i} : startAfter'[f] = startAfter[f] BY <1>4 DEF IInv, TypeOK
    <2> QED BY <1>3, <1>4, <2>1, <2>2, <2>3, StartedIndex DEF IInv
  <1>11. JobsRight' BY <1>4, <1>5 DEF IInv, TypeOK, JobsRight
  <1>12. PredecessorsRight'
    BY <1>3, <1>4, <1>6 DEF IInv, TypeOK, PredecessorsRight, Precedes
  <1>13. (\A h \in Posters : PostRight(h)') /\ \A u \in Taskers \ {t} : TaskRight(u)'
    BY <1>1, <1>2, <1>3, <1>4, <1>7, <1>8, OthersKept
  <1>14. TaskRight(t)'
    <2>1. i # s BY <1>2 DEF Ids
    <2> QED BY <1>2, <1>3, <1>6, <1>7, <1>8, <2>1 DEF TaskRight, Unstored, Begun, Precedes
  <1>15. Distinct'
    BY <1>1, <1>2, <1>4, <1>7 DEF IInv, HandlersRight, Distinct, Active
  <1>16. HandlersRight' BY <1>13, <1>14, <1>15 DEF HandlersRight
  <1> QED BY <1>9, <1>10, <1>11, <1>12, <1>16 DEF IInv

\* What becomes of the first action: it is filed as scheduled, or left in the state it
\* is in, or, when deleted meanwhile, stored as finished once more.
LEMMA TaskStoreIInv ==
    ASSUME IInv, NEW t \in Taskers, TaskStore(t) PROVE IInv'
  <1> DEFINE after == tasks[t].after
             first == IF tasks[t].now THEN Object(tasks[t].first) ELSE "created"
  <1>1. tasks[t].phase = "gap" /\ Active(t) /\ (Unstored(t) <=> ~tasks[t].now)
    BY DEF TaskStore, Active, Unstored
  <1>2. PICK i \in Ids, s \in Ids : i = tasks[t].first /\ s = tasks[t].second /\ s = i + 1
    BY <1>1 DEF IInv, HandlersRight, TaskRight
  <1> DEFINE index == IF first = "created" THEN Registered(followUps, i, Pending(after))
                                           ELSE Withdrawn(followUps, i, after)
  <1>3. /\ status' = [status EXCEPT ![i] = first, ![s] = "created"]
        /\ startAfter' = [startAfter EXCEPT ![i] = after, ![s] = {i}]
        /\ running' = (IF first = "running" THEN running \cup {i} ELSE running \ {i}) \ {s}
        /\ followUps' = Registered(index, s, IF first = "succeeded" THEN {} ELSE {i})
        /\ tasks' = [tasks EXCEPT ![t] = NoTask]
        /\ UNCHANGED <<runs, aborted, grave, posts>>
    BY <1>2 DEF TaskStore
  <1>4. status[s] = "placeholder" /\ i # s /\ \A p \in after : p < i /\ Precedes(p, i)
    BY <1>1, <1>2 DEF IInv, HandlersRight, TaskRight, Precedes, Ids
  <1>5. \/ first = "created" /\ status[i] = "placeholder"
        \/ first \in {"running", "succeeded", "failed"} /\ status[i] = first
        \/ first \in {"succeeded", "failed"} /\ status[i] = "absent"
    BY <1>1, <1>2 DEF IInv, HandlersRight, TaskRight, Begun, Object
  <1>6. after \in SUBSET Ids BY DEF IInv, TypeOK, TaskType
  <1> HIDE DEF after, first
  <1>7. /\ status'[i] = first /\ status'[s] = "created"
        /\ startAfter'[i] = after /\ startAfter'[s] = {i}
        /\ \A j \in Ids : j # i /\ j # s => status'[j] = status[j] /\ startAfter'[j] = startAfter[j]
    BY <1>3, <1>4 DEF IInv, TypeOK
  <1>8. TypeOK'
    <2>1. status' \in [Ids -> Status] BY <1>3, <1>5 DEF IInv, TypeOK, Status
    <2>2. startAfter' \in [Ids -> SUBSET Ids] BY <1>3, <1>6 DEF IInv, TypeOK
    <2>3. running' \in SUBSET Ids BY <1>3 DEF IInv, TypeOK
    <2>4. index \in [Ids -> SUBSET Ids] BY DEF IInv, TypeOK, Registered, Withdrawn
    <2>5. followUps' \in [Ids -> SUBSET Ids]
      <3> HIDE DEF index
      <3> QED BY <1>3, <2>4 DEF Registered
    <2>6. tasks' \in [Taskers -> TaskType] BY <1>3 DEF IInv, TypeOK, NoTask, TaskType
    <2> QED BY <1>3, <2>1, <2>2, <2>3, <2>5, <2>6 DEF IInv, TypeOK
  <1>9. \A f \in Ids : status[f] = "created" => i \notin startAfter[f] \/ status[i] # "placeholder"
    BY DEF IInv, PredecessorsRight, Precedes
  <1>10. \A f \in Ids : status[f] # "absent" => s \notin startAfter[f]
    BY <1>4 DEF IInv, PredecessorsRight, Precedes
  <1>11. status[i] # "created" BY <1>5
  <1>12. FollowUpIndex'
    <2>1. \A p \in Ids : index[p] = IF first = "created"
                                    THEN IF p \in Pending(after) THEN followUps[p] \cup {i} ELSE followUps[p]
                                    ELSE IF p \in after THEN followUps[p] \ {i} ELSE followUps[p]
      BY DEF Registered, Withdrawn
    <2>2. \A p \in Ids : followUps'[p] = IF p = i /\ first # "succeeded" THEN index[p] \cup {s} ELSE index[p]
      <3> HIDE DEF index
      <3> QED BY <1>3 DEF Registered
    <2> HIDE DEF index
    <2>3. ASSUME NEW p \in Ids, NEW f \in followUps'[p]
          PROVE  status'[f] = "created" /\ p \in startAfter'[f]
      <3>1. CASE f \in followUps[p]
        <4>1. f \in Ids /\ status[f] = "created" /\ p \in startAfter[f]
          BY <3>1 DEF IInv, TypeOK, FollowUpIndex
        <4> QED BY <1>4, <1>7, <1>11, <4>1
      <3>2. CASE f \notin followUps[p]
        <4>1. \/ f = s /\ p = i
              \/ f = i /\ first = "created" /\ p \in Pending(after)
          BY <2>1, <2>2, <2>3, <3>2
        <4>2. Pending(after) \subseteq after BY DEF Pending
        <4> QED BY <1>7, <4>1, <4>2
      <3> QED BY <3>1, <3>2
    <2>4. ASSUME NEW f \in Ids, status'[f] = "created", NEW p \in startAfter'[f],
                 status'[p] \in {"created", "running"}
          PROVE  f \in followUps'[p]
      <3>1. CASE f = s BY <1>2, <1>7, <2>2, <2>4, <3>1
      <3>2. CASE f = i
        <4>1. first = "created" /\ p \in after /\ p \in Ids /\ p # i /\ p # s
          <5>1. first = "created" /\ p \in after BY <1>7, <2>4, <3>2
          <5>2. p \in Ids /\ p < i BY <1>4, <1>6, <5>1
          <5> QED BY <1>2, <5>1, <5>2 DEF Ids
        <4>2. p \in Pending(after) BY <1>7, <2>4, <4>1 DEF Pending
        <4> QED BY <2>1, <2>2, <3>2, <4>1, <4>2
      <3>3. CASE f # s /\ f # i
        <4>1. status[f] = "created" /\ p \in startAfter[f] BY <1>7, <2>4, <3>3
        <4>2. p \in Ids /\ p # s BY <1>10, <4>1 DEF IInv, TypeOK
        <4>3. p = i => status[i] # "placeholder" BY <1>9, <4>1
        <4>4. status[p] \in {"created", "running"} BY <1>5, <1>7, <2>4, <4>2, <4>3
        <4>5. f \in followUps[p] BY <4>1, <4>2, <4>4 DEF IInv, FollowUpIndex
        <4> QED BY <2>1, <2>2, <3>3, <4>2, <4>5
      <3> QED BY <3>1, <3>2, <3>3
    <2> QED BY <2>3, <2>4 DEF FollowUpIndex
  <1>13. JobsRight'
    <2>1. i \in running <=> status[i] = "running" BY DEF IInv, JobsRight
    <2>2. i \in running' <=> i \in running BY <1>3, <1>4, <1>5, <2>1
    <2>3. s \notin running /\ runs[s] = 0 /\ aborted[s] = "no" BY <1>4, NoJob DEF IInv
    <2>4. status[i] # first => i \notin running /\ runs[i] = 0 /\ aborted[i] = "no"
      BY <1>5, NoJob DEF IInv
    <2>5. \A j \in Ids : j \in running' <=> j \in running BY <1>3, <2>2, <2>3
    <2>6. ASSUME NEW j \in Ids
          PROVE  /\ j \in running' <=> status'[j] = "running"
                 /\ runs'[j] \in {0, 1}
                 /\ aborted'[j] \in {"posted", "signalled"} => status'[j] = "running"
                 /\ aborted'[j] \in {"dismissed", "concluded"} => status'[j] = "failed" /\ runs'[j] = 1
                 /\ aborted'[j] \notin {"dismissed", "concluded"} => (runs'[j] = 1 <=> j \in running')
      <3>1. CASE status'[j] = status[j] BY <1>3, <2>5, <3>1 DEF IInv, JobsRight
      <3>2. CASE status'[j] # status[j]
        <4>1. j \notin running /\ runs[j] = 0 /\ aborted[j] = "no" /\ status'[j] # "running"
          BY <1>5, <1>7, <2>3, <2>4, <3>2
        <4> QED BY <1>3, <2>5, <4>1
      <3> QED BY <3>1, <3>2
    <2> QED BY <2>6 DEF JobsRight
  <1>14. \A j \in Ids : status'[j] = "placeholder" => status[j] = "placeholder"
    BY <1>5, <1>7
  <1>15. PredecessorsRight'
    <2> SUFFICES ASSUME NEW f \in Ids, status'[f] # "absent", NEW p \in startAfter'[f]
                 PROVE  p < f /\ status'[p] # "placeholder"
      BY DEF PredecessorsRight, Precedes
    <2>1. CASE f = s BY <1>2, <1>5, <1>7, <2>1 DEF Ids
    <2>2. CASE f = i BY <1>4, <1>6, <1>7, <1>14, <2>2 DEF Precedes
    <2>3. CASE f # s /\ f # i
      <3>1. status[f] # "absent" /\ p \in startAfter[f] /\ p \in Ids
        BY <1>7, <2>3 DEF IInv, TypeOK
      <3> QED BY <1>14, <3>1 DEF IInv, PredecessorsRight, Precedes
    <2> QED BY <2>1, <2>2, <2>3
  <1>16. HandlersRight'
    <2>1. ~Active(t)' /\ \A u \in Taskers \ {t} : tasks'[u] = tasks[u]
      BY <1>3 DEF IInv, TypeOK, Active, NoTask
    <2>2. (\A h \in Posters : PostRight(h)') /\ \A u \in Taskers \ {t} : TaskRight(u)'
      BY <1>1, <1>2, <1>3, <1>7, <1>14, <2>1, OthersKept
    <2>3. TaskRight(t)' BY <2>1 DEF TaskRight, Active
    <2>4. Distinct' BY <1>3, <2>1 DEF IInv, HandlersRight, Distinct, Active
    <2> QED BY <2>2, <2>3, <2>4 DEF HandlersRight
  <1> QED BY <1>8, <1>12, <1>13, <1>15, <1>16 DEF IInv

-------------------------------------------------------------------------------
(* The other requests.                                                     *)

\* Records change their state but none is new, and none loses or gets a
\* placeholder: predecessors and handlers see nothing of it.
LEMMA RecordsKept ==
    ASSUME IInv, UNCHANGED <<startAfter, posts, tasks>>,
           \A j \in Ids : /\ status'[j] = "placeholder" <=> status[j] = "placeholder"
                          /\ status[j] = "absent" => status'[j] = "absent"
                          /\ Begun(j) => Begun(j)'
    PROVE  PredecessorsRight' /\ HandlersRight'
  <1>1. PredecessorsRight' BY DEF IInv, TypeOK, PredecessorsRight, Precedes
  <1>2. HandlersRight' BY HandlersKept DEF IInv
  <1> QED BY <1>1, <1>2

\* The index loses the actions of F, which are not scheduled any more; no record
\* becomes one that a follow-up waits for.
LEMMA UnregisteredIndex ==
    ASSUME TypeOK, FollowUpIndex, UNCHANGED startAfter, NEW F,
           followUps' = Unregistered(followUps, F),
           \A f \in Ids : /\ status'[f] = "created" <=> status[f] = "created" /\ f \notin F
                          /\ status'[f] = "running" => status[f] \in {"created", "running"}
    PROVE  FollowUpIndex'
  <1>1. ASSUME NEW p \in Ids, NEW f \in followUps'[p]
        PROVE  status'[f] = "created" /\ p \in startAfter'[f]
    <2>1. f \in followUps[p] /\ ~(f \in F /\ p \in startAfter[f]) BY <1>1 DEF Unregistered
    <2>2. f \in Ids /\ status[f] = "created" /\ p \in startAfter[f]
      BY <2>1 DEF TypeOK, FollowUpIndex
    <2> QED BY <2>1, <2>2
  <1>2. ASSUME NEW f \in Ids, status'[f] = "created", NEW p \in startAfter'[f],
               status'[p] \in {"created", "running"}
        PROVE  f \in followUps'[p]
    <2>1. status[f] = "created" /\ f \notin F /\ p \in startAfter[f] /\ p \in Ids
      BY <1>2 DEF TypeOK
    <2>2. status[p] \in {"created", "running"} BY <1>2, <2>1
    <2>3. f \in followUps[p] BY <2>1, <2>2 DEF FollowUpIndex
    <2> QED BY <2>1, <2>3 DEF Unregistered
  <1> QED BY <1>1, <1>2 DEF FollowUpIndex

LEMMA UnregisteredType ==
    ASSUME TypeOK, NEW F PROVE Unregistered(followUps, F) \in [Ids -> SUBSET Ids]
  BY DEF TypeOK, Unregistered

LEMMA StartActionsIInv ==
    ASSUME IInv, NEW S \in SUBSET Ids, StartActions(S, 1) PROVE IInv'
  <1> DEFINE T == {i \in S : status[i] = "created"}
  <1>1. /\ status' = [i \in Ids |-> IF i \in T THEN "running" ELSE status[i]]
        /\ running' = running \cup T
        /\ runs' = [i \in Ids |-> IF i \in T THEN runs[i] + 1 ELSE runs[i]]
        /\ followUps' = Unregistered(followUps, T)
        /\ UNCHANGED <<startAfter, aborted, grave, posts, tasks>>
    BY DEF StartActions
  <1>2. T \subseteq Ids /\ \A i \in T : status[i] = "created" OBVIOUS
  <1>3. \A i \in T : runs[i] = 0 /\ aborted[i] = "no" /\ i \notin running
    BY <1>2, NoJob DEF IInv
  <1>4. \A f \in Ids : status[f] = "created" /\ f \notin T => status'[f] = "created" BY <1>1
  <1> HIDE DEF T
  <1>5. TypeOK' BY <1>1, <1>2, UnregisteredType DEF IInv, TypeOK, Status
  <1>6. FollowUpIndex' BY <1>1, <1>2, UnregisteredIndex DEF IInv
  <1>7. JobsRight' BY <1>1, <1>2, <1>3 DEF IInv, TypeOK, JobsRight
  <1>8. PredecessorsRight' /\ HandlersRight'
    BY <1>1, <1>2, RecordsKept DEF Begun
  <1> QED BY <1>5, <1>6, <1>7, <1>8 DEF IInv

\* What stopping does to the records and the index.
LEMMA AbortedKept ==
    ASSUME IInv, NEW W \in SUBSET Ids, \A i \in W : status[i] = "running",
           Aborted(W), UNCHANGED <<startAfter, grave, posts, tasks>>
    PROVE  /\ status' \in [Ids -> Status] /\ running' \in SUBSET Ids
           /\ followUps' \in [Ids -> SUBSET Ids]
           /\ FollowUpIndex' /\ PredecessorsRight' /\ HandlersRight'
  <1>1. /\ status' = [i \in Ids |-> IF i \in W THEN "failed" ELSE status[i]]
        /\ running' = running \ W
        /\ followUps' = Unregistered(followUps, W)
    BY DEF Aborted
  <1>2. /\ status' \in [Ids -> Status] /\ running' \in SUBSET Ids
        /\ followUps' \in [Ids -> SUBSET Ids]
    BY <1>1, UnregisteredType DEF IInv, TypeOK, Status
  <1>3. FollowUpIndex' BY <1>1, UnregisteredIndex DEF IInv
  <1>4. PredecessorsRight' /\ HandlersRight' BY <1>1, RecordsKept DEF Begun
  <1> QED BY <1>2, <1>3, <1>4

LEMMA StopActionsIInv ==
    ASSUME IInv, NEW S \in SUBSET Ids, NEW W \in SUBSET S, StopActions(S, W) PROVE IInv'
  <1>1. /\ \A i \in S : status[i] = "running"
        /\ Aborted(W)
        /\ aborted' = [i \in Ids |-> IF i \in W THEN "dismissed" ELSE IF i \in S THEN "posted" ELSE aborted[i]]
        /\ UNCHANGED <<startAfter, runs, grave, posts, tasks>>
    BY DEF StopActions, IsExecuting
  <1>2. /\ status' \in [Ids -> Status] /\ running' \in SUBSET Ids
        /\ followUps' \in [Ids -> SUBSET Ids]
        /\ FollowUpIndex' /\ PredecessorsRight' /\ HandlersRight'
    BY <1>1, AbortedKept
  <1>3. TypeOK' BY <1>1, <1>2 DEF IInv, TypeOK
  <1>4. \A i \in S : i \in running /\ runs[i] = 1 BY <1>1 DEF IInv, JobsRight
  <1>5. JobsRight' BY <1>1, <1>4 DEF IInv, TypeOK, JobsRight, Aborted
  <1> QED BY <1>2, <1>3, <1>5 DEF IInv

LEMMA RunStopHandlerIInv ==
    ASSUME IInv, NEW i \in Ids, RunStopHandler(i) PROVE IInv'
  <1>1. status[i] = "running" /\ i \in running /\ runs[i] = 1
    BY DEF IInv, JobsRight, RunStopHandler
  <1>2. CASE /\ Aborted({i})
             /\ aborted' = [aborted EXCEPT ![i] = "concluded"]
             /\ UNCHANGED <<startAfter, runs, grave, posts, tasks>>
    <2>1. /\ status' \in [Ids -> Status] /\ running' \in SUBSET Ids
          /\ followUps' \in [Ids -> SUBSET Ids]
          /\ FollowUpIndex' /\ PredecessorsRight' /\ HandlersRight'
      BY <1>1, <1>2, AbortedKept
    <2>2. TypeOK' BY <1>2, <2>1 DEF IInv, TypeOK
    <2>3. JobsRight' BY <1>1, <1>2 DEF IInv, TypeOK, JobsRight, Aborted
    <2> QED BY <2>1, <2>2, <2>3 DEF IInv
  <1>3. CASE /\ aborted' = [aborted EXCEPT ![i] = "signalled"]
             /\ UNCHANGED <<status, startAfter, running, followUps, runs, grave, posts, tasks>>
    <2>1. TypeOK' BY <1>3 DEF IInv, TypeOK
    <2>2. FollowUpIndex' BY <1>3 DEF IInv, FollowUpIndex
    <2>3. JobsRight' BY <1>1, <1>3 DEF IInv, TypeOK, JobsRight
    <2>4. PredecessorsRight' /\ HandlersRight' BY <1>3, RecordsKept DEF Begun
    <2> QED BY <2>1, <2>2, <2>3, <2>4 DEF IInv
  <1> QED BY <1>2, <1>3 DEF RunStopHandler

LEMMA AbandonJobIInv ==
    ASSUME IInv, NEW i \in Ids, AbandonJob(i) PROVE IInv'
  <1>1. /\ aborted[i] \in {"dismissed", "concluded"}
        /\ runs' = [runs EXCEPT ![i] = @ - 1]
        /\ aborted' = [aborted EXCEPT ![i] = "no"]
        /\ UNCHANGED <<status, startAfter, running, followUps, grave, posts, tasks>>
    BY DEF AbandonJob
  <1>2. status[i] = "failed" /\ runs[i] = 1 /\ i \notin running BY <1>1 DEF IInv, JobsRight
  <1>3. TypeOK' BY <1>1, <1>2 DEF IInv, TypeOK
  <1>4. FollowUpIndex' BY <1>1 DEF IInv, FollowUpIndex
  <1>5. JobsRight' BY <1>1, <1>2 DEF IInv, TypeOK, JobsRight
  <1>6. PredecessorsRight' /\ HandlersRight' BY <1>1, RecordsKept DEF Begun
  <1> QED BY <1>3, <1>4, <1>5, <1>6 DEF IInv

LEMMA DeleteActionsIInv ==
    ASSUME IInv, NEW S \in SUBSET {i \in Ids : aborted[i] = "no"}, DeleteActions(S) PROVE IInv'
  <1> DEFINE T == {i \in S : status[i] # "placeholder"}
  <1>1. /\ \A i \in S : status[i] # "absent" /\ status[i] # "running"
        /\ status' = [i \in Ids |-> IF i \in T THEN "absent" ELSE status[i]]
        /\ grave' = [i \in Ids |-> IF i \in S THEN status[i] ELSE grave[i]]
        /\ running' = running \ T
        /\ followUps' = [p \in Ids |-> IF p \in T THEN {} ELSE followUps[p] \ T]
        /\ UNCHANGED <<startAfter, runs, aborted, posts, tasks>>
    BY DEF DeleteActions, IsExecuting
  <1>2. T \subseteq Ids /\ \A i \in T : i \in S /\ status[i] # "placeholder" OBVIOUS
  <1>3. \A i \in Ids : i \in S /\ i \notin T => status[i] = "placeholder" OBVIOUS
  <1> HIDE DEF T
  <1>4. \A i \in T : status[i] \in {"created", "succeeded", "failed"} /\ aborted[i] = "no"
    BY <1>1, <1>2 DEF IInv, TypeOK, Status
  <1>5. \A i \in T : runs[i] = 0 /\ i \notin running BY <1>2, <1>4 DEF IInv, JobsRight
  <1>6. TypeOK' BY <1>1 DEF IInv, TypeOK, Status
  <1>7. FollowUpIndex'
    <2>1. ASSUME NEW p \in Ids, NEW f \in followUps'[p]
          PROVE  status'[f] = "created" /\ p \in startAfter'[f]
      <3>1. f \in followUps[p] /\ f \notin T BY <1>1, <2>1
      <3> QED BY <1>1, <3>1 DEF IInv, TypeOK, FollowUpIndex
    <2>2. ASSUME NEW f \in Ids, status'[f] = "created", NEW p \in startAfter'[f],
                 status'[p] \in {"created", "running"}
          PROVE  f \in followUps'[p]
      <3>1. p \in Ids /\ p \in startAfter[f] BY <1>1, <2>2 DEF IInv, TypeOK
      <3>2. status[f] = "created" /\ f \notin T /\ p \notin T /\ status[p] \in {"created", "running"}
        BY <1>1, <2>2, <3>1
      <3>3. f \in followUps[p] BY <3>1, <3>2 DEF IInv, FollowUpIndex
      <3> QED BY <1>1, <3>1, <3>2, <3>3
    <2> QED BY <2>1, <2>2 DEF FollowUpIndex
  <1>8. JobsRight' BY <1>1, <1>4, <1>5 DEF IInv, TypeOK, JobsRight
  <1>9. PredecessorsRight' /\ HandlersRight'
    <2>1. ASSUME NEW j \in Ids, Begun(j) PROVE Begun(j)'
      BY <1>1, <1>2, <1>3, <1>4, <2>1 DEF Begun
    <2>2. \A j \in Ids : status'[j] = "placeholder" <=> status[j] = "placeholder"
      BY <1>1, <1>2
    <2>3. \A j \in Ids : status[j] = "absent" => status'[j] = "absent" BY <1>1
    <2> QED BY <1>1, <2>1, <2>2, <2>3, RecordsKept
  <1> QED BY <1>6, <1>7, <1>8, <1>9 DEF IInv

LEMMA CloneActionIInv ==
    ASSUME IInv, NEW orig \in Ids, NEW i \in Ids, NEW now \in BOOLEAN, CloneAction(orig, i, now)
    PROVE  IInv'
  <1> DEFINE S == startAfter[orig]
             to == IF now THEN "running" ELSE "created"
  <1>1. /\ IsDone(orig) /\ NewId(i)
        /\ status' = [status EXCEPT ![i] = to]
        /\ startAfter' = [startAfter EXCEPT ![i] = S]
        /\ running' = IF now THEN running \cup {i} ELSE running \ {i}
        /\ runs' = [runs EXCEPT ![i] = IF now THEN @ + 1 ELSE @]
        /\ followUps' = Registered(followUps, i, IF now THEN {} ELSE Pending(S))
        /\ grave' = [grave EXCEPT ![i] = "absent"]
        /\ UNCHANGED <<aborted, posts, tasks>>
    BY DEF CloneAction
  <1>2. status[i] = "absent" BY <1>1 DEF NewId, Ids
  <1>3. runs[i] = 0 /\ aborted[i] = "no" /\ i \notin running BY <1>2, NoJob DEF IInv
  <1>4. S \in SUBSET Ids /\ \A p \in S : p < i /\ Precedes(p, orig)
    <2>1. status[orig] # "absent" BY <1>1 DEF IsDone
    <2>2. orig < i BY <1>1, <2>1, Fresh
    <2>3. S \in SUBSET Ids BY DEF IInv, TypeOK
    <2>4. \A p \in S : p < orig /\ Precedes(p, orig)
      BY <2>1 DEF IInv, PredecessorsRight, Precedes
    <2> QED BY <2>2, <2>3, <2>4 DEF Ids
  <1>5. \A f \in Ids : status[f] # "absent" => i \notin startAfter[f]
    <2> SUFFICES ASSUME NEW f \in Ids, status[f] # "absent", i \in startAfter[f] PROVE FALSE
      OBVIOUS
    <2>1. i < f BY DEF IInv, PredecessorsRight, Precedes
    <2>2. f < i BY <1>1, Fresh
    <2> QED BY <2>1, <2>2 DEF Ids
  <1> HIDE DEF S
  <1>6. status'[i] = to /\ \A j \in Ids \ {i} : status'[j] = status[j]
    BY <1>1 DEF IInv, TypeOK
  <1>7. TypeOK'
    <2>1. followUps' \in [Ids -> SUBSET Ids] BY <1>1 DEF IInv, TypeOK, Registered
    <2>2. status' \in [Ids -> Status] /\ grave' \in [Ids -> Status]
      BY <1>1 DEF IInv, TypeOK, Status
    <2>3. startAfter' \in [Ids -> SUBSET Ids] BY <1>1, <1>4 DEF IInv, TypeOK
    <2>4. running' \in SUBSET Ids /\ runs' \in [Ids -> Nat] BY <1>1 DEF IInv, TypeOK
    <2> QED BY <1>1, <2>1, <2>2, <2>3, <2>4 DEF IInv, TypeOK
  <1>8. FollowUpIndex'
    <2>1. CASE now
      <3>1. followUps' \in [Ids -> SUBSET Ids] /\ \A p \in Ids : followUps'[p] = followUps[p]
        BY <1>1, <2>1 DEF IInv, TypeOK, Registered
      <3>2. \A f \in Ids \ {i} : startAfter'[f] = startAfter[f] BY <1>1 DEF IInv, TypeOK
      <3> QED BY <1>1, <1>2, <1>5, <2>1, <3>1, <3>2, StartedIndex DEF IInv
    <2>2. CASE ~now
      <3>1. i \notin S BY <1>4 DEF Ids
      <3> QED BY <1>1, <1>2, <1>4, <1>5, <2>2, <3>1, FiledIndex DEF IInv
    <2> QED BY <2>1, <2>2
  <1>9. JobsRight' BY <1>1, <1>2, <1>3 DEF IInv, TypeOK, JobsRight
  <1>10. PredecessorsRight'
    <2>1. startAfter'[i] = S /\ \A f \in Ids \ {i} : startAfter'[f] = startAfter[f]
      BY <1>1 DEF IInv, TypeOK
    <2>2. \A p \in Ids : status[p] # "placeholder" => status'[p] # "placeholder" BY <1>6
    <2> SUFFICES ASSUME NEW f \in Ids, status'[f] # "absent", NEW p \in startAfter'[f]
                 PROVE  p < f /\ status'[p] # "placeholder"
      BY DEF PredecessorsRight, Precedes
    <2>3. CASE f = i BY <1>4, <2>1, <2>2, <2>3 DEF Precedes
    <2>4. CASE f # i
      <3>1. status[f] # "absent" /\ p \in startAfter[f] /\ p \in Ids
        BY <1>6, <2>1, <2>4 DEF IInv, TypeOK
      <3> QED BY <2>2, <3>1 DEF IInv, PredecessorsRight, Precedes
    <2> QED BY <2>3, <2>4
  <1>11. HandlersRight'
    <2>1. \A j \in Ids \ {i} : Begun(j) => Begun(j)' BY <1>1, <1>6 DEF IInv, TypeOK, Begun
    <2>2. \A j \in Ids : status'[j] = "placeholder" <=> status[j] = "placeholder"
      BY <1>2, <1>6
    <2> QED BY <1>1, <2>1, <2>2, HandlersKept DEF IInv
  <1> QED BY <1>7, <1>8, <1>9, <1>10, <1>11 DEF IInv

-------------------------------------------------------------------------------
(* The worker threads, the end of the process and the next one.            *)

LEMMA ConcludeIInv ==
    ASSUME IInv, NEW i \in Ids, NEW final \in {"succeeded", "failed"}, NEW cached \in BOOLEAN,
           Conclude(i, final, cached)
    PROVE  IInv'
  <1> DEFINE F == IF final = "succeeded" THEN Triggered(i, Own(i, final, cached)) ELSE {}
  <1>1. /\ runs[i] > 0
        /\ status' = [j \in Ids |-> IF j = i THEN final
                                    ELSE IF j \in F THEN "running" ELSE status[j]]
        /\ running' = (running \cup F) \ {i}
        /\ runs' = [j \in Ids |-> IF j = i THEN runs[j] - 1
                                  ELSE IF j \in F THEN runs[j] + 1 ELSE runs[j]]
        /\ followUps' = Unregistered(followUps, F \cup {i})
        /\ aborted' = [aborted EXCEPT ![i] = "no"]
        /\ UNCHANGED <<startAfter, grave, posts, tasks>>
    BY DEF Conclude
  <1>2. runs[i] = 1 /\ status[i] \in {"running", "failed"}
    BY <1>1 DEF IInv, JobsRight
  <1>3. F \subseteq Ids /\ \A f \in F : status[f] = "created"
    BY DEF IInv, TypeOK, FollowUpIndex, Triggered
  <1> HIDE DEF F
  <1>4. i \notin F BY <1>2, <1>3
  <1>5. \A f \in F : runs[f] = 0 /\ aborted[f] = "no" /\ f \notin running
    BY <1>3, NoJob DEF IInv
  <1>6. TypeOK' BY <1>1, <1>2, <1>3, UnregisteredType DEF IInv, TypeOK, Status
  <1>7. FollowUpIndex' BY <1>1, <1>2, <1>3, UnregisteredIndex DEF IInv
  <1>8. JobsRight' BY <1>1, <1>2, <1>3, <1>4, <1>5 DEF IInv, TypeOK, JobsRight
  <1>9. PredecessorsRight' /\ HandlersRight'
    BY <1>1, <1>2, <1>3, RecordsKept DEF Begun
  <1> QED BY <1>6, <1>7, <1>8, <1>9 DEF IInv

LEMMA RestoredIInv ==
    ASSUME IInv, NEW K \in SUBSET Ids, \A i \in Ids : status[i] = "running" => i \in K,
           \A i \in K : status[i] \in {"created", "running"}, Restored(K)
    PROVE  IInv'
  <1> USE DEF Restored
  <1>1. TypeOK'
    BY DEF IInv, TypeOK, Status, NoPost, NoTask, PostType, TaskType
  <1>2. FollowUpIndex' BY DEF IInv, TypeOK, FollowUpIndex
  <1>3. JobsRight' BY DEF IInv, JobsRight
  <1>4. PredecessorsRight' BY DEF IInv, TypeOK, PredecessorsRight, Precedes
  <1>5. HandlersRight'
    BY DEF HandlersRight, PostRight, TaskRight, Distinct, Active, NoPost, NoTask
  <1> QED BY <1>1, <1>2, <1>3, <1>4, <1>5 DEF IInv

LEMMA RestartIInv == IInv /\ (Restart \/ Shutdown) => IInv'
  <1> SUFFICES ASSUME IInv, Restart \/ Shutdown PROVE IInv' OBVIOUS
  <1>1. CASE Restart
    <2>1. PICK F \in SUBSET UNION {Triggered(i, "succeeded") : i \in running} :
              Restored({i \in Ids : IsExecuting(i)} \cup F)
      BY <1>1 DEF Restart
    <2> DEFINE K == {i \in Ids : IsExecuting(i)} \cup F
    <2>2. \A f \in F : f \in Ids /\ status[f] = "created"
      BY DEF IInv, TypeOK, FollowUpIndex, Triggered
    <2>3. /\ K \in SUBSET Ids /\ \A i \in Ids : status[i] = "running" => i \in K
          /\ \A i \in K : status[i] \in {"created", "running"}
      BY <2>2 DEF IsExecuting
    <2> HIDE DEF K
    <2> QED BY <2>1, <2>3, RestoredIInv DEF K
  <1>2. CASE Shutdown
    <2> DEFINE K == {i \in Ids : IsExecuting(i)}
    <2>1. /\ K \in SUBSET Ids /\ \A i \in Ids : status[i] = "running" => i \in K
          /\ \A i \in K : status[i] \in {"created", "running"}
      BY DEF IsExecuting
    <2>2. Restored(K) BY <1>2 DEF Shutdown
    <2> HIDE DEF K
    <2> QED BY <2>1, <2>2, RestoredIInv
  <1> QED BY <1>1, <1>2

-------------------------------------------------------------------------------

LEMMA StutterIInv == ASSUME IInv, UNCHANGED vars PROVE IInv'
  <1> USE DEF IInv, vars
  <1>1. TypeOK' /\ FollowUpIndex' BY DEF TypeOK, FollowUpIndex
  <1>2. JobsRight' BY DEF JobsRight
  <1>3. PredecessorsRight' /\ HandlersRight' BY RecordsKept DEF Begun
  <1> QED BY <1>1, <1>2, <1>3

LEMMA NextIInv == ASSUME MaxMentions = 1, IInv, [Next]_vars PROVE IInv'
  <1>1. ASSUME NEW h \in Posters, Post(h) PROVE IInv'
    BY <1>1, PostAllocateIInv, PostStartIInv, PostStoreIInv DEF Post
  <1>2. ASSUME NEW t \in Taskers, Task(t) PROVE IInv'
    BY <1>2, TaskAllocateIInv, TaskReadIInv, TaskStartIInv, TaskReleaseIInv, TaskStoreIInv DEF Task
  <1>3. ASSUME Request PROVE IInv'
    <2>1. ASSUME NEW S \in SUBSET Ids, NEW n \in 1 .. MaxMentions, StartActions(S, n) PROVE IInv'
      BY <2>1, StartActionsIInv
    <2>2. ASSUME NEW S \in SUBSET Ids, NEW W \in SUBSET S, StopActions(S, W) PROVE IInv'
      BY <2>2, StopActionsIInv
    <2>3. ASSUME NEW S \in SUBSET {i \in Ids : aborted[i] = "no"}, DeleteActions(S) PROVE IInv'
      BY <2>3, DeleteActionsIInv
    <2>4. ASSUME NEW orig \in Ids, NEW i \in Ids, NEW now \in BOOLEAN, CloneAction(orig, i, now)
          PROVE  IInv'
      BY <2>4, CloneActionIInv
    <2> QED BY <1>3, <2>1, <2>2, <2>3, <2>4 DEF Request
  <1>4. ASSUME NEW i \in Ids, RunStopHandler(i) \/ AbandonJob(i) PROVE IInv'
    BY <1>4, RunStopHandlerIInv, AbandonJobIInv
  <1>5. ASSUME NEW i \in Ids, NEW final \in {"succeeded", "failed"}, NEW cached \in BOOLEAN,
               Conclude(i, final, cached)
        PROVE  IInv'
    BY <1>5, ConcludeIInv
  <1>6. CASE Restart \/ Shutdown BY <1>6, RestartIInv
  <1>7. CASE UNCHANGED vars BY <1>7, StutterIInv
  <1> QED BY <1>1, <1>2, <1>3, <1>4, <1>5, <1>6, <1>7 DEF Next

\* In every reachable state the index names every scheduled action under each
\* predecessor that can still succeed, and nothing else: conclude() misses no
\* follow-up (storeBuildAction, deleteBuildAction, conclude, restoreState).
THEOREM AlwaysConsistent == ASSUME MaxMentions = 1 PROVE Spec => []Consistent
  <1>1. Init => IInv BY InitIInv
  <1>2. IInv /\ [Next]_vars => IInv' BY NextIInv
  <1>3. IInv => Consistent BY Implied
  <1> QED BY <1>1, <1>2, <1>3, PTL DEF Spec

\* Unless a request names an id twice, an action is executed once at a time, and
\* the store, the cache of running actions and the jobs agree on which ones are
\* (BuildAction::start, conclude, abort, postBuildActionsFromTask, restoreState).
THEOREM ExecutedOnce == ASSUME MaxMentions = 1 PROVE Spec => []SingleExecution
  <1>1. Init => IInv BY InitIInv
  <1>2. IInv /\ [Next]_vars => IInv' BY NextIInv
  <1>3. IInv => SingleExecution BY Implied
  <1> QED BY <1>1, <1>2, <1>3, PTL DEF Spec

-------------------------------------------------------------------------------
(* What a step does to finished actions and to follow-ups.                 *)

LEMMA FinalStep ==
    ASSUME IInv, [Next]_vars, NEW i \in Ids, IsDone(i), runs[i] = 0
    PROVE  Final(i)
  <1> USE DEF IsDone, Final
  <1>0. status \in [Ids -> Status] BY DEF IInv, TypeOK
  <1>1. ASSUME NEW h \in Posters, Post(h) PROVE Final(i)
    <2>1. CASE PostAllocate(h) BY <1>0, <2>1 DEF PostAllocate, NewId, Ids
    <2>2. CASE PostStart(h) \/ PostStore(h)
      <3>1. posts[h].id # i /\ posts[h].id # 0
        BY <2>2 DEF IInv, HandlersRight, PostRight, PostStart, PostStore
      <3> QED BY <1>0, <2>2, <3>1 DEF PostStart, PostStore
    <2> QED BY <1>1, <2>1, <2>2 DEF Post
  <1>2. ASSUME NEW t \in Taskers, Task(t) PROVE Final(i)
    <2>1. CASE TaskAllocate(t)
      <3>1. PICK j \in Ids : /\ NewId(j) /\ j + 1 \in Ids
                             /\ status' = [status EXCEPT ![j] = "placeholder", ![j + 1] = "placeholder"]
        BY <2>1 DEF TaskAllocate
      <3>2. i # j /\ i # j + 1 BY <3>1 DEF NewId, Ids
      <3> QED BY <1>0, <3>1, <3>2
    <2>2. CASE TaskRead(t) \/ TaskRelease(t) BY <2>2 DEF TaskRead, TaskRelease, store
    <2>3. CASE TaskStart(t)
      <3>1. i # tasks[t].first
        BY <2>3 DEF IInv, HandlersRight, TaskRight, TaskStart, Active, Unstored
      <3> QED BY <1>0, <2>3, <3>1 DEF TaskStart
    <2>4. CASE TaskStore(t)
      <3>1. i # tasks[t].second
        BY <2>4 DEF IInv, HandlersRight, TaskRight, TaskStore, Active
      <3>2. CASE i # tasks[t].first BY <1>0, <2>4, <3>1, <3>2 DEF TaskStore
      <3>3. CASE i = tasks[t].first
        <4>1. tasks[t].now
          BY <2>4, <3>3 DEF IInv, HandlersRight, TaskRight, TaskStore, Active, Unstored
        <4> QED BY <1>0, <2>4, <3>1, <3>3, <4>1 DEF TaskStore, Object
      <3> QED BY <3>2, <3>3
    <2> QED BY <1>2, <2>1, <2>2, <2>3, <2>4 DEF Task
  <1>3. ASSUME Request PROVE Final(i)
    <2>1. ASSUME NEW S \in SUBSET Ids, NEW n, StartActions(S, n) PROVE Final(i)
      BY <2>1 DEF StartActions
    <2>2. ASSUME NEW S \in SUBSET Ids, NEW W \in SUBSET S, StopActions(S, W) PROVE Final(i)
      BY <2>2 DEF StopActions, Aborted, IsExecuting
    <2>3. ASSUME NEW S \in SUBSET Ids, DeleteActions(S) PROVE Final(i)
      BY <2>3 DEF DeleteActions
    <2>4. ASSUME NEW orig \in Ids, NEW j \in Ids, NEW now, CloneAction(orig, j, now) PROVE Final(i)
      <3>1. i # j BY <2>4 DEF CloneAction, NewId, Ids
      <3> QED BY <1>0, <2>4, <3>1 DEF CloneAction
    <2> QED BY <1>3, <2>1, <2>2, <2>3, <2>4 DEF Request
  <1>4. ASSUME NEW j \in Ids, RunStopHandler(j) \/ AbandonJob(j) PROVE Final(i)
    <2>1. RunStopHandler(j) => status[j] = "running" BY DEF IInv, JobsRight, RunStopHandler
    <2> QED BY <1>4, <2>1 DEF RunStopHandler, AbandonJob, Aborted
  <1>5. ASSUME NEW j \in Ids, NEW final, NEW cached, Conclude(j, final, cached) PROVE Final(i)
    BY <1>5 DEF Conclude, Triggered, IsScheduled
  <1>6. CASE Restart
    <2>1. PICK F \in SUBSET UNION {Triggered(j, "succeeded") : j \in running} :
              Restored({j \in Ids : IsExecuting(j)} \cup F)
      BY <1>6 DEF Restart
    <2>2. i \notin F BY DEF Triggered, IsScheduled
    <2> QED BY <2>1, <2>2 DEF Restored, IsExecuting
  <1>7. CASE Shutdown BY <1>7 DEF Shutdown, Restored, IsExecuting
  <1>8. CASE UNCHANGED vars BY <1>8 DEF vars
  <1> QED BY <1>1, <1>2, <1>3, <1>4, <1>5, <1>6, <1>7, <1>8 DEF Next

\* A finished action whose job has ended never changes again: the late store of the
\* task handler, restarts and the handlers of other actions leave it as it is.
THEOREM ResultsFinal == ASSUME MaxMentions = 1 PROVE Spec => FinishedFinal
  <1>1. Init => IInv BY InitIInv
  <1>2. IInv /\ [Next]_vars => IInv' BY NextIInv
  <1>3. IInv /\ [Next]_vars => [\A i \in Ids : IsDone(i) /\ runs[i] = 0 => Final(i)]_vars
    BY FinalStep
  <1> QED BY <1>1, <1>2, <1>3, PTL DEF Spec, FinishedFinal

\* Only its job lets an executing action succeed.
LEMMA SucceededByConclude ==
    ASSUME IInv, [Next]_vars, NEW i \in Ids, status[i] = "running", status'[i] = "succeeded"
    PROVE  \E cached \in BOOLEAN : Conclude(i, "succeeded", cached)
  <1>0. status \in [Ids -> Status] BY DEF IInv, TypeOK
  <1>1. ASSUME NEW h \in Posters, Post(h) PROVE FALSE
    <2>1. ASSUME NEW j \in Ids, status' = [status EXCEPT ![j] = "placeholder"] PROVE FALSE
      BY <1>0, <2>1
    <2>2. PostAllocate(h) => \E j \in Ids : status' = [status EXCEPT ![j] = "placeholder"]
      BY DEF PostAllocate
    <2>3. CASE PostStart(h) \/ PostStore(h) BY <1>0, <2>3 DEF PostStart, PostStore
    <2> QED BY <1>1, <2>1, <2>2, <2>3 DEF Post
  <1>2. ASSUME NEW t \in Taskers, Task(t) PROVE FALSE
    <2>1. CASE TaskAllocate(t)
      <3>1. PICK j \in Ids : status' = [status EXCEPT ![j] = "placeholder", ![j + 1] = "placeholder"]
        BY <2>1 DEF TaskAllocate
      <3> QED BY <1>0, <3>1
    <2>2. CASE TaskRead(t) \/ TaskRelease(t) BY <2>2 DEF TaskRead, TaskRelease, store
    <2>3. CASE TaskStart(t) BY <1>0, <2>3 DEF TaskStart
    <2>4. CASE TaskStore(t)
      <3>1. /\ i # tasks[t].second
            /\ i = tasks[t].first => tasks[t].now
        BY <2>4 DEF IInv, HandlersRight, TaskRight, TaskStore, Active, Unstored
      <3> QED BY <1>0, <2>4, <3>1 DEF TaskStore, Object
    <2> QED BY <1>2, <2>1, <2>2, <2>3, <2>4 DEF Task
  <1>3. ASSUME Request PROVE FALSE
    <2>1. ASSUME NEW S \in SUBSET Ids, NEW n, StartActions(S, n) PROVE FALSE
      BY <2>1 DEF StartActions
    <2>2. ASSUME NEW S \in SUBSET Ids, NEW W \in SUBSET S, StopActions(S, W) PROVE FALSE
      BY <2>2 DEF StopActions, Aborted
    <2>3. ASSUME NEW S \in SUBSET Ids, DeleteActions(S) PROVE FALSE
      BY <2>3 DEF DeleteActions
    <2>4. ASSUME NEW orig \in Ids, NEW j \in Ids, NEW now, CloneAction(orig, j, now) PROVE FALSE
      BY <1>0, <2>4 DEF CloneAction
    <2> QED BY <1>3, <2>1, <2>2, <2>3, <2>4 DEF Request
  <1>4. ASSUME NEW j \in Ids, RunStopHandler(j) \/ AbandonJob(j) PROVE FALSE
    BY <1>4 DEF RunStopHandler, AbandonJob, Aborted
  <1>5. ASSUME NEW j \in Ids, NEW final \in {"succeeded", "failed"}, NEW cached \in BOOLEAN,
               Conclude(j, final, cached)
        PROVE  Conclude(i, "succeeded", cached)
    <2>1. i = j /\ final = "succeeded" BY <1>5 DEF Conclude
    <2> QED BY <1>5, <2>1
  <1>6. CASE Restart \/ Shutdown BY <1>6 DEF Restart, Shutdown, Restored
  <1>7. CASE UNCHANGED vars BY <1>7 DEF vars
  <1> QED BY <1>1, <1>2, <1>3, <1>4, <1>5, <1>6, <1>7 DEF Next

LEMMA TriggeredStep ==
    ASSUME IInv, [Next]_vars, NEW i \in Ids, NEW f \in Ids,
           status[i] = "running", status'[i] = "succeeded", status[f] = "created"
    PROVE  status'[f] = "running" <=>
              /\ i \in startAfter[f]
              /\ \A p \in startAfter[f] : status'[p] \in {"succeeded", "absent"}
  <1>1. PICK cached \in BOOLEAN : Conclude(i, "succeeded", cached) BY SucceededByConclude
  <1>2. runs[i] = 1 /\ i \in running BY DEF IInv, JobsRight
  <1>3. cached BY <1>1, <1>2 DEF Conclude
  <1>4. Own(i, "succeeded", cached) = "succeeded" BY <1>2, <1>3 DEF Own
  <1> DEFINE F == Triggered(i, "succeeded")
  <1>5. \A j \in Ids : status'[j] = IF j = i THEN "succeeded" ELSE IF j \in F THEN "running" ELSE status[j]
    BY <1>1, <1>4 DEF Conclude
  <1>6. f \in followUps[i] <=> i \in startAfter[f] BY DEF IInv, FollowUpIndex
  <1>7. f \in F <=> /\ i \in startAfter[f]
                    /\ \A p \in startAfter[f] \ {i} : status[p] \in {"succeeded", "absent"}
    BY <1>6 DEF Triggered, IsScheduled
  <1>8. \A p \in F : p \in Ids /\ status[p] = "created"
    BY DEF IInv, TypeOK, FollowUpIndex, Triggered
  <1>9. startAfter[f] \subseteq Ids BY DEF IInv, TypeOK
  <1> HIDE DEF F
  <1>10. \A p \in Ids \ {i} : status[p] \in {"succeeded", "absent"} <=> status'[p] \in {"succeeded", "absent"}
    BY <1>5, <1>8
  <1>11. status'[f] = "running" <=> f \in F BY <1>5
  <1> QED BY <1>7, <1>9, <1>10, <1>11

\* When an action succeeds, exactly the scheduled actions whose last missing
\* predecessor it was are started with it (conclude with followUpBuildActions).
THEOREM FollowUpsStarted == ASSUME MaxMentions = 1 PROVE Spec => FollowUpsTriggered
  <1> DEFINE Triggers == \A i, f \in Ids :
        status[i] = "running" /\ status'[i] = "succeeded" /\ status[f] = "created" =>
            (status'[f] = "running" <=>
                /\ i \in startAfter[f]
                /\ \A p \in startAfter[f] : status'[p] \in {"succeeded", "absent"})
  <1>1. Init => IInv BY InitIInv
  <1>2. IInv /\ [Next]_vars => IInv' BY NextIInv
  <1>3. IInv /\ [Next]_vars => [Triggers]_vars BY TriggeredStep
  <1> QED BY <1>1, <1>2, <1>3, PTL DEF Spec, FollowUpsTriggered

-----------------------------------------------------------------------------
(* The build data of a name                                                *)

Fields == {"index", "existing", "hasSource", "source", "version", "error", "convert", "local"}

DatumType(d) ==
    /\ DOMAIN d = Fields
    /\ d.existing \in Versions \cup {None}
    /\ d.source \in Origins \cup {None}
    /\ d.version \in Versions \cup {None}
    /\ d.hasSource \in BOOLEAN /\ d.convert \in BOOLEAN

\* What nothing has been looked up for so far.
NewDatum(d) ==
    /\ DatumType(d)
    /\ ~d.hasSource /\ d.source = None /\ d.version = None /\ d.error = "" /\ ~d.convert

ResponseType(r) ==
    /\ DOMAIN r = {"source", "error", "official", "is404"}
    /\ r.source \in Origins \cup {None}

ProcessType(p) ==
    /\ "kind" \in DOMAIN p
    /\ p.kind = "convert" => p.from \in Origins
    /\ p.kind \in {"aur", "official", "script"} => "retries" \in DOMAIN p
    /\ "retries" \in DOMAIN p => p.retries \in 0 .. Retries

\* The type of everything but the batches.
Types ==
    /\ pc \in {"run", "prepared", "fetch", "again", "check", "bumped", "batches", "finish", "done"}
    /\ result \in {"none", "success", "failure", "aborted"}
    /\ DOMAIN data \subseteq Names
    /\ todo \subseteq DOMAIN data /\ DOMAIN pending \subseteq DOMAIN data
    /\ DOMAIN responses \subseteq DOMAIN data
    /\ todo \cap DOMAIN pending = {} /\ todo \cap DOMAIN responses = {}
    /\ DOMAIN pending \cap DOMAIN responses = {}
    /\ originals \subseteq Names /\ cleaned \subseteq Names /\ newer \subseteq Names
    /\ made \in [Names -> Progress]
    /\ input \in Inputs
    /\ dirs \in [Names -> Directories]
    /\ \A n \in DOMAIN data : DatumType(data[n])
    /\ \A n \in DOMAIN pending : ProcessType(pending[n])
    /\ \A n \in DOMAIN responses : ResponseType(responses[n])

\* Once sources have been found for a name they stay: the directory they are in is
\* only moved or cleaned as long as there are none.
Sourced(n) ==
    data[n].source # None =>
        /\ data[n].hasSource /\ data[n].error = ""
        /\ data[n].convert => data[n].source.of = n
        /\ dirs[n].pkgbuild # None

\* A variant is only converted from another one if that is configured.
Configured(n) == data[n].convert => Convertible(n)

\* Where a name is in a round: still to be looked at, waited for, answered, or
\* skipped as there is nothing to do (unless the action is aborted, then some are
\* simply dropped).
Underway(n) == n \in DOMAIN pending \/ n \in DOMAIN responses
Stage(n) ==
    /\ data[n].error = ""
    /\ Underway(n) => data[n].source = None
    /\ ~Underway(n) => (data[n].hasSource /\ data[n].source = None => data[n].convert)
    /\ n \in todo /\ data[n].hasSource => dirs[n].pkgbuild # None
    /\ ~Underway(n) /\ n \notin todo /\ ~isAborted =>
          Skippable(n) /\ dirs[n].pkgbuild # None
    /\ n \in DOMAIN responses /\ responses[n].source # None => dirs[n].pkgbuild # None

\* The same between two rounds.
Between(n) ==
    /\ data[n].error = ""
    /\ data[n].hasSource => dirs[n].pkgbuild # None
    /\ data[n].hasSource /\ data[n].source = None => data[n].convert

\* The version a name is built with, and that it is noted to be amended.
Unversioned == pc \in {"run", "prepared", "fetch", "again", "check"}
Versioned(n) ==
    data[n].version # None =>
        /\ ~Unversioned /\ data[n].source # None
        /\ data[n].version = NewVersion(n)
        /\ data[n].version # data[n].source.version => n \in newer

\* What a package with sources needs is in the build list or given from the moment
\* the sources have been found.
Covered(n) ==
    data[n].source # None =>
        \A d \in Recipe(n).make \cup Recipe(n).deps : InBuildList(data, d) \/ Given(d)

Datum(n) == Sourced(n) /\ Configured(n) /\ Versioned(n) /\ Covered(n)

AllSourced == \A n \in DOMAIN data : data[n].source # None

\* What each stage of the preparation may rely on.
Stages ==
    /\ pc # "fetch" => todo = {} /\ DOMAIN pending = {}
    /\ pc \in {"run", "prepared"} => DOMAIN responses = {} /\ \A n \in DOMAIN data : NewDatum(data[n])
    /\ pc = "run" => DOMAIN data = {}
    /\ pc = "fetch" => \A n \in DOMAIN data : Stage(n)
    /\ pc = "again" => \A n \in DOMAIN data : Between(n)
    /\ pc = "check" => AllSourced \/ \E n \in DOMAIN data : data[n].error # ""
    /\ pc \in {"bumped", "batches", "finish"} \/ result = "success" => AllSourced
    /\ result = "success" => pc = "done"

\* What comes of the packages that have been amended.
StartedOver ==
    pc = "done" /\ result \in {"success", "failure"} =>
        \A n \in DOMAIN data :
            data[n].version # None /\ data[n].version # data[n].source.version => made[n] = "none"

\* SuccessMeansSources and DependenciesCovered speak of the end only: to get there
\* the invariant has to say what the rounds of fetching keep for each name.
PrepareIInv ==
    /\ Types
    /\ \A n \in DOMAIN data : Datum(n)
    /\ Stages
    /\ StartedOver


-----------------------------------------------------------------------------
(* Versions are ordered by epoch, upstream version and release.            *)

LEMMA LeastOfTwo == ASSUME NEW m \in Nat, NEW n \in Nat PROVE Min({m, n}) = IF m <= n THEN m ELSE n
  <1>1. \A x \in {m, n} : (\A y \in {m, n} : x <= y) => x = IF m <= n THEN m ELSE n OBVIOUS
  <1>2. \E x \in {m, n} : \A y \in {m, n} : x <= y
    <2>1. CASE m <= n BY <2>1
    <2>2. CASE ~(m <= n) BY <2>2
    <2> QED BY <2>1, <2>2
  <1> QED BY <1>1, <1>2 DEF Min

\* The smallest of a set of numbers.
LEMMA SmallestNumber ==
    ASSUME NEW S \in SUBSET Nat, S # {}
    PROVE  \E m \in S : \A k \in S : m <= k
  <1> DEFINE R == OpToRel(<, Nat)
  <1>1. IsWellFoundedOn(R, Nat) BY NatLessThanWellFounded
  <1>2. \A i, j \in Nat : i < j => <<i, j>> \in R BY DEF OpToRel
  <1> HIDE DEF R
  <1>3. PICK m \in S : \A k \in S : <<k, m>> \notin R BY <1>1, WFMin
  <1>4. ASSUME NEW k \in S PROVE m <= k
    <2>1. k \in Nat /\ m \in Nat /\ ~(k < m) BY <1>2, <1>3
    <2> QED BY <2>1
  <1> QED BY <1>4

\* The first of the segments decides in which two versions differ.
LEMMA FirstSegmentDecides ==
    ASSUME NEW a, NEW b, a.segs \in Seq(Nat), b.segs \in Seq(Nat),
           NEW k \in Nat, 1 <= k, k <= Len(a.segs), k <= Len(b.segs),
           \A i \in 1 .. k - 1 : a.segs[i] = b.segs[i],
           a.segs[k] # b.segs[k]
    PROVE  CompareSegments(a, b, FALSE) = Segment(a.segs[k], b.segs[k])
  <1> DEFINE m == Min({Len(a.segs), Len(b.segs)})
             differ == {i \in 1 .. m : Segment(a.segs[i], b.segs[i]) # "equal"}
  <1>1. m \in Nat /\ k \in 1 .. m
    <2>1. Len(a.segs) \in Nat /\ Len(b.segs) \in Nat OBVIOUS
    <2>2. m = IF Len(a.segs) <= Len(b.segs) THEN Len(a.segs) ELSE Len(b.segs)
      BY <2>1, LeastOfTwo
    <2> HIDE DEF m
    <2> QED BY <2>1, <2>2
  <1>2. \A i \in 1 .. m : a.segs[i] \in Nat /\ b.segs[i] \in Nat
    <2>1. Len(a.segs) \in Nat /\ Len(b.segs) \in Nat OBVIOUS
    <2>2. m = IF Len(a.segs) <= Len(b.segs) THEN Len(a.segs) ELSE Len(b.segs)
      BY <2>1, LeastOfTwo
    <2> HIDE DEF m
    <2>3. m <= Len(a.segs) /\ m <= Len(b.segs) BY <2>1, <2>2
    <2>4. /\ \A i \in 1 .. Len(a.segs) : a.segs[i] \in Nat
          /\ \A i \in 1 .. Len(b.segs) : b.segs[i] \in Nat
      OBVIOUS
    <2>5. \A i \in 1 .. m : i \in 1 .. Len(a.segs) /\ i \in 1 .. Len(b.segs) BY <2>1, <2>3, <1>1
    <2> QED BY <2>4, <2>5
  <1> HIDE DEF m
  <1>3. k \in differ BY <1>1, <1>2 DEF Segment
  <1>4. \A i \in differ : k <= i
    <2> SUFFICES ASSUME NEW i \in 1 .. m, i < k PROVE Segment(a.segs[i], b.segs[i]) = "equal"
      BY <1>1
    <2>1. a.segs[i] = b.segs[i] BY <1>1
    <2> QED BY <2>1, <1>2 DEF Segment
  <1>5. differ \subseteq Nat BY <1>1
  <1> HIDE DEF differ
  <1>6. Min(differ) = k
    <2>1. \A x \in differ : (\A y \in differ : x <= y) => x = k BY <1>1, <1>3, <1>4, <1>5
    <2> QED BY <2>1, <1>3, <1>4 DEF Min
  <1> QED BY <1>3, <1>6 DEF CompareSegments, differ, m

\* Without such a segment the longer version is newer.
LEMMA LengthDecides ==
    ASSUME NEW a, NEW b, a.segs \in Seq(Nat), b.segs \in Seq(Nat),
           \A i \in 1 .. Len(a.segs) : i <= Len(b.segs) => a.segs[i] = b.segs[i]
    PROVE  CompareSegments(a, b, FALSE) =
              IF Len(a.segs) > Len(b.segs) THEN "newer"
              ELSE IF Len(a.segs) < Len(b.segs) THEN "older" ELSE "equal"
  <1> DEFINE m == Min({Len(a.segs), Len(b.segs)})
             differ == {i \in 1 .. m : Segment(a.segs[i], b.segs[i]) # "equal"}
  <1>0. Len(a.segs) \in Nat /\ Len(b.segs) \in Nat OBVIOUS
  <1>1. m = IF Len(a.segs) <= Len(b.segs) THEN Len(a.segs) ELSE Len(b.segs)
    BY <1>0, LeastOfTwo
  <1> HIDE DEF m
  <1>2. \A i \in 1 .. m : a.segs[i] = b.segs[i] /\ a.segs[i] \in Nat BY <1>0, <1>1
  <1>3. differ = {} BY <1>2 DEF Segment
  <1> HIDE DEF differ
  <1> QED BY <1>3 DEF CompareSegments, differ, m

\* An epoch or release of one segment or of two.
Segments(s, x, y) == s \in Seq(Nat) /\ s[1] = x /\ (IF y = 0 THEN Len(s) = 1 ELSE Len(s) = 2 /\ s[2] = y)

LEMMA PartsOrdered ==
    ASSUME NEW s, NEW t, NEW x \in Nat, NEW y \in Nat, NEW z \in Nat, NEW w \in Nat,
           Segments(s, x, y), Segments(t, z, w)
    PROVE  ComparePart(s, t) = IF x # z THEN Segment(x, z) ELSE Segment(y, w)
  <1>1. s # <<>> /\ t # <<>> /\ s \in Seq(Nat) /\ t \in Seq(Nat) BY DEF Segments
  <1>2. /\ Part(s).segs = s /\ Part(s).seps = [i \in 1 .. Len(s) - 1 |-> "."]
        /\ Part(t).segs = t /\ Part(t).seps = [i \in 1 .. Len(t) - 1 |-> "."]
    BY DEF Part
  <1>3. ~HasEpoch(Part(s))
    <2>1. CASE Len(s) = 1 BY <2>1, <1>2 DEF HasEpoch
    <2>2. CASE Len(s) = 2 BY <2>2, <1>2 DEF HasEpoch
    <2> QED BY <2>1, <2>2 DEF Segments
  <1>4. ~HasEpoch(Part(t))
    <2>1. CASE Len(t) = 1 BY <2>1, <1>2 DEF HasEpoch
    <2>2. CASE Len(t) = 2 BY <2>2, <1>2 DEF HasEpoch
    <2> QED BY <2>1, <2>2 DEF Segments
  <1>5. ComparePart(s, t) = CompareSegments(Part(s), Part(t), FALSE)
    BY <1>1, <1>3, <1>4 DEF ComparePart, CompareParts
  <1>6. /\ Len(s) \in Nat /\ 1 <= Len(s) /\ s[1] = x /\ (y = 0 => Len(s) = 1)
        /\ y # 0 => Len(s) = 2 /\ s[2] = y
        /\ Len(t) \in Nat /\ 1 <= Len(t) /\ t[1] = z /\ (w = 0 => Len(t) = 1)
        /\ w # 0 => Len(t) = 2 /\ t[2] = w
    BY DEF Segments
  <1> DEFINE a == Part(s)
             b == Part(t)
  <1>7. a.segs = s /\ b.segs = t BY <1>2
  <1>8. a.segs \in Seq(Nat) /\ b.segs \in Seq(Nat) BY <1>1, <1>7
  <1> HIDE DEF a, b
  <1>9. CASE x # z
    <2>1. 1 <= Len(a.segs) /\ 1 <= Len(b.segs) /\ a.segs[1] = x /\ b.segs[1] = z BY <1>6, <1>7
    <2>2. 1 \in Nat /\ 1 <= 1 /\ \A i \in 1 .. 1 - 1 : a.segs[i] = b.segs[i] OBVIOUS
    <2>4. a.segs[1] # b.segs[1] BY <2>1, <1>9
    <2>3. CompareSegments(a, b, FALSE) = Segment(a.segs[1], b.segs[1])
      BY <1>8, <2>1, <2>2, <2>4, FirstSegmentDecides
    <2> QED BY <2>1, <2>3, <1>5, <1>9 DEF a, b
  <1>10. CASE x = z /\ y # 0 /\ w # 0 /\ y # w
    <2>6. Len(s) = 2 /\ Len(t) = 2 BY <1>6, <1>10
    <2>1. 2 <= Len(a.segs) /\ 2 <= Len(b.segs) BY <1>7, <2>6
    <2>5. a.segs[2] = y /\ b.segs[2] = w /\ a.segs[1] = b.segs[1] BY <1>6, <1>7, <1>10
    <2>2. 2 \in Nat /\ 1 <= 2 /\ \A i \in 1 .. 2 - 1 : a.segs[i] = b.segs[i] BY <2>5
    <2>4. a.segs[2] # b.segs[2] BY <2>5, <1>10
    <2>3. CompareSegments(a, b, FALSE) = Segment(a.segs[2], b.segs[2])
      BY <1>8, <2>1, <2>2, <2>4, FirstSegmentDecides
    <2> QED BY <2>5, <2>3, <1>5, <1>10 DEF a, b
  <1>11. CASE x = z /\ (y = 0 \/ w = 0 \/ y = w)
    <2>1. \A i \in 1 .. Len(a.segs) : i <= Len(b.segs) => a.segs[i] = b.segs[i]
      BY <1>6, <1>7, <1>11
    <2>2. CompareSegments(a, b, FALSE) =
              IF Len(a.segs) > Len(b.segs) THEN "newer"
              ELSE IF Len(a.segs) < Len(b.segs) THEN "older" ELSE "equal"
      BY <1>8, <2>1, LengthDecides
    <2>3. ComparePart(s, t) =
              IF Len(s) > Len(t) THEN "newer" ELSE IF Len(s) < Len(t) THEN "older" ELSE "equal"
      BY <2>2, <1>5, <1>7 DEF a, b
    <2>4. CASE y = 0 /\ w = 0 BY <2>3, <2>4, <1>6, <1>11 DEF Segment
    <2>5. CASE y # 0 /\ w = 0 BY <2>3, <2>5, <1>6, <1>11 DEF Segment
    <2>6. CASE y = 0 /\ w # 0 BY <2>3, <2>6, <1>6, <1>11 DEF Segment
    <2>7. CASE y # 0 /\ w # 0 BY <2>3, <2>7, <1>6, <1>11 DEF Segment
    <2> QED BY <2>4, <2>5, <2>6, <2>7
  <1> QED BY <1>9, <1>10, <1>11

LEMMA Glued ==
    ASSUME NEW S, NEW s \in Seq(S), NEW t \in Seq(S), NEW u \in Seq(S)
    PROVE  LET c == s \o t \o u
           IN  /\ c \in Seq(S) /\ Len(c) = Len(s) + Len(t) + Len(u)
               /\ \A i \in 1 .. Len(s) : c[i] = s[i]
               /\ \A i \in 1 .. Len(t) : c[Len(s) + i] = t[i]
               /\ \A i \in 1 .. Len(u) : c[Len(s) + Len(t) + i] = u[i]
  OBVIOUS

LEMMA Cut ==
    ASSUME NEW S, NEW s \in Seq(S), NEW m \in 1 .. Len(s) + 1, NEW n \in m - 1 .. Len(s)
    PROVE  LET c == SubSeq(s, m, n)
           IN  c \in Seq(S) /\ Len(c) = n - m + 1 /\ \A i \in 1 .. n - m + 1 : c[i] = s[m + i - 1]
  OBVIOUS

\* What PackageVersion::fromString() makes of a version written out.
LEMMA Parsed ==
    ASSUME NEW v \in Versions
    PROVE  LET t == PackageVersion(ToVersion(v))
           IN  /\ IF v.epoch = 0 THEN t.epoch = <<>> ELSE t.epoch = <<v.epoch>>
               /\ t.upstream.segs \in Seq(Nat) /\ Len(t.upstream.segs) = 1 /\ t.upstream.segs[1] = v.up
               /\ t.upstream.seps = <<>>
               /\ Segments(t.package, v.rel \div 10, v.rel % 10)
  <1> DEFINE epoch == IF v.epoch = 0 THEN <<>> ELSE <<v.epoch>>
             colon == IF v.epoch = 0 THEN <<>> ELSE <<":">>
             rel   == IF v.rel % 10 = 0 THEN <<v.rel \div 10>> ELSE <<v.rel \div 10, v.rel % 10>>
             dot   == IF Len(rel) = 2 THEN <<".">> ELSE <<>>
             e     == IF v.epoch = 0 THEN 0 ELSE 1
             segs  == epoch \o <<v.up>> \o rel
             seps  == colon \o <<"-">> \o dot
  <1>1. /\ epoch \in Seq(Nat) /\ Len(epoch) = e /\ e \in {0, 1} /\ (e = 1 => epoch[1] = v.epoch)
        /\ rel \in Seq(Nat) /\ Len(rel) = (IF v.rel % 10 = 0 THEN 1 ELSE 2)
        /\ rel[1] = v.rel \div 10 /\ (v.rel % 10 # 0 => rel[2] = v.rel % 10)
        /\ <<v.up>> \in Seq(Nat) /\ Len(<<v.up>>) = 1 /\ <<v.up>>[1] = v.up
    BY DEF Versions
  <1>2. /\ colon \in Seq({":", "-", "."}) /\ Len(colon) = e /\ (e = 1 => colon[1] = ":")
        /\ dot \in Seq({":", "-", "."}) /\ Len(dot) = Len(rel) - 1
        /\ Len(rel) = 2 => dot[1] = "."
        /\ <<"-">> \in Seq({":", "-", "."}) /\ Len(<<"-">>) = 1 /\ <<"-">>[1] = "-"
    <2>1. colon \in Seq({":", "-", "."}) /\ Len(colon) = e /\ (e = 1 => colon[1] = ":")
      <3>1. CASE v.epoch = 0 BY <3>1
      <3>2. CASE v.epoch # 0 BY <3>2
      <3> QED BY <3>1, <3>2
    <2> HIDE DEF rel
    <2>2. dot \in Seq({":", "-", "."}) /\ Len(dot) = Len(rel) - 1 /\ (Len(rel) = 2 => dot[1] = ".")
      BY <1>1
    <2>3. <<"-">> \in Seq({":", "-", "."}) /\ Len(<<"-">>) = 1 /\ <<"-">>[1] = "-" OBVIOUS
    <2> QED BY <2>1, <2>2, <2>3
  <1>3. ToVersion(v) = [segs |-> segs, seps |-> seps] BY DEF ToVersion
  <1> HIDE DEF epoch, colon, rel, dot
  <1>4. /\ segs \in Seq(Nat) /\ Len(segs) = e + 1 + Len(rel)
        /\ e = 1 => segs[1] = v.epoch
        /\ segs[e + 1] = v.up
        /\ \A i \in 1 .. Len(rel) : segs[e + 1 + i] = rel[i]
    <2>1. /\ segs \in Seq(Nat) /\ Len(segs) = Len(epoch) + Len(<<v.up>>) + Len(rel)
          /\ \A i \in 1 .. Len(epoch) : segs[i] = epoch[i]
          /\ \A i \in 1 .. Len(<<v.up>>) : segs[Len(epoch) + i] = <<v.up>>[i]
          /\ \A i \in 1 .. Len(rel) : segs[Len(epoch) + Len(<<v.up>>) + i] = rel[i]
      <3>1. epoch \in Seq(Nat) /\ <<v.up>> \in Seq(Nat) /\ rel \in Seq(Nat) BY <1>1
      <3> QED BY <3>1, Glued
    <2> HIDE DEF segs, e
    <2> QED BY <2>1, <1>1
  <1>5. /\ seps \in Seq({":", "-", "."}) /\ Len(seps) = e + Len(rel)
        /\ e = 1 => seps[1] = ":"
        /\ seps[e + 1] = "-"
        /\ Len(rel) = 2 => seps[e + 2] = "."
    <2>1. /\ seps \in Seq({":", "-", "."}) /\ Len(seps) = Len(colon) + Len(<<"-">>) + Len(dot)
          /\ \A i \in 1 .. Len(colon) : seps[i] = colon[i]
          /\ \A i \in 1 .. Len(<<"-">>) : seps[Len(colon) + i] = <<"-">>[i]
          /\ \A i \in 1 .. Len(dot) : seps[Len(colon) + Len(<<"-">>) + i] = dot[i]
      <3>1. /\ colon \in Seq({":", "-", "."}) /\ <<"-">> \in Seq({":", "-", "."})
            /\ dot \in Seq({":", "-", "."})
        BY <1>2
      <3> QED BY <3>1, Glued
    <2> HIDE DEF seps, e
    <2>2. e \in {0, 1} /\ Len(rel) \in {1, 2} BY <1>1
    <2>3. Len(seps) = e + Len(rel) BY <2>1, <2>2, <1>2
    <2>4. e = 1 => seps[1] = ":" BY <2>1, <1>2
    <2>5. seps[e + 1] = "-" BY <2>1, <1>2
    <2>6. Len(rel) = 2 => seps[e + 2] = "."
      <3> SUFFICES ASSUME Len(rel) = 2 PROVE seps[e + 2] = "." OBVIOUS
      <3>1. 1 \in 1 .. Len(dot) /\ dot[1] = "." BY <1>2
      <3>2. seps[e + 1 + 1] = dot[1] BY <3>1, <2>1, <1>2
      <3>3. e + 1 + 1 = e + 2 BY <2>2
      <3> QED BY <3>1, <3>2, <3>3
    <2> QED BY <2>1, <2>3, <2>4, <2>5, <2>6
  <1> HIDE DEF segs, seps
  <1> DEFINE tv == [segs |-> segs, seps |-> seps]
             dashes == {i \in e + 1 .. Len(seps) : seps[i] = "-"}
  <1>6. HasEpoch(tv) <=> e = 1 BY <1>1, <1>5 DEF HasEpoch
  <1>7. dashes = {e + 1} BY <1>1, <1>5
  <1>8. Max(dashes) = e + 1 /\ dashes # {}
    <2> HIDE DEF dashes
    <2>1. \A x \in dashes : (\A y \in dashes : x >= y) => x = e + 1 BY <1>7
    <2>2. e + 1 \in dashes /\ \A y \in dashes : e + 1 >= y BY <1>1, <1>7
    <2> QED BY <2>1, <2>2 DEF Max
  <1> HIDE DEF e
  <1>9. LET p == PackageVersion(tv)
        IN  /\ p.epoch = IF e = 1 THEN <<segs[1]>> ELSE <<>>
            /\ p.upstream.segs = SubSeq(segs, e + 1, e + 1)
            /\ p.upstream.seps = SubSeq(seps, e + 1, e + 1 - 1)
            /\ p.package = SubSeq(segs, e + 1 + 1, Len(segs))
    <2> DEFINE first  == IF HasEpoch(tv) THEN 1 ELSE 0
               before == {i \in first + 1 .. Len(tv.seps) : tv.seps[i] = "-"}
               last   == IF before = {} THEN Len(tv.segs) ELSE Max(before)
    <2>1. PackageVersion(tv) =
             [epoch    |-> IF first = 1 THEN <<tv.segs[1]>> ELSE <<>>,
              upstream |-> [segs |-> SubSeq(tv.segs, first + 1, last),
                            seps |-> SubSeq(tv.seps, first + 1, last - 1)],
              package  |-> SubSeq(tv.segs, last + 1, Len(tv.segs))]
      BY Zenon DEF PackageVersion
    <2>2. tv.segs = segs /\ tv.seps = seps OBVIOUS
    <2>3. first = e BY <1>1, <1>6
    <2> HIDE DEF first
    <2>4. before = dashes BY <2>2, <2>3 DEF dashes
    <2> HIDE DEF before, dashes
    <2>5. last = e + 1 BY <1>8, <2>4
    <2> HIDE DEF last, tv
    <2> DEFINE p == PackageVersion(tv)
    <2> HIDE DEF p
    <2>6. /\ p.epoch = IF first = 1 THEN <<tv.segs[1]>> ELSE <<>>
          /\ p.upstream.segs = SubSeq(tv.segs, first + 1, last)
          /\ p.upstream.seps = SubSeq(tv.seps, first + 1, last - 1)
          /\ p.package = SubSeq(tv.segs, last + 1, Len(tv.segs))
      <3>1. p = [epoch    |-> IF first = 1 THEN <<tv.segs[1]>> ELSE <<>>,
                 upstream |-> [segs |-> SubSeq(tv.segs, first + 1, last),
                               seps |-> SubSeq(tv.seps, first + 1, last - 1)],
                 package  |-> SubSeq(tv.segs, last + 1, Len(tv.segs))]
        BY <2>1, Zenon DEF p
      <3> QED BY <3>1, Zenon
    <2>7. /\ p.epoch = IF e = 1 THEN <<segs[1]>> ELSE <<>>
          /\ p.upstream.segs = SubSeq(segs, e + 1, e + 1)
          /\ p.upstream.seps = SubSeq(seps, e + 1, e + 1 - 1)
          /\ p.package = SubSeq(segs, e + 1 + 1, Len(segs))
      <3>1. p.epoch = IF e = 1 THEN <<segs[1]>> ELSE <<>> BY <2>2, <2>3, <2>6
      <3>2. p.upstream.segs = SubSeq(segs, e + 1, e + 1) BY <2>2, <2>3, <2>5, <2>6
      <3>3. p.upstream.seps = SubSeq(seps, e + 1, e + 1 - 1)
        <4>1. last - 1 = e + 1 - 1 /\ first + 1 = e + 1
          <5>1. e \in {0, 1} BY <1>1
          <5> QED BY <2>3, <2>5, <5>1
        <4> QED BY <2>2, <2>6, <4>1, Zenon
      <3>4. p.package = SubSeq(segs, e + 1 + 1, Len(segs)) BY <2>2, <2>5, <2>6
      <3> QED BY <3>1, <3>2, <3>3, <3>4
    <2> QED BY <2>7, Zenon DEF p
  <1>10. SubSeq(seps, e + 1, e + 1 - 1) = <<>> BY <1>1, <1>5
  <1>11. LET u == SubSeq(segs, e + 1, e + 1) IN u \in Seq(Nat) /\ Len(u) = 1 /\ u[1] = v.up
    BY <1>1, <1>4, Cut
  <1>12. Segments(SubSeq(segs, e + 1 + 1, Len(segs)), v.rel \div 10, v.rel % 10)
    <2> DEFINE p == SubSeq(segs, e + 1 + 1, Len(segs))
    <2>1. p \in Seq(Nat) /\ Len(p) = Len(rel) /\ \A i \in 1 .. Len(rel) : p[i] = segs[e + 1 + i]
      BY <1>1, <1>4, Cut
    <2> HIDE DEF p
    <2>2. p[1] = v.rel \div 10 /\ (v.rel % 10 # 0 => p[2] = v.rel % 10) BY <2>1, <1>1, <1>4
    <2> QED BY <2>1, <2>2, <1>1 DEF Segments, p
  <1> HIDE DEF tv
  <1>13. PackageVersion(ToVersion(v)) = PackageVersion(tv) BY <1>3 DEF tv
  <1>14. (v.epoch = 0 => e = 0) /\ (v.epoch # 0 => e = 1) BY DEF e
  <1> DEFINE t == PackageVersion(ToVersion(v))
  <1>15. /\ t.epoch = IF e = 1 THEN <<segs[1]>> ELSE <<>>
         /\ t.upstream.segs = SubSeq(segs, e + 1, e + 1) /\ t.upstream.seps = SubSeq(seps, e + 1, e + 1 - 1)
         /\ t.package = SubSeq(segs, e + 1 + 1, Len(segs))
    BY <1>9, <1>13 DEF t
  <1> HIDE DEF t
  <1>16. IF v.epoch = 0 THEN t.epoch = <<>> ELSE t.epoch = <<v.epoch>>
    <2>1. CASE v.epoch = 0 BY <2>1, <1>14, <1>15
    <2>2. CASE v.epoch # 0
      <3>1. e = 1 /\ segs[1] = v.epoch BY <2>2, <1>14, <1>4
      <3>2. t.epoch = <<segs[1]>> BY <3>1, <1>15
      <3> QED BY <2>2, <3>1, <3>2
    <2> QED BY <2>1, <2>2
  <1> QED BY <1>10, <1>11, <1>12, <1>15, <1>16 DEF t

LEMMA EpochsOrdered ==
    ASSUME NEW v \in Versions, NEW w \in Versions
    PROVE  ComparePart(PackageVersion(ToVersion(v)).epoch, PackageVersion(ToVersion(w)).epoch)
              = Segment(v.epoch, w.epoch)
  <1> DEFINE a == PackageVersion(ToVersion(v)).epoch
             b == PackageVersion(ToVersion(w)).epoch
             s == <<v.epoch>>
             t == <<w.epoch>>
  <1>1. v.epoch \in Nat /\ w.epoch \in Nat /\ 0 \in Nat BY DEF Versions
  <1>2. IF v.epoch = 0 THEN a = <<>> ELSE a = s BY Parsed
  <1>3. IF w.epoch = 0 THEN b = <<>> ELSE b = t BY Parsed
  <1>4. Segments(s, v.epoch, 0) /\ Segments(t, w.epoch, 0) BY <1>1 DEF Segments
  <1>5. (v.epoch = 0 => s = <<0>>) /\ (w.epoch = 0 => t = <<0>>) /\ s # <<>> /\ t # <<>> OBVIOUS
  <1> HIDE DEF a, b, s, t
  <1>6. (IF a = <<>> THEN <<0>> ELSE a) = s /\ (IF b = <<>> THEN <<0>> ELSE b) = t
    BY <1>2, <1>3, <1>5
  <1>7. ComparePart(a, b) = ComparePart(s, t)
    BY <1>5, <1>6 DEF ComparePart
  <1>8. ComparePart(s, t) = IF v.epoch # w.epoch THEN Segment(v.epoch, w.epoch) ELSE Segment(0, 0)
    BY <1>1, <1>4, PartsOrdered
  <1> QED BY <1>1, <1>7, <1>8 DEF Segment, a, b

LEMMA UpstreamsOrdered ==
    ASSUME NEW v \in Versions, NEW w \in Versions
    PROVE  CompareParts(PackageVersion(ToVersion(v)).upstream, PackageVersion(ToVersion(w)).upstream, FALSE)
              = Segment(v.up, w.up)
  <1> DEFINE a == PackageVersion(ToVersion(v)).upstream
             b == PackageVersion(ToVersion(w)).upstream
  <1>1. v.up \in Nat /\ w.up \in Nat BY DEF Versions
  <1>2. a.segs \in Seq(Nat) /\ Len(a.segs) = 1 /\ a.segs[1] = v.up /\ a.seps = <<>> BY Parsed
  <1>3. b.segs \in Seq(Nat) /\ Len(b.segs) = 1 /\ b.segs[1] = w.up /\ b.seps = <<>> BY Parsed
  <1> HIDE DEF a, b
  <1>4. ~HasEpoch(a) /\ ~HasEpoch(b) BY <1>2, <1>3 DEF HasEpoch
  <1>5. CompareParts(a, b, FALSE) = CompareSegments(a, b, FALSE) BY <1>4 DEF CompareParts
  <1>6. CASE v.up # w.up
    <2>1. /\ 1 \in Nat /\ 1 <= 1 /\ 1 <= Len(a.segs) /\ 1 <= Len(b.segs)
          /\ \A i \in 1 .. 1 - 1 : a.segs[i] = b.segs[i]
          /\ a.segs[1] # b.segs[1]
      BY <1>2, <1>3, <1>6
    <2>2. CompareSegments(a, b, FALSE) = Segment(a.segs[1], b.segs[1])
      BY <1>2, <1>3, <2>1, FirstSegmentDecides
    <2> QED BY <2>2, <1>2, <1>3, <1>5 DEF a, b
  <1>7. CASE v.up = w.up
    <2>1. \A i \in 1 .. Len(a.segs) : i <= Len(b.segs) => a.segs[i] = b.segs[i]
      BY <1>2, <1>3, <1>7
    <2>2. CompareSegments(a, b, FALSE) =
              IF Len(a.segs) > Len(b.segs) THEN "newer"
              ELSE IF Len(a.segs) < Len(b.segs) THEN "older" ELSE "equal"
      BY <1>2, <1>3, <2>1, LengthDecides
    <2>5. ~(Len(a.segs) > Len(b.segs)) /\ ~(Len(a.segs) < Len(b.segs)) BY <1>2, <1>3
    <2>3. CompareSegments(a, b, FALSE) = "equal" BY <2>2, <2>5
    <2>4. Segment(v.up, w.up) = "equal" BY <1>1, <1>7 DEF Segment
    <2> QED BY <2>3, <2>4, <1>5 DEF a, b
  <1> QED BY <1>6, <1>7

LEMMA ReleasesOrdered ==
    ASSUME NEW v \in Versions, NEW w \in Versions
    PROVE  /\ ComparePart(PackageVersion(ToVersion(v)).package, PackageVersion(ToVersion(w)).package)
                = Segment(v.rel, w.rel)
           /\ PackageVersion(ToVersion(v)).package # <<>>
  <1> DEFINE s == PackageVersion(ToVersion(v)).package
             t == PackageVersion(ToVersion(w)).package
             x == v.rel \div 10
             y == v.rel % 10
             z == w.rel \div 10
             u == w.rel % 10
  <1>1. v.rel \in Nat /\ w.rel \in Nat BY DEF Versions
  <1>2. x \in Nat /\ y \in 0 .. 9 /\ z \in Nat /\ u \in 0 .. 9 /\ v.rel = 10 * x + y /\ w.rel = 10 * z + u
    <2>1. ASSUME NEW k \in Nat
          PROVE  /\ k \div 10 \in Nat /\ k % 10 \in 0 .. 9
                 /\ k = 10 * (k \div 10) + (k % 10)
      <3>1. k \div 10 \in Nat OBVIOUS
      <3>2. k % 10 \in 0 .. 9 OBVIOUS
      <3>3. k = 10 * (k \div 10) + (k % 10) OBVIOUS
      <3> QED BY <3>1, <3>2, <3>3
    <2>2. x \in Nat /\ y \in 0 .. 9 /\ v.rel = 10 * x + y BY <1>1, <2>1
    <2>3. z \in Nat /\ u \in 0 .. 9 /\ w.rel = 10 * z + u BY <1>1, <2>1
    <2> QED BY <2>2, <2>3
  <1>3. Segments(s, x, y) /\ Segments(t, z, u) BY Parsed
  <1> HIDE DEF s, t, x, y, z, u
  <1>4. ComparePart(s, t) = IF x # z THEN Segment(x, z) ELSE Segment(y, u)
    <2>1. y \in Nat /\ u \in Nat BY <1>2
    <2> QED BY <1>2, <1>3, <2>1, PartsOrdered
  <1>5. Segment(v.rel, w.rel) = IF x # z THEN Segment(x, z) ELSE Segment(y, u)
    <2>1. CASE x < z BY <2>1, <1>2 DEF Segment
    <2>2. CASE x > z BY <2>2, <1>2 DEF Segment
    <2>3. CASE x = z BY <2>3, <1>2 DEF Segment
    <2> QED BY <2>1, <2>2, <2>3, <1>2
  <1>6. s # <<>> BY <1>3 DEF Segments
  <1> QED BY <1>4, <1>5, <1>6 DEF s, t

\* When another version is newer.
Below(v, w) ==
    \/ v.epoch < w.epoch
    \/ v.epoch = w.epoch /\ v.up < w.up
    \/ v.epoch = w.epoch /\ v.up = w.up /\ v.rel < w.rel

LEMMA Compared ==
    ASSUME NEW v \in Versions, NEW w \in Versions
    PROVE  CompareTo(v, w) =
              IF v.epoch < w.epoch \/ (v.epoch = w.epoch /\ v.up < w.up) THEN "SoftwareUpgrade"
              ELSE IF Below(v, w) THEN "PackageUpgradeOnly"
              ELSE IF v = w THEN "Equal" ELSE "NewerThanSyncVersion"
  <1> DEFINE t == PackageVersion(ToVersion(v))
             o == PackageVersion(ToVersion(w))
  <1>1. ComparePart(o.epoch, t.epoch) = Segment(w.epoch, v.epoch) BY EpochsOrdered
  <1>2. CompareParts(o.upstream, t.upstream, FALSE) = Segment(w.up, v.up) BY UpstreamsOrdered
  <1>3. ComparePart(o.package, t.package) = Segment(w.rel, v.rel) BY ReleasesOrdered
  <1>4. BothReleased(t, o) BY ReleasesOrdered DEF BothReleased
  <1>5. CompareTo(v, w) =
          IF ComparePart(o.epoch, t.epoch) = "newer" THEN "SoftwareUpgrade"
          ELSE IF ComparePart(o.epoch, t.epoch) = "older" THEN "NewerThanSyncVersion"
          ELSE IF CompareParts(o.upstream, t.upstream, FALSE) = "newer" THEN "SoftwareUpgrade"
          ELSE IF CompareParts(o.upstream, t.upstream, FALSE) = "older" THEN "NewerThanSyncVersion"
          ELSE CASE ComparePart(o.package, t.package) = "newer" -> "PackageUpgradeOnly"
                 [] ComparePart(o.package, t.package) = "older" -> "NewerThanSyncVersion"
                 [] OTHER -> "Equal"
    BY <1>4 DEF CompareTo, Compare
  <1> HIDE DEF t, o
  <1>6. CompareTo(v, w) =
          IF Segment(w.epoch, v.epoch) = "newer" THEN "SoftwareUpgrade"
          ELSE IF Segment(w.epoch, v.epoch) = "older" THEN "NewerThanSyncVersion"
          ELSE IF Segment(w.up, v.up) = "newer" THEN "SoftwareUpgrade"
          ELSE IF Segment(w.up, v.up) = "older" THEN "NewerThanSyncVersion"
          ELSE CASE Segment(w.rel, v.rel) = "newer" -> "PackageUpgradeOnly"
                 [] Segment(w.rel, v.rel) = "older" -> "NewerThanSyncVersion"
                 [] OTHER -> "Equal"
    BY <1>1, <1>2, <1>3, <1>5
  <1>7. v = w <=> v.epoch = w.epoch /\ v.up = w.up /\ v.rel = w.rel BY DEF Versions
  <1>8. /\ v.epoch \in Nat /\ v.up \in Nat /\ v.rel \in Nat
        /\ w.epoch \in Nat /\ w.up \in Nat /\ w.rel \in Nat
    BY DEF Versions
  <1>9. CASE v.epoch # w.epoch BY <1>6, <1>7, <1>8, <1>9 DEF Segment, Below
  <1>10. CASE v.epoch = w.epoch /\ v.up # w.up BY <1>6, <1>7, <1>8, <1>10 DEF Segment, Below
  <1>11. CASE v.epoch = w.epoch /\ v.up = w.up BY <1>6, <1>7, <1>8, <1>11 DEF Segment, Below
  <1> QED BY <1>9, <1>10, <1>11

\* A version is newer than another one if it follows it.
LEMMA NewerFollows ==
    ASSUME NEW v \in Versions, NEW w \in Versions
    PROVE  IsNewer(CompareTo(v, w)) <=> Below(v, w)
  BY Compared DEF IsNewer, Below

-----------------------------------------------------------------------------
(* The oldest and the newest of some versions                              *)

LEMMA BelowIsOrder ==
    /\ \A v \in Versions : ~Below(v, v)
    /\ \A u, v, w \in Versions : Below(u, v) /\ Below(v, w) => Below(u, w)
  BY DEF Below, Versions

\* Among the versions with the least epoch those with the least upstream version.
LEMMA SomeOldest ==
    ASSUME NEW S \in SUBSET Versions, S # {}
    PROVE  \E v \in S : \A w \in S : ~Below(w, v)
  <1>1. \A v \in S : v.epoch \in Nat /\ v.up \in Nat /\ v.rel \in Nat BY DEF Versions
  <1> DEFINE E == {v.epoch : v \in S}
  <1>2. PICK e \in E : \A k \in E : e <= k
    <2>1. E \in SUBSET Nat /\ E # {} BY <1>1
    <2> HIDE DEF E
    <2> QED BY <2>1, SmallestNumber
  <1> DEFINE U == {v.up : v \in {v \in S : v.epoch = e}}
  <1>3. PICK u \in U : \A k \in U : u <= k
    <2>1. U \in SUBSET Nat /\ U # {} BY <1>1, <1>2
    <2> HIDE DEF U
    <2> QED BY <2>1, SmallestNumber
  <1> DEFINE R == {v.rel : v \in {v \in S : v.epoch = e /\ v.up = u}}
  <1>4. PICK r \in R : \A k \in R : r <= k
    <2>1. R \in SUBSET Nat /\ R # {} BY <1>1, <1>3
    <2> HIDE DEF R
    <2> QED BY <2>1, SmallestNumber
  <1>5. PICK v \in S : v.epoch = e /\ v.up = u /\ v.rel = r BY <1>4
  <1>6. ASSUME NEW w \in S PROVE ~Below(w, v)
    <2>1. e <= w.epoch BY <1>2
    <2>2. w.epoch = e => u <= w.up BY <1>3
    <2>3. w.epoch = e /\ w.up = u => r <= w.rel BY <1>4
    <2> QED BY <1>1, <1>5, <2>1, <2>2, <2>3 DEF Below
  <1> QED BY <1>5, <1>6

LEMMA OldestType ==
    ASSUME NEW S \in SUBSET Versions
    PROVE  Oldest(S) \in Versions \cup {None}
  <1>1. CASE S = {} BY <1>1 DEF Oldest
  <1>2. CASE S # {}
    <2>1. PICK v \in S : \A w \in S : ~Below(w, v) BY <1>2, SomeOldest
    <2>2. \E x \in S : \A w \in S : ~IsNewer(CompareTo(w, x)) BY <2>1, NewerFollows
    <2>3. Oldest(S) \in S BY <1>2, <2>2 DEF Oldest
    <2> QED BY <2>3
  <1> QED BY <1>1, <1>2

\* One of finitely many versions is not older than any other: otherwise consider the
\* fewest versions without such a one.
LEMMA SomeNewest ==
    ASSUME NEW S \in SUBSET Versions, S # {}, IsFiniteSet(S)
    PROVE  \E v \in S : \A w \in S : ~Below(v, w)
  <1> DEFINE Endless(A) == /\ A # {} /\ IsFiniteSet(A)
                           /\ \A v \in A : \E w \in A : Below(v, w)
             T == {Cardinality(A) : A \in {A \in SUBSET Versions : Endless(A)}}
  <1> SUFFICES ASSUME Endless(S) PROVE FALSE OBVIOUS
  <1>1. T \in SUBSET Nat /\ T # {}
    <2>1. \A A \in SUBSET Versions : Endless(A) => Cardinality(A) \in Nat BY FS_CardinalityType
    <2> HIDE DEF Endless
    <2> QED BY <2>1
  <1>2. PICK m \in T : \A k \in T : m <= k
    <2> HIDE DEF T
    <2> QED BY <1>1, SmallestNumber
  <1>3. PICK A \in SUBSET Versions : Endless(A) /\ m = Cardinality(A)
    <2> HIDE DEF Endless
    <2> QED BY <1>2
  <1>4. PICK x \in A : TRUE BY <1>3
  <1> DEFINE C == A \ {x}
  <1>5. IsFiniteSet(C) /\ Cardinality(C) = m - 1 BY <1>3, <1>4, FS_RemoveElement
  <1>6. C # {}
    <2> SUFFICES ASSUME C = {} PROVE FALSE OBVIOUS
    <2>1. A = {x} BY <1>4
    <2> QED BY <1>3, <2>1, BelowIsOrder
  <1>7. m \in Nat BY <1>1, <1>2
  <1>8. ~Endless(C)
    <2> SUFFICES ASSUME Endless(C) PROVE FALSE OBVIOUS
    <2>1. C \in SUBSET Versions OBVIOUS
    <2> HIDE DEF C, Endless
    <2>2. Cardinality(C) \in T BY <2>1
    <2> QED BY <1>2, <1>5, <1>7, <2>2
  <1>9. PICK v \in C : \A w \in C : ~Below(v, w) BY <1>5, <1>6, <1>8
  <1>10. Below(v, x) BY <1>3, <1>9
  <1>11. PICK w \in A : Below(x, w) BY <1>3, <1>4
  <1>12. w \in C BY <1>3, <1>11, BelowIsOrder
  <1> QED BY <1>3, <1>4, <1>9, <1>10, <1>11, <1>12, BelowIsOrder

\* The version a source package is chosen with.
LEMMA CandidateType ==
    ASSUME Types, NEW n \in DOMAIN data, MayUsePackage(n) PROVE Candidate(n) \in Versions
  <1> DEFINE all == input.sourcePackages[LookupName(n)]
             e   == data[n].existing
             matching == IF ~Flag("matchVersion") \/ e = None THEN {}
                         ELSE {v \in all : v.up = e.up /\ v.rel = e.rel}
  <1>1. all \subseteq Versions /\ IsFiniteSet(all) /\ all # {}
    <2>1. input \in Inputs /\ LookupName(n) \in DOMAIN input.sourcePackages BY DEF Types, MayUsePackage
    <2> QED BY <2>1, InputsAssumption
  <1>2. matching \subseteq all OBVIOUS
  <1>3. Candidate(n) = IF e # None /\ e \in matching THEN e
                       ELSE CHOOSE v \in (IF matching # {} THEN matching ELSE all) :
                               \A w \in all : matching # {} \/ ~IsNewer(CompareTo(v, w))
    BY DEF Candidate
  <1>4. \E v \in all : \A w \in all : ~IsNewer(CompareTo(v, w))
    <2> HIDE DEF all
    <2>1. PICK v \in all : \A w \in all : ~Below(v, w) BY <1>1, SomeNewest
    <2> QED BY <1>1, <2>1, NewerFollows
  <1> HIDE DEF all, e, matching
  <1>5. CASE e # None /\ e \in matching BY <1>1, <1>2, <1>3, <1>5
  <1>6. CASE ~(e # None /\ e \in matching) /\ matching # {}
    <2>1. Candidate(n) \in matching BY <1>3, <1>6
    <2> QED BY <1>1, <1>2, <2>1
  <1>7. CASE ~(e # None /\ e \in matching) /\ matching = {}
    <2>1. Candidate(n) \in all BY <1>3, <1>4, <1>7
    <2> QED BY <1>1, <2>1
  <1> QED BY <1>5, <1>6, <1>7

-----------------------------------------------------------------------------
(* All versions are ordered, however they are written.                     *)

\* The order of the segments: the first difference decides, otherwise the length.
Differ(x, y, k) ==
    /\ k \in 1 .. Len(x) /\ k <= Len(y)
    /\ x[k] # y[k] /\ \A j \in 1 .. k - 1 : x[j] = y[j]
Agree(x, y) == \A i \in 1 .. Len(x) : i <= Len(y) => x[i] = y[i]
LexBefore(x, y) ==
    \/ \E k \in 1 .. Len(x) : Differ(x, y, k) /\ x[k] < y[k]
    \/ Agree(x, y) /\ Len(x) < Len(y)

LEMMA FirstDifference ==
    ASSUME NEW x \in Seq(Nat), NEW y \in Seq(Nat), ~Agree(x, y)
    PROVE  \E k \in 1 .. Len(x) : Differ(x, y, k)
  <1> DEFINE D == {i \in 1 .. Len(x) : i <= Len(y) /\ x[i] # y[i]}
  <1>1. Len(x) \in Nat /\ Len(y) \in Nat OBVIOUS
  <1>2. D \in SUBSET Nat /\ D # {}
    <2>1. PICK i \in 1 .. Len(x) : i <= Len(y) /\ x[i] # y[i] BY DEF Agree
    <2>2. \A j \in 1 .. Len(x) : j \in Nat BY <1>1
    <2> QED BY <2>1, <2>2
  <1>3. PICK k \in D : \A i \in D : k <= i BY <1>2, SmallestNumber
  <1>4. ASSUME NEW j \in 1 .. k - 1 PROVE x[j] = y[j]
    <2>1. j \in 1 .. Len(x) /\ j <= Len(y) /\ ~(k <= j) BY <1>1, <1>3, <1>4
    <2>2. j \notin D BY <1>3, <2>1
    <2> QED BY <2>1, <2>2
  <1> QED BY <1>3, <1>4 DEF Differ

LEMMA DifferenceDecides ==
    ASSUME NEW x \in Seq(Nat), NEW y \in Seq(Nat), NEW k \in Nat, Differ(x, y, k)
    PROVE  /\ LexBefore(x, y) <=> x[k] < y[k]
           /\ x[k] \in Nat /\ y[k] \in Nat /\ Differ(y, x, k)
  <1>1. Len(x) \in Nat /\ Len(y) \in Nat OBVIOUS
  <1>2. k \in 1 .. Len(x) /\ k \in 1 .. Len(y) BY <1>1 DEF Differ
  <1>3. x[k] \in Nat /\ y[k] \in Nat BY <1>2
  <1>4. Differ(y, x, k) BY <1>1, <1>2 DEF Differ
  <1>5. ~Agree(x, y) BY <1>1, <1>2 DEF Agree, Differ
  <1>6. ASSUME NEW i \in 1 .. Len(x), Differ(x, y, i) PROVE i = k
    <2>1. ~(i < k) BY <1>1, <1>2, <1>6 DEF Differ
    <2>2. ~(k < i) BY <1>1, <1>2, <1>6 DEF Differ
    <2> QED BY <1>1, <1>2, <2>1, <2>2
  <1>7. LexBefore(x, y) <=> x[k] < y[k] BY <1>2, <1>5, <1>6 DEF LexBefore
  <1> QED BY <1>3, <1>4, <1>7

LEMMA AgreementDecides ==
    ASSUME NEW x \in Seq(Nat), NEW y \in Seq(Nat), Agree(x, y)
    PROVE  /\ LexBefore(x, y) <=> Len(x) < Len(y)
           /\ Agree(y, x)
  <1>1. Len(x) \in Nat /\ Len(y) \in Nat OBVIOUS
  <1>2. \A k \in 1 .. Len(x) : ~Differ(x, y, k) BY DEF Agree, Differ
  <1>3. Agree(y, x) BY <1>1 DEF Agree
  <1> QED BY <1>2, <1>3 DEF LexBefore

\* compareParts() without an epoch.
LEMMA SegmentsCompared ==
    ASSUME NEW a, NEW b, a.segs \in Seq(Nat), b.segs \in Seq(Nat)
    PROVE  CompareSegments(a, b, FALSE) =
              IF LexBefore(b.segs, a.segs) THEN "newer"
              ELSE IF LexBefore(a.segs, b.segs) THEN "older" ELSE "equal"
  <1>1. CASE Agree(a.segs, b.segs)
    <2>1. CompareSegments(a, b, FALSE) =
              IF Len(a.segs) > Len(b.segs) THEN "newer"
              ELSE IF Len(a.segs) < Len(b.segs) THEN "older" ELSE "equal"
      BY <1>1, LengthDecides DEF Agree
    <2>2. Agree(b.segs, a.segs) BY <1>1, AgreementDecides
    <2>3. LexBefore(a.segs, b.segs) <=> Len(a.segs) < Len(b.segs) BY <1>1, AgreementDecides
    <2>4. LexBefore(b.segs, a.segs) <=> Len(b.segs) < Len(a.segs) BY <2>2, AgreementDecides
    <2>5. Len(a.segs) \in Nat /\ Len(b.segs) \in Nat OBVIOUS
    <2> QED BY <2>1, <2>3, <2>4, <2>5
  <1>2. CASE ~Agree(a.segs, b.segs)
    <2>1. PICK k \in 1 .. Len(a.segs) : Differ(a.segs, b.segs, k) BY <1>2, FirstDifference
    <2>2. k \in Nat /\ Len(a.segs) \in Nat /\ Len(b.segs) \in Nat OBVIOUS
    <2>3. LexBefore(a.segs, b.segs) <=> a.segs[k] < b.segs[k] BY <2>1, <2>2, DifferenceDecides
    <2>4. Differ(b.segs, a.segs, k) /\ a.segs[k] \in Nat /\ b.segs[k] \in Nat
      BY <2>1, <2>2, DifferenceDecides
    <2>5. LexBefore(b.segs, a.segs) <=> b.segs[k] < a.segs[k] BY <2>2, <2>4, DifferenceDecides
    <2>6. CompareSegments(a, b, FALSE) = Segment(a.segs[k], b.segs[k])
      <3>1. /\ 1 <= k /\ k <= Len(a.segs) /\ k <= Len(b.segs)
            /\ \A i \in 1 .. k - 1 : a.segs[i] = b.segs[i]
            /\ a.segs[k] # b.segs[k]
        BY <2>1, <2>2 DEF Differ
      <3> QED BY <2>2, <3>1, FirstSegmentDecides
    <2>7. a.segs[k] # b.segs[k] BY <2>1 DEF Differ
    <2> QED BY <2>3, <2>4, <2>5, <2>6, <2>7 DEF Segment
  <1> QED BY <1>1, <1>2

LEMMA LexTotal ==
    ASSUME NEW x \in Seq(Nat), NEW y \in Seq(Nat)
    PROVE  /\ ~(LexBefore(x, y) /\ LexBefore(y, x))
           /\ LexBefore(x, y) \/ LexBefore(y, x) \/ x = y
           /\ ~LexBefore(x, x)
  <1>1. Len(x) \in Nat /\ Len(y) \in Nat OBVIOUS
  <1>2. CASE Agree(x, y)
    <2>1. (LexBefore(x, y) <=> Len(x) < Len(y)) /\ Agree(y, x) BY <1>2, AgreementDecides
    <2>2. LexBefore(y, x) <=> Len(y) < Len(x) BY <2>1, AgreementDecides
    <2>3. CASE Len(x) = Len(y)
      <3>1. \A i \in 1 .. Len(x) : x[i] = y[i] BY <1>1, <1>2, <2>3 DEF Agree
      <3>2. x = y BY <2>3, <3>1
      <3> QED BY <1>1, <2>1, <2>2, <3>2
    <2>4. CASE Len(x) # Len(y)
      <3>1. LexBefore(x, y) <=> ~LexBefore(y, x) BY <1>1, <2>1, <2>2, <2>4
      <3>2. Agree(x, x) BY DEF Agree
      <3>3. ~LexBefore(x, x) BY <3>2, <1>1, AgreementDecides
      <3> QED BY <3>1, <3>3
    <2> QED BY <2>3, <2>4
  <1>3. CASE ~Agree(x, y)
    <2>1. PICK k \in 1 .. Len(x) : Differ(x, y, k) BY <1>3, FirstDifference
    <2>2. k \in Nat BY <1>1
    <2>3. (LexBefore(x, y) <=> x[k] < y[k]) /\ x[k] \in Nat /\ y[k] \in Nat /\ Differ(y, x, k)
      BY <2>1, <2>2, DifferenceDecides
    <2>4. LexBefore(y, x) <=> y[k] < x[k] BY <2>2, <2>3, DifferenceDecides
    <2>5. x[k] # y[k] BY <2>1 DEF Differ
    <2>6. Agree(x, x) BY DEF Agree
    <2>7. ~LexBefore(x, x) BY <2>6, <1>1, AgreementDecides
    <2> QED BY <2>3, <2>4, <2>5, <2>7
  <1> QED BY <1>2, <1>3

LEMMA LexTransitive ==
    ASSUME NEW x \in Seq(Nat), NEW y \in Seq(Nat), NEW z \in Seq(Nat),
           LexBefore(x, y), LexBefore(y, z)
    PROVE  LexBefore(x, z)
  <1>1. Len(x) \in Nat /\ Len(y) \in Nat /\ Len(z) \in Nat OBVIOUS
  <1>2. ASSUME NEW k \in 1 .. Len(x), Differ(x, y, k), x[k] < y[k],
               NEW l \in 1 .. Len(y), Differ(y, z, l), y[l] < z[l]
        PROVE  LexBefore(x, z)
    <2>1. k \in Nat /\ l \in Nat /\ k <= Len(y) /\ l <= Len(z) BY <1>1, <1>2 DEF Differ
    <2>2. x[k] \in Nat /\ y[k] \in Nat /\ y[l] \in Nat /\ z[l] \in Nat
      BY <1>2, <2>1, DifferenceDecides
    <2>3. CASE k < l
      <3>1. y[k] = z[k] BY <1>2, <2>1, <2>3 DEF Differ
      <3>2. \A j \in 1 .. k - 1 : x[j] = z[j] BY <1>2, <2>1, <2>3 DEF Differ
      <3>3. Differ(x, z, k) BY <1>2, <2>1, <2>2, <2>3, <3>1, <3>2 DEF Differ
      <3> QED BY <1>2, <3>1, <3>3 DEF LexBefore
    <2>4. CASE k = l
      <3>1. \A j \in 1 .. k - 1 : x[j] = z[j] BY <1>2, <2>1, <2>4 DEF Differ
      <3>2. x[k] < z[k] BY <1>2, <2>2, <2>4
      <3>3. Differ(x, z, k) BY <2>1, <2>2, <2>4, <3>1, <3>2 DEF Differ
      <3> QED BY <3>2, <3>3 DEF LexBefore
    <2>5. CASE l < k
      <3>1. x[l] = y[l] BY <1>2, <2>1, <2>5 DEF Differ
      <3>2. \A j \in 1 .. l - 1 : x[j] = z[j] BY <1>2, <2>1, <2>5 DEF Differ
      <3>3. l \in 1 .. Len(x) BY <1>1, <2>1, <2>5
      <3>4. x[l] < z[l] BY <1>2, <3>1
      <3>5. Differ(x, z, l) BY <2>1, <2>2, <3>2, <3>3, <3>4, <3>1, <1>2 DEF Differ
      <3> QED BY <3>3, <3>4, <3>5 DEF LexBefore
    <2> QED BY <2>1, <2>3, <2>4, <2>5
  <1>3. ASSUME NEW k \in 1 .. Len(x), Differ(x, y, k), x[k] < y[k], Agree(y, z), Len(y) < Len(z)
        PROVE  LexBefore(x, z)
    <2>1. k \in 1 .. Len(y) /\ k <= Len(z) BY <1>1, <1>3 DEF Differ
    <2>2. ASSUME NEW j \in 1 .. k PROVE y[j] = z[j]
      <3>1. j \in 1 .. Len(y) /\ j <= Len(z) BY <1>1, <2>1
      <3> QED BY <1>3, <3>1 DEF Agree
    <2>3. \A j \in 1 .. k - 1 : x[j] = z[j] BY <1>1, <1>3, <2>2 DEF Differ
    <2>4. x[k] < z[k] /\ x[k] # z[k] BY <1>3, <2>1, <2>2 DEF Differ
    <2>5. Differ(x, z, k) BY <1>3, <2>1, <2>3, <2>4 DEF Differ
    <2> QED BY <2>4, <2>5 DEF LexBefore
  <1>4. ASSUME Agree(x, y), Len(x) < Len(y), NEW l \in 1 .. Len(y), Differ(y, z, l), y[l] < z[l]
        PROVE  LexBefore(x, z)
    <2>1. l <= Len(z) BY <1>4 DEF Differ
    <2>2. CASE l <= Len(x)
      <3>1. l \in 1 .. Len(x) BY <1>1, <2>2
      <3>2. ASSUME NEW j \in 1 .. l PROVE x[j] = y[j]
        <4>1. j \in 1 .. Len(x) /\ j <= Len(y) BY <1>1, <3>1
        <4> QED BY <1>4, <4>1 DEF Agree
      <3>3. \A j \in 1 .. l - 1 : x[j] = z[j] BY <1>1, <1>4, <3>2 DEF Differ
      <3>4. x[l] < z[l] /\ x[l] # z[l] BY <1>4, <3>1, <3>2 DEF Differ
      <3>5. Differ(x, z, l) BY <2>1, <3>1, <3>3, <3>4 DEF Differ
      <3> QED BY <3>1, <3>4, <3>5 DEF LexBefore
    <2>3. CASE Len(x) < l
      <3>1. \A j \in 1 .. Len(x) : y[j] = z[j] BY <1>1, <1>4, <2>3 DEF Differ
      <3>2. \A j \in 1 .. Len(x) : x[j] = y[j] BY <1>1, <1>4 DEF Agree
      <3>3. Agree(x, z) BY <3>1, <3>2 DEF Agree
      <3>4. Len(x) < Len(z) BY <1>1, <2>1, <2>3
      <3> QED BY <3>3, <3>4 DEF LexBefore
    <2> QED BY <1>1, <2>2, <2>3
  <1>5. ASSUME Agree(x, y), Len(x) < Len(y), Agree(y, z), Len(y) < Len(z) PROVE LexBefore(x, z)
    <2>1. ASSUME NEW j \in 1 .. Len(x), j <= Len(z) PROVE x[j] = z[j]
      <3>1. j \in 1 .. Len(y) /\ j <= Len(y) BY <1>1, <1>5
      <3>2. x[j] = y[j] BY <1>5, <3>1 DEF Agree
      <3>3. y[j] = z[j] BY <1>5, <2>1, <3>1 DEF Agree
      <3> QED BY <3>2, <3>3
    <2>2. Agree(x, z) BY <2>1 DEF Agree
    <2> QED BY <1>1, <1>5, <2>2 DEF LexBefore
  <1> QED BY <1>2, <1>3, <1>4, <1>5 DEF LexBefore

LEMMA LexWeak ==
    ASSUME NEW x \in Seq(Nat), NEW y \in Seq(Nat), NEW z \in Seq(Nat)
    PROVE  /\ ~LexBefore(x, y) /\ ~LexBefore(y, z) => ~LexBefore(x, z)
           /\ LexBefore(x, y) /\ ~LexBefore(z, y) => LexBefore(x, z)
           /\ ~LexBefore(y, x) /\ LexBefore(y, z) => LexBefore(x, z)
  <1>1. LexBefore(x, y) \/ LexBefore(y, x) \/ x = y BY LexTotal
  <1>2. LexBefore(y, z) \/ LexBefore(z, y) \/ y = z BY LexTotal
  <1>3. LexBefore(x, y) /\ LexBefore(y, z) => LexBefore(x, z) BY LexTransitive
  <1>4. LexBefore(z, y) /\ LexBefore(y, x) => LexBefore(z, x) BY LexTransitive
  <1>5. ~(LexBefore(x, z) /\ LexBefore(z, x)) BY LexTotal
  <1> QED BY <1>1, <1>2, <1>3, <1>4, <1>5

\* compareParts() looks at the epoch first.
PartBefore(a, b) ==
    \/ HasEpoch(b) /\ ~HasEpoch(a)
    \/ (HasEpoch(a) <=> HasEpoch(b)) /\ LexBefore(a.segs, b.segs)

LEMMA PartsCompared ==
    ASSUME NEW a, NEW b, a.segs \in Seq(Nat), b.segs \in Seq(Nat)
    PROVE  /\ CompareParts(a, b, FALSE) = "newer" <=> PartBefore(b, a)
           /\ CompareParts(a, b, FALSE) = "older" <=> PartBefore(a, b)
           /\ ~(PartBefore(a, b) /\ PartBefore(b, a))
  <1>1. CompareSegments(a, b, FALSE) =
              IF LexBefore(b.segs, a.segs) THEN "newer"
              ELSE IF LexBefore(a.segs, b.segs) THEN "older" ELSE "equal"
    BY SegmentsCompared
  <1>2. ~(LexBefore(a.segs, b.segs) /\ LexBefore(b.segs, a.segs)) BY LexTotal
  <1> QED BY <1>1, <1>2 DEF CompareParts, PartBefore

LEMMA PartWeak ==
    ASSUME NEW a, NEW b, NEW c, a.segs \in Seq(Nat), b.segs \in Seq(Nat), c.segs \in Seq(Nat)
    PROVE  /\ ~PartBefore(a, b) /\ ~PartBefore(b, c) => ~PartBefore(a, c)
           /\ PartBefore(a, b) /\ ~PartBefore(c, b) => PartBefore(a, c)
           /\ ~PartBefore(b, a) /\ PartBefore(b, c) => PartBefore(a, c)
  <1>1. /\ ~LexBefore(a.segs, b.segs) /\ ~LexBefore(b.segs, c.segs) => ~LexBefore(a.segs, c.segs)
        /\ LexBefore(a.segs, b.segs) /\ ~LexBefore(c.segs, b.segs) => LexBefore(a.segs, c.segs)
        /\ ~LexBefore(b.segs, a.segs) /\ LexBefore(b.segs, c.segs) => LexBefore(a.segs, c.segs)
    BY LexWeak
  <1> QED BY <1>1 DEF PartBefore

\* compareParts() is a total order of versions, whatever separators and epochs
\* they have.
THEOREM PartsTotallyOrdered ==
    \A a, b, c : IsVersion(a) /\ IsVersion(b) /\ IsVersion(c) =>
        /\ CompareParts(a, b, FALSE) = "newer" <=> CompareParts(b, a, FALSE) = "older"
        /\ CompareParts(a, b, FALSE) # "older" /\ CompareParts(b, c, FALSE) # "older"
              => CompareParts(a, c, FALSE) # "older"
  <1> TAKE a, b, c
  <1> HAVE IsVersion(a) /\ IsVersion(b) /\ IsVersion(c)
  <1>0. a.segs \in Seq(Nat) /\ b.segs \in Seq(Nat) /\ c.segs \in Seq(Nat) BY DEF IsVersion
  <1>1. CompareParts(a, b, FALSE) = "newer" <=> PartBefore(b, a) BY <1>0, PartsCompared
  <1>2. CompareParts(b, a, FALSE) = "older" <=> PartBefore(b, a) BY <1>0, PartsCompared
  <1>3. CompareParts(a, b, FALSE) = "older" <=> PartBefore(a, b) BY <1>0, PartsCompared
  <1>4. CompareParts(b, c, FALSE) = "older" <=> PartBefore(b, c) BY <1>0, PartsCompared
  <1>5. CompareParts(a, c, FALSE) = "older" <=> PartBefore(a, c) BY <1>0, PartsCompared
  <1>6. ~PartBefore(a, b) /\ ~PartBefore(b, c) => ~PartBefore(a, c) BY <1>0, PartWeak
  <1> QED BY <1>1, <1>2, <1>3, <1>4, <1>5, <1>6

-----------------------------------------------------------------------------
(* The parts of a version.                                                 *)

EpochLength(v) == IF HasEpoch(v) THEN 1 ELSE 0
Dashes(v) == {i \in EpochLength(v) + 1 .. Len(v.seps) : v.seps[i] = "-"}
LastOf(v) == IF Dashes(v) = {} THEN Len(v.segs) ELSE Max(Dashes(v))
OrZero(s) == IF s = <<>> THEN <<0>> ELSE s

LEMMA LargestNumber ==
    ASSUME NEW n \in Nat, NEW S \in SUBSET (1 .. n), S # {}
    PROVE  Max(S) \in S
  <1> DEFINE R == {n - i : i \in S}
  <1>1. R \in SUBSET Nat /\ R # {}
    <2>1. PICK i \in S : TRUE OBVIOUS
    <2>2. n - i \in R BY <2>1
    <2>3. \A j \in S : n - j \in Nat OBVIOUS
    <2> QED BY <2>2, <2>3
  <1>2. PICK r \in R : \A k \in R : r <= k BY <1>1, SmallestNumber
  <1>3. PICK x \in S : r = n - x BY <1>2
  <1>4. \A y \in S : n - x <= n - y BY <1>2, <1>3
  <1>5. \A y \in S : y <= x BY <1>4
  <1>6. \E z \in S : \A y \in S : z >= y BY <1>5
  <1> QED BY <1>6 DEF Max

LEMMA CutsType ==
    ASSUME NEW v, IsVersion(v)
    PROVE  /\ EpochLength(v) \in {0, 1}
           /\ LastOf(v) \in Nat /\ EpochLength(v) + 1 <= LastOf(v) /\ LastOf(v) <= Len(v.segs)
  <1>1. v.segs \in Seq(Nat) /\ Len(v.segs) \in Nat /\ Len(v.seps) \in Nat /\ Len(v.segs) = Len(v.seps) + 1
    BY DEF IsVersion
  <1>2. EpochLength(v) \in {0, 1} BY DEF EpochLength
  <1>3. HasEpoch(v) => Len(v.seps) >= 1
    <2>1. v.seps \in Seq({":", ".", "-"}) BY DEF IsVersion
    <2>2. v.seps # <<>> => Len(v.seps) # 0 BY <2>1
    <2> QED BY <1>1, <2>2 DEF HasEpoch
  <1>4. CASE Dashes(v) = {}
    <2>1. LastOf(v) = Len(v.segs) BY <1>4 DEF LastOf
    <2> QED BY <1>1, <1>3, <2>1 DEF EpochLength
  <1>5. CASE Dashes(v) # {}
    <2>1. Dashes(v) \in SUBSET (1 .. Len(v.seps)) BY <1>1, <1>2 DEF Dashes
    <2>2. Max(Dashes(v)) \in Dashes(v) BY <1>1, <1>5, <2>1, LargestNumber
    <2>3. LastOf(v) \in EpochLength(v) + 1 .. Len(v.seps) BY <1>5, <2>2 DEF LastOf, Dashes
    <2> QED BY <1>1, <1>2, <2>3
  <1> QED BY <1>2, <1>4, <1>5

\* The elements of a sequence from one to another.
Cutout(s, m, n) == SubSeq(s, m, n)

LEMMA CutoutFacts ==
    ASSUME NEW s \in Seq(Nat), NEW m \in Nat, NEW n \in Nat, 1 <= m, n <= Len(s), m <= n + 1
    PROVE  /\ Cutout(s, m, n) \in Seq(Nat)
           /\ Len(Cutout(s, m, n)) = n + 1 - m
           /\ \A i \in 1 .. n + 1 - m : Cutout(s, m, n)[i] = s[i + m - 1]
  <1>1. Len(s) \in Nat /\ \A i \in 1 .. Len(s) : s[i] \in Nat OBVIOUS
  <1>2. Cutout(s, m, n) = [i \in 1 .. n + 1 - m |-> s[i + m - 1]] BY DEF Cutout
  <1>3. \A i \in 1 .. n + 1 - m : s[i + m - 1] \in Nat
    <2>1. \A i \in 1 .. n + 1 - m : i + m - 1 \in 1 .. Len(s) BY <1>1
    <2> QED BY <1>1, <2>1
  <1>4. n + 1 - m \in Nat OBVIOUS
  <1>5. Cutout(s, m, n) \in Seq(Nat) /\ Len(Cutout(s, m, n)) = n + 1 - m BY <1>2, <1>3, <1>4
  <1>6. \A i \in 1 .. n + 1 - m : Cutout(s, m, n)[i] = s[i + m - 1] BY <1>2
  <1> QED BY <1>5, <1>6

LEMMA PartsOf ==
    ASSUME NEW v, IsVersion(v)
    PROVE  /\ PackageVersion(v).upstream.segs = Cutout(v.segs, EpochLength(v) + 1, LastOf(v))
           /\ PackageVersion(v).upstream.seps = Cutout(v.seps, EpochLength(v) + 1, LastOf(v) - 1)
           /\ PackageVersion(v).package = Cutout(v.segs, LastOf(v) + 1, Len(v.segs))
           /\ OrZero(PackageVersion(v).epoch) = IF HasEpoch(v) THEN <<v.segs[1]>> ELSE <<0>>
           /\ PackageVersion(v).upstream.segs \in Seq(Nat)
           /\ PackageVersion(v).package \in Seq(Nat)
           /\ OrZero(PackageVersion(v).epoch) \in Seq(Nat)
           /\ OrZero(PackageVersion(v).package) \in Seq(Nat)
  <1>1. PackageVersion(v) =
            [epoch    |-> IF EpochLength(v) = 1 THEN <<v.segs[1]>> ELSE <<>>,
             upstream |-> [segs |-> Cutout(v.segs, EpochLength(v) + 1, LastOf(v)),
                           seps |-> Cutout(v.seps, EpochLength(v) + 1, LastOf(v) - 1)],
             package  |-> Cutout(v.segs, LastOf(v) + 1, Len(v.segs))]
    BY Zenon DEF PackageVersion, EpochLength, LastOf, Dashes, Cutout
  <1>2. /\ EpochLength(v) \in {0, 1} /\ v.segs \in Seq(Nat) /\ Len(v.segs) \in Nat
        /\ LastOf(v) \in Nat /\ EpochLength(v) + 1 <= LastOf(v) /\ LastOf(v) <= Len(v.segs)
    <2>1. v.segs \in Seq(Nat) BY DEF IsVersion
    <2> QED BY <2>1, CutsType
  <1>3. EpochLength(v) = 1 <=> HasEpoch(v) BY DEF EpochLength
  <1>4. Cutout(v.segs, EpochLength(v) + 1, LastOf(v)) \in Seq(Nat)
    <2>1. EpochLength(v) + 1 \in Nat /\ 1 <= EpochLength(v) + 1 BY <1>2
    <2>2. EpochLength(v) + 1 <= LastOf(v) + 1 BY <1>2
    <2> HIDE DEF EpochLength, LastOf
    <2> QED BY <1>2, <2>1, <2>2, CutoutFacts
  <1>5. Cutout(v.segs, LastOf(v) + 1, Len(v.segs)) \in Seq(Nat)
    <2>1. LastOf(v) + 1 \in Nat /\ 1 <= LastOf(v) + 1 /\ LastOf(v) + 1 <= Len(v.segs) + 1 BY <1>2
    <2> QED BY <1>2, <2>1, CutoutFacts
  <1>6. v.segs[1] \in Nat BY <1>2
  <1>7. <<v.segs[1]>> \in Seq(Nat) /\ <<0>> \in Seq(Nat) /\ <<v.segs[1]>> # <<>> BY <1>6
  <1>8. OrZero(PackageVersion(v).epoch) = IF HasEpoch(v) THEN <<v.segs[1]>> ELSE <<0>>
    BY <1>1, <1>3, <1>7 DEF OrZero
  <1>9. OrZero(PackageVersion(v).epoch) \in Seq(Nat) BY <1>7, <1>8
  <1>10. OrZero(PackageVersion(v).package) \in Seq(Nat) BY <1>1, <1>5, <1>7 DEF OrZero
  <1>11. /\ PackageVersion(v).upstream.segs = Cutout(v.segs, EpochLength(v) + 1, LastOf(v))
         /\ PackageVersion(v).upstream.seps = Cutout(v.seps, EpochLength(v) + 1, LastOf(v) - 1)
         /\ PackageVersion(v).package = Cutout(v.segs, LastOf(v) + 1, Len(v.segs))
    BY <1>1
  <1>12. PackageVersion(v).upstream.segs \in Seq(Nat) /\ PackageVersion(v).package \in Seq(Nat)
    BY <1>4, <1>5, <1>11
  <1> QED BY <1>8, <1>9, <1>10, <1>11, <1>12

\* Epochs and releases are compared by their segments.
LEMMA PartCompared ==
    ASSUME NEW a, NEW b, OrZero(a) \in Seq(Nat), OrZero(b) \in Seq(Nat)
    PROVE  /\ ComparePart(a, b) \in {"newer", "older", "equal"}
           /\ ComparePart(a, b) = "newer" <=> LexBefore(OrZero(b), OrZero(a))
           /\ ComparePart(a, b) = "older" <=> LexBefore(OrZero(a), OrZero(b))
  <1>1. \A s \in Seq(Nat) : ~HasEpoch(Part(s)) /\ Part(s).segs = s
    <2> SUFFICES ASSUME NEW s \in Seq(Nat) PROVE ~HasEpoch(Part(s)) /\ Part(s).segs = s OBVIOUS
    <2>1. Part(s).seps = [i \in 1 .. Len(s) - 1 |-> "."] /\ Part(s).segs = s BY DEF Part
    <2>2. CASE Len(s) - 1 >= 1
      <3>1. 1 \in 1 .. Len(s) - 1 BY <2>2
      <3>2. Part(s).seps[1] = "." BY <2>1, <3>1
      <3> QED BY <2>1, <3>2 DEF HasEpoch
    <2>3. CASE ~(Len(s) - 1 >= 1)
      <3>1. Len(s) \in Nat OBVIOUS
      <3>2. 1 .. Len(s) - 1 = {} BY <2>3, <3>1
      <3>3. Part(s).seps = [i \in {} |-> "."] BY <2>1, <3>2
      <3>4. Part(s).seps = <<>> BY <3>3
      <3> QED BY <2>1, <3>4 DEF HasEpoch
    <2> QED BY <2>2, <2>3
  <1>2. ComparePart(a, b) = CompareParts(Part(OrZero(a)), Part(OrZero(b)), FALSE)
    BY DEF ComparePart, OrZero
  <1>3. ComparePart(a, b) = CompareSegments(Part(OrZero(a)), Part(OrZero(b)), FALSE)
    BY <1>1, <1>2 DEF CompareParts
  <1>4. ~(LexBefore(OrZero(a), OrZero(b)) /\ LexBefore(OrZero(b), OrZero(a))) BY LexTotal
  <1>5. Part(OrZero(a)).segs = OrZero(a) /\ Part(OrZero(b)).segs = OrZero(b) BY <1>1
  <1>6. CompareSegments(Part(OrZero(a)), Part(OrZero(b)), FALSE) =
              IF LexBefore(OrZero(b), OrZero(a)) THEN "newer"
              ELSE IF LexBefore(OrZero(a), OrZero(b)) THEN "older" ELSE "equal"
    BY <1>5, SegmentsCompared
  <1> QED BY <1>3, <1>4, <1>6

\* compare() goes by the epoch, then by the upstream version and then by the
\* release if both versions have one.
ReleasedBefore(a, b) ==
    /\ BothReleased(PackageVersion(a), PackageVersion(b))
    /\ LexBefore(OrZero(PackageVersion(a).package), OrZero(PackageVersion(b).package))
VersionBefore(a, b) ==
    LET p == PackageVersion(a)
        q == PackageVersion(b)
    IN  \/ LexBefore(OrZero(p.epoch), OrZero(q.epoch))
        \/ /\ ~LexBefore(OrZero(q.epoch), OrZero(p.epoch))
           /\ \/ PartBefore(p.upstream, q.upstream)
              \/ ~PartBefore(q.upstream, p.upstream) /\ ReleasedBefore(a, b)

LEMMA VersionsCompared ==
    ASSUME NEW a, NEW b, IsVersion(a), IsVersion(b)
    PROVE  /\ IsNewer(Compare(a, b)) <=> VersionBefore(a, b)
           /\ Compare(a, b) = "NewerThanSyncVersion" <=> VersionBefore(b, a)
  <1> DEFINE p == PackageVersion(a)
             q == PackageVersion(b)
             epoch == ComparePart(q.epoch, p.epoch)
             upstream == CompareParts(q.upstream, p.upstream, FALSE)
             package == IF BothReleased(p, q) THEN ComparePart(q.package, p.package) ELSE "equal"
  <1>1. Compare(a, b) =
            IF epoch = "newer" THEN "SoftwareUpgrade"
            ELSE IF epoch = "older" THEN "NewerThanSyncVersion"
            ELSE IF upstream = "newer" THEN "SoftwareUpgrade"
            ELSE IF upstream = "older" THEN "NewerThanSyncVersion"
            ELSE CASE package = "newer" -> "PackageUpgradeOnly"
                   [] package = "older" -> "NewerThanSyncVersion"
                   [] OTHER -> "Equal"
    BY DEF Compare
  <1>2. /\ OrZero(p.epoch) \in Seq(Nat) /\ OrZero(q.epoch) \in Seq(Nat)
        /\ OrZero(p.package) \in Seq(Nat) /\ OrZero(q.package) \in Seq(Nat)
        /\ p.upstream.segs \in Seq(Nat) /\ q.upstream.segs \in Seq(Nat)
    BY PartsOf
  <1> HIDE DEF p, q
  <1>3. /\ epoch = "newer" <=> LexBefore(OrZero(p.epoch), OrZero(q.epoch))
        /\ epoch = "older" <=> LexBefore(OrZero(q.epoch), OrZero(p.epoch))
    BY <1>2, PartCompared
  <1>4. /\ upstream = "newer" <=> PartBefore(p.upstream, q.upstream)
        /\ upstream = "older" <=> PartBefore(q.upstream, p.upstream)
    BY <1>2, PartsCompared
  <1>5. /\ ComparePart(q.package, p.package) = "newer" <=> LexBefore(OrZero(p.package), OrZero(q.package))
        /\ ComparePart(q.package, p.package) = "older" <=> LexBefore(OrZero(q.package), OrZero(p.package))
    BY <1>2, PartCompared
  <1>6. BothReleased(p, q) <=> BothReleased(q, p) BY DEF BothReleased
  <1>7. /\ package = "newer" <=> BothReleased(p, q) /\ LexBefore(OrZero(p.package), OrZero(q.package))
        /\ package = "older" <=> BothReleased(q, p) /\ LexBefore(OrZero(q.package), OrZero(p.package))
    BY <1>5, <1>6
  <1>8. /\ package = "newer" <=> ReleasedBefore(a, b)
        /\ package = "older" <=> ReleasedBefore(b, a)
    BY <1>7 DEF ReleasedBefore, p, q
  <1>9. /\ VersionBefore(a, b) <=>
               \/ epoch = "newer"
               \/ epoch # "older" /\ (upstream = "newer" \/ (upstream # "older" /\ package = "newer"))
        /\ VersionBefore(b, a) <=>
               \/ epoch = "older"
               \/ epoch # "newer" /\ (upstream = "older" \/ (upstream # "newer" /\ package = "older"))
    BY <1>3, <1>4, <1>8 DEF VersionBefore, p, q
  <1> HIDE DEF epoch, upstream, package
  <1> QED BY <1>1, <1>9 DEF IsNewer

LEMMA BeforeTransitive ==
    ASSUME NEW a, NEW b, NEW c, IsVersion(a), IsVersion(b), IsVersion(c),
           VersionBefore(a, b), VersionBefore(b, c)
    PROVE  VersionBefore(a, c)
  <1> DEFINE p == PackageVersion(a)
             q == PackageVersion(b)
             r == PackageVersion(c)
  <1>1. /\ OrZero(p.epoch) \in Seq(Nat) /\ OrZero(q.epoch) \in Seq(Nat) /\ OrZero(r.epoch) \in Seq(Nat)
        /\ OrZero(p.package) \in Seq(Nat) /\ OrZero(q.package) \in Seq(Nat) /\ OrZero(r.package) \in Seq(Nat)
        /\ p.upstream.segs \in Seq(Nat) /\ q.upstream.segs \in Seq(Nat) /\ r.upstream.segs \in Seq(Nat)
    BY PartsOf
  <1> HIDE DEF p, q, r
  <1> DEFINE e(x, y) == LexBefore(OrZero(x.epoch), OrZero(y.epoch))
             u(x, y) == PartBefore(x.upstream, y.upstream)
  <1>2. /\ e(p, q) /\ ~e(r, q) => e(p, r)
        /\ ~e(q, p) /\ e(q, r) => e(p, r)
        /\ ~e(r, q) /\ ~e(q, p) => ~e(r, p)
    BY <1>1, LexWeak
  <1>3. e(q, r) => ~e(r, q) BY <1>1, LexTotal
  <1>4. /\ u(p, q) /\ ~u(r, q) => u(p, r)
        /\ ~u(q, p) /\ u(q, r) => u(p, r)
        /\ ~u(r, q) /\ ~u(q, p) => ~u(r, p)
    BY <1>1, PartWeak
  <1>5. u(q, r) => ~u(r, q) BY <1>1, PartsCompared
  <1>6. e(p, q) => ~e(q, p) BY <1>1, LexTotal
  <1>7. u(p, q) => ~u(q, p) BY <1>1, PartsCompared
  <1>8. ReleasedBefore(a, b) /\ ReleasedBefore(b, c) => ReleasedBefore(a, c)
    <2> SUFFICES ASSUME ReleasedBefore(a, b), ReleasedBefore(b, c) PROVE ReleasedBefore(a, c) OBVIOUS
    <2>1. LexBefore(OrZero(p.package), OrZero(q.package)) /\ LexBefore(OrZero(q.package), OrZero(r.package))
      BY DEF ReleasedBefore, p, q, r
    <2>2. LexBefore(OrZero(p.package), OrZero(r.package)) BY <1>1, <2>1, LexTransitive
    <2> QED BY <2>2 DEF ReleasedBefore, BothReleased, p, q, r
  <1>9. e(p, q) \/ (~e(q, p) /\ (u(p, q) \/ (~u(q, p) /\ ReleasedBefore(a, b)))) BY DEF VersionBefore, p, q
  <1>10. e(q, r) \/ (~e(r, q) /\ (u(q, r) \/ (~u(r, q) /\ ReleasedBefore(b, c)))) BY DEF VersionBefore, q, r
  <1>11. VersionBefore(a, c) <=> e(p, r) \/ (~e(r, p) /\ (u(p, r) \/ (~u(r, p) /\ ReleasedBefore(a, c))))
    BY DEF VersionBefore, p, r
  <1> HIDE DEF e, u
  <1> QED BY <1>2, <1>3, <1>4, <1>5, <1>6, <1>7, <1>8, <1>9, <1>10, <1>11

\* compare() is antisymmetric - an update from one version to another is a
\* downgrade the other way round - and updates compose, whatever epochs and
\* releases the versions have.
THEOREM UpdatesOrdered ==
    \A a, b, c : IsVersion(a) /\ IsVersion(b) /\ IsVersion(c) =>
        /\ IsNewer(Compare(a, b)) <=> Compare(b, a) = "NewerThanSyncVersion"
        /\ IsNewer(Compare(a, b)) /\ IsNewer(Compare(b, c)) => IsNewer(Compare(a, c))
  <1> SUFFICES ASSUME NEW a, NEW b, NEW c, IsVersion(a), IsVersion(b), IsVersion(c)
      PROVE  /\ IsNewer(Compare(a, b)) <=> Compare(b, a) = "NewerThanSyncVersion"
             /\ IsNewer(Compare(a, b)) /\ IsNewer(Compare(b, c)) => IsNewer(Compare(a, c))
    OBVIOUS
  <1>1. IsNewer(Compare(a, b)) <=> VersionBefore(a, b) BY VersionsCompared
  <1>2. Compare(b, a) = "NewerThanSyncVersion" <=> VersionBefore(a, b) BY VersionsCompared
  <1>3. IsNewer(Compare(b, c)) <=> VersionBefore(b, c) BY VersionsCompared
  <1>4. IsNewer(Compare(a, c)) <=> VersionBefore(a, c) BY VersionsCompared
  <1> QED BY <1>1, <1>2, <1>3, <1>4, BeforeTransitive

-----------------------------------------------------------------------------
(* An update keeps lower bounds.                                           *)

\* A part of two versions that begins and ends at the same place and before
\* which they do not differ.
CutDecides(x, y, m, n) ==
    /\ LexBefore(Cutout(x, m, n), Cutout(y, m, n)) => LexBefore(x, y)
    /\ \/ LexBefore(Cutout(x, m, n), Cutout(y, m, n))
       \/ LexBefore(Cutout(y, m, n), Cutout(x, m, n))
       \/ \A j \in 1 .. n : x[j] = y[j]

LEMMA PartDecides ==
    \A x, y \in Seq(Nat), m, n \in Nat :
        /\ Len(x) = Len(y) /\ 1 <= m /\ n <= Len(x) /\ m <= n + 1
        /\ \A j \in 1 .. m - 1 : x[j] = y[j]
        => CutDecides(x, y, m, n)
  <1> SUFFICES ASSUME NEW x \in Seq(Nat), NEW y \in Seq(Nat), Len(x) = Len(y),
                      NEW m \in Nat, NEW n \in Nat, 1 <= m, n <= Len(x), m <= n + 1,
                      \A j \in 1 .. m - 1 : x[j] = y[j]
      PROVE  CutDecides(x, y, m, n)
    OBVIOUS
  <1> DEFINE s == Cutout(x, m, n)
             t == Cutout(y, m, n)
  <1>1. Len(x) \in Nat /\ n + 1 - m \in Nat /\ n <= Len(y) OBVIOUS
  <1>2. /\ s \in Seq(Nat) /\ Len(s) = n + 1 - m
        /\ \A i \in 1 .. n + 1 - m : s[i] = x[i + m - 1]
    BY CutoutFacts
  <1>3. /\ t \in Seq(Nat) /\ Len(t) = n + 1 - m
        /\ \A i \in 1 .. n + 1 - m : t[i] = y[i + m - 1]
    BY <1>1, CutoutFacts
  <1> HIDE DEF s, t
  <1>4. ASSUME LexBefore(s, t) PROVE LexBefore(x, y)
    <2>1. PICK k \in 1 .. n + 1 - m : Differ(s, t, k) /\ s[k] < t[k]
      BY <1>1, <1>2, <1>3, <1>4 DEF LexBefore
    <2>2. k + m - 1 \in 1 .. Len(x) /\ k + m - 1 <= Len(y) BY <1>1
    <2>3. x[k + m - 1] < y[k + m - 1] BY <1>2, <1>3, <2>1
    <2>4. x[k + m - 1] # y[k + m - 1] BY <1>2, <1>3, <2>1 DEF Differ
    <2>5. ASSUME NEW j \in 1 .. k + m - 1 - 1 PROVE x[j] = y[j]
      <3>1. CASE j <= m - 1
        <4>1. j \in 1 .. m - 1 BY <2>5, <3>1
        <4> QED BY <4>1
      <3>2. CASE ~(j <= m - 1)
        <4>1. j - m + 1 \in 1 .. k - 1 /\ j - m + 1 \in 1 .. n + 1 - m /\ j - m + 1 + m - 1 = j
          BY <1>1, <2>1, <2>5, <3>2
        <4>2. s[j - m + 1] = t[j - m + 1] BY <2>1, <4>1 DEF Differ
        <4>3. s[j - m + 1] = x[j - m + 1 + m - 1] /\ t[j - m + 1] = y[j - m + 1 + m - 1]
          BY <1>2, <1>3, <4>1
        <4> QED BY <4>1, <4>2, <4>3
      <3> QED BY <3>1, <3>2
    <2>6. Differ(x, y, k + m - 1) BY <2>2, <2>4, <2>5 DEF Differ
    <2> QED BY <2>2, <2>3, <2>6 DEF LexBefore
  <1>5. ASSUME s = t, NEW j \in 1 .. n PROVE x[j] = y[j]
    <2>1. CASE j <= m - 1 BY <1>5, <2>1
    <2>2. CASE ~(j <= m - 1)
      <3>1. j - m + 1 \in 1 .. n + 1 - m /\ j - m + 1 + m - 1 = j BY <1>5, <2>2
      <3>2. s[j - m + 1] = x[j - m + 1 + m - 1] /\ t[j - m + 1] = y[j - m + 1 + m - 1]
        BY <1>2, <1>3, <3>1
      <3> QED BY <1>5, <3>1, <3>2
    <2> QED BY <2>1, <2>2
  <1>6. LexBefore(s, t) \/ LexBefore(t, s) \/ s = t BY <1>2, <1>3, LexTotal
  <1> QED BY <1>4, <1>5, <1>6 DEF CutDecides, s, t

LEMMA UpdateIsLater ==
    ASSUME NEW a, NEW b, IsVersion(a), IsVersion(b), a.seps = b.seps, VersionBefore(a, b)
    PROVE  LexBefore(a.segs, b.segs)
  <1> DEFINE e == EpochLength(a)
             l == LastOf(a)
             p == PackageVersion(a)
             q == PackageVersion(b)
  <1>1. /\ HasEpoch(a) <=> HasEpoch(b)
        /\ e = EpochLength(b) /\ Len(a.segs) = Len(b.segs)
    BY DEF HasEpoch, EpochLength, IsVersion
  <1>2. l = LastOf(b) BY <1>1 DEF LastOf, Dashes
  <1>3. /\ e \in {0, 1} /\ l \in Nat /\ e + 1 <= l /\ l <= Len(a.segs)
        /\ a.segs \in Seq(Nat) /\ b.segs \in Seq(Nat) /\ Len(a.segs) \in Nat
    <2>1. a.segs \in Seq(Nat) /\ b.segs \in Seq(Nat) BY DEF IsVersion
    <2> QED BY <2>1, CutsType
  <1>4. /\ p.upstream.segs = Cutout(a.segs, e + 1, l)
        /\ p.upstream.seps = Cutout(a.seps, e + 1, l - 1)
        /\ p.package = Cutout(a.segs, l + 1, Len(a.segs))
        /\ OrZero(p.epoch) = IF HasEpoch(a) THEN <<a.segs[1]>> ELSE <<0>>
        /\ p.package \in Seq(Nat) /\ OrZero(p.epoch) \in Seq(Nat)
    BY PartsOf
  <1>5. /\ q.upstream.segs = Cutout(b.segs, e + 1, l)
        /\ q.upstream.seps = Cutout(b.seps, e + 1, l - 1)
        /\ q.package = Cutout(b.segs, l + 1, Len(b.segs))
        /\ OrZero(q.epoch) = IF HasEpoch(b) THEN <<b.segs[1]>> ELSE <<0>>
        /\ q.package \in Seq(Nat) /\ OrZero(q.epoch) \in Seq(Nat)
    BY <1>1, <1>2, PartsOf
  <1> HIDE DEF e, l, p, q
  <1>0. \A m, n \in Nat :
            /\ 1 <= m /\ n <= Len(a.segs) /\ m <= n + 1
            /\ \A j \in 1 .. m - 1 : a.segs[j] = b.segs[j]
            => CutDecides(a.segs, b.segs, m, n)
    <2>1. a.segs \in Seq(Nat) /\ b.segs \in Seq(Nat) /\ Len(a.segs) = Len(b.segs) BY <1>1, <1>3
    <2> QED BY <2>1, PartDecides
  <1>6. HasEpoch(p.upstream) <=> HasEpoch(q.upstream) BY <1>4, <1>5 DEF HasEpoch
  <1>7. CASE LexBefore(OrZero(p.epoch), OrZero(q.epoch))
    <2>1. HasEpoch(a)
      <3>0. <<0>> \in Seq(Nat) OBVIOUS
      <3>1. ~LexBefore(<<0>>, <<0>>) BY <3>0, LexTotal
      <3> QED BY <1>1, <1>4, <1>5, <1>7, <3>1
    <2>2. LexBefore(<<a.segs[1]>>, <<b.segs[1]>>) BY <1>1, <1>4, <1>5, <1>7, <2>1
    <2>3. a.segs[1] < b.segs[1] /\ a.segs[1] # b.segs[1]
      <3>1. a.segs[1] \in Nat /\ b.segs[1] \in Nat BY <1>1, <1>3
      <3>2. PICK k \in 1 .. 1 : <<a.segs[1]>>[k] < <<b.segs[1]>>[k] BY <2>2 DEF LexBefore
      <3>3. k = 1 OBVIOUS
      <3> QED BY <3>1, <3>2, <3>3
    <2>4. 1 \in 1 .. Len(a.segs) /\ 1 <= Len(b.segs) BY <1>1, <1>3
    <2>5. Differ(a.segs, b.segs, 1) BY <2>3, <2>4 DEF Differ
    <2> QED BY <2>3, <2>4, <2>5 DEF LexBefore
  <1>8. CASE ~LexBefore(OrZero(p.epoch), OrZero(q.epoch))
    <2>1. /\ ~LexBefore(OrZero(q.epoch), OrZero(p.epoch))
          /\ \/ PartBefore(p.upstream, q.upstream)
             \/ ~PartBefore(q.upstream, p.upstream) /\ ReleasedBefore(a, b)
      BY <1>8 DEF VersionBefore, p, q
    <2>2. \A j \in 1 .. e + 1 - 1 : a.segs[j] = b.segs[j]
      <3>1. OrZero(p.epoch) = OrZero(q.epoch) BY <1>4, <1>5, <1>8, <2>1, LexTotal
      <3>2. HasEpoch(a) => a.segs[1] = b.segs[1] BY <1>1, <1>4, <1>5, <3>1
      <3>3. e = IF HasEpoch(a) THEN 1 ELSE 0 BY DEF e, EpochLength
      <3>4. CASE HasEpoch(a)
        <4>1. 1 .. e + 1 - 1 = {1} BY <3>3, <3>4
        <4> QED BY <3>2, <3>4, <4>1
      <3>5. CASE ~HasEpoch(a)
        <4>1. 1 .. e + 1 - 1 = {} BY <3>3, <3>5
        <4> QED BY <4>1
      <3> QED BY <3>4, <3>5
    <2>3. e + 1 \in Nat /\ 1 <= e + 1 /\ e + 1 <= l + 1 BY <1>3
    <2>4. CutDecides(a.segs, b.segs, e + 1, l) BY <1>0, <1>3, <2>2, <2>3
    <2>5. CASE PartBefore(p.upstream, q.upstream)
      <3>1. LexBefore(p.upstream.segs, q.upstream.segs) BY <1>6, <2>5 DEF PartBefore
      <3> QED BY <1>4, <1>5, <2>4, <3>1 DEF CutDecides
    <2>6. CASE ~PartBefore(p.upstream, q.upstream)
      <3>1. ReleasedBefore(a, b) /\ ~PartBefore(q.upstream, p.upstream) BY <2>1, <2>6
      <3>2. /\ ~LexBefore(p.upstream.segs, q.upstream.segs)
            /\ ~LexBefore(q.upstream.segs, p.upstream.segs)
        BY <1>6, <2>6, <3>1 DEF PartBefore
      <3>3. \A j \in 1 .. l : a.segs[j] = b.segs[j] BY <1>4, <1>5, <2>4, <3>2 DEF CutDecides
      <3>4. LexBefore(p.package, q.package)
        BY <3>1 DEF ReleasedBefore, BothReleased, OrZero, p, q
      <3>5. l + 1 \in Nat /\ 1 <= l + 1 /\ l + 1 <= Len(a.segs) + 1 /\ l + 1 - 1 = l BY <1>3
      <3>6. \A j \in 1 .. l + 1 - 1 : a.segs[j] = b.segs[j] BY <3>3, <3>5
      <3>7. CutDecides(a.segs, b.segs, l + 1, Len(a.segs)) BY <1>0, <1>3, <3>5, <3>6
      <3> QED BY <1>1, <1>4, <1>5, <3>4, <3>7 DEF CutDecides
    <2> QED BY <2>5, <2>6
  <1> QED BY <1>7, <1>8

\* The release that a required version leaves out only matters for "newer".
LEMMA BoundMatches ==
    ASSUME NEW r, NEW v, r.segs \in Seq(Nat), v.segs \in Seq(Nat)
    PROVE  Matches("greaterEqual", r, v) <=> ~PartBefore(v, r)
  <1>1. CompareSegments(v, r, TRUE) \in {"equal", "newer"} <=> CompareSegments(v, r, FALSE) # "older"
    <2> DEFINE differ == {i \in 1 .. Min({Len(v.segs), Len(r.segs)}) : Segment(v.segs[i], r.segs[i]) # "equal"}
               first == Segment(v.segs[Min(differ)], r.segs[Min(differ)])
    <2>1. first \in {"newer", "older", "equal"} BY DEF Segment
    <2> HIDE DEF first, differ
    <2>2. \A implicit \in BOOLEAN :
              CompareSegments(v, r, implicit) =
                  IF differ # {} THEN first
                  ELSE IF Len(v.segs) > Len(r.segs)
                       THEN IF implicit /\ OnlyPkgRel(v, Len(r.segs)) THEN "equal" ELSE "newer"
                  ELSE IF Len(v.segs) < Len(r.segs) THEN "older"
                  ELSE "equal"
      BY Zenon DEF CompareSegments, differ, first
    <2> QED BY <2>1, <2>2
  <1>2. CompareParts(v, r, TRUE) \in {"equal", "newer"} <=> CompareParts(v, r, FALSE) # "older"
    BY <1>1 DEF CompareParts
  <1>3. CompareParts(v, r, FALSE) = "older" <=> PartBefore(v, r) BY PartsCompared
  <1>4. Matches("greaterEqual", r, v) <=> CompareParts(v, r, TRUE) \in {"equal", "newer"}
    BY DEF Matches
  <1> QED BY <1>2, <1>3, <1>4

\* Dependency::matches() compares whole versions and PackageVersion::compare()
\* their parts; nevertheless an update alone never breaks a dependency with
\* ">=" as long as the versions have the same separators.
THEOREM UpdateKeepsLowerBounds ==
    \A from, to : IsVersion(from) /\ IsVersion(to) /\ from.seps = to.seps /\ IsNewer(Compare(from, to)) =>
        \A r : IsVersion(r) /\ Matches("greaterEqual", r, from) => Matches("greaterEqual", r, to)
  <1> SUFFICES ASSUME NEW from, NEW to, IsVersion(from), IsVersion(to), from.seps = to.seps,
                      IsNewer(Compare(from, to)), NEW r, IsVersion(r), Matches("greaterEqual", r, from)
      PROVE  Matches("greaterEqual", r, to)
    OBVIOUS
  <1>1. from.segs \in Seq(Nat) /\ to.segs \in Seq(Nat) /\ r.segs \in Seq(Nat) BY DEF IsVersion
  <1>2. LexBefore(from.segs, to.segs) BY VersionsCompared, UpdateIsLater
  <1>3. HasEpoch(from) <=> HasEpoch(to) BY DEF HasEpoch
  <1>4. PartBefore(from, to) BY <1>2, <1>3 DEF PartBefore
  <1>5. ~PartBefore(from, r) BY <1>1, BoundMatches
  <1>6. ~PartBefore(to, r)
    <2>1. ~PartBefore(to, from) BY <1>1, <1>4, PartsCompared
    <2> QED BY <1>1, <1>5, <2>1, PartWeak
  <1> QED BY <1>1, <1>6, BoundMatches

-----------------------------------------------------------------------------
(* The version a package is built with                                     *)

LEMMA RelBumped ==
    ASSUME NEW v \in Versions, NEW w \in Versions
    PROVE  /\ BumpRel(v, w) \in Versions
           /\ BumpRel(v, w).epoch = v.epoch /\ BumpRel(v, w).up = v.up
           /\ BumpRel(v, w).rel = w.rel + 1
  BY DEF BumpRel, Versions

\* Whatever the sources have, the version is newer than the existing one; only the
\* epoch of a VCS package may be lower.
LEMMA BumpedIsNewer ==
    ASSUME NEW d, NEW vcs, d.source \in Origins, d.existing \in Versions \cup {None}
    PROVE  /\ Bumped(d, vcs) \in Versions
           /\ d.existing # None /\ ~(vcs /\ d.source.version.epoch < d.existing.epoch) =>
                 Below(d.existing, Bumped(d, vcs))
  <1> DEFINE v == d.source.version
             e == d.existing
  <1>1. v \in Versions BY DEF Origins
  <1>2. Bumped(d, vcs) =
          CASE e = None -> IF Flag("force") THEN BumpRel(v, v) ELSE v
            [] e # None /\ CompareTo(v, e) \in {"Equal", "PackageUpgradeOnly"} -> BumpRel(v, e)
            [] e # None /\ CompareTo(v, e) = "SoftwareUpgrade" ->
                  IF vcs THEN BumpRel([v EXCEPT !.up = e.up], e)
                  ELSE [v EXCEPT !.epoch = e.epoch + 1, !.rel = 10]
            [] OTHER -> IF Flag("force") THEN BumpRel(v, e) ELSE v
    BY Zenon DEF Bumped
  <1>3. d.existing = e /\ d.source.version = v OBVIOUS
  <1>4. e \in Versions \cup {None} OBVIOUS
  <1> DEFINE b == Bumped(d, vcs)
  <1> SUFFICES /\ b \in Versions
               /\ e # None /\ ~(vcs /\ v.epoch < e.epoch) => Below(e, b)
    OBVIOUS
  <1>5. b = CASE e = None -> IF Flag("force") THEN BumpRel(v, v) ELSE v
            [] e # None /\ CompareTo(v, e) \in {"Equal", "PackageUpgradeOnly"} -> BumpRel(v, e)
            [] e # None /\ CompareTo(v, e) = "SoftwareUpgrade" ->
                  IF vcs THEN BumpRel([v EXCEPT !.up = e.up], e)
                  ELSE [v EXCEPT !.epoch = e.epoch + 1, !.rel = 10]
            [] OTHER -> IF Flag("force") THEN BumpRel(v, e) ELSE v
    BY <1>2
  <1> HIDE DEF b, v, e
  <1>6. CASE e = None BY <1>1, <1>5, <1>6, RelBumped
  <1>7. CASE e \in Versions /\ e # None
    <2>1. /\ v.epoch \in Nat /\ v.up \in Nat /\ v.rel \in Nat
          /\ e.epoch \in Nat /\ e.up \in Nat /\ e.rel \in Nat
      BY <1>1, <1>7 DEF Versions
    <2>2. CompareTo(v, e) =
              IF v.epoch < e.epoch \/ (v.epoch = e.epoch /\ v.up < e.up) THEN "SoftwareUpgrade"
              ELSE IF Below(v, e) THEN "PackageUpgradeOnly"
              ELSE IF v = e THEN "Equal" ELSE "NewerThanSyncVersion"
      BY <1>1, <1>7, Compared
    <2>3. /\ BumpRel(v, e) \in Versions
          /\ BumpRel(v, e).epoch = v.epoch /\ BumpRel(v, e).up = v.up /\ BumpRel(v, e).rel = e.rel + 1
      BY <1>1, <1>7, RelBumped
    <2>4. CASE CompareTo(v, e) \in {"Equal", "PackageUpgradeOnly"}
      <3>1. b = BumpRel(v, e) BY <2>4, <1>5, <1>7
      <3>2. v.epoch = e.epoch /\ v.up = e.up BY <2>1, <2>2, <2>4 DEF Below
      <3> QED BY <2>1, <2>3, <3>1, <3>2 DEF Below
    <2>5. CASE CompareTo(v, e) = "SoftwareUpgrade" /\ vcs
      <3> DEFINE w == [v EXCEPT !.up = e.up]
      <3>1. b = BumpRel(w, e) BY <2>5, <1>5, <1>7
      <3>2. w \in Versions /\ w.epoch = v.epoch /\ w.up = e.up BY <1>1, <2>1 DEF Versions
      <3> HIDE DEF w
      <3>3. b \in Versions /\ b.epoch = v.epoch /\ b.up = e.up /\ b.rel = e.rel + 1
        BY <1>7, <3>1, <3>2, RelBumped
      <3> QED BY <2>1, <2>5, <3>3 DEF Below
    <2>6. CASE CompareTo(v, e) = "SoftwareUpgrade" /\ ~vcs
      <3>1. b = [v EXCEPT !.epoch = e.epoch + 1, !.rel = 10] BY <2>6, <1>5, <1>7
      <3>2. b \in Versions /\ b.epoch = e.epoch + 1
        <4>1. \A x, y \in Nat : LET w == [v EXCEPT !.epoch = x, !.rel = y]
                              IN  w \in Versions /\ w.epoch = x
          BY <1>1 DEF Versions
        <4>2. e.epoch + 1 \in Nat /\ 10 \in Nat BY <2>1
        <4> QED BY <3>1, <4>1, <4>2
      <3> QED BY <2>1, <3>2 DEF Below
    <2>7. CASE CompareTo(v, e) = "NewerThanSyncVersion"
      <3>1. b = IF Flag("force") THEN BumpRel(v, e) ELSE v BY <2>7, <1>5, <1>7
      <3>2. ~Below(v, e) /\ v # e BY <2>2, <2>7
      <3>3. Below(e, v)
        <4>1. v = e <=> v.epoch = e.epoch /\ v.up = e.up /\ v.rel = e.rel BY <1>1, <1>7 DEF Versions
        <4> QED BY <2>1, <3>2, <4>1 DEF Below
      <3>4. CASE Flag("force")
        <4>1. b = BumpRel(v, e) BY <3>1, <3>4
        <4> QED BY <2>1, <2>3, <3>3, <4>1 DEF Below
      <3>5. CASE ~Flag("force")
        <4>1. b = v BY <3>1, <3>5
        <4> QED BY <1>1, <3>3, <4>1
      <3> QED BY <3>4, <3>5
    <2>8. CompareTo(v, e) \in {"Equal", "PackageUpgradeOnly", "SoftwareUpgrade", "NewerThanSyncVersion"}
      BY <2>2
    <2> QED BY <2>4, <2>5, <2>6, <2>7, <2>8
  <1> QED BY <1>4, <1>6, <1>7

\* The same for what CheckAndBump gives the packages.
LEMMA NewVersionType ==
    ASSUME NEW n, data[n].source \in Origins, data[n].existing \in Versions \cup {None}
    PROVE  /\ NewVersion(n) \in Versions
           /\ /\ data[n].existing # None /\ ~Flag("keepVersion")
              /\ ~(Recipe(n).vcs /\ data[n].source.version.epoch < data[n].existing.epoch)
              => Below(data[n].existing, NewVersion(n))
  <1>1. /\ Bumped(data[n], Recipe(n).vcs) \in Versions
        /\ data[n].existing # None /\ ~(Recipe(n).vcs /\ data[n].source.version.epoch < data[n].existing.epoch) =>
              Below(data[n].existing, Bumped(data[n], Recipe(n).vcs))
    BY BumpedIsNewer
  <1>2. data[n].source.version \in Versions BY DEF Origins
  <1>3. NewVersion(n) = IF Flag("keepVersion") THEN data[n].source.version
                        ELSE Bumped(data[n], Recipe(n).vcs)
    BY Zenon DEF NewVersion
  <1> QED BY <1>1, <1>2, <1>3

-----------------------------------------------------------------------------
(* The build data of what is looked up first                               *)

LEMMA NoDataType == NewDatum(NoData)
  BY DEF NewDatum, DatumType, NoData, Fields

LEMMA NewDatumWith ==
    ASSUME NEW d, NewDatum(d), NEW i, NEW v \in Versions \cup {None}
    PROVE  NewDatum([d EXCEPT !.index = i, !.existing = v])
  <1> DEFINE e == [d EXCEPT !.index = i, !.existing = v]
  <1>1. DOMAIN d = {"index", "existing", "hasSource", "source", "version", "error", "convert", "local"}
    BY DEF NewDatum, DatumType, Fields
  <1>2. /\ DOMAIN e = DOMAIN d /\ e.existing = v
        /\ e.hasSource = d.hasSource /\ e.source = d.source /\ e.version = d.version
        /\ e.error = d.error /\ e.convert = d.convert
    BY <1>1
  <1> HIDE DEF e
  <1>3. NewDatum(e) BY <1>2 DEF NewDatum, DatumType
  <1> QED BY <1>3 DEF e

LEMMA NoDataWith ==
    ASSUME NEW v \in Versions \cup {None}
    PROVE  /\ NewDatum([NoData EXCEPT !.existing = v])
           /\ \A i : NewDatum([NoData EXCEPT !.index = i, !.existing = v])
  <1>1. NewDatum([NoData EXCEPT !.existing = v])
    <2> DEFINE e == [NoData EXCEPT !.existing = v]
    <2>1. /\ DOMAIN e = Fields /\ e.existing = v /\ e.hasSource = FALSE /\ e.source = None
          /\ e.version = None /\ e.error = "" /\ e.convert = FALSE
      BY DEF NoData, Fields
    <2> HIDE DEF e
    <2>2. NewDatum(e) BY <2>1 DEF NewDatum, DatumType
    <2> QED BY <2>2 DEF e
  <1> QED BY <1>1, NoDataType, NewDatumWith

LEMMA RecordedType ==
    ASSUME input \in Inputs, NEW packages \in SUBSET DOMAIN input.existing
    PROVE  RecordAll(packages) \in Versions \cup {None}
  <1> DEFINE S == {input.existing[i].version : i \in {i \in packages : Required(input.existing[i])}}
  <1>1. S \in SUBSET Versions BY InputsAssumption
  <1> HIDE DEF S
  <1>2. Oldest(S) \in Versions \cup {None} BY <1>1, OldestType
  <1> QED BY <1>2 DEF RecordAll, S

NewData(all) == DOMAIN all \subseteq Names /\ \A n \in DOMAIN all : NewDatum(all[n])

LEMMA LookUpType ==
    ASSUME input \in Inputs, NEW s, NEW name \in Names, NewData(s.data)
    PROVE  NewData(LookUp(s, name).data)
  <1> DEFINE found  == {i \in DOMAIN input.existing : input.existing[i].name = name}
             usable == {i \in found : Relevant(input.existing[i]) /\ input.existing[i].base # None}
             used   == {i \in usable : \A k \in usable : input.existing[k].db = input.dest => i <= k}
             Of(base) == {i \in used : input.existing[i].base = base}
             Known(base) == IF base \in DOMAIN s.data THEN s.data[base] ELSE NoData
             Position(i) == s.index + Cardinality({k \in used : k < i})
             Found(base) ==
                [Known(base) EXCEPT !.index = Position(CHOOSE i \in Of(base) : \A k \in Of(base) : k <= i),
                                    !.existing = Oldest(({@} \ {None}) \cup {input.existing[i].version : i \in Of(base)})]
             bases == {input.existing[i].base : i \in used}
  <1>1. LookUp(s, name).data =
            IF used # {} THEN Over([base \in bases |-> Found(base)], s.data)
            ELSE Over([n \in {name} |-> [NoData EXCEPT !.index = s.index, !.existing = RecordAll(found)]], s.data)
    BY DEF LookUp
  <1>2. bases \subseteq Names BY InputsAssumption
  <1>3. \A base : NewDatum(Found(base))
    <2> SUFFICES ASSUME NEW base PROVE NewDatum(Found(base)) OBVIOUS
    <2> DEFINE d == Known(base)
               V == ({d.existing} \ {None}) \cup {input.existing[i].version : i \in Of(base)}
               p == Position(CHOOSE i \in Of(base) : \A k \in Of(base) : k <= i)
    <2>1. NewDatum(d) BY NoDataType DEF NewData
    <2>2. d.existing \in Versions \cup {None} BY <2>1 DEF NewDatum, DatumType
    <2>3. V \in SUBSET Versions
      <3>1. \A i \in Of(base) : input.existing[i].version \in Versions BY InputsAssumption
      <3> HIDE DEF Of, d
      <3> QED BY <2>2, <3>1
    <2>4. DOMAIN d = {"index", "existing", "hasSource", "source", "version", "error", "convert", "local"}
      BY <2>1 DEF NewDatum, DatumType, Fields
    <2>5. Found(base) = [d EXCEPT !.index = p, !.existing = Oldest(V)] OBVIOUS
    <2> HIDE DEF V, d, p, Found
    <2>6. Oldest(V) \in Versions \cup {None} BY <2>3, OldestType
    <2>7. NewDatum([d EXCEPT !.index = p, !.existing = Oldest(V)]) BY <2>1, <2>6, NewDatumWith
    <2> QED BY <2>5, <2>7
  <1>4. NewDatum([NoData EXCEPT !.index = s.index, !.existing = RecordAll(found)])
    <2>1. found \in SUBSET DOMAIN input.existing OBVIOUS
    <2> HIDE DEF found
    <2>2. RecordAll(found) \in Versions \cup {None} BY <2>1, RecordedType
    <2> QED BY <2>2, NoDataWith
  <1> HIDE DEF found, used, bases, Found
  <1>5. CASE used # {}
    <2>1. LookUp(s, name).data = Over([base \in bases |-> Found(base)], s.data) BY <1>1, <1>5
    <2> QED BY <2>1, <1>2, <1>3 DEF Over, NewData
  <1>6. CASE used = {}
    <2> DEFINE d == [NoData EXCEPT !.index = s.index, !.existing = RecordAll(found)]
    <2>1. LookUp(s, name).data = Over([n \in {name} |-> d], s.data) BY <1>1, <1>6
    <2>2. NewDatum(d) BY <1>4
    <2> HIDE DEF d
    <2> QED BY <2>1, <2>2 DEF Over, NewData
  <1> QED BY <1>5, <1>6

LEMMA Induction ==
    ASSUME NEW S, 0 \in S, \A n \in Nat : n \in S => n + 1 \in S
    PROVE  Nat \subseteq S
  <1> DEFINE T == {n \in Nat : n \notin S}
  <1> SUFFICES ASSUME T # {} PROVE FALSE OBVIOUS
  <1>1. PICK m \in T : \A k \in T : m <= k BY SmallestNumber
  <1>2. m \in Nat /\ m \notin S /\ m # 0 OBVIOUS
  <1>3. m - 1 \in Nat /\ m = (m - 1) + 1 BY <1>2
  <1>4. m - 1 \notin T
    <2> HIDE DEF T
    <2> SUFFICES ASSUME m - 1 \in T PROVE FALSE OBVIOUS
    <2> QED BY <1>1, <1>2
  <1>5. m - 1 \in S BY <1>3, <1>4
  <1> HIDE DEF T
  <1> QED BY <1>2, <1>3, <1>5

\* The first n names can be looked up one after the other.
LooksUp(n) == \E g : g = [k \in 0 .. n |-> IF k = 0 THEN [data |-> <<>>, index |-> 0]
                                         ELSE LookUp(g[k - 1], input.specified[k])]

LEMMA AllLookUps == \A n \in Nat : LooksUp(n)
  <1> DEFINE S == {n \in Nat : LooksUp(n)}
             First == [data |-> <<>>, index |-> 0]
  <1>1. 0 \in S
    <2> DEFINE g == [k \in 0 .. 0 |-> First]
    <2>1. g = [k \in 0 .. 0 |-> IF k = 0 THEN [data |-> <<>>, index |-> 0]
                                 ELSE LookUp(g[k - 1], input.specified[k])]
      OBVIOUS
    <2> QED BY <2>1 DEF LooksUp
  <1>2. ASSUME NEW n \in Nat, n \in S PROVE n + 1 \in S
    <2>1. PICK g : g = [k \in 0 .. n |-> IF k = 0 THEN [data |-> <<>>, index |-> 0]
                                          ELSE LookUp(g[k - 1], input.specified[k])]
      BY <1>2 DEF LooksUp
    <2> DEFINE h == [k \in 0 .. n + 1 |-> IF k = n + 1 THEN LookUp(g[n], input.specified[n + 1]) ELSE g[k]]
    <2>2. \A k \in 0 .. n : h[k] = g[k] OBVIOUS
    <2>3. \A k \in 0 .. n : g[k] = IF k = 0 THEN First ELSE LookUp(g[k - 1], input.specified[k])
      BY <2>1
    <2>4. h[n + 1] = LookUp(g[n], input.specified[n + 1]) OBVIOUS
    <2>5. \A k \in 0 .. n + 1 : h[k] = IF k = 0 THEN First ELSE LookUp(h[k - 1], input.specified[k])
      <3> SUFFICES ASSUME NEW k \in 0 .. n + 1
                   PROVE h[k] = IF k = 0 THEN First ELSE LookUp(h[k - 1], input.specified[k])
        OBVIOUS
      <3>1. CASE k = n + 1
        <4>1. k # 0 /\ k - 1 = n /\ h[n] = g[n] BY <3>1, <2>2
        <4> HIDE DEF h
        <4> QED BY <3>1, <4>1, <2>4
      <3>2. CASE k # n + 1 /\ k # 0
        <4>1. k \in 0 .. n /\ k - 1 \in 0 .. n BY <3>2
        <4> HIDE DEF h
        <4> QED BY <3>2, <4>1, <2>2, <2>3
      <3>3. CASE k = 0
        <4>1. k \in 0 .. n BY <3>3
        <4> HIDE DEF h
        <4> QED BY <3>3, <4>1, <2>2, <2>3
      <3> QED BY <3>1, <3>2, <3>3
    <2>6. h = [k \in 0 .. n + 1 |-> h[k]] OBVIOUS
    <2> HIDE DEF h
    <2>7. h = [k \in 0 .. n + 1 |-> IF k = 0 THEN [data |-> <<>>, index |-> 0]
                                     ELSE LookUp(h[k - 1], input.specified[k])]
      BY <2>5, <2>6
    <2> QED BY <2>7 DEF LooksUp
  <1> HIDE DEF S
  <1>3. Nat \subseteq S BY <1>1, <1>2, Induction
  <1> QED BY <1>3 DEF S

LEMMA LookedUpType ==
    ASSUME input \in Inputs
    PROVE  NewData(LookedUp[Len(input.specified)].data)
  <1> DEFINE last == Len(input.specified)
  <1>1. last \in Nat /\ \A k \in 1 .. last : input.specified[k] \in Names BY InputsAssumption
  <1>2. LookedUp = [k \in 0 .. last |-> IF k = 0 THEN [data |-> <<>>, index |-> 0]
                                        ELSE LookUp(LookedUp[k - 1], input.specified[k])]
    <2>1. LooksUp(last) BY <1>1, AllLookUps
    <2> HIDE DEF last
    <2>2. \E g : g = [k \in 0 .. last |-> IF k = 0 THEN [data |-> <<>>, index |-> 0]
                                          ELSE LookUp(g[k - 1], input.specified[k])]
      BY <2>1 DEF LooksUp
    <2> QED BY <2>2 DEF LookedUp, last
  <1> HIDE DEF last
  <1> DEFINE S == {n \in Nat : n <= last => NewData(LookedUp[n].data)}
  <1>3. 0 \in S
    <2>1. LookedUp[0] = [data |-> <<>>, index |-> 0] BY <1>1, <1>2
    <2> QED BY <2>1 DEF NewData
  <1>4. ASSUME NEW n \in Nat, n \in S PROVE n + 1 \in S
    <2> SUFFICES ASSUME n + 1 <= last PROVE NewData(LookedUp[n + 1].data) OBVIOUS
    <2>1. NewData(LookedUp[n].data) BY <1>1, <1>4
    <2>2. n + 1 \in 0 .. last /\ n + 1 # 0 /\ n + 1 - 1 = n /\ n + 1 \in 1 .. last BY <1>1
    <2>3. LookedUp[n + 1] = LookUp(LookedUp[n], input.specified[n + 1])
      <3>1. \A k \in 0 .. last : LookedUp[k] = IF k = 0 THEN [data |-> <<>>, index |-> 0]
                                              ELSE LookUp(LookedUp[k - 1], input.specified[k])
        BY <1>2
      <3> QED BY <2>2, <3>1
    <2>4. input.specified[n + 1] \in Names BY <1>1, <2>2
    <2> QED BY <2>1, <2>3, <2>4, LookUpType
  <1> HIDE DEF S
  <1>5. Nat \subseteq S BY <1>3, <1>4, Induction
  <1>6. last \in S BY <1>1, <1>5
  <1> QED BY <1>1, <1>6 DEF S, last
-----------------------------------------------------------------------------
(* What steps of a round do                                                *)

LEMMA NothingHasNoDomain == DOMAIN <<>> = {}
  OBVIOUS

\* What looking at a name leads to.
LEMMA Answered ==
    ASSUME NEW n, NEW r, ThenFor(n, Answer(r))
    PROVE  /\ DOMAIN responses' = DOMAIN responses \cup {n} /\ responses'[n] = r
           /\ \A m \in DOMAIN responses \ {n} : responses'[m] = responses[m]
           /\ DOMAIN pending' = DOMAIN pending \ {n}
           /\ \A m \in DOMAIN pending \ {n} : pending'[m] = pending[m]
  <1>1. (CHOOSE s \in {r} : TRUE) = r OBVIOUS
  <1>2. Answer(r).responses = {r} /\ Answer(r).processes = {} BY DEF Answer
  <1>3. responses' = Over([m \in {n} |-> r], responses) BY <1>1, <1>2 DEF ThenFor
  <1>4. pending' = [m \in DOMAIN pending \ {n} |-> pending[m]] BY <1>2 DEF ThenFor
  <1> QED BY <1>3, <1>4 DEF Over

LEMMA Awaited ==
    ASSUME NEW n, NEW p, ThenFor(n, Await(p))
    PROVE  /\ responses' = responses
           /\ DOMAIN pending' = DOMAIN pending \cup {n} /\ pending'[n] = p
           /\ \A m \in DOMAIN pending \ {n} : pending'[m] = pending[m]
  <1>1. (CHOOSE s \in {p} : TRUE) = p OBVIOUS
  <1>2. Await(p).responses = {} /\ Await(p).processes = {p} BY DEF Await
  <1>3. pending' = Over([m \in {n} |-> p], pending) BY <1>1, <1>2 DEF ThenFor
  <1>4. responses' = responses BY <1>2 DEF ThenFor
  <1> QED BY <1>3, <1>4 DEF Over

LEMMA Dropped ==
    ASSUME NEW n, ThenFor(n, NoAnswer)
    PROVE  /\ responses' = responses
           /\ DOMAIN pending' = DOMAIN pending \ {n}
           /\ \A m \in DOMAIN pending \ {n} : pending'[m] = pending[m]
  BY DEF ThenFor, NoAnswer

\* The others keep their responses and processes.
Elsewhere(n) ==
    /\ \A m \in DOMAIN responses \cup DOMAIN responses' : m # n =>
          m \in DOMAIN responses /\ m \in DOMAIN responses' /\ responses'[m] = responses[m]
    /\ \A m \in DOMAIN pending \cup DOMAIN pending' : m # n =>
          m \in DOMAIN pending /\ m \in DOMAIN pending' /\ pending'[m] = pending[m]

\* The name has been answered, is waited for, or has been dropped.
IsAnswered(n) ==
    /\ Elsewhere(n) /\ n \notin DOMAIN pending' /\ n \in DOMAIN responses'
    /\ ResponseType(responses'[n])
    /\ responses'[n].source # None => dirs'[n].pkgbuild # None
IsAwaited(n) ==
    /\ Elsewhere(n) /\ n \in DOMAIN pending' /\ n \notin DOMAIN responses'
    /\ ProcessType(pending'[n])
IsDropped(n) ==
    /\ Elsewhere(n) /\ n \notin DOMAIN pending' /\ n \notin DOMAIN responses'
    /\ isAborted

LEMMA AnsweredFor ==
    ASSUME NEW n, NEW r, ThenFor(n, Answer(r)), ResponseType(r),
           r.source # None => dirs'[n].pkgbuild # None
    PROVE  IsAnswered(n)
  <1>1. /\ DOMAIN responses' = DOMAIN responses \cup {n} /\ responses'[n] = r
        /\ \A m \in DOMAIN responses \ {n} : responses'[m] = responses[m]
        /\ DOMAIN pending' = DOMAIN pending \ {n}
        /\ \A m \in DOMAIN pending \ {n} : pending'[m] = pending[m]
    BY Answered
  <1>2. Elsewhere(n) BY <1>1 DEF Elsewhere
  <1> QED BY <1>1, <1>2 DEF IsAnswered

LEMMA AwaitedFor ==
    ASSUME NEW n, NEW p, n \notin DOMAIN responses, ThenFor(n, Await(p)), ProcessType(p)
    PROVE  IsAwaited(n)
  <1>1. /\ responses' = responses
        /\ DOMAIN pending' = DOMAIN pending \cup {n} /\ pending'[n] = p
        /\ \A m \in DOMAIN pending \ {n} : pending'[m] = pending[m]
    BY Awaited
  <1>2. Elsewhere(n) BY <1>1 DEF Elsewhere
  <1> QED BY <1>1, <1>2 DEF IsAwaited

LEMMA DroppedFor ==
    ASSUME NEW n, n \notin DOMAIN responses, ThenFor(n, NoAnswer), isAborted
    PROVE  IsDropped(n)
  <1>1. /\ responses' = responses
        /\ DOMAIN pending' = DOMAIN pending \ {n}
        /\ \A m \in DOMAIN pending \ {n} : pending'[m] = pending[m]
    BY Dropped
  <1>2. Elsewhere(n) BY <1>1 DEF Elsewhere
  <1> QED BY <1>1, <1>2 DEF IsDropped

LEMMA FailedType == ResponseType(Failed) /\ Failed.source = None
  BY DEF ResponseType, Failed, Response

LEMMA NotFoundType == ResponseType(NotFound) /\ NotFound.source = None
  BY DEF ResponseType, NotFound, Failed, Response

LEMMA SourcesType ==
    ASSUME NEW s \in Origins \cup {None}
    PROVE  ResponseType(Sources(s)) /\ Sources(s).source = s
  BY DEF ResponseType, Sources, Response

LEMMA SrcInfoType == ProcessType(SrcInfo)
  BY DEF ProcessType, SrcInfo

\* makepkg is run for the source information unless the directory is from the AUR.
LEMMA SrcInfoFor ==
    ASSUME NEW n, NEW dir, n \notin DOMAIN responses, ThenFor(n, MakeSrcInfo(dir))
    PROVE  IsAnswered(n) \/ IsAwaited(n)
  BY AnsweredFor, AwaitedFor, FailedType, SrcInfoType DEF MakeSrcInfo

\* The build data of a name whose sources are being looked for.
SameButSource(d, e) ==
    /\ DatumType(e)
    /\ e.source = d.source /\ e.version = d.version /\ e.existing = d.existing
    /\ e.error = d.error /\ e.convert = d.convert

\* Every step within a round is about one name that has no sources yet.
RoundStep(n) ==
    /\ pc = "fetch" /\ UNCHANGED <<input, pc, outcome, control, ordering>>
    /\ n \in DOMAIN data /\ data[n].source = None
    /\ DOMAIN data' = DOMAIN data
    /\ \A m \in DOMAIN data : m # n => data'[m] = data[m]
    /\ SameButSource(data[n], data'[n])
    /\ dirs' \in [Names -> Directories]
    /\ \A m \in Names : m # n => dirs'[m] = dirs[m]
    /\ originals' \subseteq Names /\ cleaned' \subseteq Names /\ newer' \subseteq Names
    /\ todo' = todo \ {n}
    /\ \/ IsAnswered(n) \/ IsAwaited(n)
       \/ IsDropped(n) /\ (data'[n].hasSource => data'[n].convert)

\* Whatever is in the build list or given remains so as long as nothing loses its
\* sources.
LEMMA CoveredKept ==
    ASSUME input' = input, DOMAIN data \subseteq DOMAIN data',
           \A m \in DOMAIN data : data[m].source # None => data'[m].source = data[m].source,
           NEW n \in DOMAIN data, data[n].source # None, Covered(n)
    PROVE  Covered(n)'
  <1> SUFFICES ASSUME NEW d \in (Recipe(n).make \cup Recipe(n).deps)'
               PROVE  InBuildList(data, d)' \/ Given(d)'
    BY DEF Covered
  <1>1. d \in Recipe(n).make \cup Recipe(n).deps BY DEF Recipe
  <1>2. CASE Given(d) BY <1>2 DEF Given, ExistingOffers, Relevant, Required
  <1>3. CASE InBuildList(data, d)
    <2>1. CASE d.name \in DOMAIN data BY <2>1 DEF InBuildList
    <2>2. CASE d.name \notin DOMAIN data
      <3>1. PICK m \in DOMAIN data :
                /\ data[m].source # None
                /\ Offers(data[m].source.of, data[m].source.version,
                          input.recipes[data[m].source.of].provides, d)
        BY <1>3, <2>2 DEF InBuildList
      <3>2. m \in DOMAIN data' /\ data'[m].source = data[m].source BY <3>1
      <3> QED BY <3>1, <3>2 DEF InBuildList
    <2> QED BY <2>1, <2>2
  <1> QED BY <1>1, <1>2, <1>3 DEF Covered


\* A step of a round keeps the invariant.
LEMMA RoundStepIInv ==
    ASSUME PrepareIInv, NEW n, RoundStep(n) PROVE PrepareIInv'
  <1> USE DEF PrepareIInv
  <1>1. /\ pc = "fetch" /\ pc' = "fetch" /\ input' = input /\ isAborted' = isAborted
        /\ made' = made /\ result' = result
        /\ n \in DOMAIN data /\ data[n].source = None /\ DOMAIN data' = DOMAIN data
        /\ \A m \in DOMAIN data : m # n => data'[m] = data[m]
        /\ SameButSource(data[n], data'[n])
        /\ dirs' \in [Names -> Directories]
        /\ \A m \in Names : m # n => dirs'[m] = dirs[m]
        /\ originals' \subseteq Names /\ cleaned' \subseteq Names /\ newer' \subseteq Names
        /\ todo' = todo \ {n}
    BY DEF RoundStep, outcome, control
  <1>2. \/ IsAnswered(n) \/ IsAwaited(n)
        \/ IsDropped(n) /\ (data'[n].hasSource => data'[n].convert)
    BY DEF RoundStep
  <1>3. \A m \in DOMAIN data : data'[m].source = data[m].source
    BY <1>1 DEF SameButSource
  <1>4. \A m \in DOMAIN data : data'[m].version = None /\ data[m].version = None
    <2>1. \A m \in DOMAIN data : data[m].version = None
      BY <1>1 DEF Datum, Versioned, Unversioned
    <2> QED BY <2>1, <1>1 DEF SameButSource
  <1>5. \A m \in DOMAIN data : data'[m].convert = data[m].convert /\ data'[m].error = data[m].error
    BY <1>1 DEF SameButSource
  <1>6. Elsewhere(n) BY <1>2 DEF IsAnswered, IsAwaited, IsDropped
  <1>7. Types'
    <2>1. /\ DOMAIN data' \subseteq Names /\ todo' \subseteq DOMAIN data'
          /\ \A m \in DOMAIN data' : DatumType(data'[m])
      BY <1>1 DEF Types, SameButSource
    <2>2. DOMAIN pending' \subseteq DOMAIN data' /\ DOMAIN responses' \subseteq DOMAIN data'
      BY <1>1, <1>6 DEF Types, Elsewhere
    <2>3. todo' \cap DOMAIN pending' = {} /\ todo' \cap DOMAIN responses' = {}
      BY <1>1, <1>6 DEF Types, Elsewhere
    <2>4. DOMAIN pending' \cap DOMAIN responses' = {}
      BY <1>1, <1>2, <1>6 DEF Types, Elsewhere, IsAnswered, IsAwaited, IsDropped
    <2>5. \A m \in DOMAIN pending' : ProcessType(pending'[m])
      BY <1>2, <1>6 DEF Types, Elsewhere, IsAnswered, IsAwaited, IsDropped
    <2>6. \A m \in DOMAIN responses' : ResponseType(responses'[m])
      BY <1>2, <1>6 DEF Types, Elsewhere, IsAnswered, IsAwaited, IsDropped
    <2> QED BY <1>1, <2>1, <2>2, <2>3, <2>4, <2>5, <2>6 DEF Types
  <1>8. ASSUME NEW m \in DOMAIN data' PROVE Datum(m)'
    <2>1. m \in DOMAIN data /\ m \in Names BY <1>1 DEF Types
    <2>2. Datum(m) BY <2>1
    <2>3. Sourced(m)'
      <3>1. CASE m = n BY <3>1, <1>1, <1>3 DEF Sourced
      <3>2. CASE m # n BY <3>2, <2>1, <2>2, <1>1 DEF Datum, Sourced
      <3> QED BY <3>1, <3>2
    <2>4. Configured(m)' BY <2>1, <2>2, <1>1, <1>5 DEF Datum, Configured, Convertible
    <2>5. Versioned(m)' BY <2>1, <1>4 DEF Versioned
    <2>6. Covered(m)'
      <3>1. CASE data[m].source = None BY <3>1, <2>1, <1>3 DEF Covered
      <3>2. CASE data[m].source # None
        BY <3>2, <2>1, <2>2, <1>1, <1>3, CoveredKept DEF Datum
      <3> QED BY <3>1, <3>2
    <2> QED BY <2>3, <2>4, <2>5, <2>6 DEF Datum
  <1>9. ASSUME NEW m \in DOMAIN data' PROVE Stage(m)'
    <2>1. m \in DOMAIN data /\ m \in Names BY <1>1 DEF Types
    <2>2. Stage(m) BY <2>1, <1>1 DEF Stages
    <2>3. CASE m # n
      <3>1. data'[m] = data[m] /\ dirs'[m] = dirs[m] BY <2>1, <2>3, <1>1
      <3>2. /\ m \in todo' <=> m \in todo
            /\ m \in DOMAIN pending' <=> m \in DOMAIN pending
            /\ m \in DOMAIN responses' <=> m \in DOMAIN responses
            /\ m \in DOMAIN responses => responses'[m] = responses[m]
        BY <2>3, <1>1, <1>6 DEF Elsewhere
      <3>3. Skippable(m)' <=> Skippable(m) BY <3>1 DEF Skippable
      <3> QED BY <2>2, <3>1, <3>2, <3>3, <1>1 DEF Stage, Underway
    <2>4. CASE m = n
      <3>1. data'[n].error = "" /\ data'[n].source = None
        BY <2>2, <2>4, <1>1, <1>3, <1>5 DEF Stage
      <3>2. n \notin todo' BY <1>1
      <3>3. CASE IsAnswered(n)
        BY <2>4, <3>1, <3>2, <3>3 DEF Stage, Underway, IsAnswered
      <3>4. CASE IsAwaited(n)
        BY <2>4, <3>1, <3>2, <3>4 DEF Stage, Underway, IsAwaited
      <3>5. CASE IsDropped(n) /\ (data'[n].hasSource => data'[n].convert)
        BY <2>4, <3>1, <3>2, <3>5, <1>1 DEF Stage, Underway, IsDropped
      <3> QED BY <3>3, <3>4, <3>5, <1>2
    <2> QED BY <2>3, <2>4
  <1>10. Stages' BY <1>1, <1>9 DEF Stages
  <1>11. StartedOver' BY <1>1 DEF StartedOver
  <1> QED BY <1>7, <1>8, <1>10, <1>11

\* Directories and what is changed of them.
LEMMA EmptyDirectory == NoDir \in Directories /\ [NoDir EXCEPT !.exists = TRUE] \in Directories
  BY DEF NoDir, Directories

LEMMA ExistingDirectory ==
    ASSUME NEW d \in Directories, NEW e \in BOOLEAN PROVE [d EXCEPT !.exists = e] \in Directories
  BY DEF Directories

LEMMA FilledDirectory ==
    ASSUME NEW d \in Directories, NEW s \in Origins, NEW i \in Origins \cup {None}
    PROVE  LET e == [d EXCEPT !.exists = TRUE, !.pkgbuild = s, !.info = i, !.stale = FALSE]
           IN  e \in Directories /\ e.pkgbuild # None
  BY NamesAssumption DEF Directories

LEMMA DirectoryChanged ==
    ASSUME Types, NEW n \in Names, NEW d \in Directories, dirs' = [dirs EXCEPT ![n] = d]
    PROVE  /\ dirs' \in [Names -> Directories] /\ dirs'[n] = d
           /\ \A m \in Names : m # n => dirs'[m] = dirs[m]
  BY DEF Types

\* The recipe a source is of has a version.
LEMMA SourceOfType == ASSUME Types, NEW n \in Names PROVE SourceOf(n) \in Origins
  BY InputsAssumption DEF Types, SourceOf, Origins

\* What holds of a name that is looked at.
LEMMA LookedAt ==
    ASSUME PrepareIInv, pc = "fetch", NEW n \in todo, ~Skippable(n)
    PROVE  /\ n \in DOMAIN data /\ n \in Names /\ data[n].source = None /\ data[n].error = ""
           /\ n \notin DOMAIN pending /\ n \notin DOMAIN responses
           /\ DatumType(data[n]) /\ dirs[n] \in Directories
           /\ data[n].hasSource => data[n].convert /\ dirs[n].pkgbuild # None
           /\ LookupName(n) \in Names
  <1> USE DEF PrepareIInv
  <1>1. /\ n \in DOMAIN data /\ n \in Names /\ DatumType(data[n]) /\ dirs[n] \in Directories
        /\ n \notin DOMAIN pending /\ n \notin DOMAIN responses
    BY DEF Types
  <1>2. Stage(n) /\ Datum(n) BY <1>1 DEF Stages
  <1>3. data[n].error = "" BY <1>2 DEF Stage
  <1>4. data[n].source = None
    <2>1. CASE data[n].hasSource BY <2>1, <1>3 DEF Skippable
    <2>2. CASE ~data[n].hasSource BY <2>2, <1>2 DEF Datum, Sourced
    <2> QED BY <2>1, <2>2
  <1>5. data[n].hasSource => data[n].convert /\ dirs[n].pkgbuild # None
    BY <1>1, <1>2, <1>4 DEF Stage, Underway
  <1>6. LookupName(n) \in Names
    <2>1. CASE data[n].convert
      <3>1. n \in DOMAIN input.convertSource BY <2>1, <1>2 DEF Datum, Configured, Convertible
      <3>2. input \in Inputs BY DEF Types
      <3> QED BY <2>1, <3>1, <3>2, InputsAssumption DEF LookupName
    <2>2. CASE ~data[n].convert BY <2>2, <1>1 DEF LookupName
    <2> QED BY <2>1, <2>2
  <1> QED BY <1>1, <1>3, <1>4, <1>5, <1>6

LEMMA InvokeConversionIInv == ASSUME PrepareIInv, InvokeConversion PROVE PrepareIInv'
  <1>1. PICK n \in todo :
            /\ ~Skippable(n) /\ data[n].hasSource
            /\ todo' = todo \ {n}
            /\ \/ /\ originals' = originals \cup {n}
                  /\ dirs' = [dirs EXCEPT ![n] = [NoDir EXCEPT !.exists = TRUE]]
                  /\ ThenFor(n, IF isAborted THEN NoAnswer
                                ELSE Await([kind |-> "convert", from |-> dirs[n].pkgbuild]))
               \/ UNCHANGED <<dirs, originals>> /\ ThenFor(n, Answer(Failed))
    BY DEF InvokeConversion
  <1>2. pc = "fetch" /\ UNCHANGED <<data, cleaned, newer>> /\ FetchFrame BY DEF InvokeConversion
  <1>3. /\ n \in DOMAIN data /\ n \in Names /\ data[n].source = None /\ data[n].error = ""
        /\ n \notin DOMAIN pending /\ n \notin DOMAIN responses
        /\ DatumType(data[n]) /\ dirs[n] \in Directories
        /\ data[n].convert /\ dirs[n].pkgbuild # None
    BY <1>1, <1>2, LookedAt
  <1>4. Types BY DEF PrepareIInv
  <1>5. dirs' \in [Names -> Directories] /\ \A m \in Names : m # n => dirs'[m] = dirs[m]
    <2>1. CASE UNCHANGED dirs BY <2>1, <1>4 DEF Types
    <2>2. CASE dirs' = [dirs EXCEPT ![n] = [NoDir EXCEPT !.exists = TRUE]]
      BY <2>2, <1>3, <1>4, EmptyDirectory, DirectoryChanged
    <2> QED BY <2>1, <2>2, <1>1
  <1>6. originals' \subseteq Names BY <1>1, <1>3, <1>4 DEF Types
  <1>7. \/ IsAnswered(n) \/ IsAwaited(n) \/ IsDropped(n)
    <2>1. CASE ThenFor(n, Answer(Failed)) BY <2>1, AnsweredFor, FailedType
    <2>2. CASE isAborted /\ ThenFor(n, NoAnswer) BY <2>2, <1>3, DroppedFor
    <2>3. CASE ThenFor(n, Await([kind |-> "convert", from |-> dirs[n].pkgbuild]))
      <3>1. dirs[n].pkgbuild \in Origins BY <1>3 DEF Directories
      <3>2. ProcessType([kind |-> "convert", from |-> dirs[n].pkgbuild])
        BY <3>1 DEF ProcessType
      <3> QED BY <2>3, <3>2, <1>3, AwaitedFor
    <2> QED BY <2>1, <2>2, <2>3, <1>1
  <1>8. RoundStep(n)
    BY <1>1, <1>2, <1>3, <1>4, <1>5, <1>6, <1>7 DEF RoundStep, FetchFrame, SameButSource, Types
  <1> QED BY <1>8, RoundStepIInv

LEMMA UseExistingIInv == ASSUME PrepareIInv, UseExisting PROVE PrepareIInv'
  <1>1. PICK n \in todo :
            LET dir == dirs[n]
                regenerate == dir.info = None \/ (dir.stale /\ ~dir.aur)
            IN  /\ ~Skippable(n) /\ ~data[n].hasSource
                /\ todo' = todo \ {n}
                /\ data' = [data EXCEPT ![n].hasSource = dir.pkgbuild # None]
                /\ ThenFor(n, IF dir.pkgbuild = None THEN Answer(Failed)
                              ELSE IF regenerate THEN MakeSrcInfo(dir)
                              ELSE Answer(Sources(dir.info)))
    BY DEF UseExisting
  <1>2. pc = "fetch" /\ UNCHANGED disk /\ FetchFrame BY DEF UseExisting
  <1>3. /\ n \in DOMAIN data /\ n \in Names /\ data[n].source = None /\ data[n].error = ""
        /\ n \notin DOMAIN pending /\ n \notin DOMAIN responses
        /\ DatumType(data[n]) /\ dirs[n] \in Directories
    BY <1>1, <1>2, LookedAt
  <1>4. Types BY DEF PrepareIInv
  <1>5. /\ DOMAIN data' = DOMAIN data /\ \A m \in DOMAIN data : m # n => data'[m] = data[m]
        /\ data'[n] = [data[n] EXCEPT !.hasSource = dirs[n].pkgbuild # None]
    BY <1>1, <1>3
  <1>6. SameButSource(data[n], data'[n]) BY <1>3, <1>5 DEF SameButSource, DatumType, Fields
  <1>7. IsAnswered(n) \/ IsAwaited(n)
    <2>1. CASE ThenFor(n, Answer(Failed)) BY <2>1, AnsweredFor, FailedType
    <2>2. CASE ThenFor(n, MakeSrcInfo(dirs[n])) BY <2>2, <1>3, SrcInfoFor
    <2>3. CASE ThenFor(n, Answer(Sources(dirs[n].info))) /\ dirs[n].pkgbuild # None
      <3>1. dirs[n].info \in Origins \cup {None} BY <1>3 DEF Directories
      <3>2. ResponseType(Sources(dirs[n].info)) BY <3>1, SourcesType
      <3>3. dirs'[n].pkgbuild # None BY <2>3, <1>2 DEF disk
      <3> QED BY <2>3, <3>2, <3>3, AnsweredFor
    <2> QED BY <2>1, <2>2, <2>3, <1>1
  <1>8. RoundStep(n)
    BY <1>1, <1>2, <1>3, <1>4, <1>5, <1>6, <1>7 DEF RoundStep, FetchFrame, disk, Types
  <1> QED BY <1>8, RoundStepIInv

\* What UseExisting and Obtain change of the build data.
LEMMA DatumChanged ==
    ASSUME NEW n \in DOMAIN data, DatumType(data[n]), NEW e, NEW l, NEW h \in BOOLEAN,
           e = [data[n] EXCEPT !.local = l] \/ e = [data[n] EXCEPT !.local = l, !.hasSource = h],
           data' = [data EXCEPT ![n] = e]
    PROVE  /\ DOMAIN data' = DOMAIN data /\ \A m \in DOMAIN data : m # n => data'[m] = data[m]
           /\ SameButSource(data[n], data'[n])
           /\ data'[n].hasSource = data[n].hasSource \/ data'[n].hasSource = h
  <1>1. /\ DOMAIN data' = DOMAIN data /\ \A m \in DOMAIN data : m # n => data'[m] = data[m]
        /\ data'[n] = e
    OBVIOUS
  <1>2. SameButSource(data[n], e) /\ (e.hasSource = data[n].hasSource \/ e.hasSource = h)
    <2>1. CASE e = [data[n] EXCEPT !.local = l] BY <2>1 DEF SameButSource, DatumType, Fields
    <2>2. CASE e = [data[n] EXCEPT !.local = l, !.hasSource = h]
      BY <2>2 DEF SameButSource, DatumType, Fields
    <2> QED BY <2>1, <2>2
  <1> QED BY <1>1, <1>2

LEMMA ObtainIInv == ASSUME PrepareIInv, Obtain PROVE PrepareIInv'
  <1>1. PICK n \in todo :
            LET before == IF Cleaning(n) THEN NoDir ELSE dirs[n]
                With(source, info) == [before EXCEPT !.exists = TRUE, !.pkgbuild = source,
                                                     !.info = info, !.stale = FALSE]
            IN  /\ ~Skippable(n) /\ ~data[n].hasSource
                /\ todo' = todo \ {n}
                /\ cleaned' = cleaned \cup {m \in {n} : Cleaning(n)}
                /\ \/ /\ dirs' = [dirs EXCEPT ![n] = With(SourceOf(LookupName(n)), None)]
                      /\ data' = [data EXCEPT ![n].local = TRUE, ![n].hasSource = TRUE]
                      /\ newer' = newer \cup {n}
                      /\ ThenFor(n, MakeSrcInfo(before))
                   \/ /\ MayUsePackage(n)
                      /\ LET source == [of |-> LookupName(n), version |-> Candidate(n)]
                         IN  \/ /\ dirs' = [dirs EXCEPT ![n] = With(source, source)]
                                /\ ThenFor(n, Answer(Sources(source)))
                             \/ /\ dirs' = [dirs EXCEPT ![n] = With(source, None)]
                                /\ ThenFor(n, MakeSrcInfo(before))
                      /\ data' = [data EXCEPT ![n].local = FALSE, ![n].hasSource = TRUE]
                      /\ newer' \in {newer, newer \cup {n}}
                   \/ /\ dirs' = [dirs EXCEPT ![n] = [before EXCEPT !.exists = @ \/ input.script]]
                      /\ data' = [data EXCEPT ![n].local = FALSE]
                      /\ ThenFor(n, IF Flag("localOnly") THEN Answer(Response(None, "skipped"))
                                    ELSE IF input.script /\ isAborted THEN NoAnswer
                                    ELSE Query(n))
                      /\ UNCHANGED newer
                   \/ /\ dirs' = [dirs EXCEPT ![n] = before]
                      /\ data' = [data EXCEPT ![n].local = FALSE]
                      /\ ThenFor(n, Answer(Failed))
                      /\ UNCHANGED newer
    BY DEF Obtain
  <1>2. pc = "fetch" /\ UNCHANGED originals /\ FetchFrame BY DEF Obtain
  <1>3. /\ n \in DOMAIN data /\ n \in Names /\ data[n].source = None /\ data[n].error = ""
        /\ n \notin DOMAIN pending /\ n \notin DOMAIN responses
        /\ DatumType(data[n]) /\ dirs[n] \in Directories /\ LookupName(n) \in Names
        /\ ~data[n].hasSource
    BY <1>1, <1>2, LookedAt
  <1>4. Types BY DEF PrepareIInv
  <1> DEFINE before == IF Cleaning(n) THEN NoDir ELSE dirs[n]
             With(source, info) == [before EXCEPT !.exists = TRUE, !.pkgbuild = source,
                                                  !.info = info, !.stale = FALSE]
  <1>5. before \in Directories BY <1>3, EmptyDirectory
  <1>6. /\ cleaned' \subseteq Names /\ newer' \subseteq Names /\ originals' \subseteq Names
        /\ todo' = todo \ {n}
    BY <1>1, <1>2, <1>3, <1>4 DEF Types
  <1>7. /\ DOMAIN data' = DOMAIN data /\ \A m \in DOMAIN data : m # n => data'[m] = data[m]
        /\ SameButSource(data[n], data'[n])
    <2>1. CASE data' = [data EXCEPT ![n].local = TRUE, ![n].hasSource = TRUE]
      <3>1. data' = [data EXCEPT ![n] = [data[n] EXCEPT !.local = TRUE, !.hasSource = TRUE]]
        BY <2>1, <1>3
      <3> QED BY <3>1, <1>3, DatumChanged
    <2>2. CASE data' = [data EXCEPT ![n].local = FALSE, ![n].hasSource = TRUE]
      <3>1. data' = [data EXCEPT ![n] = [data[n] EXCEPT !.local = FALSE, !.hasSource = TRUE]]
        BY <2>2, <1>3
      <3> QED BY <3>1, <1>3, DatumChanged
    <2>3. CASE data' = [data EXCEPT ![n].local = FALSE]
      <3>1. data' = [data EXCEPT ![n] = [data[n] EXCEPT !.local = FALSE]] BY <2>3, <1>3
      <3> QED BY <3>1, <1>3, DatumChanged
    <2> QED BY <2>1, <2>2, <2>3, <1>1
  <1>8. /\ dirs' \in [Names -> Directories] /\ \A m \in Names : m # n => dirs'[m] = dirs[m]
        /\ \/ IsAnswered(n) \/ IsAwaited(n)
           \/ IsDropped(n) /\ (data'[n].hasSource => data'[n].convert)
    <2>1. ASSUME NEW s \in Origins, NEW i \in Origins \cup {None},
                 dirs' = [dirs EXCEPT ![n] = With(s, i)]
          PROVE  /\ dirs' \in [Names -> Directories] /\ \A m \in Names : m # n => dirs'[m] = dirs[m]
                 /\ dirs'[n].pkgbuild # None
      <3>1. With(s, i) \in Directories /\ With(s, i).pkgbuild # None
        BY <1>5, FilledDirectory
      <3> HIDE DEF With
      <3> QED BY <2>1, <3>1, <1>3, <1>4, DirectoryChanged
    <2>2. CASE /\ dirs' = [dirs EXCEPT ![n] = With(SourceOf(LookupName(n)), None)]
               /\ ThenFor(n, MakeSrcInfo(before))
      <3>1. SourceOf(LookupName(n)) \in Origins BY <1>3, <1>4, SourceOfType
      <3>2. IsAnswered(n) \/ IsAwaited(n) BY <2>2, <1>3, SrcInfoFor
      <3> HIDE DEF With
      <3> QED BY <2>1, <2>2, <3>1, <3>2
    <2>3. CASE /\ MayUsePackage(n)
               /\ LET source == [of |-> LookupName(n), version |-> Candidate(n)]
                  IN  \/ /\ dirs' = [dirs EXCEPT ![n] = With(source, source)]
                         /\ ThenFor(n, Answer(Sources(source)))
                      \/ /\ dirs' = [dirs EXCEPT ![n] = With(source, None)]
                         /\ ThenFor(n, MakeSrcInfo(before))
      <3> DEFINE source == [of |-> LookupName(n), version |-> Candidate(n)]
      <3>1. Candidate(n) \in Versions BY <2>3, <1>3, <1>4, CandidateType
      <3>2. source \in Origins BY <3>1, <1>3 DEF Origins
      <3>3. \/ dirs' = [dirs EXCEPT ![n] = With(source, source)] /\ ThenFor(n, Answer(Sources(source)))
            \/ dirs' = [dirs EXCEPT ![n] = With(source, None)] /\ ThenFor(n, MakeSrcInfo(before))
        BY <2>3
      <3> HIDE DEF With, source
      <3>4. CASE dirs' = [dirs EXCEPT ![n] = With(source, source)] /\ ThenFor(n, Answer(Sources(source)))
        <4>1. ResponseType(Sources(source)) BY <3>2, SourcesType
        <4>2. /\ dirs' \in [Names -> Directories] /\ \A m \in Names : m # n => dirs'[m] = dirs[m]
              /\ dirs'[n].pkgbuild # None
          BY <2>1, <3>2, <3>4
        <4>3. IsAnswered(n) BY <3>4, <4>1, <4>2, AnsweredFor
        <4> QED BY <4>2, <4>3
      <3>5. CASE dirs' = [dirs EXCEPT ![n] = With(source, None)] /\ ThenFor(n, MakeSrcInfo(before))
        <4>1. IsAnswered(n) \/ IsAwaited(n) BY <3>5, <1>3, SrcInfoFor
        <4> QED BY <2>1, <3>2, <3>5, <4>1
      <3> QED BY <3>3, <3>4, <3>5
    <2>4. CASE /\ dirs' = [dirs EXCEPT ![n] = [before EXCEPT !.exists = @ \/ input.script]]
               /\ data' = [data EXCEPT ![n].local = FALSE]
               /\ ThenFor(n, IF Flag("localOnly") THEN Answer(Response(None, "skipped"))
                             ELSE IF input.script /\ isAborted THEN NoAnswer
                             ELSE Query(n))
      <3>1. dirs' \in [Names -> Directories] /\ \A m \in Names : m # n => dirs'[m] = dirs[m]
        <4>1. PICK e \in BOOLEAN : e = (before.exists \/ input.script) OBVIOUS
        <4>2. dirs' = [dirs EXCEPT ![n] = [before EXCEPT !.exists = e]] BY <2>4, <4>1
        <4>3. [before EXCEPT !.exists = e] \in Directories BY <1>5, ExistingDirectory
        <4> HIDE DEF before
        <4> QED BY <4>2, <4>3, <1>3, <1>4, DirectoryChanged
      <3>2. CASE ThenFor(n, Answer(Response(None, "skipped")))
        <4>1. ResponseType(Response(None, "skipped")) /\ Response(None, "skipped").source = None
          BY DEF ResponseType, Response
        <4> QED BY <3>1, <3>2, <4>1, AnsweredFor
      <3>3. CASE isAborted /\ ThenFor(n, NoAnswer)
        <4>1. ~data'[n].hasSource
          <5>1. data'[n] = [data[n] EXCEPT !.local = FALSE] BY <2>4, <1>3
          <5> QED BY <5>1, <1>3 DEF DatumType, Fields
        <4> QED BY <3>1, <3>3, <4>1, <1>3, DroppedFor
      <3>4. CASE ThenFor(n, Query(n))
        <4> DEFINE p == [kind |-> IF input.script THEN "script"
                                  ELSE IF Flag("official") THEN "official" ELSE "aur",
                         retries |-> Retries]
        <4>1. ProcessType(p) BY RetriesAssumption DEF ProcessType
        <4>2. ThenFor(n, Await(p)) BY <3>4 DEF Query
        <4> HIDE DEF p
        <4> QED BY <3>1, <4>1, <4>2, <1>3, AwaitedFor
      <3> QED BY <2>4, <3>2, <3>3, <3>4
    <2>5. CASE dirs' = [dirs EXCEPT ![n] = before] /\ ThenFor(n, Answer(Failed))
      <3>1. IsAnswered(n) BY <2>5, AnsweredFor, FailedType
      <3> HIDE DEF before
      <3> QED BY <2>5, <3>1, <1>3, <1>4, <1>5, DirectoryChanged
    <2> QED BY <2>2, <2>3, <2>4, <2>5, <1>1
  <1>9. RoundStep(n)
    BY <1>2, <1>3, <1>6, <1>7, <1>8 DEF RoundStep, FetchFrame
  <1> QED BY <1>9, RoundStepIInv

\* What holds of a name that is waited for.
LEMMA WaitedFor ==
    ASSUME PrepareIInv, NEW n \in DOMAIN pending, AsyncFrame
    PROVE  /\ pc = "fetch" /\ n \in DOMAIN data /\ n \in Names /\ data[n].source = None
           /\ n \notin DOMAIN responses /\ todo' = todo \ {n}
           /\ dirs[n] \in Directories /\ ProcessType(pending[n]) /\ LookupName(n) \in Names
  <1> USE DEF PrepareIInv
  <1>1. /\ n \in DOMAIN data /\ n \in Names /\ dirs[n] \in Directories
        /\ n \notin todo /\ n \notin DOMAIN responses /\ ProcessType(pending[n])
    BY DEF Types
  <1>2. pc = "fetch" BY DEF Stages
  <1>3. Stage(n) /\ Datum(n) BY <1>1, <1>2 DEF Stages
  <1>4. data[n].source = None BY <1>3 DEF Stage, Underway
  <1>5. todo' = todo \ {n} BY <1>1 DEF AsyncFrame
  <1>6. LookupName(n) \in Names
    <2>1. CASE data[n].convert
      <3>1. n \in DOMAIN input.convertSource BY <2>1, <1>3 DEF Datum, Configured, Convertible
      <3>2. input \in Inputs BY DEF Types
      <3> QED BY <2>1, <3>1, <3>2, InputsAssumption DEF LookupName
    <2>2. CASE ~data[n].convert BY <2>2, <1>1 DEF LookupName
    <2> QED BY <2>1, <2>2
  <1> QED BY <1>1, <1>2, <1>4, <1>5, <1>6

\* What is under way of a name goes on or is answered.
LEMMA AsyncIInv ==
    ASSUME PrepareIInv, NEW n \in DOMAIN pending, AsyncFrame, newer' \subseteq Names,
           dirs' \in [Names -> Directories], \A m \in Names : m # n => dirs'[m] = dirs[m],
           IsAnswered(n) \/ IsAwaited(n)
    PROVE  PrepareIInv'
  <1>1. /\ pc = "fetch" /\ n \in DOMAIN data /\ data[n].source = None /\ todo' = todo \ {n}
    BY WaitedFor
  <1>2. Types BY DEF PrepareIInv
  <1>3. SameButSource(data[n], data'[n]) /\ data' = data
    BY <1>1, <1>2 DEF SameButSource, AsyncFrame, Types
  <1>4. originals' \subseteq Names /\ cleaned' \subseteq Names BY <1>2 DEF AsyncFrame, Types
  <1>5. UNCHANGED <<input, pc, outcome, control, ordering>> BY DEF AsyncFrame
  <1>6. RoundStep(n) BY <1>1, <1>3, <1>4, <1>5 DEF RoundStep
  <1> QED BY <1>6, RoundStepIInv

LEMMA ProcessFailsIInv == ASSUME PrepareIInv, ProcessFails PROVE PrepareIInv'
  <1>1. PICK n \in DOMAIN pending : ThenFor(n, Answer(Failed)) BY DEF ProcessFails
  <1>2. UNCHANGED <<dirs, newer>> /\ AsyncFrame BY DEF ProcessFails
  <1>3. IsAnswered(n) BY <1>1, AnsweredFor, FailedType
  <1>4. newer' \subseteq Names /\ dirs' \in [Names -> Directories] /\ dirs' = dirs
    BY <1>2 DEF PrepareIInv, Types
  <1> QED BY <1>2, <1>3, <1>4, AsyncIInv

LEMMA SrcInfoDoneIInv == ASSUME PrepareIInv, SrcInfoDone PROVE PrepareIInv'
  <1>1. PICK n \in DOMAIN pending :
            /\ dirs' = [dirs EXCEPT ![n].info = dirs[n].pkgbuild, ![n].stale = FALSE]
            /\ ThenFor(n, Answer(Sources(dirs[n].pkgbuild)))
    BY DEF SrcInfoDone
  <1>2. UNCHANGED newer /\ AsyncFrame BY DEF SrcInfoDone
  <1>3. Types BY DEF PrepareIInv
  <1>4. n \in Names /\ dirs[n] \in Directories BY <1>2, WaitedFor
  <1> DEFINE d == [dirs[n] EXCEPT !.info = dirs[n].pkgbuild, !.stale = FALSE]
  <1>5. d \in Directories /\ d.pkgbuild = dirs[n].pkgbuild BY <1>4 DEF Directories
  <1>6. dirs' = [dirs EXCEPT ![n] = d] BY <1>1, <1>3, <1>4 DEF Types
  <1>7. dirs[n].pkgbuild \in Origins \cup {None} BY <1>4 DEF Directories
  <1> HIDE DEF d
  <1>8. /\ dirs' \in [Names -> Directories] /\ dirs'[n] = d
        /\ \A m \in Names : m # n => dirs'[m] = dirs[m]
    BY <1>3, <1>4, <1>5, <1>6, DirectoryChanged
  <1>9. /\ ResponseType(Sources(dirs[n].pkgbuild))
        /\ Sources(dirs[n].pkgbuild).source = dirs[n].pkgbuild
    BY <1>7, SourcesType
  <1>10. IsAnswered(n) BY <1>1, <1>5, <1>8, <1>9, AnsweredFor
  <1>11. newer' \subseteq Names BY <1>2, <1>3 DEF Types
  <1> QED BY <1>2, <1>8, <1>10, <1>11, AsyncIInv

LEMMA ConversionDoneIInv == ASSUME PrepareIInv, ConversionDone PROVE PrepareIInv'
  <1>1. PICK n \in DOMAIN pending :
            /\ pending[n].kind = "convert"
            /\ dirs' = [dirs EXCEPT ![n].pkgbuild =
                          [of |-> IF input.convertsRight THEN n ELSE pending[n].from.of,
                           version |-> pending[n].from.version]]
            /\ newer' = newer \cup {n}
            /\ ThenFor(n, MakeSrcInfo(dirs[n]))
    BY DEF ConversionDone
  <1>2. AsyncFrame BY DEF ConversionDone
  <1>3. Types BY DEF PrepareIInv
  <1>4. /\ n \in Names /\ dirs[n] \in Directories /\ n \notin DOMAIN responses
        /\ ProcessType(pending[n])
    BY <1>2, WaitedFor
  <1> DEFINE s == [of |-> IF input.convertsRight THEN n ELSE pending[n].from.of,
                   version |-> pending[n].from.version]
             d == [dirs[n] EXCEPT !.pkgbuild = s]
  <1>5. s \in Origins BY <1>1, <1>4 DEF ProcessType, Origins
  <1>6. dirs' = [dirs EXCEPT ![n].pkgbuild = s] BY <1>1
  <1> HIDE DEF s
  <1>7. d \in Directories BY <1>4, <1>5 DEF Directories
  <1>8. dirs' = [dirs EXCEPT ![n] = d] BY <1>6, <1>3, <1>4 DEF Types
  <1> HIDE DEF d
  <1>9. dirs' \in [Names -> Directories] /\ \A m \in Names : m # n => dirs'[m] = dirs[m]
    BY <1>3, <1>4, <1>7, <1>8, DirectoryChanged
  <1>10. IsAnswered(n) \/ IsAwaited(n) BY <1>1, <1>4, SrcInfoFor
  <1>11. newer' \subseteq Names BY <1>1, <1>3, <1>4 DEF Types
  <1> QED BY <1>2, <1>9, <1>10, <1>11, AsyncIInv

LEMMA RetryIInv == ASSUME PrepareIInv, Retry PROVE PrepareIInv'
  <1>1. PICK n \in DOMAIN pending :
            /\ pending[n].kind \in {"aur", "official"} /\ pending[n].retries > 0
            /\ pending' = [pending EXCEPT ![n].retries = @ - 1]
    BY DEF Retry
  <1>2. UNCHANGED <<dirs, newer, responses>> /\ AsyncFrame BY DEF Retry
  <1>3. n \notin DOMAIN responses /\ ProcessType(pending[n]) BY <1>2, WaitedFor
  <1>4. Elsewhere(n) /\ n \in DOMAIN pending' BY <1>1, <1>2 DEF Elsewhere
  <1>5. pending'[n] = [pending[n] EXCEPT !.retries = pending[n].retries - 1] BY <1>1
  <1>6. ProcessType(pending'[n])
    BY <1>1, <1>3, <1>5, RetriesAssumption DEF ProcessType
  <1>7. IsAwaited(n) BY <1>2, <1>3, <1>4, <1>6 DEF IsAwaited
  <1>8. newer' \subseteq Names /\ dirs' \in [Names -> Directories] /\ dirs' = dirs
    BY <1>2 DEF PrepareIInv, Types
  <1> QED BY <1>2, <1>7, <1>8, AsyncIInv

LEMMA AbsentIInv == ASSUME PrepareIInv, Absent PROVE PrepareIInv'
  <1>1. PICK n \in DOMAIN pending :
          \/ /\ pending[n].kind = "official"
             /\ pending' = [pending EXCEPT ![n].kind = "aur"]
             /\ UNCHANGED <<dirs, responses>>
          \/ ThenFor(n, Answer(NotFound)) /\ UNCHANGED dirs
          \/ ThenFor(n, Answer(NotFound)) /\ dirs' = [dirs EXCEPT ![n].aur = TRUE]
    BY DEF Absent
  <1>2. UNCHANGED newer /\ AsyncFrame BY DEF Absent
  <1>3. Types BY DEF PrepareIInv
  <1>4. /\ n \in Names /\ dirs[n] \in Directories /\ n \notin DOMAIN responses
        /\ ProcessType(pending[n])
    BY <1>2, WaitedFor
  <1>5. newer' \subseteq Names BY <1>2, <1>3 DEF Types
  <1>6. CASE /\ pending[n].kind = "official" /\ pending' = [pending EXCEPT ![n].kind = "aur"]
             /\ UNCHANGED <<dirs, responses>>
    <2>1. Elsewhere(n) /\ n \in DOMAIN pending' BY <1>6 DEF Elsewhere
    <2>2. pending'[n] = [pending[n] EXCEPT !.kind = "aur"] BY <1>6
    <2>3. ProcessType(pending'[n]) BY <1>4, <1>6, <2>2 DEF ProcessType
    <2>4. IsAwaited(n) BY <1>4, <1>6, <2>1, <2>3 DEF IsAwaited
    <2>5. dirs' \in [Names -> Directories] /\ dirs' = dirs BY <1>3, <1>6 DEF Types
    <2> QED BY <1>2, <1>5, <2>4, <2>5, AsyncIInv
  <1>7. CASE ThenFor(n, Answer(NotFound)) /\ (UNCHANGED dirs \/ dirs' = [dirs EXCEPT ![n].aur = TRUE])
    <2>1. IsAnswered(n) BY <1>7, AnsweredFor, NotFoundType
    <2>2. dirs' \in [Names -> Directories] /\ \A m \in Names : m # n => dirs'[m] = dirs[m]
      <3>1. CASE UNCHANGED dirs BY <3>1, <1>3 DEF Types
      <3>2. CASE dirs' = [dirs EXCEPT ![n].aur = TRUE]
        <4>1. [dirs[n] EXCEPT !.aur = TRUE] \in Directories BY <1>4 DEF Directories
        <4>2. dirs' = [dirs EXCEPT ![n] = [dirs[n] EXCEPT !.aur = TRUE]] BY <3>2
        <4> QED BY <4>1, <4>2, <1>3, <1>4, DirectoryChanged
      <3> QED BY <3>1, <3>2, <1>7
    <2> QED BY <1>2, <1>5, <2>1, <2>2, AsyncIInv
  <1> QED BY <1>1, <1>6, <1>7

LEMMA DownloadedIInv == ASSUME PrepareIInv, Downloaded PROVE PrepareIInv'
  <1>1. PICK n \in DOMAIN pending :
            LET source == SourceOf(LookupName(n))
                With(info) == [dirs[n] EXCEPT !.exists = TRUE, !.pkgbuild = source, !.info = info,
                                              !.stale = FALSE, !.aur = @ \/ dirs[n].exists]
            IN  /\ \/ /\ dirs' = [dirs EXCEPT ![n] = With(source)]
                      /\ ThenFor(n, Answer(Sources(source)))
                   \/ /\ \E info \in {source, None} : dirs' = [dirs EXCEPT ![n] = With(info)]
                      /\ ThenFor(n, Answer([Response(None, "") EXCEPT !.official = TRUE]))
                /\ newer' \in {newer, newer \cup {n}}
    BY DEF Downloaded
  <1>2. AsyncFrame BY DEF Downloaded
  <1>3. Types BY DEF PrepareIInv
  <1>4. n \in Names /\ dirs[n] \in Directories /\ LookupName(n) \in Names BY <1>2, WaitedFor
  <1> DEFINE source == SourceOf(LookupName(n))
             With(info) == [dirs[n] EXCEPT !.exists = TRUE, !.pkgbuild = source, !.info = info,
                                           !.stale = FALSE, !.aur = @ \/ dirs[n].exists]
  <1>5. source \in Origins BY <1>3, <1>4, SourceOfType
  <1>6. /\ newer' \subseteq Names
        /\ \E info \in {source, None} : dirs' = [dirs EXCEPT ![n] = With(info)]
        /\ \/ ThenFor(n, Answer(Sources(source)))
           \/ ThenFor(n, Answer([Response(None, "") EXCEPT !.official = TRUE]))
    BY <1>1, <1>3, <1>4 DEF Types
  <1> HIDE DEF source
  <1>7. PICK info \in {source, None} : dirs' = [dirs EXCEPT ![n] = With(info)] BY <1>6
  <1>8. With(info) \in Directories /\ With(info).pkgbuild # None
    <2>1. PICK a \in BOOLEAN : a = (dirs[n].aur \/ dirs[n].exists) OBVIOUS
    <2>2. With(info) = [dirs[n] EXCEPT !.exists = TRUE, !.pkgbuild = source, !.info = info,
                                       !.stale = FALSE, !.aur = a]
      BY <2>1
    <2>3. info \in Origins \cup {None} BY <1>5, <1>7
    <2>4. /\ DOMAIN With(info) = {"exists", "pkgbuild", "info", "stale", "aur"}
          /\ With(info).exists = TRUE /\ With(info).pkgbuild = source /\ With(info).info = info
          /\ With(info).stale = FALSE /\ With(info).aur = (dirs[n].aur \/ dirs[n].exists)
      BY <1>4 DEF Directories
    <2> HIDE DEF With
    <2>5. With(info) \in Directories BY <1>5, <2>2, <2>3, <1>4 DEF Directories
    <2>6. source # None BY <1>5, NamesAssumption
    <2> QED BY <2>4, <2>5, <2>6
  <1> HIDE DEF With
  <1>9. /\ dirs' \in [Names -> Directories] /\ dirs'[n].pkgbuild # None
        /\ \A m \in Names : m # n => dirs'[m] = dirs[m]
    BY <1>3, <1>4, <1>7, <1>8, DirectoryChanged
  <1>10. IsAnswered(n)
    <2>1. CASE ThenFor(n, Answer(Sources(source))) BY <2>1, <1>5, <1>9, SourcesType, AnsweredFor
    <2>2. CASE ThenFor(n, Answer([Response(None, "") EXCEPT !.official = TRUE]))
      <3>1. ResponseType([Response(None, "") EXCEPT !.official = TRUE])
        BY DEF ResponseType, Response
      <3> QED BY <2>2, <3>1, <1>9, AnsweredFor
    <2> QED BY <2>1, <2>2, <1>6
  <1> QED BY <1>2, <1>6, <1>9, <1>10, AsyncIInv

-----------------------------------------------------------------------------
(* Other steps                                                             *)

\* No handler that leaves the build data and the directories alone disturbs what
\* is known of a name.
LEMMA DatumKept ==
    ASSUME input' = input, data' = data, dirs' = dirs, newer' = newer, NEW n, Datum(n),
           ~Unversioned => ~Unversioned'
    PROVE  Datum(n)'
  <1>1. Sourced(n)' BY DEF Datum, Sourced
  <1>2. Configured(n)' BY DEF Datum, Configured, Convertible
  <1>3. Versioned(n)'
    <2>1. NewVersion(n)' = NewVersion(n) BY DEF NewVersion, Bumped, Recipe, Flag
    <2> QED BY <2>1 DEF Datum, Versioned
  <1>4. Covered(n)'
    BY DEF Datum, Covered, Recipe, InBuildList, Given, ExistingOffers, Relevant, Required
  <1> QED BY <1>1, <1>2, <1>3, <1>4 DEF Datum

\* A name has nothing to be done for in this round.
LEMMA SkipFetchedIInv == ASSUME PrepareIInv, SkipFetched PROVE PrepareIInv'
  <1> USE DEF PrepareIInv
  <1>1. PICK n \in todo : Skippable(n) /\ todo' = todo \ {n} BY DEF SkipFetched
  <1>2. /\ pc = "fetch" /\ pc' = pc /\ input' = input /\ data' = data /\ dirs' = dirs
        /\ originals' = originals /\ cleaned' = cleaned /\ newer' = newer /\ made' = made
        /\ pending' = pending /\ responses' = responses /\ isAborted' = isAborted /\ result' = result
    BY DEF SkipFetched, FetchFrame, disk, outcome, control
  <1>3. Types' BY <1>1, <1>2 DEF Types
  <1>4. \A m \in DOMAIN data' : Datum(m)' BY <1>2, DatumKept DEF Unversioned
  <1>5. ASSUME NEW m \in DOMAIN data' PROVE Stage(m)'
    <2>1. Stage(m) BY <1>2 DEF Stages
    <2>2. Skippable(m)' <=> Skippable(m) BY <1>2 DEF Skippable
    <2>3. CASE m # n BY <2>1, <2>2, <2>3, <1>1, <1>2 DEF Stage, Underway
    <2>4. CASE m = n
      <3>1. dirs[n].pkgbuild # None BY <2>1, <2>4, <1>1 DEF Stage, Skippable
      <3> QED BY <2>1, <2>2, <2>4, <3>1, <1>1, <1>2 DEF Stage, Underway
    <2> QED BY <2>3, <2>4
  <1>6. Stages' BY <1>2, <1>5 DEF Stages
  <1>7. StartedOver' BY <1>2 DEF StartedOver
  <1> QED BY <1>3, <1>4, <1>6, <1>7

\* The action ends before there is anything to be built.
LEMMA EndsEarly ==
    ASSUME PrepareIInv, pc' = "done", result' \in {"failure", "aborted"},
           UNCHANGED <<input, data, disk, todo, pending, responses>>,
           todo = {}, DOMAIN pending = {}, made' \in [Names -> Progress],
           Unversioned \/ result' = "aborted"
    PROVE  PrepareIInv'
  <1> USE DEF PrepareIInv
  <1>1. /\ input' = input /\ data' = data /\ dirs' = dirs /\ newer' = newer
        /\ originals' = originals /\ cleaned' = cleaned
        /\ todo' = todo /\ pending' = pending /\ responses' = responses
    BY DEF disk
  <1>2. Types' BY <1>1 DEF Types
  <1>3. \A n \in DOMAIN data' : Datum(n)' BY <1>1, DatumKept DEF Unversioned
  <1>4. Stages' BY <1>1 DEF Stages
  <1>5. StartedOver' BY <1>1 DEF StartedOver, Datum, Versioned
  <1> QED BY <1>2, <1>3, <1>4, <1>5

LEMMA ConcludeAbortedIInv ==
    ASSUME PrepareIInv, ConcludeAborted, todo = {}, DOMAIN pending = {} PROVE PrepareIInv'
  <1>1. made' \in [Names -> Progress] BY DEF ConcludeAborted, PrepareIInv, Types
  <1> QED BY <1>1, EndsEarly DEF ConcludeAborted

\* The working directory is there: every name is looked at.
LEMMA BeginFetchIInv == ASSUME PrepareIInv, BeginFetch PROVE PrepareIInv'
  <1> USE DEF PrepareIInv
  <1>1. pc = "prepared" /\ todo = {} /\ DOMAIN pending = {} BY DEF BeginFetch, Stages
  <1>2. CASE isAborted /\ ConcludeAborted BY <1>1, <1>2, ConcludeAbortedIInv
  <1>3. CASE /\ pc' = "done" /\ result' = "failure"
             /\ UNCHANGED <<input, data, disk, todo, pending, responses, pulledIn, made, control, ordering>>
    BY <1>1, <1>3, EndsEarly DEF Unversioned, Types
  <1>4. CASE /\ pc' = "fetch" /\ todo' = DOMAIN data
             /\ UNCHANGED <<input, data, disk, pending, responses, pulledIn, outcome, control, ordering>>
    <2>1. /\ input' = input /\ data' = data /\ dirs' = dirs /\ newer' = newer
          /\ originals' = originals /\ cleaned' = cleaned /\ made' = made /\ result' = result
          /\ pending' = pending /\ responses' = responses /\ isAborted' = isAborted
          /\ pc' = "fetch" /\ todo' = DOMAIN data
      BY <1>4 DEF disk, outcome, control
    <2>2. DOMAIN responses = {} /\ \A n \in DOMAIN data : NewDatum(data[n]) BY <1>1 DEF Stages
    <2>3. Types' BY <1>1, <2>1, <2>2 DEF Types
    <2>4. \A n \in DOMAIN data' : Datum(n)' BY <1>1, <2>1, DatumKept DEF Unversioned
    <2>5. \A n \in DOMAIN data' : Stage(n)'
      BY <1>1, <2>1, <2>2 DEF Stage, Underway, NewDatum
    <2>6. Stages' BY <1>1, <2>1, <2>5 DEF Stages
    <2>7. StartedOver' BY <2>1 DEF StartedOver
    <2> QED BY <2>3, <2>4, <2>6, <2>7
  <1> QED BY <1>2, <1>3, <1>4 DEF BeginFetch

\* Another round begins.
LEMMA FetchAgainIInv == ASSUME PrepareIInv, FetchAgain PROVE PrepareIInv'
  <1> USE DEF PrepareIInv
  <1>1. pc = "again" /\ todo = {} /\ DOMAIN pending = {} BY DEF FetchAgain, Stages
  <1>2. CASE ConcludeAborted BY <1>1, <1>2, ConcludeAbortedIInv
  <1>3. CASE /\ pc' = "fetch" /\ todo' = DOMAIN data /\ responses' = <<>>
             /\ UNCHANGED <<input, data, disk, pending, pulledIn, outcome, control, ordering>>
    <2>1. /\ input' = input /\ data' = data /\ dirs' = dirs /\ newer' = newer
          /\ originals' = originals /\ cleaned' = cleaned /\ made' = made /\ result' = result
          /\ pending' = pending /\ DOMAIN responses' = {} /\ isAborted' = isAborted
          /\ pc' = "fetch" /\ todo' = DOMAIN data
      BY <1>3 DEF disk, outcome, control
    <2>2. \A n \in DOMAIN data : Between(n) BY <1>1 DEF Stages
    <2>3. Types' BY <1>1, <2>1 DEF Types
    <2>4. \A n \in DOMAIN data' : Datum(n)' BY <1>1, <2>1, DatumKept DEF Unversioned
    <2>5. \A n \in DOMAIN data' : Stage(n)'
      BY <1>1, <2>1, <2>2 DEF Stage, Underway, Between
    <2>6. Stages' BY <1>1, <2>1, <2>5 DEF Stages
    <2>7. StartedOver' BY <2>1 DEF StartedOver
    <2> QED BY <2>3, <2>4, <2>6, <2>7
  <1> QED BY <1>2, <1>3 DEF FetchAgain

\* Names and versions are put into an order.
LEMMA OrderedIInv ==
    ASSUME PrepareIInv, OrderFrame, ~Unversioned, pc \in {"bumped", "batches"},
           \/ pc' \in {"batches", "finish"} /\ result' \in {"none", "failure", "aborted"}
           \/ pc' \in {"batches", "finish"} /\ result' = result
    PROVE  PrepareIInv'
  <1> USE DEF PrepareIInv
  <1>1. /\ input' = input /\ data' = data /\ dirs' = dirs /\ newer' = newer
        /\ originals' = originals /\ cleaned' = cleaned /\ made' = made
        /\ todo' = todo /\ pending' = pending /\ responses' = responses
    BY DEF OrderFrame, disk
  <1>2. result # "success" BY DEF Stages
  <1>3. Types' BY <1>1, <1>2 DEF Types
  <1>4. \A n \in DOMAIN data' : Datum(n)' BY <1>1, DatumKept DEF Unversioned
  <1>5. AllSourced' BY <1>1 DEF AllSourced, Stages
  <1>6. Stages' BY <1>1, <1>2, <1>5 DEF Stages
  <1>7. StartedOver' BY DEF StartedOver
  <1> QED BY <1>3, <1>4, <1>6, <1>7

LEMMA BeginOrderIInv == ASSUME PrepareIInv, BeginOrder PROVE PrepareIInv'
  <1>1. pc = "bumped" /\ OrderFrame BY DEF BeginOrder, ConcludeAborted, OrderFrame
  <1>2. todo = {} /\ DOMAIN pending = {} BY <1>1 DEF PrepareIInv, Stages
  <1>3. CASE ConcludeAborted BY <1>2, <1>3, ConcludeAbortedIInv
  <1>4. CASE ~ConcludeAborted
    <2>1. pc' \in {"batches", "finish"} /\ (result' = result \/ result' = "failure")
      BY <1>4 DEF BeginOrder
    <2> QED BY <1>1, <2>1, OrderedIInv DEF Unversioned
  <1> QED BY <1>3, <1>4

LEMMA ComputeBatchIInv == ASSUME PrepareIInv, ComputeBatch PROVE PrepareIInv'
  <1>1. pc = "batches" /\ OrderFrame /\ result' = result /\ pc' \in {"batches", "finish"}
    BY DEF ComputeBatch
  <1> QED BY <1>1, OrderedIInv DEF Unversioned

LEMMA AbortBatchesIInv == ASSUME PrepareIInv, AbortBatches PROVE PrepareIInv'
  <1>1. pc = "batches" /\ OrderFrame /\ result' = "aborted" /\ pc' = "finish"
    BY DEF AbortBatches
  <1> QED BY <1>1, OrderedIInv DEF Unversioned

\* What is not readable or outdated does not count as made.
LEMMA Rewritten ==
    ASSUME Types, WriteResult(newer)
    PROVE  /\ made' \in [Names -> Progress]
           /\ \A n \in DOMAIN data : n \in newer => made'[n] = "none"
  <1>1. PICK readable \in BOOLEAN :
            made' = [n \in Names |->
                IF ~readable \/ (n \in DOMAIN data /\ Outdated(n, newer)) THEN "none" ELSE made[n]]
    BY DEF WriteResult
  <1>2. made' \in [Names -> Progress] BY <1>1 DEF Types, Progress
  <1>3. ASSUME NEW n \in DOMAIN data, n \in newer PROVE made'[n] = "none"
    <2>1. n \in Names /\ made[n] \in Progress BY DEF Types
    <2> QED BY <1>1, <1>3, <2>1 DEF Outdated, Progress
  <1> QED BY <1>2, <1>3

LEMMA FinishPreparationIInv == ASSUME PrepareIInv, Finish PROVE PrepareIInv'
  <1> USE DEF PrepareIInv
  <1>1. /\ input' = input /\ data' = data /\ dirs' = dirs /\ newer' = newer
        /\ originals' = originals /\ cleaned' = cleaned
        /\ todo' = todo /\ pending' = pending /\ responses' = responses
        /\ pc = "finish" /\ pc' = "done" /\ result' \in {"success", "failure"}
    BY DEF Finish, disk
  <1>2. /\ made' \in [Names -> Progress]
        /\ \A n \in DOMAIN data : n \in newer => made'[n] = "none"
    BY Rewritten DEF Finish
  <1>3. Types' BY <1>1, <1>2 DEF Types
  <1>4. \A n \in DOMAIN data' : Datum(n)' BY <1>1, DatumKept DEF Unversioned
  <1>5. AllSourced' BY <1>1 DEF AllSourced, Stages
  <1>6. Stages' BY <1>1, <1>5 DEF Stages
  <1>7. StartedOver' BY <1>1, <1>2 DEF StartedOver, Datum, Versioned
  <1> QED BY <1>3, <1>4, <1>6, <1>7

-----------------------------------------------------------------------------
(* The first lookup                                                        *)

LEMMA NewIsDatum ==
    ASSUME NEW n, n \in DOMAIN data, NewDatum(data[n]) PROVE Datum(n)
  BY DEF NewDatum, Datum, Sourced, Configured, Versioned, Covered

LEMMA RunIInv == ASSUME PrepareIInv, Run PROVE PrepareIInv'
  <1> USE DEF PrepareIInv
  <1>1. pc = "run" /\ todo = {} /\ DOMAIN pending = {} /\ DOMAIN responses = {} /\ DOMAIN data = {}
    BY DEF Run, Stages
  <1>2. /\ input' = input /\ dirs' = dirs /\ newer' = newer
        /\ originals' = originals /\ cleaned' = cleaned /\ made' = made
        /\ todo' = todo /\ pending' = pending /\ responses' = responses
    BY DEF Run, disk
  <1>3. CASE pc' = "done" /\ result' = "failure" /\ UNCHANGED data
    BY <1>1, <1>2, <1>3, EndsEarly DEF Unversioned, Types, disk
  <1>4. CASE /\ data' = LookedUp[Len(input.specified)].data
             /\ pc' = "prepared" /\ UNCHANGED result
    <2>1. NewData(data') BY <1>4, LookedUpType DEF Types
    <2>2. DOMAIN data' \subseteq Names /\ \A n \in DOMAIN data' : NewDatum(data'[n])
      BY <2>1 DEF NewData
    <2>3. Types' BY <1>1, <1>2, <1>4, <2>2 DEF Types, NewDatum
    <2>4. \A n \in DOMAIN data' : Datum(n)'
      BY <2>2 DEF NewDatum, Datum, Sourced, Configured, Versioned, Covered
    <2>5. Stages' BY <1>1, <1>2, <1>4, <2>2 DEF Stages
    <2>6. StartedOver' BY <1>4 DEF StartedOver
    <2> QED BY <2>3, <2>4, <2>5, <2>6
  <1> QED BY <1>3, <1>4 DEF Run

-----------------------------------------------------------------------------
(* The end of a round                                                      *)

\* What is known of a name that has been answered.
LEMMA PopulatedType ==
    ASSUME PrepareIInv, pc = "fetch", NEW n \in DOMAIN responses
    PROVE  LET p == Populated(n)
           IN  /\ DatumType(p) /\ p.version = None
               /\ p.source # None => /\ p.hasSource /\ p.error = ""
                                     /\ p.convert => p.source.of = n
               /\ p.hasSource => dirs[n].pkgbuild # None
               /\ p.hasSource /\ p.source = None => p.convert
               /\ p.convert => Convertible(n)
  <1> DEFINE d == data[n]
             r == responses[n]
             error == IF r.error # "" THEN r.error ELSE "no data"
             p == Populated(n)
  <1>1. n \in DOMAIN data /\ ResponseType(r) /\ DatumType(d) BY DEF PrepareIInv, Types
  <1>2. Stage(n) /\ Datum(n) BY <1>1 DEF PrepareIInv, Stages
  <1>3. d.version = None BY <1>2 DEF Datum, Versioned, Unversioned
  <1>4. d.source = None BY <1>2 DEF Stage, Underway
  <1>5. d.convert => Convertible(n) BY <1>2 DEF Datum, Configured
  <1>6. r.source # None => dirs[n].pkgbuild # None BY <1>2 DEF Stage
  <1>7. DOMAIN d = {"index", "existing", "hasSource", "source", "version", "error", "convert", "local"}
    BY <1>1 DEF DatumType, Fields
  <1>8. /\ d.existing \in Versions \cup {None} /\ d.convert \in BOOLEAN
        /\ r.source \in Origins \cup {None}
    BY <1>1 DEF DatumType, ResponseType
  <1>9. p = IF r.source # None
            THEN IF d.convert /\ r.source.of # n
                 THEN [d EXCEPT !.source = None, !.error = "", !.hasSource = TRUE]
                 ELSE [d EXCEPT !.source = r.source, !.error = "", !.hasSource = TRUE]
            ELSE IF r.official /\ r.error = "" THEN [d EXCEPT !.error = "", !.hasSource = FALSE]
            ELSE IF (r.is404 \/ (Flag("localOnly") /\ error = "skipped")) /\ ~d.convert /\ Convertible(n)
                 THEN [d EXCEPT !.convert = TRUE, !.error = "", !.hasSource = FALSE]
            ELSE [d EXCEPT !.error = error, !.hasSource = FALSE]
    BY DEF Populated
  <1> HIDE DEF d, r, error, p
  <1>10. CASE r.source # None /\ d.convert /\ r.source.of # n
    <2>1. p = [d EXCEPT !.source = None, !.error = "", !.hasSource = TRUE] BY <1>9, <1>10
    <2>2. /\ DOMAIN p = DOMAIN d /\ p.source = None /\ p.error = "" /\ p.hasSource = TRUE
          /\ p.version = d.version /\ p.existing = d.existing /\ p.convert = d.convert
      BY <2>1, <1>7
    <2> QED BY <2>2, <1>3, <1>5, <1>6, <1>7, <1>8, <1>10 DEF DatumType, Fields, p
  <1>11. CASE r.source # None /\ ~(d.convert /\ r.source.of # n)
    <2>1. p = [d EXCEPT !.source = r.source, !.error = "", !.hasSource = TRUE] BY <1>9, <1>11
    <2>2. /\ DOMAIN p = DOMAIN d /\ p.source = r.source /\ p.error = "" /\ p.hasSource = TRUE
          /\ p.version = d.version /\ p.existing = d.existing /\ p.convert = d.convert
      BY <2>1, <1>7
    <2> QED BY <2>2, <1>3, <1>5, <1>6, <1>7, <1>8, <1>11 DEF DatumType, Fields, p
  <1>12. CASE r.source = None
    <2>1. \/ \E e : p = [d EXCEPT !.error = e, !.hasSource = FALSE]
          \/ p = [d EXCEPT !.convert = TRUE, !.error = "", !.hasSource = FALSE] /\ Convertible(n)
      BY <1>9, <1>12
    <2>2. /\ DOMAIN p = DOMAIN d /\ p.source = d.source /\ p.hasSource = FALSE
          /\ p.version = d.version /\ p.existing = d.existing
          /\ p.convert = d.convert \/ (p.convert = TRUE /\ Convertible(n))
      BY <2>1, <1>7
    <2> QED BY <2>2, <1>3, <1>4, <1>5, <1>7, <1>8 DEF DatumType, Fields, p
  <1> QED BY <1>10, <1>11, <1>12

\* The build data with the responses.
Answers == [n \in DOMAIN data |-> IF n \in DOMAIN responses THEN Populated(n) ELSE data[n]]

\* What has sources may have been answered in this round.
LEMMA AnswersType ==
    ASSUME PrepareIInv, pc = "fetch", todo = {}, DOMAIN pending = {}, NEW n \in DOMAIN data, ~isAborted
    PROVE  LET p == Answers[n]
           IN  /\ DatumType(p) /\ p.version = None
               /\ p.source # None => /\ p.hasSource /\ p.error = ""
                                     /\ p.convert => p.source.of = n
               /\ p.hasSource => dirs[n].pkgbuild # None
               /\ p.hasSource /\ p.source = None => p.convert
               /\ p.convert => Convertible(n)
               /\ n \notin DOMAIN responses => p.source # None
               /\ data[n].source # None => n \notin DOMAIN responses /\ p = data[n]
  <1>1. Stage(n) /\ Datum(n) /\ DatumType(data[n]) BY DEF PrepareIInv, Stages, Types
  <1>2. CASE n \in DOMAIN responses
    <2>1. Answers[n] = Populated(n) BY <1>2 DEF Answers
    <2>2. data[n].source = None BY <1>1, <1>2 DEF Stage, Underway
    <2> DEFINE p == Populated(n)
    <2>3. /\ DatumType(p) /\ p.version = None
          /\ p.source # None => /\ p.hasSource /\ p.error = ""
                                /\ p.convert => p.source.of = n
          /\ p.hasSource => dirs[n].pkgbuild # None
          /\ p.hasSource /\ p.source = None => p.convert
          /\ p.convert => Convertible(n)
      BY <1>2, PopulatedType
    <2>4. p = Answers[n] BY <2>1
    <2> HIDE DEF p
    <2> QED BY <1>2, <2>2, <2>3, <2>4
  <1>3. CASE n \notin DOMAIN responses
    <2>1. Answers[n] = data[n] BY <1>3 DEF Answers
    <2>2. data[n].version = None BY <1>1 DEF Datum, Versioned, Unversioned
    <2>3. data[n].source # None /\ dirs[n].pkgbuild # None
      BY <1>1, <1>3 DEF Stage, Underway, Skippable
    <2> QED BY <1>1, <1>3, <2>1, <2>2, <2>3 DEF Datum, Sourced, Configured
  <1> QED BY <1>2, <1>3

\* What is pulled in is new, whether dependencies or variants.
LEMMA PulledType ==
    ASSUME input \in Inputs, NEW all, \A n \in DOMAIN all : all[n].source \in Origins \cup {None},
           DOMAIN responses \subseteq DOMAIN all
    PROVE  LET further == Pulled(all)
           IN  /\ NewData(further) /\ DOMAIN further \cap DOMAIN all = {}
               /\ \A n \in DOMAIN responses :
                     all[n].source # None =>
                         \A d \in PulledDependencies(input.recipes[all[n].source.of]) :
                             InBuildList(all, d) \/ Given(d) \/ d.name \in DOMAIN further
  <1> DEFINE answered == {n \in DOMAIN responses : all[n].source # None}
             deps == UNION {PulledDependencies(input.recipes[all[n].source.of]) : n \in answered}
             missing == {d \in deps : ~InBuildList(all, d) /\ ~Given(d)}
             names == {d.name : d \in missing}
             Datum1(name) == PulledData(CHOOSE d \in missing : d.name = name)
             further == Pulled(all)
  <1>1. further = [name \in names |-> Datum1(name)] BY DEF Pulled
  <1>2. ASSUME NEW n \in answered, NEW d \in PulledDependencies(input.recipes[all[n].source.of])
        PROVE  d.name \in Names
    <2>1. all[n].source.of \in Names BY DEF Origins
    <2>2. LET r == input.recipes[all[n].source.of] IN \A e \in r.make \cup r.deps \cup r.check : e.name \in Names
      BY <2>1, InputsAssumption
    <2> QED BY <2>2 DEF PulledDependencies
  <1>3. names \subseteq Names BY <1>2
  <1>4. names \cap DOMAIN all = {} BY DEF InBuildList
  <1>5. \A name : NewDatum(Datum1(name))
    <2> SUFFICES ASSUME NEW dep PROVE NewDatum(PulledData(dep)) OBVIOUS
    <2> DEFINE S == {i \in DOMAIN input.existing : /\ input.existing[i].name = dep.name
                                                   /\ ExistingOffers(input.existing[i], dep)}
    <2>1. S \in SUBSET DOMAIN input.existing OBVIOUS
    <2> HIDE DEF S
    <2>2. RecordAll(S) \in Versions \cup {None} BY <2>1, RecordedType
    <2>3. NewDatum([NoData EXCEPT !.existing = RecordAll(S)]) BY <2>2, NoDataWith
    <2> QED BY <2>3 DEF PulledData, S
  <1>6. ASSUME NEW n \in DOMAIN responses, all[n].source # None,
               NEW d \in PulledDependencies(input.recipes[all[n].source.of])
        PROVE  InBuildList(all, d) \/ Given(d) \/ d.name \in names
    <2>1. d \in deps BY <1>6
    <2> HIDE DEF deps
    <2> QED BY <2>1
  <1> HIDE DEF names, Datum1, further
  <1>7. NewData(further) BY <1>1, <1>3, <1>5 DEF NewData
  <1>8. DOMAIN further = names BY <1>1
  <1> QED BY <1>4, <1>6, <1>7, <1>8 DEF further

LEMMA ComplementsType ==
    ASSUME input \in Inputs, NEW all, \A n \in DOMAIN all : all[n].source \in Origins \cup {None},
           DOMAIN responses \subseteq DOMAIN all
    PROVE  LET variants == Complements(all)
           IN  NewData(variants) /\ DOMAIN variants \cap DOMAIN all = {}
  <1> DEFINE answered == {n \in DOMAIN responses : all[n].source # None}
             wanted == IF Flag("variants") THEN UNION {input.variants[all[n].source.of] : n \in answered} ELSE {}
             names == {v \in wanted : ~InBuildList(all, AnyVersion(v)) /\ Given(AnyVersion(v))}
             Datum1(name) == [NoData EXCEPT !.existing =
                RecordAll({i \in DOMAIN input.existing : input.existing[i].name = name})]
             variants == Complements(all)
  <1>1. variants = [name \in names |-> Datum1(name)] BY DEF Complements
  <1>2. ASSUME NEW n \in answered PROVE input.variants[all[n].source.of] \subseteq Names
    <2>1. all[n].source.of \in Names BY DEF Origins
    <2> QED BY <2>1, InputsAssumption
  <1>3. names \subseteq Names BY <1>2
  <1>4. names \cap DOMAIN all = {}
    <2>1. \A v : AnyVersion(v).name = v BY DEF AnyVersion
    <2> QED BY <2>1 DEF InBuildList
  <1>5. \A name : NewDatum(Datum1(name))
    <2> SUFFICES ASSUME NEW name PROVE NewDatum(Datum1(name)) OBVIOUS
    <2> DEFINE S == {i \in DOMAIN input.existing : input.existing[i].name = name}
    <2>1. S \in SUBSET DOMAIN input.existing OBVIOUS
    <2> HIDE DEF S
    <2>2. RecordAll(S) \in Versions \cup {None} BY <2>1, RecordedType
    <2>3. NewDatum([NoData EXCEPT !.existing = RecordAll(S)]) BY <2>2, NoDataWith
    <2> QED BY <2>3 DEF S
  <1> HIDE DEF names, Datum1, variants
  <1>6. NewData(variants) BY <1>1, <1>3, <1>5 DEF NewData
  <1>7. DOMAIN variants = names BY <1>1
  <1> QED BY <1>4, <1>6, <1>7 DEF variants

\* The build list only grows.
LEMMA InBuildListKept ==
    ASSUME input' = input, NEW all, NEW d, InBuildList(all, d),
           DOMAIN all \subseteq DOMAIN data',
           \A m \in DOMAIN all : data'[m] = all[m]
    PROVE  InBuildList(data, d)'
  <1>1. CASE d.name \in DOMAIN all BY <1>1 DEF InBuildList
  <1>2. CASE d.name \notin DOMAIN all
    <2>1. PICK m \in DOMAIN all :
              /\ all[m].source # None
              /\ Offers(all[m].source.of, all[m].source.version,
                        input.recipes[all[m].source.of].provides, d)
      BY <1>2 DEF InBuildList
    <2>2. m \in DOMAIN data' /\ data'[m] = all[m] BY <2>1
    <2> QED BY <2>1, <2>2 DEF InBuildList
  <1> QED BY <1>1, <1>2

LEMMA GivenKept == ASSUME input' = input, NEW d, Given(d) PROVE Given(d)'
  BY DEF Given, ExistingOffers, Relevant, Required

\* Dependencies are computed: further names may follow, for another round.
LEMMA ComputeDependenciesIInv == ASSUME PrepareIInv, ComputeDependencies PROVE PrepareIInv'
  <1> USE DEF PrepareIInv
  <1>1. pc = "fetch" /\ todo = {} /\ pending = <<>> /\ DOMAIN pending = {}
    BY NothingHasNoDomain DEF ComputeDependencies
  <1>2. CASE ConcludeAborted BY <1>1, <1>2, ConcludeAbortedIInv
  <1>3. CASE /\ pc' = "done" /\ result' = "failure"
             /\ UNCHANGED <<input, data, disk, todo, pending, responses, pulledIn, made, control, ordering>>
    BY <1>1, <1>3, EndsEarly DEF Unversioned, Types
  <1>4. CASE ~isAborted /\ ~ConcludeAborted /\ ~(pc' = "done")
    <2> DEFINE all == Answers
               further == Pulled(all)
               variants == Complements(Over(further, all))
               sourcesMissing == \E n \in DOMAIN responses : all[n].error # ""
               again == \/ variants # <<>>
                        \/ \E n \in DOMAIN responses : all[n].error = "" /\ all[n].source = None
    <2>1. /\ data' = Over(variants, Over(further, all))
          /\ pc' = IF ~sourcesMissing /\ (further # <<>> \/ again) THEN "again" ELSE "check"
          /\ UNCHANGED <<input, disk, todo, pending, responses, outcome, control, ordering>>
      BY <1>4 DEF ComputeDependencies, Answers
    <2>2. /\ input' = input /\ dirs' = dirs /\ newer' = newer /\ isAborted' = isAborted
          /\ originals' = originals /\ cleaned' = cleaned /\ made' = made /\ result' = result
          /\ todo' = todo /\ pending' = pending /\ responses' = responses
      BY <2>1 DEF disk, outcome, control
    <2>3. \A n \in DOMAIN data :
             LET p == all[n]
             IN  /\ DatumType(p) /\ p.version = None
                 /\ p.source # None => /\ p.hasSource /\ p.error = ""
                                       /\ p.convert => p.source.of = n
                 /\ p.hasSource => dirs[n].pkgbuild # None
                 /\ p.hasSource /\ p.source = None => p.convert
                 /\ p.convert => Convertible(n)
                 /\ n \notin DOMAIN responses => p.source # None
                 /\ data[n].source # None => n \notin DOMAIN responses /\ p = data[n]
      BY <1>1, <1>4, AnswersType
    <2>4. DOMAIN all = DOMAIN data BY DEF Answers
    <2> HIDE DEF all
    <2>5. /\ input \in Inputs /\ DOMAIN responses \subseteq DOMAIN all
          /\ \A n \in DOMAIN all : all[n].source \in Origins \cup {None}
      BY <2>3, <2>4 DEF Types, DatumType
    <2>6. /\ NewData(further) /\ DOMAIN further \cap DOMAIN all = {}
          /\ \A n \in DOMAIN responses :
                all[n].source # None =>
                    \A d \in PulledDependencies(input.recipes[all[n].source.of]) :
                        InBuildList(all, d) \/ Given(d) \/ d.name \in DOMAIN further
      BY <2>5, PulledType
    <2> HIDE DEF further
    <2> DEFINE both == Over(further, all)
    <2>7. /\ DOMAIN both = DOMAIN further \cup DOMAIN all
          /\ \A n \in DOMAIN all : both[n] = all[n]
          /\ \A n \in DOMAIN further : both[n] = further[n]
      BY <2>6 DEF Over
    <2> HIDE DEF both
    <2>8. NewData(variants) /\ DOMAIN variants \cap DOMAIN both = {}
      <3>1. \A n \in DOMAIN both : both[n].source \in Origins \cup {None}
        BY <2>5, <2>6, <2>7 DEF NewData, NewDatum
      <3>2. DOMAIN responses \subseteq DOMAIN both BY <2>5, <2>7
      <3> QED BY <2>5, <3>1, <3>2, ComplementsType DEF both
    <2>9. /\ DOMAIN data \subseteq DOMAIN data'
          /\ \A n \in DOMAIN data : data'[n] = all[n]
          /\ \A n \in DOMAIN data' \ DOMAIN data : NewDatum(data'[n])
          /\ DOMAIN data' = DOMAIN variants \cup DOMAIN both
          /\ DOMAIN data' \subseteq Names
      <3>1. data' = Over(variants, both) BY <2>1 DEF both
      <3> HIDE DEF variants
      <3>2. DOMAIN data' = DOMAIN variants \cup DOMAIN both BY <3>1 DEF Over
      <3>3. \A n \in DOMAIN both : data'[n] = both[n] BY <3>1, <2>8 DEF Over
      <3>4. \A n \in DOMAIN variants : data'[n] = variants[n] BY <3>1 DEF Over
      <3> QED BY <3>2, <3>3, <3>4, <2>4, <2>6, <2>7, <2>8 DEF NewData, Types
    <2> HIDE DEF variants
    <2>10. \A n \in DOMAIN data' : DatumType(data'[n]) /\ data'[n].version = None
      BY <2>3, <2>9 DEF NewDatum
    <2>11. Types' BY <1>1, <2>1, <2>2, <2>9, <2>10 DEF Types
    <2>12. ASSUME NEW n \in DOMAIN data' PROVE Datum(n)'
      <3>1. CASE n \notin DOMAIN data
        <4>1. NewDatum(data'[n]) BY <3>1, <2>9
        <4> QED BY <4>1 DEF NewDatum, Datum, Sourced, Configured, Versioned, Covered
      <3>2. CASE n \in DOMAIN data
        <4>1. data'[n] = all[n] BY <3>2, <2>9
        <4>2. Sourced(n)' BY <3>2, <4>1, <2>2, <2>3 DEF Sourced
        <4>3. Configured(n)' BY <3>2, <4>1, <2>2, <2>3 DEF Configured, Convertible
        <4>4. Versioned(n)' BY <2>10 DEF Versioned
        <4>5. Covered(n)'
          <5>1. CASE data[n].source # None
            <6>1. \A m \in DOMAIN data : data[m].source # None => data'[m].source = data[m].source
              BY <2>3, <2>9
            <6>2. Covered(n) BY <3>2 DEF Datum
            <6> QED BY <5>1, <6>1, <6>2, <3>2, <2>2, <2>9, CoveredKept
          <5>2. CASE data[n].source = None /\ all[n].source # None
            <6>1. n \in DOMAIN responses
              <7>1. n \notin DOMAIN responses => all[n] = data[n] BY <3>2 DEF all, Answers
              <7> QED BY <7>1, <5>2
            <6> SUFFICES ASSUME NEW d \in (Recipe(n).make \cup Recipe(n).deps)'
                         PROVE  InBuildList(data, d)' \/ Given(d)'
              BY DEF Covered
            <6>2. d \in PulledDependencies(input.recipes[all[n].source.of])
              BY <4>1, <2>2 DEF Recipe, PulledDependencies
            <6>3. InBuildList(all, d) \/ Given(d) \/ d.name \in DOMAIN further
              BY <5>2, <6>1, <6>2, <2>6
            <6>4. CASE InBuildList(all, d) BY <6>4, <2>2, <2>4, <2>9, InBuildListKept
            <6>5. CASE Given(d) BY <6>5, <2>2, GivenKept
            <6>6. CASE d.name \in DOMAIN further BY <6>6, <2>7, <2>9 DEF InBuildList
            <6> QED BY <6>3, <6>4, <6>5, <6>6
          <5>3. CASE all[n].source = None BY <4>1, <5>3 DEF Covered
          <5> QED BY <5>1, <5>2, <5>3
        <4> QED BY <4>2, <4>3, <4>4, <4>5 DEF Datum
      <3> QED BY <3>1, <3>2
    <2>13. pc' = "again" => \A n \in DOMAIN data' : Between(n)'
      <3> SUFFICES ASSUME ~sourcesMissing, NEW n \in DOMAIN data' PROVE Between(n)'
        BY <2>1
      <3>1. CASE n \notin DOMAIN data BY <3>1, <2>9 DEF Between, NewDatum
      <3>2. CASE n \in DOMAIN data
        <4>1. data'[n] = all[n] BY <3>2, <2>9
        <4>2. all[n].error = "" BY <3>2, <2>3
        <4> QED BY <3>2, <4>1, <4>2, <2>2, <2>3 DEF Between
      <3> QED BY <3>1, <3>2
    <2>14. pc' = "check" => AllSourced' \/ \E n \in DOMAIN data' : data'[n].error # ""
      <3>1. CASE sourcesMissing
        <4>1. PICK n \in DOMAIN responses : all[n].error # "" BY <3>1
        <4>2. n \in DOMAIN data BY <4>1, <2>4, <2>5
        <4> QED BY <4>1, <4>2, <2>9
      <3>2. CASE ~sourcesMissing /\ further = <<>> /\ ~again
        <4>1. DOMAIN data' = DOMAIN data
          <5>1. variants = <<>> BY <3>2 DEF variants
          <5>2. DOMAIN variants = {} /\ DOMAIN further = {} BY <3>2, <5>1, NothingHasNoDomain
          <5> QED BY <5>2, <2>4, <2>7, <2>9
        <4>2. \A n \in DOMAIN data : all[n].source # None BY <3>2, <2>3
        <4> QED BY <4>1, <4>2, <2>9 DEF AllSourced
      <3> QED BY <3>1, <3>2, <2>1
    <2>15. pc' \in {"again", "check"} BY <2>1
    <2>16. Stages' BY <1>1, <2>2, <2>13, <2>14, <2>15 DEF Stages
    <2>17. StartedOver' BY <2>15 DEF StartedOver
    <2> QED BY <2>11, <2>12, <2>16, <2>17
  <1> QED BY <1>2, <1>3, <1>4 DEF ComputeDependencies

-----------------------------------------------------------------------------
(* Bumping versions                                                        *)

\* Amending a PKGBUILD changes its version.
LEMMA AmendedDirectory ==
    ASSUME NEW d \in Directories, d.pkgbuild # None, NEW v \in Versions
    PROVE  LET e == [d EXCEPT !.pkgbuild.version = v, !.stale = TRUE]
           IN  e \in Directories /\ e.pkgbuild # None
  <1>1. d.pkgbuild \in Origins BY DEF Directories
  <1>2. [d.pkgbuild EXCEPT !.version = v] \in Origins BY <1>1 DEF Origins
  <1>3. [d.pkgbuild EXCEPT !.version = v] # None BY <1>2, NamesAssumption
  <1> DEFINE p == [d.pkgbuild EXCEPT !.version = v]
             e == [d EXCEPT !.pkgbuild = p, !.stale = TRUE]
  <1>4. [d EXCEPT !.pkgbuild.version = v, !.stale = TRUE] = e OBVIOUS
  <1> HIDE DEF p
  <1>5. e \in Directories /\ e.pkgbuild = p BY <1>2 DEF Directories, p
  <1> HIDE DEF e
  <1> QED BY <1>3, <1>4, <1>5 DEF p

LEMMA NewVersionKept ==
    ASSUME input' = input, NEW n, data'[n].source = data[n].source,
           data'[n].existing = data[n].existing
    PROVE  NewVersion(n)' = NewVersion(n)
  BY DEF NewVersion, Bumped, Recipe, Flag

LEMMA CheckAndBumpIInv == ASSUME PrepareIInv, CheckAndBump PROVE PrepareIInv'
  <1> USE DEF PrepareIInv
  <1>1. pc = "check" /\ todo = {} /\ DOMAIN pending = {} BY DEF CheckAndBump, Stages
  <1>2. CASE ConcludeAborted BY <1>1, <1>2, ConcludeAbortedIInv
  <1>3. CASE /\ WriteResult(newer)
             /\ pc' = "done" /\ result' = "failure"
             /\ UNCHANGED <<input, data, disk, todo, pending, responses, pulledIn, control, ordering>>
    <2>1. made' \in [Names -> Progress] BY <1>3, Rewritten
    <2> QED BY <1>1, <1>3, <2>1, EndsEarly DEF Unversioned
  <1>4. CASE /\ ~\E n \in DOMAIN data : Unusable(n)
             /\ data' = [n \in DOMAIN data |-> [data[n] EXCEPT !.version = NewVersion(n)]]
             /\ dirs' = [n \in Names |-> IF n \in Amended
                           THEN [dirs[n] EXCEPT !.pkgbuild.version = NewVersion(n), !.stale = TRUE]
                           ELSE dirs[n]]
             /\ newer' = newer \cup Amended
             /\ pc' = "bumped"
             /\ UNCHANGED <<input, originals, cleaned, todo, pending, responses, pulledIn,
                            outcome, control, ordering>>
    <2>1. /\ input' = input /\ originals' = originals /\ cleaned' = cleaned /\ made' = made
          /\ result' = result /\ todo' = todo /\ pending' = pending /\ responses' = responses
          /\ pc' = "bumped" /\ newer' = newer \cup Amended /\ DOMAIN data' = DOMAIN data
      BY <1>4 DEF outcome
    <2>2. AllSourced BY <1>1, <1>4 DEF Stages, Unusable
    <2>3. ASSUME NEW n \in DOMAIN data
          PROVE  /\ data[n].source \in Origins /\ data[n].existing \in Versions \cup {None}
                 /\ NewVersion(n) \in Versions
                 /\ n \in Names /\ dirs[n] \in Directories /\ dirs[n].pkgbuild # None
      <3>1. Datum(n) /\ DatumType(data[n]) /\ n \in Names /\ dirs[n] \in Directories BY DEF Types
      <3>2. data[n].source \in Origins /\ data[n].existing \in Versions \cup {None}
        BY <2>2, <3>1 DEF AllSourced, DatumType
      <3>3. data[n].source # None BY <2>2 DEF AllSourced
      <3>4. NewVersion(n) \in Versions BY <3>2, NewVersionType
      <3> QED BY <3>1, <3>2, <3>3, <3>4 DEF Datum, Sourced
    <2>4. ASSUME NEW n \in DOMAIN data
          PROVE  /\ DatumType(data'[n]) /\ data'[n].version = NewVersion(n)
                 /\ data'[n].source = data[n].source /\ data'[n].existing = data[n].existing
                 /\ data'[n].hasSource = data[n].hasSource /\ data'[n].error = data[n].error
                 /\ data'[n].convert = data[n].convert
      <3>1. data'[n] = [data[n] EXCEPT !.version = NewVersion(n)] BY <1>4
      <3>2. DatumType(data[n]) BY DEF Types
      <3>3. DOMAIN data[n] = {"index", "existing", "hasSource", "source", "version", "error", "convert", "local"}
        BY <3>2 DEF DatumType, Fields
      <3>4. /\ DOMAIN data'[n] = DOMAIN data[n] /\ data'[n].version = NewVersion(n)
            /\ data'[n].source = data[n].source /\ data'[n].existing = data[n].existing
            /\ data'[n].hasSource = data[n].hasSource /\ data'[n].error = data[n].error
            /\ data'[n].convert = data[n].convert
        BY <3>1, <3>3
      <3> QED BY <3>2, <3>4, <2>3 DEF DatumType
    <2>5. ASSUME NEW n \in Names
          PROVE  dirs'[n] \in Directories /\ (dirs[n].pkgbuild # None => dirs'[n].pkgbuild # None)
      <3>1. CASE n \in Amended
        <4>1. n \in DOMAIN data BY <3>1 DEF Amended
        <4>2. dirs'[n] = [dirs[n] EXCEPT !.pkgbuild.version = NewVersion(n), !.stale = TRUE]
          BY <3>1, <1>4
        <4>3. LET e == [dirs[n] EXCEPT !.pkgbuild.version = NewVersion(n), !.stale = TRUE]
              IN  e \in Directories /\ e.pkgbuild # None
          BY <4>1, <2>3, AmendedDirectory
        <4> QED BY <4>2, <4>3
      <3>2. CASE n \notin Amended
        <4>1. dirs'[n] = dirs[n] BY <3>2, <1>4
        <4> QED BY <4>1 DEF Types
      <3> QED BY <3>1, <3>2
    <2>6. dirs' \in [Names -> Directories]
      <3>1. dirs' = [n \in Names |-> dirs'[n]] BY <1>4
      <3> QED BY <3>1, <2>5
    <2>7. Types'
      <3>1. newer' \subseteq Names BY <2>1 DEF Amended, Types
      <3> QED BY <1>1, <2>1, <2>4, <2>6, <3>1 DEF Types
    <2>8. ASSUME NEW n \in DOMAIN data' PROVE Datum(n)'
      <3>1. n \in DOMAIN data /\ Datum(n) /\ n \in Names BY <2>1 DEF Types
      <3>2. Sourced(n)' BY <3>1, <2>4, <2>5 DEF Datum, Sourced
      <3>3. Configured(n)' BY <3>1, <2>1, <2>4 DEF Datum, Configured, Convertible
      <3>4. Versioned(n)'
        <4>1. Recipe(n)' = Recipe(n) BY <3>1, <2>1, <2>4 DEF Recipe
        <4>2. NewVersion(n)' = NewVersion(n) BY <3>1, <4>1, <2>1, <2>4, NewVersionKept
        <4>3. data'[n].version # data'[n].source.version => n \in newer'
          BY <3>1, <2>1, <2>4 DEF Amended
        <4>4. data'[n].source # None BY <3>1, <2>2, <2>4 DEF AllSourced
        <4> QED BY <3>1, <4>2, <4>3, <4>4, <2>1, <2>4 DEF Versioned, Unversioned
      <3>5. Covered(n)'
        <4>1. data[n].source # None BY <3>1, <2>2 DEF AllSourced
        <4>2. \A m \in DOMAIN data : data[m].source # None => data'[m].source = data[m].source BY <2>4
        <4>3. Covered(n) BY <3>1 DEF Datum
        <4> QED BY <3>1, <4>1, <4>2, <4>3, <2>1, CoveredKept
      <3> QED BY <3>2, <3>3, <3>4, <3>5 DEF Datum
    <2>9. AllSourced' BY <2>1, <2>2, <2>4 DEF AllSourced
    <2>10. Stages' BY <1>1, <2>1, <2>9 DEF Stages
    <2>11. StartedOver' BY <2>1 DEF StartedOver
    <2> QED BY <2>7, <2>8, <2>10, <2>11
  <1> QED BY <1>2, <1>3, <1>4 DEF CheckAndBump

-----------------------------------------------------------------------------
(* Every step                                                              *)

\* The action is aborted, stopped, or loses its database.
LEMMA SurroundingsIInv ==
    ASSUME PrepareIInv, UNCHANGED <<input, pc, data, disk, todo, pending, responses, pulledIn, made>>,
           result' = result \/ (result = "none" /\ result' = "aborted"),
           isAborted => isAborted'
    PROVE  PrepareIInv'
  <1> USE DEF PrepareIInv
  <1>1. /\ input' = input /\ data' = data /\ dirs' = dirs /\ newer' = newer
        /\ originals' = originals /\ cleaned' = cleaned /\ made' = made /\ pc' = pc
        /\ todo' = todo /\ pending' = pending /\ responses' = responses
    BY DEF disk
  <1>2. Types' BY <1>1 DEF Types
  <1>3. \A n \in DOMAIN data' : Datum(n)' BY <1>1, DatumKept DEF Unversioned
  <1>4. \A n \in DOMAIN data : Stage(n) => Stage(n)' BY <1>1 DEF Stage, Underway, Skippable
  <1>5. \A n \in DOMAIN data : Between(n) => Between(n)' BY <1>1 DEF Between
  <1>6. AllSourced => AllSourced' BY <1>1 DEF AllSourced
  <1>7. Stages' BY <1>1, <1>4, <1>5, <1>6 DEF Stages
  <1>8. StartedOver' BY <1>1 DEF StartedOver
  <1> QED BY <1>2, <1>3, <1>7, <1>8

LEMMA PrepareStutterIInv == ASSUME PrepareIInv, UNCHANGED prepareVars PROVE PrepareIInv'
  BY SurroundingsIInv DEF prepareVars, outcome, control

LEMMA PrepareInitIInv == PrepareInit => PrepareIInv
  <1> SUFFICES ASSUME PrepareInit PROVE PrepareIInv OBVIOUS
  <1>1. /\ input \in Inputs /\ pc = "run" /\ DOMAIN data = {} /\ todo = {} /\ DOMAIN pending = {}
        /\ DOMAIN responses = {} /\ result = "none" /\ cleaned = {}
        /\ dirs = [n \in Names |-> input.dirs[n]] /\ originals = input.originals
        /\ newer = input.newer /\ made = input.made
    BY NothingHasNoDomain DEF PrepareInit
  <1>2. /\ input.dirs \in [Names -> Directories] /\ input.made \in [Names -> Progress]
        /\ input.originals \subseteq Names /\ input.newer \subseteq Names
    BY <1>1, InputsAssumption
  <1>3. Types BY <1>1, <1>2 DEF Types
  <1> QED BY <1>1, <1>3 DEF PrepareIInv, Stages, StartedOver

LEMMA PrepareNextIInv == PrepareIInv /\ [PrepareNext]_prepareVars => PrepareIInv'
  <1> SUFFICES ASSUME PrepareIInv, [PrepareNext]_prepareVars PROVE PrepareIInv' OBVIOUS
  <1>1. CASE Run BY <1>1, RunIInv
  <1>2. CASE BeginFetch BY <1>2, BeginFetchIInv
  <1>3. CASE SkipFetched BY <1>3, SkipFetchedIInv
  <1>4. CASE InvokeConversion BY <1>4, InvokeConversionIInv
  <1>5. CASE UseExisting BY <1>5, UseExistingIInv
  <1>6. CASE Obtain BY <1>6, ObtainIInv
  <1>7. CASE ProcessFails BY <1>7, ProcessFailsIInv
  <1>8. CASE SrcInfoDone BY <1>8, SrcInfoDoneIInv
  <1>9. CASE ConversionDone BY <1>9, ConversionDoneIInv
  <1>10. CASE Retry BY <1>10, RetryIInv
  <1>11. CASE Absent BY <1>11, AbsentIInv
  <1>12. CASE Downloaded BY <1>12, DownloadedIInv
  <1>13. CASE ComputeDependencies BY <1>13, ComputeDependenciesIInv
  <1>14. CASE FetchAgain BY <1>14, FetchAgainIInv
  <1>15. CASE CheckAndBump BY <1>15, CheckAndBumpIInv
  <1>16. CASE BeginOrder BY <1>16, BeginOrderIInv
  <1>17. CASE ComputeBatch BY <1>17, ComputeBatchIInv
  <1>18. CASE AbortBatches BY <1>18, AbortBatchesIInv
  <1>19. CASE Finish BY <1>19, FinishPreparationIInv
  <1>20. CASE Abort BY <1>20, SurroundingsIInv DEF Abort, outcome
  <1>21. CASE Stop BY <1>21, SurroundingsIInv DEF Stop
  <1>22. CASE LoseDatabase BY <1>22, SurroundingsIInv DEF LoseDatabase, outcome
  <1>23. CASE UNCHANGED prepareVars BY <1>23, PrepareStutterIInv
  <1> QED BY <1>1, <1>2, <1>3, <1>4, <1>5, <1>6, <1>7, <1>8, <1>9, <1>10, <1>11, <1>12, <1>13,
             <1>14, <1>15, <1>16, <1>17, <1>18, <1>19, <1>20, <1>21, <1>22, <1>23 DEF PrepareNext, Step

LEMMA PrepareIInvHolds == PrepareSpec => []PrepareIInv
  BY PrepareInitIInv, PrepareNextIInv, PTL DEF PrepareSpec

-----------------------------------------------------------------------------
(* The batches, as BuildBatches computes them.                             *)

\* determineNeededItems() only ever adds groups of items that are present and
\* never an empty one.
GroupsPresent ==
    \A i \in B!Present : \A group \in needed[i] : group \subseteq B!Present /\ group # {}

\* There is no batch without a package.
NoneEmpty == \A k \in DOMAIN batches : batches[k] # {}

\* Nothing has been computed before the start, nothing is left over before the
\* end.
FreshBatches ==
    /\ phase = "idle" => batches = <<>> /\ done = {} /\ B!Present = {}
    /\ phase # "finished" => leftovers = {}

\* A batch is made of items that are done, so NeededEarlier needs EachOnce to
\* find the batch of what is done; LeftoversCyclic needs that groups are not
\* empty and do not leave the items.
BatchesIInv ==
    /\ B!TypeOK /\ B!EachOnce /\ B!NeededEarlier /\ B!LeftoversCyclic
    /\ NoneEmpty /\ GroupsPresent /\ FreshBatches

\* A further batch keeps those before it.
LEMMA Appended ==
    ASSUME NEW s \in Seq(SUBSET Names), NEW batch \in SUBSET Names
    PROVE  /\ Append(s, batch) \in Seq(SUBSET Names)
           /\ DOMAIN Append(s, batch) = 1 .. Len(s) + 1
           /\ DOMAIN s = 1 .. Len(s)
           /\ Len(s) \in Nat
           /\ \A k \in 1 .. Len(s) : Append(s, batch)[k] = s[k]
           /\ Append(s, batch)[Len(s) + 1] = batch
  OBVIOUS

\* Nothing has been prepared yet.
LEMMA BatchesInitIInv == B!Init => BatchesIInv
  BY DEF B!Init, BatchesIInv, B!TypeOK, B!EachOnce, B!NeededEarlier, B!LeftoversCyclic,
         NoneEmpty, GroupsPresent, FreshBatches, B!Present, B!Nothing

\* determineNeededItems() has looked at every package.
LEMMA StartOrderIInv ==
    ASSUME BatchesIInv, NEW items \in SUBSET Names, B!Start(items) PROVE BatchesIInv'
  <1>1. needed' \in [items -> SUBSET ((SUBSET items) \ {{}})] BY DEF B!Start
  <1>2. B!Present' = items BY <1>1 DEF B!Present
  <1>3. batches' = <<>> /\ done' = {} /\ leftovers' = {} /\ phase' = "computing"
    BY DEF B!Start, BatchesIInv, FreshBatches
  <1>4. B!TypeOK' BY <1>1, <1>2, <1>3 DEF B!TypeOK
  <1>5. B!EachOnce' /\ B!NeededEarlier' /\ B!LeftoversCyclic' /\ NoneEmpty' /\ FreshBatches'
    BY <1>3 DEF B!EachOnce, B!NeededEarlier, B!LeftoversCyclic, NoneEmpty, FreshBatches
  <1>6. GroupsPresent'
    <2> SUFFICES ASSUME NEW i \in items, NEW group \in needed'[i]
                 PROVE  group \subseteq items /\ group # {}
      BY <1>2 DEF GroupsPresent
    <2>1. needed'[i] \in SUBSET ((SUBSET items) \ {{}}) BY <1>1
    <2>2. group \in (SUBSET items) \ {{}} BY <2>1
    <2>3. group \subseteq items BY <2>2
    <2>4. group # {} BY <2>2
    <2> QED BY <2>3, <2>4
  <1> QED BY <1>4, <1>5, <1>6 DEF BatchesIInv

\* addItemsToBatch() has found a further batch.
LEMMA AddBatchIInv ==
    ASSUME BatchesIInv, B!AddBatch PROVE BatchesIInv'
  <1> DEFINE n == Len(batches)
  <1> USE DEF BatchesIInv
  <1>1. /\ B!Ready # {} /\ batches' = Append(batches, B!Ready) /\ done' = done \cup B!Ready
        /\ UNCHANGED <<phase, needed, leftovers>> /\ phase = "computing"
    BY DEF B!AddBatch
  <1>2. B!Ready \subseteq B!Present \ done BY DEF B!Ready
  <1>3. B!Ready \in SUBSET Names BY <1>2 DEF B!TypeOK
  <1>4. /\ batches' \in Seq(SUBSET Names) /\ DOMAIN batches' = 1 .. n + 1
        /\ DOMAIN batches = 1 .. n /\ n \in Nat
        /\ \A k \in 1 .. n : batches'[k] = batches[k]
        /\ batches'[n + 1] = B!Ready
    BY <1>1, <1>3, Appended DEF B!TypeOK
  <1>5. B!Present' = B!Present BY <1>1 DEF B!Present
  <1>6. B!TypeOK' BY <1>1, <1>2, <1>4, <1>5 DEF B!TypeOK
  <1>7. \A k \in 1 .. n + 1 : k \in 1 .. n \/ k = n + 1 BY <1>4
  <1>8. B!EachOnce'
    <2>1. \A i \in done' : \E k \in DOMAIN batches' : i \in batches'[k]
      <3> SUFFICES ASSUME NEW i \in done' PROVE \E k \in DOMAIN batches' : i \in batches'[k]
        OBVIOUS
      <3>1. CASE i \in B!Ready BY <3>1, <1>4
      <3>2. CASE i \in done
        <4>1. PICK k \in DOMAIN batches : i \in batches[k] BY <3>2 DEF B!EachOnce
        <4>2. k \in 1 .. n + 1 BY <4>1, <1>4
        <4> QED BY <4>1, <4>2, <1>4
      <3> QED BY <3>1, <3>2, <1>1
    <2>2. \A k \in DOMAIN batches' : batches'[k] \subseteq done'
      BY <1>1, <1>4, <1>7 DEF B!EachOnce
    <2>3. \A k, l \in DOMAIN batches' : k # l => batches'[k] \cap batches'[l] = {}
      <3> SUFFICES ASSUME NEW k \in 1 .. n + 1, NEW l \in 1 .. n + 1, k # l
                   PROVE  batches'[k] \cap batches'[l] = {}
        BY <1>4
      <3>1. CASE k \in 1 .. n /\ l \in 1 .. n BY <3>1, <1>4 DEF B!EachOnce
      <3>2. CASE k = n + 1 /\ l \in 1 .. n BY <3>2, <1>2, <1>4 DEF B!EachOnce
      <3>3. CASE k \in 1 .. n /\ l = n + 1 BY <3>3, <1>2, <1>4 DEF B!EachOnce
      <3> QED BY <1>7, <3>1, <3>2, <3>3
    <2> QED BY <2>1, <2>2, <2>3 DEF B!EachOnce
  <1>9. B!NeededEarlier'
    <2> SUFFICES ASSUME NEW k \in 1 .. n + 1, NEW i \in batches'[k], NEW group \in needed'[i]
                 PROVE  \E l \in 1 .. k - 1 : group \cap batches'[l] # {}
      BY <1>4 DEF B!NeededEarlier
    <2>1. CASE k \in 1 .. n
      <3>1. PICK l \in 1 .. k - 1 : group \cap batches[l] # {}
        BY <2>1, <1>1, <1>4 DEF B!NeededEarlier
      <3>2. l \in 1 .. n BY <2>1, <3>1, <1>4
      <3> QED BY <3>1, <3>2, <1>4
    <2>2. CASE k = n + 1
      <3>1. i \in B!Ready /\ group \in needed[i] BY <2>2, <1>1, <1>4
      <3>2. group \cap done # {} BY <3>1 DEF B!Ready, B!Satisfied
      <3>3. PICK m \in group : m \in done BY <3>2
      <3>4. PICK l \in 1 .. n : m \in batches[l] BY <3>3, <1>4 DEF B!EachOnce
      <3>5. l \in 1 .. k - 1 BY <2>2, <3>4, <1>4
      <3> QED BY <3>3, <3>4, <3>5, <1>4
    <2> QED BY <1>7, <2>1, <2>2
  <1>10. B!LeftoversCyclic' /\ FreshBatches' BY <1>1 DEF B!LeftoversCyclic, FreshBatches
  <1>11. GroupsPresent' BY <1>1, <1>5 DEF GroupsPresent
  <1>12. NoneEmpty' BY <1>1, <1>4, <1>7 DEF B!AddBatch, NoneEmpty
  <1> QED BY <1>6, <1>8, <1>9, <1>10, <1>11, <1>12

\* addItemsToBatch() finds nothing that can be added.
LEMMA FinishIInv ==
    ASSUME BatchesIInv, B!Finish PROVE BatchesIInv'
  <1> USE DEF BatchesIInv
  <1>1. /\ UNCHANGED <<needed, done, batches>> /\ B!Ready = {}
        /\ leftovers' = B!Present \ done /\ phase' = "finished"
    BY DEF B!Finish
  <1>2. B!Present' = B!Present BY <1>1 DEF B!Present
  <1>3. B!TypeOK' BY <1>1, <1>2 DEF B!TypeOK
  <1>4. B!EachOnce' /\ B!NeededEarlier' /\ NoneEmpty'
    BY <1>1 DEF B!EachOnce, B!NeededEarlier, NoneEmpty
  <1>5. B!LeftoversCyclic'
    <2> SUFFICES ASSUME NEW i \in B!Present \ done
                 PROVE  \E group \in needed[i] : group \subseteq B!Present \ done /\ group # {}
      BY <1>1 DEF B!LeftoversCyclic
    <2>1. PICK group \in needed[i] : group \cap done = {} BY <1>1 DEF B!Ready, B!Satisfied
    <2> QED BY <2>1 DEF GroupsPresent
  <1>6. GroupsPresent' /\ FreshBatches' BY <1>1, <1>2 DEF GroupsPresent, FreshBatches
  <1> QED BY <1>3, <1>4, <1>5, <1>6

\* The batches are given up.
LEMMA CancelIInv ==
    ASSUME BatchesIInv, B!Cancel PROVE BatchesIInv'
  <1>1. /\ phase' = "finished" /\ batches' = <<>> /\ done' = {}
        /\ needed' = B!Nothing /\ leftovers' = {}
    BY DEF B!Cancel, BatchesIInv, FreshBatches
  <1> QED BY <1>1 DEF BatchesIInv, B!TypeOK, B!EachOnce, B!NeededEarlier, B!LeftoversCyclic,
                      NoneEmpty, GroupsPresent, FreshBatches, B!Present, B!Nothing

\* Keeping the specified order, nothing is considered to be needed.
LEMMA KeepOrderIInv ==
    ASSUME BatchesIInv, NEW n \in Nat, NEW order \in [1 .. n -> Names], B!KeepOrder(order)
    PROVE  BatchesIInv'
  <1> DEFINE items == {order[k] : k \in 1 .. n}
  <1>1. DOMAIN order = 1 .. n /\ Len(order) = n BY DEF B!KeepOrder
  <1>2. /\ phase' = "finished" /\ needed' = [i \in items |-> {}] /\ done' = items
        /\ batches' = [k \in 1 .. n |-> {order[k]}]
        /\ leftovers' = {}
        /\ \A k, l \in 1 .. n : order[k] = order[l] => k = l
    BY <1>1 DEF B!KeepOrder, BatchesIInv, FreshBatches
  <1>3. B!Present' = items BY <1>2 DEF B!Present
  <1>4. B!TypeOK'
    <2>1. batches' \in Seq(SUBSET Names) BY <1>2
    <2> QED BY <1>2, <1>3, <2>1 DEF B!TypeOK
  <1>5. B!EachOnce' BY <1>2 DEF B!EachOnce
  <1>6. B!NeededEarlier' BY <1>2 DEF B!NeededEarlier
  <1>7. B!LeftoversCyclic' /\ NoneEmpty' /\ GroupsPresent' /\ FreshBatches'
    BY <1>2, <1>3 DEF B!LeftoversCyclic, NoneEmpty, GroupsPresent, FreshBatches
  <1> QED BY <1>4, <1>5, <1>6, <1>7 DEF BatchesIInv

\* Nothing happens.
LEMMA BatchesStutterIInv ==
    ASSUME BatchesIInv, UNCHANGED B!vars PROVE BatchesIInv'
  BY DEF BatchesIInv, B!TypeOK, B!EachOnce, B!NeededEarlier, B!LeftoversCyclic, NoneEmpty,
         GroupsPresent, FreshBatches, B!Present, B!vars

\* The invariant is inductive.
LEMMA BatchesNextIInv ==
    ASSUME BatchesIInv, [B!Next]_(B!vars) PROVE BatchesIInv'
  <1>2. CASE \E items \in SUBSET Names : B!Start(items) BY <1>2, StartOrderIInv
  <1>3. CASE B!AddBatch BY <1>3, AddBatchIInv
  <1>4. CASE B!Finish BY <1>4, FinishIInv
  <1>5. CASE B!Cancel BY <1>5, CancelIInv
  <1>6. CASE \E n \in 0 .. B!Cardinality(Names) :
                \E order \in [1 .. n -> Names] : B!KeepOrder(order)
    <2>1. PICK n \in 0 .. B!Cardinality(Names) :
                  \E order \in [1 .. n -> Names] : B!KeepOrder(order)
      BY <1>6
    <2>2. n \in Nat OBVIOUS
    <2> QED BY <2>1, <2>2, KeepOrderIInv
  <1>7. CASE UNCHANGED B!vars BY <1>7, BatchesStutterIInv
  <1> QED BY <1>2, <1>3, <1>4, <1>5, <1>6, <1>7 DEF B!Next

\* The inductive invariant holds in every state in which computeBatches() leaves
\* the batches.
THEOREM BatchesInvariant == B!Spec => []BatchesIInv
  <1>1. B!Init => BatchesIInv BY BatchesInitIInv
  <1>2. BatchesIInv /\ [B!Next]_(B!vars) => BatchesIInv' BY BatchesNextIInv
  <1> QED BY <1>1, <1>2, PTL DEF B!Spec

\* computeBatches() never puts a package before what it needs: for everything it
\* needs, one package providing that is in an earlier batch.  What it reports as
\* cyclic leftovers really needs only each other.
THEOREM BatchesInOrder == B!Spec => []B!BatchesRight
  <1>1. BatchesIInv => B!BatchesRight BY DEF BatchesIInv, B!BatchesRight
  <1> QED BY <1>1, BatchesInvariant, PTL

\* addItemsToBatch() puts no package into two batches and every package that is
\* done into one.
THEOREM BatchesDisjoint == B!Spec => [](B!TypeOK /\ B!EachOnce)
  <1>1. BatchesIInv => B!TypeOK /\ B!EachOnce BY DEF BatchesIInv
  <1> QED BY <1>1, BatchesInvariant, PTL

\* The plan lists the packages of every batch, in any order.
Lists(plan) ==
    /\ DOMAIN plan = DOMAIN batches
    /\ \A i \in DOMAIN plan :
          /\ \A p : p \in batches[i] <=> \E n \in DOMAIN plan[i] : plan[i][n] = p
          /\ \A m, n \in DOMAIN plan[i] : plan[i][m] = plan[i][n] => m = n

\* What BatchAssumption demands of the batches to be built.
Fits(plan, packages) ==
    /\ \A i \in DOMAIN plan : plan[i] # <<>>
    /\ \A i, j \in DOMAIN plan : \A m \in DOMAIN plan[i], n \in DOMAIN plan[j] :
          plan[i][m] = plan[j][n] => i = j /\ m = n
    /\ \A p \in packages : \E i \in DOMAIN plan : \E n \in DOMAIN plan[i] : plan[i][n] = p

\* BatchProcessingSession may rely on what it assumes of the batches: however the
\* batches of computeBatches() are listed, none is empty, and every package that is
\* done is in exactly one place.
THEOREM BatchesFit ==
    B!Spec => [](\A plan \in Seq(Seq(Names)) : Lists(plan) => Fits(plan, done))
  <1>1. ASSUME BatchesIInv, NEW plan \in Seq(Seq(Names)), Lists(plan) PROVE Fits(plan, done)
    <2>1. ASSUME NEW i \in DOMAIN plan PROVE plan[i] # <<>>
      <3>1. i \in DOMAIN batches /\ batches[i] # {} BY <1>1 DEF Lists, BatchesIInv, NoneEmpty
      <3>2. PICK n \in DOMAIN plan[i] : TRUE BY <1>1, <3>1 DEF Lists
      <3> QED BY <3>2
    <2>2. ASSUME NEW i \in DOMAIN plan, NEW j \in DOMAIN plan,
                 NEW m \in DOMAIN plan[i], NEW n \in DOMAIN plan[j], plan[i][m] = plan[j][n]
          PROVE  i = j /\ m = n
      <3>1. plan[i][m] \in batches[i] /\ plan[i][m] \in batches[j] BY <1>1, <2>2 DEF Lists
      <3>2. i \in DOMAIN batches /\ j \in DOMAIN batches BY <1>1 DEF Lists
      <3>3. i = j BY <1>1, <3>1, <3>2 DEF BatchesIInv, B!EachOnce
      <3> QED BY <1>1, <2>2, <3>3 DEF Lists
    <2>3. ASSUME NEW p \in done
          PROVE  \E i \in DOMAIN plan : \E n \in DOMAIN plan[i] : plan[i][n] = p
      <3>1. PICK i \in DOMAIN batches : p \in batches[i] BY <1>1 DEF BatchesIInv, B!EachOnce
      <3> QED BY <1>1, <3>1 DEF Lists
    <2> QED BY <2>1, <2>2, <2>3 DEF Fits
  <1>2. BatchesIInv => \A plan \in Seq(Seq(Names)) : Lists(plan) => Fits(plan, done) BY <1>1
  <1> QED BY <1>2, BatchesInvariant, PTL

-----------------------------------------------------------------------------
(* The preparation computes the batches.                                   *)

\* Everything is done but what is left over.
Complete == phase = "finished" => leftovers = B!Present \ done

\* What each package needs is known from the moment the order is computed, and all
\* of them are considered unless that is disturbed.
Ordering ==
    /\ pc \notin {"batches", "finish", "done"} => phase = "idle"
    /\ pc = "batches" => phase = "computing" /\ B!Present = DOMAIN data
    /\ pc = "finish" \/ result = "success" =>
          (Undisturbed => phase = "finished" /\ B!Present = DOMAIN data)
    /\ result = "success" => leftovers = {}
    /\ ~Flag("keepOrder") =>
          \A n \in B!Present : \E order \in Orders : needed[n] \in NeededItems(n, order)

OrderIInv == PrepareIInv /\ BatchesIInv /\ Complete /\ Ordering

\* Every step computes batches or does not touch them.
LEMMA StepOfBatches ==
    ASSUME PrepareIInv, [PrepareNext]_prepareVars
    PROVE  [B!Next]_(B!vars)
  <1>1. ASSUME UNCHANGED ordering PROVE [B!Next]_(B!vars) BY <1>1 DEF ordering, B!vars
  <1>2. DOMAIN data \in SUBSET Names BY DEF PrepareIInv, Types
  <1>3. CASE BeginOrder
    <2>1. CASE UNCHANGED ordering BY <1>1, <2>1
    <2>2. CASE B!Cancel BY <2>2 DEF B!Next
    <2>3. CASE B!Start(DOMAIN data) BY <2>3, <1>2 DEF B!Next
    <2>4. ASSUME NEW order \in [1 .. Cardinality(DOMAIN data) -> DOMAIN data], B!KeepOrder(order)
          PROVE  B!Next
      <3> DEFINE n == Cardinality(DOMAIN data)
      <3>1. n \in 0 .. Cardinality(Names)
        <4>1. IsFiniteSet(DOMAIN data) /\ n <= Cardinality(Names)
          BY <1>2, NamesAssumption, FS_Subset
        <4>2. n \in Nat /\ Cardinality(Names) \in Nat BY <4>1, NamesAssumption, FS_CardinalityType
        <4> QED BY <4>1, <4>2
      <3>2. order \in [1 .. n -> Names] BY <1>2
      <3> HIDE DEF n
      <3>3. B!Cardinality(Names) = Cardinality(Names) BY DEF B!Cardinality, Cardinality
      <3> QED BY <2>4, <3>1, <3>2, <3>3 DEF B!Next
    <2> QED BY <1>3, <2>1, <2>2, <2>3, <2>4 DEF BeginOrder, ConcludeAborted
  <1>4. CASE ComputeBatch BY <1>4 DEF ComputeBatch, B!Next
  <1>5. CASE AbortBatches BY <1>5 DEF AbortBatches, B!Next
  <1>6. CASE UNCHANGED prepareVars BY <1>6, <1>1 DEF prepareVars
  <1>7. CASE Run \/ BeginFetch \/ SkipFetched \/ InvokeConversion \/ UseExisting \/ Obtain
    <2>1. UNCHANGED ordering
      BY <1>7 DEF Run, BeginFetch, ConcludeAborted, SkipFetched, InvokeConversion, UseExisting,
                  Obtain, FetchFrame
    <2> QED BY <2>1, <1>1
  <1>8. CASE \/ ProcessFails \/ SrcInfoDone \/ ConversionDone \/ Retry \/ Absent \/ Downloaded
    <2>1. UNCHANGED ordering
      BY <1>8 DEF ProcessFails, SrcInfoDone, ConversionDone, Retry, Absent, Downloaded, AsyncFrame
    <2> QED BY <2>1, <1>1
  <1>9. CASE \/ ComputeDependencies \/ FetchAgain \/ CheckAndBump \/ Finish
             \/ Abort \/ Stop \/ LoseDatabase
    <2>1. UNCHANGED ordering
      BY <1>9 DEF ComputeDependencies, FetchAgain, CheckAndBump, ConcludeAborted, Finish,
                  Abort, Stop, LoseDatabase
    <2> QED BY <2>1, <1>1
  <1> QED BY <1>3, <1>4, <1>5, <1>6, <1>7, <1>8, <1>9 DEF PrepareNext, Step

\* The preparation implements BuildBatches.
THEOREM ComputesBatches == PrepareSpec => B!Spec
  <1>1. PrepareInit => B!Init BY DEF PrepareInit
  <1>2. PrepareIInv /\ [PrepareNext]_prepareVars => [B!Next]_(B!vars) BY StepOfBatches
  <1> QED BY <1>1, <1>2, PrepareIInvHolds, PTL DEF PrepareSpec, B!Spec

\* What an item needs does not change with the batches.
LEMMA NeededItemsKept ==
    ASSUME data' = data, input' = input, NEW n, NEW order
    PROVE  NeededItems(n, order)' = NeededItems(n, order)
  <1>1. \A m, d : ItemOffers(m, d)' <=> ItemOffers(m, d) BY DEF ItemOffers, Recipe
  <1>2. \A d : Others(n, d)' = Others(n, d) BY <1>1 DEF Others
  <1>3. ItemRequires(n)' = ItemRequires(n) BY DEF ItemRequires, Recipe
  <1>4. \A d : Open(d)' <=> Open(d) BY <1>1 DEF Open
  <1>5. Visited(n)' = Visited(n)
    <2> DEFINE Closed(visited) ==
                  \A i \in DOMAIN input.existing \ visited :
                      \A d \in ItemRequires(n) \cup UNION {input.existing[k].deps : k \in visited} :
                          ~(Required(input.existing[i]) /\ Open(d) /\ ExistingOffers(input.existing[i], d))
    <2>1. Visited(n) = {i \in DOMAIN input.existing :
                           \A visited \in SUBSET DOMAIN input.existing : Closed(visited) => i \in visited}
      BY DEF Visited
    <2>2. Visited(n)' = {i \in DOMAIN input.existing :
                           \A visited \in SUBSET DOMAIN input.existing : Closed(visited)' => i \in visited}
      BY DEF Visited
    <2>3. \A visited : Closed(visited)' <=> Closed(visited)
      BY <1>3, <1>4 DEF Required, ExistingOffers
    <2> HIDE DEF Closed
    <2> QED BY <2>1, <2>2, <2>3
  <1>6. AllRequired(n)' = AllRequired(n) BY <1>3, <1>5 DEF AllRequired
  <1>7. Groups(n)' = Groups(n) BY <1>1, <1>2, <1>6 DEF Groups
  <1> QED BY <1>7 DEF NeededItems

LEMMA BatchesHold == PrepareSpec => []BatchesIInv
  BY ComputesBatches, BatchesInvariant, PTL

LEMMA CompleteHolds ==
    ASSUME BatchesIInv, Complete, [B!Next]_(B!vars) PROVE Complete'
  <1>1. CASE \E items \in SUBSET Names : B!Start(items) BY <1>1 DEF B!Start, Complete
  <1>2. CASE B!AddBatch BY <1>2 DEF B!AddBatch, Complete
  <1>3. CASE B!Finish BY <1>3 DEF B!Finish, Complete, B!Present
  <1>4. CASE B!Cancel
    BY <1>4 DEF B!Cancel, Complete, B!Present, B!Nothing, BatchesIInv, FreshBatches
  <1>5. CASE \E n \in 0 .. B!Cardinality(Names) : \E order \in [1 .. n -> Names] : B!KeepOrder(order)
    BY <1>5 DEF B!KeepOrder, Complete, B!Present, BatchesIInv, FreshBatches
  <1>6. CASE UNCHANGED B!vars BY <1>6 DEF B!vars, Complete, B!Present
  <1> QED BY <1>1, <1>2, <1>3, <1>4, <1>5, <1>6 DEF B!Next

\* A step that neither touches the batches nor, once they are being computed, the
\* build data.
LEMMA OrderingKept ==
    ASSUME Ordering, BatchesIInv, UNCHANGED <<input, ordering>>, phase = "idle" \/ UNCHANGED data,
           pc' \in {"batches", "finish"} => pc' = pc /\ UNCHANGED data,
           pc \in {"batches", "finish", "done"} => pc' \in {pc, "done"},
           Undisturbed' => Undisturbed,
           result' = "success" => /\ leftovers = {} /\ UNCHANGED data
                                  /\ pc = "finish" \/ result = "success"
    PROVE  Ordering'
  <1>1. /\ input' = input /\ phase' = phase /\ needed' = needed
        /\ leftovers' = leftovers /\ B!Present' = B!Present
    BY DEF ordering, B!Present
  <1>2. pc' \notin {"batches", "finish", "done"} => phase' = "idle" BY <1>1 DEF Ordering
  <1>3. pc' = "batches" => phase' = "computing" /\ B!Present' = DOMAIN data' BY <1>1 DEF Ordering
  <1>4. pc' = "finish" \/ result' = "success" =>
            (Undisturbed' => phase' = "finished" /\ B!Present' = DOMAIN data')
    BY <1>1 DEF Ordering
  <1>5. result' = "success" => leftovers' = {} BY <1>1
  <1>6. ASSUME ~Flag("keepOrder")', NEW n \in B!Present'
        PROVE  \E order \in Orders : needed'[n] \in NeededItems(n, order)'
    <2>1. ~Flag("keepOrder") /\ n \in B!Present BY <1>1, <1>6 DEF Flag
    <2>2. PICK order \in Orders : needed[n] \in NeededItems(n, order) BY <2>1 DEF Ordering
    <2>3. data' = data BY <2>1 DEF BatchesIInv, FreshBatches
    <2>4. NeededItems(n, order)' = NeededItems(n, order) BY <1>1, <2>3, NeededItemsKept
    <2> QED BY <1>1, <2>2, <2>4
  <1> QED BY <1>2, <1>3, <1>4, <1>5, <1>6 DEF Ordering

\* Every step keeps the order in line with the preparation.
LEMMA OrderingHolds ==
    ASSUME OrderIInv, [PrepareNext]_prepareVars PROVE Ordering'
  <1> USE DEF OrderIInv
  <1>1. CASE BeginOrder
    <2>1. pc = "bumped" /\ input' = input /\ data' = data /\ result # "success" /\ phase = "idle"
      BY <1>1 DEF BeginOrder, ConcludeAborted, OrderFrame, PrepareIInv, Stages, Ordering
    <2>2. CASE ConcludeAborted
      BY <2>1, <2>2, OrderingKept DEF ConcludeAborted, Undisturbed, control
    <2>3. CASE /\ OrderFrame /\ pc' = "finish" /\ UNCHANGED result /\ Flag("keepOrder")
               /\ \E order \in [1 .. Cardinality(DOMAIN data) -> DOMAIN data] :
                     Sorted(order) /\ B!KeepOrder(order)
      <3>1. PICK order \in [1 .. Cardinality(DOMAIN data) -> DOMAIN data] :
                Sorted(order) /\ B!KeepOrder(order)
        BY <2>3
      <3>2. phase' = "finished" /\ B!Present' = {order[k] : k \in DOMAIN order}
        BY <3>1 DEF B!KeepOrder, B!Present
      <3>3. B!Present' = DOMAIN data' BY <3>1, <3>2, <2>1 DEF Sorted
      <3> QED BY <2>1, <2>3, <3>2, <3>3 DEF Ordering, Flag
    <2>4. CASE OrderFrame /\ gone /\ B!Cancel /\ pc' = "finish" /\ result' = "failure"
      <3>1. B!Present' = {} BY <2>4 DEF B!Cancel, B!Present, B!Nothing
      <3>2. ~Undisturbed' BY <2>4 DEF OrderFrame, control, Undisturbed
      <3> QED BY <2>1, <2>4, <3>1, <3>2 DEF Ordering
    <2>5. CASE /\ OrderFrame /\ B!Start(DOMAIN data) /\ pc' = "batches" /\ UNCHANGED result
               /\ \E order \in Orders :
                     needed' \in {f \in [DOMAIN data -> UNION {NeededItems(n, order) : n \in DOMAIN data}] :
                                     \A n \in DOMAIN data : f[n] \in NeededItems(n, order)}
      <3>1. PICK order \in Orders :
                /\ needed' \in [DOMAIN data -> UNION {NeededItems(n, order) : n \in DOMAIN data}]
                /\ \A n \in DOMAIN data : needed'[n] \in NeededItems(n, order)
        BY <2>5
      <3>2. B!Present' = DOMAIN data /\ phase' = "computing" BY <2>5, <3>1 DEF B!Present, B!Start
      <3>3. \A n \in B!Present' : needed'[n] \in NeededItems(n, order)'
        BY <3>1, <3>2, <2>1, NeededItemsKept
      <3> QED BY <2>1, <2>5, <3>2, <3>3 DEF Ordering
    <2> QED BY <1>1, <2>2, <2>3, <2>4, <2>5 DEF BeginOrder
  <1>2. CASE ComputeBatch
    <2>1. /\ input' = input /\ data' = data /\ UNCHANGED result /\ needed' = needed
          /\ pc = "batches" /\ B!Present' = B!Present
      BY <1>2 DEF ComputeBatch, OrderFrame, B!AddBatch, B!Finish, B!Present
    <2>2. result' # "success" BY <2>1 DEF PrepareIInv, Stages
    <2>3. \/ pc' = "batches" /\ phase' = phase
          \/ pc' = "finish" /\ phase' = "finished"
      BY <2>1, <1>2 DEF ComputeBatch, B!AddBatch, B!Finish
    <2>4. ~Flag("keepOrder")' =>
              \A n \in B!Present' : \E order \in Orders : needed'[n] \in NeededItems(n, order)'
      <3> SUFFICES ASSUME ~Flag("keepOrder")', NEW n \in B!Present'
                   PROVE  \E order \in Orders : needed'[n] \in NeededItems(n, order)'
        OBVIOUS
      <3>1. PICK order \in Orders : needed[n] \in NeededItems(n, order) BY <2>1 DEF Ordering, Flag
      <3>2. NeededItems(n, order)' = NeededItems(n, order) BY <2>1, NeededItemsKept
      <3> QED BY <2>1, <3>1, <3>2
    <2> QED BY <2>1, <2>2, <2>3, <2>4 DEF Ordering
  <1>3. CASE AbortBatches
    <2>1. B!Present' = {} /\ ~Undisturbed' /\ pc' = "finish" /\ result' = "aborted"
      BY <1>3 DEF AbortBatches, B!Cancel, B!Present, B!Nothing, OrderFrame, control, Undisturbed
    <2> QED BY <2>1 DEF Ordering
  <1>4. CASE Finish
    BY <1>4, OrderingKept DEF Finish, control, Undisturbed
  <1>5. CASE Run \/ BeginFetch \/ SkipFetched \/ InvokeConversion \/ UseExisting \/ Obtain
    <2>1. /\ UNCHANGED <<input, ordering, control>> /\ phase = "idle"
          /\ pc \notin {"batches", "finish", "done"} /\ pc' \notin {"batches", "finish"}
          /\ result # "success" /\ result' # "success"
      BY <1>5 DEF Run, BeginFetch, ConcludeAborted, SkipFetched, InvokeConversion, UseExisting,
                  Obtain, FetchFrame, outcome, Ordering, PrepareIInv, Stages
    <2> QED BY <2>1, OrderingKept DEF control, Undisturbed
  <1>6. CASE ProcessFails \/ SrcInfoDone \/ ConversionDone \/ Retry \/ Absent \/ Downloaded
    <2>1. AsyncFrame /\ \E n : n \in DOMAIN pending
      BY <1>6 DEF ProcessFails, SrcInfoDone, ConversionDone, Retry, Absent, Downloaded
    <2>2. pc = "fetch" BY <2>1 DEF PrepareIInv, Stages
    <2> QED BY <2>1, <2>2, OrderingKept DEF AsyncFrame, outcome, control, Undisturbed, Ordering, PrepareIInv, Stages
  <1>7. CASE ComputeDependencies \/ FetchAgain \/ CheckAndBump
    <2>1. /\ UNCHANGED <<input, ordering, control>> /\ phase = "idle"
          /\ pc \notin {"batches", "finish", "done"} /\ pc' \notin {"batches", "finish"}
          /\ result # "success" /\ result' # "success"
      BY <1>7 DEF ComputeDependencies, FetchAgain, CheckAndBump, ConcludeAborted, outcome,
                  Ordering, PrepareIInv, Stages
    <2> QED BY <2>1, OrderingKept DEF control, Undisturbed
  <1>8. CASE Abort \/ Stop \/ LoseDatabase
    BY <1>8, OrderingKept DEF Abort, Stop, LoseDatabase, outcome, Undisturbed, Ordering
  <1>9. CASE UNCHANGED prepareVars
    BY <1>9, OrderingKept DEF prepareVars, outcome, control, Undisturbed, Ordering
  <1> QED BY <1>1, <1>2, <1>3, <1>4, <1>5, <1>6, <1>7, <1>8, <1>9 DEF PrepareNext, Step

LEMMA OrderInit == PrepareInit => OrderIInv
  <1> SUFFICES ASSUME PrepareInit PROVE OrderIInv OBVIOUS
  <1>1. PrepareIInv BY PrepareInitIInv
  <1>2. BatchesIInv BY BatchesInitIInv DEF PrepareInit
  <1>3. pc = "run" /\ phase = "idle" /\ result = "none" /\ B!Present = {}
    BY DEF PrepareInit, B!Init, B!Present, B!Nothing
  <1> QED BY <1>1, <1>2, <1>3 DEF OrderIInv, Complete, Ordering

\* The invariant of the preparation and its batches.
THEOREM OrderInvariant == PrepareSpec => []OrderIInv
  <1>1. PrepareInit => OrderIInv BY OrderInit
  <1>2. ASSUME OrderIInv, [PrepareNext]_prepareVars PROVE OrderIInv'
    <2>1. [B!Next]_(B!vars) BY <1>2, StepOfBatches DEF OrderIInv
    <2>2. PrepareIInv' BY <1>2, PrepareNextIInv DEF OrderIInv
    <2>3. BatchesIInv' BY <1>2, <2>1, BatchesNextIInv DEF OrderIInv
    <2>4. Complete' BY <1>2, <2>1, CompleteHolds DEF OrderIInv
    <2>5. Ordering' BY <1>2, OrderingHolds
    <2> QED BY <2>2, <2>3, <2>4, <2>5 DEF OrderIInv
  <1> QED BY <1>1, <1>2, PTL DEF PrepareSpec

-----------------------------------------------------------------------------
(* What ConductBuild may rely on                                           *)

\* The result of a preparation that has succeeded undisturbed.
LEMMA SuccessSound ==
    ASSUME OrderIInv, result = "success", Undisturbed
    PROVE  SuccessMeansSources /\ DependenciesCovered
  <1>1. phase = "finished" /\ B!Present = DOMAIN data /\ leftovers = {} BY DEF OrderIInv, Ordering
  <1>2. done = DOMAIN data BY <1>1 DEF OrderIInv, Complete, BatchesIInv, B!TypeOK
  <1>3. DOMAIN data = UNION {batches[k] : k \in DOMAIN batches}
    BY <1>2 DEF OrderIInv, BatchesIInv, B!EachOnce
  <1>4. AllSourced /\ \A n \in DOMAIN data : Datum(n) BY DEF OrderIInv, PrepareIInv, Stages
  <1>5. SuccessMeansSources BY <1>3, <1>4 DEF SuccessMeansSources, AllSourced, Datum, Sourced
  <1>6. DependenciesCovered BY <1>4 DEF DependenciesCovered, AllSourced, Datum, Covered
  <1> QED BY <1>5, <1>6

\* Versions are bumped beyond the existing ones and nothing of amended packages is
\* taken over.
LEMMA BumpSound ==
    ASSUME OrderIInv PROVE BumpedNewer /\ AmendedStartsOver
  <1>1. ASSUME NEW n \in DOMAIN data, data[n].version # None, data[n].existing # None,
               ~Flag("keepVersion"),
               ~(Recipe(n).vcs /\ data[n].source.version.epoch < data[n].existing.epoch)
        PROVE  IsNewer(CompareTo(data[n].existing, data[n].version))
    <2>1. /\ DatumType(data[n]) /\ data[n].source # None /\ data[n].version = NewVersion(n)
      BY <1>1 DEF OrderIInv, PrepareIInv, Types, Datum, Versioned
    <2>2. data[n].source \in Origins /\ data[n].existing \in Versions
      BY <1>1, <2>1 DEF DatumType
    <2>3. NewVersion(n) \in Versions /\ Below(data[n].existing, NewVersion(n))
      BY <1>1, <2>2, NewVersionType
    <2> QED BY <2>1, <2>2, <2>3, NewerFollows
  <1>2. BumpedNewer BY <1>1 DEF BumpedNewer
  <1>3. AmendedStartsOver BY DEF OrderIInv, PrepareIInv, StartedOver, AmendedStartsOver
  <1> QED BY <1>2, <1>3

\* What the preparation hands over to ConductBuild can be built, for all packages,
\* recipes, repositories and sources: the dependencies are covered, the versions are
\* newer than the existing ones, and former progress of amended packages is void.
THEOREM PreparationSound == PrepareSpec => []ResultSound
  <1>1. OrderIInv => PrepareTypeOK
    BY DEF OrderIInv, PrepareIInv, Types, ProcessType, BatchesIInv, PrepareTypeOK
  <1>2. OrderIInv => SuccessMeansSources /\ DependenciesCovered
    BY SuccessSound DEF SuccessMeansSources, DependenciesCovered
  <1>3. OrderIInv => BumpedNewer /\ AmendedStartsOver BY BumpSound
  <1>4. OrderIInv => ResultSound BY <1>1, <1>2, <1>3 DEF ResultSound
  <1> QED BY <1>4, OrderInvariant, PTL

\* addItemsToBatch() never puts a package before what it needs, and what
\* PrepareBuild reports as cyclic leftovers really needs only each other.
THEOREM PreparedInOrder == PrepareSpec => []BatchesRight
  <1>1. BatchesIInv => BatchesRight BY DEF BatchesIInv, B!BatchesRight, BatchesRight
  <1> QED BY <1>1, BatchesHold, PTL

\* What a package requires indirectly is visited.
LEMMA IndirectlyRequired ==
    ASSUME NEW n, NEW d \in RequiredIndirectly(n)
    PROVE  d \in AllRequired(n) /\ ~ItemOffers(n, d)
  <1>1. ~ItemOffers(n, d) BY DEF RequiredIndirectly
  <1>2. CASE d \in ItemRequires(n) BY <1>1, <1>2 DEF AllRequired
  <1>3. CASE d \notin ItemRequires(n)
    <2>1. PICK i \in DOMAIN input.existing :
              /\ Required(input.existing[i]) /\ d \in input.existing[i].deps
              /\ \E e \in ItemRequires(n) : ExistingOffers(input.existing[i], e) /\ Open(e)
      BY <1>3 DEF RequiredIndirectly, ToSet, Open
    <2>2. i \in Visited(n) BY <2>1 DEF Visited
    <2> QED BY <1>1, <2>1, <2>2 DEF AllRequired
  <1> QED BY <1>2, <1>3

\* One of some items is the first in an order.
LEMMA FirstExists ==
    ASSUME NEW order \in [Names -> Nat], NEW group \in SUBSET Names, group # {}
    PROVE  (CHOOSE m \in group : \A k \in group : order[m] <= order[k]) \in group
  <1> DEFINE S == {order[m] : m \in group}
  <1>1. S \in SUBSET Nat /\ S # {} OBVIOUS
  <1> HIDE DEF S
  <1>2. PICK x \in S : \A y \in S : x <= y BY <1>1, SmallestNumber
  <1>3. PICK m \in group : order[m] = x BY <1>2 DEF S
  <1>4. \A k \in group : order[m] <= order[k] BY <1>2, <1>3 DEF S
  <1> QED BY <1>4

\* A group that is not kept shares its first item with one that is.
LEMMA GroupKept ==
    ASSUME PrepareIInv, NEW n, NEW order \in Orders, NEW kept \in NeededItems(n, order),
           NEW g \in Groups(n)
    PROVE  g \in kept \/ \E h \in kept : h \in Groups(n) /\ h # g /\ g \cap h # {}
  <1> DEFINE First(group) == CHOOSE m \in group : \A k \in group : order[m] <= order[k]
             same == {h \in kept : First(h) = First(g)}
  <1>1. kept \in SUBSET Groups(n) /\ Cardinality(same) = 1 BY DEF NeededItems
  <1>2. same # {}
    <2> HIDE DEF same
    <2>1. Cardinality({}) = 0 BY FS_EmptySet
    <2> QED BY <1>1, <2>1
  <1>3. PICK h \in kept : First(h) = First(g) BY <1>2
  <1>4. order \in [Names -> Nat] BY OrdersAssumption
  <1>5. \A x \in Groups(n) : x \in SUBSET Names /\ x # {}
    BY DEF Groups, Others, PrepareIInv, Types
  <1>6. h \in Groups(n) BY <1>1
  <1>7. First(g) \in g /\ First(h) \in h
    <2>1. g \in SUBSET Names /\ g # {} /\ h \in SUBSET Names /\ h # {} BY <1>5, <1>6
    <2> QED BY <1>4, <2>1, FirstExists
  <1> HIDE DEF First
  <1> QED BY <1>3, <1>6, <1>7

\* Packages are built after what they depend on, whichever way the recipes, the
\* existing packages and the order of iteration are.
THEOREM DependenciesBuiltFirst == PrepareSpec => []DependenciesFirst
  <1>1. ASSUME OrderIInv, ~Flag("keepOrder"), NEW k \in DOMAIN batches, NEW n \in batches[k],
               NEW d \in RequiredIndirectly(n), Others(n, d) # {},
               ~\E g \in Groups(n) : g # Others(n, d) /\ g \cap Others(n, d) # {}
        PROVE  \E l \in 1 .. k - 1 : Others(n, d) \cap batches[l] # {}
    <2>1. d \in AllRequired(n) /\ ~ItemOffers(n, d) BY IndirectlyRequired
    <2>2. Others(n, d) \in Groups(n) BY <1>1, <2>1 DEF Groups
    <2>3. n \in B!Present BY <1>1 DEF OrderIInv, BatchesIInv, B!TypeOK, B!EachOnce
    <2>4. PICK order \in Orders : needed[n] \in NeededItems(n, order)
      BY <1>1, <2>3 DEF OrderIInv, Ordering
    <2>5. PrepareIInv BY <1>1 DEF OrderIInv
    <2>6. \/ Others(n, d) \in needed[n]
          \/ \E h \in needed[n] : h \in Groups(n) /\ h # Others(n, d) /\ Others(n, d) \cap h # {}
      BY <2>2, <2>4, <2>5, GroupKept
    <2>7. Others(n, d) \in needed[n] BY <1>1, <2>6
    <2> QED BY <1>1, <2>7 DEF OrderIInv, BatchesIInv, B!NeededEarlier
  <1>2. OrderIInv => DependenciesFirst BY <1>1 DEF DependenciesFirst
  <1> QED BY <1>2, OrderInvariant, PTL
=============================================================================
