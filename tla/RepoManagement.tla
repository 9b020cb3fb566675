---------------------------- MODULE RepoManagement ----------------------------
(***************************************************************************)
(* The build actions that work on whole repositories, running at the same  *)
(* time (librepomgr/buildactions/repomanagement.cpp): RemovePackages,      *)
(* MovePackages, CleanRepository and CheckForProblems, next to             *)
(* ReloadDatabase, which refreshes the contents held in memory.            *)
(*                                                                         *)
(* A database is the directory of a repository for one architecture with   *)
(* its database file; databases of one repository are siblings and share   *)
(* the "any" directory, where the packages for all architectures are       *)
(* stored while the databases' directories contain links to them.  Only    *)
(* repo-add and repo-remove run under the lock of a database: packages are *)
(* copied before it is taken and deleted after it has been released.       *)
(***************************************************************************)
EXTENDS Naturals, Sequences, FiniteSets

CONSTANTS
    Dbs,            \* the configured databases
    NoDb,           \* no database
    RepoOf,         \* the repository of each database
    DebugDb,        \* the database findDatabase(debugName()) returns, or NoDb
    Packages,       \* the packages, each with one version and one file
    AnyPackages,    \* those of architecture "any"
    DebugPackages,  \* those with the suffix "-debug"
    DebugName,      \* the name of a package with that suffix appended
    Jobs,           \* the build actions
    Job,            \* their parameters
    Listed0,        \* initial contents of the database files
    Files0,         \* initial files
    Together,       \* bound: the sets of jobs that are run at the same time
    Reloaded,       \* bound: the databases ReloadDatabase is run for
    CopyFaults      \* whether copying may fail for a reason outside of the model

Repos == {RepoOf[db] : db \in Dbs}
Dirs == Dbs \cup Repos
Paths == Dirs \X Packages \X {"pkg", "sig"}

MovingJobs == {j \in Jobs : Job[j].kind \in {"move", "remove"}}
RepoJobs == Jobs \ MovingJobs

ASSUME RepoAssumption ==
    /\ NoDb \notin Dbs
    /\ Dbs \cap Repos = {}
    /\ DebugDb \in [Dbs -> Dbs \cup {NoDb}] /\ \A db \in Dbs : DebugDb[db] # db
    /\ AnyPackages \subseteq Packages /\ DebugPackages \subseteq Packages
    /\ DOMAIN DebugName = Packages \ DebugPackages
    /\ Listed0 \in [Dbs -> SUBSET Packages] /\ Files0 \subseteq Paths
    /\ \A jobs \in Together : jobs \subseteq Jobs
    /\ \A j \in Jobs : Job[j].kind \in {"move", "remove", "clean", "check"}
    /\ \A j \in MovingJobs : Job[j].dest \in Dbs /\ Job[j].packages \subseteq Packages
    /\ \A j \in MovingJobs : Job[j].kind = "move" => Job[j].source \in Dbs
    /\ \A j \in RepoJobs : Job[j].dbs \subseteq Dbs

VARIABLES
    listed,     \* packages in the database file
    known,      \* packages in the database held in memory (LibPkg::Database)
    stale,      \* databases whose lastUpdate is not the last modification of the file
    files,      \* what is present in the directories
    archive,    \* what is present in their directory "archive"
    phase,      \* how far a job is
    step,       \* what happened to the package locations of a job
    failed,     \* m_result.failedPackages
    errors,     \* errors recorded by a job, and which of its tools failed
    tool,       \* the build processes of a job
    todo,       \* databases CleanRepository and CheckForProblems still have to visit
    locked,     \* databases they have locked shared
    seen,       \* the contents CleanRepository loaded for databases of other architectures
    flagged,    \* toArchive and toDelete
    problems,   \* what CheckForProblems found
    result      \* the result, "none" as long as the action is running

disk == <<files, archive>>
database == <<listed, known, stale>>
moving == <<step, failed, errors, tool>>
cleaning == <<todo, locked, seen, flagged, problems>>
vars == <<database, disk, phase, moving, cleaning, result>>

\* A location is a package and where it was found: in the database itself, in the
\* debug database under the name given, or there as companion of a package given.
Entries == Packages \X {"main", "debug", "companion"}
Tools == {"add", "addDebug", "remove", "removeDebug"}

\* located  to be copied     ready       in the list given to the tool     uncopied  given up
\* unlinked file handled, the one in "any" is next   unreferenced  no sibling refers to it
\* stuck    exception while handling it              finished
Steps == {"none", "located", "ready", "uncopied", "unlinked", "unreferenced", "stuck", "finished"}

\* asked  lock not requested yet   waiting  for the lock   running  holding it
\* handling  lock released, handler at work   lost  its callback was destroyed
ToolStates == {"none", "asked", "waiting", "running", "handling", "done", "lost"}

TypeOK ==
    /\ listed \in [Dbs -> SUBSET Packages] /\ known \in [Dbs -> SUBSET Packages]
    /\ stale \subseteq Dbs
    /\ files \subseteq Paths /\ archive \subseteq Paths
    /\ phase \in [Jobs -> {"absent", "new", "copying", "running", "flag", "sweep", "ended"}]
    /\ step \in [MovingJobs -> [Entries -> Steps]]
    /\ failed \in [MovingJobs -> SUBSET Packages]
    /\ errors \in [Jobs -> SUBSET (Tools \cup {"stale", "missing"})]
    /\ tool \in [MovingJobs -> [Tools -> ToolStates]]
    /\ todo \in [RepoJobs -> SUBSET Dbs] /\ locked \in [RepoJobs -> SUBSET Dbs]
    /\ seen \in [RepoJobs -> [Dbs -> SUBSET Packages]]
    /\ flagged \in [RepoJobs -> SUBSET Paths]
    /\ problems \in [RepoJobs -> SUBSET (Dbs \X Packages)]
    /\ result \in [Jobs -> {"none", "success", "failure"}]

Init ==
    /\ listed = Listed0 /\ known = Listed0 /\ stale = {}
    /\ files = Files0 /\ archive = {}
    /\ \E jobs \in Together : phase = [j \in Jobs |-> IF j \in jobs THEN "new" ELSE "absent"]
    /\ step = [j \in MovingJobs |-> [e \in Entries |-> "none"]]
    /\ failed = [j \in MovingJobs |-> {}]
    /\ errors = [j \in Jobs |-> {}]
    /\ tool = [j \in MovingJobs |-> [t \in Tools |-> "none"]]
    /\ todo = [j \in RepoJobs |-> Job[j].dbs]
    /\ locked = [j \in RepoJobs |-> {}]
    /\ seen = [j \in RepoJobs |-> [db \in Dbs |-> {}]]
    /\ flagged = [j \in RepoJobs |-> {}]
    /\ problems = [j \in RepoJobs |-> {}]
    /\ result = [j \in Jobs |-> "none"]

Concluded(j, r) ==
    /\ phase' = [phase EXCEPT ![j] = "ended"]
    /\ result' = [result EXCEPT ![j] = r]

------------------------------------------------------------------------------
(* Files *)

File(db, p) == <<db, p, "pkg">>
Stored(db, p) == <<RepoOf[db], p, "pkg">>
SignatureOf(path) == <<path[1], path[2], "sig">>

\* Database::locatePackage(): the file, or the link and the file it refers to
Present(db, p) == File(db, p) \in files /\ (p \in AnyPackages => Stored(db, p) \in files)

\* std::filesystem::exists() of the signature next to a package
Signed(db, p) ==
    /\ SignatureOf(File(db, p)) \in files
    /\ p \in AnyPackages => SignatureOf(Stored(db, p)) \in files

\* Mutation of Referenced: the databases of the other architectures are left out.
ReferencedNever(repo, p) == FALSE

\* isAnyPackageReferencedBySiblingRepos()
Referenced(repo, p) == \E db \in Dbs : RepoOf[db] = repo /\ File(db, p) \in files

------------------------------------------------------------------------------
(* PackageMovementAction: preparation *)

Source(j) == IF Job[j].kind = "move" THEN Job[j].source ELSE Job[j].dest

IsDebug(e) == e[2] # "main"
DbOf(j, e) == IF IsDebug(e) THEN DebugDb[Source(j)] ELSE Source(j)

\* locatePackages(): the locations listed in the databases
ListedEntries(j) ==
    LET debug == DebugDb[Source(j)]
        inDebug == IF debug = NoDb THEN {} ELSE known[debug]
        named == Job[j].packages \cap DebugPackages \cap inDebug
        companions == {DebugName[p] : p \in Job[j].packages \ DebugPackages} \cap inDebug
    IN  {<<p, "main">> : p \in (Job[j].packages \ named) \cap known[Source(j)]}
        \cup {<<p, "debug">> : p \in named} \cup {<<p, "companion">> : p \in companions}

\* The debug repositories have to exist for both databases or for none.
DebugConsistent(j) ==
    Job[j].kind = "move" => (DebugDb[Job[j].dest] = NoDb) = (DebugDb[Job[j].source] = NoDb)

ToolsWith(j, now, names) ==
    [t \in Tools |->
        IF t \in names /\ \E e \in Entries : now[e] = "ready" /\ IsDebug(e) = (t \in {"addDebug", "removeDebug"})
        THEN "asked" ELSE "none"]

\* prepareRepoAction(), and for RemovePackages the lists of names
Prepare(j) ==
    LET entries == ListedEntries(j)
        found == {e \in entries : Present(DbOf(j, e), e[1])}
        next == IF Job[j].kind = "move" THEN "located" ELSE "ready"
    IN
    /\ phase[j] = "new" /\ j \in MovingJobs
    /\ IF ~DebugConsistent(j)
       THEN Concluded(j, "failure") /\ UNCHANGED moving
       ELSE /\ failed' = [failed EXCEPT ![j] =
                  {e[1] : e \in entries \ found} \cup {p \in Job[j].packages : \A e \in entries : e[1] # p}]
            /\ IF found = {}
               THEN Concluded(j, "failure") /\ UNCHANGED <<step, errors, tool>>
               ELSE /\ step' = [step EXCEPT ![j] = [e \in Entries |-> IF e \in found THEN next ELSE "none"]]
                    /\ phase' = [phase EXCEPT ![j] = IF next = "located" THEN "copying" ELSE "running"]
                    /\ tool' = [tool EXCEPT ![j] = IF next = "located" THEN @
                                                   ELSE ToolsWith(j, step'[j], {"remove", "removeDebug"})]
                    /\ UNCHANGED <<errors, result>>
    /\ UNCHANGED <<database, disk, cleaning>>

------------------------------------------------------------------------------
(* MovePackages::copyPackagesFromSourceToDestinationRepo() *)

TargetOf(j, e) == IF IsDebug(e) THEN DebugDb[Job[j].dest] ELSE Job[j].dest

\* What is copied for a package, in this order, as pairs of paths.
Copies(from, to, p) ==
    LET file == <<File(from, p), File(to, p)>>
        stored == <<Stored(from, p), Stored(to, p)>>
        signature(pair) == <<SignatureOf(pair[1]), SignatureOf(pair[2])>>
        SignatureIf(condition, pair) == IF condition THEN <<signature(pair)>> ELSE <<>>
    IN  IF p \in AnyPackages
        THEN <<file, stored>> \o SignatureIf(Signed(from, p), file)
                              \o SignatureIf(SignatureOf(stored[1]) \in files, stored)
        ELSE <<file>> \o SignatureIf(Signed(from, p), file)

\* A copy fails if there is nothing to copy or something is in its place already.
Exists(copy) == copy[1] \in files /\ copy[2] \in files
Possible(copy) == copy[1] \in files /\ copy[2] \notin files

\* The exception thrown by copy n + 1 is ignored if it says that the file exists.
CopiedOrIgnored(j, copies, n) == n = Len(copies) \/ (Job[j].ignore /\ Exists(copies[n + 1]))

\* One package of the loop; the packages of the database come before the debug ones.
Copy(j, e) ==
    LET copies == Copies(DbOf(j, e), TargetOf(j, e), e[1]) IN
    /\ phase[j] = "copying" /\ step[j][e] = "located"
    /\ IsDebug(e) => \A other \in Entries : step[j][other] = "located" => IsDebug(other)
    /\ \E n \in 0..Len(copies) :
          /\ \A i \in 1..n : Possible(copies[i])
          /\ n < Len(copies) => CopyFaults \/ ~Possible(copies[n + 1])
          /\ files' = files \cup {copies[i][2] : i \in 1..n}
          /\ IF CopiedOrIgnored(j, copies, n)
             THEN step' = [step EXCEPT ![j][e] = "ready"] /\ UNCHANGED failed
             ELSE /\ step' = [step EXCEPT ![j][e] = "uncopied"]
                  /\ failed' = [failed EXCEPT ![j] = @ \cup {e[1]}]
    /\ UNCHANGED <<database, archive, phase, errors, tool, cleaning, result>>

\* The rest of MovePackages::run(): ask for the locks unless nothing could be copied.
Copied(j) ==
    /\ phase[j] = "copying"
    /\ \A e \in Entries : step[j][e] # "located"
    /\ IF \E e \in Entries : step[j][e] = "ready"
       THEN /\ tool' = [tool EXCEPT ![j] = ToolsWith(j, step[j], Tools)]
            /\ phase' = [phase EXCEPT ![j] = "running"]
            /\ UNCHANGED result
       ELSE Concluded(j, "failure") /\ UNCHANGED tool
    /\ UNCHANGED <<database, disk, step, failed, errors, cleaning>>

------------------------------------------------------------------------------
(* repo-add and repo-remove under the lock of a database *)

ToolDb(j, t) ==
    CASE t = "add" -> Job[j].dest
      [] t = "addDebug" -> DebugDb[Job[j].dest]
      [] t = "remove" -> Source(j)
      [] t = "removeDebug" -> DebugDb[Source(j)]

\* The locations whose files or names are given to a tool.
InList(t, e) == IsDebug(e) = (t \in {"addDebug", "removeDebug"})
Given(j, t) == {e[1] : e \in {x \in Entries : InList(t, x) /\ step[j][x] \notin {"none", "uncopied"}}}

Writing(db) == \E j \in MovingJobs, t \in Tools : tool[j][t] = "running" /\ ToolDb(j, t) = db
Free(db) == ~Writing(db) /\ \A j \in RepoJobs : db \notin locked[j]

\* Locks::acquireToWrite(): a callback of another job still waiting is destroyed.
Request(j, t) ==
    LET db == ToolDb(j, t) IN
    /\ tool[j][t] = "asked"
    /\ IF Free(db)
       THEN tool' = [tool EXCEPT ![j][t] = "running"]
       ELSE tool' = [i \in MovingJobs |-> [u \in Tools |->
                IF i = j /\ u = t THEN "waiting"
                ELSE IF tool[i][u] = "waiting" /\ ToolDb(i, u) = db THEN "lost" ELSE tool[i][u]]]
    /\ UNCHANGED <<database, disk, phase, step, failed, errors, cleaning, result>>

\* The callback is invoked and launches the process.
Launch(j, t) ==
    /\ tool[j][t] = "waiting" /\ Free(ToolDb(j, t))
    /\ tool' = [tool EXCEPT ![j][t] = "running"]
    /\ UNCHANGED <<database, disk, phase, step, failed, errors, cleaning, result>>

\* What is reported after the conclusion is lost with the moved-from m_result.
Fails(j, packages) ==
    failed' = IF result[j] = "none" THEN [failed EXCEPT ![j] = @ \cup packages] ELSE failed

\* The tool has changed the database file; the lock goes with the process session.
Succeed(j, t) ==
    LET db == ToolDb(j, t) IN
    /\ tool[j][t] = "running"
    /\ IF t \in {"add", "addDebug"}
       THEN /\ \A p \in Given(j, t) : Present(db, p)
            /\ listed' = [listed EXCEPT ![db] = @ \cup Given(j, t)]
            /\ tool' = [tool EXCEPT ![j][t] = "done"]
       ELSE /\ listed' = [listed EXCEPT ![db] = @ \ Given(j, t)]
            /\ tool' = [tool EXCEPT ![j][t] = "handling"]
    /\ stale' = stale \cup {db}
    /\ UNCHANGED <<known, disk, phase, step, failed, errors, cleaning, result>>

\* It could not be launched or returned a non-zero exit code.
Fail(j, t) ==
    /\ tool[j][t] = "running"
    /\ tool' = [tool EXCEPT ![j][t] = "done"]
    /\ errors' = [errors EXCEPT ![j] = @ \cup {t}]
    /\ IF Job[j].kind = "remove" THEN Fails(j, Given(j, t)) ELSE UNCHANGED failed
    /\ UNCHANGED <<database, disk, phase, step, cleaning, result>>

------------------------------------------------------------------------------
(* handleRepoRemoveResult(): deleting or archiving the files *)

Handling(j, e) == \E t \in {"remove", "removeDebug"} : tool[j][t] = "handling" /\ InList(t, e)

ToHandle(j, e) == step[j][e] = "ready"

\* The file of a package, or the link to it; one package of a list after the other.
Unlink(j, e) ==
    LET file == File(DbOf(j, e), e[1])
        signature == SignatureOf(file)
        archived == {file} \cup IF Signed(DbOf(j, e), e[1]) THEN {signature} ELSE {}
        after == IF e[1] \in AnyPackages THEN "unlinked" ELSE "finished"
    IN
    /\ Handling(j, e) /\ ToHandle(j, e)
    /\ \A other \in Entries : IsDebug(other) = IsDebug(e) => step[j][other] \notin {"unlinked", "unreferenced"}
    /\ IF Job[j].kind = "move"
       THEN /\ files' = files \ {file, signature}
            /\ step' = [step EXCEPT ![j][e] = after]
            /\ UNCHANGED <<archive, failed>>
       ELSE IF file \in files
       THEN /\ files' = files \ archived
            /\ archive' = archive \cup archived
            /\ step' = [step EXCEPT ![j][e] = after]
            /\ UNCHANGED failed
       ELSE /\ step' = [step EXCEPT ![j][e] = "stuck"]
            /\ Fails(j, {e[1]})
            /\ UNCHANGED disk
    /\ UNCHANGED <<database, phase, errors, tool, cleaning, result>>

CheckSiblings(j, e) ==
    /\ step[j][e] = "unlinked"
    /\ step' = [step EXCEPT ![j][e] = IF Referenced(RepoOf[DbOf(j, e)], e[1]) THEN "finished" ELSE "unreferenced"]
    /\ UNCHANGED <<database, disk, phase, failed, errors, tool, cleaning, result>>

\* The file in "any"
Drop(j, e) ==
    LET file == Stored(DbOf(j, e), e[1])
        pair == {file, SignatureOf(file)}
    IN
    /\ step[j][e] = "unreferenced"
    /\ IF Job[j].kind = "move"
       THEN /\ files' = files \ pair
            /\ step' = [step EXCEPT ![j][e] = "finished"]
            /\ UNCHANGED <<archive, failed>>
       ELSE IF file \in files
       THEN /\ files' = files \ pair
            /\ archive' = archive \cup (pair \cap files)
            /\ step' = [step EXCEPT ![j][e] = "finished"]
            /\ UNCHANGED failed
       ELSE /\ step' = [step EXCEPT ![j][e] = "stuck"]
            /\ Fails(j, {e[1]})
            /\ UNCHANGED disk
    /\ UNCHANGED <<database, phase, errors, tool, cleaning, result>>

Handled(j, t) ==
    /\ tool[j][t] = "handling"
    /\ \A e \in Entries : InList(t, e) => step[j][e] \in {"none", "uncopied", "stuck", "finished"}
    /\ tool' = [tool EXCEPT ![j][t] = "done"]
    /\ UNCHANGED <<database, disk, phase, step, failed, errors, cleaning, result>>

\* Mutation of SessionReleased: moving concludes like removing.
SessionReleasedEarly(j) == \A t \in Tools : tool[j][t] \notin {"asked", "waiting"}

\* The session whose destructor posts conclude(): MovePackages binds it to the handlers
\* of the processes, RemovePackages only to the callbacks of the locks.
SessionReleased(j) ==
    \A t \in Tools : IF Job[j].kind = "move" THEN tool[j][t] \in {"none", "done"}
                                             ELSE tool[j][t] \notin {"asked", "waiting"}

Successful(j) == failed[j] = {} /\ (Job[j].kind = "move" => errors[j] = {})

\* RemovePackages::conclude(), MovePackages::conclude()
Conclude(j) ==
    /\ phase[j] = "running" /\ SessionReleased(j)
    /\ Concluded(j, IF Successful(j) THEN "success" ELSE "failure")
    /\ UNCHANGED <<database, disk, moving, cleaning>>

------------------------------------------------------------------------------
(* CheckForProblems and CleanRepository *)

\* acquireToRead() of the database, waiting for it in the thread of the job.
Readable(j, db) == phase[j] = "new" /\ db \in todo[j] /\ ~Writing(db)

\* One database of CheckForProblems::run(), whose lock is released after it.
CheckDatabase(j, db) ==
    /\ Job[j].kind = "check" /\ Readable(j, db)
    /\ problems' = [problems EXCEPT ![j] = @ \cup {<<db, p>> : p \in {q \in known[db] : ~Present(db, q)}}]
    /\ todo' = [todo EXCEPT ![j] = @ \ {db}]
    /\ UNCHANGED <<database, disk, phase, moving, locked, seen, flagged, result>>

Checked(j) ==
    /\ Job[j].kind = "check" /\ phase[j] = "new" /\ todo[j] = {}
    /\ Concluded(j, "success")
    /\ UNCHANGED <<database, disk, moving, cleaning>>

\* CleanRepository::run() compares the last modification before it takes the lock; a
\* difference is fatal when all databases have been visited.
CompareModification(j, db) ==
    /\ Job[j].kind = "clean" /\ phase[j] = "new"
    /\ db \in todo[j] /\ Job[j].dbs \ todo[j] = locked[j]
    /\ errors' = [errors EXCEPT ![j] = IF db \in stale THEN @ \cup {"stale"} ELSE @]
    /\ todo' = [todo EXCEPT ![j] = @ \ {db}]
    /\ UNCHANGED <<database, disk, phase, step, failed, tool, locked, seen, flagged, problems, result>>

LockDatabase(j, db) ==
    /\ Job[j].kind = "clean" /\ phase[j] = "new"
    /\ db \in (Job[j].dbs \ todo[j]) \ locked[j] /\ ~Writing(db)
    /\ locked' = [locked EXCEPT ![j] = @ \cup {db}]
    /\ UNCHANGED <<database, disk, phase, moving, todo, seen, flagged, problems, result>>

\* The repositories cleaned, with the databases for other architectures
Siblings(j) == {db \in Dbs : \E own \in Job[j].dbs : RepoOf[db] = RepoOf[own]}

\* The databases of the other architectures are read from their files; the lock taken
\* afterwards has a name of its own, as the temporary database has.
LoadSiblings(j) ==
    /\ Job[j].kind = "clean" /\ phase[j] = "new" /\ locked[j] = Job[j].dbs
    /\ IF errors[j] # {}
       THEN /\ Concluded(j, "failure")
            /\ locked' = [locked EXCEPT ![j] = {}]
            /\ UNCHANGED seen
       ELSE /\ seen' = [seen EXCEPT ![j] = [db \in Dbs |->
                  IF db \in Siblings(j) \ Job[j].dbs THEN listed[db] ELSE {}]]
            /\ phase' = [phase EXCEPT ![j] = "flag"]
            /\ UNCHANGED <<locked, result>>
    /\ UNCHANGED <<database, disk, moving, todo, flagged, problems>>

\* Mutation of RelevantDbs: only the database that is cleaned is relevant for "any".
RelevantDbsOwn(j, dir) == {db \in Job[j].dbs : db = dir \/ RepoOf[db] = dir}

RelevantDbs(j, dir) == {db \in Siblings(j) : db = dir \/ RepoOf[db] = dir}

\* Packages no relevant database lists are to be archived, lone signatures to be deleted.
FlagFiles(j) ==
    LET contents(db) == IF db \in Job[j].dbs THEN known[db] ELSE seen[j][db]
        dirs == Siblings(j) \cup {RepoOf[db] : db \in Siblings(j)}
        Unreferenced(path) == \A db \in RelevantDbs(j, path[1]) : path[2] \notin contents(db)
    IN
    /\ phase[j] = "flag"
    /\ flagged' = [flagged EXCEPT ![j] = {path \in files : path[1] \in dirs /\
           IF path[3] = "pkg" THEN Unreferenced(path) ELSE <<path[1], path[2], "pkg">> \notin files}]
    /\ phase' = [phase EXCEPT ![j] = "sweep"]
    /\ UNCHANGED <<database, disk, moving, todo, locked, seen, problems, result>>

\* One of the file system operations, with the signature of the file
Sweep(j, path) ==
    LET pair == {path, SignatureOf(path)} \cap files IN
    /\ path \in flagged[j]
    /\ flagged' = [flagged EXCEPT ![j] = @ \ {path}]
    /\ IF Job[j].dryRun \/ path \notin files
       THEN UNCHANGED disk
       ELSE /\ files' = files \ pair
            /\ archive' = IF path[3] = "pkg" THEN archive \cup pair ELSE archive
    /\ errors' = [errors EXCEPT ![j] =
           IF ~Job[j].dryRun /\ path[3] = "pkg" /\ path \notin files THEN @ \cup {"missing"} ELSE @]
    /\ UNCHANGED <<database, phase, step, failed, tool, todo, locked, seen, problems, result>>

\* Mutation of Swept: the shared locks are kept.
SweptLocked(j) ==
    /\ phase[j] = "sweep" /\ flagged[j] = {}
    /\ Concluded(j, IF errors[j] = {} THEN "success" ELSE "failure")
    /\ UNCHANGED <<database, disk, moving, cleaning>>

Swept(j) ==
    /\ phase[j] = "sweep" /\ flagged[j] = {}
    /\ Concluded(j, IF errors[j] = {} THEN "success" ELSE "failure")
    /\ locked' = [locked EXCEPT ![j] = {}]
    /\ UNCHANGED <<database, disk, moving, todo, seen, flagged, problems>>

\* ReloadDatabase::run() for one database
Reload(db) ==
    /\ db \in Reloaded /\ db \in stale /\ ~Writing(db)
    /\ known' = [known EXCEPT ![db] = listed[db]]
    /\ stale' = stale \ {db}
    /\ UNCHANGED <<listed, disk, phase, moving, cleaning, result>>

------------------------------------------------------------------------------

MoveStep(j) ==
    \/ Prepare(j)
    \/ \E e \in Entries : Copy(j, e) \/ Unlink(j, e) \/ CheckSiblings(j, e) \/ Drop(j, e)
    \/ Copied(j)
    \/ \E t \in Tools : Request(j, t) \/ Launch(j, t) \/ Succeed(j, t) \/ Fail(j, t) \/ Handled(j, t)
    \/ Conclude(j)

RepoStep(j) ==
    \/ \E db \in Dbs : CheckDatabase(j, db) \/ CompareModification(j, db) \/ LockDatabase(j, db)
    \/ Checked(j) \/ LoadSiblings(j) \/ FlagFiles(j) \/ Swept(j)
    \/ \E path \in flagged[j] : Sweep(j, path)

\* The job is over when it has concluded and its handlers, if any, have returned.
Over(j) == phase[j] \in {"absent", "ended"} /\ (j \in MovingJobs => \A t \in Tools : tool[j][t] \in {"none", "done", "lost"})

JobStep == (\E j \in MovingJobs : MoveStep(j)) \/ (\E j \in RepoJobs : RepoStep(j))

Next == JobStep \/ \E db \in Dbs : Reload(db)

------------------------------------------------------------------------------
(* Where the jobs start from and which ones are run at the same time       *)

\* The repositories are in order: what is listed is there, links of "any" packages are
\* listed and refer to a file, that file is linked, and no signature is alone.
ASSUME FilesAssumption ==
    /\ \A db \in Dbs : \A p \in Listed0[db] : File(db, p) \in Files0
    /\ \A db \in Dbs : \A p \in AnyPackages :
          /\ File(db, p) \in Files0 => p \in Listed0[db] /\ Stored(db, p) \in Files0
          /\ Stored(db, p) \in Files0 => \E sibling \in Dbs :
                RepoOf[sibling] = RepoOf[db] /\ File(sibling, p) \in Files0
    /\ \A path \in Files0 : \E dir \in Dirs :
          (path[2] \in AnyPackages => dir \in Repos) /\ <<dir, path[2], "pkg">> \in Files0

\* A database with its debug database
DbsOf(db) == {db, DebugDb[db]} \ {NoDb}

\* The packages a job may move or remove, and the databases it takes them from and puts
\* them into
Touched(j) == Job[j].packages \cup {DebugName[p] : p \in Job[j].packages \ DebugPackages}
Takes(j) == DbsOf(Source(j)) \X Touched(j)
Puts(j) == IF Job[j].kind = "move" THEN DbsOf(Job[j].dest) \X Touched(j) ELSE {}

Cleaning(j) == Job[j].kind = "clean" /\ ~Job[j].dryRun

\* Nothing in the code keeps actions from interfering.  Users start these together: no
\* package is put into a repository it is taken from or which is being cleaned, and one
\* job puts it into a database, for a single reason.
Independent(jobs) ==
    /\ \A i, j \in jobs \cap MovingJobs : \A from \in Takes(i), to \in Puts(j) :
          from[2] = to[2] => RepoOf[from[1]] # RepoOf[to[1]]
    /\ \A i, j \in jobs \cap MovingJobs : i # j => Puts(i) \cap Puts(j) = {}
    /\ \A j \in jobs \cap MovingJobs : \A p \in Job[j].packages \ DebugPackages :
          DebugName[p] \notin Job[j].packages \cap AnyPackages
    /\ \A i \in jobs \cap MovingJobs, j \in jobs \cap RepoJobs : Cleaning(j) =>
          \A to \in Puts(i) : to[1] \notin Siblings(j)

ASSUME TogetherAssumption == \A jobs \in Together : Independent(jobs)

------------------------------------------------------------------------------

\* Threads of the pool run, processes exit and locks are granted.
Spec == Init /\ [][Next]_vars /\ WF_vars(JobStep)

------------------------------------------------------------------------------
(* Properties *)

\* What a database file lists can be downloaded: the file is there, and for a package of
\* architecture "any" the file its link refers to (order of copying, repo-add, repo-remove
\* and deleting; isAnyPackageReferencedBySiblingRepos).
ListedPresent == \A db \in Dbs : \A p \in listed[db] : Present(db, p)

\* No package is lost: of each package there ever was, a file with its contents is in some
\* directory or archive (the ok flag of the locations, IgnoreExistingFiles).
ContentsKept ==
    \A p \in Packages : (\E path \in Files0 : path[2] = p) =>
        \E dir \in Dirs : (p \in AnyPackages => dir \in Repos) /\ <<dir, p, "pkg">> \in files \cup archive

\* Whatever jobs run at the same time and wherever copying fails, the repository
\* stays usable and nothing is lost.
RepositoryIntact == TypeOK /\ ListedPresent /\ ContentsKept

\* When all jobs are over, what is in an "any" directory is referred to by some database
\* of the repository, unless a job could not do its part (both of two siblings that
\* give up a package at the same time leave it to the other one).
NoOrphans ==
    (/\ \A j \in Jobs : Over(j)
     /\ \A j \in MovingJobs : \A e \in Entries : step[j][e] # "stuck")
    => \A db \in Dbs : \A p \in AnyPackages : Stored(db, p) \in files \cap Files0 =>
           \E sibling \in Dbs : RepoOf[sibling] = RepoOf[db] /\ File(sibling, p) \in files

\* A successful MovePackages has moved everything it was asked to: it concludes only after
\* repo-add and repo-remove of both databases have been handled.
SuccessMeansMoved ==
    \A j \in MovingJobs : Job[j].kind = "move" /\ result[j] = "success" =>
        \A p \in Job[j].packages : \E e \in Entries :
            /\ e[1] = p /\ step[j][e] # "none"
            /\ p \in listed[TargetOf(j, e)]
            /\ p \notin listed[DbOf(j, e)]
            /\ File(DbOf(j, e), p) \notin files

\* Nothing is left behind: neither in the "any" directory nor of a finished move.
NothingLeft == NoOrphans /\ SuccessMeansMoved

\* Whatever CleanRepository archives, packages that were listed keep their files.
CleanupKeepsListed ==
    \A j \in RepoJobs : phase[j] = "sweep" /\ flagged'[j] # flagged[j] =>
        \A db \in Dbs : \A p \in listed[db] : Present(db, p) => Present(db, p)'

\* CheckForProblems reports a listed package as missing only if the contents held
\* in memory are older than the database file.
FalseAlarmOnlyIfStale ==
    \A j \in RepoJobs : \A db \in Dbs :
        (\E p \in Packages : <<db, p>> \in problems'[j] \ problems[j]) => db \in stale

\* "cleanup isn't supposed to touch any files which actually still belong to the
\* repository" (repomanagement.cpp:768), and what is not wrong is not reported,
\* while packages are moved away from the repository or removed from it.
CleanupAndCheckAccurate == [][CleanupKeepsListed /\ FalseAlarmOnlyIfStale]_vars

\* Every job concludes.
EventuallyConcluded == \A j \in Jobs : <>(phase[j] \in {"absent", "ended"})
==============================================================================
