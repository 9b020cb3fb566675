---------------------------- MODULE ConductBuild ----------------------------
(***************************************************************************)
(* The "Conduct building" action (librepomgr/buildactions/conductbuild.cpp):*)
(* sources of all packages are downloaded in parallel, then the packages   *)
(* are built one after the other, batch by batch, signed and added to the  *)
(* repository.  The progress of every package is kept under a lock, dumped *)
(* to build-progress.json and read back when the action is started again,  *)
(* after it has failed or the service has been restarted.                  *)
(*                                                                         *)
(* The progress is protected by a shared mutex (LibPkg::Lockable) that a   *)
(* thread may still hold for reading when it calls lockToWrite().  Locks   *)
(* of chroots and stopping the action are the subject of ChrootBuild.      *)
(***************************************************************************)
EXTENDS BatchSession

CONSTANTS
    Dependencies,           \* packages providing dependencies of a package
    ManuallyOrdered,        \* the batches were not computed but specified
    Debug,                  \* packages whose build also makes a debug package
    NoPackage,              \* there is no current package
    Keys,                   \* packages whose sources come with GPG keys to import
    Signing,                \* a GPG key is configured
    MaxParallelDownloads,   \* 4 in the code
    Params,                 \* bound: flags and packages the action is started with
    MaxRuns                 \* bound: how often the action is started

ParamType == [asFarAsPossible : BOOLEAN, autoStaging : BOOLEAN, updateChecksums : BOOLEAN,
              relevant : SUBSET Packages]

ASSUME ConductAssumption ==
    /\ Dependencies \in [Packages -> SUBSET Packages]
    /\ ManuallyOrdered \in BOOLEAN /\ Signing \in BOOLEAN
    /\ Debug \subseteq Packages /\ Keys \subseteq Packages /\ NoPackage \notin Packages
    /\ MaxParallelDownloads \in Nat \ {0} /\ MaxRuns \in Nat
    /\ Params \subseteq ParamType

VARIABLES
    progress,   \* m_buildProgress.progressByPackage
    disk,       \* the same in build-progress.json
    params,     \* parameters of the current run
    runs,       \* number of runs
    result,     \* of the last run, "none" while one is executing
    downloads,  \* the download session, "slots" being the downloads which
                \* threads executing enqueueDownloads() may still start
    active,     \* the process downloading the sources of a package
    job,        \* the build session and the thread that works on it
    blocked,    \* a thread waits for the write lock while it holds the read lock
    stored,     \* databases repo-add has added a package to
    crashed     \* the service has been restarted during a build

vars == <<progress, disk, params, runs, result, downloads, active, job, blocked, stored, crashed>>

ProgressType ==
    [checksumsUpdated : BOOLEAN, hasSources : BOOLEAN, finished : BOOLEAN, addedToRepo : BOOLEAN,
     error : BOOLEAN, stagingNeeded : {"Undetermined", "No", "Yes"}]

NoProgress ==
    [checksumsUpdated |-> FALSE, hasSources |-> FALSE, finished |-> FALSE, addedToRepo |-> FALSE,
     error |-> FALSE, stagingNeeded |-> "Undetermined"]

\* none     not in this phase          next    about to call enqueueMakechrootpkg()
\* invoke   in invokeMakechrootpkg()   chroot  waiting for the lock of the chroot
\* build    makechrootpkg is running   add     in addPackageToRepo()
\* sign     gpg is running             repo    repo-add is running
\* end      the session is destroyed
PCs == {"none", "next", "invoke", "chroot", "build", "add", "sign", "repo", "end"}

\* failures  hasFailuresInPreviousBatches() when the package was selected
\* holds     a caller of the executing function still holds the read lock
\* dump      the progress is about to be dumped after launching a process
\* staged    the package goes to the staging database
\* repoAdds  running repo-add processes
JobType ==
    [pc : PCs, package : Packages \cup {NoPackage}, session : SessionType, failures : BOOLEAN,
     holds : BOOLEAN, dump : BOOLEAN, staged : BOOLEAN, repoAdds : SUBSET {"packages", "debug"}]

NoJob ==
    [pc |-> "none", package |-> NoPackage, session |-> NewSession(FALSE), failures |-> FALSE,
     holds |-> FALSE, dump |-> FALSE, staged |-> FALSE, repoAdds |-> {}]

Databases(p) == IF p \in Debug THEN {"packages", "debug"} ELSE {"packages"}

Init ==
    /\ progress = [p \in Packages |-> NoProgress]
    /\ disk = progress
    /\ params \in Params
    /\ runs = 0
    /\ result = "Error"     \* of the preparation, nothing is executing
    /\ downloads = [session |-> NewSession(FALSE), slots |-> 0]
    /\ active = [p \in Packages |-> "none"]
    /\ job = NoJob
    /\ blocked = FALSE
    /\ stored = [p \in Packages |-> {}]
    /\ crashed = FALSE

------------------------------------------------------------------------------
(* run() *)

\* A thread of the last run may still have to dump the progress.
Idle == result # "none" /\ ~job.dump

\* Parameters, configuration, executables, build-preparation.json or
\* build-progress.json are found to be invalid.
Reject ==
    /\ Idle /\ runs < MaxRuns
    /\ runs' = runs + 1
    /\ result' = "Error"
    /\ UNCHANGED <<progress, disk, params, downloads, active, job, blocked, stored, crashed>>

\* The progress is restored, completed with defaults and dumped again.
Start ==
    /\ Idle /\ runs < MaxRuns
    /\ runs' = runs + 1
    /\ params' \in Params
    /\ progress' = disk
    /\ result' = "none"
    /\ downloads' = [session |-> NewSession(FALSE), slots |-> MaxParallelDownloads]
    /\ job' = NoJob
    /\ UNCHANGED <<disk, active, blocked, stored, crashed>>

\* The service is restarted; what has not been dumped is lost.
Crash ==
    /\ result = "none"
    /\ result' = "Error"
    /\ progress' = disk
    /\ downloads' = [downloads EXCEPT !.slots = 0]
    /\ active' = [p \in Packages |-> "none"]
    /\ job' = NoJob
    /\ blocked' = FALSE
    /\ crashed' = TRUE
    /\ UNCHANGED <<disk, params, runs, stored>>

------------------------------------------------------------------------------
(* Downloading sources *)

Downloading == result = "none" /\ job.pc = "none"

\* Mutation of DownloadEnded: no further download is started.
DownloadEndedOnly(p) ==
    /\ active' = [active EXCEPT ![p] = "none"]
    /\ UNCHANGED downloads

\* A process handler stores its outcome and calls enqueueDownloads(session, 1).
DownloadEnded(p) ==
    /\ active' = [active EXCEPT ![p] = "none"]
    /\ downloads' = [downloads EXCEPT !.slots = @ + 1]

DownloadFailed(p) ==
    /\ progress' = [progress EXCEPT ![p].error = TRUE]
    /\ active' = [active EXCEPT ![p] = "none"]
    /\ downloads' = [downloads EXCEPT !.slots = @ + 1, !.session = WithResponse(@, p)]

Settled == SkipIrrelevant(downloads.session, params.relevant)

\* Mutation of NoFurtherDownload: the loop goes on.
NoFurtherDownloadLooping ==
    /\ Downloading /\ downloads.slots > 0
    /\ ~IsValid(Settled)
    /\ UNCHANGED vars

\* enqueueDownloads(): there is no further package.
NoFurtherDownload ==
    /\ Downloading /\ downloads.slots > 0
    /\ ~IsValid(Settled)
    /\ downloads' = [downloads EXCEPT !.slots = @ - 1]
    /\ UNCHANGED <<progress, disk, params, runs, result, active, job, blocked, stored, crashed>>

\* enqueueDownloads() continues with package p.
Enqueued(p) == Downloading /\ downloads.slots > 0 /\ IsValid(Settled) /\ CurrentPackage(Settled) = p

DownloadNeeded(p) == ~progress[p].finished /\ ~progress[p].hasSources /\ ~progress[p].addedToRepo

SkipDownload(p) ==
    /\ Enqueued(p) /\ ~DownloadNeeded(p)
    /\ downloads' = [downloads EXCEPT !.session = SelectNextPackage(Settled)]
    /\ UNCHANGED <<progress, disk, params, runs, result, active, job, blocked, stored, crashed>>

\* The build directory cannot be prepared; the read lock is given up for the write lock.
PrepareFails(p) ==
    /\ Enqueued(p) /\ DownloadNeeded(p) /\ ~blocked
    /\ progress' = [progress EXCEPT ![p].error = TRUE]
    /\ downloads' = [downloads EXCEPT !.session = WithResponse(SelectNextPackage(Settled), p)]
    /\ UNCHANGED <<disk, params, runs, result, active, job, blocked, stored, crashed>>

ChecksumsNeeded(p) == params.updateChecksums /\ ~progress[p].checksumsUpdated

\* invokeMakepkgToMakeSourcePackage() imports GPG keys first if there are any.
SourceProcess(p) == IF p \in Keys THEN "gpg" ELSE "makepkg"

\* invokeUpdatePkgSums(), or otherwise invokeMakepkgToMakeSourcePackage().
StartDownload(p) ==
    /\ Enqueued(p) /\ DownloadNeeded(p)
    /\ downloads' = [session |-> SelectNextPackage(Settled), slots |-> downloads.slots - 1]
    /\ active' = [active EXCEPT ![p] = IF ChecksumsNeeded(p) THEN "updpkgsums" ELSE SourceProcess(p)]
    /\ UNCHANGED <<progress, disk, params, runs, result, job, blocked, stored, crashed>>

\* The key directory cannot be read: invokeGpgForKeyImport() wants to store the
\* error while enqueueDownloads() holds the read lock.
KeyDirectoryFails(p) ==
    /\ p \in Keys /\ Enqueued(p) /\ DownloadNeeded(p) /\ ~ChecksumsNeeded(p)
    /\ blocked' = TRUE
    /\ downloads' = [downloads EXCEPT !.session = SelectNextPackage(Settled)]
    /\ UNCHANGED <<progress, disk, params, runs, result, active, job, stored, crashed>>

\* Handler of updpkgsums, outside of enqueueDownloads().  If the key directory
\* cannot be read the error is stored but no response is added.
ChecksumsDone(p) ==
    /\ active[p] = "updpkgsums" /\ ~blocked
    /\ \/ DownloadFailed(p)
       \/ /\ progress' = [progress EXCEPT ![p].checksumsUpdated = TRUE]
          /\ active' = [active EXCEPT ![p] = SourceProcess(p)]
          /\ UNCHANGED downloads
       \/ /\ p \in Keys
          /\ progress' = [progress EXCEPT ![p].checksumsUpdated = TRUE, ![p].error = TRUE]
          /\ DownloadEnded(p)
    /\ UNCHANGED <<disk, params, runs, result, job, blocked, stored, crashed>>

\* Handler of "gpg --import".
KeysImported(p) ==
    /\ active[p] = "gpg"
    /\ \/ ~blocked /\ DownloadFailed(p)
       \/ /\ active' = [active EXCEPT ![p] = "makepkg"]
          /\ UNCHANGED <<progress, downloads>>
    /\ UNCHANGED <<disk, params, runs, result, job, blocked, stored, crashed>>

\* Handler of "makepkg --source".
SourcesDone(p) ==
    /\ active[p] = "makepkg" /\ ~blocked
    /\ \/ DownloadFailed(p)
       \/ /\ progress' = [progress EXCEPT ![p].hasSources = TRUE]
          /\ DownloadEnded(p)
    /\ UNCHANGED <<disk, params, runs, result, job, blocked, stored, crashed>>

\* checkDownloadErrorsAndMakePackages(), posted when the last reference to the
\* session is gone.
DownloadsDone ==
    /\ Downloading /\ downloads.slots = 0 /\ ~blocked
    /\ \A p \in Packages : active[p] = "none"
    /\ disk' = progress
    /\ IF downloads.session.responses # {} /\ ~params.asFarAsPossible
       THEN result' = "Error" /\ UNCHANGED job
       ELSE /\ job' = [NoJob EXCEPT !.pc = "next", !.session = NewSession(~params.asFarAsPossible)]
            /\ UNCHANGED result
    /\ UNCHANGED <<progress, params, runs, downloads, active, blocked, stored, crashed>>

------------------------------------------------------------------------------
(* Building packages *)

Pkg == job.package

\* The build of the current package failed: addResponse() and on to the next one.
JobFailed == [job EXCEPT !.pc = "next", !.session = WithResponse(@, Pkg)]

\* The error is stored under the write lock while callers hold the read lock or not.
FailUnderWriteLock ==
    IF job.holds
    THEN blocked' = TRUE /\ UNCHANGED <<progress, job>>
    ELSE /\ progress' = [progress EXCEPT ![Pkg].error = TRUE]
         /\ job' = JobFailed
         /\ UNCHANGED blocked

\* The same for errors that are dumped.
FailAndDump ==
    /\ FailUnderWriteLock
    /\ disk' = IF job.holds THEN disk ELSE progress'

\* enqueueMakechrootpkg(): the callers return at the end of the chain.
SelectPackage ==
    LET s == SkipIrrelevant(job.session, params.relevant) IN
    /\ job.pc = "next"
    /\ job' = IF IsValid(s)
              THEN [job EXCEPT !.pc = "invoke", !.package = CurrentPackage(s),
                               !.session = SelectNextPackage(s),
                               !.failures = HasFailuresInPreviousBatches(job.session)]
              ELSE [job EXCEPT !.pc = "end", !.holds = FALSE]
    /\ UNCHANGED <<progress, disk, params, runs, result, downloads, active, blocked, stored, crashed>>

\* The package has already been added.
SkipPackage ==
    /\ job.pc = "invoke" /\ progress[Pkg].addedToRepo
    /\ job' = [job EXCEPT !.pc = "next",
                          !.session = IF params.autoStaging /\ progress[Pkg].stagingNeeded = "Yes"
                                      THEN EnableStagingInNextBatch(@) ELSE @]
    /\ UNCHANGED <<progress, disk, params, runs, result, downloads, active, blocked, stored, crashed>>

\* It has already been built; the progress is dumped when addPackageToRepo() returns.
AddFinished ==
    /\ job.pc = "invoke" /\ ~progress[Pkg].addedToRepo /\ progress[Pkg].finished
    /\ job' = [job EXCEPT !.pc = "add", !.dump = TRUE]
    /\ UNCHANGED <<progress, disk, params, runs, result, downloads, active, blocked, stored, crashed>>

\* checkForFailedDependency(): packages that were not added count as failed.
FailedDependency(p) == \E q \in Dependencies[p] \ {p} : ~progress[q].addedToRepo

DependencyMissing ==
    (params.asFarAsPossible \/ ManuallyOrdered) /\ job.failures /\ FailedDependency(Pkg)

ToBeBuilt == job.pc = "invoke" /\ ~progress[Pkg].addedToRepo /\ ~progress[Pkg].finished

\* "unable to build because dependency failed", or the chroot is unusable.
RefuseBuild ==
    /\ ToBeBuilt
    /\ DependencyMissing \/ progress[Pkg].hasSources
    /\ FailUnderWriteLock
    /\ UNCHANGED <<disk, params, runs, result, downloads, active, stored, crashed>>

\* Sources are missing: if there is an error already the read lock is not given
\* up when the callback continues with the next package.
RefuseWithoutSources ==
    /\ ToBeBuilt /\ ~DependencyMissing /\ ~progress[Pkg].hasSources
    /\ IF progress[Pkg].error
       THEN /\ job' = [JobFailed EXCEPT !.holds = TRUE]
            /\ UNCHANGED <<progress, blocked>>
       ELSE FailUnderWriteLock
    /\ UNCHANGED <<disk, params, runs, result, downloads, active, stored, crashed>>

\* acquireToWrite() returns and so do all callers.
RequestChroot ==
    /\ ToBeBuilt /\ ~DependencyMissing /\ progress[Pkg].hasSources
    /\ job' = [job EXCEPT !.pc = "chroot", !.holds = FALSE]
    /\ UNCHANGED <<progress, disk, params, runs, result, downloads, active, blocked, stored, crashed>>

\* invokeMakechrootpkgStep2() and Step3(), or invokeMakecontainerpkg(): the
\* configuration may not be copied; after launching the progress is dumped.
LaunchBuild ==
    /\ job.pc = "chroot"
    /\ \/ /\ progress' = [progress EXCEPT ![Pkg].error = TRUE]
          /\ job' = JobFailed
       \/ /\ job' = [job EXCEPT !.pc = "build", !.dump = TRUE]
          /\ UNCHANGED progress
    /\ UNCHANGED <<disk, params, runs, result, downloads, active, blocked, stored, crashed>>

\* The callback of enqueueMakechrootpkg() after a process has been launched,
\* possibly executed after the handler of that process.
DumpAfterLaunch ==
    /\ job.dump
    /\ disk' = progress
    /\ job' = [job EXCEPT !.dump = FALSE]
    /\ UNCHANGED <<progress, params, runs, result, downloads, active, blocked, stored, crashed>>

\* handleMakechrootpkgErrorsAndAddPackageToRepo()
BuildDone ==
    /\ job.pc = "build"
    /\ \/ FailAndDump
       \/ /\ progress' = [progress EXCEPT ![Pkg].finished = TRUE]
          /\ job' = [job EXCEPT !.pc = "add"]
          /\ UNCHANGED <<disk, blocked>>
    /\ UNCHANGED <<params, runs, result, downloads, active, stored, crashed>>

\* checkWhetherStagingIsNeededAndPopulateRebuildList() is only called if the answer
\* was not "no" before.
StagingOutcomes(p) ==
    IF progress[p].stagingNeeded = "No" THEN {"No"}
    ELSE IF params.autoStaging THEN {"No", "Yes"} ELSE {"Undetermined"}

\* addPackageToRepo(): packages are missing or the check throws.
AddFails ==
    /\ job.pc = "add"
    /\ FailAndDump
    /\ UNCHANGED <<params, runs, result, downloads, active, stored, crashed>>

\* addPackageToRepo(): packages are copied, which may fail, and processes launched;
\* all callers return.
AddPackage ==
    /\ job.pc = "add"
    /\ \E needed \in StagingOutcomes(Pkg) :
        LET s == IF needed = "Yes" THEN EnableStagingInNextBatch(job.session) ELSE job.session
            determined == [progress EXCEPT ![Pkg].stagingNeeded = needed]
        IN
        \/ /\ progress' = determined
           /\ job' = [job EXCEPT !.session = s, !.holds = FALSE,
                                 !.staged = job.session.staging \/ needed = "Yes",
                                 !.pc = IF Signing THEN "sign" ELSE "repo",
                                 !.repoAdds = Databases(Pkg)]
           /\ UNCHANGED <<disk, blocked>>
        \/ /\ job.holds
           /\ progress' = determined
           /\ blocked' = TRUE
           /\ job' = [job EXCEPT !.session = s]
           /\ UNCHANGED disk
        \/ /\ ~job.holds
           /\ progress' = [determined EXCEPT ![Pkg].error = TRUE]
           /\ disk' = progress'
           /\ job' = [job EXCEPT !.session = WithResponse(s, Pkg), !.pc = "next"]
           /\ UNCHANGED blocked
    /\ UNCHANGED <<params, runs, result, downloads, active, stored, crashed>>

\* One of the gpg processes fails, or its signature cannot be copied.
SigningFails ==
    /\ job.pc = "sign"
    /\ FailAndDump
    /\ UNCHANGED <<params, runs, result, downloads, active, stored, crashed>>

\* checkGpgErrorsAndContinueAddingPackagesToRepo() without errors
SigningDone ==
    /\ job.pc = "sign"
    /\ job' = [job EXCEPT !.pc = "repo"]
    /\ UNCHANGED <<progress, disk, params, runs, result, downloads, active, blocked, stored, crashed>>

\* Mutation of RepoAddDone: the last process decides.
RepoAddDoneLast(db) ==
    /\ job.pc = "repo" /\ db \in job.repoAdds
    /\ \/ /\ progress' = [progress EXCEPT ![Pkg].addedToRepo = TRUE]
          /\ stored' = [stored EXCEPT ![Pkg] = @ \cup {db}]
          /\ job' = [job EXCEPT !.repoAdds = @ \ {db}]
       \/ /\ progress' = [progress EXCEPT ![Pkg].error = TRUE, ![Pkg].addedToRepo = FALSE]
          /\ job' = [job EXCEPT !.repoAdds = @ \ {db}, !.session = WithResponse(@, Pkg)]
          /\ UNCHANGED stored
    /\ UNCHANGED <<disk, params, runs, result, downloads, active, blocked, crashed>>

\* handleRepoAddErrors(): success only counts if there is no error.
RepoAddDone(db) ==
    /\ job.pc = "repo" /\ db \in job.repoAdds
    /\ \/ /\ progress' = [progress EXCEPT ![Pkg].addedToRepo = @ \/ ~progress[Pkg].error]
          /\ stored' = [stored EXCEPT ![Pkg] = @ \cup {db}]
          /\ job' = [job EXCEPT !.repoAdds = @ \ {db}]
       \/ /\ progress' = [progress EXCEPT ![Pkg].error = TRUE, ![Pkg].addedToRepo = FALSE]
          /\ job' = [job EXCEPT !.repoAdds = @ \ {db}, !.session = WithResponse(@, Pkg)]
          /\ UNCHANGED stored
    /\ UNCHANGED <<disk, params, runs, result, downloads, active, blocked, crashed>>

\* Mutation of MakeNextPackage: the progress is not dumped.
MakeNextPackageUndumped ==
    /\ job.pc = "repo" /\ job.repoAdds = {}
    /\ job' = [job EXCEPT !.pc = "next"]
    /\ UNCHANGED <<progress, disk, params, runs, result, downloads, active, blocked, stored, crashed>>

\* makeNextPackage(), posted when the last repo-add has been handled.
MakeNextPackage ==
    /\ job.pc = "repo" /\ job.repoAdds = {}
    /\ disk' = progress
    /\ job' = [job EXCEPT !.pc = "next"]
    /\ UNCHANGED <<progress, params, runs, result, downloads, active, blocked, stored, crashed>>

\* checkBuildErrors()
BuildsDone ==
    /\ job.pc = "end" /\ result = "none"
    /\ result' = IF job.session.responses = {} THEN "Success" ELSE "Error"
    /\ job' = [job EXCEPT !.pc = "none"]
    /\ UNCHANGED <<progress, disk, params, runs, downloads, active, blocked, stored, crashed>>

------------------------------------------------------------------------------

Download(p) ==
    \/ SkipDownload(p) \/ PrepareFails(p) \/ StartDownload(p) \/ KeyDirectoryFails(p)
    \/ ChecksumsDone(p) \/ KeysImported(p) \/ SourcesDone(p)

Build ==
    /\ ~blocked
    /\ \/ SelectPackage \/ SkipPackage \/ AddFinished \/ RefuseBuild \/ RefuseWithoutSources
       \/ RequestChroot \/ LaunchBuild \/ BuildDone \/ AddFails \/ AddPackage \/ SigningFails
       \/ SigningDone
       \/ (\E db \in {"packages", "debug"} : RepoAddDone(db))
       \/ MakeNextPackage \/ BuildsDone

Working == NoFurtherDownload \/ (\E p \in Packages : Download(p)) \/ DownloadsDone
              \/ Build \/ DumpAfterLaunch

Next == Reject \/ Start \/ Crash \/ Working

Spec == Init /\ [][Next]_vars

\* Threads keep running and processes exit.
FairSpec == Spec /\ WF_vars(Working)

------------------------------------------------------------------------------
(* Properties *)

Relevant == {p \in Packages : IsRelevant(p, params.relevant)}

\* Types of the progress, the sessions and the job.
TypeOK ==
    /\ progress \in [Packages -> ProgressType]
    /\ disk \in [Packages -> ProgressType]
    /\ params \in Params
    /\ runs \in 0 .. MaxRuns
    /\ result \in {"none", "Success", "Error"}
    /\ downloads \in [session : SessionType, slots : 0 .. MaxParallelDownloads]
    /\ active \in [Packages -> {"none", "updpkgsums", "gpg", "makepkg"}]
    /\ job \in JobType
    /\ blocked \in BOOLEAN /\ crashed \in BOOLEAN
    /\ stored \in [Packages -> SUBSET {"packages", "debug"}]

\* At most MaxParallelDownloads processes download sources at the same time,
\* however often handlers start the next download.
DownloadLimit ==
    downloads.slots + Cardinality({p \in Packages : active[p] # "none"}) <= MaxParallelDownloads

\* No package is forgotten by the downloads running in parallel: when packages
\* are built the sources of every one of them are there, or are not needed, or an
\* error is recorded for it.
SourcesAttempted ==
    job.pc # "none" => \A p \in Relevant : DownloadNeeded(p) => progress[p].error

\* The downloads running in parallel keep to their limit and forget no package.
Consistent == TypeOK /\ DownloadLimit /\ SourcesAttempted

\* repo-add was successful for package p, for its debug package as well unless
\* the service was restarted in between.
InRepository(p) == stored[p] # {} /\ (crashed \/ stored[p] = Databases(p))

\* The processes for a package and its debug package exit in any order and any
\* of them may fail: a package is only recorded as added if it was.
AddedOnlyIfStored ==
    \A p \in Packages :
        progress[p].addedToRepo /\ (job.pc = "repo" => Pkg # p) => InRepository(p)

\* "Building of the next batch is stopped when a failure happened within the
\* previous batch." (README.md:346): a package is built and added only when all
\* packages of previous batches are in the repository, added by this run or an
\* earlier one, and whatever packages are left out.
BatchBarrier ==
    job.pc \in {"chroot", "build", "add", "sign", "repo"} /\ ~params.asFarAsPossible =>
        \A p \in Relevant : BatchOf(p) < BatchOf(Pkg) => InRepository(p)

\* A run that succeeds has put every package into the repository.
SuccessMeansStored ==
    result = "Success" => \A p \in Relevant : InRepository(p)

\* What is reported - package by package, and for the whole run - is in the
\* repository.
StoredAsReported == AddedOnlyIfStored /\ SuccessMeansStored

\* When a run has been concluded build-progress.json tells what was achieved, so
\* that the next run does not repeat it.  (An error may be missing.)
ProgressSaved ==
    Idle => \A p \in Packages : [disk[p] EXCEPT !.error = FALSE] = [progress[p] EXCEPT !.error = FALSE]

\* Once a package needing staging has been added, packages of later batches are
\* staged, too, also if that was found out by an earlier run.  Batches consisting
\* of a single package are left out.
StagingKept ==
    job.pc \in {"sign", "repo"} /\ params.autoStaging /\ Len(Batches[BatchOf(Pkg)]) > 1 =>
        \A p \in Relevant :
            BatchOf(p) < BatchOf(Pkg) /\ progress[p].addedToRepo /\ progress[p].stagingNeeded = "Yes"
                => job.staged

\* Knowledge that has to outlive a run and a restart does.
ProgressKept == ProgressSaved /\ StagingKept

\* Every run is concluded unless a thread waits for itself.
EventuallyConcluded == result = "none" ~> result # "none" \/ blocked

\* "one can simply restart the build action. Packages which have already been
\* built will be skipped" (README.md:352): what a successful run has added is
\* recorded as added, also if there had been an error for it before.
SuccessRecorded == result = "Success" => \A p \in Relevant : progress[p].addedToRepo
==============================================================================
