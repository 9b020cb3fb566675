---------------------------- MODULE PrepareBuild ----------------------------
(***************************************************************************)
(* The build action that prepares a build (buildactions/preparebuild.cpp): *)
(* it looks up what exists of the specified packages, gets the sources of  *)
(* each (existing directory, local PKGBUILD, source package, official Git  *)
(* repository or AUR; possibly converted from another variant), pulls in   *)
(* the dependencies that are not available yet until nothing is missing,   *)
(* bumps versions, orders the packages into batches (BuildBatches) and     *)
(* writes what ConductBuild picks up.                                      *)
(*                                                                         *)
(* A package is its base (no split packages); names are numbers so they    *)
(* can be sorted.  A source is [of, version]: the recipe it is and its     *)
(* version [epoch, up, rel] with rel in tenths, as amendPkgbuild() bumps   *)
(* by 0.1.  Everything has the architecture of the destination database.   *)
(***************************************************************************)
EXTENDS VersionComparison, FiniteSets

CONSTANTS Names, None,
          Inputs,     \* what an action may be started with, see MCPrepareBuild
          Retries,    \* m_aurRetries
          Orders      \* orders in which the hash map of items may be iterated

Versions    == [epoch : Nat, up : Nat, rel : Nat]
Origins     == [of : Names, version : Versions]
Directories == [exists : BOOLEAN, pkgbuild : Origins \cup {None}, info : Origins \cup {None},
                stale : BOOLEAN, aur : BOOLEAN]
Progress    == {"none", "made", "nodir"}

ASSUME NamesAssumption == IsFiniteSet(Names) /\ None \notin Versions /\ None \notin Origins
ASSUME RetriesAssumption == Retries \in Nat
ASSUME OrdersAssumption == Orders \subseteq [Names -> Nat]

\* Everything is about packages that have a name, and a recipe under each.
ASSUME InputsAssumption ==
    \A i \in Inputs :
        /\ i.specified \in Seq(Names)
        /\ \A k \in DOMAIN i.existing : /\ i.existing[k].version \in Versions
                                       /\ i.existing[k].base \in Names \cup {None}
        /\ \A n \in Names :
              LET r == i.recipes[n] IN /\ r.version \in Versions
                                       /\ \A d \in r.make \cup r.deps \cup r.check : d.name \in Names
        /\ \A n \in DOMAIN i.convertSource : i.convertSource[n] \in Names
        /\ \A n \in DOMAIN i.sourcePackages :
              LET all == i.sourcePackages[n] IN all \subseteq Versions /\ IsFiniteSet(all) /\ all # {}
        /\ \A n \in Names : i.variants[n] \subseteq Names
        /\ i.dirs \in [Names -> Directories] /\ i.made \in [Names -> Progress]
        /\ i.originals \subseteq Names /\ i.newer \subseteq Names

VARIABLES input,      \* parameters, configuration and the world's sources
          pc,
          data,       \* m_buildDataByPackage
          dirs,       \* the "src" directory of each name
          originals,  \* names with a directory "src-original"
          cleaned,    \* m_cleanedSourceDirs
          todo,       \* names fetchMissingBuildData() has still to look at
          pending,    \* processes and downloads that are under way
          responses,  \* what the multi session has gathered
          pulledIn,   \* m_pulledInFurtherDependencies
          newer,      \* names whose PKGBUILD is newer than the one built last
          made,       \* progress of each name: "none", "made" or "nodir"
          isAborted, stopping, gone, result,
          phase, needed, done, batches, leftovers

ordering == <<phase, needed, done, batches, leftovers>>
disk == <<dirs, originals, cleaned, newer>>
outcome == <<made, result>>
control == <<isAborted, stopping, gone>>
prepareVars == <<input, pc, data, disk, todo, pending, responses, pulledIn, outcome, control, ordering>>

B == INSTANCE BuildBatches WITH Items <- Names

Flag(f) == f \in input.flags

NoDir == [exists |-> FALSE, pkgbuild |-> None, info |-> None, stale |-> FALSE, aur |-> FALSE]
NonEmpty(dir) == dir.pkgbuild # None \/ dir.info # None \/ dir.aur

\* What f has and otherwise g.
Over(f, g) == [x \in DOMAIN f \cup DOMAIN g |-> IF x \in DOMAIN f THEN f[x] ELSE g[x]]

Unspecified == 99
NoData == [index |-> Unspecified, existing |-> None, hasSource |-> FALSE, source |-> None,
           version |-> None, error |-> "", convert |-> FALSE, local |-> FALSE]

PrepareInit ==
    /\ input \in Inputs
    /\ pc = "run"
    /\ data = <<>> /\ todo = {} /\ pending = <<>> /\ responses = <<>>
    /\ pulledIn = FALSE
    /\ dirs = [n \in Names |-> input.dirs[n]]
    /\ originals = input.originals /\ cleaned = {}
    /\ newer = input.newer
    /\ made = input.made
    /\ isAborted = FALSE /\ stopping = FALSE /\ gone = FALSE
    /\ result = "none"
    /\ B!Init

-----------------------------------------------------------------------------
(* Versions and existing packages                                          *)

ToVersion(v) ==
    LET epoch == IF v.epoch = 0 THEN <<>> ELSE <<v.epoch>>
        rel   == IF v.rel % 10 = 0 THEN <<v.rel \div 10>> ELSE <<v.rel \div 10, v.rel % 10>>
    IN  [segs |-> epoch \o <<v.up>> \o rel,
         seps |-> (IF v.epoch = 0 THEN <<>> ELSE <<":">>) \o <<"-">>
                  \o (IF Len(rel) = 2 THEN <<".">> ELSE <<>>)]

CompareTo(v, w) == Compare(ToVersion(v), ToVersion(w))
IsNewer(comparison) == comparison \in {"SoftwareUpgrade", "PackageUpgradeOnly"}

\* What a package of this name, version and unversioned provides offers.
Offers(name, version, provides, dep) ==
    \/ dep.name = name /\ Matches(dep.mode, ToVersion(dep.version), ToVersion(version))
    \/ dep.name \in provides /\ dep.mode = "any"

ExistingOffers(p, dep) == Offers(p.name, p.version, p.provides, dep)
Recipe(n) == input.recipes[data[n].source.of]

\* The version remembered of existing packages: each replaces one it is older than.
Oldest(versions) ==
    IF versions = {} THEN None
    ELSE CHOOSE v \in versions : \A w \in versions : ~IsNewer(CompareTo(w, v))

Required(p) == p.db \in input.required

\* isExistingPackageRelevant(), what it returns and what it remembers.
Relevant(p) == IF input.bases = {} THEN Required(p) ELSE p.db \in input.bases
RecordAll(packages) ==
    Oldest({input.existing[i].version : i \in {i \in packages : Required(input.existing[i])}})

\* The lookup of one specified name in run(): the base packages of what has
\* that name, up to the first one in the destination database.
LookUp(s, name) ==
    LET found  == {i \in DOMAIN input.existing : input.existing[i].name = name}
        usable == {i \in found : Relevant(input.existing[i]) /\ input.existing[i].base # None}
        used   == {i \in usable : \A k \in usable : input.existing[k].db = input.dest => i <= k}
        Of(base) == {i \in used : input.existing[i].base = base}
        Known(base) == IF base \in DOMAIN s.data THEN s.data[base] ELSE NoData
        Position(i) == s.index + Cardinality({k \in used : k < i})
        Found(base) ==
            [Known(base) EXCEPT !.index = Position(CHOOSE i \in Of(base) : \A k \in Of(base) : k <= i),
                                !.existing = Oldest(({@} \ {None}) \cup {input.existing[i].version : i \in Of(base)})]
    IN  IF used # {}
        THEN [data |-> Over([base \in {input.existing[i].base : i \in used} |-> Found(base)], s.data),
              index |-> s.index + Cardinality(used)]
        ELSE [data |-> Over([n \in {name} |-> [NoData EXCEPT !.index = s.index,
                                                           !.existing = RecordAll(found)]], s.data),
              index |-> s.index + 1]

\* All names, in the order in which they have been specified.
LookedUp[k \in 0 .. Len(input.specified)] ==
    IF k = 0 THEN [data |-> <<>>, index |-> 0] ELSE LookUp(LookedUp[k - 1], input.specified[k])

\* The early returns of run() and init(); with UseContainer the path of makepkg
\* that is checked is never assigned.
Rejected ==
    \/ {"force", "keepVersion"} \subseteq input.flags
    \/ Flag("container")
    \/ input.specified = <<>>
    \/ input.dest = None
    \/ gone

Run ==
    /\ pc = "run"
    /\ IF Rejected
       THEN pc' = "done" /\ result' = "failure" /\ UNCHANGED data
       ELSE /\ data' = LookedUp[Len(input.specified)].data
            /\ pc' = "prepared" /\ UNCHANGED result
    /\ UNCHANGED <<input, disk, todo, pending, responses, pulledIn, made, control, ordering>>

ConcludeAborted ==
    /\ pc' = "done" /\ result' = "aborted"
    /\ UNCHANGED <<input, data, disk, todo, pending, responses, pulledIn, made, control, ordering>>

\* The rest of run(): the working directory is made, or fails to be.
BeginFetch ==
    /\ pc = "prepared"
    /\ \/ /\ isAborted
          /\ ConcludeAborted
       \/ /\ pc' = "done" /\ result' = "failure"
          /\ UNCHANGED <<input, data, disk, todo, pending, responses, pulledIn, made, control, ordering>>
       \/ /\ ~isAborted
          /\ pc' = "fetch" /\ todo' = DOMAIN data
          /\ UNCHANGED <<input, data, disk, pending, responses, pulledIn, outcome, control, ordering>>

-----------------------------------------------------------------------------
(* Getting sources (fetchMissingBuildData)                                 *)

Response(source, error) == [source |-> source, error |-> error, official |-> FALSE, is404 |-> FALSE]
Failed == Response(None, "failed")
NotFound == [Failed EXCEPT !.is404 = TRUE]
Sources(source) == Response(source, "")

\* What looking at a name leads to: a response, a process to wait for, or
\* neither.
Answer(response) == [responses |-> {response}, processes |-> {}]
Await(process) == [responses |-> {}, processes |-> {process}]
NoAnswer == [responses |-> {}, processes |-> {}]

SrcInfo == [kind |-> "srcinfo"]

\* makeSrcInfo().
MakeSrcInfo(dir) == IF dir.aur THEN Answer(Failed) ELSE Await(SrcInfo)

ThenFor(n, out) ==
    /\ responses' = IF out.responses = {} THEN responses
                    ELSE Over([m \in {n} |-> CHOOSE r \in out.responses : TRUE], responses)
    /\ pending' = IF out.processes = {} THEN [m \in DOMAIN pending \ {n} |-> pending[m]]
                  ELSE Over([m \in {n} |-> CHOOSE p \in out.processes : TRUE], pending)

LookupName(n) == IF data[n].convert THEN input.convertSource[n] ELSE n
SourceOf(n) == [of |-> n, version |-> input.recipes[n].version]

Skippable(n) == data[n].error # "" \/ (data[n].hasSource /\ ~(data[n].source = None /\ data[n].convert))

FetchFrame == UNCHANGED <<input, pc, pulledIn, outcome, control, ordering>>

SkipFetched ==
    /\ pc = "fetch"
    /\ \E n \in todo : Skippable(n) /\ todo' = todo \ {n}
    /\ UNCHANGED <<data, disk, pending, responses>> /\ FetchFrame

\* invokeVariantConversion(): "src" becomes "src-original".
InvokeConversion ==
    /\ pc = "fetch"
    /\ \E n \in todo :
          /\ ~Skippable(n) /\ data[n].hasSource
          /\ todo' = todo \ {n}
          /\ \/ /\ n \notin originals \/ Flag("clean")
                /\ originals' = originals \cup {n}
                /\ dirs' = [dirs EXCEPT ![n] = [NoDir EXCEPT !.exists = TRUE]]
                /\ ThenFor(n, IF isAborted THEN NoAnswer
                              ELSE Await([kind |-> "convert", from |-> dirs[n].pkgbuild]))
             \/ \* The directory exists already; or some other error.
                UNCHANGED <<dirs, originals>> /\ ThenFor(n, Answer(Failed))
    /\ UNCHANGED <<data, cleaned, newer>> /\ FetchFrame

\* Mutation of Cleaning: source directories are cleaned whenever they are looked
\* at (without m_cleanedSourceDirs).
CleaningAlways(n) == Flag("clean") /\ NonEmpty(dirs[n])

Cleaning(n) == Flag("clean") /\ NonEmpty(dirs[n]) /\ n \notin cleaned

\* The source directory is there from a previous run, a previous round or the
\* user.
UseExisting ==
    /\ pc = "fetch"
    /\ \E n \in todo :
          LET dir == dirs[n]
              regenerate == dir.info = None \/ (dir.stale /\ ~dir.aur)
          IN  /\ ~Skippable(n) /\ ~data[n].hasSource
              /\ NonEmpty(dir) /\ ~Cleaning(n)
              /\ todo' = todo \ {n}
              /\ data' = [data EXCEPT ![n].hasSource = dir.pkgbuild # None]
              /\ ThenFor(n, IF dir.pkgbuild = None THEN Answer(Failed)
                            ELSE IF regenerate THEN MakeSrcInfo(dir)
                            ELSE Answer(Sources(dir.info)))
    /\ UNCHANGED disk /\ FetchFrame

Available(n, place) == LookupName(n) \in input.places[place]

\* Source packages of the destination are considered if wanted.
MayUsePackage(n) == /\ Flag("sourcePackages") /\ ~Flag("aurOnly")
                    /\ LookupName(n) \in DOMAIN input.sourcePackages

\* The version copySourcesFromSourcePackage() picks: that of the existing package
\* if one is to be matched (the epoch may differ), otherwise the newest.
Candidate(n) ==
    LET all == input.sourcePackages[LookupName(n)]
        e   == data[n].existing
        matching == IF ~Flag("matchVersion") \/ e = None THEN {}
                    ELSE {v \in all : v.up = e.up /\ v.rel = e.rel}
    IN  IF e # None /\ e \in matching THEN e
        ELSE CHOOSE v \in (IF matching # {} THEN matching ELSE all) :
                \A w \in all : matching # {} \/ ~IsNewer(CompareTo(v, w))

Query(n) == Await([kind |-> IF input.script THEN "script"
                            ELSE IF Flag("official") THEN "official" ELSE "aur",
                   retries |-> Retries])

\* The source directory is empty, absent or cleaned.  An error of the file system
\* leads to a response, too.
Obtain ==
    /\ pc = "fetch"
    /\ \E n \in todo :
          LET before == IF Cleaning(n) THEN NoDir ELSE dirs[n]
              With(source, info) == [before EXCEPT !.exists = TRUE, !.pkgbuild = source,
                                                   !.info = info, !.stale = FALSE]
          IN  /\ ~Skippable(n) /\ ~data[n].hasSource
              /\ ~NonEmpty(before)
              /\ todo' = todo \ {n}
              /\ cleaned' = cleaned \cup {m \in {n} : Cleaning(n)}
              /\ \/ /\ Available(n, "local")
                    /\ dirs' = [dirs EXCEPT ![n] = With(SourceOf(LookupName(n)), None)]
                    /\ data' = [data EXCEPT ![n].local = TRUE, ![n].hasSource = TRUE]
                    /\ newer' = newer \cup {n}
                    /\ ThenFor(n, MakeSrcInfo(before))
                 \/ /\ ~Available(n, "local") /\ MayUsePackage(n)
                    /\ LET source == [of |-> LookupName(n), version |-> Candidate(n)]
                       IN  \/ /\ dirs' = [dirs EXCEPT ![n] = With(source, source)]
                              /\ ThenFor(n, Answer(Sources(source)))
                           \/ /\ dirs' = [dirs EXCEPT ![n] = With(source, None)]
                              /\ ThenFor(n, MakeSrcInfo(before))
                    /\ data' = [data EXCEPT ![n].local = FALSE, ![n].hasSource = TRUE]
                    /\ newer' \in {newer, newer \cup {n}}
                 \/ /\ ~Available(n, "local") /\ ~MayUsePackage(n)
                    /\ dirs' = [dirs EXCEPT ![n] = [before EXCEPT !.exists = @ \/ input.script]]
                    /\ data' = [data EXCEPT ![n].local = FALSE]
                    /\ ThenFor(n, IF Flag("localOnly") THEN Answer(Response(None, "skipped"))
                                  ELSE IF input.script /\ isAborted THEN NoAnswer
                                  ELSE Query(n))
                    /\ UNCHANGED newer
                 \/ /\ dirs' = [dirs EXCEPT ![n] = before]
                    /\ data' = [data EXCEPT ![n].local = FALSE]
                    /\ ThenFor(n, Answer(Failed))
                    /\ UNCHANGED newer
    /\ UNCHANGED originals /\ FetchFrame

-----------------------------------------------------------------------------
(* Processes and downloads                                                 *)

AsyncFrame == UNCHANGED <<input, pc, data, originals, cleaned, todo, pulledIn,
                          outcome, control, ordering>>

\* Whatever is under way may fail: a process, a connection (with no retries
\* left), an archive, writing a file.
ProcessFails ==
    /\ \E n \in DOMAIN pending :
          /\ pending[n].kind \in {"aur", "official"} => pending[n].retries = 0
          /\ ThenFor(n, Answer(Failed))
    /\ UNCHANGED <<dirs, newer>> /\ AsyncFrame

\* processSrcInfo().
SrcInfoDone ==
    /\ \E n \in DOMAIN pending :
          /\ pending[n].kind = "srcinfo"
          /\ dirs' = [dirs EXCEPT ![n].info = dirs[n].pkgbuild, ![n].stale = FALSE]
          /\ ThenFor(n, Answer(Sources(dirs[n].pkgbuild)))
    /\ UNCHANGED newer /\ AsyncFrame

\* The conversion script has filled "src"; with its source information the
\* lookup goes on.
ConversionDone ==
    /\ \E n \in DOMAIN pending :
          /\ pending[n].kind = "convert"
          /\ dirs' = [dirs EXCEPT ![n].pkgbuild =
                        [of |-> IF input.convertsRight THEN n ELSE pending[n].from.of,
                         version |-> pending[n].from.version]]
          /\ newer' = newer \cup {n}
          /\ ThenFor(n, MakeSrcInfo(dirs[n]))
    /\ AsyncFrame

\* queryAurSnapshotsViaTarDownload(): connection errors and 5xx are retried.
Retry ==
    /\ \E n \in DOMAIN pending :
          /\ pending[n].kind \in {"aur", "official"} /\ pending[n].retries > 0
          /\ pending' = [pending EXCEPT ![n].retries = @ - 1]
    /\ UNCHANGED <<dirs, newer, responses>> /\ AsyncFrame

Absent ==
    /\ \E n \in DOMAIN pending :
          \/ /\ pending[n].kind = "official" /\ ~Available(n, "official")
             /\ pending' = [pending EXCEPT ![n].kind = "aur"]
             /\ UNCHANGED <<dirs, responses>>
          \/ /\ pending[n].kind = "aur" /\ ~Available(n, "aur")
             /\ ThenFor(n, Answer(NotFound))
             /\ UNCHANGED dirs
          \/ \* The script has succeeded but there are no sources; the directory is
             \* marked before that is noticed.
             /\ pending[n].kind = "script" /\ ~Available(n, "aur")
             /\ dirs' = [dirs EXCEPT ![n].aur = TRUE]
             /\ ThenFor(n, Answer(NotFound))
    /\ UNCHANGED newer /\ AsyncFrame

\* The marker "from-aur" is only written if the directory exists by then.
Downloaded ==
    /\ \E n \in DOMAIN pending :
          LET source == SourceOf(LookupName(n))
              With(info) == [dirs[n] EXCEPT !.exists = TRUE, !.pkgbuild = source, !.info = info,
                                            !.stale = FALSE, !.aur = @ \/ dirs[n].exists]
          IN  \/ /\ pending[n].kind \in {"aur", "script"} /\ Available(n, "aur")
                 /\ dirs' = [dirs EXCEPT ![n] = With(source)]
                 /\ ThenFor(n, Answer(Sources(source)))
              \/ /\ pending[n].kind = "official" /\ Available(n, "official")
                 /\ \E info \in {source, None} : dirs' = [dirs EXCEPT ![n] = With(info)]
                 /\ ThenFor(n, Answer([Response(None, "") EXCEPT !.official = TRUE]))
          /\ newer' \in {newer, newer \cup {n}}
    /\ AsyncFrame

-----------------------------------------------------------------------------
(* Dependencies (computeDependencies)                                      *)

Convertible(n) == n \in DOMAIN input.convertSource

\* The build data after its response.
Populated(n) ==
    LET d == data[n]
        r == responses[n]
        error == IF r.error # "" THEN r.error ELSE "no data"
    IN  IF r.source # None
        THEN IF d.convert /\ r.source.of # n
             THEN [d EXCEPT !.source = None, !.error = "", !.hasSource = TRUE]
             ELSE [d EXCEPT !.source = r.source, !.error = "", !.hasSource = TRUE]
        ELSE IF r.official /\ r.error = "" THEN [d EXCEPT !.error = "", !.hasSource = FALSE]
        ELSE IF (r.is404 \/ (Flag("localOnly") /\ error = "skipped")) /\ ~d.convert /\ Convertible(n)
             THEN [d EXCEPT !.convert = TRUE, !.error = "", !.hasSource = FALSE]
        ELSE [d EXCEPT !.error = error, !.hasSource = FALSE]

\* isDependencyInBuildList(), the first argument being the build data.
InBuildList(all, dep) ==
    \/ dep.name \in DOMAIN all
    \/ \E n \in DOMAIN all :
          all[n].source # None /\
          LET s == all[n].source IN Offers(s.of, s.version, input.recipes[s.of].provides, dep)

\* isDependencyGiven().
Given(dep) == \E i \in DOMAIN input.existing :
                 ExistingOffers(input.existing[i], dep) /\ Relevant(input.existing[i])

\* What is remembered of existing packages for a dependency that is pulled in.
PulledData(dep) ==
    [NoData EXCEPT !.existing =
        RecordAll({i \in DOMAIN input.existing : /\ input.existing[i].name = dep.name
                                                 /\ ExistingOffers(input.existing[i], dep)})]

\* Mutation of PulledDependencies: make dependencies are forgotten.
PulledDependenciesWithoutMake(recipe) ==
    recipe.deps \cup (IF Flag("noCheck") THEN {} ELSE recipe.check)

PulledDependencies(recipe) ==
    recipe.make \cup recipe.deps \cup (IF Flag("noCheck") THEN {} ELSE recipe.check)

AnyVersion(name) == [name |-> name, mode |-> "any", version |-> [epoch |-> 0, up |-> 0, rel |-> 0]]

\* pullFurtherDependencies() for everything that has been answered (the name of a
\* dependency is not constrained twice), and the variants that go with it.
Pulled(all) ==
    LET answered == {n \in DOMAIN responses : all[n].source # None}
        deps == UNION {PulledDependencies(input.recipes[all[n].source.of]) : n \in answered}
        missing == {d \in deps : ~InBuildList(all, d) /\ ~Given(d)}
    IN  [name \in {d.name : d \in missing} |->
            PulledData(CHOOSE d \in missing : d.name = name)]
Complements(all) ==
    LET answered == {n \in DOMAIN responses : all[n].source # None}
        wanted == IF Flag("variants") THEN UNION {input.variants[all[n].source.of] : n \in answered} ELSE {}
    IN  [name \in {v \in wanted : ~InBuildList(all, AnyVersion(v)) /\ Given(AnyVersion(v))} |->
            [NoData EXCEPT !.existing =
                RecordAll({i \in DOMAIN input.existing : input.existing[i].name = name})]]

\* Everything has been answered (the multi session is destroyed).
ComputeDependencies ==
    /\ pc = "fetch" /\ todo = {} /\ pending = <<>>
    /\ IF isAborted THEN ConcludeAborted
       ELSE IF gone
       THEN /\ pc' = "done" /\ result' = "failure"
            /\ UNCHANGED <<input, data, disk, todo, pending, responses, pulledIn, made, control, ordering>>
       ELSE LET all == [n \in DOMAIN data |-> IF n \in DOMAIN responses THEN Populated(n) ELSE data[n]]
                further == Pulled(all)
                variants == Complements(Over(further, all))
                sourcesMissing == \E n \in DOMAIN responses : all[n].error # ""
                again == \/ variants # <<>>
                         \/ \E n \in DOMAIN responses : all[n].error = "" /\ all[n].source = None
            IN  /\ data' = Over(variants, Over(further, all))
                /\ pulledIn' = (pulledIn \/ further # <<>>)
                /\ pc' = IF ~sourcesMissing /\ (further # <<>> \/ again) THEN "again" ELSE "check"
                /\ UNCHANGED <<input, disk, todo, pending, responses, outcome, control, ordering>>

FetchAgain ==
    /\ pc = "again"
    /\ IF isAborted THEN ConcludeAborted
       ELSE /\ pc' = "fetch" /\ todo' = DOMAIN data /\ responses' = <<>>
            /\ UNCHANGED <<input, data, disk, pending, pulledIn, outcome, control, ordering>>

-----------------------------------------------------------------------------
(* Versions and result                                                     *)

\* The errors computeDependencies() ends with.
Unusable(n) == data[n].error # "" \/ (Flag("aurOnly") /\ data[n].local)

BumpRel(v, existing) == [v EXCEPT !.rel = existing.rel + 1]

\* The version bumpVersions() and amendPkgbuild() give the package.
Bumped(d, vcs) ==
    LET v == d.source.version
        e == d.existing
    IN  CASE e = None -> IF Flag("force") THEN BumpRel(v, v) ELSE v
          [] e # None /\ CompareTo(v, e) \in {"Equal", "PackageUpgradeOnly"} -> BumpRel(v, e)
          [] e # None /\ CompareTo(v, e) = "SoftwareUpgrade" ->
                IF vcs THEN BumpRel([v EXCEPT !.up = e.up], e)
                ELSE [v EXCEPT !.epoch = e.epoch + 1, !.rel = 10]
          [] OTHER -> IF Flag("force") THEN BumpRel(v, e) ELSE v

NewVersion(n) == IF Flag("keepVersion") THEN data[n].source.version ELSE Bumped(data[n], Recipe(n).vcs)
Amended == {n \in DOMAIN data : NewVersion(n) # data[n].source.version}

\* Whether progress made before is void.
Outdated(n, isNewer) == made[n] = "nodir" \/ (made[n] = "made" /\ n \in isNewer)

\* makeResultData(): build-preparation.json and the skeleton of build-progress.json,
\* which cannot be read back at times.
WriteResult(isNewer) ==
    \E readable \in BOOLEAN :
        made' = [n \in Names |->
            IF ~readable \/ (n \in DOMAIN data /\ Outdated(n, isNewer)) THEN "none" ELSE made[n]]

CheckAndBump ==
    /\ pc = "check"
    /\ IF isAborted THEN ConcludeAborted
       ELSE IF \E n \in DOMAIN data : Unusable(n)
       THEN /\ WriteResult(newer)
            /\ pc' = "done" /\ result' = "failure"
            /\ UNCHANGED <<input, data, disk, todo, pending, responses, pulledIn, control, ordering>>
       ELSE /\ data' = [n \in DOMAIN data |-> [data[n] EXCEPT !.version = NewVersion(n)]]
            /\ dirs' = [n \in Names |-> IF n \in Amended
                          THEN [dirs[n] EXCEPT !.pkgbuild.version = NewVersion(n), !.stale = TRUE]
                          ELSE dirs[n]]
            /\ newer' = newer \cup Amended
            /\ pc' = "bumped"
            /\ UNCHANGED <<input, originals, cleaned, todo, pending, responses, pulledIn,
                           outcome, control, ordering>>

\* prepareBatches(): what an item offers, still with the version before the bump.
ItemOffers(n, dep) == Offers(data[n].source.of, data[n].source.version, Recipe(n).provides, dep)
Others(n, dep) == {m \in DOMAIN data \ {n} : ItemOffers(m, dep)}
ItemRequires(n) == Recipe(n).make \cup Recipe(n).check \cup Recipe(n).deps

\* The existing packages by which what n requires is available, and what these
\* require themselves, as far as no item offers it.
Open(d) == \A m \in DOMAIN data : ~ItemOffers(m, d)
Visited(n) ==
    LET Closed(visited) ==
            LET deps == ItemRequires(n) \cup UNION {input.existing[i].deps : i \in visited}
            IN  \A i \in DOMAIN input.existing \ visited : \A d \in deps :
                    ~(Required(input.existing[i]) /\ Open(d) /\ ExistingOffers(input.existing[i], d))
    IN  {i \in DOMAIN input.existing : \A visited \in SUBSET DOMAIN input.existing : Closed(visited) => i \in visited}

\* Mutation of AllRequired: only what the items require themselves is considered.
AllRequiredDirectly(n) == ItemRequires(n)

AllRequired(n) ==
    ItemRequires(n) \cup UNION {input.existing[i].deps : i \in Visited(n)}

Groups(n) == {Others(n, d) : d \in {d \in AllRequired(n) : ~ItemOffers(n, d)}} \ {{}}

\* determineNeededItems(): of the groups that begin with the same item only the
\* one that is added first is kept.
NeededItems(n, order) ==
    LET First(group) == CHOOSE m \in group : \A k \in group : order[m] <= order[k]
    IN  {kept \in SUBSET Groups(n) :
            \A g \in Groups(n) : Cardinality({h \in kept : First(h) = First(g)}) = 1}

\* sortBatch(): there is one such order.
Sorted(order) ==
    /\ DOMAIN data = {order[k] : k \in DOMAIN order}
    /\ \A k, l \in DOMAIN order : k < l =>
          \/ data[order[k]].index < data[order[l]].index
          \/ data[order[k]].index = data[order[l]].index /\ order[k] < order[l]

OrderFrame == UNCHANGED <<input, data, disk, todo, pending, responses, pulledIn, made, control>>

BeginOrder ==
    /\ pc = "bumped"
    /\ IF isAborted THEN ConcludeAborted
       ELSE /\ IF Flag("keepOrder")
               THEN /\ \E order \in [1 .. Cardinality(DOMAIN data) -> DOMAIN data] :
                          Sorted(order) /\ B!KeepOrder(order)
                    /\ pc' = "finish" /\ UNCHANGED result
               ELSE IF gone
               THEN B!Cancel /\ pc' = "finish" /\ result' = "failure"
               ELSE /\ \E order \in Orders :
                          needed' \in {f \in [DOMAIN data -> UNION {NeededItems(n, order) : n \in DOMAIN data}] :
                                          \A n \in DOMAIN data : f[n] \in NeededItems(n, order)}
                    /\ B!Start(DOMAIN data) /\ pc' = "batches" /\ UNCHANGED result
            /\ OrderFrame

ComputeBatch ==
    /\ pc = "batches" /\ ~isAborted
    /\ \/ B!AddBatch /\ UNCHANGED pc
       \/ B!Finish /\ pc' = "finish"
    /\ UNCHANGED result /\ OrderFrame

\* The action is concluded, but computeDependencies() goes on.
AbortBatches ==
    /\ pc = "batches" /\ isAborted
    /\ B!Cancel /\ pc' = "finish" /\ result' = "aborted" /\ OrderFrame

Finish ==
    /\ pc = "finish"
    /\ WriteResult(newer)
    /\ \E dumped \in BOOLEAN :
          result' = IF /\ dumped /\ leftovers = {}
                       /\ ~(pulledIn /\ Flag("unexpected")) THEN "success" ELSE "failure"
    /\ pc' = "done"
    /\ UNCHANGED <<input, data, disk, todo, pending, responses, pulledIn, control, ordering>>

-----------------------------------------------------------------------------
(* Others                                                                  *)

\* The action is aborted; terminateOngoingBuildProcesses() is posted.
Abort ==
    /\ ~isAborted /\ pc # "done"
    /\ isAborted' = TRUE /\ stopping' = TRUE
    /\ UNCHANGED <<input, pc, data, disk, todo, pending, responses, pulledIn, outcome, gone, ordering>>

\* Without a process to terminate it concludes the action, whatever else goes on.
\* Terminated processes fail.
Stop ==
    /\ stopping
    /\ stopping' = FALSE
    /\ result' = IF \/ \E n \in DOMAIN pending : pending[n].kind \in {"convert", "script"}
                    \/ result # "none" THEN result ELSE "aborted"
    /\ UNCHANGED <<input, pc, data, disk, todo, pending, responses, pulledIn, made, isAborted, gone, ordering>>

\* A configuration without the databases of the action is loaded.
LoseDatabase ==
    /\ ~gone /\ input.reload /\ pc # "done"
    /\ gone' = TRUE
    /\ UNCHANGED <<input, pc, data, disk, todo, pending, responses, pulledIn, outcome,
                   isAborted, stopping, ordering>>

Step == \/ Run \/ BeginFetch
        \/ SkipFetched \/ InvokeConversion \/ UseExisting \/ Obtain
        \/ ProcessFails \/ SrcInfoDone \/ ConversionDone \/ Retry \/ Absent \/ Downloaded
        \/ ComputeDependencies \/ FetchAgain \/ CheckAndBump
        \/ BeginOrder \/ ComputeBatch \/ AbortBatches \/ Finish

PrepareNext == Step \/ Abort \/ Stop \/ LoseDatabase

\* Handlers that are ready are run by the threads of the building context.
PrepareSpec == PrepareInit /\ [][PrepareNext]_prepareVars /\ WF_prepareVars(Step) /\ WF_prepareVars(Stop)

-----------------------------------------------------------------------------
(* Properties                                                              *)

\* Every variable has its type; a name is in at most one stage of a round.
PrepareTypeOK ==
    /\ pc \in {"run", "prepared", "fetch", "again", "check", "bumped", "batches", "finish", "done"}
    /\ result \in {"none", "success", "failure", "aborted"}
    /\ DOMAIN data \subseteq Names
    /\ todo \subseteq DOMAIN data /\ DOMAIN pending \subseteq DOMAIN data
    /\ DOMAIN responses \subseteq DOMAIN data
    /\ todo \cap DOMAIN pending = {} /\ todo \cap DOMAIN responses = {}
    /\ DOMAIN pending \cap DOMAIN responses = {}
    /\ originals \subseteq Names /\ cleaned \subseteq Names /\ newer \subseteq Names
    /\ made \in [Names -> Progress]
    /\ \A n \in DOMAIN pending : "retries" \in DOMAIN pending[n] => pending[n].retries \in 0 .. Retries
    /\ B!TypeOK

Undisturbed == ~isAborted /\ ~gone

\* ConductBuild takes the preparation at its word: if it has succeeded there are
\* sources of every package - its own, not those it is to be converted from -
\* and every package is in a batch.
SuccessMeansSources ==
    result = "success" /\ Undisturbed =>
        /\ \A n \in DOMAIN data : /\ data[n].source # None /\ data[n].error = ""
                                  /\ data[n].convert => data[n].source.of = n
                                  /\ dirs[n].pkgbuild # None
        /\ DOMAIN data = UNION {batches[k] : k \in DOMAIN batches}

\* Whatever a package needs to be built or installed is built as well or can be
\* installed in the build root (pulling in dependencies is repeated until nothing
\* is missing).
DependenciesCovered ==
    result = "success" /\ Undisturbed =>
        \A n \in DOMAIN data : \A d \in Recipe(n).make \cup Recipe(n).deps :
            InBuildList(data, d) \/ Given(d)

\* What a package requires, directly or by a package that exists already.
RequiredIndirectly(n) ==
    {d \in ItemRequires(n) \cup
           UNION {p.deps : p \in {q \in ToSet(input.existing) :
                      Required(q) /\ \E d \in ItemRequires(n) :
                          ExistingOffers(q, d) /\ \A m \in DOMAIN data : ~ItemOffers(m, d)}} :
        ~ItemOffers(n, d)}

\* A package is built after the packages it depends on that are built as well,
\* directly or through one that is not built.  If a dependency has several
\* providers one of them suffices, unless another dependency has some of them,
\* too: the code keeps only the alternatives of one then (see its FIXME).
DependenciesFirst ==
    pc = "done" /\ ~Flag("keepOrder") =>
        \A k \in DOMAIN batches : \A n \in batches[k] : \A d \in RequiredIndirectly(n) :
            LET providers == Others(n, d)
            IN  \/ providers = {}
                \/ \E g \in Groups(n) : g # providers /\ g \cap providers # {}
                \/ \E l \in 1 .. k - 1 : providers \cap batches[l] # {}

\* See BuildBatches: what addItemsToBatch() puts into the batches is in order,
\* what it leaves is cyclic.
BatchesRight == B!BatchesRight

\* The packages built are newer for pacman than the version that has been recorded
\* as existing, whatever version the sources have (bumpVersions()).  Versions of
\* the VCS packages get the upstream version of the existing one but not its epoch.
BumpedNewer ==
    \A n \in DOMAIN data :
        data[n].version # None /\ data[n].existing # None /\ ~Flag("keepVersion")
        /\ ~(Recipe(n).vcs /\ data[n].source.version.epoch < data[n].existing.epoch) =>
            IsNewer(CompareTo(data[n].existing, data[n].version))

\* A package whose PKGBUILD has been amended since its .SRCINFO was read is built
\* from scratch: no progress made with the former version survives.
AmendedStartsOver ==
    pc = "done" =>
        \A n \in DOMAIN data :
            data[n].version # None /\ data[n].version # data[n].source.version
            /\ phase = "finished" /\ result \in {"success", "failure"} => made[n] = "none"

\* What the preparation hands over to ConductBuild can be built: sources, their
\* dependencies, versions pacman accepts as newer, and no progress of old sources.
ResultSound ==
    /\ PrepareTypeOK
    /\ SuccessMeansSources
    /\ DependenciesCovered
    /\ BumpedNewer
    /\ AmendedStartsOver

\* The preparation comes to an end, however the rounds of fetching go - provided
\* that converting a variant yields that variant.
EventuallyConcluded == input.convertsRight ~> pc = "done" /\ result # "none"

=============================================================================
