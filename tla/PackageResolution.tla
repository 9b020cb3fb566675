------------------------- MODULE PackageResolution -------------------------
(***************************************************************************)
(* Questions asked about the packages of the configured databases          *)
(* (libpkg: data/config.cpp, data/database.cpp, algo/search.cpp and        *)
(* algo/buildorder.cpp): the order of databases, the packages satisfying a *)
(* dependency, what an update would break, which updates there are, in     *)
(* which order to build, which packages another one pulls in.              *)
(*                                                                         *)
(* The configuration does not change here; an action evaluates one         *)
(* function and leaves its result in answer.  The databases are numbered   *)
(* in the order of the configuration and have one architecture.  The       *)
(* packages of a database are numbered as well: as in the storage, the     *)
(* numbers (StorageID) of two databases overlap.                           *)
(***************************************************************************)
EXTENDS VersionComparison, FiniteSets

CONSTANTS Databases,     \* the configured databases, 1 to their number
          Missing,       \* the name of a database that is not configured
          Inputs,        \* configurations: the names each database depends on and
                         \* its sequence of packages
          Versions,      \* versions that are compared
          Dependencies   \* dependencies that are looked up

VARIABLES links,       \* Database::dependencies
          packages,    \* the packages of each database
          answer,      \* the function evaluated last and its result
          remaining,   \* pullDependentPackages(): packages to look at
          visited,     \* the storage ids it has seen
          pulled       \* the packages it has found, by storage id

vars == <<links, packages, answer, remaining, visited, pulled>>
pulling == <<remaining, visited, pulled>>

Nothing == [op |-> "none"]

Init == /\ \E input \in Inputs : links = input.links /\ packages = input.packages
        /\ answer = Nothing
        /\ remaining = {} /\ visited = {} /\ pulled = <<>>

Refs == {<<db, id>> \in Databases \X (1 .. 3) : id \in DOMAIN packages[db]}
Pkg(r) == packages[r[1]][r[2]]

-----------------------------------------------------------------------------
(* Order of databases                                                      *)

\* Mutation of Visited: a database that is done is taken for one in progress.
VisitedOnce(s, db) == IF db \in DOMAIN s.done THEN "cycle" ELSE "new"

\* What the traversal s knows of the database.
Visited(s, db) == IF db \notin DOMAIN s.done THEN "new"
                  ELSE IF s.done[db] THEN "done" ELSE "cycle"

\* addDatabaseDependencies(); the order of the names is that of the numbers.
RECURSIVE AddDatabase(_, _, _)
AddDatabase(s, db, addSelf) ==
    IF db = Missing THEN [s EXCEPT !.error = TRUE]
    ELSE CASE Visited(s, db) = "done" -> s
           [] Visited(s, db) = "cycle" -> [s EXCEPT !.error = TRUE]
           [] OTHER ->
                LET add(u, d) == IF u.error THEN u ELSE AddDatabase(u, d, TRUE)
                    t == FoldLeft(add, [s EXCEPT !.done = (db :> FALSE) @@ @],
                                  SetToSortSeq(links[db], <))
                IN  IF t.error THEN t
                    ELSE [t EXCEPT !.done[db] = TRUE,
                                   !.order = IF addSelf THEN Append(@, db) ELSE @]

\* computeDatabaseDependencyOrder().
DependencyOrder(db, addSelf) ==
    AddDatabase([done |-> <<>>, order |-> <<>>, error |-> FALSE], db, addSelf)

\* addDatabasesRequiringDatabase().
RECURSIVE AddRequiring(_, _)
AddRequiring(result, db) ==
    IF db \in ToSet(result) THEN result
    ELSE FoldLeft(AddRequiring, Append(result, db),
                  SetToSortSeq({d \in Databases \ {db} : db \in links[d]}, <))

OrderDatabases ==
    /\ answer = Nothing
    /\ \E db \in Databases, addSelf \in BOOLEAN :
          answer' = [op |-> "order", db |-> db, addSelf |-> addSelf,
                     result |-> DependencyOrder(db, addSelf),
                     requiring |-> AddRequiring(<<>>, db)]
    /\ UNCHANGED <<links, packages, pulling>>

-----------------------------------------------------------------------------
(* Versions                                                                *)

\* Independent of the configuration, so compared in an empty one only.
CompareVersions ==
    /\ answer = Nothing
    /\ \A db \in Databases : links[db] = {} /\ packages[db] = <<>>
    /\ \E a, b \in Versions : answer' = [op |-> "versions", a |-> a, b |-> b]
    /\ UNCHANGED <<links, packages, pulling>>

-----------------------------------------------------------------------------
(* Packages satisfying a dependency                                        *)

\* The name with the version and whatever else the package provides.
Provides(p) == {[name |-> p.name, version |-> p.version]} \cup p.provides

Satisfies(provide, dep) ==
    provide.name = dep.name /\ Matches(dep.mode, dep.version, provide.version)

\* Package::providesDependency().
ProvidesDependency(p, dep) == \E provide \in Provides(p) : Satisfies(provide, dep)

\* Database::providingPackages() and Database::provides().
Providers(db, dep) == {i \in DOMAIN packages[db] : ProvidesDependency(packages[db][i], dep)}
DatabaseProvides(db, dep) == Providers(db, dep) # {}

\* The database with which findPackage() ends.
StopAt(found, dep) ==
    LET exact == {db \in found : \E i \in Providers(db, dep) : packages[db][i].name = dep.name}
    IN  IF exact # {} THEN Min(exact) ELSE Cardinality(Databases)

\* Config::findPackage(): a package of that name or, if there is none, the last
\* package that provides it.
FindPackage(dep) ==
    LET found == {db \in Databases : DatabaseProvides(db, dep)}
        db    == Max({d \in found : d <= StopAt(found, dep)})
        exact == {i \in Providers(db, dep) : packages[db][i].name = dep.name}
    IN  IF found = {} THEN <<>>
        ELSE <<db, IF exact # {} THEN Min(exact) ELSE Max(Providers(db, dep))>>

\* Config::findPackages() for a dependency.
FindPackages(dep) == {r \in Refs : ProvidesDependency(Pkg(r), dep)}

Find ==
    /\ answer = Nothing
    /\ \E dep \in Dependencies :
          answer' = [op |-> "find", dep |-> dep, first |-> FindPackage(dep), all |-> FindPackages(dep)]
    /\ UNCHANGED <<links, packages, pulling>>

-----------------------------------------------------------------------------
(* What an update breaks                                                   *)

\* Mutation of Unresolvable: provides that are removed still count.
UnresolvableKeeping(db, dep, added, removed) ==
    /\ ~\E p \in added : ProvidesDependency(p, dep)
    /\ ~DatabaseProvides(db, dep)
    /\ ~\E d \in ToSet(DependencyOrder(db, FALSE).order) : DatabaseProvides(d, dep)

\* The conditions of detectUnresolvedPackages() for a required dependency.
Unresolvable(db, dep, added, removed) ==
    /\ ~\E p \in added : ProvidesDependency(p, dep)
    /\ \/ \E provide \in removed : Satisfies(provide, dep)
       \/ ~DatabaseProvides(db, dep)
    /\ DependencyOrder(db, FALSE).error
          \/ ~\E d \in ToSet(DependencyOrder(db, FALSE).order) : DatabaseProvides(d, dep)

\* Database::detectUnresolvedPackages(): the packages with a dependency of theirs.
DetectUnresolved(db, added, removed) ==
    UNION {{<<i, dep>> : dep \in {d \in packages[db][i].deps : Unresolvable(db, d, added, removed)}}
             : i \in DOMAIN packages[db]}

\* One package of a database is replaced by an other version of itself; the
\* provides of the present one are the removed ones.
DetectBreakage ==
    /\ answer = Nothing
    /\ \E r \in Refs, new \in {Pkg(s) : s \in Refs} :
          /\ new.name = Pkg(r).name
          /\ answer' = [op |-> "unresolved", ref |-> r, new |-> new,
                        result |-> DetectUnresolved(r[1], {new}, Provides(Pkg(r)))]
    /\ UNCHANGED <<links, packages, pulling>>

-----------------------------------------------------------------------------
(* Updates                                                                 *)

\* The packages of db of which the sources have another version, as pairs of
\* references.
Differing(db, sources, kinds) ==
    {<<r, s>> \in Refs \X Refs :
        /\ r[1] = db /\ s[1] \in sources
        /\ Pkg(r).name = Pkg(s).name
        /\ Compare(Pkg(r).version, Pkg(s).version) \in kinds}

Orphans(db, sources) ==
    {r \in Refs : r[1] = db /\ ~\E s \in Refs : s[1] \in sources /\ Pkg(s).name = Pkg(r).name}

\* Database::checkForUpdates() as called by UpdateCheck::checkForUpdates().
CheckForUpdates ==
    /\ answer = Nothing
    /\ \E db \in Databases, sources \in SUBSET Databases :
          /\ sources # {}
          /\ answer' = [op |-> "updates", db |-> db, sources |-> sources,
                        version   |-> Differing(db, sources, {"SoftwareUpgrade"}),
                        package   |-> Differing(db, sources, {"PackageUpgradeOnly"}),
                        downgrade |-> Differing(db, sources, {"NewerThanSyncVersion"}),
                        orphans   |-> Orphans(db, sources)]
    /\ UNCHANGED <<links, packages, pulling>>

-----------------------------------------------------------------------------
(* Build order                                                             *)

IgnoreCycle(ref, onlyDependency) == onlyDependency /\ Pkg(ref).binary

\* The package ref is done and leaves the chain, unless a dependency failed.
Completed(s, ref) ==
    IF s.failed THEN s ELSE [s EXCEPT !.chain = Front(@), !.order = Append(@, ref)]

\* The chain that is reported once ref is found in all without being done.
CycleAt(chain, ref) ==
    IF Contains(chain, ref) THEN SubSeq(chain, SelectInSeq(chain, LAMBDA r : r = ref), Len(chain))
    ELSE chain

Marked(s, done, onlyDependency) ==
    [s EXCEPT !.direct = @ \cup IF onlyDependency THEN {} ELSE done]

\* addDepsRecursivelyInTopoOrder(): all are the items, order the finished ones,
\* chain is cycleTracking, direct the items that are not only a dependency; done
\* are the finished ones that satisfy the dependency, ref is the package for it.
RECURSIVE AddInOrder(_, _, _), AddPackage(_, _, _)
AddInOrder(s, dep, onlyDependency) ==
    IF \E i \in DOMAIN s.order : ProvidesDependency(Pkg(s.order[i]), dep)
    THEN Marked(s, {Head(SelectSeq(s.order, LAMBDA r : ProvidesDependency(Pkg(r), dep)))},
                onlyDependency)
    ELSE IF FindPackages(dep) = {} THEN [s EXCEPT !.ignored = @ \cup {dep}]
    ELSE AddPackage(s, FindPackage(dep), onlyDependency)
AddPackage(s, ref, onlyDependency) ==
    IF ref \notin s.all
    THEN LET add(u, d) == IF u.failed THEN u ELSE AddInOrder(u, d, TRUE)
         IN  Completed(
                FoldLeft(add, Marked([s EXCEPT !.all = @ \cup {ref}, !.chain = Append(@, ref)],
                                     {ref}, onlyDependency),
                         SetToSeq({d \in Pkg(ref).deps : ~ProvidesDependency(Pkg(ref), d)})),
                ref)
    ELSE IF IgnoreCycle(ref, onlyDependency) THEN s
    ELSE [s EXCEPT !.failed = TRUE, !.chain = CycleAt(@, ref)]

\* What computeBuildOrder() makes of it in the end.
Listed(end) ==
    [order   |-> SelectSeq(end.order, LAMBDA r : r \in end.direct \/ ~Pkg(r).binary),
     cycle   |-> end.chain,
     ignored |-> end.ignored,
     success |-> end.chain = <<>> /\ end.ignored = {}]

\* computeBuildOrder() without options for one or two denotations; the chain is
\* empty again after each of them unless it failed.
BuildOrder(wanted) ==
    LET add(s, dep) == IF s.failed THEN s ELSE AddInOrder(s, dep, FALSE)
    IN  Listed(FoldLeft(add, [all |-> {}, order |-> <<>>, chain |-> <<>>, ignored |-> {},
                              direct |-> {}, failed |-> FALSE], wanted))

ComputeBuildOrder ==
    /\ answer = Nothing
    /\ \E first, second \in Dependencies :
          LET wanted == IF first = second THEN <<first>> ELSE <<first, second>>
          IN  answer' = [op |-> "buildOrder", wanted |-> wanted, result |-> BuildOrder(wanted)]
    /\ UNCHANGED <<links, packages, pulling>>

-----------------------------------------------------------------------------
(* Pulling in dependencies                                                 *)

\* ReloadLibraryDependencies::run() asks for what the packages of a destination
\* database need from it and from the databases it depends on.
StartPull ==
    /\ answer = Nothing
    /\ \E db \in Databases :
          /\ ~DependencyOrder(db, TRUE).error
          /\ packages[db] # <<>>
          /\ answer' = [op |-> "pull", db |-> db, next |-> 1,
                        relevant |-> {db} \cup ToSet(DependencyOrder(db, TRUE).order)]
    /\ UNCHANGED <<links, packages, pulling>>

\* allPackages() visits the next package of the destination database.
PullNext ==
    /\ answer.op = "pull" /\ remaining = {}
    /\ answer.next \in DOMAIN packages[answer.db]
    /\ remaining' = {<<answer.db, answer.next>>}
    /\ answer' = [answer EXCEPT !.next = @ + 1]
    /\ UNCHANGED <<links, packages, visited, pulled>>

\* The package with that id in the first relevant database that has one
\* satisfying the dependency.
FirstProvider(dep, id) ==
    LET dbs == {db \in answer.relevant : id \in Providers(db, dep)}
    IN  IF dbs = {} THEN {} ELSE {<<Min(dbs), id>>}

\* One round of pullDependentPackages().  The dependencies are listed in any
\* order; of several providers with the same id only the first one is taken.
PullDependencies ==
    /\ answer.op = "pull"
    /\ \E r \in remaining :
          LET found(id) == UNION {FirstProvider(d, id) : d \in Pkg(r).deps}
              ids == {id \in 1 .. 3 : found(id) # {}} \ visited
          IN  \E taken \in [ids -> Databases \X ids] :
                 /\ \A id \in ids : taken[id] \in found(id)
                 /\ visited' = visited \cup ids
                 /\ pulled' = taken @@ pulled
                 /\ remaining' = (remaining \cup {taken[id] : id \in ids}) \ {r}
    /\ UNCHANGED <<links, packages, answer>>

\* The list of required packages is complete.
PullDone ==
    /\ answer.op = "pull" /\ remaining = {}
    /\ answer.next \notin DOMAIN packages[answer.db]
    /\ answer' = [op |-> "pulled", db |-> answer.db, relevant |-> answer.relevant]
    /\ UNCHANGED <<links, packages, pulling>>

Next == \/ OrderDatabases \/ CompareVersions \/ Find \/ DetectBreakage \/ CheckForUpdates
        \/ ComputeBuildOrder \/ StartPull \/ PullNext \/ PullDependencies \/ PullDone

Spec == Init /\ [][Next]_vars

-----------------------------------------------------------------------------
(* Properties                                                              *)

\* The state of a traversal and the results have the expected shape.
TypeOK ==
    /\ links \in [Databases -> SUBSET (Databases \cup {Missing})]
    /\ \A r \in Refs : IsVersion(Pkg(r).version)
    /\ remaining \subseteq Refs
    /\ DOMAIN pulled = visited
    /\ \A id \in visited : pulled[id] \in Refs /\ pulled[id][2] = id

\* The names a database requires, directly or not.
Required(db) ==
    {d \in Databases \cup {Missing} :
        \A S \in SUBSET (Databases \cup {Missing}) :
            links[db] \subseteq S /\ (\A e \in S \ {Missing} : links[e] \subseteq S) => d \in S}

\* computeDatabaseDependencyOrder() fails exactly if a database is missing or
\* part of a cycle, and otherwise lists everything required once and behind what
\* it depends on itself; a database that is reached twice is no cycle.
\* computeDatabasesRequiringDatabase() finds everything that requires it.
OrderIsTopological ==
    answer.op = "order" =>
        LET db == answer.db
            order == answer.result.order
            all == Required(db) \cup {db}
        IN  /\ answer.result.error <=> Missing \in all \/ \E d \in all \ {Missing} : d \in Required(d)
            /\ ToSet(answer.requiring) = {db} \cup {d \in Databases : db \in Required(d)}
            /\ Len(answer.requiring) = Cardinality(ToSet(answer.requiring))
            /\ ~answer.result.error =>
                  /\ ToSet(order) = IF answer.addSelf THEN all ELSE all \ {db}
                  /\ \A i, j \in DOMAIN order : order[j] \in links[order[i]] => j < i
                  /\ Len(order) = Cardinality(ToSet(order))

Newer == {"SoftwareUpgrade", "PackageUpgradeOnly"}

\* compareParts() and compare() are total orders, whatever separators, epochs
\* and releases the versions have; an update from one version to another is a
\* downgrade the other way round.
VersionsOrdered ==
    answer.op = "versions" =>
        LET a == answer.a
            b == answer.b
        IN  /\ CompareParts(a, b, FALSE) = "newer" <=> CompareParts(b, a, FALSE) = "older"
            /\ Compare(a, b) \in Newer <=> Compare(b, a) = "NewerThanSyncVersion"
            /\ \A c \in Versions :
                  /\ CompareParts(a, b, FALSE) # "older" /\ CompareParts(b, c, FALSE) # "older"
                        => CompareParts(a, c, FALSE) # "older"
                  /\ Compare(a, b) \in Newer /\ Compare(b, c) \in Newer => Compare(a, c) \in Newer

LowerBoundKept(from, to) ==
    \A r \in Versions : Matches("greaterEqual", r, from) => Matches("greaterEqual", r, to)

\* An update alone never breaks a dependency with ">=" as long as the versions
\* have the same separators, although Dependency::matches() compares the whole
\* versions and compare() their parts.
UpdateKeepsLowerBound ==
    answer.op = "versions" =>
        (answer.a.seps = answer.b.seps /\ Compare(answer.a, answer.b) \in Newer
            => LowerBoundKept(answer.a, answer.b))

\* findPackage() finds a package whenever findPackages() finds one, and one that
\* has the name itself if there is one in any of the databases.
NamePreferred ==
    answer.op = "find" =>
        LET named == {r \in answer.all : Pkg(r).name = answer.dep.name}
        IN  /\ answer.first = <<>> <=> answer.all = {}
            /\ answer.all # {} => answer.first \in IF named # {} THEN named ELSE answer.all

\* Versions are ordered and finding a package by a dependency follows names.
VersionsRight == TypeOK /\ VersionsOrdered /\ UpdateKeepsLowerBound /\ NamePreferred

\* Every dependency that is not satisfied any more once a package has been
\* replaced is reported by detectUnresolvedPackages(): the packages that stay
\* are checked against the database as it will be and the ones below it.
BreakageDetected ==
    answer.op = "unresolved" =>
        LET db == answer.ref[1]
            after == [packages[db] EXCEPT ![answer.ref[2]] = answer.new]
            below == DependencyOrder(db, FALSE)
            others == {Pkg(r) : r \in {s \in Refs : ~below.error /\ s[1] \in ToSet(below.order)}}
        IN  \A i \in DOMAIN after \ {answer.ref[2]} : \A dep \in after[i].deps :
               ~(\E p \in ToSet(after) \cup others : ProvidesDependency(p, dep))
               => <<i, dep>> \in answer.result

\* checkForUpdates() tells a story about every package that is the other way
\* round for the other database: what is an update here is a downgrade there,
\* an orphan is in no other list, and what is in no list is up to date.
UpdatesMutual ==
    answer.op = "updates" =>
        LET pairs == answer.version \cup answer.package
            seen  == {pair[1] : pair \in pairs \cup answer.downgrade}
        IN  /\ \A pair \in pairs : <<pair[2], pair[1]>> \in
                   Differing(pair[2][1], {answer.db}, {"NewerThanSyncVersion"})
            /\ answer.orphans \cap seen = {}
            /\ \A r \in {s \in Refs : s[1] = answer.db} \ (answer.orphans \cup seen) :
                  \E s \in Refs : s[1] \in answer.sources /\ Pkg(s).name = Pkg(r).name
                                  /\ Compare(Pkg(r).version, Pkg(s).version) = "Equal"

\* What is reported about an update is complete: dependencies it breaks, and
\* packages that are newer, older or gone elsewhere.
UpdatesRight == BreakageDetected /\ UpdatesMutual

\* What computeBuildOrder() lists can be built in that order: each dependency of
\* a package is built before it, or the package found for it has a binary already
\* or does not exist.  A cycle it reports is one, and there is no cycle and no
\* unknown dependency in a successful order that lists all that was wanted.
BuildOrderSound ==
    answer.op = "buildOrder" =>
        LET order == answer.result.order
            cycle == answer.result.cycle
            needs(r, s) == \E dep \in Pkg(r).deps : FindPackage(dep) = s
        IN  /\ \A i \in DOMAIN order : \A dep \in Pkg(order[i]).deps :
                  \/ \E j \in 1 .. i : ProvidesDependency(Pkg(order[j]), dep)
                  \/ FindPackage(dep) = <<>>
                  \/ \E r \in Refs : ProvidesDependency(Pkg(r), dep) /\ Pkg(r).binary
            /\ \A i \in DOMAIN cycle : needs(cycle[i], IF i = Len(cycle) THEN cycle[1] ELSE cycle[i + 1])
            /\ answer.result.success =>
                  \A i \in DOMAIN answer.wanted :
                     \E j \in DOMAIN order : ProvidesDependency(Pkg(order[j]), answer.wanted[i])

\* Both orders, of databases and of packages, are topological.
OrdersRight == OrderIsTopological /\ BuildOrderSound

=============================================================================
