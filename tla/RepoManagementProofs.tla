------------------------- MODULE RepoManagementProofs -------------------------
(***************************************************************************)
(* Proofs about RepoManagement for any databases, repositories, packages   *)
(* and jobs, as long as the jobs running at the same time are Independent. *)
(***************************************************************************)
EXTENDS RepoManagement, SequenceTheorems, TLAPS

-----------------------------------------------------------------------------
(* The inductive invariant *)

Active == {j \in Jobs : phase[j] # "absent"}

\* The tools that are given the location e.
AdderOf(e) == IF IsDebug(e) THEN "addDebug" ELSE "add"
RemoverOf(e) == IF IsDebug(e) THEN "removeDebug" ELSE "remove"

\* The locations a job works with once what could not be copied has been left out.
Chosen(j, e) == step[j][e] \notin {"none", "uncopied"}

\* repo-add and repo-remove have done their part for a location.
Added(j, e) == tool[j][AdderOf(e)] = "done" /\ AdderOf(e) \notin errors[j]
Removed(j, e) ==
    \/ tool[j][RemoverOf(e)] = "handling"
    \/ tool[j][RemoverOf(e)] = "done" /\ RemoverOf(e) \notin errors[j]

\* Tools are asked for when everything has been copied, and repo-add for moving only.
JobRight(j) ==
    /\ phase[j] \in {"absent", "new", "copying", "running", "ended"}
    /\ phase[j] \in {"absent", "new", "copying"} => \A t \in Tools : tool[j][t] = "none"
    /\ phase[j] = "copying" => Job[j].kind = "move"
    /\ \A t \in Tools : tool[j][t] # "none" => ToolDb(j, t) \in Dbs
    /\ Job[j].kind = "remove" => tool[j]["add"] = "none" /\ tool[j]["addDebug"] = "none"
    /\ tool[j]["add"] # "handling" /\ tool[j]["addDebug"] # "handling"
    /\ Job[j].kind = "move" /\ (phase[j] \in {"copying", "running"} \/ result[j] = "success") =>
          \A p \in Job[j].packages : p \in failed[j] \/ \E e \in Entries : e[1] = p /\ step[j][e] # "none"
    /\ Job[j].kind = "move" /\ result[j] = "success" =>
          phase[j] = "ended" /\ SessionReleased(j) /\ Successful(j)

\* A location is worked with in this order, and no "any" package has two of them.
EntryRight(j, e) ==
    /\ step[j][e] # "none" =>
          /\ phase[j] \in {"copying", "running", "ended"}
          /\ e[1] \in Touched(j) /\ DbOf(j, e) \in DbsOf(Source(j))
          /\ Job[j].kind = "move" => TargetOf(j, e) \in DbsOf(Job[j].dest)
          /\ \A f \in Entries : step[j][f] # "none" /\ f[1] = e[1] /\ e[1] \in AnyPackages => f = e
    /\ step[j][e] = "located" => phase[j] = "copying"
    /\ step[j][e] = "uncopied" => e[1] \in failed[j]
    /\ Chosen(j, e) /\ phase[j] # "copying" =>
          /\ tool[j][RemoverOf(e)] # "none"
          /\ Job[j].kind = "move" => tool[j][AdderOf(e)] # "none"
    /\ step[j][e] \in {"unlinked", "unreferenced"} =>
          e[1] \in AnyPackages /\ tool[j][RemoverOf(e)] = "handling"
    /\ step[j][e] \in {"stuck", "finished"} => tool[j][RemoverOf(e)] \in {"handling", "done"}
    /\ step[j][e] = "stuck" => Job[j].kind = "remove"
    /\ tool[j][RemoverOf(e)] = "done" /\ RemoverOf(e) \notin errors[j] =>
          step[j][e] \in {"none", "uncopied", "stuck", "finished"}

\* The copy is there before and as long as the original may be deleted.
CopyRight(j, e) ==
    Job[j].kind = "move" /\ Chosen(j, e) /\ step[j][e] # "located" => Present(TargetOf(j, e), e[1])

\* What the tools have made of the database files stays like that.
ListRight(j, e) ==
    Chosen(j, e) =>
        /\ Job[j].kind = "move" /\ Added(j, e) => e[1] \in listed[TargetOf(j, e)]
        /\ Removed(j, e) => e[1] \notin listed[DbOf(j, e)]

\* Nobody brings back the link that has been deleted, nor any when none was left.
UnlinkRight(j, e) ==
    /\ step[j][e] \in {"unlinked", "unreferenced", "finished"} => File(DbOf(j, e), e[1]) \notin files
    /\ step[j][e] = "unreferenced" => ~Referenced(RepoOf[DbOf(j, e)], e[1])

\* A link is only without its file after copying has failed half-way.
LinksFollowed ==
    \A j \in Active \cap MovingJobs : \A to \in Puts(j) :
        to[2] \in AnyPackages /\ File(to[1], to[2]) \in files =>
            \/ Stored(to[1], to[2]) \in files
            \/ \E e \in Entries : e[1] = to[2] /\ step[j][e] = "uncopied"

\* A link no database file lists has been added by a job or is about to be deleted by one.
LinkListed(db, p) ==
    File(db, p) \in files =>
        \/ p \in listed[db]
        \/ \E j \in Active \cap MovingJobs : <<db, p>> \in Puts(j)
        \/ \E j \in MovingJobs : \E e \in Entries :
              e[1] = p /\ DbOf(j, e) = db /\ step[j][e] = "ready" /\ Handling(j, e)

LinksListed == \A db \in Dbs : \A p \in AnyPackages : LinkListed(db, p)

\* A job is about to look whether the file in the "any" directory is still needed, or stuck.
Pending(repo, p) ==
    \E j \in MovingJobs : \E e \in Entries :
        /\ \/ step[j][e] = "ready" /\ Handling(j, e)
           \/ step[j][e] \in {"unlinked", "unreferenced", "stuck"}
        /\ e[1] = p /\ RepoOf[DbOf(j, e)] = repo

StoredLinked ==
    \A db \in Dbs : \A p \in AnyPackages : Stored(db, p) \in files \cap Files0 =>
        Referenced(RepoOf[db], p) \/ Pending(RepoOf[db], p)

\* What is held in memory only lags behind where something has changed, and lists too much
\* rather than too little where nothing is added.
KnownRight ==
    /\ \A db \in Dbs : db \notin stale => known[db] = listed[db]
    /\ \A db \in Dbs : (\A j \in Active \cap MovingJobs : \A to \in Puts(j) : to[1] # db) =>
          listed[db] \subseteq known[db]

\* CleanRepository flags nothing that is listed.
FlagRight(j) ==
    /\ flagged[j] # {} => phase[j] = "sweep"
    /\ phase[j] \in {"flag", "sweep"} => Job[j].kind = "clean"
    /\ Cleaning(j) /\ phase[j] = "flag" =>
          \A db \in Siblings(j) \ Job[j].dbs : listed[db] \subseteq seen[j][db]
    /\ Cleaning(j) => \A path \in flagged[j] : path[3] = "pkg" =>
          /\ path[1] \in Siblings(j) \cup {RepoOf[db] : db \in Siblings(j)}
          /\ \A db \in Dbs : path[1] \in {db, RepoOf[db]} => path[2] \notin listed[db]

IInv ==
    /\ TypeOK
    /\ Independent(Active)
    /\ \A j \in MovingJobs : JobRight(j)
    /\ \A j \in MovingJobs : \A e \in Entries :
          EntryRight(j, e) /\ CopyRight(j, e) /\ ListRight(j, e) /\ UnlinkRight(j, e)
    /\ LinksFollowed /\ LinksListed /\ StoredLinked
    /\ KnownRight
    /\ \A j \in RepoJobs : FlagRight(j)
    /\ ListedPresent /\ ContentsKept

-----------------------------------------------------------------------------
(* Constants *)

LEMMA JobFacts ==
    /\ MovingJobs \cap RepoJobs = {} /\ Jobs = MovingJobs \cup RepoJobs
    /\ \A j \in MovingJobs : Job[j].kind \in {"move", "remove"} /\ Source(j) \in Dbs
    /\ \A j \in MovingJobs : Job[j].dest \in Dbs /\ Job[j].packages \subseteq Packages
  BY RepoAssumption DEF MovingJobs, RepoJobs, Source

LEMMA DbFacts ==
    /\ \A db \in Dbs : DbsOf(db) \subseteq Dbs /\ RepoOf[db] \in Repos
    /\ \A db, other \in Dbs : RepoOf[db] # other
    /\ Dbs \cap Repos = {} /\ Dirs = Dbs \cup Repos
  BY RepoAssumption DEF DbsOf, Repos, Dirs

LEMMA ToolFacts ==
    ASSUME NEW e \in Entries
    PROVE  /\ AdderOf(e) \in {"add", "addDebug"} /\ RemoverOf(e) \in {"remove", "removeDebug"}
           /\ AdderOf(e) \in Tools /\ RemoverOf(e) \in Tools
           /\ \A t \in Tools : InList(t, e) <=> t \in {AdderOf(e), RemoverOf(e)}
           /\ \A j : ToolDb(j, AdderOf(e)) = TargetOf(j, e) /\ ToolDb(j, RemoverOf(e)) = DbOf(j, e)
           /\ \A j : Handling(j, e) <=> tool[j][RemoverOf(e)] = "handling"
  BY DEF AdderOf, RemoverOf, Tools, InList, ToolDb, TargetOf, DbOf, Handling, IsDebug

LEMMA EntryFacts == \A e \in Entries : e[1] \in Packages /\ e = <<e[1], e[2]>>
  BY DEF Entries

\* Files and signatures are different.
LEMMA PathFacts ==
    /\ \A db, p, dir, q : File(db, p) = <<dir, q, "pkg">> <=> db = dir /\ p = q
    /\ \A db, p, dir, q : Stored(db, p) = <<dir, q, "pkg">> <=> RepoOf[db] = dir /\ p = q
    /\ \A path : path[3] = "pkg" => SignatureOf(path) # path
    /\ \A path, dir, q : SignatureOf(path) # <<dir, q, "pkg">>
  BY DEF File, Stored, SignatureOf

LEMMA PathTypes ==
    /\ \A db \in Dbs, p \in Packages : File(db, p) \in Paths /\ Stored(db, p) \in Paths
    /\ \A path \in Paths : SignatureOf(path) \in Paths /\ path = <<path[1], path[2], path[3]>>
    /\ \A path \in Paths : path[1] \in Dirs /\ path[2] \in Packages /\ path[3] \in {"pkg", "sig"}
  BY DbFacts DEF File, Stored, SignatureOf, Paths

-----------------------------------------------------------------------------
(* What the jobs that run at the same time may do to each other *)

\* The places a job works with
LEMMA PlaceFacts ==
    ASSUME IInv, NEW j \in MovingJobs, NEW e \in Entries, step[j][e] # "none"
    PROVE  /\ j \in Active
           /\ DbOf(j, e) \in Dbs /\ <<DbOf(j, e), e[1]>> \in Takes(j)
           /\ Job[j].kind = "move" => TargetOf(j, e) \in Dbs /\ <<TargetOf(j, e), e[1]>> \in Puts(j)
  <1>1. EntryRight(j, e) BY DEF IInv
  <1>2. /\ phase[j] # "absent" /\ e[1] \in Touched(j) /\ DbOf(j, e) \in DbsOf(Source(j))
        /\ Job[j].kind = "move" => TargetOf(j, e) \in DbsOf(Job[j].dest)
    BY <1>1 DEF EntryRight
  <1>3. j \in Active BY <1>2, JobFacts DEF Active
  <1>4. Source(j) \in Dbs /\ Job[j].dest \in Dbs BY JobFacts
  <1> QED BY <1>2, <1>3, <1>4, DbFacts DEF Takes, Puts

\* A package is taken from another repository than any into which it is put.
LEMMA Apart ==
    ASSUME IInv, NEW i \in Active \cap MovingJobs, NEW j \in Active \cap MovingJobs,
           NEW db, NEW other, NEW p, <<db, p>> \in Takes(i), <<other, p>> \in Puts(j)
    PROVE  RepoOf[db] # RepoOf[other] /\ db # other
  BY DEF IInv, Independent

LEMMA PutOnce ==
    ASSUME IInv, NEW i \in Active \cap MovingJobs, NEW j \in Active \cap MovingJobs, i # j
    PROVE  Puts(i) \cap Puts(j) = {}
  BY DEF IInv, Independent

LEMMA NothingPut ==
    ASSUME IInv, NEW i \in Active \cap MovingJobs, NEW j \in Active \cap RepoJobs, Cleaning(j),
           NEW to \in Puts(i)
    PROVE  to[1] \notin Siblings(j)
  BY DEF IInv, Independent

LEMMA PutTypes == \A j \in MovingJobs : \A to \in Puts(j) : to[1] \in Dbs /\ to = <<to[1], to[2]>>
  <1> SUFFICES ASSUME NEW j \in MovingJobs, NEW to \in Puts(j)
               PROVE  to[1] \in Dbs /\ to = <<to[1], to[2]>>
    OBVIOUS
  <1>1. to \in DbsOf(Job[j].dest) \X Touched(j) BY DEF Puts
  <1>2. DbsOf(Job[j].dest) \subseteq Dbs BY JobFacts, DbFacts
  <1> QED BY <1>1, <1>2

LEMMA ToolDbNext == \A j, t : ToolDb(j, t)' = ToolDb(j, t)
  BY DEF ToolDb, Source

-----------------------------------------------------------------------------
(* What most steps leave alone *)

LEMMA ActiveSame ==
    ASSUME NEW j \in Jobs, phase[j] # "absent", phase'[j] # "absent",
           \A i \in Jobs : i # j => phase'[i] = phase[i]
    PROVE  Active' = Active
  BY DEF Active

LEMMA IndependentSame ==
    ASSUME IInv, Active' = Active
    PROVE  Independent(Active)'
  <1>1. Independent(Active) BY DEF IInv
  <1> QED BY <1>1

\* Nothing changes in the directories and the database files, and no location is forgotten
\* that is about to be deleted.
LEMMA DiskSame ==
    ASSUME IInv, files' = files, archive' = archive, listed' = listed, Active' = Active,
           \A i \in MovingJobs : \A f \in Entries : step[i][f] = "uncopied" => step'[i][f] = "uncopied",
           \A i \in MovingJobs : \A f \in Entries :
               step[i][f] = "ready" /\ Handling(i, f) => step'[i][f] = "ready" /\ Handling(i, f)',
           \A i \in MovingJobs : \A f \in Entries : step[i][f] \in {"unlinked", "unreferenced", "stuck"} =>
               step'[i][f] \in {"unlinked", "unreferenced", "stuck"} \/ Referenced(RepoOf[DbOf(i, f)], f[1])
    PROVE  LinksFollowed' /\ LinksListed' /\ StoredLinked' /\ ListedPresent' /\ ContentsKept'
  <1>1. LinksFollowed' BY DEF IInv, LinksFollowed, File, Stored
  <1>2. LinksListed'
    <2>1. ASSUME NEW db \in Dbs, NEW p \in AnyPackages PROVE LinkListed(db, p)'
      <3>1. LinkListed(db, p) BY DEF IInv, LinksListed
      <3>2. CASE \E i \in MovingJobs : \E f \in Entries :
                   f[1] = p /\ DbOf(i, f) = db /\ step[i][f] = "ready" /\ Handling(i, f)
        BY <3>2 DEF LinkListed
      <3> QED BY <3>1, <3>2 DEF LinkListed, File
    <2> QED BY <2>1 DEF LinksListed
  <1>3. StoredLinked'
    <2> SUFFICES ASSUME NEW db \in Dbs, NEW p \in AnyPackages, Stored(db, p) \in files \cap Files0,
                        ~Referenced(RepoOf[db], p)
                 PROVE  Pending(RepoOf[db], p)'
      BY DEF StoredLinked, Stored, Referenced, File
    <2>1. Pending(RepoOf[db], p) BY DEF IInv, StoredLinked
    <2>2. PICK i \in MovingJobs, f \in Entries :
            /\ \/ step[i][f] = "ready" /\ Handling(i, f)
               \/ step[i][f] \in {"unlinked", "unreferenced", "stuck"}
            /\ f[1] = p /\ RepoOf[DbOf(i, f)] = RepoOf[db]
      BY <2>1 DEF Pending
    <2>3. \/ step'[i][f] = "ready" /\ Handling(i, f)'
          \/ step'[i][f] \in {"unlinked", "unreferenced", "stuck"}
      BY <2>2
    <2> QED BY <2>2, <2>3 DEF Pending
  <1>4. ListedPresent' BY DEF IInv, ListedPresent, Present, File, Stored
  <1>5. ContentsKept' BY DEF IInv, ContentsKept
  <1> QED BY <1>1, <1>2, <1>3, <1>4, <1>5

\* Neither is anything known about the databases nor do the jobs cleaning them go on.
LEMMA CleaningSame ==
    ASSUME IInv, UNCHANGED database, UNCHANGED <<flagged, seen>>, Active' = Active,
           \A i \in RepoJobs : phase'[i] = phase[i]
    PROVE  KnownRight' /\ \A i \in RepoJobs : FlagRight(i)'
  BY DEF IInv, KnownRight, FlagRight, database, Cleaning, Siblings

\* A job to which nothing happens but what others do to the files and databases
LEMMA OtherSame ==
    ASSUME IInv, NEW i \in MovingJobs, phase'[i] = phase[i], step'[i] = step[i], tool'[i] = tool[i],
           failed'[i] = failed[i], errors'[i] = errors[i], result'[i] = result[i]
    PROVE  JobRight(i)' /\ \A f \in Entries : EntryRight(i, f)'
  <1>1. JobRight(i) BY DEF IInv
  <1>2. JobRight(i)' BY <1>1 DEF JobRight, SessionReleased, Successful
  <1>3. ASSUME NEW f \in Entries PROVE EntryRight(i, f)'
    <2>1. EntryRight(i, f) BY DEF IInv
    <2> QED BY <2>1 DEF EntryRight, Chosen, DbOf, TargetOf, Source, IsDebug, RemoverOf, AdderOf
  <1> QED BY <1>2, <1>3

\* What a location is worth depends on its step, the tools, the files and the databases.
LEMMA PlaceSame ==
    ASSUME IInv, files' = files, listed' = listed, NEW i \in MovingJobs, NEW f \in Entries,
           step'[i][f] = step[i][f] \/ step'[i][f] \in {"none", "uncopied"},
           Added(i, f)' => Added(i, f), Removed(i, f)' => Removed(i, f)
    PROVE  CopyRight(i, f)' /\ ListRight(i, f)' /\ UnlinkRight(i, f)'
  <1>1. CopyRight(i, f) /\ ListRight(i, f) /\ UnlinkRight(i, f) BY DEF IInv
  <1>2. CASE step'[i][f] \in {"none", "uncopied"}
    BY <1>2 DEF CopyRight, ListRight, UnlinkRight, Chosen
  <1>3. CASE step'[i][f] = step[i][f]
    <2>1. Chosen(i, f)' <=> Chosen(i, f) BY <1>3 DEF Chosen
    <2>2. Present(TargetOf(i, f), f[1])' <=> Present(TargetOf(i, f), f[1])
      BY DEF Present, File, Stored, TargetOf, IsDebug
    <2>3. CopyRight(i, f)' BY <1>1, <1>3, <2>1, <2>2 DEF CopyRight
    <2>4. ListRight(i, f)' BY <1>1, <2>1 DEF ListRight, TargetOf, DbOf, Source, IsDebug
    <2>5. UnlinkRight(i, f)' BY <1>1, <1>3 DEF UnlinkRight, DbOf, Source, IsDebug, Referenced, File
    <2> QED BY <2>3, <2>4, <2>5
  <1> QED BY <1>2, <1>3

\* Everything about the jobs that move and remove packages stays.
MovingRight ==
    /\ \A i \in MovingJobs : JobRight(i)
    /\ \A i \in MovingJobs : \A f \in Entries :
          EntryRight(i, f) /\ CopyRight(i, f) /\ ListRight(i, f) /\ UnlinkRight(i, f)

LEMMA MovingSame ==
    ASSUME IInv, UNCHANGED <<step, failed, tool>>, UNCHANGED <<listed, disk>>, Active' = Active,
           \A i \in MovingJobs : phase'[i] = phase[i] /\ errors'[i] = errors[i] /\ result'[i] = result[i]
    PROVE  /\ MovingRight'
           /\ LinksFollowed' /\ LinksListed' /\ StoredLinked' /\ ListedPresent' /\ ContentsKept'
           /\ Independent(Active)'
  <1>1. \A i \in MovingJobs : JobRight(i)' /\ \A f \in Entries : EntryRight(i, f)'
    BY OtherSame
  <1>2. \A i \in MovingJobs : \A f \in Entries : (Added(i, f)' <=> Added(i, f)) /\ (Removed(i, f)' <=> Removed(i, f))
    BY DEF Added, Removed, AdderOf, RemoverOf, IsDebug
  <1>3. \A i \in MovingJobs : \A f \in Entries : CopyRight(i, f)' /\ ListRight(i, f)' /\ UnlinkRight(i, f)'
    BY <1>2, PlaceSame DEF disk
  <1>4. \A i \in MovingJobs : \A f \in Entries : Handling(i, f)' <=> Handling(i, f)
    BY DEF Handling, InList, IsDebug
  <1>5. /\ LinksFollowed' /\ LinksListed' /\ StoredLinked' /\ ListedPresent' /\ ContentsKept'
    BY <1>4, DiskSame DEF disk
  <1> QED BY <1>1, <1>3, <1>5, IndependentSame DEF MovingRight

LEMMA IInvNext ==
    ASSUME TypeOK', Independent(Active)', MovingRight', LinksFollowed', LinksListed', StoredLinked',
           KnownRight', \A i \in RepoJobs : FlagRight(i)', ListedPresent', ContentsKept'
    PROVE  IInv'
  BY DEF IInv, MovingRight

-----------------------------------------------------------------------------
(* CheckForProblems, CleanRepository and ReloadDatabase *)

LEMMA RepoJobFacts ==
    ASSUME IInv, NEW j \in RepoJobs
    PROVE  /\ j \in Jobs /\ j \notin MovingJobs /\ (phase[j] # "absent" => j \in Active)
           /\ FlagRight(j) /\ (phase[j] # "sweep" => flagged[j] = {})
           /\ Job[j].dbs \subseteq Dbs
  BY JobFacts, RepoAssumption DEF IInv, FlagRight, Active

\* Steps that do not change what is flagged, nor the contents it depends on
LEMMA ScanKeeps ==
    ASSUME IInv, NEW j \in RepoJobs, NEW db \in Dbs,
           CheckDatabase(j, db) \/ CompareModification(j, db) \/ LockDatabase(j, db)
    PROVE  IInv'
  <1>1. /\ UNCHANGED <<step, failed, tool>> /\ UNCHANGED <<listed, disk>> /\ UNCHANGED database
        /\ UNCHANGED <<flagged, seen>> /\ phase' = phase /\ result' = result
    BY DEF CheckDatabase, CompareModification, LockDatabase, moving, database
  <1>2. TypeOK'
    <2>1. TypeOK BY DEF IInv
    <2>2. CASE CheckDatabase(j, db)
      BY <2>1, <2>2 DEF TypeOK, CheckDatabase, Readable, database, disk, moving
    <2>3. CASE CompareModification(j, db)
      <3>1. j \in Jobs BY RepoJobFacts
      <3>2. errors[j] \subseteq Tools \cup {"stale", "missing"} BY <2>1, <3>1 DEF TypeOK
      <3>3. errors' \in [Jobs -> SUBSET (Tools \cup {"stale", "missing"})]
        BY <2>1, <2>3, <3>1, <3>2 DEF TypeOK, CompareModification
      <3> QED BY <2>1, <2>3, <3>3 DEF TypeOK, CompareModification, database, disk
    <2>4. CASE LockDatabase(j, db)
      BY <2>1, <2>4 DEF TypeOK, LockDatabase, database, disk, moving
    <2> QED BY <2>2, <2>3, <2>4
  <1>3. Active' = Active BY <1>1 DEF Active
  <1>4. \A i \in MovingJobs : errors'[i] = errors[i]
    BY RepoJobFacts DEF IInv, TypeOK, CheckDatabase, CompareModification, LockDatabase, moving, MovingJobs
  <1>5. KnownRight' /\ \A i \in RepoJobs : FlagRight(i)' BY <1>1, <1>3, CleaningSame
  <1> QED BY <1>1, <1>2, <1>3, <1>4, <1>5, MovingSame, IInvNext

LEMMA RepoConcluded ==
    ASSUME IInv, NEW j \in RepoJobs, phase[j] # "absent",
           Concluded(j, "success") \/ Concluded(j, "failure"),
           UNCHANGED <<database, disk, moving>>, UNCHANGED <<todo, seen, flagged, problems>>,
           locked' \in [RepoJobs -> SUBSET Dbs], flagged[j] = {}
    PROVE  IInv'
  <1> USE DEF database, disk, moving
  <1>1. TypeOK /\ j \in Jobs BY RepoJobFacts DEF IInv
  <1>2. /\ phase' \in [Jobs -> {"absent", "new", "copying", "running", "flag", "sweep", "ended"}]
        /\ result' \in [Jobs -> {"none", "success", "failure"}]
    BY <1>1 DEF TypeOK, Concluded
  <1>3. TypeOK' BY <1>1, <1>2 DEF TypeOK
  <1>4. \A i \in Jobs : IF i = j THEN phase'[i] = "ended" ELSE phase'[i] = phase[i] /\ result'[i] = result[i]
    BY <1>1 DEF TypeOK, Concluded
  <1>5. Active' = Active BY <1>1, <1>4, ActiveSame
  <1>6. \A i \in MovingJobs : phase'[i] = phase[i] /\ errors'[i] = errors[i] /\ result'[i] = result[i]
    BY <1>4, RepoJobFacts, JobFacts
  <1>7. KnownRight' BY <1>5 DEF IInv, KnownRight
  <1>8. ASSUME NEW i \in RepoJobs PROVE FlagRight(i)'
    <2>1. FlagRight(i) BY DEF IInv
    <2>2. IF i = j THEN phase'[i] = "ended" ELSE phase'[i] = phase[i] BY <1>4, JobFacts
    <2> QED BY <2>1, <2>2 DEF FlagRight, Siblings
  <1> QED BY <1>3, <1>5, <1>6, <1>7, <1>8, MovingSame, IInvNext

LEMMA ConcludedKeeps ==
    ASSUME IInv, NEW j \in RepoJobs, Checked(j) \/ Swept(j)
    PROVE  IInv'
  <1>1. phase[j] # "absent" /\ flagged[j] = {} BY RepoJobFacts DEF Checked, Swept
  <1>2. /\ Concluded(j, "success") \/ Concluded(j, "failure")
        /\ UNCHANGED <<database, disk, moving>> /\ UNCHANGED <<todo, seen, flagged, problems>>
    BY DEF Checked, Swept, cleaning
  <1>3. locked' \in [RepoJobs -> SUBSET Dbs] BY DEF Checked, Swept, cleaning, IInv, TypeOK
  <1> QED BY <1>1, <1>2, <1>3, RepoConcluded

LEMMA LoadKeeps ==
    ASSUME IInv, NEW j \in RepoJobs, LoadSiblings(j)
    PROVE  IInv'
  <1>1. /\ phase[j] = "new" /\ flagged[j] = {} /\ j \in Jobs /\ TypeOK BY RepoJobFacts DEF LoadSiblings, IInv
  <1>2. CASE errors[j] # {}
    <2>1. locked' \in [RepoJobs -> SUBSET Dbs] BY <1>1, <1>2 DEF LoadSiblings, TypeOK
    <2>2. /\ Concluded(j, "failure")
          /\ UNCHANGED <<database, disk, moving>> /\ UNCHANGED <<todo, seen, flagged, problems>>
      BY <1>2 DEF LoadSiblings
    <2> QED BY <1>1, <2>1, <2>2, RepoConcluded
  <1>3. CASE errors[j] = {}
    <2> DEFINE loaded == [db \in Dbs |-> IF db \in Siblings(j) \ Job[j].dbs THEN listed[db] ELSE {}]
    <2>1. /\ seen' = [seen EXCEPT ![j] = loaded] /\ phase' = [phase EXCEPT ![j] = "flag"]
          /\ UNCHANGED <<locked, result>> /\ UNCHANGED <<database, disk, moving, todo, flagged, problems>>
          /\ Job[j].kind = "clean"
      BY <1>3 DEF LoadSiblings
    <2>2. loaded \in [Dbs -> SUBSET Packages] BY <1>1 DEF TypeOK
    <2>3. \A db \in Siblings(j) \ Job[j].dbs : loaded[db] = listed[db] BY DEF Siblings
    <2> HIDE DEF loaded
    <2>4. TypeOK'
      <3>1. seen' \in [RepoJobs -> [Dbs -> SUBSET Packages]] BY <1>1, <2>1, <2>2 DEF TypeOK
      <3>2. phase' \in [Jobs -> {"absent", "new", "copying", "running", "flag", "sweep", "ended"}]
        BY <1>1, <2>1 DEF TypeOK
      <3> QED BY <1>1, <2>1, <3>1, <3>2 DEF TypeOK, database, disk, moving
    <2>5. \A i \in Jobs : phase'[i] = IF i = j THEN "flag" ELSE phase[i] BY <1>1, <2>1 DEF TypeOK
    <2>6. \A i \in RepoJobs : seen'[i] = IF i = j THEN loaded ELSE seen[i] BY <1>1, <2>1 DEF TypeOK
    <2>7. Active' = Active BY <1>1, <2>5, ActiveSame
    <2>8. \A i \in MovingJobs : phase'[i] = phase[i] BY <2>5, RepoJobFacts, JobFacts
    <2>9. KnownRight' BY <2>1, <2>7 DEF IInv, KnownRight, database
    <2>10. ASSUME NEW i \in RepoJobs PROVE FlagRight(i)'
      <3>1. FlagRight(i) BY DEF IInv
      <3>2. CASE i # j
        <4>1. phase'[i] = phase[i] /\ seen'[i] = seen[i] BY <3>2, <2>5, <2>6, JobFacts
        <4> QED BY <3>1, <4>1, <2>1 DEF FlagRight, Siblings, database
      <3>3. CASE i = j
        <4>1. phase'[j] = "flag" /\ flagged'[j] = {} BY <1>1, <2>1, <2>5
        <4>2. \A db \in Siblings(j) \ Job[j].dbs : listed'[db] \subseteq seen'[j][db]
          BY <2>1, <2>3, <2>6 DEF database
        <4> QED BY <3>3, <4>1, <4>2, <2>1 DEF FlagRight, Siblings, Cleaning
      <3> QED BY <3>2, <3>3
    <2> QED BY <2>1, <2>4, <2>7, <2>8, <2>9, <2>10, MovingSame, IInvNext DEF database, moving
  <1> QED BY <1>2, <1>3

LEMMA ReloadKeeps ==
    ASSUME IInv, NEW db \in Dbs, Reload(db)
    PROVE  IInv'
  <1>1. /\ known' = [known EXCEPT ![db] = listed[db]] /\ stale' = stale \ {db}
        /\ UNCHANGED <<listed, disk, phase, moving, cleaning, result>>
    BY DEF Reload
  <1>2. TypeOK BY DEF IInv
  <1>3. \A other \in Dbs : known'[other] = IF other = db THEN listed[db] ELSE known[other]
    BY <1>1, <1>2 DEF TypeOK
  <1>4. TypeOK'
    <2>1. known' \in [Dbs -> SUBSET Packages] BY <1>1, <1>2 DEF TypeOK
    <2> QED BY <1>1, <1>2, <2>1 DEF TypeOK, disk, moving, cleaning
  <1>5. Active' = Active BY <1>1 DEF Active
  <1>6. KnownRight' BY <1>1, <1>3, <1>5 DEF IInv, KnownRight
  <1>7. \A i \in RepoJobs : FlagRight(i)' BY <1>1 DEF IInv, FlagRight, cleaning, Siblings
  <1> QED BY <1>1, <1>4, <1>5, <1>6, <1>7, MovingSame, IInvNext DEF moving

LEMMA FlagKeeps ==
    ASSUME IInv, NEW j \in RepoJobs, FlagFiles(j)
    PROVE  IInv'
  <1> DEFINE contents(db) == IF db \in Job[j].dbs THEN known[db] ELSE seen[j][db]
             dirs == Siblings(j) \cup {RepoOf[db] : db \in Siblings(j)}
             Unreferenced(path) == \A db \in RelevantDbs(j, path[1]) : path[2] \notin contents(db)
             flags == {path \in files : path[1] \in dirs /\
                         IF path[3] = "pkg" THEN Unreferenced(path) ELSE <<path[1], path[2], "pkg">> \notin files}
  <1>1. /\ phase[j] = "flag" /\ flagged' = [flagged EXCEPT ![j] = flags]
        /\ phase' = [phase EXCEPT ![j] = "sweep"]
        /\ UNCHANGED <<database, disk, moving, todo, locked, seen, problems, result>>
    BY DEF FlagFiles
  <1>2. TypeOK /\ j \in Jobs /\ j \in Active BY <1>1, RepoJobFacts DEF IInv
  <1>3. TypeOK'
    <2>1. flagged' \in [RepoJobs -> SUBSET Paths] BY <1>1, <1>2 DEF TypeOK
    <2>2. phase' \in [Jobs -> {"absent", "new", "copying", "running", "flag", "sweep", "ended"}]
      BY <1>1, <1>2 DEF TypeOK
    <2> QED BY <1>1, <1>2, <2>1, <2>2 DEF TypeOK, database, disk, moving
  <1>4. \A i \in Jobs : phase'[i] = IF i = j THEN "sweep" ELSE phase[i] BY <1>1, <1>2 DEF TypeOK
  <1>5. \A i \in RepoJobs : flagged'[i] = IF i = j THEN flags ELSE flagged[i] BY <1>1, <1>2 DEF TypeOK
  <1>6. Active' = Active BY <1>1, <1>2, <1>4, ActiveSame
  <1>7. \A i \in MovingJobs : phase'[i] = phase[i] BY <1>4, RepoJobFacts, JobFacts
  <1>8. KnownRight' BY <1>1, <1>6 DEF IInv, KnownRight, database
  <1>9. ASSUME Cleaning(j), NEW path \in flags, path[3] = "pkg", NEW db \in Dbs, path[1] \in {db, RepoOf[db]}
        PROVE  path[2] \notin listed[db]
    <2>1. db \in Siblings(j) /\ db \in RelevantDbs(j, path[1])
      BY <1>9, DbFacts, RepoJobFacts DEF Siblings, RelevantDbs
    <2>2. path[2] \notin contents(db) BY <1>9, <2>1
    <2>3. listed[db] \subseteq contents(db)
      <3>1. CASE db \in Job[j].dbs
        <4>1. \A i \in Active \cap MovingJobs : \A to \in Puts(i) : to[1] # db
          BY <1>2, <1>9, <2>1, NothingPut
        <4> QED BY <3>1, <4>1 DEF IInv, KnownRight
      <3>2. CASE db \notin Job[j].dbs
        <4>1. FlagRight(j) BY DEF IInv
        <4> QED BY <1>1, <1>9, <2>1, <3>2, <4>1 DEF FlagRight
      <3> QED BY <3>1, <3>2
    <2> QED BY <2>2, <2>3
  <1>10. \A path \in flags : path[1] \in dirs OBVIOUS
  <1> HIDE DEF flags
  <1>11. ASSUME NEW i \in RepoJobs PROVE FlagRight(i)'
    <2>1. FlagRight(i) /\ FlagRight(j) BY DEF IInv
    <2>2. CASE i # j
      <3>1. phase'[i] = phase[i] /\ flagged'[i] = flagged[i] BY <2>2, <1>4, <1>5, JobFacts
      <3> QED BY <2>1, <3>1, <1>1 DEF FlagRight, Siblings, database
    <2>3. CASE i = j
      <3>1. phase'[j] = "sweep" /\ flagged'[j] = flags /\ listed' = listed BY <1>1, <1>2, <1>4, <1>5 DEF database
      <3> QED BY <2>1, <2>3, <3>1, <1>1, <1>9, <1>10 DEF FlagRight, Cleaning
    <2> QED BY <2>2, <2>3
  <1> QED BY <1>1, <1>3, <1>6, <1>7, <1>8, <1>11, MovingSame, IInvNext DEF database, moving

-----------------------------------------------------------------------------
(* Deleting and archiving files *)

Gone(dir, p) == <<dir, p, "pkg">> \in files /\ <<dir, p, "pkg">> \notin files'

\* What is deleted is not listed, no job has put it there, and its contents are elsewhere.
Harmless ==
    /\ \A dir, p : <<dir, p, "pkg">> \in files' => <<dir, p, "pkg">> \in files
    /\ \A db \in Dbs : \A p \in listed[db] : ~Gone(db, p) /\ (p \in AnyPackages => ~Gone(RepoOf[db], p))
    /\ \A i \in Active \cap MovingJobs : \A to \in Puts(i) : ~Gone(to[1], to[2]) /\ ~Gone(RepoOf[to[1]], to[2])
    /\ \A dir \in Dirs, p \in Packages : Gone(dir, p) =>
          \/ <<dir, p, "pkg">> \in archive'
          \/ p \in AnyPackages /\ dir \in Dbs
          \/ \E other \in Dirs : (p \in AnyPackages => other \in Repos) /\ <<other, p, "pkg">> \in files'
    /\ archive \subseteq archive'

LEMMA DeletionKeeps ==
    ASSUME IInv, Harmless, listed' = listed
    PROVE  /\ ListedPresent' /\ ContentsKept'
           /\ \A i \in MovingJobs : \A f \in Entries :
                 Job[i].kind = "move" /\ step[i][f] # "none" /\ Present(TargetOf(i, f), f[1])
                 => Present(TargetOf(i, f), f[1])'
  <1>1. ASSUME NEW db \in Dbs, NEW p \in listed'[db] PROVE Present(db, p)'
    <2>1. p \in listed[db] /\ Present(db, p) BY DEF IInv, ListedPresent
    <2> QED BY <2>1 DEF Harmless, Gone, Present, File, Stored
  <1>2. ContentsKept'
    <2> SUFFICES ASSUME NEW p \in Packages, \E path \in Files0 : path[2] = p
                 PROVE  \E dir \in Dirs : (p \in AnyPackages => dir \in Repos) /\ <<dir, p, "pkg">> \in files' \cup archive'
      BY DEF ContentsKept
    <2>1. PICK dir \in Dirs : (p \in AnyPackages => dir \in Repos) /\ <<dir, p, "pkg">> \in files \cup archive
      BY DEF IInv, ContentsKept
    <2>2. CASE ~Gone(dir, p) BY <2>1, <2>2 DEF Gone, Harmless
    <2>3. CASE Gone(dir, p) BY <2>1, <2>3, DbFacts DEF Harmless
    <2> QED BY <2>2, <2>3
  <1>3. ASSUME NEW i \in MovingJobs, NEW f \in Entries,
               Job[i].kind = "move", step[i][f] # "none", Present(TargetOf(i, f), f[1])
        PROVE  Present(TargetOf(i, f), f[1])'
    <2> DEFINE to == TargetOf(i, f)
    <2>1. i \in Active /\ <<to, f[1]>> \in Puts(i) BY <1>3, PlaceFacts
    <2>2. ~Gone(to, f[1]) /\ ~Gone(RepoOf[to], f[1])
      <3>1. \A t \in Puts(i) : ~Gone(t[1], t[2]) /\ ~Gone(RepoOf[t[1]], t[2]) BY <2>1 DEF Harmless
      <3> HIDE DEF to
      <3> QED BY <2>1, <3>1
    <2>3. to = TargetOf(i, f)' BY DEF TargetOf, IsDebug
    <2> HIDE DEF to
    <2>4. Present(to, f[1]) BY <1>3 DEF to
    <2> QED BY <2>2, <2>3, <2>4 DEF Gone, Present, File, Stored
  <1> QED BY <1>1, <1>2, <1>3 DEF ListedPresent

\* Fewer links are left to be listed and to be followed.
LEMMA FewerLinks ==
    ASSUME IInv, Harmless, listed' = listed, Active' = Active,
           \A i \in MovingJobs : \A f \in Entries : step[i][f] = "uncopied" => step'[i][f] = "uncopied",
           \A i \in MovingJobs : \A f \in Entries :
               step[i][f] = "ready" /\ Handling(i, f) =>
                   \/ step'[i][f] = "ready" /\ Handling(i, f)'
                   \/ File(DbOf(i, f), f[1]) \notin files'
    PROVE  LinksFollowed' /\ LinksListed'
  <1>1. LinksFollowed'
    <2> SUFFICES ASSUME NEW i \in Active \cap MovingJobs, NEW to \in Puts(i),
                        to[2] \in AnyPackages, File(to[1], to[2]) \in files', Stored(to[1], to[2]) \notin files'
                 PROVE  \E f \in Entries : f[1] = to[2] /\ step'[i][f] = "uncopied"
      BY DEF LinksFollowed, File, Stored
    <2>1. File(to[1], to[2]) \in files /\ Stored(to[1], to[2]) \notin files
      BY DEF Harmless, Gone, File, Stored
    <2>2. \E f \in Entries : f[1] = to[2] /\ step[i][f] = "uncopied"
      BY <2>1 DEF IInv, LinksFollowed
    <2> QED BY <2>2
  <1>2. ASSUME NEW db \in Dbs, NEW p \in AnyPackages PROVE LinkListed(db, p)'
    <2>1. LinkListed(db, p) BY DEF IInv, LinksListed
    <2>2. File(db, p) \in files' => File(db, p) \in files BY DEF Harmless, File
    <2>3. CASE \E i \in MovingJobs : \E f \in Entries :
                 f[1] = p /\ DbOf(i, f) = db /\ step[i][f] = "ready" /\ Handling(i, f)
      BY <2>3 DEF LinkListed, File
    <2> QED BY <2>1, <2>2, <2>3 DEF LinkListed, File
  <1> QED BY <1>1, <1>2 DEF LinksListed

\* CleanRepository archives or deletes one of the files it has flagged.
LEMMA SweepFacts ==
    ASSUME IInv, NEW j \in RepoJobs, NEW path \in flagged[j], Sweep(j, path)
    PROVE  /\ Harmless
           /\ \A dir, p : Gone(dir, p) => Cleaning(j) /\ path = <<dir, p, "pkg">> /\ path \in flagged[j]
  <1>1. TypeOK /\ FlagRight(j) /\ path \in Paths /\ j \in Active BY RepoJobFacts DEF IInv, TypeOK, FlagRight
  <1>2. path = <<path[1], path[2], path[3]>> /\ path[3] \in {"pkg", "sig"} BY <1>1, PathTypes
  <1>3. ASSUME NEW dir, NEW p, Gone(dir, p)
        PROVE  /\ path = <<dir, p, "pkg">> /\ ~Job[j].dryRun /\ path \in files /\ <<dir, p, "pkg">> \in archive'
    <2>1. ~Job[j].dryRun /\ path \in files BY <1>3 DEF Sweep, Gone, disk
    <2>2. files' = files \ ({path, SignatureOf(path)} \cap files) BY <2>1 DEF Sweep
    <2>3. <<dir, p, "pkg">> \in {path, SignatureOf(path)} BY <1>3, <2>2 DEF Gone
    <2>4. path = <<dir, p, "pkg">> BY <2>3, PathFacts
    <2>5. path[3] = "pkg" BY <2>4
    <2>6. archive' = archive \cup ({path, SignatureOf(path)} \cap files) BY <2>1, <2>5 DEF Sweep
    <2> QED BY <2>1, <2>4, <2>6
  <1>4. ASSUME NEW dir, NEW p, Gone(dir, p)
        PROVE  Cleaning(j) /\ path = <<dir, p, "pkg">> /\ path \in flagged[j]
    <2>1. flagged[j] # {} OBVIOUS
    <2> QED BY <1>1, <1>3, <1>4, <2>1 DEF FlagRight, Cleaning
  <1>5. \A dir, p : <<dir, p, "pkg">> \in files' => <<dir, p, "pkg">> \in files BY DEF Sweep, disk
  <1>6. ASSUME NEW db \in Dbs, NEW p \in listed[db], NEW dir \in {db, RepoOf[db]}
        PROVE  ~Gone(dir, p)
    <2>1. SUFFICES ASSUME Gone(dir, p) PROVE FALSE OBVIOUS
    <2>2. Cleaning(j) /\ path = <<dir, p, "pkg">> BY <1>4, <2>1
    <2>3. path[1] = dir /\ path[2] = p /\ path[3] = "pkg" BY <2>2
    <2> QED BY <1>1, <1>6, <2>2, <2>3 DEF FlagRight
  <1>7. ASSUME NEW i \in Active \cap MovingJobs, NEW to \in Puts(i), NEW dir \in {to[1], RepoOf[to[1]]}
        PROVE  ~Gone(dir, to[2])
    <2>1. SUFFICES ASSUME Gone(dir, to[2]) PROVE FALSE OBVIOUS
    <2>2. Cleaning(j) /\ path = <<dir, to[2], "pkg">> BY <1>4, <2>1
    <2>3. to[1] \notin Siblings(j) /\ to[1] \in Dbs
      <3>1. j \in Active \cap RepoJobs BY <1>1
      <3> QED BY <2>2, <3>1, NothingPut, PutTypes
    <2>4. path[1] = dir /\ path[3] = "pkg" BY <2>2
    <2>5. dir \in Siblings(j) \cup {RepoOf[db] : db \in Siblings(j)} BY <1>1, <2>2, <2>4 DEF FlagRight
    <2>6. CASE dir = to[1]
      <3>1. dir \notin {RepoOf[db] : db \in Siblings(j)} BY <2>3, <2>6, DbFacts DEF Siblings
      <3> QED BY <2>3, <2>5, <2>6, <3>1
    <2>7. CASE dir = RepoOf[to[1]]
      <3>1. dir \notin Siblings(j) BY <2>3, <2>7, DbFacts DEF Siblings
      <3> QED BY <2>3, <2>5, <2>7, <3>1 DEF Siblings
    <2> QED BY <1>7, <2>6, <2>7
  <1>8. archive \subseteq archive' BY DEF Sweep, disk
  <1> QED BY <1>3, <1>4, <1>5, <1>6, <1>7, <1>8 DEF Harmless

LEMMA SweepKeeps ==
    ASSUME IInv, NEW j \in RepoJobs, NEW path \in flagged[j], Sweep(j, path)
    PROVE  IInv'
  <1> USE DEF database
  <1>1. /\ UNCHANGED <<database, phase, step, failed, tool, todo, locked, seen, problems, result>>
        /\ flagged' = [flagged EXCEPT ![j] = @ \ {path}]
    BY DEF Sweep
  <1>2. TypeOK /\ path \in Paths /\ j \in Jobs BY RepoJobFacts DEF IInv, TypeOK
  <1>3. TypeOK'
    <2>1. flagged' \in [RepoJobs -> SUBSET Paths] BY <1>1, <1>2 DEF TypeOK
    <2>2. files' \subseteq Paths /\ archive' \subseteq Paths BY <1>2 DEF TypeOK, Sweep, disk
    <2>3. errors' \in [Jobs -> SUBSET (Tools \cup {"stale", "missing"})]
      <3>1. errors[j] \cup {"missing"} \subseteq Tools \cup {"stale", "missing"} BY <1>2 DEF TypeOK
      <3> QED BY <1>2, <3>1 DEF TypeOK, Sweep
    <2> QED BY <1>1, <1>2, <2>1, <2>2, <2>3 DEF TypeOK
  <1>4. Active' = Active BY <1>1 DEF Active
  <1>5. Harmless BY SweepFacts
  <1>6. listed' = listed BY <1>1
  <1>7. \A i \in MovingJobs : errors'[i] = errors[i] BY <1>2, RepoJobFacts DEF TypeOK, Sweep, MovingJobs
  <1>8. \A i \in MovingJobs : JobRight(i)' /\ \A f \in Entries : EntryRight(i, f)' BY <1>1, <1>7, OtherSame
  <1>9. ASSUME NEW i \in MovingJobs, NEW f \in Entries
        PROVE  CopyRight(i, f)' /\ ListRight(i, f)' /\ UnlinkRight(i, f)'
    <2>1. CopyRight(i, f) /\ ListRight(i, f) /\ UnlinkRight(i, f) BY DEF IInv
    <2>2. CopyRight(i, f)'
      <3>1. Present(TargetOf(i, f), f[1]) /\ Job[i].kind = "move" /\ step[i][f] # "none" => Present(TargetOf(i, f), f[1])'
        BY <1>5, <1>6, DeletionKeeps
      <3> QED BY <2>1, <3>1, <1>1 DEF CopyRight, Chosen
    <2>3. ListRight(i, f)'
      BY <2>1, <1>1, <1>7 DEF ListRight, Chosen, Added, Removed, TargetOf, DbOf, Source, IsDebug, AdderOf, RemoverOf
    <2>4. UnlinkRight(i, f)' BY <2>1, <1>1, <1>5 DEF UnlinkRight, Referenced, Harmless, File, DbOf, Source, IsDebug
    <2> QED BY <2>2, <2>3, <2>4
  <1>10. \A i \in MovingJobs : \A f \in Entries : Handling(i, f)' <=> Handling(i, f)
    BY <1>1 DEF Handling, InList, IsDebug
  <1>11. LinksFollowed' /\ LinksListed' BY <1>1, <1>4, <1>5, <1>6, <1>10, FewerLinks
  <1>12. ASSUME NEW db \in Dbs, NEW p \in AnyPackages, Stored(db, p) \in files' \cap Files0, ~Referenced(RepoOf[db], p)'
         PROVE  Pending(RepoOf[db], p)'
    <2>1. Stored(db, p) \in files BY <1>12, <1>5 DEF Harmless, Stored
    <2>2. Pending(RepoOf[db], p)
      <3>1. CASE Referenced(RepoOf[db], p)
        <4>1. PICK other \in Dbs : RepoOf[other] = RepoOf[db] /\ File(other, p) \in files BY <3>1 DEF Referenced
        <4>2. File(other, p) \notin files' BY <4>1, <1>12 DEF Referenced, File
        <4>3. Gone(other, p) BY <4>1, <4>2 DEF Gone, File
        <4>4. Cleaning(j) /\ path = <<other, p, "pkg">> BY <4>3, SweepFacts
        <4>5. path[1] = other /\ path[2] = p /\ path[3] = "pkg" BY <4>4
        <4>6. FlagRight(j) /\ j \in Active BY RepoJobFacts DEF IInv, FlagRight
        <4>7. p \notin listed[other] /\ other \in Siblings(j)
          <5>1. other \notin {RepoOf[x] : x \in Siblings(j)} BY DbFacts DEF Siblings
          <5> QED BY <4>4, <4>5, <4>6, <5>1 DEF FlagRight
        <4>8. \A i \in Active \cap MovingJobs : <<other, p>> \notin Puts(i)
          <5>1. SUFFICES ASSUME NEW i \in Active \cap MovingJobs, <<other, p>> \in Puts(i) PROVE FALSE OBVIOUS
          <5>2. <<other, p>>[1] \notin Siblings(j) BY <5>1, <4>4, <4>6, NothingPut
          <5> QED BY <5>2, <4>7
        <4>9. LinkListed(other, p) BY DEF IInv, LinksListed
        <4>10. PICK i \in MovingJobs, f \in Entries : f[1] = p /\ DbOf(i, f) = other /\ step[i][f] = "ready" /\ Handling(i, f)
          BY <4>1, <4>7, <4>8, <4>9 DEF LinkListed
        <4> QED BY <4>1, <4>10 DEF Pending
      <3>2. CASE ~Referenced(RepoOf[db], p) BY <1>12, <2>1, <3>2 DEF IInv, StoredLinked
      <3> QED BY <3>1, <3>2
    <2> QED BY <2>2, <1>1, <1>10 DEF Pending, DbOf, Source, IsDebug
  <1>13. StoredLinked' BY <1>12 DEF StoredLinked, Stored
  <1>14. KnownRight' BY <1>1, <1>4 DEF IInv, KnownRight
  <1>15. ASSUME NEW i \in RepoJobs PROVE FlagRight(i)'
    <2>1. FlagRight(i) BY DEF IInv
    <2>2. flagged'[i] \subseteq flagged[i] BY <1>1, <1>2 DEF TypeOK
    <2> QED BY <2>1, <2>2, <1>1 DEF FlagRight, Siblings, Cleaning
  <1>16. MovingRight' BY <1>8, <1>9 DEF MovingRight
  <1>17. ListedPresent' /\ ContentsKept' BY <1>5, <1>6, DeletionKeeps
  <1> QED BY <1>3, <1>4, <1>11, <1>13, <1>14, <1>15, <1>16, <1>17, IndependentSame, IInvNext

-----------------------------------------------------------------------------
(* MovePackages and RemovePackages *)

LEMMA ToolAt ==
    ASSUME TypeOK, NEW j \in MovingJobs, NEW t \in Tools, NEW x \in ToolStates,
           tool' = [tool EXCEPT ![j][t] = x]
    PROVE  /\ tool' \in [MovingJobs -> [Tools -> ToolStates]]
           /\ \A i \in MovingJobs : \A u \in Tools : tool'[i][u] = IF i = j /\ u = t THEN x ELSE tool[i][u]
           /\ \A i \in MovingJobs : i # j => tool'[i] = tool[i]
  BY DEF TypeOK

LEMMA StepAt ==
    ASSUME TypeOK, NEW j \in MovingJobs, NEW e \in Entries, NEW x \in Steps,
           step' = [step EXCEPT ![j][e] = x]
    PROVE  /\ step' \in [MovingJobs -> [Entries -> Steps]]
           /\ \A i \in MovingJobs : \A f \in Entries : step'[i][f] = IF i = j /\ f = e THEN x ELSE step[i][f]
           /\ \A i \in MovingJobs : i # j => step'[i] = step[i]
  BY DEF TypeOK

LEMMA FailsAt ==
    ASSUME TypeOK, NEW j \in MovingJobs, NEW packages \in SUBSET Packages,
           Fails(j, packages) \/ failed' = failed
    PROVE  /\ failed' \in [MovingJobs -> SUBSET Packages]
           /\ \A i \in MovingJobs : failed[i] \subseteq failed'[i] /\ (i # j => failed'[i] = failed[i])
  BY DEF TypeOK, Fails

LEMMA MovingJobFacts ==
    ASSUME IInv, NEW j \in MovingJobs
    PROVE  /\ j \in Jobs /\ j \notin RepoJobs /\ TypeOK /\ JobRight(j)
           /\ \A f \in Entries : EntryRight(j, f) /\ CopyRight(j, f) /\ ListRight(j, f) /\ UnlinkRight(j, f)
           /\ Job[j].kind \in {"move", "remove"}
  BY JobFacts DEF IInv

\* A step of a job that changes neither a directory nor a database
LEMMA QuietKeeps ==
    ASSUME IInv, NEW j \in MovingJobs, TypeOK', Active' = Active, UNCHANGED <<database, disk, cleaning>>,
           \A i \in Jobs : i # j => phase'[i] = phase[i] /\ errors'[i] = errors[i] /\ result'[i] = result[i],
           \A i \in MovingJobs : i # j => step'[i] = step[i] /\ failed'[i] = failed[i] /\ tool'[i] = tool[i],
           JobRight(j)',
           \A f \in Entries : EntryRight(j, f)' /\ CopyRight(j, f)' /\ ListRight(j, f)' /\ UnlinkRight(j, f)',
           \A f \in Entries : step[j][f] = "uncopied" => step'[j][f] = "uncopied",
           \A f \in Entries : step[j][f] = "ready" /\ Handling(j, f) => step'[j][f] = "ready" /\ Handling(j, f)',
           \A f \in Entries : step[j][f] \in {"unlinked", "unreferenced", "stuck"} =>
               step'[j][f] \in {"unlinked", "unreferenced", "stuck"} \/ Referenced(RepoOf[DbOf(j, f)], f[1])
    PROVE  IInv'
  <1>1. files' = files /\ archive' = archive /\ listed' = listed /\ UNCHANGED database /\ UNCHANGED <<flagged, seen>>
    BY DEF disk, database, cleaning
  <1>2. KnownRight' /\ \A i \in RepoJobs : FlagRight(i)'
    <2>1. \A i \in RepoJobs : phase'[i] = phase[i] BY MovingJobFacts, JobFacts
    <2> QED BY <1>1, <2>1, CleaningSame
  <1>3. ASSUME NEW i \in MovingJobs, i # j PROVE \A f \in Entries : Handling(i, f)' <=> Handling(i, f)
    BY <1>3 DEF Handling, InList, IsDebug
  <1>4. LinksFollowed' /\ LinksListed' /\ StoredLinked' /\ ListedPresent' /\ ContentsKept'
    <2>1. \A i \in MovingJobs : \A f \in Entries :
            step[i][f] = "ready" /\ Handling(i, f) => step'[i][f] = "ready" /\ Handling(i, f)'
      BY <1>3
    <2>2. \A i \in MovingJobs : \A f \in Entries : step[i][f] = "uncopied" => step'[i][f] = "uncopied"
      OBVIOUS
    <2>3. \A i \in MovingJobs : \A f \in Entries : step[i][f] \in {"unlinked", "unreferenced", "stuck"} =>
               step'[i][f] \in {"unlinked", "unreferenced", "stuck"} \/ Referenced(RepoOf[DbOf(i, f)], f[1])
      OBVIOUS
    <2> QED BY <1>1, <2>1, <2>2, <2>3, DiskSame
  <1>5. ASSUME NEW i \in MovingJobs, i # j
        PROVE  /\ JobRight(i)'
               /\ \A f \in Entries : EntryRight(i, f)' /\ CopyRight(i, f)' /\ ListRight(i, f)' /\ UnlinkRight(i, f)'
    <2>1. phase'[i] = phase[i] /\ errors'[i] = errors[i] /\ result'[i] = result[i] BY <1>5, JobFacts
    <2>2. JobRight(i)' /\ \A f \in Entries : EntryRight(i, f)' BY <1>5, <2>1, OtherSame
    <2>3. \A f \in Entries : (Added(i, f)' <=> Added(i, f)) /\ (Removed(i, f)' <=> Removed(i, f))
      BY <1>5, <2>1 DEF Added, Removed, AdderOf, RemoverOf, IsDebug
    <2>4. \A f \in Entries : CopyRight(i, f)' /\ ListRight(i, f)' /\ UnlinkRight(i, f)'
      BY <1>1, <1>5, <2>3, PlaceSame
    <2> QED BY <2>2, <2>4
  <1>6. MovingRight' BY <1>5 DEF MovingRight
  <1> QED BY <1>2, <1>4, <1>6, IndependentSame, IInvNext

LEMMA ConcludeKeeps ==
    ASSUME IInv, NEW j \in MovingJobs, Conclude(j)
    PROVE  IInv'
  <1> USE DEF moving, cleaning
  <1> DEFINE r == IF Successful(j) THEN "success" ELSE "failure"
  <1>1. /\ phase[j] = "running" /\ SessionReleased(j) /\ phase' = [phase EXCEPT ![j] = "ended"]
        /\ result' = [result EXCEPT ![j] = r] /\ UNCHANGED <<database, disk, moving, cleaning>>
    BY DEF Conclude, Concluded
  <1>2. TypeOK /\ j \in Jobs /\ JobRight(j) BY MovingJobFacts
  <1>3. TypeOK'
    <2>1. phase' \in [Jobs -> {"absent", "new", "copying", "running", "flag", "sweep", "ended"}]
      BY <1>1, <1>2 DEF TypeOK
    <2>2. result' \in [Jobs -> {"none", "success", "failure"}] BY <1>1, <1>2 DEF TypeOK
    <2> QED BY <1>1, <1>2, <2>1, <2>2 DEF TypeOK, database, disk
  <1>4. \A i \in Jobs : /\ phase'[i] = IF i = j THEN "ended" ELSE phase[i]
                        /\ result'[i] = IF i = j THEN r ELSE result[i]
    BY <1>1, <1>2 DEF TypeOK
  <1>5. Active' = Active BY <1>1, <1>2, <1>4, ActiveSame
  <1>6. JobRight(j)'
    <2>1. phase'[j] = "ended" /\ (result'[j] = "success" => Successful(j)) BY <1>2, <1>4
    <2>2. Successful(j)' <=> Successful(j) BY <1>1 DEF Successful
    <2>3. SessionReleased(j)' <=> SessionReleased(j) BY <1>1 DEF SessionReleased
    <2> QED BY <1>1, <1>2, <2>1, <2>2, <2>3 DEF JobRight
  <1>7. ASSUME NEW f \in Entries PROVE EntryRight(j, f)' /\ CopyRight(j, f)' /\ ListRight(j, f)' /\ UnlinkRight(j, f)'
    <2>1. EntryRight(j, f) BY MovingJobFacts
    <2>2. EntryRight(j, f)'
      <3>1. phase'[j] = "ended" BY <1>2, <1>4
      <3> QED BY <1>1, <2>1, <3>1 DEF EntryRight, Chosen, DbOf, TargetOf, Source, IsDebug, RemoverOf, AdderOf
    <2>3. (Added(j, f)' <=> Added(j, f)) /\ (Removed(j, f)' <=> Removed(j, f))
      BY <1>1 DEF Added, Removed, AdderOf, RemoverOf, IsDebug
    <2>4. CopyRight(j, f)' /\ ListRight(j, f)' /\ UnlinkRight(j, f)'
      BY <1>1, <2>3, PlaceSame DEF database, disk
    <2> QED BY <2>2, <2>4
  <1>8. \A f \in Entries : Handling(j, f)' <=> Handling(j, f) BY <1>1 DEF Handling, InList, IsDebug
  <1> QED BY <1>1, <1>3, <1>4, <1>5, <1>6, <1>7, <1>8, QuietKeeps

\* Tools that have been asked for wait for their lock, lose their callback or run.
LEMMA ToolsKeep ==
    ASSUME IInv, UNCHANGED <<database, disk, phase, step, failed, errors, cleaning, result>>,
           tool' \in [MovingJobs -> [Tools -> ToolStates]],
           \A i \in MovingJobs : \A u \in Tools :
              \/ tool'[i][u] = tool[i][u]
              \/ tool[i][u] \in {"asked", "waiting"} /\ tool'[i][u] \in {"waiting", "running", "lost"}
    PROVE  IInv'
  <1> USE DEF database, disk, cleaning
  <1>1. TypeOK' BY DEF IInv, TypeOK
  <1>2. Active' = Active BY DEF Active
  <1>3. ASSUME NEW i \in MovingJobs, NEW f \in Entries
        PROVE  /\ EntryRight(i, f)' /\ CopyRight(i, f)' /\ ListRight(i, f)' /\ UnlinkRight(i, f)'
               /\ Handling(i, f)' <=> Handling(i, f)
    <2>1. EntryRight(i, f) BY MovingJobFacts
    <2>2. AdderOf(f) \in Tools /\ RemoverOf(f) \in Tools BY ToolFacts
    <2> DEFINE a == AdderOf(f)
               r == RemoverOf(f)
    <2>3. /\ (tool'[i][r] = "handling" <=> tool[i][r] = "handling") /\ (tool'[i][r] = "done" <=> tool[i][r] = "done")
          /\ (tool'[i][a] = "done" <=> tool[i][a] = "done")
          /\ (tool[i][r] # "none" => tool'[i][r] # "none") /\ (tool[i][a] # "none" => tool'[i][a] # "none")
      BY <2>2
    <2>4. a = AdderOf(f)' /\ r = RemoverOf(f)' BY DEF AdderOf, RemoverOf, IsDebug
    <2> HIDE DEF a, r
    <2>5. EntryRight(i, f)'
      BY <2>1, <2>3 DEF EntryRight, Chosen, DbOf, TargetOf, Source, IsDebug, a, r, AdderOf, RemoverOf
    <2>6. (Added(i, f)' <=> Added(i, f)) /\ (Removed(i, f)' <=> Removed(i, f))
      BY <2>3, <2>4 DEF Added, Removed, a, r
    <2>7. CopyRight(i, f)' /\ ListRight(i, f)' /\ UnlinkRight(i, f)' BY <2>6, PlaceSame
    <2>8. Handling(i, f)' <=> Handling(i, f)
      <3>1. (Handling(i, f) <=> tool[i][r] = "handling") BY ToolFacts DEF r
      <3>2. Handling(i, f)' <=> tool'[i][r] = "handling"
        BY DEF Handling, InList, IsDebug, r, RemoverOf
      <3> QED BY <3>1, <3>2, <2>3
    <2> QED BY <2>5, <2>7, <2>8
  <1>4. ASSUME NEW i \in MovingJobs PROVE JobRight(i)'
    <2>1. JobRight(i) /\ Job[i].kind \in {"move", "remove"} BY MovingJobFacts
    <2>2. Job[i].kind = "move" /\ SessionReleased(i) => \A t \in Tools : tool'[i][t] = tool[i][t]
      <3>1. SUFFICES ASSUME Job[i].kind = "move", SessionReleased(i), NEW t \in Tools PROVE tool'[i][t] = tool[i][t]
        OBVIOUS
      <3>2. tool[i][t] \in {"none", "done"} BY <3>1 DEF SessionReleased
      <3> QED BY <3>2
    <2>3. Job[i].kind = "move" /\ SessionReleased(i) => SessionReleased(i)'
      BY <2>2 DEF SessionReleased
    <2>4. \A t \in Tools : tool[i][t] = "none" => tool'[i][t] = "none" OBVIOUS
    <2>5. \A t \in Tools : tool[i][t] # "handling" => tool'[i][t] # "handling" OBVIOUS
    <2>6. "add" \in Tools /\ "addDebug" \in Tools BY DEF Tools
    <2> QED BY <2>1, <2>3, <2>4, <2>5, <2>6 DEF JobRight, Successful
  <1>5. MovingRight' BY <1>3, <1>4 DEF MovingRight
  <1>6. LinksFollowed' /\ LinksListed' /\ StoredLinked' /\ ListedPresent' /\ ContentsKept'
    BY <1>2, <1>3, DiskSame
  <1>7. KnownRight' /\ \A i \in RepoJobs : FlagRight(i)' BY <1>2, CleaningSame
  <1> QED BY <1>1, <1>2, <1>5, <1>6, <1>7, IndependentSame, IInvNext

LEMMA RequestKeeps ==
    ASSUME IInv, NEW j \in MovingJobs, NEW t \in Tools, Request(j, t) \/ Launch(j, t)
    PROVE  IInv'
  <1>1. TypeOK BY DEF IInv
  <1>2. UNCHANGED <<database, disk, phase, step, failed, errors, cleaning, result>> BY DEF Request, Launch
  <1>3. tool[j][t] \in {"asked", "waiting"} BY DEF Request, Launch
  <1>4. CASE tool' = [tool EXCEPT ![j][t] = "running"]
    <2>1. "running" \in ToolStates BY DEF ToolStates
    <2> QED BY <1>1, <1>2, <1>3, <1>4, <2>1, ToolAt, ToolsKeep
  <1>5. CASE tool' = [i \in MovingJobs |-> [u \in Tools |->
                IF i = j /\ u = t THEN "waiting"
                ELSE IF tool[i][u] = "waiting" /\ ToolDb(i, u) = ToolDb(j, t) THEN "lost" ELSE tool[i][u]]]
    <2>1. tool' \in [MovingJobs -> [Tools -> ToolStates]] BY <1>1, <1>5 DEF TypeOK, ToolStates
    <2>2. \A i \in MovingJobs : \A u \in Tools : tool'[i][u] =
                IF i = j /\ u = t THEN "waiting"
                ELSE IF tool[i][u] = "waiting" /\ ToolDb(i, u) = ToolDb(j, t) THEN "lost" ELSE tool[i][u]
      BY <1>5
    <2> QED BY <1>2, <1>3, <2>1, <2>2, ToolsKeep
  <1> QED BY <1>4, <1>5 DEF Request, Launch

LEMMA FailKeeps ==
    ASSUME IInv, NEW j \in MovingJobs, NEW t \in Tools, Fail(j, t)
    PROVE  IInv'
  <1>1. /\ tool[j][t] = "running" /\ tool' = [tool EXCEPT ![j][t] = "done"]
        /\ errors' = [errors EXCEPT ![j] = @ \cup {t}]
        /\ UNCHANGED <<database, disk, phase, step, cleaning, result>>
    BY DEF Fail
  <1>2. TypeOK /\ j \in Jobs /\ JobRight(j) BY MovingJobFacts
  <1>3. /\ failed' \in [MovingJobs -> SUBSET Packages]
        /\ \A i \in MovingJobs : failed[i] \subseteq failed'[i] /\ (i # j => failed'[i] = failed[i])
    <2>1. Given(j, t) \in SUBSET Packages BY EntryFacts DEF Given
    <2>2. Fails(j, Given(j, t)) \/ failed' = failed BY DEF Fail
    <2> QED BY <1>2, <2>1, <2>2, FailsAt
  <1>4. /\ tool' \in [MovingJobs -> [Tools -> ToolStates]]
        /\ \A i \in MovingJobs : \A u \in Tools : tool'[i][u] = IF i = j /\ u = t THEN "done" ELSE tool[i][u]
        /\ \A i \in MovingJobs : i # j => tool'[i] = tool[i]
    <2>1. "done" \in ToolStates BY DEF ToolStates
    <2> QED BY <1>1, <1>2, <2>1, ToolAt
  <1>5. \A i \in Jobs : errors'[i] = IF i = j THEN errors[j] \cup {t} ELSE errors[i] BY <1>1, <1>2 DEF TypeOK
  <1>6. TypeOK'
    <2>1. errors' \in [Jobs -> SUBSET (Tools \cup {"stale", "missing"})] BY <1>1, <1>2 DEF TypeOK
    <2> QED BY <1>1, <1>2, <1>3, <1>4, <2>1 DEF TypeOK, database, disk, cleaning
  <1>7. Active' = Active BY <1>1 DEF Active
  <1>8. JobRight(j)'
    <2>1. ~(Job[j].kind = "move" /\ result[j] = "success")
      <3>1. Job[j].kind = "move" => ~SessionReleased(j) BY <1>1 DEF SessionReleased
      <3> QED BY <1>2, <3>1 DEF JobRight
    <2>2. "add" \in Tools /\ "addDebug" \in Tools BY DEF Tools
    <2>3. tool[j][t] # "none" /\ \A u \in Tools : tool[j][u] = "none" => tool'[j][u] = "none" BY <1>1, <1>4
    <2>4. \A u \in Tools : tool[j][u] # "handling" => tool'[j][u] # "handling" BY <1>4
    <2> QED BY <1>1, <1>2, <1>3, <2>1, <2>2, <2>3, <2>4 DEF JobRight
  <1>9. ASSUME NEW f \in Entries
        PROVE  /\ EntryRight(j, f)' /\ CopyRight(j, f)' /\ ListRight(j, f)' /\ UnlinkRight(j, f)'
               /\ Handling(j, f)' <=> Handling(j, f)
    <2>1. EntryRight(j, f) BY MovingJobFacts
    <2>2. AdderOf(f) \in Tools /\ RemoverOf(f) \in Tools BY ToolFacts
    <2> DEFINE a == AdderOf(f)
               r == RemoverOf(f)
    <2>3. /\ (tool'[j][r] = "handling" <=> tool[j][r] = "handling")
          /\ (tool'[j][r] = "done" /\ r \notin errors'[j] <=> tool[j][r] = "done" /\ r \notin errors[j])
          /\ (tool[j][r] = "done" => tool'[j][r] = "done")
          /\ (tool'[j][a] = "done" /\ a \notin errors'[j] <=> tool[j][a] = "done" /\ a \notin errors[j])
          /\ (tool[j][r] # "none" => tool'[j][r] # "none") /\ (tool[j][a] # "none" => tool'[j][a] # "none")
      BY <1>1, <1>2, <1>4, <1>5, <2>2
    <2>4. a = AdderOf(f)' /\ r = RemoverOf(f)' BY DEF AdderOf, RemoverOf, IsDebug
    <2> HIDE DEF a, r
    <2>5. EntryRight(j, f)'
      BY <1>1, <1>3, <2>1, <2>3 DEF EntryRight, Chosen, DbOf, TargetOf, Source, IsDebug, a, r, AdderOf, RemoverOf
    <2>6. (Added(j, f)' <=> Added(j, f)) /\ (Removed(j, f)' <=> Removed(j, f))
      BY <2>3, <2>4 DEF Added, Removed, a, r
    <2>7. CopyRight(j, f)' /\ ListRight(j, f)' /\ UnlinkRight(j, f)'
      BY <1>1, <2>6, PlaceSame DEF database, disk
    <2>8. Handling(j, f)' <=> Handling(j, f)
      <3>1. (Handling(j, f) <=> tool[j][r] = "handling") BY ToolFacts DEF r
      <3>2. Handling(j, f)' <=> tool'[j][r] = "handling"
        BY DEF Handling, InList, IsDebug, r, RemoverOf
      <3> QED BY <3>1, <3>2, <2>3
    <2> QED BY <2>5, <2>7, <2>8
  <1> QED BY <1>1, <1>2, <1>3, <1>4, <1>5, <1>6, <1>7, <1>8, <1>9, QuietKeeps

\* The names of the tools and places of a location do not depend on the state.
LEMMA NamesNext ==
    ASSUME NEW j \in MovingJobs, NEW f \in Entries
    PROVE  /\ AdderOf(f)' = AdderOf(f) /\ RemoverOf(f)' = RemoverOf(f)
           /\ DbOf(j, f)' = DbOf(j, f) /\ TargetOf(j, f)' = TargetOf(j, f)
           /\ Handling(j, f)' <=> tool'[j][RemoverOf(f)] = "handling"
  BY DEF AdderOf, RemoverOf, DbOf, TargetOf, Source, IsDebug, Handling, InList

LEMMA HandledKeeps ==
    ASSUME IInv, NEW j \in MovingJobs, NEW t \in Tools, Handled(j, t)
    PROVE  IInv'
  <1>1. /\ tool[j][t] = "handling" /\ tool' = [tool EXCEPT ![j][t] = "done"]
        /\ \A e \in Entries : InList(t, e) => step[j][e] \in {"none", "uncopied", "stuck", "finished"}
        /\ UNCHANGED <<database, disk, phase, step, failed, errors, cleaning, result>>
    BY DEF Handled
  <1>2. TypeOK /\ j \in Jobs /\ JobRight(j) BY MovingJobFacts
  <1>3. /\ tool' \in [MovingJobs -> [Tools -> ToolStates]]
        /\ \A i \in MovingJobs : \A u \in Tools : tool'[i][u] = IF i = j /\ u = t THEN "done" ELSE tool[i][u]
        /\ \A i \in MovingJobs : i # j => tool'[i] = tool[i]
    <2>1. "done" \in ToolStates BY DEF ToolStates
    <2> QED BY <1>1, <1>2, <2>1, ToolAt
  <1>4. TypeOK' BY <1>1, <1>2, <1>3 DEF TypeOK, database, disk, cleaning
  <1>5. Active' = Active BY <1>1 DEF Active
  <1>6. t \in {"remove", "removeDebug"} BY <1>1, <1>2 DEF JobRight, Tools
  <1>7. JobRight(j)'
    <2>1. ~(Job[j].kind = "move" /\ result[j] = "success")
      <3>1. Job[j].kind = "move" => ~SessionReleased(j) BY <1>1 DEF SessionReleased
      <3> QED BY <1>2, <3>1 DEF JobRight
    <2>2. "add" \in Tools /\ "addDebug" \in Tools BY DEF Tools
    <2>3. tool[j][t] # "none" /\ \A u \in Tools : tool[j][u] = "none" => tool'[j][u] = "none" BY <1>1, <1>3
    <2>4. \A u \in Tools : tool[j][u] # "handling" => tool'[j][u] # "handling" BY <1>3
    <2> QED BY <1>1, <1>2, <2>1, <2>2, <2>3, <2>4 DEF JobRight
  <1>8. ASSUME NEW f \in Entries
        PROVE  /\ EntryRight(j, f)' /\ CopyRight(j, f)' /\ ListRight(j, f)' /\ UnlinkRight(j, f)'
               /\ step[j][f] = "ready" /\ Handling(j, f) => Handling(j, f)'
    <2>1. EntryRight(j, f) BY MovingJobFacts
    <2> DEFINE a == AdderOf(f)
               r == RemoverOf(f)
    <2>2. /\ a \in Tools /\ r \in Tools /\ a # t /\ (InList(t, f) <=> r = t)
          /\ (Handling(j, f) <=> tool[j][r] = "handling")
      BY <1>6, ToolFacts
    <2>3. a = AdderOf(f)' /\ r = RemoverOf(f)' /\ (Handling(j, f)' <=> tool'[j][r] = "handling")
      BY NamesNext
    <2> HIDE DEF a, r
    <2>4. tool'[j][a] = tool[j][a] /\ tool'[j][r] = IF r = t THEN "done" ELSE tool[j][r]
      BY <1>3, <2>2
    <2>5. EntryRight(j, f)'
      <3>1. CASE r = t
        <4>1. step'[j][f] \in {"none", "uncopied", "stuck", "finished"} /\ step'[j][f] = step[j][f]
          BY <1>1, <2>2, <3>1
        <4> QED BY <1>1, <2>1, <2>3, <2>4, <3>1, <4>1
             DEF EntryRight, Chosen, DbOf, TargetOf, Source, IsDebug, a, r
      <3>2. CASE r # t
        BY <1>1, <2>1, <2>3, <2>4, <3>2 DEF EntryRight, Chosen, DbOf, TargetOf, Source, IsDebug, a, r
      <3> QED BY <3>1, <3>2
    <2>6. (Added(j, f)' => Added(j, f)) /\ (Removed(j, f)' => Removed(j, f))
      BY <1>1, <2>3, <2>4 DEF Added, Removed, a, r
    <2>7. CopyRight(j, f)' /\ ListRight(j, f)' /\ UnlinkRight(j, f)'
      BY <1>1, <2>6, PlaceSame DEF database, disk
    <2>8. step[j][f] = "ready" /\ Handling(j, f) => Handling(j, f)' BY <1>1, <2>2, <2>3, <2>4
    <2> QED BY <2>5, <2>7, <2>8
  <1> QED BY <1>1, <1>2, <1>3, <1>4, <1>5, <1>7, <1>8, QuietKeeps

\* A job whose tools and results stay while one of its locations goes on; what it has
\* given up remains in failed.
LEMMA JobSame ==
    ASSUME IInv, NEW j \in MovingJobs, phase'[j] = phase[j], tool'[j] = tool[j], errors'[j] = errors[j],
           result'[j] = result[j], failed[j] \subseteq failed'[j],
           failed'[j] = failed[j] \/ Job[j].kind = "remove" \/ result[j] # "success",
           \A f \in Entries : step[j][f] # "none" => step'[j][f] # "none"
    PROVE  JobRight(j)'
  <1>1. JobRight(j) BY DEF IInv
  <1>2. Job[j].kind = "move" /\ result[j] = "success" => failed'[j] = failed[j] BY JobFacts
  <1> QED BY <1>1, <1>2 DEF JobRight, SessionReleased, Successful

LEMMA OtherEntry ==
    ASSUME IInv, NEW j \in MovingJobs, NEW f \in Entries, phase'[j] = phase[j], tool'[j] = tool[j],
           errors'[j] = errors[j], failed[j] \subseteq failed'[j], step'[j][f] = step[j][f],
           \A x \in Entries : step'[j][x] # "none" => step[j][x] # "none"
    PROVE  EntryRight(j, f)'
  <1>1. EntryRight(j, f) BY DEF IInv
  <1> QED BY <1>1 DEF EntryRight, Chosen, DbOf, TargetOf, Source, IsDebug, RemoverOf, AdderOf

LEMMA CheckSiblingsKeeps ==
    ASSUME IInv, NEW j \in MovingJobs, NEW e \in Entries, CheckSiblings(j, e)
    PROVE  IInv'
  <1> DEFINE x == IF Referenced(RepoOf[DbOf(j, e)], e[1]) THEN "finished" ELSE "unreferenced"
  <1>1. /\ step[j][e] = "unlinked" /\ step' = [step EXCEPT ![j][e] = x]
        /\ UNCHANGED <<database, disk, phase, failed, errors, tool, cleaning, result>>
    BY DEF CheckSiblings
  <1>2. /\ x \in {"finished", "unreferenced"} /\ x \in Steps
        /\ (x = "unreferenced" <=> ~Referenced(RepoOf[DbOf(j, e)], e[1]))
    BY DEF Steps
  <1> HIDE DEF x
  <1>3. TypeOK /\ j \in Jobs BY MovingJobFacts
  <1>4. /\ step' \in [MovingJobs -> [Entries -> Steps]]
        /\ \A i \in MovingJobs : \A f \in Entries : step'[i][f] = IF i = j /\ f = e THEN x ELSE step[i][f]
        /\ \A i \in MovingJobs : i # j => step'[i] = step[i]
    BY <1>1, <1>2, <1>3, StepAt
  <1>5. TypeOK' BY <1>1, <1>3, <1>4 DEF TypeOK, database, disk, cleaning
  <1>6. Active' = Active BY <1>1 DEF Active
  <1>7. step'[j][e] = x /\ \A f \in Entries : step'[j][f] # "none" <=> step[j][f] # "none" BY <1>1, <1>2, <1>4
  <1>8. JobRight(j)' BY <1>1, <1>7, JobSame
  <1>9. ASSUME NEW f \in Entries
        PROVE  /\ (Added(j, f)' <=> Added(j, f)) /\ (Removed(j, f)' <=> Removed(j, f))
               /\ (Handling(j, f)' <=> Handling(j, f))
    <2>1. /\ AdderOf(f)' = AdderOf(f) /\ RemoverOf(f)' = RemoverOf(f)
          /\ Handling(j, f)' <=> tool'[j][RemoverOf(f)] = "handling"
      BY NamesNext
    <2> QED BY <1>1, <2>1, ToolFacts DEF Added, Removed
  <1>10. ASSUME NEW f \in Entries, f # e
         PROVE  EntryRight(j, f)' /\ CopyRight(j, f)' /\ ListRight(j, f)' /\ UnlinkRight(j, f)'
    <2>1. step'[j][f] = step[j][f] BY <1>4, <1>10
    <2>2. EntryRight(j, f)' BY <1>1, <1>7, <2>1, OtherEntry
    <2> QED BY <1>1, <1>9, <2>1, <2>2, PlaceSame DEF database, disk
  <1>11. EntryRight(j, e)' /\ CopyRight(j, e)' /\ ListRight(j, e)' /\ UnlinkRight(j, e)'
    <2>1. EntryRight(j, e) /\ CopyRight(j, e) /\ ListRight(j, e) /\ UnlinkRight(j, e) BY MovingJobFacts
    <2>2. EntryRight(j, e)'
      BY <1>1, <1>2, <1>7, <2>1 DEF EntryRight, Chosen, DbOf, TargetOf, Source, IsDebug, RemoverOf, AdderOf
    <2>3. CopyRight(j, e)'
      <3>1. Present(TargetOf(j, e), e[1])' <=> Present(TargetOf(j, e), e[1])
        BY <1>1 DEF Present, File, Stored, TargetOf, IsDebug, disk
      <3> QED BY <1>1, <2>1, <3>1 DEF CopyRight, Chosen
    <2>4. ListRight(j, e)'
      BY <1>1, <1>9, <2>1 DEF ListRight, Chosen, TargetOf, DbOf, Source, IsDebug, database
    <2>5. UnlinkRight(j, e)'
      BY <1>1, <1>2, <1>7, <2>1 DEF UnlinkRight, DbOf, Source, IsDebug, Referenced, File, disk
    <2> QED BY <2>2, <2>3, <2>4, <2>5
  <1>12. \A f \in Entries : step[j][f] \in {"unlinked", "unreferenced", "stuck"} =>
               step'[j][f] \in {"unlinked", "unreferenced", "stuck"} \/ Referenced(RepoOf[DbOf(j, f)], f[1])
    BY <1>2, <1>4
  <1>13. \A f \in Entries : /\ step[j][f] = "uncopied" => step'[j][f] = "uncopied"
                            /\ step[j][f] = "ready" => step'[j][f] = "ready"
    BY <1>1, <1>4
  <1> QED BY <1>1, <1>3, <1>4, <1>5, <1>6, <1>8, <1>9, <1>10, <1>11, <1>12, <1>13, QuietKeeps

LEMMA ToolsWithFacts ==
    ASSUME NEW j, NEW now, NEW names \in SUBSET Tools
    PROVE  /\ ToolsWith(j, now, names) \in [Tools -> {"asked", "none"}]
           /\ \A t \in Tools \ names : ToolsWith(j, now, names)[t] = "none"
           /\ \A f \in Entries : now[f] = "ready" =>
                 /\ RemoverOf(f) \in names => ToolsWith(j, now, names)[RemoverOf(f)] = "asked"
                 /\ AdderOf(f) \in names => ToolsWith(j, now, names)[AdderOf(f)] = "asked"
           /\ \A t \in Tools : ToolsWith(j, now, names)[t] # "none" =>
                 \E f \in Entries : now[f] = "ready" /\ InList(t, f)
  <1>1. ASSUME NEW f \in Entries, now[f] = "ready", NEW t \in names, t \in {AdderOf(f), RemoverOf(f)}
        PROVE  ToolsWith(j, now, names)[t] = "asked"
    <2>1. IsDebug(f) = (t \in {"addDebug", "removeDebug"}) BY <1>1 DEF AdderOf, RemoverOf, IsDebug
    <2>2. t \in names /\ \E e \in Entries : now[e] = "ready" /\ IsDebug(e) = (t \in {"addDebug", "removeDebug"})
      BY <1>1, <2>1
    <2> QED BY <2>2 DEF ToolsWith
  <1>2. ToolsWith(j, now, names) \in [Tools -> {"asked", "none"}] BY DEF ToolsWith
  <1>3. \A t \in Tools \ names : ToolsWith(j, now, names)[t] = "none" BY DEF ToolsWith
  <1>4. \A t \in Tools : ToolsWith(j, now, names)[t] # "none" =>
           \E f \in Entries : now[f] = "ready" /\ InList(t, f)
    BY DEF ToolsWith, InList
  <1> QED BY <1>1, <1>2, <1>3, <1>4

\* A job before its tools are asked for: nothing is handled.
LEMMA EarlyFacts ==
    ASSUME IInv, NEW j \in MovingJobs, phase[j] \in {"new", "copying"}
    PROVE  /\ \A t \in Tools : tool[j][t] = "none"
           /\ \A f \in Entries : ~Handling(j, f) /\ step[j][f] \in {"none", "located", "ready", "uncopied"}
           /\ phase[j] = "new" => \A f \in Entries : step[j][f] = "none"
           /\ Job[j].kind = "move" => result[j] # "success"
  <1>1. JobRight(j) /\ TypeOK BY MovingJobFacts
  <1>2. \A t \in Tools : tool[j][t] = "none" BY <1>1 DEF JobRight
  <1>3. Job[j].kind = "move" => result[j] # "success" BY <1>1 DEF JobRight
  <1>4. ASSUME NEW f \in Entries
        PROVE  /\ ~Handling(j, f) /\ step[j][f] \in {"none", "located", "ready", "uncopied"}
               /\ phase[j] = "new" => step[j][f] = "none"
    <2>1. EntryRight(j, f) /\ step[j][f] \in Steps BY <1>1, MovingJobFacts DEF TypeOK
    <2>2. tool[j][RemoverOf(f)] = "none" BY <1>2, ToolFacts
    <2> QED BY <2>1, <2>2, ToolFacts DEF EntryRight, Steps
  <1> QED BY <1>2, <1>3, <1>4

LEMMA CopiedKeeps ==
    ASSUME IInv, NEW j \in MovingJobs, Copied(j)
    PROVE  IInv'
  <1>1. /\ phase[j] = "copying" /\ \A e \in Entries : step[j][e] # "located"
        /\ UNCHANGED <<database, disk, step, failed, errors, cleaning>>
    BY DEF Copied
  <1>2. TypeOK /\ j \in Jobs /\ JobRight(j) /\ Job[j].kind = "move" BY <1>1, MovingJobFacts DEF JobRight
  <1>3. /\ \A t \in Tools : tool[j][t] = "none"
        /\ \A f \in Entries : ~Handling(j, f) /\ step[j][f] \in {"none", "ready", "uncopied"}
        /\ result[j] # "success"
    BY <1>1, <1>2, EarlyFacts
  <1>4. \E x \in {"running", "ended"} :
          /\ phase' = [phase EXCEPT ![j] = x]
          /\ result' = result \/ (x = "ended" /\ result' = [result EXCEPT ![j] = "failure"])
          /\ \/ tool' = tool /\ \A e \in Entries : step[j][e] # "ready"
             \/ tool' = [tool EXCEPT ![j] = ToolsWith(j, step[j], Tools)]
    BY DEF Copied, Concluded
  <1>5. PICK x \in {"running", "ended"} :
          /\ phase' = [phase EXCEPT ![j] = x]
          /\ result' = result \/ (x = "ended" /\ result' = [result EXCEPT ![j] = "failure"])
          /\ \/ tool' = tool /\ \A e \in Entries : step[j][e] # "ready"
             \/ tool' = [tool EXCEPT ![j] = ToolsWith(j, step[j], Tools)]
    BY <1>4
  <1>6. /\ phase' \in [Jobs -> {"absent", "new", "copying", "running", "flag", "sweep", "ended"}]
        /\ \A i \in Jobs : phase'[i] = IF i = j THEN x ELSE phase[i]
    BY <1>2, <1>5 DEF TypeOK
  <1>7. /\ result' \in [Jobs -> {"none", "success", "failure"}]
        /\ \A i \in Jobs : i # j => result'[i] = result[i]
        /\ result'[j] # "success"
    BY <1>2, <1>3, <1>5 DEF TypeOK
  <1>8. /\ tool' \in [MovingJobs -> [Tools -> ToolStates]]
        /\ \A i \in MovingJobs : i # j => tool'[i] = tool[i]
        /\ \A t \in Tools : tool'[j][t] \in {"asked", "none"}
        /\ \A f \in Entries : step[j][f] = "ready" =>
              tool'[j][RemoverOf(f)] # "none" /\ tool'[j][AdderOf(f)] # "none"
        /\ \A t \in Tools : tool'[j][t] # "none" => \E f \in Entries : step[j][f] = "ready" /\ InList(t, f)
    <2>1. CASE tool' = tool /\ \A e \in Entries : step[j][e] # "ready" BY <1>2, <1>3, <2>1 DEF TypeOK
    <2>2. CASE tool' = [tool EXCEPT ![j] = ToolsWith(j, step[j], Tools)]
      <3> DEFINE w == ToolsWith(j, step[j], Tools)
      <3>1. /\ w \in [Tools -> {"asked", "none"}]
            /\ \A f \in Entries : step[j][f] = "ready" => w[RemoverOf(f)] = "asked" /\ w[AdderOf(f)] = "asked"
            /\ \A t \in Tools : w[t] # "none" => \E f \in Entries : step[j][f] = "ready" /\ InList(t, f)
        BY ToolsWithFacts, ToolFacts
      <3> HIDE DEF w
      <3>2. w \in [Tools -> ToolStates] BY <3>1 DEF ToolStates
      <3>3. tool' = [tool EXCEPT ![j] = w] BY <2>2 DEF w
      <3>4. tool'[j] = w /\ tool' \in [MovingJobs -> [Tools -> ToolStates]] /\ \A i \in MovingJobs : i # j => tool'[i] = tool[i]
        BY <1>2, <3>2, <3>3 DEF TypeOK
      <3> QED BY <3>1, <3>4
    <2> QED BY <1>5, <2>1, <2>2
  <1>9. TypeOK' BY <1>1, <1>2, <1>6, <1>7, <1>8 DEF TypeOK, database, disk, cleaning
  <1>10. Active' = Active BY <1>1, <1>2, <1>6, ActiveSame
  <1>11. JobRight(j)'
    <2>1. phase'[j] \in {"running", "ended"} BY <1>2, <1>6
    <2>2. "add" \in Tools /\ "addDebug" \in Tools BY DEF Tools
    <2>3. ASSUME NEW t \in Tools, tool'[j][t] # "none" PROVE ToolDb(j, t)' \in Dbs
      <3>1. PICK f \in Entries : step[j][f] = "ready" /\ InList(t, f) BY <1>8, <2>3
      <3>2. DbOf(j, f) \in Dbs /\ TargetOf(j, f) \in Dbs BY <1>2, <3>1, PlaceFacts
      <3>3. ToolDb(j, t) \in Dbs BY <3>1, <3>2, ToolFacts
      <3> QED BY <3>3, ToolDbNext
    <2> QED BY <1>1, <1>2, <1>7, <1>8, <2>1, <2>2, <2>3 DEF JobRight
  <1>12. ASSUME NEW f \in Entries
         PROVE  EntryRight(j, f)' /\ CopyRight(j, f)' /\ ListRight(j, f)' /\ UnlinkRight(j, f)'
    <2>1. EntryRight(j, f) /\ phase'[j] \in {"running", "ended"} BY <1>2, <1>6, MovingJobFacts
    <2> DEFINE a == AdderOf(f)
               r == RemoverOf(f)
    <2>2. a = AdderOf(f)' /\ r = RemoverOf(f)' BY NamesNext
    <2>3. /\ tool'[j][a] \in {"asked", "none"} /\ tool'[j][r] \in {"asked", "none"}
          /\ step[j][f] = "ready" => tool'[j][a] # "none" /\ tool'[j][r] # "none"
      BY <1>8, ToolFacts
    <2> HIDE DEF a, r
    <2>4. step'[j][f] = step[j][f] BY <1>1
    <2>5. EntryRight(j, f)'
      BY <1>1, <1>3, <2>1, <2>2, <2>3, <2>4 DEF EntryRight, Chosen, DbOf, TargetOf, Source, IsDebug
    <2>6. ~Added(j, f)' /\ ~Removed(j, f)' BY <2>2, <2>3 DEF Added, Removed
    <2> QED BY <1>1, <2>4, <2>5, <2>6, PlaceSame DEF database, disk
  <1>13. \A f \in Entries : step'[j][f] = step[j][f] BY <1>1
  <1> QED BY <1>1, <1>2, <1>3, <1>6, <1>7, <1>8, <1>9, <1>10, <1>11, <1>12, <1>13, QuietKeeps

-----------------------------------------------------------------------------
(* Locating the packages *)

\* A package is listed where it is looked for, and an "any" package only in one place.
LEMMA ListedEntriesFacts ==
    ASSUME IInv, NEW j \in MovingJobs, j \in Active
    PROVE  /\ ListedEntries(j) \subseteq Entries
           /\ \A e \in ListedEntries(j) : e[1] \in Touched(j) /\ DbOf(j, e) \in DbsOf(Source(j))
           /\ \A e, f \in ListedEntries(j) : e[1] = f[1] /\ e[1] \in AnyPackages => e = f
  <1> DEFINE debug == DebugDb[Source(j)]
             inDebug == IF debug = NoDb THEN {} ELSE known[debug]
             named == Job[j].packages \cap DebugPackages \cap inDebug
             companions == {DebugName[p] : p \in Job[j].packages \ DebugPackages} \cap inDebug
  <1>1. ListedEntries(j) = {<<p, "main">> : p \in (Job[j].packages \ named) \cap known[Source(j)]}
                             \cup {<<p, "debug">> : p \in named} \cup {<<p, "companion">> : p \in companions}
    BY DEF ListedEntries
  <1>2. Job[j].packages \subseteq Packages /\ Source(j) \in Dbs BY JobFacts
  <1>3. TypeOK /\ Independent(Active) BY DEF IInv
  <1>4. inDebug \subseteq Packages /\ (inDebug # {} => debug # NoDb)
    <2>1. debug \in Dbs \cup {NoDb} BY <1>2, RepoAssumption
    <2> QED BY <1>3, <2>1 DEF TypeOK
  <1>5. ListedEntries(j) \subseteq Entries BY <1>1, <1>2, <1>4 DEF Entries
  <1>6. \A p \in Job[j].packages \ DebugPackages : DebugName[p] \notin Job[j].packages \cap AnyPackages
    BY <1>3 DEF Independent
  <1> HIDE DEF inDebug
  <1>7. \A e \in ListedEntries(j) :
           \/ e[2] = "main" /\ e[1] \in Job[j].packages \ named
           \/ e[2] = "debug" /\ e[1] \in named
           \/ e[2] = "companion" /\ e[1] \in companions
    BY <1>1
  <1>8. \A e \in ListedEntries(j) : e[1] \in Touched(j) BY <1>7 DEF Touched
  <1>9. ASSUME NEW e \in ListedEntries(j) PROVE DbOf(j, e) \in DbsOf(Source(j))
    <2>1. Source(j) \in DbsOf(Source(j)) BY <1>2, RepoAssumption DEF DbsOf
    <2>2. e[2] # "main" => inDebug # {} BY <1>7
    <2>3. e[2] # "main" => debug \in DbsOf(Source(j)) BY <1>4, <2>2 DEF DbsOf
    <2> QED BY <2>1, <2>3 DEF DbOf, IsDebug
  <1>10. ASSUME NEW e \in ListedEntries(j), NEW f \in ListedEntries(j), e[1] = f[1], e[1] \in AnyPackages
         PROVE  e = f
    <2>1. e = <<e[1], e[2]>> /\ f = <<f[1], f[2]>> BY <1>5, EntryFacts
    <2>2. \A p \in Job[j].packages \cap AnyPackages : p \notin companions BY <1>6
    <2>3. named \subseteq Job[j].packages OBVIOUS
    <2> HIDE DEF named, companions
    <2>4. e[2] = f[2] BY <1>7, <1>10, <2>2, <2>3
    <2> QED BY <1>10, <2>1, <2>4
  <1> QED BY <1>5, <1>8, <1>9, <1>10

LEMMA TargetFound ==
    ASSUME IInv, NEW j \in MovingJobs, j \in Active, Job[j].kind = "move", DebugConsistent(j), NEW e \in ListedEntries(j)
    PROVE  TargetOf(j, e) \in DbsOf(Job[j].dest)
  <1>1. DbOf(j, e) \in DbsOf(Source(j)) BY ListedEntriesFacts
  <1>2. Source(j) = Job[j].source /\ Job[j].dest \in Dbs BY JobFacts DEF Source
  <1>3. NoDb \notin Dbs BY RepoAssumption
  <1>4. CASE IsDebug(e)
    <2>1. DebugDb[Job[j].source] # NoDb BY <1>1, <1>2, <1>4 DEF DbOf, DbsOf
    <2>2. DebugDb[Job[j].dest] # NoDb BY <2>1 DEF DebugConsistent
    <2> QED BY <1>4, <2>2 DEF TargetOf, DbsOf
  <1>5. CASE ~IsDebug(e) BY <1>2, <1>3, <1>5 DEF TargetOf, DbsOf
  <1> QED BY <1>4, <1>5

\* Nothing can be done for a job.
LEMMA GivenUp ==
    ASSUME IInv, NEW j \in MovingJobs, phase[j] = "new", Concluded(j, "failure"),
           UNCHANGED <<step, errors, tool>>, UNCHANGED <<database, disk, cleaning>>,
           failed' \in [MovingJobs -> SUBSET Packages],
           \A i \in MovingJobs : i # j => failed'[i] = failed[i]
    PROVE  IInv'
  <1>1. TypeOK /\ j \in Jobs /\ JobRight(j) /\ Job[j].kind \in {"move", "remove"} BY MovingJobFacts
  <1>2. /\ \A t \in Tools : tool[j][t] = "none"
        /\ \A f \in Entries : ~Handling(j, f) /\ step[j][f] = "none"
    BY EarlyFacts
  <1>3. /\ phase' \in [Jobs -> {"absent", "new", "copying", "running", "flag", "sweep", "ended"}]
        /\ result' \in [Jobs -> {"none", "success", "failure"}]
        /\ \A i \in Jobs : IF i = j THEN phase'[i] = "ended" /\ result'[i] = "failure"
                                    ELSE phase'[i] = phase[i] /\ result'[i] = result[i]
    BY <1>1 DEF TypeOK, Concluded
  <1>4. TypeOK' BY <1>1, <1>3 DEF TypeOK, database, disk, cleaning
  <1>5. phase'[j] = "ended" /\ result'[j] = "failure" BY <1>1, <1>3
  <1>6. Active' = Active BY <1>1, <1>3, <1>5, ActiveSame
  <1>7. JobRight(j)'
    <2>1. "add" \in Tools /\ "addDebug" \in Tools BY DEF Tools
    <2> QED BY <1>1, <1>2, <1>5, <2>1 DEF JobRight
  <1>8. ASSUME NEW f \in Entries
        PROVE  EntryRight(j, f)' /\ CopyRight(j, f)' /\ ListRight(j, f)' /\ UnlinkRight(j, f)'
    <2>1. step'[j][f] = "none" BY <1>2
    <2>2. tool'[j][RemoverOf(f)'] = "none"
      <3>1. RemoverOf(f)' = RemoverOf(f) /\ RemoverOf(f) \in Tools BY NamesNext, ToolFacts
      <3> QED BY <1>2, <3>1
    <2>3. EntryRight(j, f)' BY <2>1, <2>2 DEF EntryRight, Chosen
    <2> QED BY <2>1, <2>3 DEF CopyRight, ListRight, UnlinkRight, Chosen
  <1> QED BY <1>1, <1>2, <1>3, <1>4, <1>6, <1>7, <1>8, QuietKeeps

\* The locations found are worked with.
LEMMA Located ==
    ASSUME IInv, NEW j \in MovingJobs, phase[j] = "new", DebugConsistent(j),
           phase' \in [Jobs -> {"absent", "new", "copying", "running", "flag", "sweep", "ended"}],
           phase'[j] = (IF Job[j].kind = "move" THEN "copying" ELSE "running"),
           \A i \in Jobs : i # j => phase'[i] = phase[i],
           step' \in [MovingJobs -> [Entries -> Steps]], \A i \in MovingJobs : i # j => step'[i] = step[i],
           \A f \in Entries : /\ step'[j][f] \in {"none", IF Job[j].kind = "move" THEN "located" ELSE "ready"}
                              /\ step'[j][f] # "none" => f \in ListedEntries(j),
           tool' \in [MovingJobs -> [Tools -> ToolStates]], \A i \in MovingJobs : i # j => tool'[i] = tool[i],
           \A t \in Tools : tool'[j][t] = "none" \/
               (Job[j].kind = "remove" /\ t \notin {"add", "addDebug"} /\ tool'[j][t] = "asked"),
           Job[j].kind = "remove" => \A f \in Entries : step'[j][f] = "ready" => tool'[j][RemoverOf(f)] # "none",
           \A t \in Tools : tool'[j][t] = "asked" => \E f \in Entries : step'[j][f] = "ready" /\ InList(t, f),
           UNCHANGED <<errors, result>>, UNCHANGED <<database, disk, cleaning>>,
           failed' \in [MovingJobs -> SUBSET Packages],
           \A i \in MovingJobs : i # j => failed'[i] = failed[i],
           \A p \in Job[j].packages : p \in failed'[j] \/ \E e \in Entries : e[1] = p /\ step'[j][e] # "none"
    PROVE  IInv'
  <1>1. TypeOK /\ j \in Jobs /\ JobRight(j) /\ Job[j].kind \in {"move", "remove"} BY MovingJobFacts
  <1>2. /\ \A t \in Tools : tool[j][t] = "none"
        /\ \A f \in Entries : ~Handling(j, f) /\ step[j][f] = "none"
        /\ Job[j].kind = "move" => result[j] # "success"
    BY EarlyFacts
  <1>3. j \in Active BY <1>1 DEF Active
  <1>4. \A i \in Jobs : i # j => phase'[i] = phase[i] OBVIOUS
  <1>5. /\ phase'[j] = IF Job[j].kind = "move" THEN "copying" ELSE "running"
        /\ phase'[j] # "absent"
    BY <1>1
  <1>7. /\ \A t \in Tools : tool'[j][t] \in {"asked", "none"}
        /\ tool'[j]["add"] = "none" /\ tool'[j]["addDebug"] = "none"
        /\ Job[j].kind = "move" => \A t \in Tools : tool'[j][t] = "none"
        /\ Job[j].kind = "remove" => \A f \in Entries : step'[j][f] # "none" => tool'[j][RemoverOf(f)] # "none"
    <2>1. "add" \in Tools /\ "addDebug" \in Tools BY DEF Tools
    <2> QED BY <2>1
  <1>8. TypeOK' BY <1>1, <1>4, <1>7 DEF TypeOK, database, disk, cleaning
  <1>9. Active' = Active BY <1>1, <1>4, <1>5, ActiveSame
  <1>10. JobRight(j)'
    <2>1. ASSUME NEW t \in Tools, tool'[j][t] # "none" PROVE ToolDb(j, t)' \in Dbs
      <3>1. PICK f \in Entries : step'[j][f] = "ready" /\ InList(t, f) BY <2>1
      <3>2. t \notin {"add", "addDebug"} /\ f \in ListedEntries(j) BY <2>1, <3>1
      <3>3. DbOf(j, f) \in Dbs BY <1>3, <3>2, ListedEntriesFacts, JobFacts, DbFacts
      <3>4. ToolDb(j, t) \in Dbs BY <3>1, <3>2, <3>3, ToolFacts
      <3> QED BY <3>4, ToolDbNext
    <2> QED BY <1>1, <1>2, <1>5, <1>7, <2>1 DEF JobRight
  <1>11. ASSUME NEW f \in Entries
         PROVE  EntryRight(j, f)' /\ CopyRight(j, f)' /\ ListRight(j, f)' /\ UnlinkRight(j, f)'
    <2>1. step'[j][f] \in {"none", IF Job[j].kind = "move" THEN "located" ELSE "ready"} /\ (step'[j][f] # "none" => f \in ListedEntries(j)) OBVIOUS
    <2> DEFINE a == AdderOf(f)
               r == RemoverOf(f)
    <2>2. /\ a = AdderOf(f)' /\ r = RemoverOf(f)' /\ tool'[j][a] \in {"asked", "none"} /\ tool'[j][r] \in {"asked", "none"}
          /\ Job[j].kind = "remove" /\ step'[j][f] # "none" => tool'[j][r] # "none"
      BY <1>7, NamesNext, ToolFacts
    <2> HIDE DEF a, r
    <2>3. ASSUME step'[j][f] # "none"
          PROVE  /\ f[1] \in Touched(j) /\ DbOf(j, f) \in DbsOf(Source(j))
                 /\ Job[j].kind = "move" => TargetOf(j, f) \in DbsOf(Job[j].dest)
                 /\ \A e \in Entries : step'[j][e] # "none" /\ e[1] = f[1] /\ f[1] \in AnyPackages => e = f
      <3>1. \A e \in Entries : step'[j][e] # "none" => e \in ListedEntries(j) OBVIOUS
      <3>2. f \in ListedEntries(j) BY <2>3, <3>1
      <3>3. Job[j].kind = "move" => TargetOf(j, f) \in DbsOf(Job[j].dest) BY <1>3, <3>2, TargetFound
      <3>4. \A e \in ListedEntries(j) : e[1] = f[1] /\ e[1] \in AnyPackages => e = f BY <1>3, <3>2, ListedEntriesFacts
      <3> QED BY <1>3, <3>1, <3>2, <3>3, <3>4, ListedEntriesFacts
    <2>4. EntryRight(j, f)'
      <3>1. DbOf(j, f)' = DbOf(j, f) /\ TargetOf(j, f)' = TargetOf(j, f) BY NamesNext
      <3> QED BY <1>1, <1>5, <2>1, <2>2, <2>3, <3>1 DEF EntryRight, Chosen
    <2>5. ~Added(j, f)' /\ ~Removed(j, f)' BY <2>2 DEF Added, Removed
    <2>6. CopyRight(j, f)'
      <3>1. Job[j].kind = "move" => step'[j][f] \in {"none", "located"} BY <2>1
      <3> QED BY <3>1 DEF CopyRight, Chosen
    <2>7. ListRight(j, f)' BY <2>5 DEF ListRight
    <2>8. UnlinkRight(j, f)'
      <3>1. step'[j][f] \in {"none", "located", "ready"} BY <2>1
      <3> QED BY <3>1 DEF UnlinkRight
    <2> QED BY <2>4, <2>6, <2>7, <2>8
  <1> QED BY <1>1, <1>2, <1>4, <1>7, <1>8, <1>9, <1>10, <1>11, QuietKeeps

LEMMA PrepareKeeps ==
    ASSUME IInv, NEW j \in MovingJobs, Prepare(j)
    PROVE  IInv'
  <1> DEFINE entries == ListedEntries(j)
             found == {e \in entries : Present(DbOf(j, e), e[1])}
             next == IF Job[j].kind = "move" THEN "located" ELSE "ready"
             missing == {e[1] : e \in entries \ found} \cup {p \in Job[j].packages : \A e \in entries : e[1] # p}
  <1>1. phase[j] = "new" /\ UNCHANGED <<database, disk, cleaning>> BY DEF Prepare
  <1>2. TypeOK /\ j \in Active /\ Job[j].packages \subseteq Packages /\ Job[j].kind \in {"move", "remove"}
    BY <1>1, MovingJobFacts, JobFacts DEF Active
  <1>3. missing \subseteq Packages
    <2>1. entries \subseteq Entries BY <1>2, ListedEntriesFacts
    <2> QED BY <1>2, <2>1, EntryFacts
  <1>4. \A p \in Job[j].packages : p \in missing \/ \E e \in found : e[1] = p OBVIOUS
  <1>5. found \subseteq ListedEntries(j) OBVIOUS
  <1>6. CASE ~DebugConsistent(j)
    <2>1. Concluded(j, "failure") /\ UNCHANGED <<step, failed, errors, tool>> BY <1>6 DEF Prepare, moving
    <2> QED BY <1>1, <1>2, <2>1, GivenUp DEF TypeOK
  <1>7. CASE DebugConsistent(j)
    <2>1. failed' = [failed EXCEPT ![j] = missing] BY <1>7 DEF Prepare
    <2>2. CASE found = {}
      <3>1. Concluded(j, "failure") /\ UNCHANGED <<step, errors, tool>> BY <1>7, <2>2 DEF Prepare
      <3> HIDE DEF missing, found
      <3>2. failed' \in [MovingJobs -> SUBSET Packages] /\ \A i \in MovingJobs : i # j => failed'[i] = failed[i]
        BY <1>2, <1>3, <2>1 DEF TypeOK
      <3> QED BY <1>1, <3>1, <3>2, GivenUp
    <2>3. CASE found # {}
      <3>1. /\ step' = [step EXCEPT ![j] = [e \in Entries |-> IF e \in found THEN next ELSE "none"]]
            /\ phase' = [phase EXCEPT ![j] = IF next = "located" THEN "copying" ELSE "running"]
            /\ tool' = [tool EXCEPT ![j] = IF next = "located" THEN @
                                           ELSE ToolsWith(j, step'[j], {"remove", "removeDebug"})]
            /\ UNCHANGED <<errors, result>>
        BY <1>7, <2>3 DEF Prepare
      <3> HIDE DEF missing, found
      <3>2. /\ failed' \in [MovingJobs -> SUBSET Packages] /\ \A i \in MovingJobs : i # j => failed'[i] = failed[i]
            /\ failed'[j] = missing
        BY <1>2, <1>3, <2>1 DEF TypeOK
      <3> DEFINE x == IF Job[j].kind = "move" THEN "copying" ELSE "running"
      <3>3. /\ next = IF Job[j].kind = "move" THEN "located" ELSE "ready"
            /\ x = IF Job[j].kind = "move" THEN "copying" ELSE "running"
            /\ x = IF next = "located" THEN "copying" ELSE "running"
        OBVIOUS
      <3> DEFINE now == [e \in Entries |-> IF e \in found THEN next ELSE "none"]
                 names == {"remove", "removeDebug"}
                 w == IF next = "located" THEN tool[j] ELSE ToolsWith(j, now, names)
      <3>4. now \in [Entries -> Steps] /\ \A f \in Entries : now[f] = IF f \in found THEN next ELSE "none"
        BY DEF Steps
      <3>5. step' = [step EXCEPT ![j] = now] BY <3>1
      <3>6. phase' = [phase EXCEPT ![j] = x] BY <3>1, <3>3
      <3> HIDE DEF now
      <3>7. /\ phase' \in [Jobs -> {"absent", "new", "copying", "running", "flag", "sweep", "ended"}]
            /\ phase'[j] = x /\ \A i \in Jobs : i # j => phase'[i] = phase[i]
        BY <1>2, <3>6, JobFacts DEF TypeOK
      <3> HIDE DEF x, next
      <3>8. step'[j] = now /\ step' \in [MovingJobs -> [Entries -> Steps]] /\ \A i \in MovingJobs : i # j => step'[i] = step[i]
        BY <1>2, <3>4, <3>5 DEF TypeOK
      <3>9. tool' = [tool EXCEPT ![j] = w] BY <3>1, <3>8
      <3>10. /\ w \in [Tools -> ToolStates]
             /\ \A t \in Tools : w[t] = "none" \/
                   (Job[j].kind = "remove" /\ t \notin {"add", "addDebug"} /\ w[t] = "asked")
             /\ Job[j].kind = "remove" => \A f \in Entries : now[f] = "ready" => w[RemoverOf(f)] # "none"
             /\ \A t \in Tools : w[t] = "asked" => \E f \in Entries : now[f] = "ready" /\ InList(t, f)
        <4>1. CASE Job[j].kind = "move"
          <5>1. w = tool[j] BY <3>3, <4>1
          <5>2. \A t \in Tools : tool[j][t] = "none" BY <1>1, EarlyFacts
          <5> HIDE DEF w
          <5> QED BY <1>2, <4>1, <5>1, <5>2 DEF TypeOK
        <4>2. CASE Job[j].kind = "remove"
          <5>1. w = ToolsWith(j, now, names) BY <3>3, <4>2
          <5>2. names \in SUBSET Tools /\ Tools \ names = {"add", "addDebug"} BY DEF Tools
          <5>3. \A f \in Entries : RemoverOf(f) \in names /\ RemoverOf(f) \in Tools BY ToolFacts
          <5> HIDE DEF w, names
          <5>4. /\ w \in [Tools -> {"asked", "none"}] /\ \A t \in Tools \ names : w[t] = "none"
                /\ \A f \in Entries : now[f] = "ready" => w[RemoverOf(f)] = "asked"
                /\ \A t \in Tools : w[t] # "none" => \E f \in Entries : now[f] = "ready" /\ InList(t, f)
            BY <5>1, <5>2, <5>3, ToolsWithFacts
          <5>5. \A t \in Tools : w[t] = "none" \/ (t \notin {"add", "addDebug"} /\ w[t] = "asked")
            BY <5>2, <5>4
          <5>6. w \in [Tools -> ToolStates] BY <5>4 DEF ToolStates
          <5> QED BY <4>2, <5>4, <5>5, <5>6
        <4> QED BY <1>2, <4>1, <4>2
      <3> HIDE DEF w
      <3>11. tool'[j] = w /\ tool' \in [MovingJobs -> [Tools -> ToolStates]] /\ \A i \in MovingJobs : i # j => tool'[i] = tool[i]
        BY <1>2, <3>9, <3>10 DEF TypeOK
      <3>12. \A p \in Job[j].packages : p \in failed'[j] \/ \E e \in Entries : e[1] = p /\ step'[j][e] # "none"
        <4>1. next # "none" /\ found \subseteq Entries BY <1>2, <1>5, <3>3, ListedEntriesFacts
        <4> QED BY <1>4, <3>2, <3>4, <3>8, <4>1
      <3>13. \A t \in Tools : tool'[j][t] = "none" \/
                (Job[j].kind = "remove" /\ t \notin {"add", "addDebug"} /\ tool'[j][t] = "asked")
        BY <3>10, <3>11
      <3>14. Job[j].kind = "remove" => \A f \in Entries : step'[j][f] = "ready" => tool'[j][RemoverOf(f)] # "none"
        BY <3>8, <3>10, <3>11
      <3>15. \A f \in Entries : /\ step'[j][f] \in {"none", IF Job[j].kind = "move" THEN "located" ELSE "ready"}
                                /\ step'[j][f] # "none" => f \in ListedEntries(j)
        BY <1>5, <3>3, <3>4, <3>8
      <3>16. \A t \in Tools : tool'[j][t] = "asked" => \E f \in Entries : step'[j][f] = "ready" /\ InList(t, f)
        BY <3>8, <3>10, <3>11
      <3>17. UNCHANGED <<errors, result>> BY <3>1
      <3> QED BY <1>1, <1>5, <1>7, <3>2, <3>3, <3>7, <3>8, <3>11, <3>12, <3>13, <3>14, <3>15, <3>16, <3>17, Located
    <2> QED BY <2>2, <2>3
  <1> QED BY <1>6, <1>7

-----------------------------------------------------------------------------
(* Copying *)

\* The file or the link comes first, then the file a link refers to, signatures follow.
LEMMA CopiesFacts ==
    ASSUME NEW from, NEW to, NEW p
    PROVE  /\ Len(Copies(from, to, p)) \in Nat /\ Len(Copies(from, to, p)) >= 1
           /\ p \in AnyPackages => Len(Copies(from, to, p)) >= 2
           /\ Copies(from, to, p)[1] = <<File(from, p), File(to, p)>>
           /\ p \in AnyPackages => Copies(from, to, p)[2] = <<Stored(from, p), Stored(to, p)>>
           /\ \A i \in 2..Len(Copies(from, to, p)) : (p \in AnyPackages => i # 2) =>
                 Copies(from, to, p)[i][2] \in {SignatureOf(File(to, p)), SignatureOf(Stored(to, p))}
  <1> DEFINE file == <<File(from, p), File(to, p)>>
             stored == <<Stored(from, p), Stored(to, p)>>
             sf == <<SignatureOf(file[1]), SignatureOf(file[2])>>
             ss == <<SignatureOf(stored[1]), SignatureOf(stored[2])>>
             a == IF Signed(from, p) THEN <<sf>> ELSE <<>>
             b == IF SignatureOf(stored[1]) \in files THEN <<ss>> ELSE <<>>
  <1>1. Copies(from, to, p) = IF p \in AnyPackages THEN <<file, stored>> \o a \o b ELSE <<file>> \o a
    BY DEF Copies
  <1>2. sf[2] = SignatureOf(File(to, p)) /\ ss[2] = SignatureOf(Stored(to, p)) OBVIOUS
  <1>3. (a = <<>> \/ a = <<sf>>) /\ (b = <<>> \/ b = <<ss>>) OBVIOUS
  <1> DEFINE S == {file, stored, sf, ss}
             first == IF p \in AnyPackages THEN <<file, stored>> ELSE <<file>>
             rest == IF p \in AnyPackages THEN a \o b ELSE a
  <1> HIDE DEF file, stored, sf, ss, a, b
  <1>4. /\ first \in Seq(S) /\ Len(first) \in {1, 2} /\ (p \in AnyPackages <=> Len(first) = 2)
        /\ first[1] = file /\ (p \in AnyPackages => first[2] = stored)
    <2>1. CASE p \in AnyPackages
      <3>1. first = <<file, stored>> BY <2>1
      <3> QED BY <2>1, <3>1
    <2>2. CASE p \notin AnyPackages
      <3>1. first = <<file>> BY <2>2
      <3> QED BY <2>2, <3>1
    <2> QED BY <2>1, <2>2
  <1>5. a \in Seq(S) /\ b \in Seq(S) /\ (\A i \in 1..Len(a) : a[i] = sf) /\ (\A i \in 1..Len(b) : b[i] = ss)
    <2>1. a \in Seq(S) /\ \A i \in 1..Len(a) : a[i] = sf
      <3>1. CASE a = <<>>
        <4>1. a \in Seq(S) /\ Len(a) = 0 BY <3>1
        <4> QED BY <4>1
      <3>2. CASE a = <<sf>>
        <4>1. sf \in S OBVIOUS
        <4>2. a \in Seq(S) /\ Len(a) = 1 /\ a[1] = sf BY <3>2, <4>1
        <4> QED BY <4>2
      <3> QED BY <1>3, <3>1, <3>2
    <2>2. b \in Seq(S) /\ \A i \in 1..Len(b) : b[i] = ss
      <3>1. CASE b = <<>>
        <4>1. b \in Seq(S) /\ Len(b) = 0 BY <3>1
        <4> QED BY <4>1
      <3>2. CASE b = <<ss>>
        <4>1. ss \in S OBVIOUS
        <4>2. b \in Seq(S) /\ Len(b) = 1 /\ b[1] = ss BY <3>2, <4>1
        <4> QED BY <4>2
      <3> QED BY <1>3, <3>1, <3>2
    <2> QED BY <2>1, <2>2
  <1>6. <<file, stored>> \in Seq(S) OBVIOUS
  <1>7. Copies(from, to, p) = first \o rest
    <2>1. <<file, stored>> \o a \o b = <<file, stored>> \o (a \o b) BY <1>5, <1>6, ConcatAssociative
    <2> QED BY <1>1, <2>1
  <1>8. rest \in Seq(S) /\ \A i \in 1..Len(rest) : rest[i] \in {sf, ss}
    <2>1. /\ a \o b \in Seq(S) /\ Len(a \o b) = Len(a) + Len(b)
          /\ \A i \in 1..Len(a) + Len(b) : (a \o b)[i] = IF i <= Len(a) THEN a[i] ELSE b[i - Len(a)]
      BY <1>5, ConcatProperties
    <2>2. Len(a) \in Nat /\ Len(b) \in Nat BY <1>5
    <2>3. \A i \in 1..Len(a) + Len(b) : (a \o b)[i] \in {sf, ss}
      <3> SUFFICES ASSUME NEW i \in 1..Len(a) + Len(b) PROVE (a \o b)[i] \in {sf, ss}
        OBVIOUS
      <3>1. CASE i <= Len(a) BY <1>5, <2>1, <2>2, <3>1
      <3>2. CASE ~(i <= Len(a))
        <4>1. i - Len(a) \in 1..Len(b) BY <2>2, <3>2
        <4> QED BY <1>5, <2>1, <3>2, <4>1
      <3> QED BY <3>1, <3>2
    <2> QED BY <1>5, <2>1, <2>3
  <1> HIDE DEF first, rest, S
  <1> DEFINE all == Copies(from, to, p)
  <1>9. /\ Len(all) = Len(first) + Len(rest) /\ Len(rest) \in Nat
        /\ \A i \in 1..Len(first) + Len(rest) : all[i] = IF i <= Len(first) THEN first[i] ELSE rest[i - Len(first)]
    BY <1>4, <1>7, <1>8, ConcatProperties
  <1> HIDE DEF all
  <1>10. ASSUME NEW i \in 2..Len(all), p \in AnyPackages => i # 2 PROVE all[i] \in {sf, ss}
    <2>1. i > Len(first) /\ i \in 1..Len(first) + Len(rest) BY <1>4, <1>9, <1>10
    <2>2. i - Len(first) \in 1..Len(rest) /\ all[i] = rest[i - Len(first)] BY <1>4, <1>9, <2>1
    <2> QED BY <1>8, <2>2
  <1>11. all[1] = file /\ (p \in AnyPackages => all[2] = stored) BY <1>4, <1>9
  <1>12. Len(all) \in Nat /\ Len(all) >= 1 /\ (p \in AnyPackages => Len(all) >= 2) BY <1>4, <1>9
  <1>13. \A i \in 2..Len(all) : (p \in AnyPackages => i # 2) =>
            all[i][2] \in {SignatureOf(File(to, p)), SignatureOf(Stored(to, p))}
    BY <1>2, <1>10
  <1> QED BY <1>11, <1>12, <1>13 DEF all, file, stored

LEMMA CopyFacts ==
    ASSUME IInv, NEW j \in MovingJobs, NEW e \in Entries, Copy(j, e), NEW to, to = TargetOf(j, e)
    PROVE  /\ files \subseteq files' /\ files' \subseteq Paths
           /\ \A dir, p : <<dir, p, "pkg">> \in files' \ files =>
                 p = e[1] /\ (dir = to \/ (p \in AnyPackages /\ dir = RepoOf[to]))
           /\ e[1] \in AnyPackages /\ Stored(to, e[1]) \in files' \ files => File(to, e[1]) \in files'
           /\ \/ step' = [step EXCEPT ![j][e] = "ready"] /\ failed' = failed /\ Present(to, e[1])'
              \/ step' = [step EXCEPT ![j][e] = "uncopied"] /\ failed' = [failed EXCEPT ![j] = @ \cup {e[1]}]
  <1> DEFINE from == DbOf(j, e)
             p == e[1]
             copies == Copies(from, to, p)
             len == Len(copies)
  <1>1. /\ len \in Nat /\ len >= 1 /\ (p \in AnyPackages => len >= 2)
        /\ copies[1] = <<File(from, p), File(to, p)>>
        /\ p \in AnyPackages => copies[2] = <<Stored(from, p), Stored(to, p)>>
        /\ \A i \in 2..len : (p \in AnyPackages => i # 2) =>
              copies[i][2] \in {SignatureOf(File(to, p)), SignatureOf(Stored(to, p))}
    BY CopiesFacts
  <1>2. PICK n \in 0..len :
          /\ \A i \in 1..n : Possible(copies[i])
          /\ files' = files \cup {copies[i][2] : i \in 1..n}
          /\ IF CopiedOrIgnored(j, copies, n)
             THEN step' = [step EXCEPT ![j][e] = "ready"] /\ UNCHANGED failed
             ELSE /\ step' = [step EXCEPT ![j][e] = "uncopied"]
                  /\ failed' = [failed EXCEPT ![j] = @ \cup {e[1]}]
    BY DEF Copy
  <1>3. phase[j] = "copying" /\ step[j][e] = "located" BY DEF Copy
  <1>4. /\ TypeOK /\ JobRight(j) /\ Job[j].kind = "move" /\ j \in Active
        /\ to \in Dbs /\ <<to, p>> \in Puts(j) /\ p \in Packages
    <2>1. TypeOK /\ JobRight(j) /\ Job[j].kind = "move" BY <1>3, MovingJobFacts DEF JobRight
    <2> QED BY <1>3, <2>1, PlaceFacts, EntryFacts
  <1>5. CopiedOrIgnored(j, copies, n) <=> n = len \/ (Job[j].ignore /\ Exists(copies[n + 1]))
    BY DEF CopiedOrIgnored
  <1> HIDE DEF copies, from, len
  <1>6. \A i \in 1..n : \/ i = 1 /\ copies[i][2] = File(to, p)
                        \/ i = 2 /\ p \in AnyPackages /\ copies[i][2] = Stored(to, p)
                        \/ copies[i][2] \in {SignatureOf(File(to, p)), SignatureOf(Stored(to, p))}
    <2> SUFFICES ASSUME NEW i \in 1..n
                 PROVE  \/ i = 1 /\ copies[i][2] = File(to, p)
                        \/ i = 2 /\ p \in AnyPackages /\ copies[i][2] = Stored(to, p)
                        \/ copies[i][2] \in {SignatureOf(File(to, p)), SignatureOf(Stored(to, p))}
      OBVIOUS
    <2>1. i = 1 \/ i \in 2..len BY <1>1
    <2> QED BY <1>1, <2>1
  <1>7. /\ n >= 1 => File(to, p) \in files'
        /\ n >= 2 /\ p \in AnyPackages => Stored(to, p) \in files'
        /\ \A path \in files' : path \in files \/ path \in {SignatureOf(File(to, p)), SignatureOf(Stored(to, p))}
              \/ path = File(to, p) \/ (path = Stored(to, p) /\ p \in AnyPackages /\ n >= 2)
    <2>1. n >= 1 => copies[1][2] \in files' BY <1>2
    <2>2. n >= 2 => copies[2][2] \in files' BY <1>2
    <2>3. \A path \in files' \ files : \E i \in 1..n : path = copies[i][2] BY <1>2
    <2> QED BY <1>1, <1>6, <2>1, <2>2, <2>3
  <1>8. files \subseteq files' BY <1>2
  <1>9. files' \subseteq Paths
    <2>1. File(to, p) \in Paths /\ Stored(to, p) \in Paths BY <1>4, PathTypes
    <2>2. SignatureOf(File(to, p)) \in Paths /\ SignatureOf(Stored(to, p)) \in Paths BY <2>1, PathTypes
    <2> QED BY <1>4, <1>7, <2>1, <2>2 DEF TypeOK
  <1>10. \A dir, q : <<dir, q, "pkg">> \in files' \ files =>
            q = p /\ (dir = to \/ (q \in AnyPackages /\ dir = RepoOf[to]))
    <2> SUFFICES ASSUME NEW dir, NEW q, <<dir, q, "pkg">> \in files' \ files
                 PROVE  q = p /\ (dir = to \/ (q \in AnyPackages /\ dir = RepoOf[to]))
      OBVIOUS
    <2>1. <<dir, q, "pkg">> \notin {SignatureOf(File(to, p)), SignatureOf(Stored(to, p))} BY PathFacts
    <2>2. <<dir, q, "pkg">> = File(to, p) \/ (<<dir, q, "pkg">> = Stored(to, p) /\ p \in AnyPackages)
      BY <1>7, <2>1
    <2> QED BY <2>2 DEF File, Stored
  <1>11. p \in AnyPackages /\ Stored(to, p) \in files' \ files => File(to, p) \in files'
    <2>1. Stored(to, p) # File(to, p) BY <1>4, DbFacts DEF Stored, File
    <2>2. Stored(to, p) \notin {SignatureOf(File(to, p)), SignatureOf(Stored(to, p))} BY PathFacts DEF Stored
    <2>3. Stored(to, p) \in files' \ files => n >= 2 BY <1>7, <2>1, <2>2
    <2> QED BY <1>7, <2>3
  <1>12. CopiedOrIgnored(j, copies, n) => Present(to, p)'
    <2> SUFFICES ASSUME n = len \/ Exists(copies[n + 1]) PROVE Present(to, p)' BY <1>5
    <2>1. File(to, p) \in files'
      <3>1. CASE n = 0
        <4>1. Exists(copies[1]) BY <1>1, <3>1
        <4> QED BY <1>1, <1>8, <4>1 DEF Exists
      <3>2. CASE n >= 1 BY <1>7, <3>2
      <3> QED BY <3>1, <3>2
    <2>2. ASSUME p \in AnyPackages PROVE Stored(to, p) \in files'
      <3>1. CASE n = 0
        <4>1. Exists(copies[1]) BY <1>1, <3>1
        <4>2. File(to, p) \in files BY <1>1, <4>1 DEF Exists
        <4>3. \/ Stored(to, p) \in files
              \/ \E f \in Entries : f[1] = p /\ step[j][f] = "uncopied"
          <5>1. \A t \in Puts(j) : t[2] \in AnyPackages /\ File(t[1], t[2]) \in files =>
                   \/ Stored(t[1], t[2]) \in files
                   \/ \E f \in Entries : f[1] = t[2] /\ step[j][f] = "uncopied"
            BY <1>4 DEF IInv, LinksFollowed
          <5> QED BY <1>4, <2>2, <4>2, <5>1
        <4>4. \A f \in Entries : step[j][f] # "none" /\ f[1] = p => f = e
          BY <1>3, <2>2, MovingJobFacts DEF EntryRight
        <4>5. ~ \E f \in Entries : f[1] = p /\ step[j][f] = "uncopied" BY <1>3, <4>4
        <4> QED BY <1>8, <4>3, <4>5
      <3>2. CASE n = 1
        <4>1. Exists(copies[2]) BY <1>1, <2>2, <3>2
        <4> QED BY <1>1, <1>8, <2>2, <4>1 DEF Exists
      <3>3. CASE n >= 2 BY <1>7, <2>2, <3>3
      <3> QED BY <3>1, <3>2, <3>3
    <2> QED BY <2>1, <2>2 DEF Present, File, Stored
  <1> QED BY <1>2, <1>8, <1>9, <1>10, <1>11, <1>12

LEMMA CopyKeeps ==
    ASSUME IInv, NEW j \in MovingJobs, NEW e \in Entries, Copy(j, e)
    PROVE  IInv'
  <1> DEFINE to == TargetOf(j, e)
             p == e[1]
  <1>1. /\ phase[j] = "copying" /\ step[j][e] = "located"
        /\ UNCHANGED <<database, archive, phase, errors, tool, cleaning, result>>
    BY DEF Copy
  <1>2. /\ TypeOK /\ JobRight(j) /\ Job[j].kind = "move" /\ j \in Active /\ j \in Jobs
        /\ to \in Dbs /\ <<to, p>> \in Puts(j) /\ p \in Packages
    <2>1. TypeOK /\ JobRight(j) /\ Job[j].kind = "move" /\ j \in Jobs BY <1>1, MovingJobFacts DEF JobRight
    <2> QED BY <1>1, <2>1, PlaceFacts, EntryFacts
  <1>3. /\ files \subseteq files' /\ files' \subseteq Paths
        /\ \A dir, q : <<dir, q, "pkg">> \in files' \ files =>
              q = p /\ (dir = to \/ (q \in AnyPackages /\ dir = RepoOf[to]))
        /\ p \in AnyPackages /\ Stored(to, p) \in files' \ files => File(to, p) \in files'
        /\ \/ step' = [step EXCEPT ![j][e] = "ready"] /\ failed' = failed /\ Present(to, p)'
           \/ step' = [step EXCEPT ![j][e] = "uncopied"] /\ failed' = [failed EXCEPT ![j] = @ \cup {p}]
    BY CopyFacts
  <1>4. to' = to BY NamesNext
  <1> HIDE DEF to
  <1>5. PICK x \in {"ready", "uncopied"} :
          /\ step' = [step EXCEPT ![j][e] = x]
          /\ x = "ready" => failed' = failed /\ Present(to, p)'
          /\ x = "uncopied" => failed' = [failed EXCEPT ![j] = @ \cup {p}]
    BY <1>3
  <1>6. /\ step' \in [MovingJobs -> [Entries -> Steps]]
        /\ \A i \in MovingJobs : \A f \in Entries : step'[i][f] = IF i = j /\ f = e THEN x ELSE step[i][f]
        /\ \A i \in MovingJobs : i # j => step'[i] = step[i]
    <2>1. x \in Steps BY DEF Steps
    <2> QED BY <1>2, <1>5, <2>1, StepAt
  <1>7. /\ failed' \in [MovingJobs -> SUBSET Packages]
        /\ \A i \in MovingJobs : failed[i] \subseteq failed'[i] /\ (i # j => failed'[i] = failed[i])
        /\ x = "uncopied" => p \in failed'[j]
    <2>1. failed \in [MovingJobs -> SUBSET Packages] BY <1>2 DEF TypeOK
    <2>2. CASE failed' = failed /\ x = "ready" BY <2>1, <2>2
    <2>3. CASE failed' = [failed EXCEPT ![j] = @ \cup {p}] BY <1>2, <2>1, <2>3
    <2> QED BY <1>5, <2>2, <2>3
  <1>8. TypeOK' BY <1>1, <1>2, <1>3, <1>6, <1>7 DEF TypeOK, database, cleaning
  <1>9. Active' = Active BY <1>1 DEF Active
  <1>10. listed' = listed /\ UNCHANGED database /\ UNCHANGED <<flagged, seen>> /\ phase' = phase
    BY <1>1 DEF database, cleaning
  <1>11. /\ \A t \in Tools : tool[j][t] = "none"
         /\ \A f \in Entries : ~Handling(j, f)
         /\ result[j] # "success"
    BY <1>1, <1>2, EarlyFacts
  \* No place a job takes packages from is filled.
  <1>12. ASSUME NEW i \in MovingJobs, NEW f \in Entries, step[i][f] # "none"
         PROVE  /\ File(DbOf(i, f), f[1]) \in files' => File(DbOf(i, f), f[1]) \in files
                /\ Referenced(RepoOf[DbOf(i, f)], f[1])' => Referenced(RepoOf[DbOf(i, f)], f[1])
    <2>1. i \in Active /\ DbOf(i, f) \in Dbs /\ <<DbOf(i, f), f[1]>> \in Takes(i) BY <1>12, PlaceFacts
    <2>2. f[1] = p => RepoOf[DbOf(i, f)] # RepoOf[to] /\ DbOf(i, f) # to BY <1>2, <2>1, Apart
    <2>3. DbOf(i, f)' = DbOf(i, f) BY NamesNext
    <2> DEFINE db == DbOf(i, f)
    <2> HIDE DEF db
    <2>4. ASSUME NEW other \in Dbs, RepoOf[other] = RepoOf[db], <<other, f[1], "pkg">> \in files'
          PROVE  <<other, f[1], "pkg">> \in files
      <3>1. f[1] = p => other # to BY <2>2, <2>4 DEF db
      <3>2. other # RepoOf[to] BY <1>2, DbFacts
      <3> QED BY <1>3, <2>4, <3>1, <3>2
    <2>5. db \in Dbs BY <2>1 DEF db
    <2>6. db' = db BY <2>3 DEF db
    <2> QED BY <2>4, <2>5, <2>6 DEF File, Referenced, db
  <1>13. ASSUME NEW i \in MovingJobs, NEW f \in Entries
         PROVE  /\ (Added(i, f)' <=> Added(i, f)) /\ (Removed(i, f)' <=> Removed(i, f))
                /\ (Handling(i, f)' <=> Handling(i, f))
    <2>1. /\ AdderOf(f)' = AdderOf(f) /\ RemoverOf(f)' = RemoverOf(f)
          /\ Handling(i, f)' <=> tool'[i][RemoverOf(f)] = "handling"
      BY NamesNext
    <2> QED BY <1>1, <2>1, ToolFacts DEF Added, Removed
  <1>14. ASSUME NEW i \in MovingJobs PROVE JobRight(i)'
    <2>1. CASE i = j
      <3>1. \A f \in Entries : step[j][f] # "none" => step'[j][f] # "none" BY <1>6
      <3> QED BY <1>1, <1>7, <1>11, <2>1, <3>1, JobSame
    <2>2. CASE i # j BY <1>1, <1>6, <1>7, <2>2, OtherSame
    <2> QED BY <2>1, <2>2
  <1>15. ASSUME NEW i \in MovingJobs, NEW f \in Entries PROVE EntryRight(i, f)'
    <2>1. CASE i # j BY <1>1, <1>6, <1>7, <2>1, OtherSame
    <2>2. \A y \in Entries : step'[j][y] # "none" => step[j][y] # "none" BY <1>1, <1>6
    <2>3. CASE i = j /\ f # e
      <3>1. step'[j][f] = step[j][f] BY <1>6, <2>3
      <3> QED BY <1>1, <1>7, <2>2, <2>3, <3>1, OtherEntry
    <2>4. CASE i = j /\ f = e
      <3>1. EntryRight(j, e) /\ step'[j][e] = x /\ phase'[j] = "copying" BY <1>1, <1>6, MovingJobFacts
      <3>2. /\ RemoverOf(e)' = RemoverOf(e) /\ AdderOf(e)' = AdderOf(e) /\ tool'[j][RemoverOf(e)] = "none"
            /\ DbOf(j, e)' = DbOf(j, e) /\ TargetOf(j, e)' = TargetOf(j, e)
        BY <1>1, <1>11, NamesNext, ToolFacts
      <3> QED BY <1>1, <1>7, <2>2, <2>4, <3>1, <3>2 DEF EntryRight, Chosen
    <2> QED BY <2>1, <2>3, <2>4
  <1>16. ASSUME NEW i \in MovingJobs, NEW f \in Entries
         PROVE  CopyRight(i, f)' /\ ListRight(i, f)' /\ UnlinkRight(i, f)'
    <2>1. CopyRight(i, f) /\ ListRight(i, f) /\ UnlinkRight(i, f) BY MovingJobFacts
    <2>2. DbOf(i, f)' = DbOf(i, f) /\ TargetOf(i, f)' = TargetOf(i, f) BY NamesNext
    <2>3. CopyRight(i, f)'
      <3>1. CASE i = j /\ f = e
        <4>1. step'[j][e] = x BY <1>6
        <4> QED BY <1>5, <3>1, <4>1 DEF CopyRight, Chosen, to
      <3>2. CASE ~(i = j /\ f = e)
        <4>1. step'[i][f] = step[i][f] BY <1>6, <3>2
        <4>2. Present(TargetOf(i, f), f[1]) => Present(TargetOf(i, f), f[1])' BY <1>3, <2>2 DEF Present, File, Stored
        <4> QED BY <2>1, <4>1, <4>2 DEF CopyRight, Chosen
      <3> QED BY <3>1, <3>2
    <2>4. ListRight(i, f)'
      <3>1. Chosen(i, f)' => Chosen(i, f) BY <1>1, <1>6 DEF Chosen
      <3> QED BY <1>10, <1>13, <2>1, <2>2, <3>1 DEF ListRight
    <2>5. UnlinkRight(i, f)'
      <3>1. step'[i][f] \in {"unlinked", "unreferenced", "finished"} => step'[i][f] = step[i][f] BY <1>6
      <3>2. step[i][f] # "none" =>
              /\ File(DbOf(i, f), f[1]) \in files' => File(DbOf(i, f), f[1]) \in files
              /\ Referenced(RepoOf[DbOf(i, f)], f[1])' => Referenced(RepoOf[DbOf(i, f)], f[1])
        BY <1>12
      <3>3. File(DbOf(i, f), f[1])' = File(DbOf(i, f), f[1]) BY <2>2 DEF File
      <3> QED BY <2>1, <2>2, <3>1, <3>2, <3>3 DEF UnlinkRight
    <2> QED BY <2>3, <2>4, <2>5
  <1>17. MovingRight' BY <1>14, <1>15, <1>16 DEF MovingRight
  <1>18. ASSUME NEW i \in Active \cap MovingJobs, NEW t \in Puts(i),
                t[2] \in AnyPackages, File(t[1], t[2]) \in files', Stored(t[1], t[2]) \notin files'
         PROVE  \E f \in Entries : f[1] = t[2] /\ step'[i][f] = "uncopied"
    <2>1. t[1] \in Dbs /\ t = <<t[1], t[2]>> BY PutTypes
    <2>2. CASE File(t[1], t[2]) \in files
      <3>1. Stored(t[1], t[2]) \notin files BY <1>3, <1>18
      <3>2. PICK f \in Entries : f[1] = t[2] /\ step[i][f] = "uncopied"
        BY <1>18, <2>2, <3>1 DEF IInv, LinksFollowed
      <3>3. step'[i][f] = "uncopied" BY <1>1, <1>6, <3>2
      <3> QED BY <3>2, <3>3
    <2>3. CASE File(t[1], t[2]) \notin files
      <3>1. t[2] = p /\ t[1] = to
        <4>1. t[1] # RepoOf[to] BY <1>2, <2>1, DbFacts
        <4> QED BY <1>3, <1>18, <2>3, <4>1 DEF File
      <3>2. i = j
        <4>1. <<to, p>> \in Puts(i) BY <2>1, <3>1
        <4> QED BY <1>2, <4>1, PutOnce
      <3>3. x # "ready"
        <4>1. ~Present(to, p)' BY <1>4, <1>18, <3>1 DEF Present, Stored
        <4> QED BY <1>5, <4>1
      <3>4. step'[j][e] = "uncopied" BY <1>6, <3>3
      <3> QED BY <3>1, <3>2, <3>4
    <2> QED BY <2>2, <2>3
  <1>19. LinksFollowed' BY <1>9, <1>18 DEF LinksFollowed, File, Stored
  <1>20. ASSUME NEW db \in Dbs, NEW q \in AnyPackages PROVE LinkListed(db, q)'
    <2>1. LinkListed(db, q) BY DEF IInv, LinksListed
    <2>2. CASE File(db, q) \in files' /\ File(db, q) \notin files
      <3>1. q = p /\ db = to
        <4>1. db # RepoOf[to] BY <1>2, DbFacts
        <4> QED BY <1>3, <2>2, <4>1 DEF File
      <3> QED BY <1>2, <1>9, <3>1 DEF LinkListed
    <2>3. CASE \E i \in MovingJobs : \E f \in Entries :
                 f[1] = q /\ DbOf(i, f) = db /\ step[i][f] = "ready" /\ Handling(i, f)
      <3>1. PICK i \in MovingJobs, f \in Entries : f[1] = q /\ DbOf(i, f) = db /\ step[i][f] = "ready" /\ Handling(i, f)
        BY <2>3
      <3>2. step'[i][f] = "ready" /\ Handling(i, f)' /\ DbOf(i, f)' = db BY <1>1, <1>6, <1>13, <3>1, NamesNext
      <3> QED BY <3>1, <3>2 DEF LinkListed
    <2>4. CASE \E i \in Active \cap MovingJobs : <<db, q>> \in Puts(i)
      BY <1>9, <2>4 DEF LinkListed
    <2>5. CASE q \in listed[db] BY <1>10, <2>5 DEF LinkListed
    <2>6. CASE File(db, q) \notin files'
      <3>1. File(db, q)' = File(db, q) BY DEF File
      <3> QED BY <2>6, <3>1 DEF LinkListed
    <2> QED BY <2>1, <2>2, <2>3, <2>4, <2>5, <2>6 DEF LinkListed
  <1>21. ASSUME NEW db \in Dbs, NEW q \in AnyPackages, Stored(db, q) \in files' \cap Files0
         PROVE  Referenced(RepoOf[db], q)' \/ Pending(RepoOf[db], q)'
    <2>1. CASE Stored(db, q) \in files
      <3>1. Referenced(RepoOf[db], q) => Referenced(RepoOf[db], q)' BY <1>3 DEF Referenced, File
      <3>2. Pending(RepoOf[db], q) => Pending(RepoOf[db], q)'
        <4>1. SUFFICES ASSUME Pending(RepoOf[db], q) PROVE Pending(RepoOf[db], q)' OBVIOUS
        <4>2. PICK i \in MovingJobs, f \in Entries :
                /\ \/ step[i][f] = "ready" /\ Handling(i, f)
                   \/ step[i][f] \in {"unlinked", "unreferenced", "stuck"}
                /\ f[1] = q /\ RepoOf[DbOf(i, f)] = RepoOf[db]
          BY <4>1 DEF Pending
        <4>3. step'[i][f] = step[i][f] BY <1>1, <1>6, <4>2
        <4>4. Handling(i, f)' <=> Handling(i, f) BY <1>13
        <4>5. DbOf(i, f)' = DbOf(i, f) BY NamesNext
        <4> QED BY <4>2, <4>3, <4>4, <4>5 DEF Pending
      <3> QED BY <1>21, <2>1, <3>1, <3>2 DEF IInv, StoredLinked
    <2>2. CASE Stored(db, q) \notin files
      <3>1. q = p /\ RepoOf[db] = RepoOf[to]
        <4>1. RepoOf[db] # to BY <1>2, DbFacts
        <4> QED BY <1>3, <1>21, <2>2, <4>1 DEF Stored
      <3>2. Stored(to, p) \in files' \ files /\ p \in AnyPackages BY <1>21, <2>2, <3>1 DEF Stored
      <3>3. File(to, p) \in files' BY <1>3, <3>2
      <3> QED BY <1>2, <3>1, <3>3 DEF Referenced, File
    <2> QED BY <2>1, <2>2
  <1>22. StoredLinked' BY <1>21 DEF StoredLinked, Stored
  <1>23. ListedPresent' BY <1>3, <1>10 DEF IInv, ListedPresent, Present, File, Stored
  <1>24. ContentsKept' BY <1>1, <1>3 DEF IInv, ContentsKept
  <1>25. KnownRight' /\ \A i \in RepoJobs : FlagRight(i)' BY <1>9, <1>10, CleaningSame
  <1> QED BY <1>8, <1>9, <1>17, <1>19, <1>20, <1>22, <1>23, <1>24, <1>25, IndependentSame, IInvNext DEF LinksListed

-----------------------------------------------------------------------------
(* Deleting the files *)

\* One location goes on while its files are deleted.
LEMMA HandleKeeps ==
    ASSUME IInv, NEW j \in MovingJobs, NEW e \in Entries, step[j][e] \in {"ready", "unreferenced"}, Handling(j, e),
           NEW x \in {"unlinked", "finished", "stuck"}, step' = [step EXCEPT ![j][e] = x],
           UNCHANGED <<database, phase, errors, tool, cleaning, result>>,
           failed' = failed \/ (Job[j].kind = "remove" /\ Fails(j, {e[1]})),
           files' \subseteq Paths, archive' \subseteq Paths, Harmless,
           x = "unlinked" => e[1] \in AnyPackages,
           x = "stuck" => Job[j].kind = "remove",
           File(DbOf(j, e), e[1]) \notin files',
           x = "finished" /\ e[1] \in AnyPackages => Stored(DbOf(j, e), e[1]) \notin files',
           \A dir \in Dbs, q \in AnyPackages : Gone(dir, q) => x = "unlinked" /\ dir = DbOf(j, e) /\ q = e[1]
    PROVE  IInv'
  <1>1. TypeOK /\ j \in Jobs BY MovingJobFacts
  <1>2. /\ step' \in [MovingJobs -> [Entries -> Steps]]
        /\ \A i \in MovingJobs : \A f \in Entries : step'[i][f] = IF i = j /\ f = e THEN x ELSE step[i][f]
        /\ \A i \in MovingJobs : i # j => step'[i] = step[i]
    <2>1. x \in Steps BY DEF Steps
    <2> QED BY <1>1, <2>1, StepAt
  <1>3. /\ failed' \in [MovingJobs -> SUBSET Packages]
        /\ \A i \in MovingJobs : failed[i] \subseteq failed'[i] /\ (i # j => failed'[i] = failed[i])
        /\ failed'[j] = failed[j] \/ Job[j].kind = "remove"
    <2>1. {e[1]} \in SUBSET Packages BY EntryFacts
    <2> QED BY <1>1, <2>1, FailsAt
  <1>4. TypeOK' BY <1>1, <1>2, <1>3 DEF TypeOK, database, cleaning
  <1>5. Active' = Active BY DEF Active
  <1>6. /\ listed' = listed /\ UNCHANGED database /\ UNCHANGED <<flagged, seen>> /\ phase' = phase
        /\ tool' = tool /\ errors' = errors /\ result' = result
    BY DEF database, cleaning
  <1>7. tool[j][RemoverOf(e)] = "handling" BY ToolFacts
  <1>8. ASSUME NEW i \in MovingJobs, NEW f \in Entries
        PROVE  /\ (Added(i, f)' <=> Added(i, f)) /\ (Removed(i, f)' <=> Removed(i, f))
               /\ (Handling(i, f)' <=> Handling(i, f))
    <2>1. /\ AdderOf(f)' = AdderOf(f) /\ RemoverOf(f)' = RemoverOf(f)
          /\ Handling(i, f)' <=> tool'[i][RemoverOf(f)] = "handling"
      BY NamesNext
    <2> QED BY <1>6, <2>1, ToolFacts DEF Added, Removed
  <1>9. \A f \in Entries : step[j][f] # "none" <=> step'[j][f] # "none" BY <1>2
  <1>10. ASSUME NEW i \in MovingJobs PROVE JobRight(i)'
    <2>1. CASE i = j BY <1>3, <1>6, <1>9, <2>1, JobSame
    <2>2. CASE i # j BY <1>2, <1>3, <1>6, <2>2, OtherSame
    <2> QED BY <2>1, <2>2
  <1>11. ASSUME NEW i \in MovingJobs, NEW f \in Entries PROVE EntryRight(i, f)'
    <2>1. CASE i # j BY <1>2, <1>3, <1>6, <2>1, OtherSame
    <2>2. CASE i = j /\ f # e
      <3>1. step'[j][f] = step[j][f] BY <1>2, <2>2
      <3> QED BY <1>3, <1>6, <1>9, <2>2, <3>1, OtherEntry
    <2>3. CASE i = j /\ f = e
      <3>1. EntryRight(j, e) /\ step'[j][e] = x BY <1>2, MovingJobFacts
      <3>2. /\ RemoverOf(e)' = RemoverOf(e) /\ AdderOf(e)' = AdderOf(e)
            /\ DbOf(j, e)' = DbOf(j, e) /\ TargetOf(j, e)' = TargetOf(j, e)
        BY NamesNext
      <3> QED BY <1>6, <1>7, <1>9, <2>3, <3>1, <3>2 DEF EntryRight, Chosen
    <2> QED BY <2>1, <2>2, <2>3
  <1>12. ASSUME NEW i \in MovingJobs, NEW f \in Entries
         PROVE  CopyRight(i, f)' /\ ListRight(i, f)' /\ UnlinkRight(i, f)'
    <2>1. CopyRight(i, f) /\ ListRight(i, f) /\ UnlinkRight(i, f) BY MovingJobFacts
    <2>2. DbOf(i, f)' = DbOf(i, f) /\ TargetOf(i, f)' = TargetOf(i, f) BY NamesNext
    <2>3. /\ Chosen(i, f)' <=> Chosen(i, f)
          /\ step'[i][f] = "located" <=> step[i][f] = "located"
      BY <1>2 DEF Chosen
    <2>4. CopyRight(i, f)'
      <3>1. Present(TargetOf(i, f), f[1]) /\ Job[i].kind = "move" /\ step[i][f] # "none" => Present(TargetOf(i, f), f[1])'
        BY <1>6, DeletionKeeps
      <3> QED BY <2>1, <2>3, <3>1 DEF CopyRight, Chosen
    <2>5. ListRight(i, f)' BY <1>6, <1>8, <2>1, <2>2, <2>3 DEF ListRight
    <2>6. UnlinkRight(i, f)'
      <3>1. /\ File(DbOf(i, f), f[1])' = File(DbOf(i, f), f[1])
            /\ File(DbOf(i, f), f[1]) \in files' => File(DbOf(i, f), f[1]) \in files
        BY <2>2 DEF Harmless, File
      <3>2. Referenced(RepoOf[DbOf(i, f)], f[1])' => Referenced(RepoOf[DbOf(i, f)], f[1])
        BY <2>2 DEF Harmless, Referenced, File
      <3>3. CASE i = j /\ f = e
        <4>1. step'[j][e] = x BY <1>2
        <4> QED BY <3>1, <3>3, <4>1 DEF UnlinkRight
      <3>4. CASE ~(i = j /\ f = e)
        <4>1. step'[i][f] = step[i][f] BY <1>2, <3>4
        <4> QED BY <2>1, <3>1, <3>2, <4>1 DEF UnlinkRight
      <3> QED BY <3>3, <3>4
    <2> QED BY <2>4, <2>5, <2>6
  <1>13. MovingRight' BY <1>10, <1>11, <1>12 DEF MovingRight
  <1>14. LinksFollowed' /\ LinksListed'
    <2>1. \A i \in MovingJobs : \A f \in Entries : step[i][f] = "uncopied" => step'[i][f] = "uncopied" BY <1>2
    <2>2. \A i \in MovingJobs : \A f \in Entries :
             step[i][f] = "ready" /\ Handling(i, f) =>
                 \/ step'[i][f] = "ready" /\ Handling(i, f)'
                 \/ File(DbOf(i, f), f[1]) \notin files'
      BY <1>2, <1>8
    <2> QED BY <1>5, <1>6, <2>1, <2>2, FewerLinks
  <1>15. ASSUME NEW db \in Dbs, NEW q \in AnyPackages, Stored(db, q) \in files' \cap Files0, ~Referenced(RepoOf[db], q)'
         PROVE  Pending(RepoOf[db], q)'
    <2>1. DbOf(j, e)' = DbOf(j, e) BY NamesNext
    <2>2. CASE Referenced(RepoOf[db], q)
      <3>1. PICK other \in Dbs : RepoOf[other] = RepoOf[db] /\ File(other, q) \in files BY <2>2 DEF Referenced
      <3>2. File(other, q) \notin files' BY <3>1, <1>15 DEF Referenced, File
      <3>3. Gone(other, q) BY <3>1, <3>2 DEF Gone, File
      <3>4. x = "unlinked" /\ other = DbOf(j, e) /\ q = e[1] BY <3>3
      <3>5. step'[j][e] = "unlinked" BY <1>2, <3>4
      <3> QED BY <2>1, <3>1, <3>4, <3>5 DEF Pending
    <2>3. CASE ~Referenced(RepoOf[db], q)
      <3>1. Stored(db, q) \in files \cap Files0 BY <1>15 DEF Harmless, Stored
      <3>2. Pending(RepoOf[db], q) BY <2>3, <3>1 DEF IInv, StoredLinked
      <3>3. PICK i \in MovingJobs, f \in Entries :
              /\ \/ step[i][f] = "ready" /\ Handling(i, f)
                 \/ step[i][f] \in {"unlinked", "unreferenced", "stuck"}
              /\ f[1] = q /\ RepoOf[DbOf(i, f)] = RepoOf[db]
        BY <3>2 DEF Pending
      <3>4. DbOf(i, f)' = DbOf(i, f) BY NamesNext
      <3>5. CASE i = j /\ f = e
        <4>1. x # "finished" BY <1>15, <3>3, <3>5 DEF Stored
        <4>2. step'[j][e] \in {"unlinked", "unreferenced", "stuck"} BY <1>2, <4>1
        <4> QED BY <3>3, <3>4, <3>5, <4>2 DEF Pending
      <3>6. CASE ~(i = j /\ f = e)
        <4>1. step'[i][f] = step[i][f] BY <1>2, <3>6
        <4> QED BY <1>8, <3>3, <3>4, <4>1 DEF Pending
      <3> QED BY <3>5, <3>6
    <2> QED BY <2>2, <2>3
  <1>16. StoredLinked' BY <1>15 DEF StoredLinked, Stored
  <1>17. ListedPresent' /\ ContentsKept' BY <1>6, DeletionKeeps
  <1>18. KnownRight' /\ \A i \in RepoJobs : FlagRight(i)' BY <1>5, <1>6, CleaningSame
  <1> QED BY <1>4, <1>5, <1>13, <1>14, <1>16, <1>17, <1>18, IndependentSame, IInvNext

\* What a job deletes does not belong to any database, and others do not depend on it.
LEMMA DeletedHarmless ==
    ASSUME IInv, NEW j \in MovingJobs, NEW e \in Entries, Chosen(j, e), step[j][e] # "located",
           NEW dir, (dir = DbOf(j, e) /\ Removed(j, e)) \/ (dir = RepoOf[DbOf(j, e)] /\ ~Referenced(dir, e[1])),
           \A path \in files' : path \in files,
           \A d, p : Gone(d, p) => d = dir /\ p = e[1],
           archive \subseteq archive',
           Job[j].kind = "remove" => \A d, p : Gone(d, p) => <<d, p, "pkg">> \in archive'
    PROVE  Harmless
  <1> DEFINE from == DbOf(j, e)
  <1>1. /\ j \in Active /\ from \in Dbs /\ <<from, e[1]>> \in Takes(j) /\ e[1] \in Packages
        /\ Job[j].kind = "move" => TargetOf(j, e) \in Dbs /\ <<TargetOf(j, e), e[1]>> \in Puts(j)
        /\ Job[j].kind \in {"move", "remove"}
    BY PlaceFacts, EntryFacts, MovingJobFacts DEF Chosen
  <1> HIDE DEF from
  <1>2. dir = from \/ dir = RepoOf[from] BY DEF from
  <1>3. ASSUME NEW db \in Dbs, NEW p \in listed[db], p = e[1] PROVE db # dir /\ (p \in AnyPackages => RepoOf[db] # dir)
    <2>1. Present(db, p) BY DEF IInv, ListedPresent
    <2>2. CASE dir = from /\ Removed(j, e)
      <3>1. e[1] \notin listed[from] BY <2>2, MovingJobFacts DEF ListRight, from
      <3> QED BY <1>1, <1>3, <2>2, <3>1, DbFacts
    <2>3. CASE dir = RepoOf[from] /\ ~Referenced(dir, e[1])
      <3>1. RepoOf[db] # dir BY <1>3, <2>1, <2>3 DEF Present, Referenced
      <3> QED BY <1>1, <2>3, <3>1, DbFacts
    <2> QED BY <2>2, <2>3 DEF from
  <1>4. ASSUME NEW i \in Active \cap MovingJobs, NEW to \in Puts(i), to[2] = e[1]
        PROVE  dir # to[1] /\ dir # RepoOf[to[1]]
    <2>1. to[1] \in Dbs /\ to = <<to[1], to[2]>> BY PutTypes
    <2>2. <<to[1], e[1]>> \in Puts(i) BY <2>1, <1>4
    <2>3. RepoOf[from] # RepoOf[to[1]] /\ from # to[1] BY <1>1, <2>2, Apart
    <2> QED BY <1>1, <1>2, <2>1, <2>3, DbFacts
  <1>5. ASSUME NEW d \in Dirs, NEW p \in Packages, Gone(d, p)
        PROVE  \/ <<d, p, "pkg">> \in archive'
               \/ p \in AnyPackages /\ d \in Dbs
               \/ \E other \in Dirs : (p \in AnyPackages => other \in Repos) /\ <<other, p, "pkg">> \in files'
    <2>1. d = dir /\ p = e[1] BY <1>5
    <2>2. CASE Job[j].kind = "remove" BY <1>5, <2>2
    <2>3. CASE Job[j].kind = "move"
      <3> DEFINE to == TargetOf(j, e)
      <3>1. to \in Dbs /\ <<to, e[1]>> \in Puts(j) BY <1>1, <2>3
      <3>2. Present(to, e[1]) BY <2>3, MovingJobFacts DEF CopyRight
      <3> HIDE DEF to
      <3>3. dir # to /\ dir # RepoOf[to] BY <1>1, <1>4, <3>1
      <3>4. <<to, p, "pkg">> \in files /\ ~Gone(to, p) BY <2>1, <3>2, <3>3 DEF Present, File
      <3>5. p \in AnyPackages => <<RepoOf[to], p, "pkg">> \in files /\ ~Gone(RepoOf[to], p)
        BY <2>1, <3>2, <3>3 DEF Present, Stored
      <3> QED BY <3>1, <3>4, <3>5, DbFacts DEF Gone
    <2> QED BY <1>1, <2>2, <2>3
  <1>6. \A db \in Dbs : \A p \in listed[db] : ~Gone(db, p) /\ (p \in AnyPackages => ~Gone(RepoOf[db], p)) BY <1>3
  <1>7. \A i \in Active \cap MovingJobs : \A to \in Puts(i) : ~Gone(to[1], to[2]) /\ ~Gone(RepoOf[to[1]], to[2])
    BY <1>4
  <1> QED BY <1>5, <1>6, <1>7 DEF Harmless

LEMMA UnlinkKeeps ==
    ASSUME IInv, NEW j \in MovingJobs, NEW e \in Entries, Unlink(j, e)
    PROVE  IInv'
  <1> DEFINE db == DbOf(j, e)
             file == File(db, e[1])
             signature == SignatureOf(file)
             archived == {file} \cup IF Signed(db, e[1]) THEN {signature} ELSE {}
             after == IF e[1] \in AnyPackages THEN "unlinked" ELSE "finished"
  <1>1. /\ Handling(j, e) /\ step[j][e] = "ready"
        /\ UNCHANGED <<database, phase, errors, tool, cleaning, result>>
    BY DEF Unlink, ToHandle
  <1>2. /\ TypeOK /\ Job[j].kind \in {"move", "remove"} /\ db \in Dbs /\ e[1] \in Packages
        /\ Chosen(j, e) /\ Removed(j, e)
    BY <1>1, MovingJobFacts, PlaceFacts, EntryFacts, ToolFacts DEF Chosen, Removed
  <1>3. file \in Paths /\ signature \in Paths BY <1>2, PathTypes
  <1>4. \/ /\ Job[j].kind = "move" /\ files' = files \ {file, signature} /\ archive' = archive /\ failed' = failed
           /\ step' = [step EXCEPT ![j][e] = after]
        \/ /\ Job[j].kind = "remove" /\ file \in files /\ files' = files \ archived /\ archive' = archive \cup archived
           /\ failed' = failed /\ step' = [step EXCEPT ![j][e] = after]
        \/ /\ Job[j].kind = "remove" /\ file \notin files /\ files' = files /\ archive' = archive
           /\ Fails(j, {e[1]}) /\ step' = [step EXCEPT ![j][e] = "stuck"]
    BY <1>2 DEF Unlink, disk
  <1>5. PICK x \in {after, "stuck"} :
          /\ step' = [step EXCEPT ![j][e] = x]
          /\ x = "stuck" => Job[j].kind = "remove" /\ files' = files
    BY <1>4
  <1>6. archived \subseteq {file, signature} /\ file \in archived OBVIOUS
  <1> HIDE DEF archived
  <1>7. /\ \A path \in files' : path \in files
        /\ file \notin files'
        /\ \A path \in files \ files' : path \in {file, signature}
        /\ archive \subseteq archive' /\ archive' \subseteq Paths /\ files' \subseteq Paths
        /\ failed' = failed \/ (Job[j].kind = "remove" /\ Fails(j, {e[1]}))
        /\ Job[j].kind = "remove" => \A path \in files \ files' : path \in archive'
    BY <1>2, <1>3, <1>4, <1>6 DEF TypeOK
  <1>8. \A d, p : Gone(d, p) => d = db /\ p = e[1]
    <2> SUFFICES ASSUME NEW d, NEW p, Gone(d, p) PROVE d = db /\ p = e[1]
      OBVIOUS
    <2>1. <<d, p, "pkg">> \in {file, signature} BY <1>7 DEF Gone
    <2>2. <<d, p, "pkg">> # signature BY PathFacts
    <2> QED BY <2>1, <2>2, PathFacts
  <1>9. \A d, p : Gone(d, p) /\ Job[j].kind = "remove" => <<d, p, "pkg">> \in archive' BY <1>7 DEF Gone
  <1>10. Harmless
    <2>1. step[j][e] # "located" BY <1>1
    <2> QED BY <1>2, <1>7, <1>8, <1>9, <2>1, DeletedHarmless
  <1>11. \A dir \in Dbs, q \in AnyPackages : Gone(dir, q) => x = "unlinked" /\ dir = DbOf(j, e) /\ q = e[1]
    <2> SUFFICES ASSUME NEW dir \in Dbs, NEW q \in AnyPackages, Gone(dir, q)
                 PROVE  x = "unlinked" /\ dir = DbOf(j, e) /\ q = e[1]
      OBVIOUS
    <2>1. x # "stuck" BY <1>5 DEF Gone
    <2> QED BY <1>5, <1>8, <2>1
  <1>12. x \in {"unlinked", "finished", "stuck"} /\ (x = "unlinked" => e[1] \in AnyPackages)
         /\ (x = "finished" => e[1] \notin AnyPackages)
    OBVIOUS
  <1> HIDE DEF after
  <1> QED BY <1>1, <1>5, <1>7, <1>10, <1>11, <1>12, HandleKeeps

LEMMA DropKeeps ==
    ASSUME IInv, NEW j \in MovingJobs, NEW e \in Entries, Drop(j, e)
    PROVE  IInv'
  <1> DEFINE db == DbOf(j, e)
             file == Stored(db, e[1])
             pair == {file, SignatureOf(file)}
  <1>1. step[j][e] = "unreferenced" /\ UNCHANGED <<database, phase, errors, tool, cleaning, result>> BY DEF Drop
  <1>2. /\ TypeOK /\ Job[j].kind \in {"move", "remove"} /\ db \in Dbs /\ e[1] \in Packages
        /\ Chosen(j, e) /\ EntryRight(j, e) /\ UnlinkRight(j, e)
    BY <1>1, MovingJobFacts, PlaceFacts, EntryFacts DEF Chosen
  <1>3. /\ Handling(j, e) /\ File(db, e[1]) \notin files /\ ~Referenced(RepoOf[db], e[1])
    BY <1>1, <1>2, ToolFacts DEF EntryRight, UnlinkRight
  <1>4. file \in Paths /\ SignatureOf(file) \in Paths BY <1>2, PathTypes
  <1>5. PICK x \in {"finished", "stuck"} :
          /\ step' = [step EXCEPT ![j][e] = x]
          /\ x = "stuck" => Job[j].kind = "remove"
          /\ x = "finished" => file \notin files'
          /\ \A path \in files' : path \in files
          /\ \A path \in files \ files' : path \in pair
          /\ archive \subseteq archive' /\ archive' \subseteq archive \cup pair
          /\ failed' = failed \/ (Job[j].kind = "remove" /\ Fails(j, {e[1]}))
          /\ Job[j].kind = "remove" => \A path \in files \ files' : path \in archive'
    <2>1. CASE Job[j].kind = "move"
      <3>1. files' = files \ pair /\ step' = [step EXCEPT ![j][e] = "finished"] /\ archive' = archive /\ failed' = failed
        BY <2>1 DEF Drop
      <3> QED BY <2>1, <3>1
    <2>2. CASE Job[j].kind = "remove" /\ file \in files
      <3>1. /\ files' = files \ pair /\ step' = [step EXCEPT ![j][e] = "finished"]
            /\ archive' = archive \cup (pair \cap files) /\ failed' = failed
        BY <2>2 DEF Drop
      <3> QED BY <2>2, <3>1
    <2>3. CASE Job[j].kind = "remove" /\ file \notin files
      <3>1. files' = files /\ step' = [step EXCEPT ![j][e] = "stuck"] /\ archive' = archive /\ Fails(j, {e[1]})
        BY <2>3 DEF Drop, disk
      <3> QED BY <2>3, <3>1
    <2> QED BY <1>2, <2>1, <2>2, <2>3
  <1>6. \A d, p : Gone(d, p) => d = RepoOf[db] /\ p = e[1]
    <2> SUFFICES ASSUME NEW d, NEW p, Gone(d, p) PROVE d = RepoOf[db] /\ p = e[1]
      OBVIOUS
    <2>1. <<d, p, "pkg">> \in pair BY <1>5 DEF Gone
    <2>2. <<d, p, "pkg">> # SignatureOf(file) BY PathFacts
    <2>3. <<d, p, "pkg">> = Stored(db, e[1]) BY <2>1, <2>2
    <2> QED BY <2>3 DEF Stored
  <1>7. Harmless
    <2>1. Job[j].kind = "remove" => \A d, p : Gone(d, p) => <<d, p, "pkg">> \in archive' BY <1>5 DEF Gone
    <2>2. step[j][e] # "located" BY <1>1
    <2> QED BY <1>2, <1>3, <1>5, <1>6, <2>1, <2>2, DeletedHarmless
  <1>8. files' \subseteq Paths /\ archive' \subseteq Paths BY <1>2, <1>4, <1>5 DEF TypeOK
  <1>9. \A dir \in Dbs, q \in AnyPackages : ~Gone(dir, q) BY <1>2, <1>6, DbFacts
  <1>10. File(db, e[1]) \notin files' BY <1>3, <1>5
  <1> QED BY <1>1, <1>3, <1>5, <1>7, <1>8, <1>9, <1>10, HandleKeeps

-----------------------------------------------------------------------------
(* repo-add and repo-remove *)

LEMMA SucceedKeeps ==
    ASSUME IInv, NEW j \in MovingJobs, NEW t \in Tools, Succeed(j, t)
    PROVE  IInv'
  <1> DEFINE db == ToolDb(j, t)
             given == Given(j, t)
             adding == t \in {"add", "addDebug"}
             x == IF adding THEN "done" ELSE "handling"
  <1>1. /\ tool[j][t] = "running" /\ tool' = [tool EXCEPT ![j][t] = x]
        /\ listed' = [listed EXCEPT ![db] = IF adding THEN @ \cup given ELSE @ \ given]
        /\ adding => \A p \in given : Present(db, p)
        /\ stale' = stale \cup {db}
        /\ UNCHANGED <<known, disk, phase, step, failed, errors, cleaning, result>>
    BY DEF Succeed
  <1>2. TypeOK /\ j \in Jobs /\ JobRight(j) /\ Job[j].kind \in {"move", "remove"} BY MovingJobFacts
  <1>3. /\ adding <=> t \in {"add", "addDebug"}
        /\ x = (IF adding THEN "done" ELSE "handling") /\ x \in ToolStates
    BY DEF ToolStates
  <1>4. adding => Job[j].kind = "move" BY <1>1, <1>2 DEF JobRight
  <1>5. t \in {"add", "addDebug", "remove", "removeDebug"} BY DEF Tools
  \* The locations whose packages are added or removed
  <1>6. \A p \in given : \E f \in Entries : p = f[1] /\ InList(t, f) /\ Chosen(j, f) BY DEF Given, Chosen
  <1>7. \A f \in Entries : InList(t, f) /\ Chosen(j, f) => f[1] \in given BY DEF Given, Chosen
  <1>8. given \subseteq Packages BY <1>6, EntryFacts
  <1>9. \A f \in Entries : InList(t, f) => db = IF adding THEN TargetOf(j, f) ELSE DbOf(j, f)
    BY <1>3, <1>5, ToolFacts DEF AdderOf, RemoverOf, IsDebug, InList, ToolDb, TargetOf, DbOf
  <1> HIDE DEF db, given, x, adding
  <1>10. \A p \in given : /\ db \in Dbs /\ j \in Active
                          /\ adding => <<db, p>> \in Puts(j)
                          /\ ~adding => <<db, p>> \in Takes(j)
    <2> SUFFICES ASSUME NEW p \in given
                 PROVE  /\ db \in Dbs /\ j \in Active
                        /\ adding => <<db, p>> \in Puts(j)
                        /\ ~adding => <<db, p>> \in Takes(j)
      OBVIOUS
    <2>1. PICK f \in Entries : p = f[1] /\ InList(t, f) /\ Chosen(j, f) BY <1>6
    <2>2. step[j][f] # "none" BY <2>1 DEF Chosen
    <2>3. /\ j \in Active /\ DbOf(j, f) \in Dbs /\ <<DbOf(j, f), f[1]>> \in Takes(j)
          /\ Job[j].kind = "move" => TargetOf(j, f) \in Dbs /\ <<TargetOf(j, f), f[1]>> \in Puts(j)
      BY <2>2, PlaceFacts
    <2> QED BY <1>4, <1>9, <2>1, <2>3
  <1>11. /\ tool' \in [MovingJobs -> [Tools -> ToolStates]]
         /\ \A i \in MovingJobs : \A u \in Tools : tool'[i][u] = IF i = j /\ u = t THEN x ELSE tool[i][u]
         /\ \A i \in MovingJobs : i # j => tool'[i] = tool[i]
    BY <1>1, <1>2, <1>3, ToolAt
  <1>12. /\ listed' \in [Dbs -> SUBSET Packages]
         /\ \A other \in Dbs : listed'[other] = IF other = db
                                  THEN (IF adding THEN listed[db] \cup given ELSE listed[db] \ given)
                                  ELSE listed[other]
    BY <1>1, <1>2, <1>8 DEF TypeOK
  <1>13. stale' \subseteq Dbs
    <2>1. db \in Dbs BY <1>1, <1>2 DEF JobRight, db
    <2> QED BY <1>1, <1>2, <2>1 DEF TypeOK
  <1>14. TypeOK' BY <1>1, <1>2, <1>11, <1>12, <1>13 DEF TypeOK, disk, cleaning
  <1>15. Active' = Active BY <1>1 DEF Active
  <1>16. files' = files /\ archive' = archive /\ errors' = errors /\ step' = step /\ phase' = phase
    BY <1>1 DEF disk
  \* A database to which is added is not one anything is taken from, and vice versa.
  <1>17. ASSUME NEW i \in MovingJobs, NEW f \in Entries, Chosen(i, f)
         PROVE  /\ Job[i].kind = "move" /\ f[1] \in listed[TargetOf(i, f)] => f[1] \in listed'[TargetOf(i, f)]
                /\ f[1] \notin listed[DbOf(i, f)] => f[1] \notin listed'[DbOf(i, f)]
    <2> DEFINE to == TargetOf(i, f)
               from == DbOf(i, f)
    <2>1. /\ i \in Active /\ from \in Dbs /\ <<from, f[1]>> \in Takes(i)
          /\ Job[i].kind = "move" => to \in Dbs /\ <<to, f[1]>> \in Puts(i)
      BY <1>17, PlaceFacts DEF Chosen
    <2> HIDE DEF to, from
    <2>2. ASSUME Job[i].kind = "move", f[1] \in listed[to] PROVE f[1] \in listed'[to]
      <3>1. to = db /\ ~adding /\ f[1] \in given => FALSE
        <4>1. SUFFICES ASSUME to = db, ~adding, f[1] \in given PROVE FALSE OBVIOUS
        <4>2. j \in Active /\ <<to, f[1]>> \in Takes(j) BY <1>10, <4>1
        <4> QED BY <2>1, <2>2, <4>2, Apart
      <3> QED BY <1>12, <2>1, <2>2, <3>1
    <2>3. ASSUME f[1] \notin listed[from] PROVE f[1] \notin listed'[from]
      <3>1. from = db /\ adding /\ f[1] \in given => FALSE
        <4>1. SUFFICES ASSUME from = db, adding, f[1] \in given PROVE FALSE OBVIOUS
        <4>2. j \in Active /\ <<from, f[1]>> \in Puts(j) BY <1>10, <4>1
        <4> QED BY <2>1, <4>2, Apart
      <3> QED BY <1>12, <2>1, <2>3, <3>1
    <2> QED BY <2>2, <2>3 DEF to, from
  <1>18. ASSUME NEW i \in MovingJobs PROVE JobRight(i)'
    <2>1. JobRight(i) BY DEF IInv
    <2>2. CASE i = j
      <3>1. ~(Job[j].kind = "move" /\ result[j] = "success")
        <4>1. Job[j].kind = "move" => ~SessionReleased(j) BY <1>1 DEF SessionReleased
        <4> QED BY <1>2, <4>1 DEF JobRight
      <3>2. "add" \in Tools /\ "addDebug" \in Tools BY DEF Tools
      <3>3. tool[j][t] # "none" /\ \A u \in Tools : tool[j][u] = "none" => tool'[j][u] = "none" BY <1>1, <1>11
      <3>4. \A u \in {"add", "addDebug"} : tool[j][u] # "handling" => tool'[j][u] # "handling"
        BY <1>3, <1>11, <3>2
      <3>5. UNCHANGED <<phase, step, failed, errors, result>> BY <1>1
      <3> QED BY <1>2, <2>2, <3>1, <3>2, <3>3, <3>4, <3>5 DEF JobRight
    <2>3. CASE i # j BY <1>1, <1>11, <2>3, OtherSame
    <2> QED BY <2>2, <2>3
  <1>19. ASSUME NEW i \in MovingJobs, NEW f \in Entries
         PROVE  /\ EntryRight(i, f)' /\ ListRight(i, f)'
                /\ step[i][f] = "ready" /\ Handling(i, f) => Handling(i, f)'
    <2>1. EntryRight(i, f) /\ ListRight(i, f) BY MovingJobFacts
    <2> DEFINE a == AdderOf(f)
               r == RemoverOf(f)
    <2>2. /\ a = AdderOf(f)' /\ r = RemoverOf(f)' /\ (Handling(i, f)' <=> tool'[i][r] = "handling")
          /\ DbOf(i, f)' = DbOf(i, f) /\ TargetOf(i, f)' = TargetOf(i, f)
      BY NamesNext
    <2>3. /\ a \in Tools /\ r \in Tools /\ (Handling(i, f) <=> tool[i][r] = "handling")
          /\ a \in {"add", "addDebug"} /\ r \in {"remove", "removeDebug"}
          /\ (InList(t, f) <=> t \in {a, r})
      BY ToolFacts
    <2>4. Chosen(i, f)' <=> Chosen(i, f) BY <1>16 DEF Chosen
    <2>5. CASE ~(i = j /\ InList(t, f))
      <3>1. tool'[i][a] = tool[i][a] /\ tool'[i][r] = tool[i][r] BY <1>11, <2>3, <2>5
      <3>2. (Added(i, f)' <=> Added(i, f)) /\ (Removed(i, f)' <=> Removed(i, f))
        BY <1>16, <2>2, <3>1 DEF Added, Removed
      <3>3. ListRight(i, f)' BY <1>17, <2>1, <2>2, <2>4, <3>2 DEF ListRight
      <3>4. UNCHANGED <<phase, step, failed, errors, result>> BY <1>1
      <3>5. EntryRight(i, f)' BY <2>1, <2>2, <3>1, <3>4 DEF EntryRight, Chosen
      <3> QED BY <2>2, <2>3, <3>1, <3>3, <3>5
    <2>6. CASE i = j /\ InList(t, f)
      <3>1. UNCHANGED <<phase, step, failed, errors, result>> BY <1>1
      <3>2. CASE adding
        <4>1. t = a /\ r # t BY <1>3, <2>3, <2>6, <3>2
        <4>2. tool'[j][a] = "done" /\ tool'[j][r] = tool[j][r] BY <1>3, <1>11, <2>3, <3>2, <4>1
        <4>3. Removed(j, f)' <=> Removed(j, f) BY <1>16, <2>2, <4>2 DEF Removed
        <4>4. ASSUME Chosen(j, f) PROVE f[1] \in listed'[TargetOf(j, f)]
          <5>1. f[1] \in given /\ db = TargetOf(j, f) BY <1>7, <1>9, <2>6, <3>2, <4>4
          <5>2. db \in Dbs BY <1>10, <5>1
          <5> QED BY <1>12, <3>2, <5>1, <5>2
        <4>5. ListRight(j, f)' BY <1>17, <2>1, <2>2, <2>4, <2>6, <4>3, <4>4 DEF ListRight
        <4>6. EntryRight(j, f)' BY <2>1, <2>2, <2>6, <3>1, <4>2 DEF EntryRight, Chosen
        <4> QED BY <2>2, <2>3, <2>6, <4>2, <4>5, <4>6
      <3>3. CASE ~adding
        <4>1. t = r /\ a # t BY <1>3, <2>3, <2>6, <3>3
        <4>2. tool'[j][r] = "handling" /\ tool'[j][a] = tool[j][a] BY <1>3, <1>11, <2>3, <3>3, <4>1
        <4>3. Added(j, f)' <=> Added(j, f) BY <1>16, <2>2, <4>2 DEF Added
        <4>4. ASSUME Chosen(j, f) PROVE f[1] \notin listed'[DbOf(j, f)]
          <5>1. f[1] \in given /\ db = DbOf(j, f) BY <1>7, <1>9, <2>6, <3>3, <4>4
          <5>2. db \in Dbs BY <1>10, <5>1
          <5> QED BY <1>12, <3>3, <5>1, <5>2
        <4>5. ListRight(j, f)' BY <1>17, <2>1, <2>2, <2>4, <2>6, <4>3, <4>4 DEF ListRight
        <4>6. EntryRight(j, f)' BY <2>1, <2>2, <2>6, <3>1, <4>2 DEF EntryRight, Chosen
        <4> QED BY <2>2, <2>6, <4>2, <4>5, <4>6
      <3> QED BY <3>2, <3>3
    <2> QED BY <2>5, <2>6
  <1>20. ASSUME NEW i \in MovingJobs, NEW f \in Entries PROVE CopyRight(i, f)' /\ UnlinkRight(i, f)'
    <2>1. CopyRight(i, f) /\ UnlinkRight(i, f) BY MovingJobFacts
    <2> QED BY <1>16, <2>1 DEF CopyRight, UnlinkRight, Chosen, Present, Referenced, File, Stored,
                               DbOf, TargetOf, Source, IsDebug
  <1>21. MovingRight' BY <1>18, <1>19, <1>20 DEF MovingRight
  <1>22. LinksFollowed' BY <1>15, <1>16 DEF IInv, LinksFollowed, File, Stored
  <1>23. ASSUME NEW q \in Dbs, NEW p \in AnyPackages PROVE LinkListed(q, p)'
    <2>1. LinkListed(q, p) BY DEF IInv, LinksListed
    <2>2. File(q, p)' <=> File(q, p) BY DEF File
    <2>3. CASE \E i \in MovingJobs : \E f \in Entries :
                 f[1] = p /\ DbOf(i, f) = q /\ step[i][f] = "ready" /\ Handling(i, f)
      <3>1. PICK i \in MovingJobs, f \in Entries : f[1] = p /\ DbOf(i, f) = q /\ step[i][f] = "ready" /\ Handling(i, f)
        BY <2>3
      <3>2. step'[i][f] = "ready" /\ Handling(i, f)' /\ DbOf(i, f)' = q BY <1>16, <1>19, <3>1, NamesNext
      <3> QED BY <3>1, <3>2 DEF LinkListed
    <2>4. CASE p \in listed[q] /\ p \notin listed'[q]
      <3>1. q = db /\ ~adding /\ p \in given BY <1>12, <2>4
      <3>2. PICK f \in Entries : p = f[1] /\ InList(t, f) /\ Chosen(j, f) BY <1>6, <3>1
      <3>3. DbOf(j, f) = q /\ t = RemoverOf(f) BY <1>3, <1>9, <3>1, <3>2, ToolFacts
      <3>4. step[j][f] = "ready"
        <4>1. step[j][f] \in Steps /\ EntryRight(j, f) BY <1>2, MovingJobFacts DEF TypeOK
        <4>2. phase[j] # "copying" BY <1>1, <1>2 DEF JobRight
        <4> QED BY <1>1, <3>2, <3>3, <4>1, <4>2 DEF EntryRight, Chosen, Steps
      <3>5. tool'[j][RemoverOf(f)] = "handling" BY <1>3, <1>11, <3>1, <3>3
      <3>6. Handling(j, f)' /\ DbOf(j, f)' = q /\ step'[j][f] = "ready" BY <1>16, <3>3, <3>4, <3>5, NamesNext
      <3> QED BY <3>2, <3>6 DEF LinkListed
    <2> QED BY <1>15, <1>16, <2>1, <2>3, <2>4 DEF LinkListed, File
  <1>24. StoredLinked'
    <2>1. ASSUME NEW q \in Dbs, NEW p \in AnyPackages, Pending(RepoOf[q], p) PROVE Pending(RepoOf[q], p)'
      <3>1. PICK i \in MovingJobs, f \in Entries :
              /\ \/ step[i][f] = "ready" /\ Handling(i, f)
                 \/ step[i][f] \in {"unlinked", "unreferenced", "stuck"}
              /\ f[1] = p /\ RepoOf[DbOf(i, f)] = RepoOf[q]
        BY <2>1 DEF Pending
      <3>2. DbOf(i, f)' = DbOf(i, f) BY NamesNext
      <3> QED BY <1>16, <1>19, <3>1, <3>2 DEF Pending
    <2> QED BY <1>16, <2>1 DEF IInv, StoredLinked, Stored, Referenced, File
  <1>25. ListedPresent'
    <2>1. ASSUME NEW q \in Dbs, NEW p \in listed'[q] PROVE Present(q, p)
      <3>1. CASE p \in listed[q] BY <3>1 DEF IInv, ListedPresent
      <3>2. CASE p \notin listed[q]
        <4>1. q = db /\ adding /\ p \in given BY <1>12, <2>1, <3>2
        <4> QED BY <1>1, <4>1 DEF db, given, adding
      <3> QED BY <3>1, <3>2
    <2> QED BY <1>16, <2>1 DEF ListedPresent, Present, File, Stored
  <1>26. ContentsKept' BY <1>16 DEF IInv, ContentsKept
  <1>27. KnownRight'
    <2>1. ASSUME NEW q \in Dbs, q \notin stale' PROVE known'[q] = listed'[q]
      <3>1. q # db /\ q \notin stale BY <1>1, <2>1 DEF db
      <3> QED BY <1>1, <1>12, <3>1 DEF IInv, KnownRight
    <2>2. ASSUME NEW q \in Dbs, \A i \in Active \cap MovingJobs : \A to \in Puts(i) : to[1] # q
          PROVE  listed'[q] \subseteq known'[q]
      <3>1. listed[q] \subseteq known[q] BY <2>2 DEF IInv, KnownRight
      <3>2. listed'[q] \subseteq listed[q]
        <4> SUFFICES ASSUME NEW p \in listed'[q], p \notin listed[q] PROVE FALSE OBVIOUS
        <4>1. q = db /\ adding /\ p \in given BY <1>12
        <4>2. j \in Active /\ <<q, p>> \in Puts(j) BY <1>10, <4>1
        <4>3. <<q, p>>[1] # q BY <2>2, <4>2
        <4> QED BY <4>3
      <3> QED BY <1>1, <3>1, <3>2
    <2> QED BY <1>15, <2>1, <2>2 DEF KnownRight
  \* Nothing is added to a repository while it is cleaned.
  <1>28. ASSUME NEW i \in RepoJobs, i \in Active, Cleaning(i), NEW q \in Siblings(i)
         PROVE  listed'[q] \subseteq listed[q]
    <2> SUFFICES ASSUME NEW p \in listed'[q], p \notin listed[q] PROVE FALSE OBVIOUS
    <2>1. q \in Dbs BY DEF Siblings
    <2>2. q = db /\ adding /\ p \in given BY <1>12, <2>1
    <2>3. j \in Active \cap MovingJobs /\ <<q, p>> \in Puts(j) BY <1>10, <2>2
    <2>4. i \in Active \cap RepoJobs BY <1>28
    <2>5. <<q, p>>[1] \notin Siblings(i) BY <1>28, <2>3, <2>4, NothingPut
    <2> QED BY <2>5
  <1>29. ASSUME NEW i \in RepoJobs PROVE FlagRight(i)'
    <2>1. FlagRight(i) /\ i \in Jobs BY RepoJobFacts
    <2>2. flagged' = flagged /\ seen' = seen BY <1>1 DEF cleaning
    <2>3. Cleaning(i) /\ phase[i] = "flag" =>
             \A q \in Siblings(i) \ Job[i].dbs : listed'[q] \subseteq seen[i][q]
      <3>1. SUFFICES ASSUME Cleaning(i), phase[i] = "flag", NEW q \in Siblings(i) \ Job[i].dbs
                     PROVE  listed'[q] \subseteq seen[i][q]
        OBVIOUS
      <3>2. listed[q] \subseteq seen[i][q] BY <2>1, <3>1 DEF FlagRight
      <3>3. i \in Active BY <2>1, <3>1 DEF Active
      <3> QED BY <1>28, <3>1, <3>2, <3>3
    <2>4. ASSUME Cleaning(i), NEW path \in flagged[i], path[3] = "pkg", NEW q \in Dbs, path[1] \in {q, RepoOf[q]}
          PROVE  path[2] \notin listed'[q]
      <3>1. phase[i] = "sweep" /\ path[2] \notin listed[q] BY <2>1, <2>4 DEF FlagRight
      <3>2. i \in Active BY <2>1, <3>1 DEF Active
      <3>3. q \in Siblings(i)
        <4>1. path[1] \in Siblings(i) \cup {RepoOf[y] : y \in Siblings(i)} BY <2>1, <2>4 DEF FlagRight
        <4> QED BY <2>4, <4>1, DbFacts DEF Siblings
      <3> QED BY <1>28, <2>4, <3>1, <3>2, <3>3
    <2> QED BY <1>16, <2>1, <2>2, <2>3, <2>4 DEF FlagRight, Siblings, Cleaning
  <1> QED BY <1>14, <1>15, <1>21, <1>22, <1>23, <1>24, <1>25, <1>26, <1>27, <1>29, IndependentSame, IInvNext DEF LinksListed

-----------------------------------------------------------------------------
(* The invariant holds and what follows from it *)

LEMMA InitHolds == Init => IInv
  <1> SUFFICES ASSUME Init PROVE IInv
    OBVIOUS
  <1>1. /\ listed = Listed0 /\ known = Listed0 /\ stale = {} /\ files = Files0 /\ archive = {}
        /\ \A j \in MovingJobs : \A e \in Entries : step[j][e] = "none"
        /\ \A j \in MovingJobs : \A t \in Tools : tool[j][t] = "none"
        /\ \A j \in RepoJobs : flagged[j] = {}
        /\ \A j \in Jobs : phase[j] \in {"absent", "new"} /\ result[j] = "none"
    BY JobFacts DEF Init
  <1>2. TypeOK
    <2>1. PICK jobs \in Together : phase = [j \in Jobs |-> IF j \in jobs THEN "new" ELSE "absent"] BY DEF Init
    <2>2. phase \in [Jobs -> {"absent", "new", "copying", "running", "flag", "sweep", "ended"}] BY <2>1
    <2>3. /\ step \in [MovingJobs -> [Entries -> Steps]]
          /\ tool \in [MovingJobs -> [Tools -> ToolStates]]
      BY DEF Init, Steps, ToolStates
    <2>4. /\ listed \in [Dbs -> SUBSET Packages] /\ known \in [Dbs -> SUBSET Packages]
          /\ files \subseteq Paths /\ archive \subseteq Paths /\ stale \subseteq Dbs
      BY <1>1, RepoAssumption
    <2>5. /\ todo \in [RepoJobs -> SUBSET Dbs] /\ locked \in [RepoJobs -> SUBSET Dbs]
          /\ seen \in [RepoJobs -> [Dbs -> SUBSET Packages]]
          /\ flagged \in [RepoJobs -> SUBSET Paths]
          /\ problems \in [RepoJobs -> SUBSET (Dbs \X Packages)]
      BY RepoAssumption DEF Init
    <2>6. /\ failed \in [MovingJobs -> SUBSET Packages]
          /\ errors \in [Jobs -> SUBSET (Tools \cup {"stale", "missing"})]
          /\ result \in [Jobs -> {"none", "success", "failure"}]
      BY DEF Init
    <2> QED BY <2>2, <2>3, <2>4, <2>5, <2>6 DEF TypeOK
  <1>3. Independent(Active)
    <2>1. PICK jobs \in Together : phase = [j \in Jobs |-> IF j \in jobs THEN "new" ELSE "absent"] BY DEF Init
    <2>2. Active = jobs BY <2>1, RepoAssumption DEF Active
    <2> QED BY <2>2, TogetherAssumption
  <1>4. \A j \in MovingJobs : JobRight(j)
    <2>1. "add" \in Tools /\ "addDebug" \in Tools BY DEF Tools
    <2> QED BY <1>1, <2>1, JobFacts DEF JobRight
  <1>5. ASSUME NEW j \in MovingJobs, NEW e \in Entries
        PROVE  EntryRight(j, e) /\ CopyRight(j, e) /\ ListRight(j, e) /\ UnlinkRight(j, e)
    <2>1. step[j][e] = "none" /\ tool[j][RemoverOf(e)] = "none" BY <1>1, ToolFacts
    <2> QED BY <2>1 DEF EntryRight, CopyRight, ListRight, UnlinkRight, Chosen
  <1>6. LinksFollowed
    <2> SUFFICES ASSUME NEW j \in Active \cap MovingJobs, NEW to \in Puts(j),
                        to[2] \in AnyPackages, File(to[1], to[2]) \in files
                 PROVE  Stored(to[1], to[2]) \in files
      BY DEF LinksFollowed
    <2>1. to[1] \in Dbs BY PutTypes
    <2> QED BY <1>1, <2>1, FilesAssumption
  <1>7. LinksListed BY <1>1, FilesAssumption DEF LinksListed, LinkListed
  <1>8. StoredLinked BY <1>1, FilesAssumption DEF StoredLinked, Referenced
  <1>9. KnownRight BY <1>1 DEF KnownRight
  <1>10. \A j \in RepoJobs : FlagRight(j) BY <1>1, JobFacts DEF FlagRight
  <1>11. ListedPresent BY <1>1, FilesAssumption DEF ListedPresent, Present
  <1>12. ContentsKept
    <2> SUFFICES ASSUME NEW p \in Packages, NEW path \in Files0, path[2] = p
                 PROVE  \E dir \in Dirs : (p \in AnyPackages => dir \in Repos) /\ <<dir, p, "pkg">> \in files \cup archive
      BY DEF ContentsKept
    <2> QED BY <1>1, FilesAssumption
  <1> QED BY <1>2, <1>3, <1>4, <1>5, <1>6, <1>7, <1>8, <1>9, <1>10, <1>11, <1>12 DEF IInv

LEMMA StutterKeeps == IInv /\ UNCHANGED vars => IInv'
  <1> SUFFICES ASSUME IInv, UNCHANGED vars PROVE IInv'
    OBVIOUS
  <1>1. /\ UNCHANGED <<database, disk, phase, step, failed, errors, cleaning, result>> /\ tool' = tool
    BY DEF vars, moving
  <1>2. tool' \in [MovingJobs -> [Tools -> ToolStates]] BY <1>1 DEF IInv, TypeOK
  <1> QED BY <1>1, <1>2, ToolsKeep

LEMMA NextKeeps == IInv /\ [Next]_vars => IInv'
  <1> SUFFICES ASSUME IInv, [Next]_vars PROVE IInv'
    OBVIOUS
  <1>1. ASSUME NEW j \in MovingJobs, MoveStep(j) PROVE IInv'
    <2>1. CASE Prepare(j) BY <2>1, PrepareKeeps
    <2>2. ASSUME NEW e \in Entries, Copy(j, e) PROVE IInv' BY <2>2, CopyKeeps
    <2>3. ASSUME NEW e \in Entries, Unlink(j, e) PROVE IInv' BY <2>3, UnlinkKeeps
    <2>4. ASSUME NEW e \in Entries, CheckSiblings(j, e) PROVE IInv' BY <2>4, CheckSiblingsKeeps
    <2>5. ASSUME NEW e \in Entries, Drop(j, e) PROVE IInv' BY <2>5, DropKeeps
    <2>6. CASE Copied(j) BY <2>6, CopiedKeeps
    <2>7. ASSUME NEW t \in Tools, Request(j, t) \/ Launch(j, t) PROVE IInv' BY <2>7, RequestKeeps
    <2>8. ASSUME NEW t \in Tools, Succeed(j, t) PROVE IInv' BY <2>8, SucceedKeeps
    <2>9. ASSUME NEW t \in Tools, Fail(j, t) PROVE IInv' BY <2>9, FailKeeps
    <2>10. ASSUME NEW t \in Tools, Handled(j, t) PROVE IInv' BY <2>10, HandledKeeps
    <2>11. CASE Conclude(j) BY <2>11, ConcludeKeeps
    <2> QED BY <1>1, <2>1, <2>2, <2>3, <2>4, <2>5, <2>6, <2>7, <2>8, <2>9, <2>10, <2>11 DEF MoveStep
  <1>2. ASSUME NEW j \in RepoJobs, RepoStep(j) PROVE IInv'
    <2>1. ASSUME NEW db \in Dbs, CheckDatabase(j, db) \/ CompareModification(j, db) \/ LockDatabase(j, db)
          PROVE  IInv'
      BY <2>1, ScanKeeps
    <2>2. CASE Checked(j) \/ Swept(j) BY <2>2, ConcludedKeeps
    <2>3. CASE LoadSiblings(j) BY <2>3, LoadKeeps
    <2>4. CASE FlagFiles(j) BY <2>4, FlagKeeps
    <2>5. ASSUME NEW path \in flagged[j], Sweep(j, path) PROVE IInv' BY <2>5, SweepKeeps
    <2> QED BY <1>2, <2>1, <2>2, <2>3, <2>4, <2>5 DEF RepoStep
  <1>3. ASSUME NEW db \in Dbs, Reload(db) PROVE IInv' BY <1>3, ReloadKeeps
  <1>4. CASE UNCHANGED vars BY <1>4, StutterKeeps
  <1> QED BY <1>1, <1>2, <1>3, <1>4 DEF Next, JobStep

\* The invariant holds for any databases and packages and whatever jobs run together.
THEOREM Invariance == Spec => []IInv
  BY InitHolds, NextKeeps, PTL DEF Spec

\* What is listed can be downloaded and no package is lost, while MovePackages,
\* RemovePackages, CleanRepository and ReloadDatabase are under way (RepositoryIntact).
THEOREM RepositoryStaysIntact == Spec => []RepositoryIntact
  <1>1. IInv => RepositoryIntact BY DEF IInv, RepositoryIntact
  <1> QED BY <1>1, Invariance, PTL

LEMMA NoOrphansLeft ==
    ASSUME IInv
    PROVE  NoOrphans
  <1> SUFFICES ASSUME \A j \in Jobs : Over(j),
                      \A j \in MovingJobs : \A e \in Entries : step[j][e] # "stuck",
                      NEW db \in Dbs, NEW p \in AnyPackages, Stored(db, p) \in files \cap Files0
               PROVE  Referenced(RepoOf[db], p)
    BY DEF NoOrphans, Referenced
  <1>1. ~Pending(RepoOf[db], p)
    <2> SUFFICES ASSUME NEW j \in MovingJobs, NEW e \in Entries,
                        \/ step[j][e] = "ready" /\ Handling(j, e)
                        \/ step[j][e] \in {"unlinked", "unreferenced", "stuck"}
                 PROVE  FALSE
      BY DEF Pending
    <2>1. tool[j][RemoverOf(e)] = "handling" BY ToolFacts, MovingJobFacts DEF EntryRight
    <2>2. Over(j) BY JobFacts
    <2> QED BY <2>1, <2>2, ToolFacts DEF Over
  <1> QED BY <1>1 DEF IInv, StoredLinked

LEMMA MovedOnSuccess ==
    ASSUME IInv
    PROVE  SuccessMeansMoved
  <1> SUFFICES ASSUME NEW j \in MovingJobs, Job[j].kind = "move", result[j] = "success", NEW p \in Job[j].packages
               PROVE  \E e \in Entries :
                        /\ e[1] = p /\ step[j][e] # "none"
                        /\ p \in listed[TargetOf(j, e)]
                        /\ p \notin listed[DbOf(j, e)]
                        /\ File(DbOf(j, e), p) \notin files
    BY DEF SuccessMeansMoved
  <1>1. /\ JobRight(j) /\ phase[j] = "ended" /\ SessionReleased(j) /\ failed[j] = {} /\ errors[j] = {}
    BY MovingJobFacts DEF JobRight, Successful
  <1>2. PICK e \in Entries : e[1] = p /\ step[j][e] # "none" BY <1>1 DEF JobRight
  <1>3. EntryRight(j, e) /\ ListRight(j, e) /\ UnlinkRight(j, e) /\ step[j][e] \in Steps
    BY MovingJobFacts DEF TypeOK
  <1>4. step[j][e] # "uncopied" BY <1>1, <1>3 DEF EntryRight
  <1>5. Chosen(j, e) BY <1>2, <1>4 DEF Chosen
  <1>6. tool[j][RemoverOf(e)] = "done" /\ tool[j][AdderOf(e)] = "done"
    <2>1. tool[j][RemoverOf(e)] # "none" /\ tool[j][AdderOf(e)] # "none" BY <1>1, <1>3, <1>5 DEF EntryRight
    <2> QED BY <1>1, <2>1, ToolFacts DEF SessionReleased
  <1>7. Added(j, e) /\ Removed(j, e) BY <1>1, <1>6 DEF Added, Removed
  <1>8. step[j][e] = "finished" BY <1>1, <1>3, <1>5, <1>6 DEF EntryRight, Chosen
  <1>9. p \in listed[TargetOf(j, e)] /\ p \notin listed[DbOf(j, e)] BY <1>2, <1>3, <1>5, <1>7 DEF ListRight
  <1>10. File(DbOf(j, e), p) \notin files BY <1>2, <1>3, <1>8 DEF UnlinkRight
  <1> QED BY <1>2, <1>9, <1>10

\* No file is left in an "any" directory without a link to it, and a MovePackages that
\* reports success has moved everything (NothingLeft).
THEOREM NothingIsLeft == Spec => []NothingLeft
  <1>1. IInv => NothingLeft BY NoOrphansLeft, MovedOnSuccess DEF NothingLeft
  <1> QED BY <1>1, Invariance, PTL

LEMMA CleaningUntouched ==
    ASSUME NEW j \in MovingJobs, MoveStep(j)
    PROVE  UNCHANGED <<flagged, problems>>
  <1>1. Prepare(j) => UNCHANGED cleaning BY DEF Prepare
  <1>2. ASSUME NEW e \in Entries
        PROVE  Copy(j, e) \/ Unlink(j, e) \/ CheckSiblings(j, e) \/ Drop(j, e) => UNCHANGED cleaning
    <2>1. Copy(j, e) => UNCHANGED cleaning BY DEF Copy
    <2>2. Unlink(j, e) => UNCHANGED cleaning BY DEF Unlink
    <2>3. CheckSiblings(j, e) => UNCHANGED cleaning BY DEF CheckSiblings
    <2>4. Drop(j, e) => UNCHANGED cleaning BY DEF Drop
    <2> QED BY <2>1, <2>2, <2>3, <2>4
  <1>3. Copied(j) => UNCHANGED cleaning BY DEF Copied
  <1>4. ASSUME NEW t \in Tools
        PROVE  Request(j, t) \/ Launch(j, t) \/ Succeed(j, t) \/ Fail(j, t) \/ Handled(j, t) => UNCHANGED cleaning
    BY DEF Request, Launch, Succeed, Fail, Handled
  <1>5. Conclude(j) => UNCHANGED cleaning BY DEF Conclude
  <1>6. UNCHANGED cleaning BY <1>1, <1>2, <1>3, <1>4, <1>5 DEF MoveStep
  <1> QED BY <1>6 DEF cleaning

LEMMA FlaggedOnlyBySweeping ==
    ASSUME IInv, [Next]_vars, NEW j \in RepoJobs, phase[j] = "sweep", flagged'[j] # flagged[j]
    PROVE  \E path \in flagged[j] : Sweep(j, path)
  <1>1. flagged \in [RepoJobs -> SUBSET Paths] BY DEF IInv, TypeOK
  <1>2. ~UNCHANGED flagged OBVIOUS
  <1>3. ~ \E i \in MovingJobs : MoveStep(i)
    BY <1>2, CleaningUntouched
  <1>4. ~ \E db \in Dbs : Reload(db) BY <1>2 DEF Reload, cleaning
  <1>5. ~ UNCHANGED vars BY <1>2 DEF vars, cleaning
  <1>6. PICK i \in RepoJobs : RepoStep(i) BY <1>3, <1>4, <1>5 DEF Next, JobStep
  <1>7. ~ \E db \in Dbs : CheckDatabase(i, db) \/ CompareModification(i, db) \/ LockDatabase(i, db)
    BY <1>2 DEF CheckDatabase, CompareModification, LockDatabase
  <1>8. ~Checked(i) /\ ~LoadSiblings(i) /\ ~Swept(i) BY <1>2 DEF Checked, LoadSiblings, Swept, cleaning
  <1>9. CASE FlagFiles(i)
    <2>1. i # j BY <1>9 DEF FlagFiles
    <2> QED BY <1>1, <1>9, <2>1 DEF FlagFiles
  <1>10. ASSUME NEW path \in flagged[i], Sweep(i, path) PROVE \E q \in flagged[j] : Sweep(j, q)
    <2>1. flagged' = [flagged EXCEPT ![i] = @ \ {path}] BY <1>10 DEF Sweep
    <2>2. i = j BY <1>1, <2>1
    <2> QED BY <1>10, <2>2
  <1> QED BY <1>6, <1>7, <1>8, <1>9, <1>10 DEF RepoStep

LEMMA SweepKeepsListed ==
    ASSUME IInv, [Next]_vars
    PROVE  CleanupKeepsListed
  <1> SUFFICES ASSUME NEW j \in RepoJobs, phase[j] = "sweep", flagged'[j] # flagged[j],
                      NEW db \in Dbs, NEW p \in listed[db], Present(db, p)
               PROVE  Present(db, p)'
    BY DEF CleanupKeepsListed
  <1>1. PICK path \in flagged[j] : Sweep(j, path) BY FlaggedOnlyBySweeping
  <1>2. Harmless BY <1>1, SweepFacts
  <1> QED BY <1>2 DEF Harmless, Gone, Present, File, Stored

LEMMA AlarmsFounded ==
    ASSUME IInv, [Next]_vars
    PROVE  FalseAlarmOnlyIfStale
  <1> SUFFICES ASSUME NEW j \in RepoJobs, NEW db \in Dbs, NEW p \in Packages, <<db, p>> \in problems'[j] \ problems[j]
               PROVE  db \in stale
    BY DEF FalseAlarmOnlyIfStale
  <1>1. problems \in [RepoJobs -> SUBSET (Dbs \X Packages)] BY DEF IInv, TypeOK
  <1>2. ~UNCHANGED problems OBVIOUS
  <1>3. ~ \E i \in MovingJobs : MoveStep(i)
    BY <1>2, CleaningUntouched
  <1>4. ~ \E other \in Dbs : Reload(other) BY <1>2 DEF Reload, cleaning
  <1>5. ~ UNCHANGED vars BY <1>2 DEF vars, cleaning
  <1>6. PICK i \in RepoJobs : RepoStep(i) BY <1>3, <1>4, <1>5 DEF Next, JobStep
  <1>7. ~ \E other \in Dbs : CompareModification(i, other) \/ LockDatabase(i, other)
    BY <1>2 DEF CompareModification, LockDatabase
  <1>8. ~Checked(i) /\ ~LoadSiblings(i) /\ ~Swept(i) /\ ~FlagFiles(i) /\ ~ \E path \in flagged[i] : Sweep(i, path)
    BY <1>2 DEF Checked, LoadSiblings, Swept, FlagFiles, Sweep, cleaning
  <1>9. PICK other \in Dbs : CheckDatabase(i, other) BY <1>6, <1>7, <1>8 DEF RepoStep
  <1>10. problems' = [problems EXCEPT ![i] = @ \cup {<<other, q>> : q \in {r \in known[other] : ~Present(other, r)}}]
    BY <1>9 DEF CheckDatabase
  <1>11. <<db, p>> \in {<<other, q>> : q \in {r \in known[other] : ~Present(other, r)}} BY <1>1, <1>10
  <1>12. db = other /\ p \in known[db] /\ ~Present(db, p) BY <1>11
  <1>13. p \notin listed[db] BY <1>12 DEF IInv, ListedPresent
  <1> QED BY <1>12, <1>13 DEF IInv, KnownRight

\* CleanRepository takes no file away from a package that is listed, and CheckForProblems
\* raises no false alarm when the contents in memory are current (CleanupAndCheckAccurate).
THEOREM CleanupIsAccurate == Spec => CleanupAndCheckAccurate
  <1>1. IInv /\ [Next]_vars => CleanupKeepsListed /\ FalseAlarmOnlyIfStale BY SweepKeepsListed, AlarmsFounded
  <1> QED BY <1>1, Invariance, PTL DEF Spec, CleanupAndCheckAccurate
=============================================================================
