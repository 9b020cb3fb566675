--------------------------- MODULE PackageDatabase ---------------------------
(***************************************************************************)
(* One package database of libpkg: the packages stored in LMDB, the four   *)
(* dependency indexes beside them and the most-recently-used cache in      *)
(* front (libpkg/data/database.cpp, storage.cpp, storagegeneric.h).        *)
(*                                                                         *)
(* Writers are serialised by DatabaseStorage::updateMutex.  A writer works *)
(* in one LMDB transaction, but it puts what it stores into the cache at   *)
(* once.  Readers read the cache and then a snapshot of LMDB and add what  *)
(* they read to the cache, provided they get the updateMutex by try_lock.  *)
(*                                                                         *)
(* An index entry is a key (index, name and version) with the ids of its   *)
(* packages.  The entries are modelled as the set of the keys that exist   *)
(* and the set of the links from a key to an id, so that an entry without  *)
(* packages is a key without links.                                        *)
(***************************************************************************)
EXTENDS Integers, Sequences, FiniteSets, SequencesExt

CONSTANTS Names,        \* names of packages
          Versions,     \* versions of packages
          Provides,     \* [name, version] |-> set of provided [name, version],
                        \* for every version of a package there is
          Requires,     \* [name, version] |-> set of required [name, version]
          LibProvides,  \* [name, version] |-> libraries found in the contents
          LibDepends,   \* [name, version] |-> libraries the contents refer to
          Readers,      \* threads which retrieve packages
          CacheLimit,   \* StorageCacheEntries::m_limit
          MaxId,        \* bound: highest storage id that is used
          MaxUpdates    \* bound: packages updated by one PackageUpdater

ASSUME CacheLimitAssumption == CacheLimit \in Nat \ {0}
ASSUME MaxIdAssumption == MaxId \in Nat \ {0}
ASSUME VersionsAssumption == DOMAIN Provides \subseteq Names \X Versions

VARIABLES packages,  \* committed packages by id
          keys,      \* committed index entries
          links,     \* committed links from an index entry to a package
          cache,     \* StorageCacheEntries::m_entries, front first
          upd,       \* the writer which holds updateMutex
          readers,   \* what each reader has read so far
          damaged    \* history: an update worked on a stale cache or was cut
                     \* in the middle, and no complete reload has followed

vars == <<packages, keys, links, cache, upd, readers, damaged>>

Ids == 1 .. MaxId
NoPackage == [name |-> "none"]

\* A package: contents tells whether its libraries have been determined from
\* the contents of the binary package (PackageOrigin::PackageContents).
Package == [name : Names, version : Versions, contents : BOOLEAN]

CacheEntry == [id : Ids, name : Names, pkg : Package]
\* An entry of another database; all databases share one cache.
ForeignEntry == [id |-> 0]

-----------------------------------------------------------------------------
(* Index entries of a package *)

Key(l) == [index |-> l.index, name |-> l.name, version |-> l.version]

\* The links an index holds for a package: its name and version and what it
\* provides, what it requires and its libraries (which have no version).
LinksOf(id, p) ==
    LET nv == <<p.name, p.version>>
        libs(f) == IF p.contents THEN f[nv] ELSE {}
        link(i, n, v) == [index |-> i, name |-> n, version |-> v, id |-> id]
    IN  {link("provided", d[1], d[2]) : d \in Provides[nv] \cup {nv}}
        \cup {link("required", d[1], d[2]) : d \in Requires[nv]}
        \cup {link("providedLib", l, 0) : l \in libs(LibProvides)}
        \cup {link("requiredLib", l, 0) : l \in libs(LibDepends)}

\* removePackageDependencies(): takes the package from the entries of every
\* name it has, whatever their version, and deletes those left empty.
RemoveLinks(ls, id, p) ==
    LET hit == {<<l.index, l.name>> : l \in LinksOf(id, p)}
    IN  {l \in ls : ~(l.id = id /\ <<l.index, l.name>> \in hit)}

RemoveKeys(ks, ls, id, p) ==
    LET hit  == {<<l.index, l.name>> : l \in LinksOf(id, p)}
        left == {Key(l) : l \in RemoveLinks(ls, id, p)}
    IN  {k \in ks : <<k.index, k.name>> \in hit => k \in left}

\* addDepsAndProvidesFromOtherPackage(): the same version keeps the libraries
\* which have been determined from the package contents.
TakeOver(p, old) ==
    IF old # NoPackage /\ old.version = p.version /\ old.contents
    THEN [p EXCEPT !.contents = TRUE] ELSE p

-----------------------------------------------------------------------------
(* LMDB (external) and the cache *)

Used(ps) == {i \in Ids : ps[i] # NoPackage}
NewId(ps) == IF Used(ps) = {} THEN 1 ELSE Max(Used(ps)) + 1
IdsByName(ps, n) == {i \in Used(ps) : ps[i].name = n}

ById(c, id) == {i \in DOMAIN c : c[i].id = id}
ByName(c, n) == {i \in DOMAIN c : c[i].id # 0 /\ c[i].name = n}
MoveToFront(c, i) == <<c[i]>> \o RemoveAt(c, i)

\* StorageCacheEntries::insert(): an entry with the same id, or else with the
\* same name, is kept and moved to the front; the last one is dropped when
\* the limit is exceeded.
CacheInsert(c, e) ==
    LET same == IF e.id # 0 /\ ById(c, e.id) # {} THEN ById(c, e.id)
                ELSE IF e.id # 0 THEN ByName(c, e.name) ELSE {}
    IN  IF same # {} THEN MoveToFront(c, CHOOSE i \in same : TRUE)
        ELSE SubSeq(<<e>> \o c, 1, IF Len(c) < CacheLimit THEN Len(c) + 1
                                                          ELSE CacheLimit)

\* StorageCacheEntries::erase() for each of these names.
CacheErase(c, names) ==
    LET rest[i \in 0 .. Len(c)] ==
            IF i = 0 THEN <<>>
            ELSE IF c[i].id # 0 /\ c[i].name \in names THEN rest[i - 1]
            ELSE Append(rest[i - 1], c[i])
    IN  rest[Len(c)]

\* Every cached package is the committed one.
CacheCoherent ==
    \A i \in DOMAIN cache :
        cache[i].id # 0 =>
            /\ packages[cache[i].id] = cache[i].pkg
            /\ cache[i].name = cache[i].pkg.name

\* What retrieve() by name finds for a writer: the cached package or else the
\* one of its transaction.  The writer holds updateMutex already, so try_lock
\* fails and nothing is added to the cache.
Retrieved(n) ==
    IF ByName(cache, n) # {}
    THEN {[id |-> cache[i].id, pkg |-> cache[i].pkg] : i \in ByName(cache, n)}
    ELSE {[id |-> i, pkg |-> upd.packages[i]] : i \in IdsByName(upd.packages, n)}

Touched(n) ==
    IF ByName(cache, n) = {} THEN cache
    ELSE MoveToFront(cache, CHOOSE i \in ByName(cache, n) : TRUE)

\* The cache after a package has been stored under its id: the entry found or
\* inserted holds the package; its name is not changed when it was found by id.
CacheStored(c, id, p) ==
    LET d == CacheInsert(c, [id |-> id, name |-> p.name, pkg |-> p])
    IN  [d EXCEPT ![1].pkg = p]

-----------------------------------------------------------------------------
Idle == [pc |-> "idle"]

Init == /\ packages = [i \in Ids |-> NoPackage]
        /\ keys = {}
        /\ links = {}
        /\ cache = <<>>
        /\ upd = Idle
        /\ readers = [r \in Readers |-> Idle]
        /\ damaged = FALSE

\* A writer gets updateMutex and opens its transaction.
Begin(pc, clear) ==
    /\ upd.pc = "idle"
    /\ upd' = [pc |-> pc, clear |-> clear, packages |-> packages,
               handled |-> {}, names |-> {}, added |-> {}, removed |-> {},
               fresh |-> CacheCoherent]
    /\ damaged' = (damaged \/ ~CacheCoherent)

\* PackageUpdater's constructor.
BeginUpdater(clear) ==
    Begin("updater", clear) /\ UNCHANGED <<packages, keys, links, cache, readers>>

\* Database::updatePackage() up to the lock of the mutex.
BeginUpdatePackage ==
    Begin("single", FALSE) /\ UNCHANGED <<packages, keys, links, cache, readers>>

\* What an updater notes down per index entry: the package to be added and,
\* unless everything is cleared anyway, the former package to be removed.
Affected(u, id, p, old) ==
    [u EXCEPT !.names = @ \cup {p.name},
              !.added = @ \cup LinksOf(id, p),
              !.removed = @ \cup IF u.clear \/ old = NoPackage THEN {}
                                 ELSE LinksOf(id, old)]

\* StorageCache::store() and the bookkeeping of PackageUpdater::update() (for
\* "single" the same sets serve the call of updatePackage).  A name occurs
\* once in a database file.
Store(n, v) ==
    /\ upd.pc \in {"updater", "single"}
    /\ n \notin upd.names
    /\ Cardinality(upd.names) < IF upd.pc = "single" THEN 1 ELSE MaxUpdates
    /\ \E found \in IF Retrieved(n) = {} THEN {[id |-> 0, pkg |-> NoPackage]}
                                          ELSE Retrieved(n) :
         LET id == IF found.id = 0 THEN NewId(upd.packages) ELSE found.id
             p  == TakeOver([name |-> n, version |-> v, contents |-> FALSE],
                            found.pkg)
         IN  /\ id <= MaxId
             /\ upd' = Affected([upd EXCEPT !.packages[id] = p,
                                            !.handled = @ \cup {id}],
                                id, p, found.pkg)
             /\ cache' = IF ByName(cache, n) # {}
                         THEN [Touched(n) EXCEPT ![1].pkg = p]
                         ELSE CacheStored(cache, id, p)
    /\ UNCHANGED <<packages, keys, links, readers, damaged>>

\* PackageUpdater::beginUpdate() and endUpdate() around adding the libraries
\* from the contents of the binary package, as the action which reloads
\* library dependencies does for a package whose version still matches.
AddContents(n, v) ==
    /\ upd.pc = "updater"
    /\ ~upd.clear
    /\ n \notin upd.names
    /\ Cardinality(upd.names) < MaxUpdates
    /\ \E found \in Retrieved(n) :
         LET p == [found.pkg EXCEPT !.contents = TRUE]
         IN  /\ found.pkg.version = v
             /\ upd' = Affected([upd EXCEPT !.packages[found.id] = p],
                                found.id, p, found.pkg)
             /\ cache' = CacheStored(Touched(n), found.id, p)
    /\ UNCHANGED <<packages, keys, links, readers, damaged>>

\* Mutation of Gone: a clearing updater deletes only what was not committed.
GoneUncommitted == IF upd.clear THEN Used(upd.packages) \ Used(packages) ELSE {}

\* The ids a clearing updater deletes.
Gone == IF upd.clear THEN Used(upd.packages) \ upd.handled ELSE {}

\* Mutation of SubmittedLinks: new packages are added before removed ones are
\* taken out.
SubmittedLinksReversed(ls) == (ls \cup upd.added) \ upd.removed

\* submitExistingDependency() for every entry affected.
SubmittedLinks(ls) == (ls \ upd.removed) \cup upd.added

\* PackageUpdater::commit(): a clearing updater deletes the packages which it
\* has not handled and starts with empty indexes.  For each entry affected,
\* the packages removed are taken out before the new ones are added; an entry
\* is created when there is none and never deleted.
CommitUpdater ==
    /\ upd.pc = "updater"
    /\ LET gone == Gone
           kept(s) == IF upd.clear THEN {} ELSE s
           goneNames == {upd.packages[i].name : i \in gone}
       IN  /\ packages' = [i \in Ids |-> IF i \in gone THEN NoPackage
                                                       ELSE upd.packages[i]]
           /\ cache' = CacheErase(cache, goneNames)
           /\ links' = SubmittedLinks(kept(links))
           /\ keys' = kept(keys) \cup {Key(l) : l \in upd.added \cup upd.removed}
    /\ upd' = Idle
    /\ damaged' = IF upd.clear THEN ~upd.fresh ELSE damaged
    /\ UNCHANGED readers

\* The rest of Database::updatePackage().
CommitUpdatePackage ==
    /\ upd.pc = "single"
    /\ upd.names # {}
    /\ LET id   == CHOOSE i \in upd.handled : TRUE
           p    == upd.packages[id]
           hit  == {<<l.index, l.name>> : l \in upd.removed}
           rest == {l \in links : ~(l.id = id /\ <<l.index, l.name>> \in hit)}
           left == {Key(l) : l \in rest}
       IN  /\ links' = rest \cup LinksOf(id, p)
           /\ keys' = {k \in keys : <<k.index, k.name>> \in hit => k \in left}
                      \cup {Key(l) : l \in LinksOf(id, p)}
    /\ packages' = upd.packages
    /\ upd' = Idle
    /\ UNCHANGED <<cache, readers, damaged>>

\* An exception while a database file is parsed or the transaction is written:
\* the transaction is rolled back and the mutex released by the destructors.
Abort ==
    /\ upd.pc \in {"updater", "single"}
    /\ upd' = Idle
    /\ UNCHANGED <<packages, keys, links, cache, readers, damaged>>

\* Database::removePackage() up to the commit of its first transaction.
RemovePackage(n) ==
    /\ upd.pc = "idle"
    /\ \E found \in IF ByName(cache, n) # {}
                    THEN {[id |-> cache[i].id, pkg |-> cache[i].pkg] : i \in ByName(cache, n)}
                    ELSE {[id |-> i, pkg |-> packages[i]] : i \in IdsByName(packages, n)} :
         /\ links' = RemoveLinks(links, found.id, found.pkg)
         /\ keys' = RemoveKeys(keys, links, found.id, found.pkg)
    /\ cache' = Touched(n)
    /\ upd' = [pc |-> "removing", names |-> {n}, fresh |-> CacheCoherent]
    /\ damaged' = (damaged \/ ~CacheCoherent)
    /\ UNCHANGED <<packages, readers>>

\* StorageCache::invalidate(), in a transaction of its own.
Invalidate ==
    /\ upd.pc = "removing"
    /\ \E n \in upd.names :
         /\ cache' = CacheErase(cache, {n})
         /\ IF IdsByName(packages, n) = {} THEN packages' = packages
            ELSE \E i \in IdsByName(packages, n) :
                    packages' = [packages EXCEPT ![i] = NoPackage]
    /\ upd' = Idle
    /\ UNCHANGED <<keys, links, readers, damaged>>

\* Database::clearPackages().
ClearPackages ==
    /\ upd.pc = "idle"
    /\ packages # [i \in Ids |-> NoPackage]
    /\ cache' = CacheErase(cache, Names)
    /\ packages' = [i \in Ids |-> NoPackage]
    /\ keys' = {}
    /\ links' = {}
    /\ damaged' = FALSE
    /\ UNCHANGED <<upd, readers>>

-----------------------------------------------------------------------------
(* Readers: StorageCache::retrieve() *)

\* A read transaction is opened and a package is selected in its snapshot.
Open(r, i) ==
    /\ readers[r].pc = "idle"
    /\ packages[i] # NoPackage
    /\ readers' = [readers EXCEPT ![r] = [pc |-> "open", id |-> i, pkg |-> packages[i]]]
    /\ UNCHANGED <<packages, keys, links, cache, upd, damaged>>

\* The look-up in the cache, by id or by name: a hit ends the retrieval.
LookUp(r) ==
    /\ readers[r].pc = "open"
    /\ \E hit \in {ById(cache, readers[r].id), ByName(cache, readers[r].pkg.name)} :
         IF hit = {}
         THEN /\ readers' = [readers EXCEPT ![r].pc = "missed"]
              /\ UNCHANGED cache
         ELSE /\ readers' = [readers EXCEPT ![r] = Idle]
              /\ cache' = MoveToFront(cache, CHOOSE i \in hit : TRUE)
    /\ UNCHANGED <<packages, keys, links, upd, damaged>>

\* Mutation of MayPopulate: the result of try_lock is ignored.
MayPopulateAlways == TRUE

\* The package read from the snapshot is cached when try_lock succeeds.
MayPopulate == upd.pc = "idle"

Populate(r) ==
    /\ readers[r].pc = "missed"
    /\ cache' = IF MayPopulate
                THEN CacheInsert(cache, [id |-> readers[r].id, pkg |-> readers[r].pkg,
                                         name |-> readers[r].pkg.name])
                ELSE cache
    /\ readers' = [readers EXCEPT ![r] = Idle]
    /\ UNCHANGED <<packages, keys, links, upd, damaged>>

\* A package of another database enters the shared cache.
OtherDatabase ==
    /\ cache' = CacheInsert(cache, ForeignEntry)
    /\ cache' # cache
    /\ UNCHANGED <<packages, keys, links, upd, readers, damaged>>

\* The service stops at any point and starts again: LMDB drops the open
\* transaction, the cache is empty.
Restart ==
    /\ upd.pc # "idle" \/ cache # <<>>
    /\ cache' = <<>>
    /\ readers' = [r \in Readers |-> Idle]
    /\ upd' = Idle
    /\ damaged' = (damaged \/ upd.pc = "removing")
    /\ UNCHANGED <<packages, keys, links>>

Next ==
    \/ \E clear \in BOOLEAN : BeginUpdater(clear)
    \/ BeginUpdatePackage
    \/ \E nv \in DOMAIN Provides :
          Store(nv[1], nv[2]) \/ AddContents(nv[1], nv[2])
    \/ CommitUpdater
    \/ CommitUpdatePackage
    \/ Abort
    \/ \E n \in Names : RemovePackage(n)
    \/ Invalidate
    \/ ClearPackages
    \/ \E r \in Readers, i \in Ids : Open(r, i)
    \/ \E r \in Readers : LookUp(r) \/ Populate(r)
    \/ OtherDatabase
    \/ Restart

Spec == Init /\ [][Next]_vars

-----------------------------------------------------------------------------
(* Properties *)

\* The types; the cache never holds more than its limit, and no id and no name
\* twice (the unique indexes of StorageCacheEntries::EntryList).
TypeOK ==
    /\ packages \in [Ids -> Package \cup {NoPackage}]
    /\ {Key(l) : l \in links} \subseteq keys
    /\ cache \in Seq(CacheEntry \cup {ForeignEntry}) /\ Len(cache) <= CacheLimit
    /\ \A i \in Ids : Cardinality(ById(cache, i)) <= 1
    /\ upd.pc \in {"idle", "updater", "single", "removing"}
    /\ \A r \in Readers : readers[r].pc \in {"idle", "open", "missed"}
    /\ damaged \in BOOLEAN

\* The indexes, maintained by differences in updatePackage(), removePackage()
\* and PackageUpdater, list exactly the packages which are stored: every
\* package is found through each of its names and libraries, none through
\* others (while no package is half removed and unless an update started from
\* a stale cache or a removal was interrupted; a complete reload mends both).
IndexExact ==
    \/ damaged
    \/ upd.pc = "removing"
    \/ links = UNION {LinksOf(i, packages[i]) : i \in Used(packages)}

\* store() looks packages up by name in the cache or in its transaction to
\* reuse their id, so that a name is never stored under two ids.
NamesUnique ==
    \/ damaged
    \/ \A n \in Names : Cardinality(IdsByName(packages, n)) <= 1

\* The indexes are exact and names unique in every committed state.
Consistent == TypeOK /\ IndexExact /\ NamesUnique

\* A writer which commits leaves no stale package in the cache when it found
\* none: whatever readers do meanwhile, try_lock keeps them from adding what
\* they have read before the commit (storage.cpp: "try to acquire update lock
\* to avoid update existing cache entries while db is being updated").
WritersKeepCoherence ==
    [][ upd.pc # "idle" /\ upd'.pc = "idle" /\ upd.fresh
        /\ (CommitUpdater \/ CommitUpdatePackage \/ Invalidate)
          => CacheCoherent' ]_vars

\* commit() of a clearing PackageUpdater replaces the whole database: exactly
\* the packages of the database file remain, under one id each.
ReloadReplaces ==
    [][ upd.pc = "updater" /\ upd.clear /\ upd.fresh /\ CommitUpdater
          => /\ {packages'[i].name : i \in Used(packages')} = upd.names
             /\ Cardinality(Used(packages')) = Cardinality(upd.names) ]_vars

=============================================================================
