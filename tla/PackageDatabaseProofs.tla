------------------------ MODULE PackageDatabaseProofs ------------------------
(***************************************************************************)
(* Proofs about PackageDatabase for any packages with any dependencies,    *)
(* any number of readers, any bound of the ids and any limit of the cache. *)
(***************************************************************************)
EXTENDS PackageDatabase, FiniteSetTheorems, WellFoundedInduction, TLAPS

-----------------------------------------------------------------------------
(* Natural numbers *)

\* Of some natural numbers one is the smallest.
LEMMA SmallestNumber ==
    ASSUME NEW S \in SUBSET Nat, S # {}
    PROVE  \E m \in S : \A k \in S : m <= k
  <1> DEFINE R == OpToRel(<, Nat)
  <1>1. IsWellFoundedOn(R, Nat) BY NatLessThanWellFounded
  <1>2. \A i, j \in Nat : i < j => <<i, j>> \in R BY DEF OpToRel
  <1> HIDE DEF R
  <1>3. PICK m \in S : \A k \in S : <<k, m>> \notin R BY <1>1, WFMin
  <1>4. ASSUME NEW k \in S PROVE m <= k
    <2>1. k \in Nat /\ m \in Nat /\ ~(k < m) BY <1>2, <1>3
    <2> QED BY <2>1
  <1> QED BY <1>4

\* What holds at 0 and with every number for its successor holds for all of them.
LEMMA Induction ==
    ASSUME NEW S, 0 \in S, \A n \in Nat : n \in S => n + 1 \in S
    PROVE  Nat \subseteq S
  <1> DEFINE T == {n \in Nat : n \notin S}
  <1> SUFFICES ASSUME T # {} PROVE FALSE OBVIOUS
  <1>1. PICK m \in T : \A k \in T : m <= k BY SmallestNumber
  <1>2. m \in Nat /\ m \notin S /\ m # 0 OBVIOUS
  <1>3. m - 1 \in Nat /\ m = (m - 1) + 1 BY <1>2
  <1>4. m - 1 \notin T
    <2> HIDE DEF T
    <2> SUFFICES ASSUME m - 1 \in T PROVE FALSE OBVIOUS
    <2> QED BY <1>1, <1>2
  <1>5. m - 1 \in S BY <1>3, <1>4
  <1> HIDE DEF T
  <1> QED BY <1>2, <1>3, <1>5
-----------------------------------------------------------------------------
(* The inductive invariant *)

\* Names are stored once.
OncePerName(ps, S) == \A i, j \in S : ps[i].name = ps[j].name => i = j

\* The index entries of the packages with these ids.
AllLinks(ps, S) == UNION {LinksOf(i, ps[i]) : i \in S}

\* The ids of the packages which have one of these names.
IdsNamed(ps, names) == {i \in Used(ps) : ps[i].name \in names}

Stored == [Ids -> Package \cup {NoPackage}]

\* Neither an id nor a name is cached twice.
CacheFits(c) ==
    /\ c \in Seq(CacheEntry \cup {ForeignEntry})
    /\ Len(c) <= CacheLimit
    /\ \A i, j \in DOMAIN c :
          i # j /\ c[i].id # 0 /\ c[j].id # 0 => c[i].id # c[j].id /\ c[i].name # c[j].name

\* CacheCoherent of a cache c in front of the packages ps.
InFrontOf(c, ps) ==
    \A i \in DOMAIN c :
        c[i].id # 0 => ps[c[i].id] = c[i].pkg /\ c[i].name = c[i].pkg.name

Writing == upd.pc \in {"updater", "single"}

WriterType ==
    Writing =>
        /\ upd = [pc |-> upd.pc, clear |-> upd.clear, packages |-> upd.packages,
                  handled |-> upd.handled, names |-> upd.names, added |-> upd.added,
                  removed |-> upd.removed, fresh |-> upd.fresh]
        /\ upd.clear \in BOOLEAN
        /\ upd.packages \in Stored
        /\ upd.handled \subseteq Ids
        /\ upd.fresh \in BOOLEAN

RemoverType ==
    upd.pc = "removing" =>
        /\ upd = [pc |-> "removing", names |-> upd.names, fresh |-> upd.fresh]
        /\ \E n \in Names : upd.names = {n}
        /\ upd.fresh \in BOOLEAN

Types ==
    /\ packages \in Stored
    /\ {Key(l) : l \in links} \subseteq keys
    /\ CacheFits(cache)
    /\ upd = Idle \/ Writing \/ upd.pc = "removing"
    /\ WriterType
    /\ RemoverType
    /\ readers \in [Readers -> {Idle} \cup [pc : {"open", "missed"}, id : Ids, pkg : Package]]
    /\ damaged \in BOOLEAN

\* The cache matches what the writer is about to commit.
CacheFollows ==
    /\ upd.pc # "idle" /\ ~damaged => upd.fresh
    /\ Writing /\ upd.fresh => InFrontOf(cache, upd.packages)
    /\ upd.pc = "removing" /\ upd.fresh => InFrontOf(cache, packages)

\* What a clearing updater has handled is all it keeps.
ClearingRight ==
    upd.pc = "updater" /\ upd.clear /\ upd.fresh =>
        /\ upd.handled \subseteq Used(upd.packages)
        /\ OncePerName(upd.packages, upd.handled)
        /\ upd.names = {upd.packages[i].name : i \in upd.handled}
        /\ upd.added = AllLinks(upd.packages, upd.handled)
        /\ upd.removed = {}

\* A package which differs from the committed one is new or updated and is noted
\* down; the differences noted down are those of the packages noted down.
UpdatingRight ==
    upd.pc = "updater" /\ ~upd.clear /\ ~damaged =>
        /\ \A i \in Ids :
              \/ upd.packages[i] = packages[i]
              \/ /\ i \in IdsNamed(upd.packages, upd.names)
                 /\ i \in Used(packages) => packages[i].name = upd.packages[i].name
        /\ OncePerName(upd.packages, Used(upd.packages))
        /\ upd.added = AllLinks(upd.packages, IdsNamed(upd.packages, upd.names))
        /\ upd.removed = AllLinks(packages, IdsNamed(packages, upd.names))

\* updatePackage() has stored at most one package.
SingleRight ==
    upd.pc = "single" =>
        /\ ~upd.clear
        /\ \/ upd.names = {} /\ upd.handled = {} /\ upd.packages = packages
              /\ upd.removed = {}
           \/ \E i \in Used(upd.packages) :
                /\ upd.handled = {i}
                /\ upd.names = {upd.packages[i].name}
                /\ \A j \in Ids \ {i} : upd.packages[j] = packages[j]
                /\ upd.fresh => upd.removed = AllLinks(packages, Used(packages) \cap {i})
                /\ ~damaged => OncePerName(upd.packages, Used(upd.packages))

\* The committed state; a package which is being removed has lost its entries.
CommittedRight ==
    ~damaged =>
        /\ OncePerName(packages, Used(packages))
        /\ links = AllLinks(packages, IF upd.pc = "removing"
                                      THEN Used(packages) \ IdsNamed(packages, upd.names)
                                      ELSE Used(packages))

IInv == Types /\ CacheFollows /\ ClearingRight /\ UpdatingRight /\ SingleRight /\ CommittedRight
-----------------------------------------------------------------------------
(* The cache *)

Entry == CacheEntry \cup {ForeignEntry}

LEMMA EntryFacts ==
    ASSUME NEW e \in Entry
    PROVE  /\ e.id # 0 => e.id \in Ids /\ e.name \in Names /\ e.pkg \in Package /\ e \in CacheEntry
           /\ e \in CacheEntry => e.id \in Ids /\ e.id # 0
  BY MaxIdAssumption DEF Entry, CacheEntry, ForeignEntry, Ids

\* A cache whose entries come from different places of another one.
LEMMA Rearranged ==
    ASSUME NEW c, CacheFits(c), NEW d \in Seq(Entry), Len(d) <= CacheLimit,
           NEW f \in [DOMAIN d -> DOMAIN c],
           \A k \in DOMAIN d : d[k] = c[f[k]],
           \A k, l \in DOMAIN d : f[k] = f[l] => k = l
    PROVE  /\ CacheFits(d)
           /\ \A ps : InFrontOf(c, ps) => InFrontOf(d, ps)
  <1>1. CacheFits(d) BY DEF CacheFits, Entry
  <1>2. ASSUME NEW ps, InFrontOf(c, ps) PROVE InFrontOf(d, ps) BY <1>2 DEF InFrontOf
  <1> QED BY <1>1, <1>2

\* The elements of a concatenation.
LEMMA Joined ==
    ASSUME NEW S, NEW a \in Seq(S), NEW b \in Seq(S)
    PROVE  /\ a \o b \in Seq(S)
           /\ Len(a \o b) = Len(a) + Len(b)
           /\ \A k \in 1 .. Len(a) + Len(b) :
                 (a \o b)[k] = IF k <= Len(a) THEN a[k] ELSE b[k - Len(a)]
  OBVIOUS

\* Where the entries are after one has been moved to the front.
LEMMA Moved ==
    ASSUME NEW c, CacheFits(c), NEW i \in DOMAIN c
    PROVE  /\ MoveToFront(c, i) \in Seq(Entry)
           /\ Len(MoveToFront(c, i)) = Len(c)
           /\ \A k \in DOMAIN c : MoveToFront(c, i)[k] =
                 c[IF k = 1 THEN i ELSE IF k <= i THEN k - 1 ELSE k]
  <1> DEFINE n == Len(c)
             front == SubSeq(c, 1, i - 1)
             back == SubSeq(c, i + 1, n)
  <1>1. c \in Seq(Entry) /\ n \in Nat /\ i \in 1 .. n /\ DOMAIN c = 1 .. n
    BY DEF CacheFits, Entry
  <1>2. front \in Seq(Entry) /\ Len(front) = i - 1 /\ \A k \in 1 .. i - 1 : front[k] = c[k]
    <2> HIDE DEF n
    <2> QED BY <1>1
  <1>3. back \in Seq(Entry) /\ Len(back) = n - i /\ \A k \in 1 .. n - i : back[k] = c[i + k]
    <2>1. n \in Nat /\ i \in 1 .. n BY <1>1
    <2>2. \A k \in i + 1 .. n : c[k] \in Entry BY <1>1
    <2>3. back = [k \in 1 .. (n - (i + 1) + 1) |-> c[i + k]]
      <3> HIDE DEF n
      <3> QED BY <2>1, <1>1
    <2>4. n - (i + 1) + 1 = n - i BY <2>1
    <2> HIDE DEF n, back
    <2> QED BY <2>1, <2>2, <2>3, <2>4
  <1> HIDE DEF n, front, back
  <1> DEFINE r == front \o back
  <1>4. /\ r \in Seq(Entry) /\ Len(r) = n - 1
        /\ \A k \in 1 .. n - 1 : r[k] = IF k <= i - 1 THEN front[k] ELSE back[k - (i - 1)]
    <2>1. /\ r \in Seq(Entry) /\ Len(r) = Len(front) + Len(back)
          /\ \A k \in 1 .. Len(front) + Len(back) :
                r[k] = IF k <= Len(front) THEN front[k] ELSE back[k - Len(front)]
      BY <1>2, <1>3, Joined
    <2>2. (i - 1) + (n - i) = n - 1 BY <1>1
    <2> HIDE DEF r
    <2> QED BY <1>2, <1>3, <2>1, <2>2
  <1>5. \A k \in 1 .. n - 1 : r[k] = IF k < i THEN c[k] ELSE c[k + 1]
    <2> TAKE k \in 1 .. n - 1
    <2>0. r[k] = IF k <= i - 1 THEN front[k] ELSE back[k - (i - 1)] BY <1>4
    <2> HIDE DEF r
    <2>1. CASE k < i BY <1>1, <1>2, <2>0, <2>1
    <2>2. CASE ~(k < i)
      <3>1. r[k] = back[k - (i - 1)] BY <1>1, <2>0, <2>2
      <3>2. k - (i - 1) \in 1 .. n - i /\ i + (k - (i - 1)) = k + 1 BY <1>1, <2>2
      <3> QED BY <1>3, <2>2, <3>1, <3>2
    <2> QED BY <2>1, <2>2
  <1>6. MoveToFront(c, i) = <<c[i]>> \o r BY DEF MoveToFront, RemoveAt, r, front, back, n
  <1> HIDE DEF r
  <1> DEFINE d == <<c[i]>> \o r
  <1>7. c[i] \in Entry BY <1>1
  <1>8. d \in Seq(Entry) /\ Len(d) = n BY <1>1, <1>4, <1>7
  <1>9. ASSUME NEW k \in 1 .. n
        PROVE  d[k] = c[IF k = 1 THEN i ELSE IF k <= i THEN k - 1 ELSE k]
    <2>1. CASE k = 1 BY <1>1, <1>4, <1>7, <2>1
    <2>2. CASE k # 1
      <3>1. d[k] = r[k - 1] BY <1>1, <1>4, <1>7, <2>2
      <3>2. k - 1 \in 1 .. n - 1 BY <1>1, <2>2
      <3>3. (k - 1) + 1 = k /\ (k - 1 < i <=> k <= i) BY <1>1
      <3> QED BY <1>5, <2>2, <3>1, <3>2, <3>3
    <2> QED BY <2>1, <2>2
  <1> QED BY <1>1, <1>6, <1>8, <1>9 DEF n

LEMMA MoveFits ==
    ASSUME NEW c, CacheFits(c), NEW i \in DOMAIN c
    PROVE  /\ CacheFits(MoveToFront(c, i))
           /\ DOMAIN MoveToFront(c, i) = DOMAIN c
           /\ MoveToFront(c, i)[1] = c[i] /\ 1 \in DOMAIN c
           /\ \A ps : InFrontOf(c, ps) => InFrontOf(MoveToFront(c, i), ps)
  <1> DEFINE d == MoveToFront(c, i)
             n == Len(c)
             f == [k \in DOMAIN d |-> IF k = 1 THEN i ELSE IF k <= i THEN k - 1 ELSE k]
  <1>1. c \in Seq(Entry) /\ n \in Nat /\ i \in 1 .. n /\ DOMAIN c = 1 .. n /\ n <= CacheLimit
    BY DEF CacheFits, Entry
  <1>2. /\ d \in Seq(Entry) /\ Len(d) = n /\ DOMAIN d = 1 .. n
        /\ \A k \in DOMAIN c : d[k] = c[IF k = 1 THEN i ELSE IF k <= i THEN k - 1 ELSE k]
    BY <1>1, Moved
  <1> HIDE DEF n, d
  <1>3. f \in [DOMAIN d -> DOMAIN c] BY <1>1, <1>2
  <1>4. \A k \in DOMAIN d : d[k] = c[f[k]] BY <1>1, <1>2
  <1>5. \A k, l \in DOMAIN d : f[k] = f[l] => k = l BY <1>1, <1>2
  <1> HIDE DEF f
  <1>6. CacheFits(d) /\ \A ps : InFrontOf(c, ps) => InFrontOf(d, ps)
    BY <1>1, <1>2, <1>3, <1>4, <1>5, Rearranged
  <1> QED BY <1>1, <1>2, <1>6 DEF d

\* An entry which is neither cached by id nor by name comes to the front, otherwise
\* the one which is cached.
LEMMA InsertFits ==
    ASSUME NEW c, CacheFits(c), NEW e \in Entry
    PROVE  LET d == CacheInsert(c, e)
           IN  /\ CacheFits(d) /\ 1 \in DOMAIN d
               /\ \A k \in DOMAIN d : k # 1 => \E j \in DOMAIN c : d[k] = c[j]
               /\ \/ d[1] = e
                  \/ /\ e.id # 0
                     /\ \E j \in DOMAIN c :
                           d[1] = c[j] /\ (j \in ById(c, e.id) \/ j \in ByName(c, e.name))
               /\ e.id # 0 /\ ById(c, e.id) = {} /\ ByName(c, e.name) = {} => d[1] = e
               /\ e.id # 0 => d[1].id # 0
  <1> DEFINE d == CacheInsert(c, e)
             same == IF e.id # 0 /\ ById(c, e.id) # {} THEN ById(c, e.id)
                     ELSE IF e.id # 0 THEN ByName(c, e.name) ELSE {}
             n == Len(c)
             m == IF n < CacheLimit THEN n + 1 ELSE CacheLimit
  <1>1. c \in Seq(Entry) /\ n \in Nat /\ DOMAIN c = 1 .. n /\ n <= CacheLimit
    BY DEF CacheFits, Entry
  <1>2. CASE same # {}
    <2> DEFINE i == CHOOSE i \in same : TRUE
    <2>1. i \in same BY <1>2
    <2>2. i \in DOMAIN c /\ e.id # 0 /\ (i \in ById(c, e.id) \/ i \in ByName(c, e.name))
      BY <2>1 DEF ById, ByName
    <2>3. d = MoveToFront(c, i) BY <1>2 DEF CacheInsert
    <2> HIDE DEF i, same, d
    <2>4. /\ CacheFits(d) /\ DOMAIN d = DOMAIN c /\ d[1] = c[i] /\ 1 \in DOMAIN c
      BY <2>2, <2>3, MoveFits
    <2>5. \A k \in DOMAIN c : d[k] = c[IF k = 1 THEN i ELSE IF k <= i THEN k - 1 ELSE k]
      BY <2>2, <2>3, Moved
    <2>6. ASSUME NEW k \in DOMAIN d, k # 1 PROVE \E j \in DOMAIN c : d[k] = c[j]
      <3>1. k \in 1 .. n /\ k - 1 \in 1 .. n BY <1>1, <2>4, <2>6
      <3> QED BY <1>1, <2>4, <2>5, <2>6, <3>1
    <2>7. c[i].id # 0 BY <2>2 DEF ById, ByName
    <2>8. ById(c, e.id) # {} \/ ByName(c, e.name) # {} BY <2>2
    <2> QED BY <2>2, <2>4, <2>6, <2>7, <2>8 DEF d
  <1>3. CASE same = {}
    <2>1. m \in 1 .. n + 1 /\ m <= CacheLimit /\ m \in Nat
      BY <1>1, CacheLimitAssumption
    <2>2. d = SubSeq(<<e>> \o c, 1, m) BY <1>3 DEF CacheInsert
    <2> DEFINE a == <<e>> \o c
    <2>3. a \in Seq(Entry) /\ Len(a) = n + 1 /\ \A k \in 1 .. n + 1 : a[k] = IF k = 1 THEN e ELSE c[k - 1]
      <3>1. <<e>> \in Seq(Entry) /\ Len(<<e>>) = 1 /\ <<e>>[1] = e OBVIOUS
      <3> DEFINE b == <<e>>
      <3>2. /\ b \o c \in Seq(Entry) /\ Len(b \o c) = Len(b) + n
            /\ \A k \in 1 .. Len(b) + n : (b \o c)[k] = IF k <= Len(b) THEN b[k] ELSE c[k - Len(b)]
        <4> HIDE DEF b
        <4> QED BY <1>1, <3>1, Joined DEF n, b
      <3>3. a = b \o c OBVIOUS
      <3> HIDE DEF a, b, n
      <3> QED BY <1>1, <3>1, <3>2, <3>3 DEF b
    <2> HIDE DEF a, m, n
    <2>4. d = SubSeq(a, 1, m) BY <2>2 DEF a
    <2>5. /\ d \in Seq(Entry) /\ Len(d) = m /\ DOMAIN d = 1 .. m
          /\ \A k \in 1 .. m : d[k] = a[k]
      <3>1. d = [k \in 1 .. m |-> a[k]]
        <4>1. \A k \in 1 .. m : 1 + k - 1 = k BY <2>1
        <4>2. m - 1 + 1 = m BY <2>1
        <4> HIDE DEF d
        <4> QED BY <1>1, <2>1, <2>3, <2>4, <4>1, <4>2
      <3>2. \A k \in 1 .. m : k \in 1 .. n + 1 BY <1>1, <2>1
      <3>3. \A k \in 1 .. m : a[k] \in Entry BY <2>3, <3>2
      <3> HIDE DEF d
      <3> QED BY <2>1, <3>1, <3>3
    <2>6. d[1] = e /\ 1 \in DOMAIN d
      <3> HIDE DEF d
      <3>1. 1 \in 1 .. m /\ 1 \in 1 .. n + 1 BY <1>1, <2>1
      <3> QED BY <2>3, <2>5, <3>1
    <2>7. \A k \in DOMAIN d : k # 1 => k - 1 \in DOMAIN c /\ d[k] = c[k - 1]
      <3> HIDE DEF d
      <3> TAKE k \in DOMAIN d
      <3> SUFFICES ASSUME k # 1 PROVE k - 1 \in DOMAIN c /\ d[k] = c[k - 1] OBVIOUS
      <3>1. k \in 1 .. n + 1 /\ k - 1 \in 1 .. n BY <1>1, <2>1, <2>5
      <3> QED BY <1>1, <2>3, <2>5, <3>1
    <2>8. e.id # 0 => \A j \in DOMAIN c : c[j].id # 0 => c[j].id # e.id /\ c[j].name # e.name
      BY <1>3 DEF ById, ByName
    <2>9. CacheFits(d)
      <3> HIDE DEF d, same
      <3>1. ASSUME NEW i \in DOMAIN d, NEW j \in DOMAIN d, i # j, d[i].id # 0, d[j].id # 0
            PROVE  d[i].id # d[j].id /\ d[i].name # d[j].name
        <4>1. CASE i = 1 BY <2>6, <2>7, <2>8, <3>1, <4>1
        <4>2. CASE j = 1 BY <2>6, <2>7, <2>8, <3>1, <4>2
        <4>3. CASE i # 1 /\ j # 1
          <5>1. i - 1 # j - 1 BY <1>1, <2>1, <2>5, <3>1
          <5> QED BY <2>7, <3>1, <4>3, <5>1 DEF CacheFits
        <4> QED BY <4>1, <4>2, <4>3
      <3> QED BY <2>1, <2>5, <3>1 DEF CacheFits, Entry
    <2> HIDE DEF d, same
    <2>10. \A k \in DOMAIN d : k # 1 => \E j \in DOMAIN c : d[k] = c[j] BY <2>7
    <2> QED BY <2>6, <2>9, <2>10 DEF d
  <1> QED BY <1>2, <1>3

\* The package of the first entry is replaced.
LEMMA FrontReplaced ==
    ASSUME NEW c, CacheFits(c), 1 \in DOMAIN c, c[1].id # 0, NEW p \in Package
    PROVE  LET d == [c EXCEPT ![1].pkg = p]
           IN  /\ CacheFits(d) /\ DOMAIN d = DOMAIN c
               /\ d[1].id = c[1].id /\ d[1].name = c[1].name /\ d[1].pkg = p
               /\ \A k \in DOMAIN c : k # 1 => d[k] = c[k]
  <1> DEFINE d == [c EXCEPT ![1].pkg = p]
             r == [c[1] EXCEPT !.pkg = p]
  <1>1. c \in Seq(Entry) /\ c[1] \in Entry BY DEF CacheFits, Entry
  <1>2. c[1] \in CacheEntry BY <1>1, EntryFacts
  <1>3. r \in CacheEntry /\ r.id = c[1].id /\ r.name = c[1].name /\ r.pkg = p
    BY <1>2 DEF CacheEntry
  <1>4. d = [c EXCEPT ![1] = r] OBVIOUS
  <1> HIDE DEF d, r
  <1>5. /\ d \in Seq(Entry) /\ Len(d) = Len(c) /\ DOMAIN d = DOMAIN c /\ d[1] = r
        /\ \A k \in DOMAIN c : k # 1 => d[k] = c[k]
    BY <1>1, <1>3, <1>4 DEF Entry
  <1>6. CacheFits(d)
    <2>1. \A k \in DOMAIN d : d[k].id = c[k].id /\ (d[k].id # 0 => d[k].name = c[k].name)
      BY <1>3, <1>5
    <2> QED BY <1>5, <2>1 DEF CacheFits, Entry
  <1> QED BY <1>3, <1>5, <1>6 DEF d

LEMMA StoredFits ==
    ASSUME NEW c, CacheFits(c), NEW id \in Ids, NEW p \in Package
    PROVE  /\ CacheFits(CacheStored(c, id, p))
           /\ \A ps, qs :
                 /\ InFrontOf(c, ps)
                 /\ \A j \in ById(c, id) : c[j].name = p.name
                 /\ \A j \in ByName(c, p.name) : c[j].id = id
                 /\ qs[id] = p
                 /\ \A i \in Ids \ {id} : qs[i] = ps[i]
                 => InFrontOf(CacheStored(c, id, p), qs)
  <1> DEFINE e == [id |-> id, name |-> p.name, pkg |-> p]
             d == CacheInsert(c, e)
             r == [d EXCEPT ![1].pkg = p]
  <1>1. e \in Entry /\ e.id = id /\ e.id # 0 /\ e.name = p.name /\ e.pkg = p
    BY MaxIdAssumption DEF Entry, CacheEntry, Package, Ids
  <1>2. CacheStored(c, id, p) = r BY DEF CacheStored
  <1> HIDE DEF e
  <1>3. /\ CacheFits(d) /\ 1 \in DOMAIN d /\ d[1].id # 0
        /\ \A k \in DOMAIN d : k # 1 => \E j \in DOMAIN c : d[k] = c[j]
        /\ \/ d[1] = e
           \/ \E j \in DOMAIN c :
                 d[1] = c[j] /\ (j \in ById(c, e.id) \/ j \in ByName(c, e.name))
    <2>1. c = c /\ CacheFits(c) OBVIOUS
    <2> QED BY <1>1, <2>1, InsertFits
  <1> HIDE DEF d
  <1>4. /\ CacheFits(r) /\ DOMAIN r = DOMAIN d
        /\ r[1].id = d[1].id /\ r[1].name = d[1].name /\ r[1].pkg = p
        /\ \A k \in DOMAIN d : k # 1 => r[k] = d[k]
    BY <1>3, FrontReplaced
  <1> HIDE DEF r
  <1>5. ASSUME NEW ps, NEW qs,
               InFrontOf(c, ps),
               \A j \in ById(c, id) : c[j].name = p.name,
               \A j \in ByName(c, p.name) : c[j].id = id,
               qs[id] = p,
               \A i \in Ids \ {id} : qs[i] = ps[i]
        PROVE  InFrontOf(r, qs)
    <2>1. d[1].id = id /\ d[1].name = p.name
      BY <1>1, <1>3, <1>5 DEF ById, ByName
    <2>2. ASSUME NEW k \in DOMAIN r, r[k].id # 0
          PROVE  qs[r[k].id] = r[k].pkg /\ r[k].name = r[k].pkg.name
      <3>1. CASE k = 1 BY <1>4, <1>5, <2>1, <3>1
      <3>2. CASE k # 1
        <4>1. PICK j \in DOMAIN c : d[k] = c[j] BY <1>3, <1>4, <3>2
        <4>2. r[k] = c[j] BY <1>4, <3>2, <4>1
        <4>3. d[k].id # d[1].id BY <1>3, <1>4, <2>2, <3>2 DEF CacheFits
        <4>4. c[j].id \in Ids
          <5>1. c[j] \in Entry BY DEF CacheFits, Entry
          <5> QED BY <2>2, <4>2, <5>1, EntryFacts
        <4>5. qs[c[j].id] = ps[c[j].id] BY <1>5, <2>1, <4>1, <4>3, <4>4
        <4> QED BY <1>5, <2>2, <4>2, <4>5 DEF InFrontOf
      <3> QED BY <3>1, <3>2
    <2> QED BY <2>2 DEF InFrontOf
  <1> QED BY <1>2, <1>4, <1>5

\* What is left of a cache has no entry with one of the names.
LEMMA ErasedFits ==
    ASSUME NEW c, CacheFits(c), NEW names
    PROVE  /\ CacheFits(CacheErase(c, names))
           /\ \A k \in DOMAIN CacheErase(c, names) :
                 \E j \in DOMAIN c :
                    /\ CacheErase(c, names)[k] = c[j]
                    /\ c[j].id = 0 \/ c[j].name \notin names
  <1> DEFINE n == Len(c)
             drop(i) == c[i].id # 0 /\ c[i].name \in names
             next(r, i) == IF drop(i) THEN r ELSE Append(r, c[i])
             body(f) == [i \in 0 .. n |-> IF i = 0 THEN <<>>
                                          ELSE IF drop(i) THEN f[i - 1] ELSE Append(f[i - 1], c[i])]
             rest == CHOOSE f : f = body(f)
  <1>1. c \in Seq(Entry) /\ n \in Nat /\ DOMAIN c = 1 .. n /\ n <= CacheLimit /\ CacheLimit \in Nat
    BY CacheLimitAssumption DEF CacheFits, Entry
  <1>2. CacheErase(c, names) = rest[n] BY DEF CacheErase
  <1> HIDE DEF n
  <1>3. \E f : f = body(f)
    <2> DEFINE Upto(i) == {g \in [0 .. i -> Seq(Entry)] :
                             g[0] = <<>> /\ \A k \in 1 .. i : g[k] = next(g[k - 1], k)}
               T == {i \in Nat : i <= n => Upto(i) # {}}
    <2>1. 0 \in T
      <3>1. [k \in 0 .. 0 |-> <<>>] \in Upto(0) OBVIOUS
      <3> QED BY <3>1
    <2>2. ASSUME NEW i \in Nat, i \in T PROVE i + 1 \in T
      <3> HIDE DEF Upto
      <3> SUFFICES ASSUME i + 1 <= n PROVE Upto(i + 1) # {} OBVIOUS
      <3>1. i <= n /\ i + 1 \in 1 .. n BY <1>1
      <3>2. PICK g \in Upto(i) : TRUE BY <2>2, <3>1
      <3> USE DEF Upto
      <3> DEFINE h == [k \in 0 .. i + 1 |-> IF k = i + 1 THEN next(g[i], i + 1) ELSE g[k]]
      <3>3. c[i + 1] \in Entry /\ g[i] \in Seq(Entry) BY <1>1, <3>1, <3>2
      <3>4. next(g[i], i + 1) \in Seq(Entry)
        <4> HIDE DEF drop
        <4> QED BY <3>3
      <3>5. h \in [0 .. i + 1 -> Seq(Entry)]
        <4> HIDE DEF next
        <4> QED BY <3>2, <3>4
      <3>6. h[0] = <<>>
        <4> HIDE DEF next
        <4> QED BY <3>2
      <3>7. \A k \in 1 .. i + 1 : h[k] = next(h[k - 1], k)
        <4> HIDE DEF next
        <4> TAKE k \in 1 .. i + 1
        <4>1. k - 1 \in 0 .. i + 1 /\ k - 1 # i + 1 /\ k \in 0 .. i + 1 OBVIOUS
        <4>2. h[k - 1] = g[k - 1] BY <4>1
        <4>3. CASE k = i + 1 BY <4>1, <4>2, <4>3
        <4>4. CASE k # i + 1
          <5>1. k \in 1 .. i BY <4>4
          <5>2. g[k] = next(g[k - 1], k) BY <3>2, <5>1
          <5>3. h[k] = g[k] BY <4>1, <4>4
          <5> QED BY <4>2, <5>2, <5>3
        <4> QED BY <4>3, <4>4
      <3>8. h \in Upto(i + 1)
        <4> HIDE DEF next, h
        <4> QED BY <3>5, <3>6, <3>7
      <3> QED BY <3>8
    <2>3. n \in T
      <3> HIDE DEF T
      <3> QED BY <1>1, <2>1, <2>2, Induction
    <2> HIDE DEF Upto
    <2>4. PICK f \in Upto(n) : TRUE BY <1>1, <2>3
    <2> USE DEF Upto
    <2>5. f \in [0 .. n -> Seq(Entry)] /\ f[0] = <<>> /\ \A k \in 1 .. n : f[k] = next(f[k - 1], k)
      BY <2>4
    <2>6. \A i \in 0 .. n : f[i] = IF i = 0 THEN <<>>
                                   ELSE IF drop(i) THEN f[i - 1] ELSE Append(f[i - 1], c[i])
      <3> HIDE DEF Upto, drop
      <3>1. \A i \in 0 .. n : i # 0 => i \in 1 .. n BY <1>1
      <3> QED BY <2>5, <3>1
    <2>7. f = body(f)
      <3> HIDE DEF Upto, drop
      <3> QED BY <2>5, <2>6
    <2> QED BY <2>7
  <1>4. rest = body(rest)
    <2> HIDE DEF body
    <2> QED BY <1>3
  <1> HIDE DEF rest
  <1>5. rest[0] = <<>> BY <1>1, <1>4
  <1>6. ASSUME NEW i \in Nat, i + 1 <= n PROVE rest[i + 1] = next(rest[i], i + 1)
    <2>1. i + 1 \in 0 .. n /\ i + 1 # 0 /\ (i + 1) - 1 = i BY <1>1, <1>6
    <2> HIDE DEF drop
    <2> QED BY <1>4, <2>1
  <1> DEFINE From(r, i) == \A k \in DOMAIN r : \E j \in 1 .. i : r[k] = c[j] /\ ~drop(j)
             Unique(r) == \A k, l \in DOMAIN r :
                             k # l /\ r[k].id # 0 /\ r[l].id # 0 => r[k].id # r[l].id /\ r[k].name # r[l].name
             Right(r, i) == r \in Seq(Entry) /\ Len(r) <= i /\ From(r, i) /\ Unique(r)
             S == {i \in Nat : i <= n => Right(rest[i], i)}
  <1>7. 0 \in S
    <2>1. /\ <<>> \in Seq(Entry) /\ Len(<<>>) <= 0 /\ DOMAIN <<>> = {}
      OBVIOUS
    <2>2. Right(<<>>, 0) BY <2>1
    <2> HIDE DEF Right
    <2> QED BY <1>5, <2>2
  <1>8. ASSUME NEW i \in Nat, i \in S PROVE i + 1 \in S
    <2> SUFFICES ASSUME i + 1 <= n PROVE Right(rest[i + 1], i + 1) OBVIOUS
    <2>1. i <= n /\ i + 1 \in 1 .. n BY <1>1
    <2> DEFINE r == rest[i]
    <2>2. Right(r, i) BY <1>8, <2>1
    <2>3. rest[i + 1] = next(r, i + 1) BY <1>6
    <2> HIDE DEF r
    <2>4. c[i + 1] \in Entry BY <1>1, <2>1
    <2>5. \A k \in 1 .. i : k \in 1 .. i + 1 OBVIOUS
    <2>6. CASE drop(i + 1)
      <3>1. rest[i + 1] = r BY <2>3, <2>6
      <3>2. From(r, i + 1)
        <4> HIDE DEF drop
        <4> QED BY <2>2, <2>5
      <3>3. Len(r) <= i + 1 BY <2>2
      <3> HIDE DEF From, Unique
      <3> QED BY <2>2, <3>1, <3>2, <3>3
    <2>7. CASE ~drop(i + 1)
      <3> DEFINE e == c[i + 1]
                 l == Len(r)
                 q == Append(r, e)
      <3>1. rest[i + 1] = q BY <2>3, <2>7
      <3>2. l \in Nat /\ l <= i /\ DOMAIN r = 1 .. l /\ r \in Seq(Entry) BY <2>2
      <3>3. /\ q \in Seq(Entry) /\ Len(q) = l + 1 /\ DOMAIN q = 1 .. l + 1
            /\ q[l + 1] = e /\ \A k \in 1 .. l : q[k] = r[k]
        BY <2>4, <3>2
      <3> HIDE DEF l, q
      <3>4. From(q, i + 1)
        <4> TAKE k \in DOMAIN q
        <4>1. CASE k = l + 1
          <5> HIDE DEF drop
          <5> QED BY <2>1, <2>7, <3>3, <4>1
        <4>2. CASE k # l + 1
          <5>1. k \in 1 .. l BY <3>2, <3>3, <4>2
          <5>2. PICK j \in 1 .. i : r[k] = c[j] /\ ~drop(j) BY <2>2, <3>2, <5>1
          <5> HIDE DEF drop
          <5> QED BY <2>5, <3>3, <5>1, <5>2
        <4> QED BY <4>1, <4>2
      <3>5. ASSUME NEW k \in 1 .. l, r[k].id # 0, e.id # 0
            PROVE  r[k].id # e.id /\ r[k].name # e.name
        <4>1. PICK j \in 1 .. i : r[k] = c[j] BY <2>2, <3>2
        <4>2. j \in DOMAIN c /\ i + 1 \in DOMAIN c /\ j # i + 1 BY <1>1, <2>1
        <4> HIDE DEF e
        <4>3. c[i + 1] = e BY DEF e
        <4> QED BY <3>5, <4>1, <4>2, <4>3 DEF CacheFits
      <3>6. Unique(q)
        <4> TAKE k, m \in DOMAIN q
        <4> SUFFICES ASSUME k # m, q[k].id # 0, q[m].id # 0
                     PROVE  q[k].id # q[m].id /\ q[k].name # q[m].name
          OBVIOUS
        <4> HIDE DEF e
        <4>1. CASE k = l + 1
          <5>1. m \in 1 .. l BY <3>2, <3>3, <4>1
          <5> QED BY <3>3, <3>5, <4>1, <5>1
        <4>2. CASE m = l + 1
          <5>1. k \in 1 .. l BY <3>2, <3>3, <4>2
          <5> QED BY <3>3, <3>5, <4>2, <5>1
        <4>3. CASE k # l + 1 /\ m # l + 1
          <5>1. k \in 1 .. l /\ m \in 1 .. l BY <3>2, <3>3, <4>3
          <5> QED BY <2>2, <3>2, <3>3, <5>1
        <4> QED BY <4>1, <4>2, <4>3
      <3>7. Len(q) <= i + 1 BY <3>2, <3>3
      <3> HIDE DEF From, Unique
      <3> QED BY <3>1, <3>3, <3>4, <3>6, <3>7
    <2> QED BY <2>6, <2>7
  <1>9. n \in S
    <2> HIDE DEF S
    <2> QED BY <1>1, <1>7, <1>8, Induction
  <1>10. Right(rest[n], n) BY <1>1, <1>9
  <1> DEFINE r == rest[n]
  <1>11. r \in Seq(Entry) /\ Len(r) <= n /\ From(r, n) /\ Unique(r) BY <1>10
  <1> HIDE DEF r
  <1>12. Len(r) <= CacheLimit BY <1>1, <1>11
  <1>13. CacheFits(r) BY <1>11, <1>12 DEF CacheFits, Entry
  <1>14. \A k \in DOMAIN r : \E j \in DOMAIN c : r[k] = c[j] /\ (c[j].id = 0 \/ c[j].name \notin names)
    BY <1>1, <1>11
  <1> QED BY <1>2, <1>13, <1>14 DEF r

LEMMA TouchedFits ==
    ASSUME CacheFits(cache), NEW n
    PROVE  /\ CacheFits(Touched(n))
           /\ \A ps : InFrontOf(cache, ps) => InFrontOf(Touched(n), ps)
           /\ DOMAIN Touched(n) = DOMAIN cache
           /\ \A i \in ByName(cache, n) :
                 /\ ByName(cache, n) = {i} /\ i \in DOMAIN cache
                 /\ 1 \in DOMAIN cache /\ Touched(n)[1] = cache[i]
           /\ ByName(cache, n) = {} => Touched(n) = cache
  <1>1. CASE ByName(cache, n) = {} BY <1>1 DEF Touched
  <1>2. CASE ByName(cache, n) # {}
    <2> DEFINE i == CHOOSE i \in ByName(cache, n) : TRUE
    <2>1. i \in ByName(cache, n) BY <1>2
    <2>2. i \in DOMAIN cache BY <2>1 DEF ByName
    <2>3. Touched(n) = MoveToFront(cache, i) BY <1>2 DEF Touched
    <2>4. ByName(cache, n) = {i} BY <2>1 DEF ByName, CacheFits
    <2> HIDE DEF i
    <2>5. /\ CacheFits(MoveToFront(cache, i))
          /\ DOMAIN MoveToFront(cache, i) = DOMAIN cache
          /\ MoveToFront(cache, i)[1] = cache[i] /\ 1 \in DOMAIN cache
          /\ \A ps : InFrontOf(cache, ps) => InFrontOf(MoveToFront(cache, i), ps)
      BY <2>2, MoveFits
    <2> QED BY <1>2, <2>2, <2>3, <2>4, <2>5
  <1> QED BY <1>1, <1>2

-----------------------------------------------------------------------------
(* Packages and their ids *)

LEMMA NoPackageFacts == NoPackage \notin Package
  <1>1. ASSUME NEW q \in Package PROVE q # NoPackage
    <2>1. "version" \in DOMAIN q BY DEF Package
    <2>2. "version" \notin DOMAIN NoPackage BY DEF NoPackage
    <2> QED BY <2>1, <2>2
  <1> QED BY <1>1

LEMMA UsedFacts ==
    ASSUME NEW ps \in Stored
    PROVE  /\ \A i \in Used(ps) : i \in Ids /\ ps[i] \in Package /\ ps[i] # NoPackage
           /\ \A i \in Ids : i \in Used(ps) <=> ps[i] \in Package
  BY NoPackageFacts DEF Used, Stored

\* A new id is not in use.
LEMMA NewIdFacts ==
    ASSUME NEW ps, NewId(ps) <= MaxId
    PROVE  NewId(ps) \in Ids /\ NewId(ps) \notin Used(ps) /\ ps[NewId(ps)] = NoPackage
  <1>1. MaxId \in Nat /\ MaxId >= 1 /\ Used(ps) \subseteq 1 .. MaxId
    BY MaxIdAssumption DEF Used, Ids
  <1>2. CASE Used(ps) = {} BY <1>1, <1>2 DEF NewId, Used, Ids
  <1>3. CASE Used(ps) # {}
    <2> DEFINE T == {MaxId - i : i \in Used(ps)}
    <2>1. T \in SUBSET Nat /\ T # {} BY <1>1, <1>3
    <2>2. PICK m \in T : \A k \in T : m <= k BY <2>1, SmallestNumber
    <2>3. PICK x \in Used(ps) : m = MaxId - x BY <2>2
    <2>4. \A y \in Used(ps) : x >= y
      <3> TAKE y \in Used(ps)
      <3>1. MaxId - y \in T OBVIOUS
      <3>2. m <= MaxId - y BY <2>2, <3>1
      <3> QED BY <1>1, <2>3, <3>2
    <2> DEFINE max == Max(Used(ps))
    <2>5. max \in Used(ps) /\ \A y \in Used(ps) : max >= y
      BY <2>4 DEF Max
    <2>6. NewId(ps) = max + 1 BY <1>3 DEF NewId
    <2> HIDE DEF max
    <2>7. max \in 1 .. MaxId BY <1>1, <2>5
    <2>8. NewId(ps) \in Ids BY <1>1, <2>6, <2>7 DEF Ids
    <2>9. NewId(ps) \notin Used(ps) BY <2>5, <2>6, <2>7
    <2> QED BY <2>8, <2>9 DEF Used
  <1> QED BY <1>2, <1>3

LEMMA LinkId == \A i, p : \A l \in LinksOf(i, p) : l.id = i
  BY DEF LinksOf

-----------------------------------------------------------------------------
(* What a writer finds *)

LEMMA FoundType ==
    ASSUME CacheFits(cache), upd.packages \in Stored, NEW n, NEW found \in Retrieved(n)
    PROVE  found.id \in Ids /\ found.pkg \in Package
  <1>1. CASE ByName(cache, n) # {}
    <2>1. PICK i \in ByName(cache, n) : found = [id |-> cache[i].id, pkg |-> cache[i].pkg]
      BY <1>1 DEF Retrieved
    <2>2. i \in DOMAIN cache /\ cache[i].id # 0 BY DEF ByName
    <2>3. cache[i] \in Entry BY <2>2 DEF CacheFits, Entry
    <2> QED BY <2>1, <2>2, <2>3, EntryFacts
  <1>2. CASE ByName(cache, n) = {}
    <2>1. PICK i \in IdsByName(upd.packages, n) : found = [id |-> i, pkg |-> upd.packages[i]]
      BY <1>2 DEF Retrieved
    <2>2. i \in Used(upd.packages) BY DEF IdsByName
    <2> QED BY <2>1, <2>2, UsedFacts
  <1> QED BY <1>1, <1>2

\* In front of the packages of the transaction, the cache yields the same as these.
LEMMA FoundRight ==
    ASSUME CacheFits(cache), upd.packages \in Stored, InFrontOf(cache, upd.packages),
           NEW n, NEW found \in Retrieved(n)
    PROVE  upd.packages[found.id] = found.pkg /\ found.pkg.name = n
  <1>1. CASE ByName(cache, n) # {}
    <2>1. PICK i \in ByName(cache, n) : found = [id |-> cache[i].id, pkg |-> cache[i].pkg]
      BY <1>1 DEF Retrieved
    <2> QED BY <2>1 DEF ByName, InFrontOf
  <1>2. CASE ByName(cache, n) = {}
    <2>1. PICK i \in IdsByName(upd.packages, n) : found = [id |-> i, pkg |-> upd.packages[i]]
      BY <1>2 DEF Retrieved
    <2> QED BY <2>1 DEF IdsByName
  <1> QED BY <1>1, <1>2

LEMMA NothingFound ==
    ASSUME NEW n, Retrieved(n) = {}
    PROVE  ByName(cache, n) = {} /\ IdsByName(upd.packages, n) = {}
  <1>1. ByName(cache, n) = {} BY DEF Retrieved
  <1> QED BY <1>1 DEF Retrieved

LEMMA CachedFound ==
    ASSUME CacheFits(cache), NEW n, NEW found \in Retrieved(n), ByName(cache, n) # {}
    PROVE  /\ 1 \in DOMAIN Touched(n) /\ Touched(n)[1].id = found.id
           /\ Touched(n)[1].name = n /\ found.id # 0
  <1>1. PICK i \in ByName(cache, n) : found = [id |-> cache[i].id, pkg |-> cache[i].pkg]
    BY DEF Retrieved
  <1>2. 1 \in DOMAIN Touched(n) /\ Touched(n)[1] = cache[i] BY TouchedFits
  <1> QED BY <1>1, <1>2 DEF ByName

-----------------------------------------------------------------------------
(* Storing a package *)

\* The writer after a package p has replaced old under an id.
Noted(id, p, old, handled) ==
    [pc |-> upd.pc, clear |-> upd.clear,
     packages |-> [upd.packages EXCEPT ![id] = p], handled |-> handled,
     names |-> upd.names \cup {p.name}, added |-> upd.added \cup LinksOf(id, p),
     removed |-> upd.removed \cup IF upd.clear \/ old = NoPackage THEN {} ELSE LinksOf(id, old),
     fresh |-> upd.fresh]

LEMMA NotedRecord ==
    ASSUME WriterType, Writing, NEW id, NEW p, NEW old, NEW u
    PROVE  /\ u = [upd EXCEPT !.packages[id] = p]
                 => Affected(u, id, p, old) = Noted(id, p, old, upd.handled)
           /\ u = [upd EXCEPT !.packages[id] = p, !.handled = @ \cup {id}]
                 => Affected(u, id, p, old) = Noted(id, p, old, upd.handled \cup {id})
  <1>0. upd = [pc |-> upd.pc, clear |-> upd.clear, packages |-> upd.packages,
               handled |-> upd.handled, names |-> upd.names, added |-> upd.added,
               removed |-> upd.removed, fresh |-> upd.fresh]
    BY DEF WriterType
  <1> DEFINE pc == upd.pc
             clear == upd.clear
             ps == upd.packages
             before == upd.handled
             names == upd.names
             added == upd.added
             removed == upd.removed
             fresh == upd.fresh
  <1>1. upd = [pc |-> pc, clear |-> clear, packages |-> ps, handled |-> before,
               names |-> names, added |-> added, removed |-> removed, fresh |-> fresh]
    BY <1>0
  <1>2. /\ upd.pc = pc /\ upd.clear = clear /\ upd.packages = ps /\ upd.handled = before
        /\ upd.names = names /\ upd.added = added /\ upd.removed = removed /\ upd.fresh = fresh
    OBVIOUS
  <1> HIDE DEF pc, clear, ps, before, names, added, removed, fresh
  <1> DEFINE after == [ps EXCEPT ![id] = p]
             u1 == [upd EXCEPT !.packages[id] = p]
             both == before \cup {id}
  <1>3. u1 = [pc |-> pc, clear |-> clear, packages |-> after, handled |-> before,
              names |-> names, added |-> added, removed |-> removed, fresh |-> fresh]
    BY <1>1
  <1>4. [upd EXCEPT !.packages[id] = p, !.handled = @ \cup {id}] = [u1 EXCEPT !.handled = both]
    BY <1>2
  <1> HIDE DEF u1, both, after
  <1>5. [u1 EXCEPT !.handled = both]
           = [pc |-> pc, clear |-> clear, packages |-> after, handled |-> both,
              names |-> names, added |-> added, removed |-> removed, fresh |-> fresh]
    BY <1>3
  <1>6. ASSUME NEW h, u = [pc |-> pc, clear |-> clear, packages |-> after, handled |-> h,
                           names |-> names, added |-> added, removed |-> removed, fresh |-> fresh]
        PROVE  Affected(u, id, p, old) =
              [pc |-> pc, clear |-> clear, packages |-> after, handled |-> h,
               names |-> names \cup {p.name}, added |-> added \cup LinksOf(id, p),
               removed |-> removed \cup IF clear \/ old = NoPackage THEN {} ELSE LinksOf(id, old),
               fresh |-> fresh]
    <2> DEFINE names2 == names \cup {p.name}
               added2 == added \cup LinksOf(id, p)
               removed2 == removed \cup IF clear \/ old = NoPackage THEN {} ELSE LinksOf(id, old)
               w1 == [u EXCEPT !.names = names2]
               w2 == [w1 EXCEPT !.added = added2]
               w3 == [w2 EXCEPT !.removed = removed2]
    <2> USE <1>6
    <2>1. /\ u.names = names /\ u.added = added /\ u.removed = removed /\ u.clear = clear
      OBVIOUS
    <2>2. Affected(u, id, p, old) = w3 BY <2>1 DEF Affected
    <2> HIDE DEF names2, added2, removed2
    <2>3. w1 = [pc |-> pc, clear |-> clear, packages |-> after, handled |-> h,
                names |-> names2, added |-> added, removed |-> removed, fresh |-> fresh]
      OBVIOUS
    <2> HIDE DEF w1
    <2>4. w2 = [pc |-> pc, clear |-> clear, packages |-> after, handled |-> h,
                names |-> names2, added |-> added2, removed |-> removed, fresh |-> fresh]
      BY <2>3
    <2> HIDE DEF w2
    <2>5. w3 = [pc |-> pc, clear |-> clear, packages |-> after, handled |-> h,
                names |-> names2, added |-> added2, removed |-> removed2, fresh |-> fresh]
      BY <2>4
    <2> HIDE DEF w3
    <2> QED BY <2>2, <2>5 DEF names2, added2, removed2
  <1>7. ASSUME u = [upd EXCEPT !.packages[id] = p]
        PROVE  Affected(u, id, p, old) = Noted(id, p, old, upd.handled)
    <2>1. u = u1 BY <1>7 DEF u1
    <2>2. u = [pc |-> pc, clear |-> clear, packages |-> after, handled |-> before,
               names |-> names, added |-> added, removed |-> removed, fresh |-> fresh]
      BY <1>3, <2>1
    <2>3. Affected(u, id, p, old) =
              [pc |-> pc, clear |-> clear, packages |-> after, handled |-> before,
               names |-> names \cup {p.name}, added |-> added \cup LinksOf(id, p),
               removed |-> removed \cup IF clear \/ old = NoPackage THEN {} ELSE LinksOf(id, old),
               fresh |-> fresh]
      BY <2>2, <1>6
    <2> QED BY <1>2, <2>3 DEF Noted, after
  <1>8. ASSUME u = [upd EXCEPT !.packages[id] = p, !.handled = @ \cup {id}]
        PROVE  Affected(u, id, p, old) = Noted(id, p, old, upd.handled \cup {id})
    <2>1. u = [u1 EXCEPT !.handled = both] BY <1>4, <1>8
    <2>2. u = [pc |-> pc, clear |-> clear, packages |-> after, handled |-> both,
               names |-> names, added |-> added, removed |-> removed, fresh |-> fresh]
      BY <1>5, <2>1
    <2>3. Affected(u, id, p, old) =
              [pc |-> pc, clear |-> clear, packages |-> after, handled |-> both,
               names |-> names \cup {p.name}, added |-> added \cup LinksOf(id, p),
               removed |-> removed \cup IF clear \/ old = NoPackage THEN {} ELSE LinksOf(id, old),
               fresh |-> fresh]
      BY <2>2, <1>6
    <2> QED BY <1>2, <2>3 DEF Noted, after, both
  <1> QED BY <1>7, <1>8

\* A package p replaces old, which is NoPackage or was found, under an id.
Notes(id, p, old, handled) ==
    /\ id \in Ids /\ p \in Package
    /\ upd' = Noted(id, p, old, handled)
    /\ CacheFits(cache')
    /\ UNCHANGED <<packages, keys, links, readers, damaged>>
    /\ InFrontOf(cache, upd.packages) =>
          /\ InFrontOf(cache', [upd.packages EXCEPT ![id] = p])
          /\ old = upd.packages[id]
          /\ old # NoPackage => old.name = p.name
          /\ old = NoPackage => IdsByName(upd.packages, p.name) = {}
          /\ p.name \notin upd.names

LEMMA StoreNotes ==
    ASSUME Types, NEW n, NEW v, <<n, v>> \in DOMAIN Provides, Store(n, v)
    PROVE  \E id, p, old : Notes(id, p, old, upd.handled \cup {id}) /\ p.name = n
  <1>1. /\ CacheFits(cache) /\ upd.packages \in Stored /\ WriterType /\ Writing
        /\ n \notin upd.names /\ n \in Names /\ v \in Versions
    BY VersionsAssumption DEF Types, Store, Writing, WriterType
  <1>2. PICK found \in IF Retrieved(n) = {} THEN {[id |-> 0, pkg |-> NoPackage]} ELSE Retrieved(n) :
         LET id == IF found.id = 0 THEN NewId(upd.packages) ELSE found.id
             p  == TakeOver([name |-> n, version |-> v, contents |-> FALSE],
                            found.pkg)
         IN  /\ id <= MaxId
             /\ upd' = Affected([upd EXCEPT !.packages[id] = p,
                                            !.handled = @ \cup {id}],
                                id, p, found.pkg)
             /\ cache' = IF ByName(cache, n) # {}
                         THEN [Touched(n) EXCEPT ![1].pkg = p]
                         ELSE CacheStored(cache, id, p)
    BY DEF Store
  <1> DEFINE id == IF found.id = 0 THEN NewId(upd.packages) ELSE found.id
             p  == TakeOver([name |-> n, version |-> v, contents |-> FALSE], found.pkg)
             old == found.pkg
             u == [upd EXCEPT !.packages[id] = p, !.handled = @ \cup {id}]
             after == [upd.packages EXCEPT ![id] = p]
  <1>3. /\ id <= MaxId
        /\ upd' = Affected(u, id, p, old)
        /\ cache' = IF ByName(cache, n) # {} THEN [Touched(n) EXCEPT ![1].pkg = p]
                                             ELSE CacheStored(cache, id, p)
    BY <1>2
  <1>4. UNCHANGED <<packages, keys, links, readers, damaged>> BY DEF Store
  <1>5. p \in Package /\ p.name = n
    <2> DEFINE q == [name |-> n, version |-> v, contents |-> FALSE]
    <2>1. q \in Package /\ q.name = n BY <1>1 DEF Package
    <2>2. [q EXCEPT !.contents = TRUE] \in Package /\ [q EXCEPT !.contents = TRUE].name = n
      BY <1>1 DEF Package
    <2> HIDE DEF q
    <2>3. TakeOver(q, old) \in Package /\ TakeOver(q, old).name = n BY <2>1, <2>2 DEF TakeOver
    <2> QED BY <2>3 DEF q
  <1> HIDE DEF p
  <1>6. CASE Retrieved(n) = {}
    <2>1. found.id = 0 /\ old = NoPackage BY <1>2, <1>6
    <2>2. id \in Ids /\ id \notin Used(upd.packages) /\ upd.packages[id] = NoPackage
      BY <1>3, <2>1, NewIdFacts
    <2>3. ByName(cache, n) = {} /\ IdsByName(upd.packages, n) = {} BY <1>6, NothingFound
    <2> QED
      <3>1. cache' = CacheStored(cache, id, p) BY <1>3, <2>3
      <3> HIDE DEF id, old
      <3>2. CacheFits(cache') BY <1>1, <1>5, <2>2, <3>1, StoredFits
      <3>3. ASSUME InFrontOf(cache, upd.packages) PROVE InFrontOf(cache', after)
        <4>1. \A j \in ById(cache, id) : cache[j].name = p.name
          <5>1. ASSUME NEW j \in ById(cache, id) PROVE FALSE
            <6>1. j \in DOMAIN cache /\ cache[j].id = id BY <5>1 DEF ById
            <6>2. id # 0 BY <2>2 DEF Ids
            <6>3. cache[j] \in Entry BY <1>1, <6>1 DEF CacheFits, Entry
            <6>4. cache[j].pkg \in Package BY <6>1, <6>2, <6>3, EntryFacts
            <6> QED BY <2>2, <3>3, <6>1, <6>2, <6>4, NoPackageFacts DEF InFrontOf
          <5> QED BY <5>1
        <4>2. \A j \in ByName(cache, p.name) : cache[j].id = id BY <1>5, <2>3
        <4>3. after[id] = p /\ \A i \in Ids \ {id} : after[i] = upd.packages[i]
          BY <1>1, <2>2 DEF Stored
        <4> HIDE DEF after
        <4>9. InFrontOf(CacheStored(cache, id, p), after)
          <5>1. CacheFits(cache) /\ id \in Ids /\ p \in Package BY <1>1, <1>5, <2>2
          <5>2. \A ps, qs :
                   /\ InFrontOf(cache, ps)
                   /\ \A j \in ById(cache, id) : cache[j].name = p.name
                   /\ \A j \in ByName(cache, p.name) : cache[j].id = id
                   /\ qs[id] = p
                   /\ \A i \in Ids \ {id} : qs[i] = ps[i]
                   => InFrontOf(CacheStored(cache, id, p), qs)
            BY <5>1, StoredFits
          <5> QED BY <3>3, <4>1, <4>2, <4>3, <5>2
        <4> QED BY <3>1, <4>9
      <3>4. upd' = Noted(id, p, old, upd.handled \cup {id})
        <4> HIDE DEF u
        <4>1. u = [upd EXCEPT !.packages[id] = p, !.handled = @ \cup {id}] BY DEF u
        <4> QED BY <1>1, <1>3, <4>1, NotedRecord
      <3>5. Notes(id, p, old, upd.handled \cup {id})
        <4> HIDE DEF after
        <4>1. after = [upd.packages EXCEPT ![id] = p] BY DEF after
        <4> QED BY <1>1, <1>4, <1>5, <2>1, <2>2, <2>3, <3>2, <3>3, <3>4, <4>1 DEF Notes
      <3> QED BY <1>5, <3>5
  <1>7. CASE Retrieved(n) # {}
    <2>1. found \in Retrieved(n) BY <1>2, <1>7
    <2>2. found.id \in Ids /\ old \in Package BY <1>1, <2>1, FoundType
    <2>3. id = found.id /\ id \in Ids BY <2>2 DEF Ids
    <2>4. old # NoPackage BY <2>2, NoPackageFacts
    <2> HIDE DEF id, old
    <2>5. InFrontOf(cache, upd.packages) => upd.packages[id] = old /\ old.name = n
      BY <1>1, <2>1, <2>3, FoundRight DEF old
    <2>6. after[id] = p /\ \A i \in Ids \ {id} : after[i] = upd.packages[i]
      BY <1>1, <2>3 DEF Stored
    <2>7. CacheFits(cache') /\ (InFrontOf(cache, upd.packages) => InFrontOf(cache', after))
      <3>1. CASE ByName(cache, n) # {}
        <4> DEFINE t == Touched(n)
                   d == [t EXCEPT ![1].pkg = p]
        <4>1. CacheFits(t) /\ (InFrontOf(cache, upd.packages) => InFrontOf(t, upd.packages))
          BY <1>1, TouchedFits
        <4>2. 1 \in DOMAIN t /\ t[1].id = id /\ t[1].name = n /\ t[1].id # 0
          BY <1>1, <2>1, <2>3, <3>1, CachedFound
        <4>3. cache' = d BY <1>3, <3>1
        <4> HIDE DEF t
        <4>4. /\ CacheFits(d) /\ DOMAIN d = DOMAIN t
              /\ d[1].id = t[1].id /\ d[1].name = t[1].name /\ d[1].pkg = p
              /\ \A k \in DOMAIN t : k # 1 => d[k] = t[k]
          BY <1>5, <4>1, <4>2, FrontReplaced
        <4> HIDE DEF d, after
        <4>5. ASSUME InFrontOf(t, upd.packages) PROVE InFrontOf(d, after)
          <5> SUFFICES ASSUME NEW k \in DOMAIN d, d[k].id # 0
                       PROVE  after[d[k].id] = d[k].pkg /\ d[k].name = d[k].pkg.name
            BY DEF InFrontOf
          <5>1. CASE k = 1 BY <1>5, <2>6, <4>2, <4>4, <5>1
          <5>2. CASE k # 1
            <6>1. d[k] = t[k] /\ t[k].id # id BY <4>1, <4>2, <4>4, <5>2 DEF CacheFits
            <6>2. t[k] \in Entry BY <4>1, <4>4 DEF CacheFits, Entry
            <6>3. t[k].id \in Ids BY <6>1, <6>2, EntryFacts
            <6> QED BY <2>6, <4>4, <4>5, <6>1, <6>3 DEF InFrontOf
          <5> QED BY <5>1, <5>2
        <4> QED BY <4>1, <4>3, <4>4, <4>5
      <3>2. CASE ByName(cache, n) = {}
        <4>1. cache' = CacheStored(cache, id, p) BY <1>3, <3>2 DEF id
        <4>2. CacheFits(cache') BY <1>1, <1>5, <2>3, <4>1, StoredFits
        <4>3. ASSUME InFrontOf(cache, upd.packages) PROVE InFrontOf(cache', after)
          <5>1. \A j \in ById(cache, id) : cache[j].name = p.name
            <6> TAKE j \in ById(cache, id)
            <6>1. j \in DOMAIN cache /\ cache[j].id = id /\ id # 0 BY <2>3 DEF ById, Ids
            <6> QED BY <1>5, <2>5, <4>3, <6>1 DEF InFrontOf
          <5>2. \A j \in ByName(cache, p.name) : cache[j].id = id BY <1>5, <3>2
          <5> HIDE DEF after
          <5>9. InFrontOf(CacheStored(cache, id, p), after)
            <6>1. CacheFits(cache) /\ id \in Ids /\ p \in Package BY <1>1, <1>5, <2>3
            <6>2. \A ps, qs :
                     /\ InFrontOf(cache, ps)
                     /\ \A j \in ById(cache, id) : cache[j].name = p.name
                     /\ \A j \in ByName(cache, p.name) : cache[j].id = id
                     /\ qs[id] = p
                     /\ \A i \in Ids \ {id} : qs[i] = ps[i]
                     => InFrontOf(CacheStored(cache, id, p), qs)
              BY <6>1, StoredFits
            <6> QED BY <2>6, <4>3, <5>1, <5>2, <6>2
          <5> QED BY <4>1, <5>9
        <4> QED BY <4>2, <4>3
      <3> QED BY <3>1, <3>2
    <2>8. upd' = Noted(id, p, old, upd.handled \cup {id})
      <3>1. upd' = Affected(u, id, p, old) BY <1>3 DEF id, old
      <3> HIDE DEF u
      <3>2. u = [upd EXCEPT !.packages[id] = p, !.handled = @ \cup {id}] BY DEF u
      <3> QED BY <1>1, <3>1, <3>2, NotedRecord
    <2>9. Notes(id, p, old, upd.handled \cup {id})
      <3> HIDE DEF after
      <3>1. after = [upd.packages EXCEPT ![id] = p] BY DEF after
      <3> QED BY <1>1, <1>4, <1>5, <2>3, <2>4, <2>5, <2>7, <2>8, <3>1 DEF Notes
    <2> QED BY <1>5, <2>9
  <1> QED BY <1>6, <1>7

LEMMA AddContentsNotes ==
    ASSUME Types, NEW n, NEW v, AddContents(n, v)
    PROVE  \E id, p, old : Notes(id, p, old, upd.handled) /\ upd.pc = "updater" /\ ~upd.clear
  <1>1. /\ CacheFits(cache) /\ upd.packages \in Stored /\ WriterType /\ Writing
        /\ n \notin upd.names /\ upd.pc = "updater" /\ ~upd.clear
    BY DEF Types, AddContents, Writing, WriterType
  <1>2. PICK found \in Retrieved(n) :
         LET p == [found.pkg EXCEPT !.contents = TRUE]
         IN  /\ found.pkg.version = v
             /\ upd' = Affected([upd EXCEPT !.packages[found.id] = p],
                                found.id, p, found.pkg)
             /\ cache' = CacheStored(Touched(n), found.id, p)
    BY DEF AddContents
  <1> DEFINE id == found.id
             old == found.pkg
             p == [old EXCEPT !.contents = TRUE]
             u == [upd EXCEPT !.packages[id] = p]
             after == [upd.packages EXCEPT ![id] = p]
             t == Touched(n)
  <1>3. upd' = Affected(u, id, p, old) /\ cache' = CacheStored(t, id, p) BY <1>2
  <1>4. UNCHANGED <<packages, keys, links, readers, damaged>> BY DEF AddContents
  <1>5. id \in Ids /\ old \in Package BY <1>1, <1>2, FoundType
  <1>6. p \in Package /\ p.name = old.name BY <1>5 DEF Package
  <1>7. InFrontOf(cache, upd.packages) => upd.packages[id] = old /\ old.name = n
    BY <1>1, <1>2, FoundRight
  <1>8. CacheFits(t) /\ (InFrontOf(cache, upd.packages) => InFrontOf(t, upd.packages))
    BY <1>1, TouchedFits
  <1>9. ByName(cache, n) # {} =>
           /\ 1 \in DOMAIN Touched(n) /\ Touched(n)[1].id = found.id
           /\ Touched(n)[1].name = n /\ found.id # 0
    BY <1>1, <1>2, CachedFound
  <1>10. ByName(cache, n) = {} => t = cache BY <1>1, TouchedFits
  <1>11. upd' = Noted(id, p, old, upd.handled)
    <2>1. u = [upd EXCEPT !.packages[id] = p] BY DEF u
    <2> HIDE DEF u, p, id, old
    <2> QED BY <1>1, <1>3, <2>1, NotedRecord
  <1> HIDE DEF id, old, p, u, t
  <1>12. CacheFits(cache') BY <1>3, <1>5, <1>6, <1>8, StoredFits
  <1>13. after[id] = p /\ \A i \in Ids \ {id} : after[i] = upd.packages[i]
    BY <1>1, <1>5 DEF Stored
  <1>14. ASSUME InFrontOf(cache, upd.packages) PROVE InFrontOf(cache', after)
    <2> HIDE DEF after
    <2>1. InFrontOf(t, upd.packages) /\ p.name = n BY <1>6, <1>7, <1>8, <1>14
    <2>2. \A j \in ById(t, id) : t[j].name = p.name
      <3> TAKE j \in ById(t, id)
      <3>1. j \in DOMAIN t /\ t[j].id = id /\ id # 0 BY <1>5 DEF ById, Ids
      <3> QED BY <1>6, <1>7, <1>14, <2>1, <3>1 DEF InFrontOf
    <2>3. \A j \in ByName(t, p.name) : t[j].id = id
      <3> TAKE j \in ByName(t, p.name)
      <3>1. j \in DOMAIN t /\ t[j].id # 0 /\ t[j].name = n BY <2>1 DEF ByName
      <3>2. ByName(cache, n) # {} BY <1>10, <3>1 DEF ByName
      <3>3. 1 \in DOMAIN t /\ t[1].id = id /\ t[1].name = n /\ id # 0
        BY <1>9, <3>2 DEF t, id
      <3> QED BY <1>8, <3>1, <3>3 DEF CacheFits
    <2>4. InFrontOf(CacheStored(t, id, p), after)
      <3>1. \A ps, qs :
              /\ InFrontOf(t, ps)
              /\ \A j \in ById(t, id) : t[j].name = p.name
              /\ \A j \in ByName(t, p.name) : t[j].id = id
              /\ qs[id] = p
              /\ \A i \in Ids \ {id} : qs[i] = ps[i]
              => InFrontOf(CacheStored(t, id, p), qs)
        BY <1>5, <1>6, <1>8, StoredFits
      <3> QED BY <1>13, <2>1, <2>2, <2>3, <3>1
    <2> QED BY <1>3, <2>4
  <1>15. old # NoPackage BY <1>5, NoPackageFacts
  <1>16. Notes(id, p, old, upd.handled)
    <2>1. after = [upd.packages EXCEPT ![id] = p] BY DEF after
    <2> HIDE DEF after
    <2> QED BY <1>1, <1>4, <1>5, <1>6, <1>7, <1>11, <1>12, <1>14, <1>15, <2>1 DEF Notes
  <1> QED BY <1>1, <1>16

\* A writer notes down a package.
LEMMA NotesKeepsIInv ==
    ASSUME IInv, Writing, NEW id, NEW p, NEW old, NEW handled, Notes(id, p, old, handled),
           \/ handled = upd.handled \cup {id}
           \/ handled = upd.handled /\ upd.pc = "updater" /\ ~upd.clear,
           upd.pc = "single" => p.name \notin upd.names /\ Cardinality(upd.names) < 1
    PROVE  IInv'
  <1> DEFINE ps == upd.packages
             qs == [ps EXCEPT ![id] = p]
             n == p.name
             names == upd.names \cup {n}
             fresh == upd.fresh
             removed == upd.removed \cup IF upd.clear \/ old = NoPackage THEN {} ELSE LinksOf(id, old)
  <1>1. /\ id \in Ids /\ p \in Package /\ CacheFits(cache')
        /\ packages' = packages /\ keys' = keys /\ links' = links /\ readers' = readers
        /\ damaged' = damaged
    BY DEF Notes
  <1>2. /\ Types /\ CacheFollows /\ ClearingRight /\ UpdatingRight /\ SingleRight /\ CommittedRight
    BY DEF IInv
  <1>3. /\ ps \in Stored /\ packages \in Stored /\ upd.clear \in BOOLEAN /\ fresh \in BOOLEAN
        /\ upd.handled \subseteq Ids
    BY <1>2 DEF Types, WriterType
  <1>4. /\ upd'.pc = upd.pc /\ upd'.clear = upd.clear /\ upd'.packages = qs
        /\ upd'.handled = handled /\ upd'.names = names
        /\ upd'.added = upd.added \cup LinksOf(id, p)
        /\ upd'.removed = removed /\ upd'.fresh = fresh
        /\ upd' = [pc |-> upd.pc, clear |-> upd.clear, packages |-> qs, handled |-> handled,
                   names |-> names, added |-> upd.added \cup LinksOf(id, p),
                   removed |-> removed, fresh |-> fresh]
    BY DEF Notes, Noted
  <1>5. InFrontOf(cache, ps) =>
          /\ InFrontOf(cache', qs)
          /\ old = ps[id]
          /\ old # NoPackage => old.name = n
          /\ old = NoPackage => IdsByName(ps, n) = {}
          /\ n \notin upd.names
    BY DEF Notes
  <1>6. Writing' /\ upd.pc \in {"updater", "single"} BY <1>4 DEF Writing
  <1>7. qs \in Stored /\ qs[id] = p /\ \A i \in Ids : i # id => qs[i] = ps[i]
    BY <1>1, <1>3 DEF Stored
  <1> HIDE DEF qs, removed, names, n, fresh, ps
  <1>8. Used(qs) = Used(ps) \cup {id} BY <1>1, <1>7, NoPackageFacts DEF Used
  <1>9. Types'
    <2>1. WriterType' BY <1>1, <1>3, <1>4, <1>7 DEF WriterType
    <2>2. RemoverType' BY <1>4, <1>6 DEF RemoverType
    <2>3. packages' \in Stored /\ {Key(l) : l \in links'} \subseteq keys'
      BY <1>1, <1>2 DEF Types
    <2>4. /\ readers' \in [Readers -> {Idle} \cup [pc : {"open", "missed"}, id : Ids, pkg : Package]]
          /\ damaged' \in BOOLEAN
      BY <1>1, <1>2 DEF Types
    <2> QED BY <1>1, <1>6, <2>1, <2>2, <2>3, <2>4 DEF Types
  <1>10. fresh => InFrontOf(cache, ps) BY <1>2 DEF CacheFollows, fresh, ps
  <1>11. ~damaged => fresh BY <1>2, <1>6 DEF CacheFollows, fresh
  <1>12. CacheFollows' BY <1>1, <1>4, <1>5, <1>6, <1>10, <1>11 DEF CacheFollows
  \* A fresh writer has no other package with the name and has not handled the id yet.
  <1>13. ASSUME fresh, OncePerName(ps, Used(ps))
         PROVE  /\ \A i \in Used(ps) : ps[i].name = n => i = id
                /\ OncePerName(qs, Used(qs))
    <2>1. ASSUME NEW i \in Used(ps), ps[i].name = n PROVE i = id
      <3>1. i \in IdsByName(ps, n) BY <2>1 DEF IdsByName
      <3>2. old # NoPackage /\ old = ps[id] /\ old.name = n BY <1>5, <1>10, <1>13, <3>1
      <3>3. id \in Used(ps) BY <1>1, <3>2 DEF Used
      <3> QED BY <1>13, <2>1, <3>2, <3>3 DEF OncePerName
    <2>2. \A i \in Used(qs) : i \in Ids BY DEF Used
    <2>3. OncePerName(qs, Used(qs))
      <3> SUFFICES ASSUME NEW i \in Used(qs), NEW j \in Used(qs), qs[i].name = qs[j].name
                   PROVE  i = j
        BY DEF OncePerName
      <3>1. CASE i = id BY <1>7, <1>8, <2>1, <2>2, <3>1 DEF n
      <3>2. CASE j = id BY <1>7, <1>8, <2>1, <2>2, <3>2 DEF n
      <3>3. CASE i # id /\ j # id BY <1>7, <1>8, <1>13, <2>2, <3>3 DEF OncePerName
      <3> QED BY <3>1, <3>2, <3>3
    <2> QED BY <2>1, <2>3
  <1>14. ClearingRight'
    <2> SUFFICES ASSUME upd.pc = "updater", upd.clear, fresh
                 PROVE  /\ handled \subseteq Used(qs)
                        /\ OncePerName(qs, handled)
                        /\ names = {qs[i].name : i \in handled}
                        /\ upd.added \cup LinksOf(id, p) = AllLinks(qs, handled)
                        /\ removed = {}
      BY <1>4 DEF ClearingRight
    <2>1. /\ upd.handled \subseteq Used(ps) /\ OncePerName(ps, upd.handled)
          /\ upd.names = {ps[i].name : i \in upd.handled}
          /\ upd.added = AllLinks(ps, upd.handled) /\ upd.removed = {}
      BY <1>2 DEF ClearingRight, fresh, ps
    <2>2. handled = upd.handled \cup {id} OBVIOUS
    <2>3. \A i \in upd.handled : i # id
      <3> SUFFICES ASSUME id \in upd.handled PROVE FALSE OBVIOUS
      <3>1. ps[id].name \in upd.names /\ ps[id] # NoPackage BY <2>1 DEF Used
      <3> QED BY <1>5, <1>10, <3>1
    <2>4. \A i \in upd.handled : qs[i] = ps[i] BY <1>3, <1>7, <2>3
    <2>5. handled \subseteq Used(qs) BY <1>8, <2>1, <2>2
    <2>6. \A i \in upd.handled : qs[i].name # n
      <3>1. n \notin upd.names BY <1>5, <1>10
      <3> QED BY <2>1, <2>4, <3>1
    <2>7. OncePerName(qs, handled)
      <3> SUFFICES ASSUME NEW i \in handled, NEW j \in handled, qs[i].name = qs[j].name
                   PROVE  i = j
        BY DEF OncePerName
      <3>1. qs[id].name = n BY <1>7 DEF n
      <3>2. CASE i = id BY <2>2, <2>6, <3>1, <3>2
      <3>3. CASE j = id BY <2>2, <2>6, <3>1, <3>3
      <3>4. CASE i # id /\ j # id BY <2>1, <2>2, <2>4, <3>4 DEF OncePerName
      <3> QED BY <3>2, <3>3, <3>4
    <2>8. names = {qs[i].name : i \in handled}
      <3>1. qs[id].name = n BY <1>7 DEF n
      <3> QED BY <2>1, <2>2, <2>4, <3>1 DEF names
    <2>9. upd.added \cup LinksOf(id, p) = AllLinks(qs, handled)
      BY <1>7, <2>1, <2>2, <2>4 DEF AllLinks
    <2>10. removed = {} BY <2>1 DEF removed
    <2> QED BY <2>5, <2>7, <2>8, <2>9, <2>10
  <1>15. UpdatingRight'
    <2> SUFFICES ASSUME upd.pc = "updater", ~upd.clear, ~damaged
                 PROVE  /\ \A i \in Ids :
                              \/ qs[i] = packages[i]
                              \/ /\ i \in IdsNamed(qs, names)
                                 /\ i \in Used(packages) => packages[i].name = qs[i].name
                        /\ OncePerName(qs, Used(qs))
                        /\ upd.added \cup LinksOf(id, p) = AllLinks(qs, IdsNamed(qs, names))
                        /\ removed = AllLinks(packages, IdsNamed(packages, names))
      BY <1>1, <1>4 DEF UpdatingRight
    <2>1. /\ \A i \in Ids :
                \/ ps[i] = packages[i]
                \/ /\ i \in IdsNamed(ps, upd.names)
                   /\ i \in Used(packages) => packages[i].name = ps[i].name
          /\ OncePerName(ps, Used(ps))
          /\ upd.added = AllLinks(ps, IdsNamed(ps, upd.names))
          /\ upd.removed = AllLinks(packages, IdsNamed(packages, upd.names))
      BY <1>2 DEF UpdatingRight, ps
    <2>2. /\ old = ps[id] /\ (old # NoPackage => old.name = n) /\ n \notin upd.names
      BY <1>5, <1>10, <1>11
    <2>3. /\ \A i \in Used(ps) : ps[i].name = n => i = id
          /\ OncePerName(qs, Used(qs))
      BY <1>11, <1>13, <2>1
    <2>4. id \notin IdsNamed(ps, upd.names) BY <2>2 DEF IdsNamed, Used
    <2>5. ps[id] = packages[id] BY <1>1, <2>1, <2>4
    <2>6. id \in IdsNamed(qs, names) BY <1>7, <1>8 DEF IdsNamed, names, n
    <2>7. \A i \in Ids : i # id => (i \in IdsNamed(qs, names) <=> i \in IdsNamed(ps, upd.names))
      BY <1>7, <1>8, <2>3 DEF IdsNamed, names
    <2>8. ASSUME NEW i \in Ids
          PROVE  \/ qs[i] = packages[i]
                 \/ /\ i \in IdsNamed(qs, names)
                    /\ i \in Used(packages) => packages[i].name = qs[i].name
      <3>1. CASE i = id
        <4>1. i \in Used(packages) => packages[i].name = n BY <2>2, <2>5, <3>1 DEF Used
        <4> QED BY <1>7, <2>6, <3>1, <4>1 DEF n
      <3>2. CASE i # id BY <1>7, <2>1, <2>7, <3>2
      <3> QED BY <3>1, <3>2
    <2>9. upd.added \cup LinksOf(id, p) = AllLinks(qs, IdsNamed(qs, names))
      <3>1. IdsNamed(qs, names) = IdsNamed(ps, upd.names) \cup {id}
        BY <1>1, <2>6, <2>7 DEF IdsNamed, Used
      <3>2. \A i \in IdsNamed(ps, upd.names) : qs[i] = ps[i]
        BY <1>7, <2>4 DEF IdsNamed, Used
      <3> QED BY <1>7, <2>1, <3>1, <3>2 DEF AllLinks
    <2>10. removed = AllLinks(packages, IdsNamed(packages, names))
      <3>1. ASSUME NEW i \in Used(packages), packages[i].name = n PROVE i = id
        <4>1. i \in Ids BY DEF Used
        <4>2. CASE ps[i] = packages[i]
          <5>1. i \in Used(ps) BY <4>1, <4>2 DEF Used
          <5> QED BY <2>3, <3>1, <4>2, <5>1
        <4>3. CASE ps[i] # packages[i]
          <5>1. ps[i].name = n /\ i \in IdsNamed(ps, upd.names) BY <2>1, <3>1, <4>1, <4>3
          <5> QED BY <2>2, <5>1 DEF IdsNamed
        <4> QED BY <4>2, <4>3
      <3>2. CASE old = NoPackage
        <4>1. IdsNamed(packages, names) = IdsNamed(packages, upd.names)
          BY <2>2, <2>5, <3>1, <3>2 DEF IdsNamed, names, Used
        <4>2. removed = upd.removed BY <3>2 DEF removed
        <4> QED BY <2>1, <4>1, <4>2
      <3>3. CASE old # NoPackage
        <4>1. id \in Used(packages) /\ packages[id] = old /\ old.name = n
          BY <1>1, <2>2, <2>5, <3>3 DEF Used
        <4>2. IdsNamed(packages, names) = IdsNamed(packages, upd.names) \cup {id}
          BY <3>1, <4>1 DEF IdsNamed, names
        <4>3. removed = upd.removed \cup LinksOf(id, old) BY <3>3 DEF removed
        <4> QED BY <2>1, <4>1, <4>2, <4>3 DEF AllLinks
      <3> QED BY <3>2, <3>3
    <2> QED BY <2>3, <2>8, <2>9, <2>10
  <1>16. SingleRight'
    <2> SUFFICES ASSUME upd.pc = "single"
                 PROVE  /\ ~upd.clear
                        /\ \E i \in Used(qs) :
                             /\ handled = {i}
                             /\ names = {qs[i].name}
                             /\ \A j \in Ids \ {i} : qs[j] = packages[j]
                             /\ fresh => removed = AllLinks(packages, Used(packages) \cap {i})
                             /\ ~damaged => OncePerName(qs, Used(qs))
      BY <1>1, <1>4 DEF SingleRight
    <2>1. upd.names = {}
      <3> SUFFICES ASSUME upd.names # {} PROVE FALSE OBVIOUS
      <3>1. PICK i \in Used(ps) : upd.names = {ps[i].name} BY <1>2 DEF SingleRight, ps
      <3>2. Cardinality(upd.names) = 1 BY <3>1, FS_Singleton
      <3> QED BY <3>2
    <2>2. upd.handled = {} /\ ps = packages /\ upd.removed = {} /\ ~upd.clear
      BY <1>2, <2>1 DEF SingleRight, ps
    <2>3. id \in Used(qs) /\ handled = {id} /\ names = {qs[id].name}
      BY <1>7, <1>8, <2>1, <2>2 DEF names, n
    <2>4. \A j \in Ids \ {id} : qs[j] = packages[j] BY <1>7, <2>2
    <2>5. ASSUME fresh PROVE removed = AllLinks(packages, Used(packages) \cap {id})
      <3>1. old = packages[id] BY <1>5, <1>10, <2>2, <2>5
      <3>2. id \in Used(packages) <=> old # NoPackage BY <1>1, <3>1 DEF Used
      <3>3. CASE old = NoPackage BY <2>2, <3>2, <3>3 DEF removed, AllLinks
      <3>4. CASE old # NoPackage
        <4>1. Used(packages) \cap {id} = {id} BY <3>2, <3>4
        <4>2. AllLinks(packages, {id}) = LinksOf(id, packages[id]) BY DEF AllLinks
        <4> QED BY <2>2, <3>1, <3>4, <4>1, <4>2 DEF removed
      <3> QED BY <3>3, <3>4
    <2>6. ASSUME ~damaged PROVE OncePerName(qs, Used(qs))
      <3>1. OncePerName(ps, Used(ps)) BY <1>2, <2>2, <2>6 DEF CommittedRight
      <3> QED BY <1>11, <1>13, <2>6, <3>1
    <2> QED BY <2>2, <2>3, <2>4, <2>5, <2>6
  <1>17. CommittedRight'
    <2>1. upd.pc # "removing" /\ upd'.pc # "removing" BY <1>4, <1>6
    <2> QED BY <1>1, <1>2, <2>1 DEF CommittedRight
  <1> QED BY <1>9, <1>12, <1>14, <1>15, <1>16, <1>17 DEF IInv

LEMMA IdleFacts == Idle.pc = "idle"
  BY DEF Idle

LEMMA CoherentFacts == CacheCoherent <=> InFrontOf(cache, packages)
  BY DEF CacheCoherent, InFrontOf

-----------------------------------------------------------------------------
(* The other steps *)

\* A step which at most rearranges the cache, or any step of readers while nobody
\* writes.
LEMMA CacheStep ==
    ASSUME IInv, CacheFits(cache'),
           upd.pc = "idle" \/ \A ps : InFrontOf(cache, ps) => InFrontOf(cache', ps),
           readers' \in [Readers -> {Idle} \cup [pc : {"open", "missed"}, id : Ids, pkg : Package]],
           UNCHANGED <<packages, keys, links, upd, damaged>>
    PROVE  IInv'
  <1>1. Types' BY DEF IInv, Types, WriterType, RemoverType, Writing
  <1>2. CacheFollows'
    <2>1. CacheFollows BY DEF IInv
    <2>2. CASE upd.pc = "idle" BY <2>2 DEF CacheFollows, Writing
    <2>3. CASE \A ps : InFrontOf(cache, ps) => InFrontOf(cache', ps)
      <3>1. InFrontOf(cache, upd.packages) => InFrontOf(cache', upd.packages) BY <2>3
      <3>2. InFrontOf(cache, packages) => InFrontOf(cache', packages) BY <2>3
      <3> QED BY <2>1, <3>1, <3>2 DEF CacheFollows, Writing
    <2> QED BY <2>2, <2>3
  <1>3. ClearingRight' BY DEF IInv, ClearingRight
  <1>4. UpdatingRight' BY DEF IInv, UpdatingRight
  <1>5. SingleRight' BY DEF IInv, SingleRight
  <1>6. CommittedRight' BY DEF IInv, CommittedRight
  <1> QED BY <1>1, <1>2, <1>3, <1>4, <1>5, <1>6 DEF IInv

LEMMA OpenStep ==
    ASSUME IInv, NEW r \in Readers, NEW i \in Ids, Open(r, i)
    PROVE  IInv'
  <1>1. Types BY DEF IInv
  <1>2. packages[i] \in Package BY <1>1, UsedFacts DEF Open, Types, Used
  <1>3. [pc |-> "open", id |-> i, pkg |-> packages[i]]
           \in [pc : {"open", "missed"}, id : Ids, pkg : Package]
    BY <1>2
  <1>4. readers' \in [Readers -> {Idle} \cup [pc : {"open", "missed"}, id : Ids, pkg : Package]]
    BY <1>1, <1>3 DEF Open, Types
  <1>5. cache' = cache /\ UNCHANGED <<packages, keys, links, upd, damaged>> BY DEF Open
  <1>6. CacheFits(cache') BY <1>1, <1>5 DEF Types
  <1> QED BY <1>4, <1>5, <1>6, CacheStep

LEMMA ReaderFacts ==
    ASSUME Types, NEW r \in Readers, readers[r].pc # "idle"
    PROVE  readers[r] \in [pc : {"open", "missed"}, id : Ids, pkg : Package]
  BY IdleFacts DEF Types

LEMMA LookUpStep ==
    ASSUME IInv, NEW r \in Readers, LookUp(r)
    PROVE  IInv'
  <1>1. Types BY DEF IInv
  <1>2. readers[r] \in [pc : {"open", "missed"}, id : Ids, pkg : Package]
    BY <1>1, ReaderFacts DEF LookUp
  <1>3. UNCHANGED <<packages, keys, links, upd, damaged>> BY DEF LookUp
  <1>4. PICK hit \in {ById(cache, readers[r].id), ByName(cache, readers[r].pkg.name)} :
           IF hit = {}
           THEN /\ readers' = [readers EXCEPT ![r].pc = "missed"]
                /\ UNCHANGED cache
           ELSE /\ readers' = [readers EXCEPT ![r] = Idle]
                /\ cache' = MoveToFront(cache, CHOOSE i \in hit : TRUE)
    BY DEF LookUp
  <1>5. CASE hit = {}
    <2>1. [readers[r] EXCEPT !.pc = "missed"]
             \in [pc : {"open", "missed"}, id : Ids, pkg : Package]
      BY <1>2
    <2>2. readers' \in [Readers -> {Idle} \cup [pc : {"open", "missed"}, id : Ids, pkg : Package]]
      BY <1>1, <1>4, <1>5, <2>1 DEF Types
    <2>3. CacheFits(cache') /\ cache' = cache BY <1>1, <1>4, <1>5 DEF Types
    <2> QED BY <1>3, <2>2, <2>3, CacheStep
  <1>6. CASE hit # {}
    <2> DEFINE i == CHOOSE i \in hit : TRUE
    <2>1. i \in hit BY <1>6
    <2>2. i \in DOMAIN cache BY <2>1 DEF ById, ByName
    <2>3. cache' = MoveToFront(cache, i) /\ readers' = [readers EXCEPT ![r] = Idle]
      BY <1>4, <1>6
    <2> HIDE DEF i
    <2>4. CacheFits(cache') /\ \A ps : InFrontOf(cache, ps) => InFrontOf(cache', ps)
      BY <1>1, <2>2, <2>3, MoveFits DEF Types
    <2>5. readers' \in [Readers -> {Idle} \cup [pc : {"open", "missed"}, id : Ids, pkg : Package]]
      BY <1>1, <2>3 DEF Types
    <2> QED BY <1>3, <2>4, <2>5, CacheStep
  <1> QED BY <1>5, <1>6

LEMMA PopulateStep ==
    ASSUME IInv, NEW r \in Readers, Populate(r)
    PROVE  IInv'
  <1>1. Types BY DEF IInv
  <1>2. readers[r] \in [pc : {"open", "missed"}, id : Ids, pkg : Package]
    BY <1>1, ReaderFacts DEF Populate
  <1>3. UNCHANGED <<packages, keys, links, upd, damaged>> BY DEF Populate
  <1>4. readers' \in [Readers -> {Idle} \cup [pc : {"open", "missed"}, id : Ids, pkg : Package]]
    BY <1>1 DEF Types, Populate
  <1>5. CASE upd.pc = "idle"
    <2> DEFINE e == [id |-> readers[r].id, pkg |-> readers[r].pkg, name |-> readers[r].pkg.name]
    <2>1. e \in Entry BY <1>2 DEF Entry, CacheEntry, Package
    <2>2. cache' = CacheInsert(cache, e) BY <1>5 DEF Populate, MayPopulate
    <2> HIDE DEF e
    <2>3. CacheFits(cache') BY <1>1, <2>1, <2>2, InsertFits DEF Types
    <2> QED BY <1>3, <1>4, <1>5, <2>3, CacheStep
  <1>6. CASE upd.pc # "idle"
    <2>1. cache' = cache BY <1>6 DEF Populate, MayPopulate
    <2>2. CacheFits(cache') BY <1>1, <2>1 DEF Types
    <2> QED BY <1>3, <1>4, <2>1, <2>2, CacheStep
  <1> QED BY <1>5, <1>6

LEMMA OtherDatabaseStep ==
    ASSUME IInv, OtherDatabase
    PROVE  IInv'
  <1>1. Types BY DEF IInv
  <1>2. UNCHANGED <<packages, keys, links, upd, readers, damaged>> BY DEF OtherDatabase
  <1>3. readers' \in [Readers -> {Idle} \cup [pc : {"open", "missed"}, id : Ids, pkg : Package]]
    BY <1>1, <1>2 DEF Types
  <1> DEFINE d == CacheInsert(cache, ForeignEntry)
  <1>4. ForeignEntry \in Entry /\ ForeignEntry.id = 0 BY DEF Entry, ForeignEntry
  <1>5. cache' = d BY DEF OtherDatabase
  <1>6. /\ CacheFits(d) /\ d[1].id = 0
        /\ \A k \in DOMAIN d : k # 1 => \E j \in DOMAIN cache : d[k] = cache[j]
    <2>1. CacheFits(cache) BY <1>1 DEF Types
    <2> QED BY <1>4, <2>1, InsertFits
  <1> HIDE DEF d
  <1>7. ASSUME NEW ps, InFrontOf(cache, ps) PROVE InFrontOf(d, ps)
    BY <1>6, <1>7 DEF InFrontOf
  <1> QED BY <1>2, <1>3, <1>5, <1>6, <1>7, CacheStep

LEMMA BeginStep ==
    ASSUME IInv, NEW clear \in BOOLEAN, NEW pc \in {"updater", "single"}, Begin(pc, clear),
           UNCHANGED <<packages, keys, links, cache, readers>>,
           pc = "single" => ~clear
    PROVE  IInv'
  <1>1. Types /\ CommittedRight BY DEF IInv
  <1> DEFINE fresh == CacheCoherent
  <1>2. /\ upd.pc = "idle" /\ damaged' = (damaged \/ ~fresh)
        /\ upd' = [pc |-> pc, clear |-> clear, packages |-> packages,
                   handled |-> {}, names |-> {}, added |-> {}, removed |-> {}, fresh |-> fresh]
    BY DEF Begin
  <1>3. fresh \in BOOLEAN /\ (fresh <=> InFrontOf(cache, packages)) BY DEF CacheCoherent, InFrontOf
  <1> HIDE DEF fresh
  <1>4. /\ upd'.pc = pc /\ upd'.clear = clear /\ upd'.packages = packages
        /\ upd'.handled = {} /\ upd'.names = {} /\ upd'.added = {} /\ upd'.removed = {}
        /\ upd'.fresh = fresh
    BY <1>2
  <1>5. \A ps : AllLinks(ps, {}) = {} /\ IdsNamed(ps, {}) = {} BY DEF AllLinks, IdsNamed
  <1>6. OncePerName(packages, {}) BY DEF OncePerName
  <1>7. Types'
    <2>1. WriterType'
      <3>1. packages \in Stored BY <1>1 DEF Types
      <3> QED BY <1>2, <1>3, <1>4, <3>1 DEF WriterType
    <2>2. RemoverType' BY <1>4 DEF RemoverType
    <2> QED BY <1>1, <1>2, <1>3, <1>4, <2>1, <2>2 DEF Types, Writing
  <1>8. CacheFollows' BY <1>1, <1>2, <1>3, <1>4 DEF CacheFollows, Writing, Types
  <1>9. ClearingRight' BY <1>4, <1>5, <1>6 DEF ClearingRight
  <1>10. UpdatingRight' BY <1>1, <1>2, <1>3, <1>4, <1>5 DEF UpdatingRight, CommittedRight, Types
  <1>11. SingleRight' BY <1>4 DEF SingleRight
  <1>12. CommittedRight' BY <1>1, <1>2, <1>3, <1>4 DEF CommittedRight, Types
  <1> QED BY <1>7, <1>8, <1>9, <1>10, <1>11, <1>12 DEF IInv

\* A step after which nobody writes.
LEMMA EndStep ==
    ASSUME upd' = Idle, CommittedRight', packages' \in Stored,
           {Key(l) : l \in links'} \subseteq keys', CacheFits(cache'), damaged' \in BOOLEAN,
           readers' \in [Readers -> {Idle} \cup [pc : {"open", "missed"}, id : Ids, pkg : Package]]
    PROVE  IInv'
  <1>1. upd'.pc = "idle" /\ ~Writing' BY IdleFacts DEF Writing
  <1>2. Types' BY <1>1 DEF Types, WriterType, RemoverType
  <1>3. CacheFollows' /\ ClearingRight' /\ UpdatingRight' /\ SingleRight'
    BY <1>1 DEF CacheFollows, ClearingRight, UpdatingRight, SingleRight
  <1> QED BY <1>2, <1>3 DEF IInv

LEMMA AbortStep ==
    ASSUME IInv, Abort
    PROVE  IInv'
  <1>1. Types /\ CommittedRight BY DEF IInv
  <1>2. CommittedRight' BY <1>1, IdleFacts DEF CommittedRight, Abort
  <1> QED BY <1>1, <1>2, EndStep DEF Abort, Types

LEMMA ClearPackagesStep ==
    ASSUME IInv, ClearPackages
    PROVE  IInv'
  <1>1. Types BY DEF IInv
  <1>2. /\ upd.pc = "idle" /\ upd' = upd /\ readers' = readers /\ damaged' = FALSE
        /\ packages' = [i \in Ids |-> NoPackage] /\ keys' = {} /\ links' = {}
        /\ cache' = CacheErase(cache, Names)
    BY DEF ClearPackages
  <1>3. upd = Idle BY <1>1, <1>2 DEF Types, Writing
  <1>4. CacheFits(cache') BY <1>1, <1>2, ErasedFits DEF Types
  <1>5. packages' \in Stored /\ Used(packages') = {} BY <1>2 DEF Stored, Used
  <1>6. CommittedRight'
    BY <1>2, <1>3, <1>5, IdleFacts DEF CommittedRight, OncePerName, AllLinks
  <1>7. {Key(l) : l \in links'} \subseteq keys' BY <1>2
  <1> QED BY <1>1, <1>2, <1>3, <1>4, <1>5, <1>6, <1>7, EndStep DEF Types

LEMMA RestartStep ==
    ASSUME IInv, Restart
    PROVE  IInv'
  <1>1. Types /\ CommittedRight BY DEF IInv
  <1>2. /\ upd' = Idle /\ readers' = [r \in Readers |-> Idle]
        /\ damaged' = (damaged \/ upd.pc = "removing")
        /\ packages' = packages /\ keys' = keys /\ links' = links /\ cache' = <<>>
    BY DEF Restart
  <1>3. CacheFits(cache') BY <1>2, CacheLimitAssumption DEF CacheFits
  <1>4. CommittedRight' BY <1>1, <1>2, IdleFacts DEF CommittedRight
  <1>5. damaged' \in BOOLEAN BY <1>1, <1>2 DEF Types
  <1> QED BY <1>1, <1>2, <1>3, <1>4, <1>5, EndStep DEF Types

\* Deleting packages together with the cached entries of their names leaves nothing
\* stale behind.
LEMMA ErasedInFront ==
    ASSUME NEW c, CacheFits(c), NEW names, NEW ps, NEW qs, InFrontOf(c, ps),
           \A i \in Ids : qs[i] = ps[i] \/ (ps[i] \in Package => ps[i].name \in names)
    PROVE  InFrontOf(CacheErase(c, names), qs)
  <1> DEFINE d == CacheErase(c, names)
  <1> SUFFICES ASSUME NEW k \in DOMAIN d, d[k].id # 0
               PROVE  qs[d[k].id] = d[k].pkg /\ d[k].name = d[k].pkg.name
    BY DEF InFrontOf
  <1>1. PICK j \in DOMAIN c : d[k] = c[j] /\ (c[j].id = 0 \/ c[j].name \notin names)
    BY ErasedFits
  <1> HIDE DEF d
  <1>2. c[j] \in Entry BY DEF CacheFits, Entry
  <1>3. c[j].id \in Ids /\ c[j].pkg \in Package BY <1>1, <1>2, EntryFacts
  <1>4. ps[c[j].id] = c[j].pkg /\ c[j].name = c[j].pkg.name BY <1>1 DEF InFrontOf
  <1>5. qs[c[j].id] = ps[c[j].id] BY <1>1, <1>3, <1>4
  <1> QED BY <1>1, <1>4, <1>5

LEMMA CommitUpdaterStep ==
    ASSUME IInv, CommitUpdater
    PROVE  /\ IInv'
           /\ upd.fresh => CacheCoherent'
           /\ upd.clear /\ upd.fresh =>
                 /\ Used(packages') = upd.handled
                 /\ \A i \in upd.handled : packages'[i] = upd.packages[i]
  <1> DEFINE ps == upd.packages
             gone == Gone
             kept(s) == IF upd.clear THEN {} ELSE s
             goneNames == {ps[i].name : i \in gone}
  <1>1. /\ Types /\ CacheFollows /\ ClearingRight /\ UpdatingRight /\ CommittedRight
        /\ upd.pc = "updater" /\ Writing
    BY DEF IInv, CommitUpdater, Writing
  <1>2. /\ packages' = [i \in Ids |-> IF i \in gone THEN NoPackage ELSE ps[i]]
        /\ cache' = CacheErase(cache, goneNames)
        /\ links' = SubmittedLinks(kept(links))
        /\ keys' = kept(keys) \cup {Key(l) : l \in upd.added \cup upd.removed}
        /\ upd' = Idle
        /\ damaged' = IF upd.clear THEN ~upd.fresh ELSE damaged
        /\ readers' = readers
    BY DEF CommitUpdater
  <1>3. /\ ps \in Stored /\ packages \in Stored /\ upd.clear \in BOOLEAN /\ upd.fresh \in BOOLEAN
        /\ CacheFits(cache) /\ upd.handled \subseteq Ids /\ damaged \in BOOLEAN
        /\ {Key(l) : l \in links} \subseteq keys
    BY <1>1 DEF Types, WriterType
  <1>4. gone = IF upd.clear THEN Used(ps) \ upd.handled ELSE {} BY DEF Gone
  <1>5. links' = (kept(links) \ upd.removed) \cup upd.added BY <1>2 DEF SubmittedLinks
  <1> HIDE DEF gone, goneNames, ps
  <1>6. packages' \in Stored BY <1>2, <1>3 DEF Stored
  <1>7. CacheFits(cache') BY <1>2, <1>3, ErasedFits
  <1>8. {Key(l) : l \in links'} \subseteq keys'
    <2>1. {Key(l) : l \in kept(links)} \subseteq kept(keys) BY <1>3
    <2> HIDE DEF kept
    <2> QED BY <1>2, <1>5, <2>1
  <1>9. damaged' \in BOOLEAN BY <1>2, <1>3
  <1>10. readers' \in [Readers -> {Idle} \cup [pc : {"open", "missed"}, id : Ids, pkg : Package]]
    BY <1>1, <1>2 DEF Types
  <1>11. ASSUME upd.fresh PROVE CacheCoherent'
    <2>1. InFrontOf(cache, ps) BY <1>1, <1>11 DEF CacheFollows, ps
    <2>2. \A i \in Ids : packages'[i] = ps[i] \/ (ps[i] \in Package => ps[i].name \in goneNames)
      BY <1>2 DEF goneNames
    <2>3. \A qs : (\A i \in Ids : qs[i] = ps[i] \/ (ps[i] \in Package => ps[i].name \in goneNames))
                  => InFrontOf(CacheErase(cache, goneNames), qs)
      BY <1>3, <2>1, ErasedInFront
    <2>4. InFrontOf(cache', packages') BY <1>2, <2>2, <2>3
    <2> QED BY <2>4 DEF CacheCoherent, InFrontOf
  <1>12. ASSUME upd.clear, upd.fresh
         PROVE  /\ Used(packages') = upd.handled
                /\ \A i \in upd.handled : packages'[i] = ps[i]
    <2>1. upd.handled \subseteq Used(ps) BY <1>1, <1>12 DEF ClearingRight, ps
    <2>2. \A i \in upd.handled : i \in Ids /\ packages'[i] = ps[i]
      BY <1>2, <1>3, <1>4
    <2>3. Used(packages') = upd.handled BY <1>2, <1>4, <1>12, <2>1, <2>2 DEF Used
    <2> QED BY <2>2, <2>3
  <1>13. CommittedRight'
    <2> SUFFICES ASSUME ~damaged'
                 PROVE  /\ OncePerName(packages', Used(packages'))
                        /\ links' = AllLinks(packages', Used(packages'))
      BY <1>2, IdleFacts DEF CommittedRight
    <2>1. CASE upd.clear
      <3>1. upd.fresh BY <1>2, <1>3, <2>1
      <3>2. /\ Used(packages') = upd.handled
            /\ \A i \in upd.handled : packages'[i] = ps[i]
        BY <1>12, <2>1, <3>1
      <3>3. /\ OncePerName(ps, upd.handled) /\ upd.added = AllLinks(ps, upd.handled)
            /\ upd.removed = {}
        BY <1>1, <2>1, <3>1 DEF ClearingRight, ps
      <3>4. links' = AllLinks(ps, upd.handled) BY <1>5, <2>1, <3>3
      <3>5. AllLinks(packages', upd.handled) = AllLinks(ps, upd.handled)
        BY <3>2 DEF AllLinks
      <3>6. OncePerName(packages', upd.handled) BY <3>2, <3>3 DEF OncePerName
      <3> QED BY <3>2, <3>4, <3>5, <3>6
    <2>2. CASE ~upd.clear
      <3>1. ~damaged BY <1>2, <2>2
      <3>2. packages' = ps
        <4>1. packages' = [i \in Ids |-> ps[i]] BY <1>2, <1>4, <2>2
        <4> QED BY <1>3, <4>1 DEF Stored
      <3>3. /\ \A i \in Ids :
                  \/ ps[i] = packages[i]
                  \/ /\ i \in IdsNamed(ps, upd.names)
                     /\ i \in Used(packages) => packages[i].name = ps[i].name
            /\ OncePerName(ps, Used(ps))
            /\ upd.added = AllLinks(ps, IdsNamed(ps, upd.names))
            /\ upd.removed = AllLinks(packages, IdsNamed(packages, upd.names))
        BY <1>1, <2>2, <3>1 DEF UpdatingRight, ps
      <3>4. links = AllLinks(packages, Used(packages))
        BY <1>1, <3>1 DEF CommittedRight
      <3>5. links' = (links \ upd.removed) \cup upd.added BY <1>5, <2>2
      <3>6. ASSUME NEW l \in links' PROVE l \in AllLinks(ps, Used(ps))
        <4>1. CASE l \in upd.added
          <5>1. PICK i \in IdsNamed(ps, upd.names) : l \in LinksOf(i, ps[i])
            BY <3>3, <4>1 DEF AllLinks
          <5> QED BY <5>1 DEF AllLinks, IdsNamed
        <4>2. CASE l \in links /\ l \notin upd.removed
          <5>1. PICK i \in Used(packages) : l \in LinksOf(i, packages[i])
            BY <3>4, <4>2 DEF AllLinks
          <5>2. i \notin IdsNamed(packages, upd.names) BY <3>3, <4>2, <5>1 DEF AllLinks
          <5>3. ps[i] = packages[i] /\ i \in Ids BY <3>3, <5>2 DEF IdsNamed, Used
          <5>4. i \in Used(ps) BY <5>3 DEF Used
          <5> QED BY <5>1, <5>3, <5>4 DEF AllLinks
        <4> QED BY <3>5, <3>6, <4>1, <4>2
      <3>7. ASSUME NEW l \in AllLinks(ps, Used(ps)) PROVE l \in links'
        <4>1. PICK i \in Used(ps) : l \in LinksOf(i, ps[i]) BY <3>7 DEF AllLinks
        <4>2. CASE i \in IdsNamed(ps, upd.names) BY <3>3, <3>5, <4>1, <4>2 DEF AllLinks
        <4>3. CASE i \notin IdsNamed(ps, upd.names)
          <5>1. i \in Ids /\ ps[i] = packages[i] BY <3>3, <4>3 DEF Used
          <5>2. i \in Used(packages) /\ i \notin IdsNamed(packages, upd.names)
            BY <4>1, <4>3, <5>1 DEF Used, IdsNamed
          <5>3. l \in links BY <3>4, <4>1, <5>1, <5>2 DEF AllLinks
          <5>4. l \notin upd.removed
            <6> SUFFICES ASSUME l \in upd.removed PROVE FALSE OBVIOUS
            <6>1. PICK j \in IdsNamed(packages, upd.names) : l \in LinksOf(j, packages[j])
              BY <3>3 DEF AllLinks
            <6>2. l.id = j /\ l.id = i BY <4>1, <6>1, LinkId
            <6> QED BY <5>2, <6>1, <6>2
          <5> QED BY <3>5, <5>3, <5>4
        <4> QED BY <4>2, <4>3
      <3>8. links' = AllLinks(ps, Used(ps)) BY <3>6, <3>7
      <3> QED BY <3>2, <3>3, <3>8
    <2> QED BY <1>3, <2>1, <2>2
  <1>14. IInv' BY <1>2, <1>6, <1>7, <1>8, <1>9, <1>10, <1>13, EndStep
  <1> QED BY <1>11, <1>12, <1>14 DEF ps

LEMMA CommitUpdatePackageStep ==
    ASSUME IInv, CommitUpdatePackage
    PROVE  /\ IInv'
           /\ upd.fresh => CacheCoherent'
  <1> DEFINE ps == upd.packages
             id == CHOOSE i \in upd.handled : TRUE
             p == ps[id]
             hit == {<<l.index, l.name>> : l \in upd.removed}
             rest == {l \in links : ~(l.id = id /\ <<l.index, l.name>> \in hit)}
             left == {Key(l) : l \in rest}
  <1>1. /\ Types /\ CacheFollows /\ SingleRight /\ CommittedRight
        /\ upd.pc = "single" /\ Writing /\ upd.names # {}
    BY DEF IInv, CommitUpdatePackage, Writing
  <1>2. /\ links' = rest \cup LinksOf(id, p)
        /\ keys' = {k \in keys : <<k.index, k.name>> \in hit => k \in left}
                   \cup {Key(l) : l \in LinksOf(id, p)}
        /\ packages' = ps /\ upd' = Idle
        /\ cache' = cache /\ readers' = readers /\ damaged' = damaged
    BY DEF CommitUpdatePackage
  <1>3. /\ ps \in Stored /\ packages \in Stored /\ CacheFits(cache) /\ damaged \in BOOLEAN
        /\ {Key(l) : l \in links} \subseteq keys
    BY <1>1 DEF Types, WriterType
  <1>4. PICK i \in Used(ps) :
           /\ upd.handled = {i}
           /\ \A j \in Ids \ {i} : ps[j] = packages[j]
           /\ upd.fresh => upd.removed = AllLinks(packages, Used(packages) \cap {i})
           /\ ~damaged => OncePerName(ps, Used(ps))
    BY <1>1 DEF SingleRight, ps
  <1>5. id = i BY <1>4
  <1> HIDE DEF id, ps
  <1>6. {Key(l) : l \in links'} \subseteq keys'
    <2>1. ASSUME NEW l \in rest PROVE Key(l) \in keys'
      <3>1. Key(l) \in keys BY <1>3
      <3>2. Key(l) \in left OBVIOUS
      <3> QED BY <1>2, <3>1, <3>2
    <2>2. ASSUME NEW l \in LinksOf(id, p) PROVE Key(l) \in keys' BY <1>2
    <2> HIDE DEF rest, left, p
    <2> QED BY <1>2, <2>1, <2>2
  <1>7. CommittedRight'
    <2> SUFFICES ASSUME ~damaged
                 PROVE  /\ OncePerName(ps, Used(ps))
                        /\ links' = AllLinks(ps, Used(ps))
      BY <1>2, IdleFacts DEF CommittedRight
    <2>1. upd.fresh BY <1>1 DEF CacheFollows
    <2>2. upd.removed = AllLinks(packages, Used(packages) \cap {i}) BY <1>4, <2>1
    <2>3. links = AllLinks(packages, Used(packages)) BY <1>1 DEF CommittedRight
    <2>4. \A j \in Used(packages) : j # i => j \in Used(ps) /\ ps[j] = packages[j]
      BY <1>4 DEF Used
    <2>5. \A j \in Used(ps) : j # i => j \in Used(packages) /\ ps[j] = packages[j]
      BY <1>4 DEF Used
    <2>6. ASSUME NEW l \in links' PROVE l \in AllLinks(ps, Used(ps))
      <3>1. CASE l \in LinksOf(id, p) BY <1>5, <3>1 DEF AllLinks
      <3>2. CASE l \in rest
        <4>1. l \in links /\ ~(l.id = i /\ <<l.index, l.name>> \in hit) BY <1>5, <3>2
        <4> HIDE DEF rest
        <4>2. PICK j \in Used(packages) : l \in LinksOf(j, packages[j])
          BY <2>3, <4>1 DEF AllLinks
        <4>3. j # i
          <5> SUFFICES ASSUME j = i PROVE FALSE OBVIOUS
          <5>1. l.id = i BY <4>2, LinkId
          <5>2. l \in upd.removed BY <2>2, <4>2 DEF AllLinks
          <5>3. <<l.index, l.name>> \in hit BY <5>2
          <5> QED BY <4>1, <5>1, <5>3
        <4> QED BY <2>4, <4>2, <4>3 DEF AllLinks
      <3> QED BY <1>2, <2>6, <3>1, <3>2
    <2>7. ASSUME NEW l \in AllLinks(ps, Used(ps)) PROVE l \in links'
      <3>1. PICK j \in Used(ps) : l \in LinksOf(j, ps[j]) BY <2>7 DEF AllLinks
      <3>2. CASE j = i BY <1>2, <1>5, <3>1, <3>2
      <3>3. CASE j # i
        <4>1. l \in links BY <2>3, <2>5, <3>1, <3>3 DEF AllLinks
        <4>2. l.id = j BY <3>1, LinkId
        <4>3. l \in rest BY <1>5, <3>3, <4>1, <4>2
        <4> QED BY <1>2, <4>3
      <3> QED BY <3>2, <3>3
    <2>8. links' = AllLinks(ps, Used(ps)) BY <2>6, <2>7
    <2> QED BY <1>4, <2>8
  <1>8. IInv' BY <1>1, <1>2, <1>3, <1>6, <1>7, EndStep DEF Types
  <1>9. ASSUME upd.fresh PROVE CacheCoherent'
    <2>1. InFrontOf(cache, ps) BY <1>1, <1>9 DEF CacheFollows, ps
    <2> QED BY <1>2, <2>1 DEF CacheCoherent, InFrontOf
  <1> QED BY <1>8, <1>9

LEMMA RemovePackageStep ==
    ASSUME IInv, NEW n \in Names, RemovePackage(n)
    PROVE  IInv'
  <1>1. Types /\ CommittedRight /\ upd.pc = "idle" BY DEF IInv, RemovePackage
  <1>2. PICK found \in IF ByName(cache, n) # {}
                       THEN {[id |-> cache[i].id, pkg |-> cache[i].pkg] : i \in ByName(cache, n)}
                       ELSE {[id |-> i, pkg |-> packages[i]] : i \in IdsByName(packages, n)} :
           /\ links' = RemoveLinks(links, found.id, found.pkg)
           /\ keys' = RemoveKeys(keys, links, found.id, found.pkg)
    BY DEF RemovePackage
  <1> DEFINE fresh == CacheCoherent
  <1>3. /\ cache' = Touched(n) /\ packages' = packages /\ readers' = readers
        /\ damaged' = (damaged \/ ~fresh)
        /\ upd' = [pc |-> "removing", names |-> {n}, fresh |-> fresh]
    BY DEF RemovePackage
  <1>4. fresh \in BOOLEAN /\ (fresh <=> InFrontOf(cache, packages)) BY DEF CacheCoherent, InFrontOf
  <1> HIDE DEF fresh
  <1>5. upd'.pc = "removing" /\ upd'.names = {n} /\ upd'.fresh = fresh BY <1>3
  <1>6. CacheFits(cache) BY <1>1 DEF Types
  <1>7. CacheFits(cache') /\ (InFrontOf(cache, packages) => InFrontOf(cache', packages))
    BY <1>3, <1>6, TouchedFits
  <1> DEFINE id == found.id
             p == found.pkg
             hit == {<<l.index, l.name>> : l \in LinksOf(id, p)}
  <1>8. links' = {l \in links : ~(l.id = id /\ <<l.index, l.name>> \in hit)}
    BY <1>2 DEF RemoveLinks
  <1>9. {Key(l) : l \in links'} \subseteq keys'
    <2>1. keys' = {k \in keys : <<k.index, k.name>> \in hit => k \in {Key(l) : l \in links'}}
      BY <1>2 DEF RemoveKeys
    <2>2. {Key(l) : l \in links} \subseteq keys BY <1>1 DEF Types
    <2>3. \A l \in links' : l \in links BY <1>8
    <2> HIDE DEF hit
    <2> QED BY <2>1, <2>2, <2>3
  <1>10. Types'
    <2>1. RemoverType' BY <1>3, <1>4, <1>5 DEF RemoverType
    <2>2. WriterType' BY <1>5 DEF WriterType, Writing
    <2>3. damaged' \in BOOLEAN BY <1>1, <1>3, <1>4 DEF Types
    <2> QED BY <1>1, <1>3, <1>5, <1>7, <1>9, <2>1, <2>2, <2>3 DEF Types
  <1>11. CacheFollows' BY <1>3, <1>4, <1>5, <1>7 DEF CacheFollows, Writing
  <1>12. ClearingRight' /\ UpdatingRight' /\ SingleRight'
    BY <1>5 DEF ClearingRight, UpdatingRight, SingleRight
  <1>13. CommittedRight'
    <2> SUFFICES ASSUME ~damaged, fresh
                 PROVE  /\ OncePerName(packages, Used(packages))
                        /\ links' = AllLinks(packages, Used(packages) \ IdsNamed(packages, {n}))
      BY <1>3, <1>5 DEF CommittedRight
    <2>1. OncePerName(packages, Used(packages)) /\ links = AllLinks(packages, Used(packages))
      BY <1>1 DEF CommittedRight
    <2>2. id \in Used(packages) /\ packages[id] = p /\ p.name = n
      <3>1. CASE ByName(cache, n) # {}
        <4>1. PICK i \in ByName(cache, n) : found = [id |-> cache[i].id, pkg |-> cache[i].pkg]
          BY <1>2, <3>1
        <4>2. i \in DOMAIN cache /\ cache[i].id # 0 /\ cache[i].name = n BY DEF ByName
        <4>3. cache[i] \in Entry BY <1>6, <4>2 DEF CacheFits, Entry
        <4>4. cache[i].id \in Ids /\ cache[i].pkg \in Package BY <4>2, <4>3, EntryFacts
        <4>5. packages[cache[i].id] = cache[i].pkg /\ cache[i].pkg.name = n
          BY <1>4, <4>2 DEF InFrontOf
        <4> QED BY <4>1, <4>4, <4>5, NoPackageFacts DEF Used
      <3>2. CASE ByName(cache, n) = {}
        <4>1. PICK i \in IdsByName(packages, n) : found = [id |-> i, pkg |-> packages[i]]
          BY <1>2, <3>2
        <4> QED BY <4>1 DEF IdsByName
      <3> QED BY <3>1, <3>2
    <2>3. IdsNamed(packages, {n}) = {id} BY <2>1, <2>2 DEF IdsNamed, OncePerName
    <2> HIDE DEF id, p
    <2>4. ASSUME NEW l \in links' PROVE l \in AllLinks(packages, Used(packages) \ {id})
      <3>1. l \in links /\ ~(l.id = id /\ <<l.index, l.name>> \in hit) BY <1>8
      <3>2. PICK j \in Used(packages) : l \in LinksOf(j, packages[j]) BY <2>1, <3>1 DEF AllLinks
      <3>3. j # id
        <4> SUFFICES ASSUME j = id PROVE FALSE OBVIOUS
        <4>1. l.id = id BY <3>2, LinkId
        <4>2. <<l.index, l.name>> \in hit BY <2>2, <3>2
        <4> QED BY <3>1, <4>1, <4>2
      <3> QED BY <3>2, <3>3 DEF AllLinks
    <2>5. ASSUME NEW l \in AllLinks(packages, Used(packages) \ {id}) PROVE l \in links'
      <3>1. PICK j \in Used(packages) \ {id} : l \in LinksOf(j, packages[j])
        BY <2>5 DEF AllLinks
      <3>2. l.id = j /\ j # id BY <3>1, LinkId
      <3>3. l \in links BY <2>1, <3>1 DEF AllLinks
      <3> QED BY <1>8, <3>2, <3>3
    <2> QED BY <2>1, <2>3, <2>4, <2>5
  <1> QED BY <1>10, <1>11, <1>12, <1>13 DEF IInv

LEMMA InvalidateStep ==
    ASSUME IInv, Invalidate
    PROVE  /\ IInv'
           /\ upd.fresh => CacheCoherent'
  <1>1. Types /\ CacheFollows /\ CommittedRight /\ upd.pc = "removing" BY DEF IInv, Invalidate
  <1>2. PICK n \in upd.names :
           /\ cache' = CacheErase(cache, {n})
           /\ IF IdsByName(packages, n) = {} THEN packages' = packages
              ELSE \E i \in IdsByName(packages, n) :
                      packages' = [packages EXCEPT ![i] = NoPackage]
    BY DEF Invalidate
  <1>3. upd' = Idle /\ keys' = keys /\ links' = links /\ readers' = readers /\ damaged' = damaged
    BY DEF Invalidate
  <1>4. upd.names = {n} BY <1>1 DEF Types, RemoverType
  <1>5. packages \in Stored /\ CacheFits(cache) BY <1>1 DEF Types
  <1>6. CacheFits(cache') BY <1>2, <1>5, ErasedFits
  <1>7. packages' \in Stored BY <1>2, <1>5 DEF Stored
  <1>8. \A i \in Ids : packages'[i] = packages[i]
                       \/ (packages[i] \in Package => packages[i].name \in {n})
    <2>1. CASE IdsByName(packages, n) = {} BY <1>2, <2>1
    <2>2. CASE IdsByName(packages, n) # {}
      <3>1. PICK j \in IdsByName(packages, n) : packages' = [packages EXCEPT ![j] = NoPackage]
        BY <1>2, <2>2
      <3>2. packages[j].name = n BY <3>1 DEF IdsByName
      <3> QED BY <1>5, <3>1, <3>2 DEF Stored
    <2> QED BY <2>1, <2>2
  <1>9. ASSUME upd.fresh PROVE CacheCoherent'
    <2>1. InFrontOf(cache, packages) BY <1>1, <1>9 DEF CacheFollows
    <2>2. \A qs : (\A i \in Ids : qs[i] = packages[i]
                                 \/ (packages[i] \in Package => packages[i].name \in {n}))
                  => InFrontOf(CacheErase(cache, {n}), qs)
      BY <1>5, <2>1, ErasedInFront
    <2>3. InFrontOf(cache', packages') BY <1>2, <1>8, <2>2
    <2> QED BY <2>3 DEF CacheCoherent, InFrontOf
  <1>10. CommittedRight'
    <2> SUFFICES ASSUME ~damaged
                 PROVE  /\ OncePerName(packages', Used(packages'))
                        /\ links = AllLinks(packages', Used(packages'))
      BY <1>3, IdleFacts DEF CommittedRight
    <2>1. /\ OncePerName(packages, Used(packages))
          /\ links = AllLinks(packages, Used(packages) \ IdsNamed(packages, {n}))
      BY <1>1, <1>4 DEF CommittedRight
    <2>2. IdsNamed(packages, {n}) = IdsByName(packages, n) BY DEF IdsNamed, IdsByName
    <2>3. /\ Used(packages') = Used(packages) \ IdsNamed(packages, {n})
          /\ \A i \in Used(packages') : packages'[i] = packages[i]
      <3>1. CASE IdsByName(packages, n) = {} BY <1>2, <2>2, <3>1
      <3>2. CASE IdsByName(packages, n) # {}
        <4>1. PICK j \in IdsByName(packages, n) : packages' = [packages EXCEPT ![j] = NoPackage]
          BY <1>2, <3>2
        <4>2. IdsByName(packages, n) = {j} BY <2>1, <4>1 DEF IdsByName, OncePerName
        <4>3. \A i \in Ids : packages'[i] = IF i = j THEN NoPackage ELSE packages[i]
          BY <1>5, <4>1 DEF Stored
        <4> QED BY <2>2, <4>2, <4>3 DEF Used
      <3> QED BY <3>1, <3>2
    <2>4. AllLinks(packages', Used(packages')) = AllLinks(packages, Used(packages'))
      BY <2>3 DEF AllLinks
    <2>5. OncePerName(packages', Used(packages')) BY <2>1, <2>3 DEF OncePerName
    <2> QED BY <2>1, <2>3, <2>4, <2>5
  <1>11. {Key(l) : l \in links'} \subseteq keys' BY <1>1, <1>3 DEF Types
  <1>12. IInv' BY <1>1, <1>3, <1>6, <1>7, <1>10, <1>11, EndStep DEF Types
  <1> QED BY <1>9, <1>12

-----------------------------------------------------------------------------
(* The theorems *)

LEMMA InitIInv == Init => IInv
  <1> SUFFICES ASSUME Init PROVE IInv OBVIOUS
  <1>1. upd = Idle /\ upd.pc = "idle" /\ ~Writing BY IdleFacts DEF Init, Writing
  <1>2. CacheFits(cache) BY CacheLimitAssumption DEF Init, CacheFits
  <1>3. packages \in Stored /\ Used(packages) = {} BY DEF Init, Stored, Used
  <1>4. Types BY <1>1, <1>2, <1>3 DEF Init, Types, WriterType, RemoverType
  <1>5. CommittedRight BY <1>1, <1>3 DEF Init, CommittedRight, OncePerName, AllLinks
  <1>6. CacheFollows /\ ClearingRight /\ UpdatingRight /\ SingleRight
    BY <1>1 DEF CacheFollows, ClearingRight, UpdatingRight, SingleRight
  <1> QED BY <1>4, <1>5, <1>6 DEF IInv

LEMMA NextIInv == IInv /\ [Next]_vars => IInv'
  <1> SUFFICES ASSUME IInv, [Next]_vars PROVE IInv' OBVIOUS
  <1>1. ASSUME NEW clear \in BOOLEAN, BeginUpdater(clear) PROVE IInv'
    BY <1>1, BeginStep DEF BeginUpdater
  <1>2. CASE BeginUpdatePackage BY <1>2, BeginStep DEF BeginUpdatePackage
  <1>3. ASSUME NEW nv \in DOMAIN Provides, Store(nv[1], nv[2]) PROVE IInv'
    <2> DEFINE n == nv[1]
               v == nv[2]
    <2>1. <<n, v>> \in DOMAIN Provides BY VersionsAssumption
    <2> HIDE DEF n, v
    <2>2. Types /\ Store(n, v) BY <1>3 DEF IInv, n, v
    <2>3. PICK id, p, old : Notes(id, p, old, upd.handled \cup {id}) /\ p.name = n
      BY <2>1, <2>2, StoreNotes
    <2>4. Writing BY <2>2 DEF Store, Writing
    <2>5. upd.pc = "single" => p.name \notin upd.names /\ Cardinality(upd.names) < 1
      BY <2>2, <2>3 DEF Store
    <2> QED BY <2>3, <2>4, <2>5, NotesKeepsIInv
  <1>4. ASSUME NEW nv \in DOMAIN Provides, AddContents(nv[1], nv[2]) PROVE IInv'
    <2>1. Types BY DEF IInv
    <2>2. PICK id, p, old :
             Notes(id, p, old, upd.handled) /\ upd.pc = "updater" /\ ~upd.clear
      BY <1>4, <2>1, AddContentsNotes
    <2>3. Writing /\ upd.pc # "single" BY <2>2 DEF Writing
    <2> QED BY <2>2, <2>3, NotesKeepsIInv
  <1>5. CASE CommitUpdater BY <1>5, CommitUpdaterStep
  <1>6. CASE CommitUpdatePackage BY <1>6, CommitUpdatePackageStep
  <1>7. CASE Abort BY <1>7, AbortStep
  <1>8. ASSUME NEW n \in Names, RemovePackage(n) PROVE IInv' BY <1>8, RemovePackageStep
  <1>9. CASE Invalidate BY <1>9, InvalidateStep
  <1>10. CASE ClearPackages BY <1>10, ClearPackagesStep
  <1>11. ASSUME NEW r \in Readers, NEW i \in Ids, Open(r, i) PROVE IInv' BY <1>11, OpenStep
  <1>12. ASSUME NEW r \in Readers, LookUp(r) PROVE IInv' BY <1>12, LookUpStep
  <1>13. ASSUME NEW r \in Readers, Populate(r) PROVE IInv' BY <1>13, PopulateStep
  <1>14. CASE OtherDatabase BY <1>14, OtherDatabaseStep
  <1>15. CASE Restart BY <1>15, RestartStep
  <1>16. CASE UNCHANGED vars
    <2>1. /\ UNCHANGED <<packages, keys, links, upd, damaged>>
          /\ cache' = cache /\ readers' = readers
      BY <1>16 DEF vars
    <2> QED BY <2>1, CacheStep DEF IInv, Types
  <1> QED BY <1>1, <1>2, <1>3, <1>4, <1>5, <1>6, <1>7, <1>8, <1>9, <1>10, <1>11, <1>12,
             <1>13, <1>14, <1>15, <1>16 DEF Next

LEMMA IInvConsistent == IInv => Consistent
  <1> SUFFICES ASSUME IInv PROVE Consistent OBVIOUS
  <1>1. Types /\ CommittedRight BY DEF IInv
  <1>2. ASSUME NEW S, \A i, j \in S : i = j PROVE Cardinality(S) <= 1
    <2>1. CASE S = {} BY <2>1, FS_EmptySet
    <2>2. CASE S # {}
      <3>1. PICK x \in S : TRUE BY <2>2
      <3>2. S = {x} BY <1>2, <3>1
      <3>3. Cardinality({x}) = 1 BY FS_Singleton
      <3>4. Cardinality(S) = 1 BY <3>2, <3>3
      <3> QED BY <3>4
    <2> QED BY <2>1, <2>2
  <1>3. TypeOK
    <2>1. \A i \in Ids : Cardinality(ById(cache, i)) <= 1
      <3> TAKE i \in Ids
      <3>1. \A j, k \in ById(cache, i) : j = k
        BY <1>1, MaxIdAssumption DEF Types, CacheFits, ById, Ids
      <3> QED BY <1>2, <3>1
    <2>2. upd.pc \in {"idle", "updater", "single", "removing"}
      BY <1>1, IdleFacts DEF Types, Writing
    <2>3. \A r \in Readers : readers[r].pc \in {"idle", "open", "missed"}
      BY <1>1, IdleFacts DEF Types
    <2>4. packages \in [Ids -> Package \cup {NoPackage}] BY <1>1 DEF Types, Stored
    <2>5. {Key(l) : l \in links} \subseteq keys /\ damaged \in BOOLEAN BY <1>1 DEF Types
    <2>6. cache \in Seq(CacheEntry \cup {ForeignEntry}) /\ Len(cache) <= CacheLimit
      BY <1>1 DEF Types, CacheFits
    <2> QED BY <2>1, <2>2, <2>3, <2>4, <2>5, <2>6 DEF TypeOK
  <1>4. IndexExact BY <1>1 DEF CommittedRight, IndexExact, AllLinks
  <1>5. NamesUnique
    <2> SUFFICES ASSUME ~damaged, NEW n \in Names
                 PROVE  Cardinality(IdsByName(packages, n)) <= 1
      BY DEF NamesUnique
    <2>1. \A i, j \in IdsByName(packages, n) : i = j
      BY <1>1 DEF CommittedRight, OncePerName, IdsByName
    <2> QED BY <1>2, <2>1
  <1> QED BY <1>3, <1>4, <1>5 DEF Consistent

\* What is committed is in order, whatever is going on besides.
THEOREM DatabaseInvariant == Spec => []IInv
  <1> QED BY InitIInv, NextIInv, PTL DEF Spec

\* The indexes list exactly the packages stored and every name is stored once unless an
\* update started from a stale cache or a removal was interrupted: the differences which
\* updatePackage(), removePackage() and PackageUpdater work with add up for any packages,
\* however the updates, readers, errors and restarts interleave.
THEOREM DatabaseConsistent == Spec => []Consistent
  <1> QED BY DatabaseInvariant, IInvConsistent, PTL

\* A writer which found a cache without stale packages leaves one: try_lock keeps readers
\* from adding what they have read before.
THEOREM CacheKeptCoherent == Spec => WritersKeepCoherence
  <1>1. IInv => ( upd.pc # "idle" /\ upd'.pc = "idle" /\ upd.fresh
                  /\ (CommitUpdater \/ CommitUpdatePackage \/ Invalidate)
                    => CacheCoherent' )
    BY CommitUpdaterStep, CommitUpdatePackageStep, InvalidateStep
  <1> QED BY <1>1, DatabaseInvariant, PTL DEF WritersKeepCoherence

\* PackageUpdater::commit() after a clearing update leaves exactly the packages which have
\* been updated, each under one id.
THEOREM ReloadComplete == Spec => ReloadReplaces
  <1>1. IInv => ( upd.pc = "updater" /\ upd.clear /\ upd.fresh /\ CommitUpdater
                    => /\ {packages'[i].name : i \in Used(packages')} = upd.names
                       /\ Cardinality(Used(packages')) = Cardinality(upd.names) )
    <2> SUFFICES ASSUME IInv, upd.pc = "updater", upd.clear, upd.fresh, CommitUpdater
                 PROVE  /\ {packages'[i].name : i \in Used(packages')} = upd.names
                        /\ Cardinality(Used(packages')) = Cardinality(upd.names)
      OBVIOUS
    <2>1. /\ Used(packages') = upd.handled
          /\ \A i \in upd.handled : packages'[i] = upd.packages[i]
      BY CommitUpdaterStep
    <2>2. /\ upd.names = {upd.packages[i].name : i \in upd.handled}
          /\ OncePerName(upd.packages, upd.handled)
      BY DEF IInv, ClearingRight
    <2>3. IsFiniteSet(upd.handled)
      <3>1. upd.handled \subseteq 1 .. MaxId BY DEF IInv, Types, WriterType, Writing, Ids
      <3>2. IsFiniteSet(1 .. MaxId) BY MaxIdAssumption, FS_Interval
      <3> QED BY <3>1, <3>2, FS_Subset
    <2> DEFINE f == [i \in upd.handled |-> upd.packages[i].name]
    <2>4. f \in Bijection(upd.handled, upd.names)
      <3>1. f \in [upd.handled -> upd.names] BY <2>2
      <3>2. \A i, j \in upd.handled : f[i] = f[j] => i = j BY <2>2 DEF OncePerName
      <3>3. \A t \in upd.names : \E i \in upd.handled : f[i] = t BY <2>2
      <3> HIDE DEF f
      <3> QED BY <3>1, <3>2, <3>3 DEF Bijection, Injection, Surjection, IsInjective
    <2>5. Cardinality(upd.names) = Cardinality(upd.handled)
      <3> HIDE DEF f
      <3> QED BY <2>3, <2>4, FS_Bijection DEF ExistsBijection
    <2> QED BY <2>1, <2>2, <2>5
  <1> QED BY <1>1, DatabaseInvariant, PTL DEF ReloadReplaces

==============================================================================
