------------------------- MODULE ConductBuildProofs -------------------------
(***************************************************************************)
(* Proofs about the "Conduct building" action: about ConductBuild for      *)
(* every finite set of packages, whatever they depend on, any batches of   *)
(* them, any parameters, any number of runs and of parallel downloads, and *)
(* about the locks and processes of single builds, as ChrootBuild models   *)
(* them.                                                                   *)
(***************************************************************************)
EXTENDS ConductBuild, ChrootBuild, FiniteSetTheorems, WellFoundedInduction, TLAPS

-----------------------------------------------------------------------------
(* Natural numbers.                                                        *)

\* Of some natural numbers one is the smallest.
LEMMA SmallestNumber ==
    ASSUME NEW S \in SUBSET Nat, S # {}
    PROVE  \E m \in S : \A k \in S : m <= k
  <1> DEFINE R == OpToRel(<, Nat)
  <1>1. IsWellFoundedOn(R, Nat) BY NatLessThanWellFounded
  <1>2. \A i, j \in Nat : i < j => <<i, j>> \in R BY DEF OpToRel
  <1> HIDE DEF R
  <1>3. PICK m \in S : \A k \in S : <<k, m>> \notin R BY <1>1, WFMin
  <1>4. ASSUME NEW k \in S PROVE m <= k
    <2>1. k \in Nat /\ m \in Nat /\ ~(k < m) BY <1>2, <1>3
    <2> QED BY <2>1
  <1> QED BY <1>4

\* What holds at 0 and with every number for its successor holds for all of them.
LEMMA Induction ==
    ASSUME NEW S, 0 \in S, \A n \in Nat : n \in S => n + 1 \in S
    PROVE  Nat \subseteq S
  <1> DEFINE T == {n \in Nat : n \notin S}
  <1> SUFFICES ASSUME T # {} PROVE FALSE OBVIOUS
  <1>1. PICK m \in T : \A k \in T : m <= k BY SmallestNumber
  <1>2. m \in Nat /\ m \notin S /\ m # 0 OBVIOUS
  <1>3. m - 1 \in Nat /\ m = (m - 1) + 1 BY <1>2
  <1>4. m - 1 \notin T
    <2> HIDE DEF T
    <2> SUFFICES ASSUME m - 1 \in T PROVE FALSE OBVIOUS
    <2> QED BY <1>1, <1>2
  <1>5. m - 1 \in S BY <1>3, <1>4
  <1> HIDE DEF T
  <1> QED BY <1>2, <1>3, <1>5

\* A step can be repeated.
LEMMA Iteration ==
    ASSUME NEW S, NEW step \in [S -> S], NEW s \in S
    PROVE  \E f : f = [n \in Nat |-> IF n = 0 THEN s ELSE step[f[n - 1]]]
  <1> DEFINE Runs(n) == {g \in [0 .. n -> S] :
                            g[0] = s /\ \A k \in 1 .. n : g[k] = step[g[k - 1]]}
             T == {n \in Nat : Runs(n) # {}}
             f == [n \in Nat |-> (CHOOSE g \in Runs(n) : TRUE)[n]]
  <1>1. 0 \in T
    <2>1. [k \in 0 .. 0 |-> s] \in Runs(0) OBVIOUS
    <2> QED BY <2>1
  <1>2. ASSUME NEW n \in Nat, n \in T PROVE n + 1 \in T
    <2>1. PICK g \in Runs(n) : TRUE BY <1>2
    <2> DEFINE h == [k \in 0 .. n + 1 |-> IF k = n + 1 THEN step[g[n]] ELSE g[k]]
    <2>2. h \in [0 .. n + 1 -> S] BY <2>1
    <2>3. h[0] = s BY <2>1
    <2>4. \A k \in 1 .. n + 1 : h[k] = step[h[k - 1]]
      <3> TAKE k \in 1 .. n + 1
      <3>1. k - 1 \in 0 .. n /\ k - 1 # n + 1 OBVIOUS
      <3>2. h[k - 1] = g[k - 1] BY <3>1
      <3>3. CASE k = n + 1 BY <3>2, <3>3
      <3>4. CASE k # n + 1
        <4>1. k \in 1 .. n BY <3>4
        <4>2. g[k] = step[g[k - 1]] BY <2>1, <4>1
        <4>3. h[k] = g[k] BY <3>4
        <4> QED BY <3>2, <4>2, <4>3
      <3> QED BY <3>3, <3>4
    <2>5. h \in Runs(n + 1) BY <2>2, <2>3, <2>4
    <2> QED BY <2>5
  <1>3. T = Nat
    <2>1. T \subseteq Nat OBVIOUS
    <2> HIDE DEF T
    <2> QED BY <1>1, <1>2, <2>1, Induction
  <1>4. \A n \in Nat : (CHOOSE g \in Runs(n) : TRUE) \in Runs(n) BY <1>3
  <1>5. ASSUME NEW n \in Nat, NEW m \in Nat, n <= m, NEW g \in Runs(n), NEW h \in Runs(m)
        PROVE  \A k \in 0 .. n : g[k] = h[k]
    <2> DEFINE U == {k \in Nat : k <= n => g[k] = h[k]}
    <2>1. 0 \in U OBVIOUS
    <2>2. ASSUME NEW k \in Nat, k \in U PROVE k + 1 \in U
      <3> SUFFICES ASSUME k + 1 <= n PROVE g[k + 1] = h[k + 1] OBVIOUS
      <3>1. k + 1 \in 1 .. n /\ k + 1 \in 1 .. m /\ (k + 1) - 1 = k BY <1>5
      <3>2. g[k] = h[k] BY <2>2, <3>1
      <3>3. g[k + 1] = step[g[k]] /\ h[k + 1] = step[h[k]] BY <3>1
      <3> QED BY <3>2, <3>3
    <2>3. Nat \subseteq U
      <3> HIDE DEF U
      <3> QED BY <2>1, <2>2, Induction
    <2> QED BY <2>3
  <1> HIDE DEF T
  <1>6. f[0] = s
    <2>1. (CHOOSE g \in Runs(0) : TRUE) \in Runs(0) BY <1>4
    <2> QED BY <2>1
  <1>7. ASSUME NEW n \in Nat \ {0} PROVE f[n] = step[f[n - 1]]
    <2> DEFINE g == CHOOSE x \in Runs(n) : TRUE
               h == CHOOSE x \in Runs(n - 1) : TRUE
    <2>1. n - 1 \in Nat /\ n - 1 <= n /\ n - 1 \in 0 .. n - 1 /\ n \in 1 .. n OBVIOUS
    <2>2. g \in Runs(n) /\ h \in Runs(n - 1) BY <1>4, <2>1
    <2>3. f[n] = g[n] /\ f[n - 1] = h[n - 1] BY <2>1
    <2> HIDE DEF f, g, h
    <2>4. g[n] = step[g[n - 1]] BY <2>1, <2>2
    <2>5. h[n - 1] = g[n - 1] BY <1>5, <2>1, <2>2
    <2> QED BY <2>3, <2>4, <2>5
  <1>8. f = [n \in Nat |-> IF n = 0 THEN s ELSE step[f[n - 1]]]
    <2>1. f = [n \in Nat |-> f[n]] OBVIOUS
    <2> HIDE DEF f
    <2>2. \A n \in Nat : f[n] = IF n = 0 THEN s ELSE step[f[n - 1]]
      <3> TAKE n \in Nat
      <3>1. CASE n = 0 BY <1>6, <3>1
      <3>2. CASE n # 0 BY <1>7, <3>2
      <3> QED BY <3>1, <3>2
    <2> QED BY <2>1, <2>2
  <1> HIDE DEF f
  <1> QED BY <1>8

-----------------------------------------------------------------------------
(* Sessions (BatchProcessingSession): places, and operations that keep them.*)

\* The place of package p in its batch.
IndexOf(p) == CHOOSE n \in DOMAIN Batches[BatchOf(p)] : Batches[BatchOf(p)][n] = p

\* The session is behind package p.
Passed(s, p) == BatchOf(p) < s.batch \/ (BatchOf(p) = s.batch /\ IndexOf(p) < s.package)

\* A session only stops within the batches because of a failure.
StopsForFailure(s) ==
    s.batch <= Len(Batches) /\ s.package > Len(Batches[s.batch]) => s.skip /\ s.responses # {}

\* Staging started in a batch holds from its second package on.
StagingThis(s) ==
    s.batch <= Len(Batches) /\ s.package # 1 /\ Len(Batches[s.batch]) > 1 /\ s.stagingThis => s.staging

\* That a package the session is behind needs staging is known in time: the next
\* batch will be staged and the batches that follow are.
StagingOf(s, p) ==
    Passed(s, p) => s.stagingNext /\ (s.batch \in BatchOf(p) + 1 .. Len(Batches) => s.stagingThis \/ s.staging)

\* Session t is at the position of session s and has forgotten nothing.
Kept(s, t) ==
    /\ t \in SessionType
    /\ t.batch = s.batch /\ t.package = s.package /\ t.skip = s.skip /\ t.stagingThis = s.stagingThis
    /\ s.responses \subseteq t.responses
    /\ s.staging => t.staging
    /\ s.stagingNext => t.stagingNext

\* Every package has its place.
LEMMA PlaceOfPackage ==
    ASSUME NEW p \in Packages
    PROVE  /\ BatchOf(p) \in 1 .. Len(Batches)
           /\ IndexOf(p) \in 1 .. Len(Batches[BatchOf(p)])
           /\ Batches[BatchOf(p)][IndexOf(p)] = p
  <1>1. \E i \in DOMAIN Batches : \E n \in DOMAIN Batches[i] : Batches[i][n] = p BY BatchAssumption
  <1>2. /\ BatchOf(p) \in DOMAIN Batches
        /\ \E n \in DOMAIN Batches[BatchOf(p)] : Batches[BatchOf(p)][n] = p
    BY <1>1 DEF BatchOf
  <1>3. /\ IndexOf(p) \in DOMAIN Batches[BatchOf(p)]
        /\ Batches[BatchOf(p)][IndexOf(p)] = p
    BY <1>2 DEF IndexOf
  <1>4. Batches \in Seq(Seq(Packages)) BY BatchAssumption
  <1>5. DOMAIN Batches = 1 .. Len(Batches) BY <1>4
  <1>6. Batches[BatchOf(p)] \in Seq(Packages) BY <1>2, <1>4
  <1>7. DOMAIN Batches[BatchOf(p)] = 1 .. Len(Batches[BatchOf(p)]) BY <1>6
  <1> QED BY <1>2, <1>3, <1>5, <1>7

\* Every place has its package.
LEMMA PackageAtPlace ==
    ASSUME NEW i \in 1 .. Len(Batches), NEW n \in 1 .. Len(Batches[i])
    PROVE  Batches[i][n] \in Packages /\ BatchOf(Batches[i][n]) = i /\ IndexOf(Batches[i][n]) = n
  <1>1. Batches \in Seq(Seq(Packages)) BY BatchAssumption
  <1>2. i \in DOMAIN Batches BY <1>1
  <1>3. Batches[i] \in Seq(Packages) BY <1>1, <1>2
  <1>4. n \in DOMAIN Batches[i] BY <1>3
  <1>5. Batches[i][n] \in Packages BY <1>3, <1>4
  <1> DEFINE p == Batches[i][n]
             j == BatchOf(p)
             m == IndexOf(p)
  <1>6. j \in 1 .. Len(Batches) /\ m \in 1 .. Len(Batches[j]) /\ Batches[j][m] = p
    BY <1>5, PlaceOfPackage
  <1>7. j \in DOMAIN Batches BY <1>1, <1>6
  <1>8. Batches[j] \in Seq(Packages) BY <1>1, <1>7
  <1>9. m \in DOMAIN Batches[j] BY <1>6, <1>8
  <1> HIDE DEF j, m
  <1>10. i = j /\ n = m BY <1>2, <1>4, <1>6, <1>7, <1>9, BatchAssumption
  <1> QED BY <1>5, <1>10 DEF j, m

\* Batches are counted and none is empty.
LEMMA LengthFacts ==
    /\ Len(Batches) \in Nat
    /\ \A i \in 1 .. Len(Batches) : Len(Batches[i]) \in Nat \ {0}
  <1>1. Batches \in Seq(Seq(Packages)) BY BatchAssumption
  <1>2. Len(Batches) \in Nat /\ DOMAIN Batches = 1 .. Len(Batches) BY <1>1
  <1>3. ASSUME NEW i \in 1 .. Len(Batches) PROVE Len(Batches[i]) \in Nat \ {0}
    <2>1. i \in DOMAIN Batches BY <1>2
    <2>2. Batches[i] \in Seq(Packages) BY <1>1, <2>1
    <2>3. Batches[i] # <<>> BY <2>1, BatchAssumption
    <2> QED BY <2>2, <2>3
  <1> QED BY <1>2, <1>3

\* A new session has passed nothing.
LEMMA NewSessionFacts ==
    ASSUME NEW skip \in BOOLEAN
    PROVE  /\ NewSession(skip) \in SessionType
           /\ NewSession(skip).skip = skip /\ NewSession(skip).responses = {}
           /\ NewSession(skip).package = 1
           /\ StopsForFailure(NewSession(skip))
           /\ \A p \in Packages : ~Passed(NewSession(skip), p)
  <1> DEFINE s == NewSession(skip)
  <1>1. s.batch = 1 /\ s.package = 1 /\ s.skip = skip /\ s.responses = {} BY DEF NewSession
  <1>2. s \in SessionType
    <2>1. 1 \in 1 .. Len(Batches) + 1 BY LengthFacts
    <2> QED BY <2>1 DEF NewSession, SessionType
  <1> HIDE DEF s
  <1>3. StopsForFailure(s)
    <2> SUFFICES ASSUME s.batch <= Len(Batches) PROVE ~(s.package > Len(Batches[s.batch]))
      BY DEF StopsForFailure
    <2>1. 1 \in 1 .. Len(Batches) BY <1>1, LengthFacts
    <2>2. Len(Batches[1]) \in Nat \ {0} BY <2>1, LengthFacts
    <2> QED BY <1>1, <2>2
  <1>4. ASSUME NEW p \in Packages PROVE ~Passed(s, p)
    <2>1. BatchOf(p) >= 1 /\ IndexOf(p) >= 1 /\ BatchOf(p) \in Int /\ IndexOf(p) \in Int
      BY PlaceOfPackage, LengthFacts
    <2> QED BY <1>1, <2>1 DEF Passed
  <1> QED BY <1>1, <1>2, <1>3, <1>4 DEF s

\* What depends on the position alone is kept.
LEMMA KeptFacts ==
    ASSUME NEW s \in SessionType, NEW t, Kept(s, t)
    PROVE  /\ StopsForFailure(s) => StopsForFailure(t)
           /\ StagingThis(s) => StagingThis(t)
           /\ \A p : Passed(t, p) <=> Passed(s, p)
           /\ \A p : StagingOf(s, p) => StagingOf(t, p)
  BY DEF Kept, StopsForFailure, StagingThis, Passed, StagingOf

LEMMA KeptItself == ASSUME NEW s \in SessionType PROVE Kept(s, s)
  BY DEF Kept

\* addResponse() keeps the position.
LEMMA WithResponseKept ==
    ASSUME NEW s \in SessionType, NEW p \in Packages
    PROVE  Kept(s, WithResponse(s, p)) /\ p \in WithResponse(s, p).responses
  <1> DEFINE r == s.responses \cup {p}
  <1>1. s.responses \subseteq r /\ r \in SUBSET Packages /\ p \in r BY DEF SessionType
  <1>2. WithResponse(s, p) = [s EXCEPT !.responses = r] BY DEF WithResponse
  <1> HIDE DEF r
  <1> QED BY <1>1, <1>2 DEF Kept, SessionType

\* enableStagingInNextBatch() keeps the position.
LEMMA EnableStagingKept ==
    ASSUME NEW s \in SessionType
    PROVE  /\ Kept(s, EnableStagingInNextBatch(s))
           /\ EnableStagingInNextBatch(s).stagingNext
           /\ s.batch \in 2 .. Len(Batches) /\ s.package = 1 => EnableStagingInNextBatch(s).staging
           /\ EnableStagingInNextBatch(s).responses = s.responses
  <1> DEFINE r == s.staging \/ (s.batch \in 2 .. Len(Batches) /\ s.package = 1)
  <1>1. EnableStagingInNextBatch(s) = [s EXCEPT !.stagingNext = TRUE, !.staging = r]
    BY DEF EnableStagingInNextBatch
  <1>2. r \in BOOLEAN /\ (s.staging => r) /\ (s.batch \in 2 .. Len(Batches) /\ s.package = 1 => r)
    BY DEF SessionType
  <1> HIDE DEF r
  <1> QED BY <1>1, <1>2 DEF Kept, SessionType

-----------------------------------------------------------------------------
(* Sessions: what selecting the next package does.                         *)

\* The position of a valid session is a place.
LEMMA CurrentPackagePlace ==
    ASSUME NEW s \in SessionType, HasPackage(s)
    PROVE  /\ s.batch \in 1 .. Len(Batches) /\ s.package \in 1 .. Len(Batches[s.batch])
           /\ CurrentPackage(s) \in Packages
           /\ BatchOf(CurrentPackage(s)) = s.batch /\ IndexOf(CurrentPackage(s)) = s.package
  <1>1. s.batch \in 1 .. Len(Batches) + 1 /\ s.package \in Nat \ {0} BY DEF SessionType
  <1>2. s.batch \in 1 .. Len(Batches) BY <1>1, LengthFacts DEF HasPackage
  <1>3. Len(Batches[s.batch]) \in Nat BY <1>2, LengthFacts
  <1>4. s.package \in 1 .. Len(Batches[s.batch]) BY <1>1, <1>3 DEF HasPackage
  <1> QED BY <1>2, <1>4, PackageAtPlace DEF CurrentPackage

\* What SelectNextPackage() does, case by case.
LEMMA SelectNextCases ==
    ASSUME NEW s \in SessionType, HasPackage(s)
    PROVE  LET t == SelectNextPackage(s) IN
           /\ t \in SessionType
           /\ t.skip = s.skip /\ t.responses = s.responses /\ t.stagingNext = s.stagingNext
           /\ \/ /\ s.package < Len(Batches[s.batch])
                 /\ t.batch = s.batch /\ t.package = s.package + 1
                 /\ t.stagingThis = s.stagingThis /\ t.staging = (s.staging \/ s.stagingThis)
              \/ /\ s.package = Len(Batches[s.batch])
                 /\ t.staging = s.staging
                 /\ \/ /\ s.skip /\ s.responses # {}
                       /\ t.batch = s.batch /\ t.package = s.package + 1
                       /\ t.stagingThis = s.stagingThis
                    \/ t.batch = s.batch + 1 /\ s.batch = Len(Batches)
                    \/ /\ t.batch = s.batch + 1 /\ s.batch < Len(Batches) /\ t.package = 1
                       /\ t.stagingThis = s.stagingNext
  <1>1. /\ s.batch \in 1 .. Len(Batches) /\ s.package \in 1 .. Len(Batches[s.batch])
        /\ Len(Batches) \in Nat /\ Len(Batches[s.batch]) \in Nat
    BY CurrentPackagePlace, LengthFacts
  <1> DEFINE t == SelectNextPackage(s)
             failing == s.responses # {}
             staged == s.staging \/ s.stagingThis
             up == s.package + 1
             on == s.batch + 1
             next == [s EXCEPT !.package = up, !.failures = failing]
             len == Len(Batches[s.batch])
  <1>2. up \in Nat \ {0} /\ on \in 1 .. Len(Batches) + 1 \cup {Len(Batches) + 1} /\ on \in 1 .. Len(Batches) + 1
    BY <1>1
  <1>3. failing \in BOOLEAN /\ staged \in BOOLEAN BY DEF SessionType
  <1>4. t = IF s.package < len
            THEN [s EXCEPT !.package = up, !.first = FALSE, !.staging = staged]
            ELSE IF failing /\ s.skip THEN next
            ELSE IF s.batch = Len(Batches) THEN [next EXCEPT !.batch = on]
            ELSE [next EXCEPT !.batch = on, !.package = 1, !.first = TRUE, !.stagingThis = s.stagingNext]
    <2>1. next.failures = failing /\ next.batch = s.batch BY DEF SessionType
    <2> HIDE DEF next
    <2>2. t = IF s.package < len
            THEN [s EXCEPT !.package = up, !.first = FALSE, !.staging = staged]
            ELSE IF next.failures /\ s.skip THEN next
            ELSE IF s.batch = Len(Batches) THEN [next EXCEPT !.batch = next.batch + 1]
            ELSE [next EXCEPT !.batch = next.batch + 1, !.package = 1, !.first = TRUE, !.stagingThis = s.stagingNext]
      BY DEF SelectNextPackage, next
    <2> QED BY <2>1, <2>2
  <1>5. /\ next \in SessionType /\ next.skip = s.skip /\ next.responses = s.responses
        /\ next.stagingNext = s.stagingNext /\ next.staging = s.staging /\ next.batch = s.batch
        /\ next.package = up /\ next.stagingThis = s.stagingThis
    <2> HIDE DEF up, failing
    <2> QED BY <1>2, <1>3 DEF SessionType
  <1>6. s.stagingNext \in BOOLEAN BY DEF SessionType
  <1> SUFFICES /\ t \in SessionType
               /\ t.skip = s.skip /\ t.responses = s.responses /\ t.stagingNext = s.stagingNext
               /\ \/ /\ s.package < len
                     /\ t.batch = s.batch /\ t.package = up
                     /\ t.stagingThis = s.stagingThis /\ t.staging = staged
                  \/ /\ s.package = len
                     /\ t.staging = s.staging
                     /\ \/ /\ s.skip /\ failing
                           /\ t.batch = s.batch /\ t.package = up
                           /\ t.stagingThis = s.stagingThis
                        \/ t.batch = on /\ s.batch = Len(Batches)
                        \/ /\ t.batch = on /\ s.batch < Len(Batches) /\ t.package = 1
                           /\ t.stagingThis = s.stagingNext
    OBVIOUS
  <1>7. CASE s.package < len
    <2>1. t = [s EXCEPT !.package = up, !.first = FALSE, !.staging = staged] BY <1>4, <1>7
    <2> HIDE DEF up, staged, t
    <2> QED BY <2>1, <1>7, <1>2, <1>3 DEF SessionType
  <1>8. CASE ~(s.package < len)
    <2>1. s.package = len BY <1>1, <1>8
    <2>2. CASE failing /\ s.skip
      <3>1. t = next BY <1>4, <1>8, <2>2
      <3> HIDE DEF next, t, up, failing
      <3> QED BY <3>1, <1>5, <2>1, <2>2
    <2>3. CASE ~(failing /\ s.skip) /\ s.batch = Len(Batches)
      <3>1. t = [next EXCEPT !.batch = on] BY <1>4, <1>8, <2>3
      <3> HIDE DEF next, t, up, on, failing
      <3> QED BY <3>1, <1>2, <1>5, <2>1, <2>3 DEF SessionType
    <2>4. CASE ~(failing /\ s.skip) /\ s.batch # Len(Batches)
      <3>1. t = [next EXCEPT !.batch = on, !.package = 1, !.first = TRUE, !.stagingThis = s.stagingNext]
        BY <1>4, <1>8, <2>4
      <3>2. s.batch < Len(Batches) BY <1>1, <2>4
      <3>3. 1 \in Nat \ {0} OBVIOUS
      <3> HIDE DEF next, t, up, on, failing
      <3>4. t \in SessionType BY <3>1, <3>3, <1>2, <1>5, <1>6 DEF SessionType
      <3>5. /\ t.batch = on /\ t.package = 1 /\ t.stagingThis = s.stagingNext
            /\ t.skip = next.skip /\ t.responses = next.responses /\ t.stagingNext = next.stagingNext
            /\ t.staging = next.staging
        BY <3>1, <1>5 DEF SessionType
      <3> QED BY <3>2, <3>4, <3>5, <1>5, <2>1
    <2> QED BY <2>2, <2>3, <2>4
  <1> QED BY <1>7, <1>8

\* Selecting the next package passes the current one and no other one.
LEMMA SelectNextPasses ==
    ASSUME NEW s \in SessionType, HasPackage(s)
    PROVE  /\ ~Passed(s, CurrentPackage(s))
           /\ \A p \in Packages :
                 Passed(SelectNextPackage(s), p) <=> Passed(s, p) \/ p = CurrentPackage(s)
           /\ \A p \in Packages : BatchOf(p) < s.batch => Passed(s, p)
  <1> DEFINE t == SelectNextPackage(s)
             cur == CurrentPackage(s)
             len == Len(Batches[s.batch])
  <1>1. /\ s.batch \in 1 .. Len(Batches) /\ s.package \in 1 .. len /\ cur \in Packages
        /\ BatchOf(cur) = s.batch /\ IndexOf(cur) = s.package
        /\ Len(Batches) \in Nat /\ len \in Nat
    BY CurrentPackagePlace, LengthFacts
  <1>2. \/ s.package < len /\ t.batch = s.batch /\ t.package = s.package + 1
        \/ s.package = len /\ t.batch = s.batch /\ t.package = s.package + 1
        \/ s.package = len /\ t.batch = s.batch + 1 /\ s.batch = Len(Batches)
        \/ s.package = len /\ t.batch = s.batch + 1 /\ t.package = 1
    BY SelectNextCases
  <1> HIDE DEF t, cur
  <1>3. ~Passed(s, cur) BY <1>1 DEF Passed
  <1>4. ASSUME NEW p \in Packages PROVE Passed(t, p) <=> Passed(s, p) \/ p = cur
    <2> DEFINE i == BatchOf(p)
               n == IndexOf(p)
    <2>1. /\ i \in 1 .. Len(Batches) /\ n \in 1 .. Len(Batches[i]) /\ Batches[i][n] = p
          /\ Len(Batches[i]) \in Nat
      BY PlaceOfPackage, LengthFacts
    <2>2. p = cur <=> i = s.batch /\ n = s.package
      <3>1. p = cur => i = s.batch /\ n = s.package BY <1>1
      <3>2. i = s.batch /\ n = s.package => p = cur BY <2>1 DEF cur, CurrentPackage
      <3> QED BY <3>1, <3>2
    <2>3. i = s.batch => n \in 1 .. len BY <2>1
    <2>4. /\ Passed(t, p) <=> i < t.batch \/ (i = t.batch /\ n < t.package)
          /\ Passed(s, p) <=> i < s.batch \/ (i = s.batch /\ n < s.package)
      BY DEF Passed
    <2> HIDE DEF i, n, len
    <2> SUFFICES (i < t.batch \/ (i = t.batch /\ n < t.package))
                   <=> i < s.batch \/ (i = s.batch /\ n < s.package) \/ (i = s.batch /\ n = s.package)
      BY <2>2, <2>4
    <2>5. i \in Nat /\ n \in Nat \ {0} BY <2>1 DEF i, n
    <2>6. CASE t.batch = s.batch /\ t.package = s.package + 1 BY <1>1, <2>5, <2>6
    <2>7. CASE s.package = len /\ t.batch = s.batch + 1 /\ s.batch = Len(Batches)
      <3>1. i <= Len(Batches) BY <2>1, <1>1
      <3> QED BY <1>1, <2>3, <2>5, <2>7, <3>1
    <2>8. CASE s.package = len /\ t.batch = s.batch + 1 /\ t.package = 1
      BY <1>1, <2>3, <2>5, <2>8
    <2> QED BY <1>2, <2>6, <2>7, <2>8
  <1>5. \A p \in Packages : BatchOf(p) < s.batch => Passed(s, p) BY DEF Passed
  <1> QED BY <1>3, <1>4, <1>5 DEF t, cur

\* Staging started in a batch is continued with its next package and in the next batch.
LEMMA SelectNextStages ==
    ASSUME NEW s \in SessionType, HasPackage(s)
    PROVE  LET t == SelectNextPackage(s) IN
           /\ StopsForFailure(t)
           /\ t.batch <= Len(Batches) /\ t.package # 1 => t.batch = s.batch
           /\ t.batch \in s.batch + 1 .. Len(Batches) => t.package = 1
           /\ s.staging => t.staging
           /\ StagingThis(s) =>
                 /\ StagingThis(t)
                 /\ Len(Batches[s.batch]) > 1 /\ s.stagingThis => t.staging
           /\ \A p \in Packages : Passed(s, p) /\ StagingOf(s, p) => StagingOf(t, p)
  <1> DEFINE t == SelectNextPackage(s)
             len == Len(Batches[s.batch])
  <1>1. /\ s.batch \in 1 .. Len(Batches) /\ s.package \in 1 .. len
        /\ Len(Batches) \in Nat /\ len \in Nat
    BY CurrentPackagePlace, LengthFacts
  <1>2. /\ t \in SessionType
        /\ t.skip = s.skip /\ t.responses = s.responses /\ t.stagingNext = s.stagingNext
        /\ \/ /\ s.package < len
              /\ t.batch = s.batch /\ t.package = s.package + 1
              /\ t.stagingThis = s.stagingThis /\ t.staging = (s.staging \/ s.stagingThis)
           \/ /\ s.package = len
              /\ t.staging = s.staging
              /\ \/ /\ s.skip /\ s.responses # {}
                    /\ t.batch = s.batch /\ t.package = s.package + 1
                    /\ t.stagingThis = s.stagingThis
                 \/ t.batch = s.batch + 1 /\ s.batch = Len(Batches)
                 \/ /\ t.batch = s.batch + 1 /\ s.batch < Len(Batches) /\ t.package = 1
                    /\ t.stagingThis = s.stagingNext
    BY SelectNextCases
  <1>3. s.staging \in BOOLEAN /\ s.stagingThis \in BOOLEAN /\ s.stagingNext \in BOOLEAN
    BY DEF SessionType
  <1> HIDE DEF t
  <1>4. t.batch = s.batch => Len(Batches[t.batch]) = len OBVIOUS
  <1>5. t.batch \in 1 .. Len(Batches) => Len(Batches[t.batch]) \in Nat \ {0} BY LengthFacts
  <1> HIDE DEF len
  <1>6. StopsForFailure(t)
    <2> DEFINE l == Len(Batches[t.batch])
    <2> SUFFICES ASSUME t.batch <= Len(Batches), t.package > l PROVE t.skip /\ t.responses # {}
      BY DEF StopsForFailure
    <2>1. t.batch = s.batch => l = len BY <1>4
    <2>2. t.batch \in 1 .. Len(Batches) => l \in Nat \ {0} BY <1>5
    <2> HIDE DEF l
    <2> QED BY <1>1, <1>2, <2>1, <2>2
  <1>7. /\ t.batch <= Len(Batches) /\ t.package # 1 => t.batch = s.batch
        /\ t.batch \in s.batch + 1 .. Len(Batches) => t.package = 1
    BY <1>1, <1>2
  <1>8. s.staging => t.staging BY <1>2
  <1>9. ASSUME StagingThis(s) PROVE StagingThis(t) /\ (len > 1 /\ s.stagingThis => t.staging)
    <2>1. s.package # 1 /\ len > 1 /\ s.stagingThis => s.staging
      <3>1. s.batch <= Len(Batches) BY <1>1
      <3> QED BY <1>9, <3>1 DEF StagingThis, len
    <2>2. len > 1 /\ s.stagingThis => t.staging
      <3>1. CASE s.package = 1
        <4> SUFFICES ASSUME len > 1, s.stagingThis PROVE t.staging OBVIOUS
        <4>1. s.package # len BY <1>1, <3>1
        <4>2. t.staging = (s.staging \/ s.stagingThis) BY <1>2, <4>1
        <4> QED BY <4>2
      <3>2. CASE s.package # 1 BY <1>8, <2>1, <3>2
      <3> QED BY <3>1, <3>2
    <2>3. StagingThis(t)
      <3> SUFFICES ASSUME t.batch <= Len(Batches), t.package # 1, Len(Batches[t.batch]) > 1, t.stagingThis
                   PROVE  t.staging
        BY DEF StagingThis
      <3>1. t.batch = s.batch BY <1>7
      <3>2. len > 1 BY <3>1, <1>4
      <3>3. t.stagingThis = s.stagingThis
        <4>1. t.batch # s.batch + 1 BY <3>1, <1>1
        <4> QED BY <4>1, <1>2
      <3> QED BY <2>2, <3>2, <3>3
    <2> QED BY <2>2, <2>3
  <1>10. ASSUME NEW p \in Packages, Passed(s, p), StagingOf(s, p) PROVE StagingOf(t, p)
    <2>1. BatchOf(p) \in Nat BY PlaceOfPackage, LengthFacts
    <2>2. s.stagingNext /\ (s.batch \in BatchOf(p) + 1 .. Len(Batches) => s.stagingThis \/ s.staging)
      BY <1>10 DEF StagingOf
    <2>3. t.stagingNext BY <1>2, <2>2
    <2>4. ASSUME t.batch \in BatchOf(p) + 1 .. Len(Batches) PROVE t.stagingThis \/ t.staging
      <3>1. CASE t.batch = s.batch
        <4>1. s.stagingThis \/ s.staging BY <2>2, <2>4, <3>1
        <4>2. t.batch # s.batch + 1 BY <3>1, <1>1
        <4>3. t.stagingThis = s.stagingThis BY <4>2, <1>2
        <4> QED BY <4>1, <4>3, <1>8
      <3>2. CASE t.batch # s.batch
        <4>1. t.batch <= Len(Batches) BY <1>1, <2>1, <2>4
        <4>2. t.stagingThis = s.stagingNext BY <1>1, <1>2, <3>2, <4>1
        <4> QED BY <2>2, <4>2
      <3> QED BY <3>1, <3>2
    <2> QED BY <2>3, <2>4 DEF StagingOf
  <1> QED BY <1>6, <1>7, <1>8, <1>9, <1>10 DEF t, len

\* A session that has no further package without having failed has passed all of them.
LEMMA AllPassed ==
    ASSUME NEW s \in SessionType, StopsForFailure(s), ~HasPackage(s), ~s.skip \/ s.responses = {},
           NEW p \in Packages
    PROVE  Passed(s, p)
  <1>1. s.batch \in 1 .. Len(Batches) + 1 /\ s.package \in Nat \ {0} /\ Len(Batches) \in Nat
    BY LengthFacts DEF SessionType
  <1>2. ~(s.batch <= Len(Batches))
    <2> SUFFICES ASSUME s.batch <= Len(Batches) PROVE FALSE OBVIOUS
    <2>1. s.batch \in 1 .. Len(Batches) BY <1>1
    <2> DEFINE l == Len(Batches[s.batch])
    <2>2. l \in Nat BY <2>1, LengthFacts
    <2>3. ~(s.package <= l) BY <2>1 DEF HasPackage
    <2>4. ~(s.package > l) BY <2>1 DEF StopsForFailure
    <2> HIDE DEF l
    <2> QED BY <1>1, <2>2, <2>3, <2>4
  <1>3. BatchOf(p) \in 1 .. Len(Batches) BY PlaceOfPackage
  <1>4. BatchOf(p) < s.batch BY <1>1, <1>2, <1>3
  <1> QED BY <1>4 DEF Passed

\* What holds of a session and is kept by going on from irrelevant packages holds
\* when the loop over irrelevant packages ends.
LEMMA SkipInvariant ==
    ASSUME NEW relevant, NEW P, NEW s \in P,
           \A t \in P : IsValid(t) /\ ~IsRelevant(CurrentPackage(t), relevant) => SelectNextPackage(t) \in P
    PROVE  SkipIrrelevant(s, relevant) \in P
  <1> DEFINE more(t) == IsValid(t) /\ ~IsRelevant(CurrentPackage(t), relevant)
             step == [t \in P |-> IF more(t) THEN SelectNextPackage(t) ELSE t]
             body(f) == [n \in Nat |-> IF n = 0 THEN s
                           ELSE IF more(f[n - 1]) THEN SelectNextPackage(f[n - 1]) ELSE f[n - 1]]
             skipped == CHOOSE f : f = body(f)
  <1>1. step \in [P -> P] OBVIOUS
  <1>2. PICK f : f = [n \in Nat |-> IF n = 0 THEN s ELSE step[f[n - 1]]]
    <2> HIDE DEF step
    <2> QED BY <1>1, Iteration
  <1>3. f[0] = s /\ \A n \in Nat : f[n + 1] = step[f[n]]
    <2> HIDE DEF step
    <2>1. \A n \in Nat : f[n] = IF n = 0 THEN s ELSE step[f[n - 1]] BY <1>2
    <2>2. \A n \in Nat : n + 1 \in Nat /\ n + 1 # 0 /\ (n + 1) - 1 = n OBVIOUS
    <2> QED BY <2>1, <2>2
  <1>4. \A n \in Nat : f[n] \in P
    <2> DEFINE S == {n \in Nat : f[n] \in P}
    <2>1. 0 \in S BY <1>3
    <2>2. \A n \in Nat : n \in S => n + 1 \in S
      <3> HIDE DEF step
      <3> QED BY <1>1, <1>3
    <2>3. Nat \subseteq S
      <3> HIDE DEF S
      <3> QED BY <2>1, <2>2, Induction
    <2> QED BY <2>3
  <1>5. f = body(f)
    <2>1. \A n \in Nat : n # 0 => f[n - 1] \in P /\ step[f[n - 1]] = IF more(f[n - 1]) THEN SelectNextPackage(f[n - 1]) ELSE f[n - 1]
      <3> HIDE DEF more
      <3>1. \A n \in Nat : n # 0 => n - 1 \in Nat OBVIOUS
      <3> QED BY <1>4, <3>1
    <2>2. f = [n \in Nat |-> IF n = 0 THEN s ELSE step[f[n - 1]]] BY <1>2
    <2> HIDE DEF step, more
    <2> QED BY <2>1, <2>2
  <1>6. skipped = body(skipped)
    <2> HIDE DEF body
    <2> QED BY <1>5
  <1>7. \A n \in Nat : skipped[n] \in P
    <2> DEFINE S == {n \in Nat : skipped[n] \in P}
    <2> HIDE DEF skipped
    <2>1. 0 \in S BY <1>6
    <2>2. ASSUME NEW n \in Nat, n \in S PROVE n + 1 \in S
      <3>1. n + 1 \in Nat /\ n + 1 # 0 /\ (n + 1) - 1 = n OBVIOUS
      <3>2. skipped[n + 1] = IF more(skipped[n]) THEN SelectNextPackage(skipped[n]) ELSE skipped[n]
        <4> HIDE DEF more
        <4> QED BY <1>6, <3>1
      <3>3. skipped[n] \in P BY <2>2
      <3>4. skipped[n + 1] \in P BY <3>2, <3>3
      <3> QED BY <3>1, <3>4
    <2>3. Nat \subseteq S
      <3> HIDE DEF S
      <3> QED BY <2>1, <2>2, Induction
    <2> QED BY <2>3
  <1>8. Cardinality(Packages) \in Nat BY BatchAssumption, FS_CardinalityType
  <1>9. SkipIrrelevant(s, relevant) = skipped[Cardinality(Packages)]
    BY DEF SkipIrrelevant
  <1> HIDE DEF skipped
  <1> QED BY <1>7, <1>8, <1>9

-----------------------------------------------------------------------------
(* The inductive invariant, and what its parts need of a step.             *)

\* Packages whose sources are being downloaded.
Active == {p \in Packages : active[p] # "none"}

\* The job deals with its current package.
AtPackage == job.pc \in {"invoke", "chroot", "build", "add", "sign", "repo"}

\* There is either no job or no download.
Phases ==
    /\ job.pc # "none" => result = "none"
    /\ result # "none" \/ job.pc # "none" => \A p \in Packages : active[p] = "none"
    /\ StopsForFailure(downloads.session) /\ StopsForFailure(job.session)

\* Every package passed by the session has been attempted or is being downloaded,
\* and only if there are no more the downloads become fewer.
DownloadsRight ==
    Downloading =>
        /\ ~downloads.session.skip
        /\ \A p \in Packages : active[p] # "none" => Passed(downloads.session, p)
        /\ \A p \in Relevant : Passed(downloads.session, p) /\ active[p] = "none" /\ DownloadNeeded(p)
                                  => progress[p].error \/ blocked
        /\ \/ downloads.slots + Cardinality(Active) = MaxParallelDownloads
           \/ \A p \in Relevant : Passed(downloads.session, p)

\* What the progress says of a package has happened before: it is only marked as
\* added when a database has it, and repo-add is only invoked for the databases of
\* the current package.
StoredRight ==
    /\ \A p \in Packages :
          /\ stored[p] \subseteq Databases(p)
          /\ disk[p].addedToRepo \/ progress[p].addedToRepo => stored[p] # {}
    /\ job.pc \in {"chroot", "build", "add", "sign"} => ~progress[Pkg].addedToRepo
    /\ job.pc = "sign" => job.repoAdds = Databases(Pkg)
    /\ job.pc = "repo" =>
          /\ job.repoAdds \subseteq Databases(Pkg)
          /\ progress[Pkg].addedToRepo \/ ~progress[Pkg].error \/ Pkg \notin job.session.responses
                => Databases(Pkg) \ job.repoAdds \subseteq stored[Pkg]

\* Packages to be built in batches before batch i.
Before(i) == {p \in Relevant : BatchOf(p) < i}

\* Unless asked to continue after failures, a session that is within a batch has
\* left nothing undone in the previous ones.
BarrierAt(s) ==
    s.skip /\ s.batch <= Len(Batches) /\ s.package # 1 => \A p \in Before(s.batch) : InRepository(p)

\* The package has been dealt with.
Settles(s, p) == InRepository(p) \/ p \in s.responses

\* Every package the build session has passed is in the repository or has been
\* recorded as failed, except for the current one.
JobRight ==
    job.pc # "none" =>
        /\ job.session.skip = ~params.asFarAsPossible
        /\ AtPackage =>
              /\ Pkg \in Packages /\ Passed(job.session, Pkg)
              /\ job.session.batch \in BatchOf(Pkg) + 1 .. Len(Batches) => job.session.package = 1
              /\ job.session.skip => \A p \in Before(BatchOf(Pkg)) : InRepository(p)
        /\ \A p \in Relevant :
              Passed(job.session, p) /\ ~(AtPackage /\ p = Pkg) => Settles(job.session, p)
        /\ BarrierAt(job.session)
        /\ job.pc = "end" /\ job.session.responses = {} => \A p \in Relevant : Passed(job.session, p)

\* An error alone may be missing in the dumped progress.
SameButError(f, g) == \A p \in Packages : [f[p] EXCEPT !.error = FALSE] = [g[p] EXCEPT !.error = FALSE]

\* Between packages everything but errors has been dumped.
SavedRight ==
    result # "none" \/ job.pc \in {"next", "invoke", "chroot", "build", "end"} => SameButError(disk, progress)

\* Package p is known to need staging.
Known(p) ==
    /\ progress[p].stagingNeeded = "Yes"
    /\ IF AtPackage /\ p = Pkg THEN job.pc \in {"sign", "repo"} ELSE progress[p].addedToRepo

\* The session knows of every package built so far that needs staging, and it has
\* begun to stage in time.
StagingRight ==
    job.pc # "none" /\ params.autoStaging =>
        /\ \A p \in Relevant : Known(p) => StagingOf(job.session, p)
        /\ StagingThis(job.session)
        /\ AtPackage /\ Len(Batches[BatchOf(Pkg)]) > 1 =>
              \A p \in Before(BatchOf(Pkg)) : Known(p) => job.session.staging
        /\ job.pc \in {"sign", "repo"} /\ job.session.staging => job.staged

\* The invariant as a whole is inductive: the properties the run checks in the
\* first line, what they rest on in the second.
IInv ==
    /\ TypeOK /\ DownloadLimit /\ SourcesAttempted /\ AddedOnlyIfStored /\ SuccessMeansStored
    /\ Phases /\ DownloadsRight /\ StoredRight /\ JobRight /\ SavedRight /\ StagingRight

\* The parts of the state one by one.
LEMMA TypeFacts ==
    ASSUME TypeOK
    PROVE  /\ job \in JobType /\ job.pc \in PCs /\ job.package \in Packages \cup {NoPackage}
           /\ job.session \in SessionType /\ job.holds \in BOOLEAN /\ job.dump \in BOOLEAN
           /\ job.staged \in BOOLEAN /\ job.failures \in BOOLEAN
           /\ job.repoAdds \in SUBSET {"packages", "debug"}
           /\ downloads.session \in SessionType /\ downloads.slots \in 0 .. MaxParallelDownloads
           /\ downloads \in [session : SessionType, slots : 0 .. MaxParallelDownloads]
           /\ progress \in [Packages -> ProgressType] /\ disk \in [Packages -> ProgressType]
           /\ params \in Params /\ params \in ParamType /\ params.asFarAsPossible \in BOOLEAN
           /\ params.autoStaging \in BOOLEAN
           /\ active \in [Packages -> {"none", "updpkgsums", "gpg", "makepkg"}]
           /\ stored \in [Packages -> SUBSET {"packages", "debug"}]
           /\ blocked \in BOOLEAN /\ crashed \in BOOLEAN
  <1>1. job \in JobType /\ downloads \in [session : SessionType, slots : 0 .. MaxParallelDownloads]
    BY DEF TypeOK
  <1>2. /\ job.pc \in PCs /\ job.package \in Packages \cup {NoPackage}
        /\ job.session \in SessionType /\ job.holds \in BOOLEAN /\ job.dump \in BOOLEAN
        /\ job.staged \in BOOLEAN /\ job.failures \in BOOLEAN
        /\ job.repoAdds \in SUBSET {"packages", "debug"}
    BY <1>1 DEF JobType
  <1>3. downloads.session \in SessionType /\ downloads.slots \in 0 .. MaxParallelDownloads
    BY <1>1
  <1>4. params \in Params /\ params \in ParamType BY ConductAssumption DEF TypeOK
  <1>5. params.asFarAsPossible \in BOOLEAN /\ params.autoStaging \in BOOLEAN BY <1>4 DEF ParamType
  <1> QED BY <1>1, <1>2, <1>3, <1>4, <1>5 DEF TypeOK

\* A package is added to one database at least.
LEMMA DatabasesFacts ==
    ASSUME NEW p
    PROVE  /\ Databases(p) \in SUBSET {"packages", "debug"}
           /\ Databases(p) # {}
  BY DEF Databases

\* While nothing but downloads goes on only the downloads matter.
LEMMA DownloadFrame ==
    ASSUME IInv, Downloading, UNCHANGED <<disk, params, runs, result, job, stored, crashed>>,
           \A p \in Packages : progress'[p].addedToRepo = progress[p].addedToRepo,
           TypeOK', DownloadLimit', StopsForFailure(downloads'.session), DownloadsRight'
    PROVE  IInv'
  <1>1. job.pc = "none" /\ job' = job /\ result = "none" /\ result' = "none"
    BY DEF Downloading
  <1>2. SourcesAttempted' BY <1>1 DEF SourcesAttempted
  <1>3. AddedOnlyIfStored'
    <2>1. ASSUME NEW p \in Packages, progress'[p].addedToRepo PROVE InRepository(p)'
      <3>1. progress[p].addedToRepo BY <2>1
      <3>2. InRepository(p) BY <3>1, <1>1 DEF IInv, AddedOnlyIfStored
      <3> QED BY <3>2 DEF InRepository
    <2> QED BY <2>1 DEF AddedOnlyIfStored
  <1>4. SuccessMeansStored' BY <1>1 DEF SuccessMeansStored
  <1>5. Phases'
    <2>1. StopsForFailure(job'.session) BY <1>1 DEF IInv, Phases
    <2> QED BY <1>1, <2>1 DEF Phases
  <1>6. StoredRight'
    <2>1. StoredRight BY DEF IInv
    <2> QED BY <1>1, <2>1 DEF StoredRight
  <1>7. JobRight' BY <1>1 DEF JobRight
  <1>8. SavedRight' BY <1>1 DEF SavedRight
  <1>9. StagingRight' BY <1>1 DEF StagingRight
  <1> QED BY <1>2, <1>3, <1>4, <1>5, <1>6, <1>7, <1>8, <1>9 DEF IInv

\* While packages are built nothing but the job matters.
LEMMA BuildFrame ==
    ASSUME IInv, job.pc # "none", job'.pc # "none",
           UNCHANGED <<params, runs, result, downloads, active, crashed>>,
           TypeOK', StopsForFailure(job'.session),
           SourcesAttempted', AddedOnlyIfStored', StoredRight', JobRight', SavedRight', StagingRight'
    PROVE  IInv'
  <1>1. result = "none" /\ result' = "none" BY DEF IInv, Phases
  <1>2. DownloadLimit' BY DEF IInv, DownloadLimit
  <1>3. SuccessMeansStored' BY <1>1 DEF SuccessMeansStored
  <1>4. Phases'
    <2>1. \A p \in Packages : active'[p] = "none" BY DEF IInv, Phases
    <2>2. StopsForFailure(downloads'.session) BY DEF IInv, Phases
    <2> QED BY <1>1, <2>1, <2>2 DEF Phases
  <1>5. DownloadsRight' BY DEF DownloadsRight, Downloading
  <1> QED BY <1>2, <1>3, <1>4, <1>5 DEF IInv

\* The job goes on at the same position, with its current package or done with it.
LEMMA JobStays ==
    ASSUME IInv, job.pc # "none", job'.pc # "none", params' = params,
           Kept(job.session, job'.session),
           \A p \in Packages : InRepository(p) => InRepository(p)',
           AtPackage' => AtPackage /\ job'.package = job.package,
           \A p : AtPackage /\ p = Pkg /\ ~AtPackage' => Settles(job.session, p)',
           job'.pc = "end" =>
              \/ job.pc = "end"
              \/ job.session.responses = {} => \A p \in Relevant : Passed(job.session, p)
    PROVE  JobRight'
  <1> DEFINE s == job.session
             t == job'.session
  <1>1. JobRight /\ TypeOK /\ s \in SessionType BY TypeFacts DEF IInv
  <1>2. Relevant' = Relevant /\ Relevant \subseteq Packages BY DEF Relevant
  <1> DEFINE Earlier(i) == {p \in Relevant : BatchOf(p) < i}
  <1>3. /\ \A i : Before(i) = Earlier(i) /\ Earlier(i) \subseteq Packages
        /\ Before(BatchOf(Pkg))' = Earlier(BatchOf(job'.package))
        /\ Before(job.session.batch)' = Earlier(t.batch)
    BY <1>2 DEF Before, Pkg
  <1>4. \A p : Passed(t, p) <=> Passed(s, p) BY <1>1, KeptFacts
  <1>5. /\ t.batch = s.batch /\ t.package = s.package /\ t.skip = s.skip
        /\ s.responses \subseteq t.responses
    BY DEF Kept
  <1> HIDE DEF s, t, Earlier
  <1>6. t.skip = ~params'.asFarAsPossible BY <1>1, <1>5 DEF JobRight, s
  <1>7. ASSUME AtPackage'
        PROVE  /\ job'.package \in Packages /\ Passed(t, job'.package)
               /\ t.batch \in BatchOf(job'.package) + 1 .. Len(Batches) => t.package = 1
               /\ t.skip => \A p \in Before(BatchOf(Pkg))' : InRepository(p)'
    <2>1. /\ AtPackage /\ job'.package = Pkg /\ Pkg \in Packages /\ Passed(s, Pkg)
          /\ s.batch \in BatchOf(Pkg) + 1 .. Len(Batches) => s.package = 1
          /\ s.skip => \A p \in Before(BatchOf(Pkg)) : InRepository(p)
      BY <1>1, <1>7 DEF JobRight, Pkg, s
    <2>2. ASSUME t.skip, NEW p \in Before(BatchOf(Pkg))' PROVE InRepository(p)'
      <3>1. p \in Earlier(BatchOf(Pkg)) BY <1>3, <2>1, <2>2
      <3> QED BY <1>3, <1>5, <2>1, <2>2, <3>1
    <2> QED BY <1>4, <1>5, <2>1, <2>2
  <1>8. ASSUME NEW p \in Relevant, Passed(t, p), ~(AtPackage' /\ p = job'.package)
        PROVE  InRepository(p)' \/ p \in t.responses
    <2>1. Passed(s, p) /\ p \in Packages BY <1>2, <1>4, <1>8
    <2>2. CASE AtPackage /\ p = Pkg
      <3>1. ~AtPackage' BY <1>8, <2>2 DEF Pkg
      <3>2. Settles(job.session, p)' BY <2>2, <3>1
      <3> QED BY <3>2 DEF Settles, t
    <2>3. CASE ~(AtPackage /\ p = Pkg)
      <3>1. Settles(s, p) BY <1>1, <2>1, <2>3 DEF JobRight, s
      <3> QED BY <3>1, <2>1, <1>5 DEF Settles
    <2> QED BY <2>2, <2>3
  <1>9. BarrierAt(job.session)'
    <2> SUFFICES ASSUME t.skip, t.batch <= Len(Batches), t.package # 1,
                        NEW p \in Before(job.session.batch)'
                 PROVE  InRepository(p)'
      BY DEF BarrierAt, t
    <2>1. BarrierAt(s) BY <1>1 DEF JobRight, s
    <2>2. s.skip /\ s.batch <= Len(Batches) /\ s.package # 1 BY <1>5
    <2>3. p \in Before(s.batch) /\ p \in Packages BY <1>3, <1>5
    <2>4. InRepository(p) BY <2>1, <2>2, <2>3 DEF BarrierAt
    <2> QED BY <2>3, <2>4
  <1>10. ASSUME job'.pc = "end", t.responses = {}
         PROVE  \A p \in Relevant : Passed(t, p)
    <2>1. s.responses = {} BY <1>5, <1>10
    <2>2. \A p \in Relevant : Passed(s, p) BY <1>1, <1>10, <2>1 DEF JobRight, s
    <2> QED BY <1>4, <2>2
  <1>11. \A p \in Relevant' : Passed(t, p) /\ ~(AtPackage' /\ p = job'.package) => Settles(job.session, p)'
    BY <1>2, <1>8 DEF Settles, t
  <1> QED BY <1>2, <1>6, <1>7, <1>9, <1>10, <1>11 DEF JobRight, Pkg, t

\* The same for staging: only the current package may newly need it.
LEMMA StagingStays ==
    ASSUME IInv, job.pc # "none", job'.pc # "none", params' = params,
           Kept(job.session, job'.session),
           AtPackage' => AtPackage /\ job'.package = job.package,
           \A p \in Relevant : Known(p)' =>
               \/ Known(p)
               \/ /\ AtPackage /\ p = Pkg
                  /\ params.autoStaging => 
                        /\ job'.session.stagingNext
                        /\ job'.session.batch \in BatchOf(p) + 1 .. Len(Batches) => job'.session.staging,
           params.autoStaging /\ job'.pc \in {"sign", "repo"} /\ job'.session.staging => job'.staged
    PROVE  StagingRight'
  <1> DEFINE s == job.session
             t == job'.session
  <1>1. StagingRight /\ TypeOK /\ s \in SessionType BY TypeFacts DEF IInv
  <1> SUFFICES ASSUME params.autoStaging
               PROVE  /\ \A p \in Relevant' : Known(p)' => StagingOf(t, p)
                      /\ StagingThis(t)
                      /\ AtPackage' /\ Len(Batches[BatchOf(job'.package)]) > 1 =>
                            \A p \in Before(BatchOf(Pkg))' : Known(p)' => t.staging
                      /\ job'.pc \in {"sign", "repo"} /\ t.staging => job'.staged
    BY DEF StagingRight, Pkg
  <1>2. Relevant' = Relevant /\ Relevant \subseteq Packages BY DEF Relevant
  <1>3. /\ Before(BatchOf(Pkg))' = {p \in Relevant : BatchOf(p) < BatchOf(job'.package)}
        /\ \A i : Before(i) = {p \in Relevant : BatchOf(p) < i}
    BY <1>2 DEF Before, Pkg
  <1>4. /\ StagingThis(s) => StagingThis(t)
        /\ \A p : Passed(t, p) <=> Passed(s, p)
        /\ \A p : StagingOf(s, p) => StagingOf(t, p)
        /\ s.staging => t.staging
    BY <1>1, KeptFacts DEF Kept
  <1>5. \A p \in Relevant : Known(p) => StagingOf(s, p) BY <1>1 DEF StagingRight
  <1>6. StagingThis(s) BY <1>1 DEF StagingRight
  <1>7. ASSUME NEW p \in Relevant, Known(p)' PROVE StagingOf(t, p)
    <2>1. CASE Known(p) BY <1>4, <1>5, <2>1
    <2>2. CASE ~Known(p) BY <1>7, <2>2 DEF StagingOf
    <2> QED BY <2>1, <2>2
  <1>8. ASSUME AtPackage', Len(Batches[BatchOf(job'.package)]) > 1,
               NEW p \in Before(BatchOf(Pkg))', Known(p)'
        PROVE  t.staging
    <2>1. AtPackage /\ job'.package = Pkg BY <1>8 DEF Pkg
    <2>2. p \in Before(BatchOf(Pkg)) /\ p \in Relevant BY <1>3, <1>8, <2>1
    <2>3. p # Pkg
      <3>1. BatchOf(p) < BatchOf(Pkg) /\ BatchOf(p) \in Nat
        BY <1>2, <2>2, PlaceOfPackage, LengthFacts DEF Before
      <3> QED BY <3>1
    <2>4. Known(p) BY <1>8, <2>2, <2>3
    <2>5. s.staging BY <1>1, <1>8, <2>1, <2>2, <2>4 DEF StagingRight
    <2> QED BY <1>4, <2>5
  <1> QED BY <1>2, <1>4, <1>6, <1>7, <1>8

-----------------------------------------------------------------------------
(* Downloads: the parts of a step.                                         *)

\* An error of package p is stored; nothing else changes.
LEMMA ErrorStored ==
    ASSUME NEW f \in [Packages -> ProgressType], NEW p \in Packages,
           NEW g, g = [f EXCEPT ![p].error = TRUE]
    PROVE  /\ g \in [Packages -> ProgressType]
           /\ \A q \in Packages : q # p => g[q] = f[q]
           /\ g[p].error
           /\ \A q \in Packages :
                 /\ f[q].error => g[q].error
                 /\ g[q].addedToRepo = f[q].addedToRepo /\ g[q].finished = f[q].finished
                 /\ g[q].hasSources = f[q].hasSources /\ g[q].stagingNeeded = f[q].stagingNeeded
           /\ SameButError(f, g)
  <1>1. g[p] = [f[p] EXCEPT !.error = TRUE] /\ \A q \in Packages : q # p => g[q] = f[q] OBVIOUS
  <1>2. g \in [Packages -> ProgressType] BY DEF ProgressType
  <1>3. /\ g[p].error
        /\ g[p].addedToRepo = f[p].addedToRepo /\ g[p].finished = f[p].finished
        /\ g[p].hasSources = f[p].hasSources /\ g[p].stagingNeeded = f[p].stagingNeeded
    BY <1>1 DEF ProgressType
  <1>4. ASSUME NEW q \in Packages PROVE [f[q] EXCEPT !.error = FALSE] = [g[q] EXCEPT !.error = FALSE]
    <2>1. CASE q = p
      <3> DEFINE r == f[p]
      <3>1. r \in ProgressType OBVIOUS
      <3>2. g[p] = [r EXCEPT !.error = TRUE] BY <1>1
      <3> HIDE DEF r
      <3>3. [[r EXCEPT !.error = TRUE] EXCEPT !.error = FALSE] = [r EXCEPT !.error = FALSE]
        BY <3>1 DEF ProgressType
      <3> QED BY <2>1, <3>2, <3>3 DEF r
    <2>2. CASE q # p BY <1>1, <2>2
    <2> QED BY <2>1, <2>2
  <1>5. ASSUME NEW q \in Packages
        PROVE  /\ f[q].error => g[q].error
               /\ g[q].addedToRepo = f[q].addedToRepo /\ g[q].finished = f[q].finished
               /\ g[q].hasSources = f[q].hasSources /\ g[q].stagingNeeded = f[q].stagingNeeded
    BY <1>1, <1>3
  <1> QED BY <1>1, <1>2, <1>3, <1>4, <1>5 DEF SameButError

\* The downloads, counted.
LEMMA ActiveFacts ==
    ASSUME TypeOK, active' \in [Packages -> {"none", "updpkgsums", "gpg", "makepkg"}],
           NEW p \in Packages, \A q \in Packages : q # p => active'[q] = active[q]
    PROVE  /\ Cardinality(Active) \in Nat /\ Cardinality(Active') \in Nat
           /\ active[p] = "none" /\ active'[p] # "none" => Cardinality(Active') = Cardinality(Active) + 1
           /\ active[p] # "none" /\ active'[p] = "none" =>
                 Cardinality(Active') = Cardinality(Active) - 1 /\ Cardinality(Active) >= 1
           /\ (active[p] = "none" <=> active'[p] = "none") => Active' = Active
  <1>1. IsFiniteSet(Active) /\ IsFiniteSet(Active')
    <2>1. Active \subseteq Packages /\ Active' \subseteq Packages BY DEF Active
    <2> QED BY <2>1, BatchAssumption, FS_Subset
  <1>2. Cardinality(Active) \in Nat /\ Cardinality(Active') \in Nat BY <1>1, FS_CardinalityType
  <1>3. ASSUME active[p] = "none", active'[p] # "none" PROVE Cardinality(Active') = Cardinality(Active) + 1
    <2>1. Active' = Active \cup {p} /\ p \notin Active BY <1>3 DEF Active
    <2> QED BY <1>1, <2>1, FS_AddElement
  <1>4. ASSUME active[p] # "none", active'[p] = "none"
        PROVE  Cardinality(Active') = Cardinality(Active) - 1 /\ Cardinality(Active) >= 1
    <2>1. Active' = Active \ {p} /\ p \in Active BY <1>4 DEF Active
    <2>2. Cardinality(Active') = Cardinality(Active) - 1 BY <1>1, <2>1, FS_RemoveElement
    <2> QED BY <1>2, <2>2
  <1>5. ASSUME active[p] = "none" <=> active'[p] = "none" PROVE Active' = Active
    BY <1>5 DEF Active
  <1> QED BY <1>2, <1>3, <1>4, <1>5

\* Downloads have gone on to package p, or have dealt with it.
LEMMA DownloadStep ==
    ASSUME IInv, Downloading, params' = params, NEW p \in Packages,
           ~downloads'.session.skip,
           \A q \in Packages : Passed(downloads.session, q) => Passed(downloads'.session, q),
           \A q \in Relevant : Passed(downloads'.session, q) => Passed(downloads.session, q) \/ q = p,
           Passed(downloads'.session, p),
           \A q \in Packages : q # p => progress'[q] = progress[q] /\ active'[q] = active[q],
           blocked => blocked',
           active'[p] = "none" /\ DownloadNeeded(p)' => progress'[p].error \/ blocked',
           downloads'.slots + Cardinality(Active') = downloads.slots + Cardinality(Active)
    PROVE  DownloadsRight' /\ DownloadLimit'
  <1>1. DownloadsRight /\ DownloadLimit BY DEF IInv
  <1>2. Relevant' = Relevant /\ Relevant \subseteq Packages BY DEF Relevant
  <1>3. ASSUME NEW q \in Packages, active'[q] # "none" PROVE Passed(downloads'.session, q)
    <2>1. CASE q = p BY <2>1
    <2>2. CASE q # p
      <3>1. active[q] # "none" BY <1>3, <2>2
      <3>2. Passed(downloads.session, q) BY <1>1, <3>1 DEF DownloadsRight
      <3> QED BY <3>2
    <2> QED BY <2>1, <2>2
  <1>4. ASSUME NEW q \in Relevant, Passed(downloads'.session, q), active'[q] = "none", DownloadNeeded(q)'
        PROVE  progress'[q].error \/ blocked'
    <2>1. CASE q = p BY <1>4, <2>1
    <2>2. CASE q # p
      <3>1. q \in Packages BY <1>2
      <3>2. progress'[q] = progress[q] /\ active'[q] = active[q] BY <2>2, <3>1
      <3>3. Passed(downloads.session, q) BY <1>4, <2>2
      <3>4. DownloadNeeded(q) BY <1>4, <3>2 DEF DownloadNeeded
      <3>5. progress[q].error \/ blocked BY <1>1, <1>4, <3>2, <3>3, <3>4 DEF DownloadsRight
      <3> QED BY <3>2, <3>5
    <2> QED BY <2>1, <2>2
  <1>5. \/ downloads'.slots + Cardinality(Active') = MaxParallelDownloads
        \/ \A q \in Relevant : Passed(downloads'.session, q)
    <2>1. \/ downloads.slots + Cardinality(Active) = MaxParallelDownloads
          \/ \A q \in Relevant : Passed(downloads.session, q)
      BY <1>1 DEF DownloadsRight
    <2> QED BY <1>2, <2>1
  <1>6. DownloadLimit'
    <2>1. downloads.slots + Cardinality(Active) <= MaxParallelDownloads
      BY <1>1 DEF DownloadLimit, Active
    <2>2. downloads'.slots + Cardinality(Active') <= MaxParallelDownloads BY <2>1
    <2> QED BY <2>2 DEF DownloadLimit, Active
  <1> QED BY <1>2, <1>3, <1>4, <1>5, <1>6 DEF DownloadsRight

\* The loop over irrelevant packages.
LEMMA SettledFacts ==
    ASSUME IInv, Downloading
    PROVE  /\ Settled \in SessionType /\ StopsForFailure(Settled) /\ ~Settled.skip
           /\ \A p \in Packages : Passed(downloads.session, p) => Passed(Settled, p)
           /\ \A p \in Relevant : Passed(Settled, p) => Passed(downloads.session, p)
  <1> DEFINE s == downloads.session
             P == {t \in SessionType :
                      /\ StopsForFailure(t) /\ ~t.skip
                      /\ \A p \in Packages : Passed(s, p) => Passed(t, p)
                      /\ \A p \in Relevant : Passed(t, p) => Passed(s, p)}
  <1>1. s \in P
    <2>1. s \in SessionType /\ StopsForFailure(s) BY TypeFacts DEF IInv, Phases
    <2>2. ~s.skip BY DEF IInv, DownloadsRight
    <2> QED BY <2>1, <2>2
  <1>2. ASSUME NEW t \in P, IsValid(t), ~IsRelevant(CurrentPackage(t), params.relevant)
        PROVE  SelectNextPackage(t) \in P
    <2> DEFINE u == SelectNextPackage(t)
               cur == CurrentPackage(t)
    <2>1. t \in SessionType /\ HasPackage(t) BY <1>2 DEF IsValid
    <2>2. u \in SessionType /\ u.skip = t.skip BY <2>1, SelectNextCases
    <2>3. StopsForFailure(u) BY <2>1, SelectNextStages
    <2>4. \A p \in Packages : Passed(u, p) <=> Passed(t, p) \/ p = cur BY <2>1, SelectNextPasses
    <2>5. cur \notin Relevant /\ Relevant \subseteq Packages BY <1>2 DEF Relevant
    <2> HIDE DEF u, cur
    <2>6. \A p \in Packages : Passed(s, p) => Passed(u, p) BY <2>4
    <2>7. \A p \in Relevant : Passed(u, p) => Passed(s, p) BY <2>4, <2>5
    <2>8. ~u.skip BY <2>2
    <2> QED BY <2>2, <2>3, <2>6, <2>7, <2>8 DEF u
  <1> HIDE DEF P
  <1>3. SkipIrrelevant(s, params.relevant) \in P BY <1>1, <1>2, SkipInvariant
  <1>4. Settled \in P BY <1>3 DEF Settled
  <1> QED BY <1>4 DEF P

\* The package enqueueDownloads() continues with is passed only now, hence it is
\* not being downloaded yet.
LEMMA EnqueuedFacts ==
    ASSUME IInv, NEW p \in Packages, Enqueued(p)
    PROVE  LET t == SelectNextPackage(Settled) IN
           /\ Downloading /\ downloads.slots > 0 /\ active[p] = "none"
           /\ t \in SessionType /\ StopsForFailure(t) /\ ~t.skip /\ Passed(t, p)
           /\ \A q \in Packages : Passed(downloads.session, q) => Passed(t, q)
           /\ \A q \in Relevant : Passed(t, q) => Passed(downloads.session, q) \/ q = p
  <1> DEFINE t == SelectNextPackage(Settled)
  <1>1. Downloading /\ downloads.slots > 0 /\ HasPackage(Settled) /\ p = CurrentPackage(Settled)
    BY DEF Enqueued, IsValid
  <1>2. /\ Settled \in SessionType /\ ~Settled.skip
        /\ \A q \in Packages : Passed(downloads.session, q) => Passed(Settled, q)
        /\ \A q \in Relevant : Passed(Settled, q) => Passed(downloads.session, q)
    BY <1>1, SettledFacts
  <1>3. t \in SessionType /\ t.skip = Settled.skip BY <1>1, <1>2, SelectNextCases
  <1>4. StopsForFailure(t) BY <1>1, <1>2, SelectNextStages
  <1>5. /\ ~Passed(Settled, p)
        /\ \A q \in Packages : Passed(t, q) <=> Passed(Settled, q) \/ q = p
    BY <1>1, <1>2, SelectNextPasses
  <1>6. active[p] = "none"
    <2>1. ~Passed(downloads.session, p) BY <1>2, <1>5
    <2> QED BY <1>1, <2>1 DEF IInv, DownloadsRight
  <1>7. Relevant \subseteq Packages BY DEF Relevant
  <1> HIDE DEF t
  <1> QED BY <1>1, <1>2, <1>3, <1>4, <1>5, <1>6, <1>7 DEF t

-----------------------------------------------------------------------------
(* Downloads: every action preserves the invariant.                        *)

\* What is left of IInv after a download action: types, and the step.
LEMMA DownloadEndIInv ==
    ASSUME IInv, Downloading, NEW p \in Packages, active[p] # "none",
           UNCHANGED <<disk, params, runs, result, job, blocked, stored, crashed>>,
           progress' \in [Packages -> ProgressType],
           \A q \in Packages : q # p => progress'[q] = progress[q],
           progress'[p].addedToRepo = progress[p].addedToRepo,
           progress'[p].error \/ progress'[p].hasSources,
           active' = [active EXCEPT ![p] = "none"],
           downloads'.slots = downloads.slots + 1,
           downloads' = [session |-> downloads'.session, slots |-> downloads'.slots],
           Kept(downloads.session, downloads'.session)
    PROVE  IInv'
  <1> DEFINE s == downloads.session
             t == downloads'.session
  <1>1. TypeOK /\ Phases /\ DownloadsRight /\ DownloadLimit BY DEF IInv
  <1>2. s \in SessionType /\ downloads.slots \in 0 .. MaxParallelDownloads BY <1>1, TypeFacts
  <1>3. t \in SessionType /\ t.skip = s.skip BY DEF Kept
  <1>4. \A q : Passed(t, q) <=> Passed(s, q) BY <1>2, KeptFacts
  <1>5. StopsForFailure(t) BY <1>1, <1>2, KeptFacts DEF Phases
  <1>6. /\ active' \in [Packages -> {"none", "updpkgsums", "gpg", "makepkg"}] /\ active'[p] = "none"
        /\ \A q \in Packages : q # p => active'[q] = active[q]
    BY DEF TypeOK, IInv
  <1>7. /\ Cardinality(Active') = Cardinality(Active) - 1 /\ Cardinality(Active) >= 1
        /\ Cardinality(Active) \in Nat
    BY <1>1, <1>6, ActiveFacts
  <1>8. downloads'.slots + Cardinality(Active') = downloads.slots + Cardinality(Active)
    BY <1>2, <1>7
  <1>9. downloads'.slots \in 0 .. MaxParallelDownloads
    <2>1. downloads.slots + Cardinality(Active) <= MaxParallelDownloads
      BY <1>1 DEF DownloadLimit, Active
    <2>2. MaxParallelDownloads \in Nat BY ConductAssumption
    <2> QED BY <1>2, <1>7, <2>1, <2>2
  <1>10. TypeOK'
    <2>1. downloads' \in [session : SessionType, slots : 0 .. MaxParallelDownloads]
      BY <1>3, <1>9
    <2> QED BY <1>1, <1>6, <2>1 DEF TypeOK
  <1>11. DownloadsRight' /\ DownloadLimit'
    <2>1. ~t.skip BY <1>1, <1>3 DEF DownloadsRight
    <2>2. Passed(t, p) BY <1>1, <1>4 DEF DownloadsRight
    <2>3. DownloadNeeded(p)' => progress'[p].error BY DEF DownloadNeeded
    <2>4. Relevant \subseteq Packages BY DEF Relevant
    <2> HIDE DEF s, t
    <2>5. \A q \in Packages : Passed(downloads.session, q) => Passed(downloads'.session, q)
      BY <1>4 DEF s, t
    <2>6. \A q \in Relevant : Passed(downloads'.session, q) => Passed(downloads.session, q) \/ q = p
      BY <1>4 DEF s, t
    <2>7. \A q \in Packages : q # p => progress'[q] = progress[q] /\ active'[q] = active[q]
      BY <1>6
    <2>8. ~downloads'.session.skip /\ Passed(downloads'.session, p) BY <2>1, <2>2 DEF t
    <2> QED BY <2>3, <2>5, <2>6, <2>7, <2>8, <1>8, DownloadStep
  <1>12. \A q \in Packages : progress'[q].addedToRepo = progress[q].addedToRepo OBVIOUS
  <1> HIDE DEF s, t
  <1> QED BY <1>5, <1>10, <1>11, <1>12, DownloadFrame DEF t

\* A download fails.
LEMMA DownloadFailedIInv ==
    ASSUME IInv, Downloading, NEW p \in Packages, active[p] # "none", DownloadFailed(p),
           UNCHANGED <<disk, params, runs, result, job, blocked, stored, crashed>>
    PROVE  IInv'
  <1>1. /\ progress \in [Packages -> ProgressType]
        /\ downloads \in [session : SessionType, slots : 0 .. MaxParallelDownloads]
        /\ downloads.session \in SessionType
    BY TypeFacts DEF IInv
  <1>2. /\ progress' = [progress EXCEPT ![p].error = TRUE]
        /\ active' = [active EXCEPT ![p] = "none"]
        /\ downloads' = [downloads EXCEPT !.slots = @ + 1, !.session = WithResponse(@, p)]
    BY DEF DownloadFailed
  <1>3. /\ progress' \in [Packages -> ProgressType]
        /\ \A q \in Packages : q # p => progress'[q] = progress[q]
    BY <1>1, <1>2, ErrorStored
  <1>6. progress'[p].error /\ progress'[p].addedToRepo = progress[p].addedToRepo
    BY <1>1, <1>2, ErrorStored
  <1>4. /\ downloads'.slots = downloads.slots + 1
        /\ downloads'.session = WithResponse(downloads.session, p)
        /\ downloads' = [session |-> downloads'.session, slots |-> downloads'.slots]
    BY <1>1, <1>2
  <1>5. Kept(downloads.session, downloads'.session) BY <1>1, <1>4, WithResponseKept
  <1> QED BY <1>2, <1>3, <1>4, <1>5, <1>6, DownloadEndIInv

\* A process is followed by another one for the same package.
LEMMA NextProcessIInv ==
    ASSUME IInv, Downloading, NEW p \in Packages, active[p] # "none",
           UNCHANGED <<disk, params, runs, result, job, blocked, stored, crashed, downloads>>,
           progress' \in [Packages -> ProgressType],
           \A q \in Packages : q # p => progress'[q] = progress[q],
           progress'[p].addedToRepo = progress[p].addedToRepo,
           NEW process \in {"gpg", "makepkg"},
           active' = [active EXCEPT ![p] = process]
    PROVE  IInv'
  <1>1. TypeOK /\ Phases /\ DownloadsRight BY DEF IInv
  <1>2. /\ active' \in [Packages -> {"none", "updpkgsums", "gpg", "makepkg"}] /\ active'[p] = process
        /\ \A q \in Packages : q # p => active'[q] = active[q]
    BY <1>1 DEF TypeOK
  <1>3. TypeOK' BY <1>1, <1>2 DEF TypeOK
  <1>4. Active' = Active BY <1>1, <1>2, ActiveFacts
  <1>5. DownloadsRight' /\ DownloadLimit'
    <2>1. ~downloads.session.skip /\ Passed(downloads.session, p) BY <1>1 DEF DownloadsRight
    <2>2. active'[p] # "none" BY <1>2
    <2>3. \A q \in Packages : q # p => progress'[q] = progress[q] /\ active'[q] = active[q]
      BY <1>2
    <2> QED BY <2>1, <2>2, <2>3, <1>4, DownloadStep
  <1>6. StopsForFailure(downloads'.session) BY <1>1 DEF Phases
  <1>7. \A q \in Packages : progress'[q].addedToRepo = progress[q].addedToRepo OBVIOUS
  <1> QED BY <1>3, <1>5, <1>6, <1>7, DownloadFrame

\* enqueueDownloads() goes on to package p.
LEMMA DownloadEnqueuedIInv ==
    ASSUME IInv, NEW p \in Packages, Enqueued(p),
           UNCHANGED <<disk, params, runs, result, job, stored, crashed>>,
           progress' \in [Packages -> ProgressType],
           \A q \in Packages : q # p => progress'[q] = progress[q],
           progress'[p].addedToRepo = progress[p].addedToRepo,
           NEW process \in {"none", "updpkgsums", "gpg", "makepkg"},
           active' = [active EXCEPT ![p] = process],
           downloads' = [session |-> downloads'.session, slots |-> downloads'.slots],
           downloads'.slots = downloads.slots - (IF process = "none" THEN 0 ELSE 1),
           Kept(SelectNextPackage(Settled), downloads'.session),
           blocked' \in BOOLEAN, blocked => blocked',
           process = "none" /\ DownloadNeeded(p)' => progress'[p].error \/ blocked'
    PROVE  IInv'
  <1> DEFINE s == SelectNextPackage(Settled)
             t == downloads'.session
  <1>1. TypeOK BY DEF IInv
  <1>2. /\ Downloading /\ downloads.slots > 0 /\ active[p] = "none"
        /\ s \in SessionType /\ StopsForFailure(s) /\ ~s.skip /\ Passed(s, p)
        /\ \A q \in Packages : Passed(downloads.session, q) => Passed(s, q)
        /\ \A q \in Relevant : Passed(s, q) => Passed(downloads.session, q) \/ q = p
    BY EnqueuedFacts
  <1>3. /\ downloads.slots \in 0 .. MaxParallelDownloads /\ MaxParallelDownloads \in Nat
    BY <1>1, TypeFacts, ConductAssumption
  <1> HIDE DEF s
  <1>4. t \in SessionType /\ ~t.skip BY <1>2 DEF Kept, s
  <1>5. StopsForFailure(t) /\ \A q : Passed(t, q) <=> Passed(s, q) BY <1>2, KeptFacts DEF s
  <1>6. /\ active' \in [Packages -> {"none", "updpkgsums", "gpg", "makepkg"}] /\ active'[p] = process
        /\ \A q \in Packages : q # p => active'[q] = active[q]
    BY <1>1 DEF TypeOK
  <1>7. downloads'.slots \in 0 .. MaxParallelDownloads BY <1>2, <1>3
  <1>8. TypeOK'
    <2>1. downloads' \in [session : SessionType, slots : 0 .. MaxParallelDownloads]
      BY <1>4, <1>7
    <2> QED BY <1>1, <1>6, <2>1 DEF TypeOK
  <1>9. downloads'.slots + Cardinality(Active') = downloads.slots + Cardinality(Active)
    <2>1. /\ Cardinality(Active) \in Nat
          /\ process # "none" => Cardinality(Active') = Cardinality(Active) + 1
          /\ process = "none" => Active' = Active
      BY <1>1, <1>2, <1>6, ActiveFacts
    <2>2. CASE process = "none"
      <3>1. downloads'.slots = downloads.slots BY <1>3, <2>2
      <3> QED BY <2>1, <2>2, <3>1
    <2>3. CASE process # "none"
      <3>1. downloads'.slots = downloads.slots - 1 BY <2>3
      <3> QED BY <2>1, <2>3, <1>3, <3>1
    <2> QED BY <2>2, <2>3
  <1>10. DownloadsRight' /\ DownloadLimit'
    <2>1. \A q \in Packages : Passed(downloads.session, q) => Passed(t, q) BY <1>2, <1>5
    <2>2. \A q \in Relevant : Passed(t, q) => Passed(downloads.session, q) \/ q = p BY <1>2, <1>5
    <2>3. Passed(t, p) BY <1>2, <1>5
    <2>4. \A q \in Packages : q # p => progress'[q] = progress[q] /\ active'[q] = active[q]
      BY <1>6
    <2>5. active'[p] = "none" /\ DownloadNeeded(p)' => progress'[p].error \/ blocked' BY <1>6
    <2> QED BY <1>2, <1>4, <1>9, <2>1, <2>2, <2>3, <2>4, <2>5, DownloadStep
  <1>11. \A q \in Packages : progress'[q].addedToRepo = progress[q].addedToRepo OBVIOUS
  <1> QED BY <1>2, <1>5, <1>8, <1>10, <1>11, DownloadFrame

\* enqueueDownloads() finds no further package.
LEMMA NoFurtherDownloadIInv == ASSUME IInv, NoFurtherDownload PROVE IInv'
  <1>1. /\ Downloading /\ downloads.slots > 0 /\ ~IsValid(Settled)
        /\ downloads' = [downloads EXCEPT !.slots = @ - 1]
        /\ UNCHANGED <<progress, disk, params, runs, result, active, job, blocked, stored, crashed>>
    BY DEF NoFurtherDownload
  <1>2. TypeOK /\ Phases /\ DownloadsRight /\ DownloadLimit BY DEF IInv
  <1>3. /\ downloads \in [session : SessionType, slots : 0 .. MaxParallelDownloads]
        /\ downloads.slots \in 0 .. MaxParallelDownloads /\ MaxParallelDownloads \in Nat
    BY <1>2, TypeFacts, ConductAssumption
  <1>4. downloads'.session = downloads.session /\ downloads'.slots = downloads.slots - 1
    BY <1>1, <1>3
  <1>5. TypeOK'
    <2>1. downloads.slots - 1 \in 0 .. MaxParallelDownloads BY <1>1, <1>3
    <2>2. downloads' \in [session : SessionType, slots : 0 .. MaxParallelDownloads]
      BY <1>1, <1>3, <2>1
    <2> QED BY <1>1, <1>2, <2>2 DEF TypeOK
  <1>6. Active' = Active /\ Cardinality(Active) \in Nat
    <2>1. Active \subseteq Packages BY DEF Active
    <2> QED BY <1>1, <2>1, BatchAssumption, FS_Subset, FS_CardinalityType DEF Active
  <1>7. DownloadLimit'
    <2>1. downloads.slots + Cardinality(Active) <= MaxParallelDownloads
      BY <1>2 DEF DownloadLimit, Active
    <2>2. downloads'.slots + Cardinality(Active') <= MaxParallelDownloads BY <1>3, <1>4, <1>6, <2>1
    <2> QED BY <2>2 DEF DownloadLimit, Active
  <1>8. \A p \in Relevant : Passed(downloads.session, p)
    <2>1. /\ Settled \in SessionType /\ StopsForFailure(Settled) /\ ~Settled.skip
          /\ \A p \in Relevant : Passed(Settled, p) => Passed(downloads.session, p)
      BY <1>1, SettledFacts
    <2>2. ~HasPackage(Settled) BY <1>1, <2>1 DEF IsValid
    <2>3. \A p \in Packages : Passed(Settled, p) BY <2>1, <2>2, AllPassed
    <2>4. Relevant \subseteq Packages BY DEF Relevant
    <2> QED BY <2>1, <2>3, <2>4
  <1>9. DownloadsRight'
    <2>1. Relevant' = Relevant BY <1>1 DEF Relevant
    <2>2. \A p : DownloadNeeded(p)' <=> DownloadNeeded(p) BY <1>1 DEF DownloadNeeded
    <2> QED BY <1>1, <1>2, <1>4, <1>8, <2>1, <2>2 DEF DownloadsRight
  <1>10. StopsForFailure(downloads'.session) BY <1>2, <1>4 DEF Phases
  <1>11. \A p \in Packages : progress'[p].addedToRepo = progress[p].addedToRepo BY <1>1
  <1> QED BY <1>1, <1>5, <1>7, <1>9, <1>10, <1>11, DownloadFrame

\* The same when no process is launched for the package.
LEMMA NotLaunchedIInv ==
    ASSUME IInv, NEW p \in Packages, Enqueued(p),
           UNCHANGED <<disk, params, runs, result, active, job, stored, crashed>>,
           progress' \in [Packages -> ProgressType],
           \A q \in Packages : q # p => progress'[q] = progress[q],
           progress'[p].addedToRepo = progress[p].addedToRepo,
           NEW t, downloads' = [downloads EXCEPT !.session = t],
           Kept(SelectNextPackage(Settled), t),
           blocked' \in BOOLEAN, blocked => blocked',
           DownloadNeeded(p)' => progress'[p].error \/ blocked'
    PROVE  IInv'
  <1>1. /\ downloads \in [session : SessionType, slots : 0 .. MaxParallelDownloads]
        /\ active \in [Packages -> {"none", "updpkgsums", "gpg", "makepkg"}]
        /\ downloads.slots \in 0 .. MaxParallelDownloads
    BY TypeFacts DEF IInv
  <1>2. active[p] = "none" BY EnqueuedFacts
  <1>3. downloads' = [session |-> t, slots |-> downloads.slots] BY <1>1
  <1>4. /\ downloads'.session = t /\ downloads'.slots = downloads.slots
        /\ downloads' = [session |-> downloads'.session, slots |-> downloads'.slots]
    BY <1>3
  <1>5. active = [active EXCEPT ![p] = "none"]
    <2> DEFINE a == [active EXCEPT ![p] = "none"]
    <2>1. a = [q \in Packages |-> a[q]] /\ active = [q \in Packages |-> active[q]] BY <1>1
    <2>2. \A q \in Packages : a[q] = active[q] BY <1>1, <1>2
    <2> HIDE DEF a
    <2>3. [q \in Packages |-> a[q]] = [q \in Packages |-> active[q]] BY <2>2
    <2>4. a = active BY <2>1, <2>3, Zenon
    <2> QED BY <2>4 DEF a
  <1>6. active' = [active EXCEPT ![p] = "none"] BY <1>5
  <1>7. Kept(SelectNextPackage(Settled), downloads'.session) BY <1>4
  <1> DEFINE process == "none"
  <1>8. /\ process \in {"none", "updpkgsums", "gpg", "makepkg"}
        /\ active' = [active EXCEPT ![p] = process]
        /\ process = "none"
    BY <1>6
  <1>9. downloads'.slots = downloads.slots - (IF process = "none" THEN 0 ELSE 1) BY <1>1, <1>4
  <1> HIDE DEF process
  <1> QED BY <1>4, <1>7, <1>8, <1>9, DownloadEnqueuedIInv

\* One of the free slots is used for the next package.
LEMMA EnqueueIInv ==
    ASSUME IInv, NEW p \in Packages,
           SkipDownload(p) \/ PrepareFails(p) \/ StartDownload(p) \/ KeyDirectoryFails(p)
    PROVE  IInv'
  <1> DEFINE s == SelectNextPackage(Settled)
  <1>1. /\ progress \in [Packages -> ProgressType] /\ blocked \in BOOLEAN
        /\ downloads \in [session : SessionType, slots : 0 .. MaxParallelDownloads]
        /\ active \in [Packages -> {"none", "updpkgsums", "gpg", "makepkg"}]
        /\ downloads.slots \in 0 .. MaxParallelDownloads
    BY TypeFacts DEF IInv
  <1>2. Enqueued(p)
    BY DEF SkipDownload, PrepareFails, StartDownload, KeyDirectoryFails
  <1>3. s \in SessionType BY <1>2, EnqueuedFacts
  <1>4. Kept(s, s) /\ Kept(s, WithResponse(s, p)) BY <1>3, KeptItself, WithResponseKept
  <1> HIDE DEF s
  <1>5. CASE SkipDownload(p)
    <2>1. /\ ~DownloadNeeded(p) /\ downloads' = [downloads EXCEPT !.session = s]
          /\ UNCHANGED <<progress, disk, params, runs, result, active, job, blocked, stored, crashed>>
      BY <1>5 DEF SkipDownload, s
    <2>2. ~DownloadNeeded(p)' BY <2>1 DEF DownloadNeeded
    <2> QED BY <1>1, <1>2, <1>4, <2>1, <2>2, NotLaunchedIInv DEF s
  <1>6. CASE PrepareFails(p)
    <2>1. /\ progress' = [progress EXCEPT ![p].error = TRUE]
          /\ downloads' = [downloads EXCEPT !.session = WithResponse(s, p)]
          /\ UNCHANGED <<disk, params, runs, result, active, job, blocked, stored, crashed>>
      BY <1>6 DEF PrepareFails, s
    <2>2. /\ progress' \in [Packages -> ProgressType]
          /\ \A q \in Packages : q # p => progress'[q] = progress[q]
      BY <1>1, <2>1, ErrorStored
    <2>3. progress'[p].error /\ progress'[p].addedToRepo = progress[p].addedToRepo
      BY <1>1, <2>1, ErrorStored
    <2> DEFINE t == WithResponse(s, p)
    <2>4. Kept(SelectNextPackage(Settled), t) BY <1>4 DEF s
    <2>5. downloads' = [downloads EXCEPT !.session = t] /\ blocked' \in BOOLEAN BY <1>1, <2>1
    <2> HIDE DEF t
    <2> QED BY <1>2, <2>1, <2>2, <2>3, <2>4, <2>5, NotLaunchedIInv
  <1>7. CASE StartDownload(p)
    <2> DEFINE process == IF ChecksumsNeeded(p) THEN "updpkgsums" ELSE SourceProcess(p)
    <2>1. /\ downloads' = [session |-> s, slots |-> downloads.slots - 1]
          /\ active' = [active EXCEPT ![p] = process]
          /\ UNCHANGED <<progress, disk, params, runs, result, job, blocked, stored, crashed>>
      BY <1>7 DEF StartDownload, s
    <2>2. process \in {"none", "updpkgsums", "gpg", "makepkg"} /\ process # "none"
      BY DEF SourceProcess
    <2> HIDE DEF process
    <2>3. downloads'.slots = downloads.slots - 1 /\ downloads'.session = s BY <2>1
    <2> QED BY <1>1, <1>2, <1>4, <2>1, <2>2, <2>3, DownloadEnqueuedIInv DEF s
  <1>8. CASE KeyDirectoryFails(p)
    <2>1. /\ blocked' = TRUE /\ downloads' = [downloads EXCEPT !.session = s]
          /\ UNCHANGED <<progress, disk, params, runs, result, active, job, stored, crashed>>
      BY <1>8 DEF KeyDirectoryFails, s
    <2> QED BY <1>1, <1>2, <1>4, <2>1, NotLaunchedIInv DEF s
  <1> QED BY <1>5, <1>6, <1>7, <1>8

\* Success and failure of updpkgsums do not concern the repository.
LEMMA ChecksumsFacts ==
    ASSUME NEW r \in ProgressType
    PROVE  LET s == [r EXCEPT !.checksumsUpdated = TRUE]
               t == [s EXCEPT !.error = TRUE]
           IN  /\ s \in ProgressType /\ s.addedToRepo = r.addedToRepo
               /\ t \in ProgressType /\ t.addedToRepo = r.addedToRepo /\ t.error
  <1> DEFINE s == [r EXCEPT !.checksumsUpdated = TRUE]
             t == [s EXCEPT !.error = TRUE]
  <1>1. s \in ProgressType /\ s.addedToRepo = r.addedToRepo BY DEF ProgressType
  <1> HIDE DEF s
  <1>2. t \in ProgressType /\ t.addedToRepo = s.addedToRepo /\ t.error BY <1>1 DEF ProgressType
  <1> QED BY <1>1, <1>2 DEF s

\* A process of a download has exited.
LEMMA HandlerIInv ==
    ASSUME IInv, NEW p \in Packages, ChecksumsDone(p) \/ KeysImported(p) \/ SourcesDone(p)
    PROVE  IInv'
  <1>1. /\ progress \in [Packages -> ProgressType] /\ blocked \in BOOLEAN
        /\ downloads \in [session : SessionType, slots : 0 .. MaxParallelDownloads]
        /\ downloads.session \in SessionType
    BY TypeFacts DEF IInv
  <1>2. /\ active[p] # "none"
        /\ UNCHANGED <<disk, params, runs, result, job, blocked, stored, crashed>>
    BY DEF ChecksumsDone, KeysImported, SourcesDone
  <1>3. Downloading BY <1>2 DEF IInv, Phases, Downloading
  <1>4. CASE DownloadFailed(p) BY <1>2, <1>3, <1>4, DownloadFailedIInv
  <1>5. ASSUME progress' \in [Packages -> ProgressType],
               \A q \in Packages : q # p => progress'[q] = progress[q],
               progress'[p].addedToRepo = progress[p].addedToRepo,
               progress'[p].error \/ progress'[p].hasSources,
               DownloadEnded(p)
        PROVE  IInv'
    <2>1. /\ active' = [active EXCEPT ![p] = "none"]
          /\ downloads' = [downloads EXCEPT !.slots = @ + 1]
      BY <1>5 DEF DownloadEnded
    <2>2. /\ downloads'.slots = downloads.slots + 1 /\ downloads'.session = downloads.session
          /\ downloads' = [session |-> downloads'.session, slots |-> downloads'.slots]
      BY <1>1, <2>1
    <2>3. Kept(downloads.session, downloads'.session) BY <1>1, <2>2, KeptItself
    <2> QED BY <1>2, <1>3, <1>5, <2>1, <2>2, <2>3, DownloadEndIInv
  <1>6. CASE /\ progress' = [progress EXCEPT ![p].checksumsUpdated = TRUE]
             /\ active' = [active EXCEPT ![p] = SourceProcess(p)]
             /\ UNCHANGED downloads
    <2> DEFINE r == progress[p]
               s == [r EXCEPT !.checksumsUpdated = TRUE]
    <2>1. r \in ProgressType /\ progress' = [progress EXCEPT ![p] = s] BY <1>1, <1>6
    <2>2. s \in ProgressType /\ s.addedToRepo = r.addedToRepo BY <2>1, ChecksumsFacts
    <2> HIDE DEF s
    <2>3. /\ progress' \in [Packages -> ProgressType]
          /\ \A q \in Packages : q # p => progress'[q] = progress[q]
          /\ progress'[p].addedToRepo = progress[p].addedToRepo
      BY <1>1, <2>1, <2>2
    <2>4. SourceProcess(p) \in {"gpg", "makepkg"} BY DEF SourceProcess
    <2> QED BY <1>2, <1>3, <1>6, <2>3, <2>4, NextProcessIInv
  <1>7. CASE /\ progress' = [progress EXCEPT ![p].checksumsUpdated = TRUE, ![p].error = TRUE]
             /\ DownloadEnded(p)
    <2> DEFINE r == progress[p]
               s == [r EXCEPT !.checksumsUpdated = TRUE]
               f == [s EXCEPT !.error = TRUE]
    <2>1. r \in ProgressType /\ progress' = [progress EXCEPT ![p] = f] BY <1>1, <1>7
    <2>2. f \in ProgressType /\ f.addedToRepo = r.addedToRepo /\ f.error BY <2>1, ChecksumsFacts
    <2> HIDE DEF f
    <2>3. /\ progress' \in [Packages -> ProgressType]
          /\ \A q \in Packages : q # p => progress'[q] = progress[q]
          /\ progress'[p].addedToRepo = progress[p].addedToRepo
          /\ progress'[p].error
      BY <1>1, <2>1, <2>2
    <2> QED BY <1>5, <1>7, <2>3
  <1>8. CASE active' = [active EXCEPT ![p] = "makepkg"] /\ UNCHANGED <<progress, downloads>>
    BY <1>1, <1>2, <1>3, <1>8, NextProcessIInv
  <1>9. CASE progress' = [progress EXCEPT ![p].hasSources = TRUE] /\ DownloadEnded(p)
    <2>1. /\ progress' \in [Packages -> ProgressType]
          /\ \A q \in Packages : q # p => progress'[q] = progress[q]
          /\ progress'[p].addedToRepo = progress[p].addedToRepo
          /\ progress'[p].hasSources
      BY <1>1, <1>9 DEF ProgressType
    <2> QED BY <1>5, <1>9, <2>1
  <1> QED BY <1>4, <1>6, <1>7, <1>8, <1>9 DEF ChecksumsDone, KeysImported, SourcesDone

\* All downloads have been dealt with, the first package is built next.
LEMMA DownloadsDoneIInv == ASSUME IInv, DownloadsDone PROVE IInv'
  <1>1. /\ Downloading /\ downloads.slots = 0 /\ ~blocked
        /\ \A p \in Packages : active[p] = "none"
        /\ disk' = progress
        /\ UNCHANGED <<progress, params, runs, downloads, active, blocked, stored, crashed>>
    BY DEF DownloadsDone
  <1>2. \/ result' = "Error" /\ job' = job
        \/ /\ result' = result
           /\ job' = [NoJob EXCEPT !.pc = "next", !.session = NewSession(~params.asFarAsPossible)]
    BY DEF DownloadsDone
  <1>3. TypeOK /\ Phases /\ DownloadsRight /\ AddedOnlyIfStored /\ StoredRight BY DEF IInv
  <1>4. job.pc = "none" /\ result = "none" BY <1>1 DEF Downloading
  <1>5. job \in JobType /\ NoPackage \in Packages \cup {NoPackage} BY <1>3, TypeFacts
  <1>6. DownloadLimit' BY <1>1 DEF IInv, DownloadLimit
  <1>7. StopsForFailure(downloads'.session) BY <1>1, <1>3 DEF Phases
  <1>8. \A p \in Relevant : DownloadNeeded(p) => progress[p].error
    <2>1. Active = {} BY <1>1 DEF Active
    <2>2. Cardinality(Active) = 0 BY <2>1, FS_EmptySet
    <2>3. MaxParallelDownloads \in Nat \ {0} BY ConductAssumption
    <2>4. downloads.slots + Cardinality(Active) # MaxParallelDownloads BY <1>1, <2>2, <2>3
    <2>5. \A p \in Relevant : Passed(downloads.session, p) BY <1>1, <1>3, <2>4 DEF DownloadsRight
    <2>6. Relevant \subseteq Packages BY DEF Relevant
    <2> QED BY <1>1, <1>3, <2>5, <2>6 DEF DownloadsRight
  <1>9. AddedOnlyIfStored' /\ StoredRight'
    <2>1. job'.pc \in {"none", "next"} BY <1>2, <1>4 DEF NoJob
    <2>2. ASSUME NEW p \in Packages, progress[p].addedToRepo PROVE InRepository(p)'
      BY <1>1, <1>3, <1>4, <2>2 DEF AddedOnlyIfStored, InRepository
    <2>3. AddedOnlyIfStored' BY <1>1, <2>2 DEF AddedOnlyIfStored
    <2>4. StoredRight' BY <1>1, <1>3, <2>1 DEF StoredRight
    <2> QED BY <2>3, <2>4
  <1>10. SavedRight' BY <1>1 DEF SavedRight, SameButError
  <1>11. CASE result' = "Error" /\ job' = job
    <2>1. TypeOK' BY <1>1, <1>3, <1>11 DEF TypeOK
    <2>2. SourcesAttempted' /\ JobRight' /\ StagingRight' /\ SuccessMeansStored' /\ DownloadsRight'
      BY <1>4, <1>11 DEF SourcesAttempted, JobRight, StagingRight, SuccessMeansStored,
                         DownloadsRight, Downloading
    <2>3. Phases' BY <1>1, <1>3, <1>4, <1>7, <1>11 DEF Phases
    <2> QED BY <1>6, <1>9, <1>10, <2>1, <2>2, <2>3 DEF IInv
  <1>12. CASE /\ result' = result
              /\ job' = [NoJob EXCEPT !.pc = "next", !.session = NewSession(~params.asFarAsPossible)]
    <2> DEFINE s == NewSession(~params.asFarAsPossible)
    <2>1. (~params.asFarAsPossible) \in BOOLEAN BY <1>3, TypeFacts
    <2>2. /\ s \in SessionType /\ s.skip = ~params.asFarAsPossible /\ s.package = 1
          /\ StopsForFailure(s) /\ \A p \in Packages : ~Passed(s, p)
      BY <2>1, NewSessionFacts
    <2> HIDE DEF s
    <2>3. job' = [pc |-> "next", package |-> NoPackage, session |-> s, failures |-> FALSE,
                  holds |-> FALSE, dump |-> FALSE, staged |-> FALSE, repoAdds |-> {}]
      BY <1>12 DEF NoJob, s
    <2>4. job' \in JobType BY <2>2, <2>3 DEF JobType, PCs
    <2>5. job'.pc = "next" /\ job'.session = s BY <2>3
    <2>6. TypeOK' BY <1>1, <1>3, <1>12, <2>4 DEF TypeOK
    <2>7. Relevant' = Relevant /\ Relevant \subseteq Packages BY <1>1 DEF Relevant
    <2>8. SourcesAttempted'
      <3>1. \A p : DownloadNeeded(p)' <=> DownloadNeeded(p) BY <1>1 DEF DownloadNeeded
      <3> QED BY <1>1, <1>8, <2>7, <3>1 DEF SourcesAttempted
    <2>9. SuccessMeansStored' /\ DownloadsRight'
      BY <1>4, <1>12, <2>5 DEF SuccessMeansStored, DownloadsRight, Downloading
    <2>10. Phases' BY <1>1, <1>4, <1>7, <1>12, <2>2, <2>5 DEF Phases
    <2>11. ~AtPackage' /\ job'.pc # "end" BY <2>5 DEF AtPackage
    <2>12. JobRight'
      <3>1. BarrierAt(job.session)' BY <2>2, <2>5 DEF BarrierAt
      <3> QED BY <1>1, <2>2, <2>5, <2>7, <2>11, <3>1 DEF JobRight
    <2>13. StagingRight'
      <3>1. StagingThis(s) BY <2>2 DEF StagingThis
      <3>2. \A p \in Packages : StagingOf(s, p) BY <2>2 DEF StagingOf
      <3> QED BY <2>5, <2>7, <2>11, <3>1, <3>2 DEF StagingRight
    <2> QED BY <1>6, <1>9, <1>10, <2>6, <2>8, <2>9, <2>10, <2>12, <2>13 DEF IInv
  <1> QED BY <1>2, <1>11, <1>12

-----------------------------------------------------------------------------
(* Beginning and end of a run, restarts.                                   *)

\* Without a job there is nothing to be said about it.
LEMMA NoJobFacts ==
    /\ NoJob \in JobType /\ NoJob.pc = "none" /\ StopsForFailure(NoJob.session)
    /\ ~NoJob.dump /\ NoJob.session \in SessionType
  <1> DEFINE s == NewSession(FALSE)
  <1>1. s \in SessionType /\ StopsForFailure(s) BY NewSessionFacts
  <1>2. NoPackage \in Packages \cup {NoPackage} OBVIOUS
  <1> HIDE DEF s
  <1>3. NoJob = [pc |-> "none", package |-> NoPackage, session |-> s, failures |-> FALSE,
                 holds |-> FALSE, dump |-> FALSE, staged |-> FALSE, repoAdds |-> {}]
    BY DEF NoJob, s
  <1> QED BY <1>1, <1>2, <1>3 DEF JobType, PCs

\* Without an active download all slots are free.
LEMMA NothingActive ==
    ASSUME \A p \in Packages : active[p] = "none"
    PROVE  Active = {} /\ Cardinality(Active) = 0
  <1>1. Active = {} BY DEF Active
  <1> QED BY <1>1, FS_EmptySet

\* The action has not been started yet.
LEMMA InitIInv == Init => IInv
  <1> SUFFICES ASSUME Init PROVE IInv OBVIOUS
  <1>1. /\ progress = [p \in Packages |-> NoProgress] /\ disk = progress
        /\ params \in Params /\ runs = 0 /\ result = "Error"
        /\ downloads = [session |-> NewSession(FALSE), slots |-> 0]
        /\ active = [p \in Packages |-> "none"] /\ job = NoJob /\ blocked = FALSE
        /\ stored = [p \in Packages |-> {}] /\ crashed = FALSE
    BY DEF Init
  <1>2. NewSession(FALSE) \in SessionType /\ StopsForFailure(NewSession(FALSE))
    BY NewSessionFacts
  <1>3. MaxParallelDownloads \in Nat /\ MaxRuns \in Nat BY ConductAssumption
  <1>4. job.pc = "none" /\ job \in JobType /\ StopsForFailure(job.session) BY <1>1, NoJobFacts
  <1>5. NoProgress \in ProgressType /\ ~NoProgress.addedToRepo BY DEF NoProgress, ProgressType
  <1>6. TypeOK
    <2>1. downloads \in [session : SessionType, slots : 0 .. MaxParallelDownloads]
      <3> DEFINE s == NewSession(FALSE)
      <3>1. s \in SessionType BY <1>2
      <3>2. 0 \in 0 .. MaxParallelDownloads BY <1>3
      <3> HIDE DEF s
      <3>3. downloads = [session |-> s, slots |-> 0] BY <1>1 DEF s
      <3> QED BY <3>1, <3>2, <3>3
    <2>2. /\ progress \in [Packages -> ProgressType] /\ disk \in [Packages -> ProgressType]
          /\ active \in [Packages -> {"none", "updpkgsums", "gpg", "makepkg"}]
          /\ stored \in [Packages -> SUBSET {"packages", "debug"}]
      BY <1>1, <1>5
    <2>3. runs \in 0 .. MaxRuns BY <1>1, <1>3
    <2>4. params \in Params /\ result \in {"none", "Success", "Error"} BY <1>1
    <2>5. blocked \in BOOLEAN /\ crashed \in BOOLEAN BY <1>1
    <2> QED BY <1>4, <2>1, <2>2, <2>3, <2>4, <2>5 DEF TypeOK
  <1>7. \A p \in Packages : active[p] = "none" BY <1>1
  <1>8. DownloadLimit
    <2>1. Cardinality(Active) = 0 /\ downloads.slots = 0 BY <1>1, <1>7, NothingActive
    <2>2. downloads.slots + Cardinality(Active) <= MaxParallelDownloads BY <1>3, <2>1
    <2> QED BY <2>2 DEF DownloadLimit, Active
  <1>9. \A p \in Packages : ~progress[p].addedToRepo /\ ~disk[p].addedToRepo /\ stored[p] = {}
    BY <1>1, <1>5
  <1>10. SourcesAttempted /\ AddedOnlyIfStored /\ SuccessMeansStored
    BY <1>1, <1>4, <1>9 DEF SourcesAttempted, AddedOnlyIfStored, SuccessMeansStored
  <1>11. Phases BY <1>1, <1>2, <1>4, <1>7 DEF Phases
  <1>12. DownloadsRight BY <1>1 DEF DownloadsRight, Downloading
  <1>13. StoredRight BY <1>4, <1>9 DEF StoredRight
  <1>14. JobRight /\ StagingRight BY <1>4 DEF JobRight, StagingRight
  <1>15. SavedRight BY <1>1 DEF SavedRight, SameButError
  <1> QED BY <1>6, <1>8, <1>10, <1>11, <1>12, <1>13, <1>14, <1>15 DEF IInv

\* Parameters are rejected before anything is done.
LEMMA RejectIInv == ASSUME IInv, Reject PROVE IInv'
  <1>1. /\ result # "none" /\ runs < MaxRuns /\ runs' = runs + 1 /\ result' = "Error"
        /\ UNCHANGED <<progress, disk, params, downloads, active, job, blocked, stored, crashed>>
    BY DEF Reject, Idle
  <1>2. job.pc = "none" BY <1>1 DEF IInv, Phases
  <1>3. TypeOK' BY <1>1, ConductAssumption DEF IInv, TypeOK
  <1>4. DownloadLimit' BY <1>1 DEF IInv, DownloadLimit
  <1>5. SourcesAttempted' /\ JobRight' /\ StagingRight' /\ SuccessMeansStored' /\ DownloadsRight'
    BY <1>1, <1>2 DEF SourcesAttempted, JobRight, StagingRight, SuccessMeansStored,
                      DownloadsRight, Downloading
  <1>6. AddedOnlyIfStored' BY <1>1, <1>2 DEF IInv, AddedOnlyIfStored, InRepository
  <1>7. Phases' BY <1>1, <1>2 DEF IInv, Phases
  <1>8. StoredRight' BY <1>1, <1>2 DEF IInv, StoredRight
  <1>9. SavedRight' BY <1>1 DEF IInv, SavedRight
  <1> QED BY <1>3, <1>4, <1>5, <1>6, <1>7, <1>8, <1>9 DEF IInv

\* What has been added is told by the progress alone.
LEMMA SameAdded ==
    ASSUME NEW f \in [Packages -> ProgressType], NEW g \in [Packages -> ProgressType],
           SameButError(f, g), NEW p \in Packages
    PROVE  f[p].addedToRepo = g[p].addedToRepo
  <1> DEFINE a == f[p]
             b == g[p]
  <1>1. a \in ProgressType /\ b \in ProgressType OBVIOUS
  <1>2. [a EXCEPT !.error = FALSE] = [b EXCEPT !.error = FALSE] BY DEF SameButError
  <1> HIDE DEF a, b
  <1>3. [a EXCEPT !.error = FALSE].addedToRepo = [b EXCEPT !.error = FALSE].addedToRepo BY <1>2
  <1>4. a.addedToRepo = b.addedToRepo BY <1>1, <1>3 DEF ProgressType
  <1> QED BY <1>4 DEF a, b

\* The progress restored when the action is started again tells what had been achieved.
LEMMA StartIInv == ASSUME IInv, Start PROVE IInv'
  <1>1. /\ result # "none" /\ runs < MaxRuns /\ runs' = runs + 1 /\ params' \in Params
        /\ progress' = disk /\ result' = "none"
        /\ downloads' = [session |-> NewSession(FALSE), slots |-> MaxParallelDownloads]
        /\ job' = NoJob
        /\ UNCHANGED <<disk, active, blocked, stored, crashed>>
    BY DEF Start, Idle
  <1>2. TypeOK /\ Phases /\ SavedRight /\ StoredRight /\ AddedOnlyIfStored BY DEF IInv
  <1>3. job.pc = "none" /\ \A p \in Packages : active[p] = "none" BY <1>1, <1>2 DEF Phases
  <1>4. job' \in JobType /\ job'.pc = "none" /\ StopsForFailure(job'.session) BY <1>1, NoJobFacts
  <1> DEFINE s == NewSession(FALSE)
  <1>5. /\ s \in SessionType /\ StopsForFailure(s) /\ ~s.skip
        /\ \A p \in Packages : ~Passed(s, p)
    BY NewSessionFacts
  <1> HIDE DEF s
  <1>6. downloads' = [session |-> s, slots |-> MaxParallelDownloads] BY <1>1 DEF s
  <1>7. MaxParallelDownloads \in Nat BY ConductAssumption
  <1>8. TypeOK'
    <2>1. downloads' \in [session : SessionType, slots : 0 .. MaxParallelDownloads]
      BY <1>5, <1>6, <1>7
    <2>2. runs' \in 0 .. MaxRuns BY <1>1, <1>2, ConductAssumption DEF TypeOK
    <2> QED BY <1>1, <1>2, <1>4, <2>1, <2>2 DEF TypeOK
  <1>9. Active' = {} /\ Cardinality(Active') = 0
    <2>1. Active' = {} BY <1>1, <1>3 DEF Active
    <2> QED BY <2>1, FS_EmptySet
  <1>10. downloads'.slots + Cardinality(Active') = MaxParallelDownloads BY <1>6, <1>7, <1>9
  <1>11. DownloadLimit' BY <1>7, <1>10 DEF DownloadLimit, Active
  <1>12. DownloadsRight'
    <2>1. Relevant' \subseteq Packages BY DEF Relevant
    <2>2. ~downloads'.session.skip BY <1>5, <1>6
    <2>3. \A p \in Packages : active'[p] = "none" BY <1>1, <1>3
    <2>4. \A p \in Packages : ~Passed(downloads'.session, p) BY <1>5, <1>6
    <2> QED BY <1>10, <2>1, <2>2, <2>3, <2>4 DEF DownloadsRight
  <1>13. SourcesAttempted' /\ JobRight' /\ StagingRight' /\ SuccessMeansStored' /\ SavedRight'
    BY <1>1, <1>4 DEF SourcesAttempted, JobRight, StagingRight, SuccessMeansStored, SavedRight
  <1>14. AddedOnlyIfStored'
    <2>1. \A p \in Packages : disk[p].addedToRepo = progress[p].addedToRepo
      <3>1. SameButError(disk, progress) BY <1>1, <1>2 DEF SavedRight
      <3>2. disk \in [Packages -> ProgressType] /\ progress \in [Packages -> ProgressType]
        BY <1>2, TypeFacts
      <3> QED BY <3>1, <3>2, SameAdded
    <2>2. ASSUME NEW p \in Packages, progress'[p].addedToRepo PROVE InRepository(p)'
      <3>1. progress[p].addedToRepo BY <1>1, <2>1, <2>2
      <3>2. InRepository(p) BY <1>2, <1>3, <3>1 DEF AddedOnlyIfStored
      <3> QED BY <1>1, <3>2 DEF InRepository
    <2> QED BY <2>2 DEF AddedOnlyIfStored
  <1>15. Phases'
    <2>1. StopsForFailure(downloads'.session) BY <1>5, <1>6
    <2> QED BY <1>1, <1>4, <2>1 DEF Phases
  <1>16. StoredRight'
    <2>1. \A p \in Packages : stored[p] \subseteq Databases(p) /\ (disk[p].addedToRepo => stored[p] # {})
      BY <1>2 DEF StoredRight
    <2> QED BY <1>1, <1>4, <2>1 DEF StoredRight
  <1> QED BY <1>8, <1>11, <1>12, <1>13, <1>14, <1>15, <1>16 DEF IInv

\* A restart of the service loses only what had not been dumped.
LEMMA CrashIInv == ASSUME IInv, Crash PROVE IInv'
  <1>1. /\ result' = "Error" /\ progress' = disk
        /\ downloads' = [downloads EXCEPT !.slots = 0]
        /\ active' = [p \in Packages |-> "none"]
        /\ job' = NoJob /\ blocked' = FALSE /\ crashed' = TRUE
        /\ UNCHANGED <<disk, params, runs, stored>>
    BY DEF Crash
  <1>2. TypeOK /\ Phases /\ StoredRight BY DEF IInv
  <1>3. job' \in JobType /\ job'.pc = "none" /\ StopsForFailure(job'.session) BY <1>1, NoJobFacts
  <1>4. /\ downloads \in [session : SessionType, slots : 0 .. MaxParallelDownloads]
        /\ MaxParallelDownloads \in Nat
    BY <1>2, TypeFacts, ConductAssumption
  <1>5. downloads'.session = downloads.session /\ downloads'.slots = 0 BY <1>1, <1>4
  <1>6. TypeOK'
    <2>1. downloads' \in [session : SessionType, slots : 0 .. MaxParallelDownloads]
      BY <1>1, <1>4
    <2> QED BY <1>1, <1>2, <1>3, <2>1 DEF TypeOK
  <1>7. Active' = {} /\ Cardinality(Active') = 0
    <2>1. Active' = {} BY <1>1 DEF Active
    <2> QED BY <2>1, FS_EmptySet
  <1>8. DownloadLimit'
    <2>1. downloads'.slots + Cardinality(Active') <= MaxParallelDownloads BY <1>4, <1>5, <1>7
    <2> QED BY <2>1 DEF DownloadLimit, Active
  <1>9. SourcesAttempted' /\ JobRight' /\ StagingRight' /\ SuccessMeansStored' /\ DownloadsRight'
    BY <1>1, <1>3 DEF SourcesAttempted, JobRight, StagingRight, SuccessMeansStored,
                      DownloadsRight, Downloading
  <1>10. \A p \in Packages : stored[p] \subseteq Databases(p) /\ (disk[p].addedToRepo => stored[p] # {})
    BY <1>2 DEF StoredRight
  <1>11. AddedOnlyIfStored' BY <1>1, <1>10 DEF AddedOnlyIfStored, InRepository
  <1>12. StoredRight' BY <1>1, <1>3, <1>10 DEF StoredRight
  <1>13. Phases' BY <1>1, <1>2, <1>3, <1>5 DEF Phases
  <1>14. SavedRight' BY <1>1 DEF SavedRight, SameButError
  <1> QED BY <1>6, <1>8, <1>9, <1>11, <1>12, <1>13, <1>14 DEF IInv

\* The progress is dumped, whatever the job does meanwhile.
LEMMA DumpAfterLaunchIInv == ASSUME IInv, DumpAfterLaunch PROVE IInv'
  <1>1. /\ disk' = progress /\ job' = [job EXCEPT !.dump = FALSE]
        /\ UNCHANGED <<progress, params, runs, result, downloads, active, blocked, stored, crashed>>
    BY DEF DumpAfterLaunch
  <1>2. TypeOK /\ Phases /\ StoredRight BY DEF IInv
  <1>3. job \in JobType BY <1>2, TypeFacts
  <1>4. /\ job' \in JobType /\ job'.pc = job.pc /\ job'.package = job.package
        /\ job'.session = job.session /\ job'.staged = job.staged /\ job'.repoAdds = job.repoAdds
    BY <1>1, <1>3 DEF JobType
  <1>5. TypeOK' BY <1>1, <1>2, <1>4 DEF TypeOK
  <1>6. DownloadLimit' BY <1>1 DEF IInv, DownloadLimit
  <1>7. Relevant' = Relevant /\ \A p : DownloadNeeded(p)' <=> DownloadNeeded(p)
    BY <1>1 DEF Relevant, DownloadNeeded
  <1>8. \A p : InRepository(p)' <=> InRepository(p) BY <1>1 DEF InRepository
  <1>9. AtPackage' <=> AtPackage BY <1>4 DEF AtPackage
  <1>10. SourcesAttempted' BY <1>1, <1>4, <1>7 DEF IInv, SourcesAttempted
  <1>11. AddedOnlyIfStored' BY <1>1, <1>4, <1>8 DEF IInv, AddedOnlyIfStored, Pkg
  <1>12. SuccessMeansStored' BY <1>1, <1>7, <1>8 DEF IInv, SuccessMeansStored
  <1>13. Phases' BY <1>1, <1>2, <1>4 DEF Phases
  <1>14. DownloadsRight'
    <2>1. Downloading' <=> Downloading BY <1>1, <1>4 DEF Downloading
    <2>2. Active' = Active BY <1>1 DEF Active
    <2> QED BY <1>1, <1>7, <2>1, <2>2 DEF IInv, DownloadsRight
  <1>15. StoredRight' BY <1>1, <1>2, <1>4 DEF StoredRight, Pkg
  <1>16. SavedRight' BY <1>1 DEF SavedRight, SameButError
  <1>17. JobRight'
    <2>1. CASE job.pc = "none" BY <1>4, <2>1 DEF JobRight
    <2>2. CASE job.pc # "none"
      <3>1. Kept(job.session, job'.session) BY <1>3, <1>4, KeptItself DEF JobType
      <3> QED BY <1>1, <1>4, <1>8, <1>9, <2>2, <3>1, JobStays
    <2> QED BY <2>1, <2>2
  <1>18. StagingRight'
    <2>1. CASE job.pc = "none" BY <1>4, <2>1 DEF StagingRight
    <2>2. CASE job.pc # "none"
      <3>1. Kept(job.session, job'.session) BY <1>3, <1>4, KeptItself DEF JobType
      <3>2. \A p : Known(p)' <=> Known(p) BY <1>1, <1>4, <1>9 DEF Known, Pkg
      <3>3. params.autoStaging /\ job.pc \in {"sign", "repo"} /\ job.session.staging => job.staged
        BY <2>2 DEF IInv, StagingRight
      <3> QED BY <1>1, <1>4, <1>9, <2>2, <3>1, <3>2, <3>3, StagingStays
    <2> QED BY <2>1, <2>2
  <1> QED BY <1>5, <1>6, <1>10, <1>11, <1>12, <1>13, <1>14, <1>15, <1>16, <1>17, <1>18 DEF IInv

\* The run is concluded.
LEMMA BuildsDoneIInv == ASSUME IInv, BuildsDone PROVE IInv'
  <1>1. /\ job.pc = "end" /\ result = "none"
        /\ result' = IF job.session.responses = {} THEN "Success" ELSE "Error"
        /\ job' = [job EXCEPT !.pc = "none"]
        /\ UNCHANGED <<progress, disk, params, runs, downloads, active, blocked, stored, crashed>>
    BY DEF BuildsDone
  <1>2. TypeOK /\ Phases /\ StoredRight /\ JobRight /\ SavedRight BY DEF IInv
  <1>3. job \in JobType BY <1>2, TypeFacts
  <1>4. job' \in JobType /\ job'.pc = "none" /\ job'.session = job.session
    BY <1>1, <1>3 DEF JobType, PCs
  <1>5. result' \in {"Success", "Error"} BY <1>1
  <1>6. TypeOK' BY <1>1, <1>2, <1>4, <1>5 DEF TypeOK
  <1>7. DownloadLimit' BY <1>1 DEF IInv, DownloadLimit
  <1>8. SourcesAttempted' /\ JobRight' /\ StagingRight' /\ DownloadsRight'
    BY <1>4, <1>5 DEF SourcesAttempted, JobRight, StagingRight, DownloadsRight, Downloading
  <1>9. \A p : InRepository(p)' <=> InRepository(p) BY <1>1 DEF InRepository
  <1>10. AddedOnlyIfStored' BY <1>1, <1>9 DEF IInv, AddedOnlyIfStored
  <1>11. SuccessMeansStored'
    <2> SUFFICES ASSUME result' = "Success", NEW p \in Relevant' PROVE InRepository(p)'
      BY DEF SuccessMeansStored
    <2>1. p \in Relevant /\ job.session.responses = {} BY <1>1 DEF Relevant
    <2>2. Passed(job.session, p) BY <1>1, <1>2, <2>1 DEF JobRight
    <2>3. Settles(job.session, p) BY <1>1, <1>2, <2>1, <2>2 DEF JobRight, AtPackage
    <2> QED BY <1>9, <2>1, <2>3 DEF Settles
  <1>12. Phases' BY <1>1, <1>2, <1>4 DEF Phases
  <1>13. StoredRight' BY <1>1, <1>2, <1>4 DEF StoredRight
  <1>14. SavedRight' BY <1>1, <1>2 DEF SavedRight
  <1> QED BY <1>6, <1>7, <1>8, <1>10, <1>11, <1>12, <1>13, <1>14 DEF IInv

\* Nothing happens, or a thread starts to wait for itself.
LEMMA BlockedIInv ==
    ASSUME IInv,
           UNCHANGED <<progress, disk, params, runs, result, downloads, active, job, stored, crashed>>,
           blocked' \in BOOLEAN, blocked => blocked'
    PROVE  IInv'
  <1>1. UNCHANGED <<progress, disk, params, runs, result, downloads, active, job, stored, crashed>>
    OBVIOUS
  <1>2. TypeOK' BY <1>1 DEF IInv, TypeOK
  <1>3. DownloadLimit' BY <1>1 DEF IInv, DownloadLimit
  <1>4. Relevant' = Relevant BY <1>1 DEF Relevant
  <1>5. /\ \A p : InRepository(p)' <=> InRepository(p)
        /\ \A p : DownloadNeeded(p)' <=> DownloadNeeded(p)
    BY <1>1 DEF InRepository, DownloadNeeded
  <1>6. SourcesAttempted' /\ AddedOnlyIfStored' /\ SuccessMeansStored'
    BY <1>1, <1>4, <1>5 DEF IInv, SourcesAttempted, AddedOnlyIfStored, SuccessMeansStored, Pkg
  <1>7. Phases' BY <1>1 DEF IInv, Phases
  <1>8. DownloadsRight'
    <2>1. Active' = Active BY <1>1 DEF Active
    <2> QED BY <1>1, <1>4, <1>5, <2>1 DEF IInv, DownloadsRight, Downloading
  <1>9. StoredRight' BY <1>1 DEF IInv, StoredRight, Pkg
  <1>10. SavedRight' BY <1>1 DEF IInv, SavedRight, SameButError
  <1>11. AtPackage' <=> AtPackage BY <1>1 DEF AtPackage
  <1>12. JobRight'
    <2>1. CASE job.pc = "none" BY <1>1, <2>1 DEF JobRight
    <2>2. CASE job.pc # "none"
      <3>1. Kept(job.session, job'.session) BY <1>1, TypeFacts, KeptItself DEF IInv
      <3> QED BY <1>1, <1>5, <1>11, <2>2, <3>1, JobStays
    <2> QED BY <2>1, <2>2
  <1>13. StagingRight'
    <2>1. CASE job.pc = "none" BY <1>1, <2>1 DEF StagingRight
    <2>2. CASE job.pc # "none"
      <3>1. Kept(job.session, job'.session) BY <1>1, TypeFacts, KeptItself DEF IInv
      <3>2. \A p : Known(p)' <=> Known(p) BY <1>1, <1>11 DEF Known, Pkg
      <3>3. params.autoStaging /\ job.pc \in {"sign", "repo"} /\ job.session.staging => job.staged
        BY <2>2 DEF IInv, StagingRight
      <3> QED BY <1>1, <1>11, <2>2, <3>1, <3>2, <3>3, StagingStays
    <2> QED BY <2>1, <2>2
  <1> QED BY <1>2, <1>3, <1>6, <1>7, <1>8, <1>9, <1>10, <1>12, <1>13 DEF IInv

-----------------------------------------------------------------------------
(* Building: failures.                                                     *)

\* A difference in errors is all there is.
LEMMA SameButErrorFacts ==
    ASSUME NEW f, NEW g, NEW h, SameButError(f, g), SameButError(g, h)
    PROVE  SameButError(f, f) /\ SameButError(f, h)
  BY DEF SameButError

\* A step of the job with its current package that does not run repo-add, or that
\* leaves the package.
LEMMA PackageStep ==
    ASSUME IInv, AtPackage, job.pc # "repo", NEW p \in Packages, p = job.package,
           UNCHANGED <<params, runs, result, downloads, active, stored, crashed>>, blocked' \in BOOLEAN,
           job' \in JobType, job'.package = p, Kept(job.session, job'.session),
           progress' \in [Packages -> ProgressType],
           \A q \in Packages : q # p => progress'[q] = progress[q],
           progress'[p].addedToRepo = progress[p].addedToRepo,
           progress'[p].hasSources = progress[p].hasSources,
           progress[p].finished => progress'[p].finished,
           progress[p].error => progress'[p].error,
           \/ disk' = progress'
           \/ disk' = disk /\ job'.pc \in {"add", "sign", "repo"}
           \/ /\ disk' = disk /\ job.pc \in {"invoke", "chroot", "build"}
              /\ SameButError(progress, progress'),
           \/ /\ job'.pc \in {"chroot", "build", "add", "sign", "repo"}
              /\ ~progress[p].addedToRepo
              /\ job'.pc \in {"sign", "repo"} => job'.repoAdds = Databases(p)
              /\ params.autoStaging /\ job'.pc \in {"sign", "repo"} /\ job'.session.staging => job'.staged
           \/ job'.pc = "next" /\ Settles(job'.session, p),
           Known(p)' => 
               \/ Known(p)
               \/ params.autoStaging =>
                     /\ job'.session.stagingNext
                     /\ job'.session.batch \in BatchOf(p) + 1 .. Len(Batches) => job'.session.staging
    PROVE  IInv'
  <1>1. TypeOK /\ Phases /\ SourcesAttempted /\ AddedOnlyIfStored /\ StoredRight /\ SavedRight
    BY DEF IInv
  <1>2. /\ job.pc # "none" /\ result = "none" /\ job'.pc # "none" /\ job'.pc # "end"
        /\ job.session \in SessionType
    BY <1>1, TypeFacts DEF AtPackage, Phases
  <1>3. disk' \in [Packages -> ProgressType] BY <1>1 DEF TypeOK
  <1>4. TypeOK' BY <1>1, <1>3 DEF TypeOK
  <1>5. StopsForFailure(job'.session) BY <1>1, <1>2, KeptFacts DEF Phases
  <1>6. Relevant' = Relevant /\ Relevant \subseteq Packages BY DEF Relevant
  <1>7. \A q : InRepository(q)' <=> InRepository(q) BY DEF InRepository
  <1>8. SourcesAttempted'
    <2>1. ASSUME NEW q \in Relevant, DownloadNeeded(q)' PROVE progress'[q].error
      <3>1. q \in Packages BY <1>6
      <3>2. CASE q = p
        <4>1. DownloadNeeded(q) BY <2>1, <3>2 DEF DownloadNeeded
        <4> QED BY <1>1, <1>2, <3>2, <4>1 DEF SourcesAttempted
      <3>3. CASE q # p
        <4>1. progress'[q] = progress[q] BY <3>1, <3>3
        <4>2. DownloadNeeded(q) BY <2>1, <4>1 DEF DownloadNeeded
        <4> QED BY <1>1, <1>2, <4>1, <4>2 DEF SourcesAttempted
      <3> QED BY <3>2, <3>3
    <2> QED BY <1>6, <2>1 DEF SourcesAttempted
  <1>9. \A q \in Packages : progress'[q].addedToRepo = progress[q].addedToRepo OBVIOUS
  <1>10. AddedOnlyIfStored'
    <2>1. \A q \in Packages : progress[q].addedToRepo => InRepository(q)
      BY <1>1 DEF AddedOnlyIfStored
    <2> QED BY <1>7, <1>9, <2>1 DEF AddedOnlyIfStored
  <1>11. StoredRight'
    <2>1. ASSUME NEW q \in Packages
          PROVE  /\ stored'[q] \subseteq Databases(q)
                 /\ disk'[q].addedToRepo \/ progress'[q].addedToRepo => stored'[q] # {}
      BY <1>1, <1>9 DEF StoredRight
    <2>2. job'.pc \in {"chroot", "build", "add", "sign"} => ~progress'[job'.package].addedToRepo
      BY <1>9
    <2>3. job'.pc = "sign" => job'.repoAdds = Databases(job'.package) OBVIOUS
    <2>4. job'.pc = "repo" =>
             /\ job'.repoAdds \subseteq Databases(job'.package)
             /\ Databases(job'.package) \ job'.repoAdds \subseteq stored'[job'.package]
      OBVIOUS
    <2> QED BY <2>1, <2>2, <2>3, <2>4 DEF StoredRight, Pkg
  <1>12. SavedRight'
    <2>1. CASE disk' = progress' BY <2>1 DEF SavedRight, SameButError
    <2>2. CASE job'.pc \in {"add", "sign", "repo"} BY <1>2, <2>2 DEF SavedRight
    <2>3. CASE /\ disk' = disk /\ job.pc \in {"invoke", "chroot", "build"}
               /\ SameButError(progress, progress')
      <3>1. SameButError(disk, progress) BY <1>1, <2>3 DEF SavedRight
      <3>2. SameButError(disk', progress') BY <2>3, <3>1, SameButErrorFacts
      <3>3. SameButError(disk, progress)' BY <3>2 DEF SameButError
      <3> QED BY <3>3 DEF SavedRight
    <2> QED BY <2>1, <2>2, <2>3
  <1>13. AtPackage' => job'.pc # "next" BY DEF AtPackage
  <1>14. ~AtPackage' => job'.pc = "next" BY DEF AtPackage
  <1>15. JobRight'
    <2>1. \A q : AtPackage /\ q = Pkg /\ ~AtPackage' => Settles(job.session, q)'
      <3> SUFFICES ASSUME ~AtPackage' PROVE Settles(job.session, p)' BY DEF Pkg
      <3>1. Settles(job'.session, p) BY <1>14
      <3> QED BY <1>7, <3>1 DEF Settles
    <2> QED BY <1>2, <1>7, <2>1, JobStays
  <1>16. StagingRight'
    <2>1. ASSUME NEW q \in Relevant, Known(q)'
          PROVE  \/ Known(q)
                 \/ /\ AtPackage /\ q = Pkg
                    /\ params.autoStaging =>
                          /\ job'.session.stagingNext
                          /\ job'.session.batch \in BatchOf(q) + 1 .. Len(Batches) => job'.session.staging
      <3>1. q \in Packages BY <1>6
      <3>2. CASE q = p BY <2>1, <3>2 DEF Pkg
      <3>3. CASE q # p
        <4>1. progress'[q] = progress[q] /\ q # Pkg /\ q # job'.package BY <3>1, <3>3 DEF Pkg
        <4> QED BY <2>1, <4>1 DEF Known, Pkg
      <3> QED BY <3>2, <3>3
    <2>2. params.autoStaging /\ job'.pc \in {"sign", "repo"} /\ job'.session.staging => job'.staged
      OBVIOUS
    <2> QED BY <1>2, <2>1, <2>2, StagingStays
  <1> QED BY <1>2, <1>4, <1>5, <1>8, <1>10, <1>11, <1>12, <1>15, <1>16, BuildFrame

\* The job goes on with the next package after the current one could not be built.
LEMMA PackageFailedIInv ==
    ASSUME IInv, job.pc \in {"invoke", "chroot", "build", "add", "sign"},
           ~progress[Pkg].addedToRepo,
           UNCHANGED <<params, runs, result, downloads, active, stored, crashed>>, blocked' \in BOOLEAN,
           job' \in JobType, job'.package = Pkg, job'.pc = "next", NEW s, Kept(job.session, s),
           job'.session = WithResponse(s, Pkg),
           progress' = progress \/ progress' = [progress EXCEPT ![Pkg].error = TRUE],
           disk' = progress' \/ (disk' = disk /\ job.pc \in {"invoke", "chroot"})
    PROVE  IInv'
  <1>1. /\ progress \in [Packages -> ProgressType] /\ job.session \in SessionType
    BY TypeFacts DEF IInv
  <1>2. AtPackage /\ job.pc # "none" BY DEF AtPackage
  <1>3. Pkg \in Packages BY <1>2 DEF IInv, JobRight
  <1> PICK p \in Packages : p = Pkg BY <1>3
  <1>4. /\ progress' \in [Packages -> ProgressType]
        /\ \A q \in Packages : q # p => progress'[q] = progress[q]
        /\ \A q \in Packages :
              /\ progress[q].error => progress'[q].error
              /\ progress'[q].addedToRepo = progress[q].addedToRepo
              /\ progress'[q].finished = progress[q].finished
              /\ progress'[q].hasSources = progress[q].hasSources
        /\ SameButError(progress, progress')
    <2>1. CASE progress' = progress
      <3>1. SameButError(progress, progress') BY <2>1 DEF SameButError
      <3> QED BY <1>1, <2>1, <3>1
    <2>2. CASE progress' = [progress EXCEPT ![p].error = TRUE]
      <3>1. progress' \in [Packages -> ProgressType] /\ SameButError(progress, progress')
        BY <1>1, <2>2, ErrorStored
      <3>2. \A q \in Packages : q # p => progress'[q] = progress[q] BY <1>1, <2>2, ErrorStored
      <3>3. \A q \in Packages :
              /\ progress[q].error => progress'[q].error
              /\ progress'[q].addedToRepo = progress[q].addedToRepo
              /\ progress'[q].finished = progress[q].finished
              /\ progress'[q].hasSources = progress[q].hasSources
        BY <1>1, <2>2, ErrorStored
      <3> QED BY <3>1, <3>2, <3>3
    <2> QED BY <2>1, <2>2
  <1>5. s \in SessionType BY DEF Kept
  <1>6. Kept(s, job'.session) /\ p \in job'.session.responses BY <1>5, WithResponseKept
  <1>7. Kept(job.session, job'.session) BY <1>6 DEF Kept
  <1>8. Settles(job'.session, p) BY <1>6 DEF Settles
  <1>9. ~Known(p)'
    <2>1. ~AtPackage' BY DEF AtPackage
    <2>2. ~progress'[p].addedToRepo BY <1>4
    <2> QED BY <2>1, <2>2 DEF Known
  <1>10. p = job.package /\ job'.package = p /\ job.pc # "repo" BY DEF Pkg
  <1> QED BY <1>2, <1>4, <1>7, <1>8, <1>9, <1>10, PackageStep

\* Storing an error under the write lock.
LEMMA FailIInv ==
    ASSUME IInv, job.pc \in {"invoke", "build", "add", "sign"}, ~progress[Pkg].addedToRepo,
           UNCHANGED <<params, runs, result, downloads, active, stored, crashed>>,
           \/ FailUnderWriteLock /\ disk' = disk /\ job.pc = "invoke"
           \/ FailAndDump
    PROVE  IInv'
  <1>1. /\ job \in JobType /\ blocked \in BOOLEAN /\ job.session \in SessionType
    BY TypeFacts DEF IInv
  <1>2. FailUnderWriteLock BY DEF FailAndDump
  <1>3. CASE job.holds
    <2>1. blocked' = TRUE /\ UNCHANGED <<progress, job>> /\ disk' = disk
      BY <1>2, <1>3 DEF FailUnderWriteLock, FailAndDump
    <2> QED BY <2>1, BlockedIInv
  <1>4. CASE ~job.holds
    <2>1. progress' = [progress EXCEPT ![Pkg].error = TRUE] /\ job' = JobFailed /\ blocked' = blocked
      BY <1>2, <1>4 DEF FailUnderWriteLock
    <2>2. Pkg \in Packages BY DEF IInv, JobRight, AtPackage
    <2> DEFINE t == WithResponse(job.session, Pkg)
    <2>3. t \in SessionType BY <1>1, <2>2, WithResponseKept DEF Kept
    <2>4. job' = [job EXCEPT !.pc = "next", !.session = t] BY <2>1 DEF JobFailed
    <2> HIDE DEF t
    <2>5. job' \in JobType /\ job'.package = Pkg /\ job'.pc = "next" /\ job'.session = t
      BY <1>1, <2>3, <2>4 DEF JobType, PCs, Pkg
    <2>6. Kept(job.session, job.session) BY <1>1, KeptItself
    <2>7. disk' = progress' \/ (disk' = disk /\ job.pc \in {"invoke", "chroot"})
      BY <1>4 DEF FailAndDump
    <2> QED BY <1>1, <2>1, <2>5, <2>6, <2>7, PackageFailedIInv DEF t
  <1> QED BY <1>3, <1>4

-----------------------------------------------------------------------------
(* Building: every action preserves the invariant.                         *)

\* The parts of the job one by one.
LEMMA JobFacts ==
    ASSUME IInv
    PROVE  /\ job \in JobType /\ job.session \in SessionType /\ blocked \in BOOLEAN
           /\ progress \in [Packages -> ProgressType]
           /\ Kept(job.session, job.session)
           /\ SameButError(progress, progress)
           /\ AtPackage => Pkg \in Packages
           /\ job.pc \in {"chroot", "build", "add", "sign"} => ~progress[Pkg].addedToRepo
  <1>1. /\ job \in JobType /\ job.session \in SessionType /\ blocked \in BOOLEAN
        /\ progress \in [Packages -> ProgressType]
    BY TypeFacts DEF IInv
  <1>2. Kept(job.session, job.session) BY <1>1, KeptItself
  <1>3. AtPackage => Pkg \in Packages BY DEF IInv, JobRight, AtPackage
  <1>4. job.pc \in {"chroot", "build", "add", "sign"} => ~progress[Pkg].addedToRepo
    BY DEF IInv, StoredRight
  <1> QED BY <1>1, <1>2, <1>3, <1>4 DEF SameButError

\* When staging is needed for the current package it starts with the next batch at
\* the latest, which may have become the current one already.
LEMMA EnableFacts ==
    ASSUME IInv, AtPackage, NEW p \in Packages, p = job.package,
           NEW t, t = EnableStagingInNextBatch(job.session)
    PROVE  /\ t \in SessionType /\ Kept(job.session, t) /\ t.stagingNext
           /\ t.batch \in BatchOf(p) + 1 .. Len(Batches) => t.staging
  <1>1. job.session \in SessionType BY JobFacts
  <1>2. /\ Kept(job.session, t) /\ t.stagingNext
        /\ job.session.batch \in 2 .. Len(Batches) /\ job.session.package = 1 => t.staging
    BY <1>1, EnableStagingKept
  <1>3. t \in SessionType /\ t.batch = job.session.batch BY <1>2 DEF Kept
  <1>4. ASSUME t.batch \in BatchOf(p) + 1 .. Len(Batches) PROVE t.staging
    <2>1. job.session.package = 1 BY <1>3, <1>4 DEF IInv, JobRight, AtPackage, Pkg
    <2>2. BatchOf(p) \in 1 .. Len(Batches) /\ Len(Batches) \in Nat BY PlaceOfPackage, LengthFacts
    <2>3. t.batch \in 2 .. Len(Batches) BY <1>4, <2>2
    <2> QED BY <1>2, <1>3, <2>1, <2>3
  <1> QED BY <1>2, <1>3, <1>4

\* The current package need not be built.
LEMMA SkipPackageIInv == ASSUME IInv, SkipPackage PROVE IInv'
  <1> DEFINE s == IF params.autoStaging /\ progress[Pkg].stagingNeeded = "Yes"
                  THEN EnableStagingInNextBatch(job.session) ELSE job.session
  <1>1. /\ job.pc = "invoke" /\ progress[Pkg].addedToRepo
        /\ job' = [job EXCEPT !.pc = "next", !.session = s]
        /\ UNCHANGED <<progress, disk, params, runs, result, downloads, active, blocked, stored, crashed>>
    BY JobFacts DEF SkipPackage, JobType
  <1>2. AtPackage BY <1>1 DEF AtPackage
  <1>3. Pkg \in Packages BY <1>2, JobFacts
  <1> PICK p \in Packages : p = job.package BY <1>3 DEF Pkg
  <1>4. Kept(job.session, s) /\ s \in SessionType
    <2>1. CASE params.autoStaging /\ progress[Pkg].stagingNeeded = "Yes"
      BY <1>2, <2>1, EnableFacts DEF Pkg
    <2>2. CASE ~(params.autoStaging /\ progress[Pkg].stagingNeeded = "Yes")
      BY <2>2, JobFacts
    <2> QED BY <2>1, <2>2
  <1>5. progress[p].stagingNeeded = "Yes" /\ params.autoStaging =>
           /\ s.stagingNext
           /\ s.batch \in BatchOf(p) + 1 .. Len(Batches) => s.staging
    BY <1>2, EnableFacts DEF Pkg
  <1> HIDE DEF s
  <1>6. job' \in JobType /\ job'.pc = "next" /\ job'.session = s /\ job'.package = p
    BY <1>1, <1>4, JobFacts DEF JobType, PCs
  <1>7. Settles(job'.session, p)
    <2>1. InRepository(p) BY <1>1 DEF IInv, AddedOnlyIfStored, Pkg
    <2> QED BY <2>1 DEF Settles
  <1>8. Known(p)' => \/ Known(p)
                     \/ params.autoStaging =>
                           /\ job'.session.stagingNext
                           /\ job'.session.batch \in BatchOf(p) + 1 .. Len(Batches) => job'.session.staging
    <2>1. Known(p)' => progress[p].stagingNeeded = "Yes" BY <1>1 DEF Known
    <2> QED BY <1>5, <1>6, <2>1
  <1>9. SameButError(progress, progress') BY <1>1 DEF SameButError
  <1> QED BY <1>1, <1>2, <1>4, <1>6, <1>7, <1>8, <1>9, JobFacts, PackageStep

\* The package stays the current one and nothing but the job changes.
LEMMA PackageKept ==
    ASSUME IInv, AtPackage, job.pc # "repo", ~progress[Pkg].addedToRepo,
           UNCHANGED <<progress, disk, params, runs, result, downloads, active, blocked, stored, crashed>>,
           job' \in JobType, job'.package = job.package, job'.session = job.session,
           \/ job.pc = "invoke" /\ job'.pc \in {"chroot", "add"}
           \/ job.pc = "chroot" /\ job'.pc = "build"
           \/ job.pc = "sign" /\ job'.pc = "repo" /\ job'.repoAdds = job.repoAdds /\ job'.staged = job.staged
    PROVE  IInv'
  <1>1. Pkg \in Packages BY JobFacts
  <1> PICK p \in Packages : p = job.package BY <1>1 DEF Pkg
  <1>2. Kept(job.session, job'.session) BY JobFacts
  <1>3. SameButError(progress, progress') BY DEF SameButError
  <1>4. \/ disk' = disk /\ job'.pc \in {"add", "sign", "repo"}
        \/ disk' = disk /\ job.pc \in {"invoke", "chroot", "build"} /\ SameButError(progress, progress')
    BY <1>3
  <1>5. job'.pc \in {"sign", "repo"} =>
           /\ job'.repoAdds = Databases(p)
           /\ params.autoStaging /\ job'.session.staging => job'.staged
    <2> SUFFICES ASSUME job'.pc \in {"sign", "repo"}
                 PROVE  /\ job'.repoAdds = Databases(p)
                        /\ params.autoStaging /\ job'.session.staging => job'.staged
      OBVIOUS
    <2>1. job.pc = "sign" /\ job'.repoAdds = job.repoAdds /\ job'.staged = job.staged OBVIOUS
    <2>2. job.repoAdds = Databases(p) BY <2>1 DEF IInv, StoredRight, Pkg
    <2>3. params.autoStaging /\ job.session.staging => job.staged BY <2>1 DEF IInv, StagingRight
    <2> QED BY <2>1, <2>2, <2>3
  <1>6. Known(p)' => Known(p)
    <2>1. AtPackage' BY DEF AtPackage
    <2>2. job'.pc \in {"sign", "repo"} => job.pc \in {"sign", "repo"} OBVIOUS
    <2> QED BY <2>1, <2>2 DEF Known, Pkg
  <1>7. /\ job'.pc \in {"chroot", "build", "add", "sign", "repo"}
        /\ ~progress[p].addedToRepo
    BY DEF Pkg
  <1> QED BY <1>2, <1>4, <1>5, <1>6, <1>7, JobFacts, PackageStep

\* A package built by an earlier run only needs to be added.
LEMMA AddFinishedIInv == ASSUME IInv, AddFinished PROVE IInv'
  <1>1. /\ job.pc = "invoke" /\ ~progress[Pkg].addedToRepo
        /\ job' = [job EXCEPT !.pc = "add", !.dump = TRUE]
        /\ UNCHANGED <<progress, disk, params, runs, result, downloads, active, blocked, stored, crashed>>
    BY DEF AddFinished
  <1>2. AtPackage BY <1>1 DEF AtPackage
  <1>3. /\ job' \in JobType /\ job'.pc = "add" /\ job'.package = job.package
        /\ job'.session = job.session
    BY <1>1, JobFacts DEF JobType, PCs
  <1> QED BY <1>1, <1>2, <1>3, PackageKept

\* The chroot is requested.
LEMMA RequestChrootIInv == ASSUME IInv, RequestChroot PROVE IInv'
  <1>1. /\ job.pc = "invoke" /\ ~progress[Pkg].addedToRepo
        /\ job' = [job EXCEPT !.pc = "chroot", !.holds = FALSE]
        /\ UNCHANGED <<progress, disk, params, runs, result, downloads, active, blocked, stored, crashed>>
    BY DEF RequestChroot, ToBeBuilt
  <1>2. AtPackage BY <1>1 DEF AtPackage
  <1>3. /\ job' \in JobType /\ job'.pc = "chroot" /\ job'.package = job.package
        /\ job'.session = job.session
    BY <1>1, JobFacts DEF JobType, PCs
  <1> QED BY <1>1, <1>2, <1>3, PackageKept

\* The package has been signed, repo-add is invoked.
LEMMA SigningDoneIInv == ASSUME IInv, SigningDone PROVE IInv'
  <1>1. /\ job.pc = "sign" /\ ~progress[Pkg].addedToRepo
        /\ job' = [job EXCEPT !.pc = "repo"]
        /\ UNCHANGED <<progress, disk, params, runs, result, downloads, active, blocked, stored, crashed>>
    BY JobFacts DEF SigningDone
  <1>2. AtPackage BY <1>1 DEF AtPackage
  <1>3. /\ job' \in JobType /\ job'.pc = "repo" /\ job'.package = job.package
        /\ job'.session = job.session /\ job'.repoAdds = job.repoAdds /\ job'.staged = job.staged
    BY <1>1, JobFacts DEF JobType, PCs
  <1> QED BY <1>1, <1>2, <1>3, PackageKept

\* addResponse() and on to the next package.
LEMMA JobFailedFacts ==
    ASSUME IInv, Pkg \in Packages
    PROVE  /\ JobFailed \in JobType /\ JobFailed.package = Pkg /\ JobFailed.pc = "next"
           /\ JobFailed.session = WithResponse(job.session, Pkg)
  <1> DEFINE t == WithResponse(job.session, Pkg)
  <1>1. t \in SessionType BY JobFacts, WithResponseKept DEF Kept
  <1>2. JobFailed = [job EXCEPT !.pc = "next", !.session = t] BY DEF JobFailed
  <1> HIDE DEF t
  <1>3. /\ JobFailed \in JobType /\ JobFailed.package = Pkg /\ JobFailed.pc = "next"
        /\ JobFailed.session = t
    BY <1>1, <1>2, JobFacts DEF JobType, PCs, Pkg
  <1> QED BY <1>3 DEF t

\* makechrootpkg is launched.
LEMMA LaunchBuildIInv == ASSUME IInv, LaunchBuild PROVE IInv'
  <1>1. /\ job.pc = "chroot"
        /\ UNCHANGED <<disk, params, runs, result, downloads, active, blocked, stored, crashed>>
    BY DEF LaunchBuild
  <1>2. AtPackage /\ ~progress[Pkg].addedToRepo BY <1>1, JobFacts DEF AtPackage
  <1>3. CASE progress' = [progress EXCEPT ![Pkg].error = TRUE] /\ job' = JobFailed
    <2>1. Pkg \in Packages BY <1>2, JobFacts
    <2>2. /\ job' \in JobType /\ job'.package = Pkg /\ job'.pc = "next"
          /\ job'.session = WithResponse(job.session, Pkg)
      BY <1>3, <2>1, JobFailedFacts
    <2>3. Kept(job.session, job.session) /\ blocked' \in BOOLEAN BY <1>1, JobFacts
    <2> QED BY <1>1, <1>2, <1>3, <2>2, <2>3, PackageFailedIInv
  <1>4. CASE job' = [job EXCEPT !.pc = "build", !.dump = TRUE] /\ UNCHANGED progress
    <2>1. /\ job' \in JobType /\ job'.pc = "build" /\ job'.package = job.package
          /\ job'.session = job.session
      BY <1>4, JobFacts DEF JobType, PCs
    <2> QED BY <1>1, <1>2, <1>4, <2>1, PackageKept
  <1> QED BY <1>3, <1>4 DEF LaunchBuild

\* The package is not built in spite of its sources.
LEMMA RefuseBuildIInv == ASSUME IInv, RefuseBuild PROVE IInv'
  <1>1. /\ job.pc = "invoke" /\ ~progress[Pkg].addedToRepo /\ FailUnderWriteLock
        /\ UNCHANGED <<disk, params, runs, result, downloads, active, stored, crashed>>
    BY DEF RefuseBuild, ToBeBuilt
  <1> QED BY <1>1, FailIInv

\* The package is not built for lack of sources.
LEMMA RefuseWithoutSourcesIInv == ASSUME IInv, RefuseWithoutSources PROVE IInv'
  <1>1. /\ job.pc = "invoke" /\ ~progress[Pkg].addedToRepo
        /\ UNCHANGED <<disk, params, runs, result, downloads, active, stored, crashed>>
    BY DEF RefuseWithoutSources, ToBeBuilt
  <1>2. CASE FailUnderWriteLock BY <1>1, <1>2, FailIInv
  <1>3. CASE job' = [JobFailed EXCEPT !.holds = TRUE] /\ UNCHANGED <<progress, blocked>>
    <2>1. Pkg \in Packages BY <1>1, JobFacts DEF AtPackage
    <2>2. /\ JobFailed \in JobType /\ JobFailed.package = Pkg /\ JobFailed.pc = "next"
          /\ JobFailed.session = WithResponse(job.session, Pkg)
      BY <2>1, JobFailedFacts
    <2>3. /\ job' \in JobType /\ job'.package = JobFailed.package /\ job'.pc = JobFailed.pc
          /\ job'.session = JobFailed.session
      BY <1>3, <2>2 DEF JobType
    <2>4. Kept(job.session, job.session) /\ blocked' \in BOOLEAN BY <1>3, JobFacts
    <2> QED BY <1>1, <1>3, <2>2, <2>3, <2>4, PackageFailedIInv
  <1> QED BY <1>2, <1>3 DEF RefuseWithoutSources

\* That package p is built is stored; nothing else changes.
LEMMA FinishedStored ==
    ASSUME NEW f \in [Packages -> ProgressType], NEW p \in Packages,
           NEW g, g = [f EXCEPT ![p].finished = TRUE]
    PROVE  /\ g \in [Packages -> ProgressType]
           /\ \A q \in Packages : q # p => g[q] = f[q]
           /\ g[p].finished
           /\ g[p].addedToRepo = f[p].addedToRepo /\ g[p].error = f[p].error
           /\ g[p].hasSources = f[p].hasSources /\ g[p].stagingNeeded = f[p].stagingNeeded
  <1> DEFINE r == f[p]
             s == [r EXCEPT !.finished = TRUE]
  <1>1. r \in ProgressType /\ g = [f EXCEPT ![p] = s] OBVIOUS
  <1> HIDE DEF r
  <1>2. /\ s \in ProgressType /\ s.finished
        /\ s.addedToRepo = r.addedToRepo /\ s.error = r.error
        /\ s.hasSources = r.hasSources /\ s.stagingNeeded = r.stagingNeeded
    BY <1>1 DEF ProgressType
  <1> HIDE DEF s
  <1>3. g[p] = s /\ r = f[p] /\ \A q \in Packages : q # p => g[q] = f[q] BY <1>1 DEF r
  <1>4. g \in [Packages -> ProgressType] BY <1>1, <1>2
  <1> QED BY <1>2, <1>3, <1>4

\* makechrootpkg has exited.
LEMMA BuildDoneIInv == ASSUME IInv, BuildDone PROVE IInv'
  <1>1. /\ job.pc = "build" /\ UNCHANGED <<params, runs, result, downloads, active, stored, crashed>>
    BY DEF BuildDone
  <1>2. AtPackage /\ ~progress[Pkg].addedToRepo BY <1>1, JobFacts DEF AtPackage
  <1>3. CASE FailAndDump BY <1>1, <1>2, <1>3, FailIInv
  <1>4. CASE /\ progress' = [progress EXCEPT ![Pkg].finished = TRUE]
             /\ job' = [job EXCEPT !.pc = "add"] /\ UNCHANGED <<disk, blocked>>
    <2>1. Pkg \in Packages BY <1>2, JobFacts
    <2> PICK p \in Packages : p = job.package BY <2>1 DEF Pkg
    <2>2. progress' = [progress EXCEPT ![p].finished = TRUE] BY <1>4 DEF Pkg
    <2>3. /\ progress' \in [Packages -> ProgressType]
          /\ \A q \in Packages : q # p => progress'[q] = progress[q]
      BY <2>2, JobFacts, FinishedStored
    <2>4. /\ progress'[p].addedToRepo = progress[p].addedToRepo
          /\ progress'[p].hasSources = progress[p].hasSources
          /\ progress'[p].error = progress[p].error
          /\ progress'[p].finished
      BY <2>2, JobFacts, FinishedStored
    <2>5. /\ job' \in JobType /\ job'.pc = "add" /\ job'.package = p /\ job'.session = job.session
      BY <1>4, JobFacts DEF JobType, PCs
    <2>6. ~Known(p)' BY <2>5 DEF Known, AtPackage, Pkg
    <2>7. ~progress[p].addedToRepo BY <1>2 DEF Pkg
    <2> QED BY <1>1, <1>2, <1>4, <2>3, <2>4, <2>5, <2>6, <2>7, JobFacts, PackageStep
  <1> QED BY <1>3, <1>4 DEF BuildDone

\* The built package is not added.
LEMMA AddFailsIInv == ASSUME IInv, AddFails PROVE IInv'
  <1>1. /\ job.pc = "add" /\ FailAndDump
        /\ UNCHANGED <<params, runs, result, downloads, active, stored, crashed>>
    BY DEF AddFails
  <1>2. ~progress[Pkg].addedToRepo BY <1>1, JobFacts
  <1> QED BY <1>1, <1>2, FailIInv

\* Signing fails.
LEMMA SigningFailsIInv == ASSUME IInv, SigningFails PROVE IInv'
  <1>1. /\ job.pc = "sign" /\ FailAndDump
        /\ UNCHANGED <<params, runs, result, downloads, active, stored, crashed>>
    BY DEF SigningFails
  <1>2. ~progress[Pkg].addedToRepo BY <1>1, JobFacts
  <1> QED BY <1>1, <1>2, FailIInv

\* The package is copied to the repository, or to the staging one; the answer
\* whether staging is needed arrives in time for the packages that follow.
LEMMA AddPackageIInv == ASSUME IInv, AddPackage PROVE IInv'
  <1>1. /\ job.pc = "add"
        /\ UNCHANGED <<params, runs, result, downloads, active, stored, crashed>>
    BY DEF AddPackage
  <1>2. AtPackage /\ ~progress[Pkg].addedToRepo BY <1>1, JobFacts DEF AtPackage
  <1>3. Pkg \in Packages BY <1>2, JobFacts
  <1> PICK p \in Packages : p = job.package BY <1>3 DEF Pkg
  <1>4. PICK ending \in StagingOutcomes(p) :
           LET s == IF ending = "Yes" THEN EnableStagingInNextBatch(job.session) ELSE job.session
               determined == [progress EXCEPT ![p].stagingNeeded = ending]
           IN
           \/ /\ progress' = determined
              /\ job' = [job EXCEPT !.session = s, !.holds = FALSE,
                                    !.staged = job.session.staging \/ ending = "Yes",
                                    !.pc = IF Signing THEN "sign" ELSE "repo",
                                    !.repoAdds = Databases(p)]
              /\ UNCHANGED <<disk, blocked>>
           \/ /\ job.holds
              /\ progress' = determined
              /\ blocked' = TRUE
              /\ job' = [job EXCEPT !.session = s]
              /\ UNCHANGED disk
           \/ /\ ~job.holds
              /\ progress' = [determined EXCEPT ![p].error = TRUE]
              /\ disk' = progress'
              /\ job' = [job EXCEPT !.session = WithResponse(s, p), !.pc = "next"]
              /\ UNCHANGED blocked
    BY DEF AddPackage, Pkg
  <1> DEFINE s == IF ending = "Yes" THEN EnableStagingInNextBatch(job.session) ELSE job.session
             determined == [progress EXCEPT ![p].stagingNeeded = ending]
  <1>5. ending \in {"Undetermined", "No", "Yes"} BY <1>1 DEF StagingOutcomes
  <1>6. Kept(job.session, s) /\ s \in SessionType
    <2>1. CASE ending = "Yes" BY <1>2, <2>1, EnableFacts
    <2>2. CASE ending # "Yes" BY <2>2, JobFacts
    <2> QED BY <2>1, <2>2
  <1>7. ending = "Yes" => s.stagingNext /\ (s.batch \in BatchOf(p) + 1 .. Len(Batches) => s.staging)
    BY <1>2, EnableFacts
  <1>8. ending # "Yes" => s = job.session OBVIOUS
  <1>9. /\ determined \in [Packages -> ProgressType]
        /\ \A q \in Packages : q # p => determined[q] = progress[q]
    BY <1>5, JobFacts DEF ProgressType
  <1>10. /\ determined[p].addedToRepo = progress[p].addedToRepo
         /\ determined[p].hasSources = progress[p].hasSources
         /\ determined[p].error = progress[p].error
         /\ determined[p].finished = progress[p].finished
         /\ determined[p].stagingNeeded = ending
    BY JobFacts DEF ProgressType
  <1>11. ~progress[p].addedToRepo BY <1>2 DEF Pkg
  <1> HIDE DEF s, determined
  <1>12. CASE /\ progress' = determined
              /\ job' = [job EXCEPT !.session = s, !.holds = FALSE,
                                    !.staged = job.session.staging \/ ending = "Yes",
                                    !.pc = IF Signing THEN "sign" ELSE "repo",
                                    !.repoAdds = Databases(p)]
              /\ UNCHANGED <<disk, blocked>>
    <2> DEFINE staged == job.session.staging \/ ending = "Yes"
               next == IF Signing THEN "sign" ELSE "repo"
               dbs == Databases(p)
    <2>1. staged \in BOOLEAN /\ next \in {"sign", "repo"} OBVIOUS
    <2>2. dbs \in SUBSET {"packages", "debug"} BY DatabasesFacts
    <2>3. s.staging => staged BY <1>8
    <2> HIDE DEF staged, next, dbs
    <2>4. job' = [job EXCEPT !.session = s, !.holds = FALSE, !.staged = staged, !.pc = next, !.repoAdds = dbs]
      BY <1>12 DEF staged, next, dbs
    <2>5. /\ job' \in JobType /\ job'.pc = next /\ job'.package = p /\ job'.session = s
          /\ job'.staged = staged /\ job'.repoAdds = dbs
      BY <1>6, <2>1, <2>2, <2>4, JobFacts DEF JobType, PCs
    <2>6. Known(p)' => ending = "Yes" BY <1>10, <1>12 DEF Known
    <2>7. job'.repoAdds = Databases(p) BY <2>5 DEF dbs
    <2>8. job'.session.staging => job'.staged BY <2>3, <2>5
    <2> QED BY <1>1, <1>2, <1>6, <1>7, <1>9, <1>10, <1>11, <1>12, <2>1, <2>5, <2>6, <2>7, <2>8,
               JobFacts, PackageStep
  <1>13. CASE /\ job.holds
              /\ progress' = determined
              /\ blocked' = TRUE
              /\ job' = [job EXCEPT !.session = s]
              /\ UNCHANGED disk
    <2>1. /\ job' \in JobType /\ job'.pc = "add" /\ job'.package = p /\ job'.session = s
      BY <1>1, <1>6, <1>13, JobFacts DEF JobType
    <2>2. ~Known(p)' BY <2>1 DEF Known, AtPackage, Pkg
    <2> QED BY <1>1, <1>2, <1>6, <1>9, <1>10, <1>11, <1>13, <2>1, <2>2, PackageStep
  <1>14. CASE /\ ~job.holds
              /\ progress' = [determined EXCEPT ![p].error = TRUE]
              /\ disk' = progress'
              /\ job' = [job EXCEPT !.session = WithResponse(s, p), !.pc = "next"]
              /\ UNCHANGED blocked
    <2> DEFINE t == WithResponse(s, p)
    <2>1. Kept(s, t) /\ p \in t.responses BY <1>6, WithResponseKept
    <2>2. Kept(job.session, t) /\ t \in SessionType BY <1>6, <2>1 DEF Kept
    <2> HIDE DEF t
    <2>3. job' = [job EXCEPT !.session = t, !.pc = "next"] BY <1>14 DEF t
    <2>4. /\ job' \in JobType /\ job'.pc = "next" /\ job'.package = p /\ job'.session = t
      BY <2>2, <2>3, JobFacts DEF JobType, PCs
    <2>5. progress' = [determined EXCEPT ![p].error = TRUE] BY <1>14
    <2>6. /\ progress' \in [Packages -> ProgressType]
          /\ \A q \in Packages : q # p => progress'[q] = determined[q]
      BY <1>9, <2>5, ErrorStored
    <2>7. /\ progress'[p].error
          /\ progress'[p].addedToRepo = determined[p].addedToRepo
          /\ progress'[p].hasSources = determined[p].hasSources
          /\ progress'[p].finished = determined[p].finished
      BY <1>9, <2>5, ErrorStored
    <2>8. ~Known(p)'
      <3>1. ~AtPackage' BY <2>4 DEF AtPackage
      <3> QED BY <1>10, <1>11, <2>7, <3>1 DEF Known
    <2>9. Settles(job'.session, p) BY <2>1, <2>4 DEF Settles
    <2>10. \A q \in Packages : q # p => progress'[q] = progress[q] BY <1>9, <2>6
    <2>11. /\ progress'[p].addedToRepo = progress[p].addedToRepo
           /\ progress'[p].hasSources = progress[p].hasSources
           /\ progress[p].finished => progress'[p].finished
           /\ progress[p].error => progress'[p].error
      BY <1>10, <2>7
    <2>12. Kept(job.session, job'.session) /\ blocked' \in BOOLEAN /\ disk' = progress' /\ job.pc # "repo"
      BY <1>1, <1>14, <2>2, <2>4, JobFacts
    <2>13. job' \in JobType /\ job'.package = p /\ job'.pc = "next" BY <2>4
    <2>14. progress' \in [Packages -> ProgressType] BY <2>6
    <2> HIDE <1>4, <1>14
    <2> QED BY <1>1, <1>2, <2>8, <2>9, <2>10, <2>11, <2>12, <2>13, <2>14, PackageStep
  <1> QED BY <1>4, <1>12, <1>13, <1>14 DEF s, determined

-----------------------------------------------------------------------------
(* Building: the next package is selected.                                 *)

\* The sessions the loop over irrelevant packages goes through.
Reached ==
    {t \in SessionType :
        /\ StopsForFailure(t)
        /\ t.skip = job.session.skip /\ t.responses = job.session.responses
        /\ \A p \in Relevant : Passed(t, p) => Passed(job.session, p)
        /\ BarrierAt(t)
        /\ params.autoStaging => StagingThis(t) /\ \A p \in Relevant : Known(p) => StagingOf(t, p)}

\* A batch is only begun when all previous ones are in the repository.
LEMMA PreviousBatches ==
    ASSUME IInv, job.pc = "next", NEW t \in Reached, IsValid(t), t.skip, NEW p \in Before(t.batch)
    PROVE  InRepository(p)
  <1>1. /\ t \in SessionType /\ HasPackage(t) /\ t.responses = job.session.responses
        /\ \A q \in Relevant : Passed(t, q) => Passed(job.session, q)
        /\ BarrierAt(t)
    BY DEF Reached, IsValid
  <1>2. CASE t.package = 1
    <2>1. job.session.responses = {} BY <1>1, <1>2 DEF IsValid
    <2>2. p \in Relevant /\ p \in Packages /\ BatchOf(p) < t.batch BY DEF Before, Relevant
    <2>3. Passed(job.session, p)
      <3>1. Passed(t, p) BY <1>1, <2>2, SelectNextPasses
      <3> QED BY <1>1, <2>2, <3>1
    <2>4. Settles(job.session, p) BY <2>2, <2>3 DEF IInv, JobRight, AtPackage
    <2> QED BY <2>1, <2>4 DEF Settles
  <1>3. CASE t.package # 1
    <2>1. t.batch <= Len(Batches) BY <1>1 DEF HasPackage
    <2> QED BY <1>1, <1>3, <2>1 DEF BarrierAt
  <1> QED BY <1>2, <1>3

\* What the next session needs to have of a session the loop has reached.
LEMMA NextReached ==
    ASSUME IInv, job.pc = "next", NEW t \in Reached, IsValid(t),
           NEW u, u = SelectNextPackage(t)
    PROVE  /\ u \in SessionType /\ StopsForFailure(u)
           /\ u.skip = job.session.skip /\ u.responses = job.session.responses
           /\ BarrierAt(u)
           /\ params.autoStaging =>
                 /\ StagingThis(u)
                 /\ \A p \in Relevant : Known(p) /\ Passed(t, p) => StagingOf(u, p)
  <1>1. /\ t \in SessionType /\ HasPackage(t) /\ t.responses = job.session.responses
        /\ t.skip = job.session.skip
    BY DEF Reached, IsValid
  <1>2. u \in SessionType /\ u.skip = t.skip /\ u.responses = t.responses
    BY <1>1, SelectNextCases
  <1>3. /\ StopsForFailure(u)
        /\ u.batch <= Len(Batches) /\ u.package # 1 => u.batch = t.batch
        /\ StagingThis(t) => StagingThis(u)
        /\ \A p \in Packages : Passed(t, p) /\ StagingOf(t, p) => StagingOf(u, p)
    BY <1>1, SelectNextStages
  <1>4. BarrierAt(u)
    <2> SUFFICES ASSUME u.skip, u.batch <= Len(Batches), u.package # 1, NEW p \in Before(u.batch)
                 PROVE  InRepository(p)
      BY DEF BarrierAt
    <2>1. p \in Before(t.batch) /\ t.skip BY <1>2, <1>3
    <2> QED BY <2>1, PreviousBatches
  <1>5. ASSUME params.autoStaging
        PROVE  /\ StagingThis(u)
               /\ \A p \in Relevant : Known(p) /\ Passed(t, p) => StagingOf(u, p)
    <2>1. StagingThis(t) /\ \A p \in Relevant : Known(p) => StagingOf(t, p) BY <1>5 DEF Reached
    <2>2. Relevant \subseteq Packages BY DEF Relevant
    <2> QED BY <1>3, <2>1, <2>2
  <1> QED BY <1>1, <1>2, <1>3, <1>4, <1>5

\* The loop over irrelevant packages only goes through such sessions.
LEMMA SkipReached ==
    ASSUME IInv, job.pc = "next"
    PROVE  SkipIrrelevant(job.session, params.relevant) \in Reached
  <1>1. job.session \in Reached
    <2>1. job.session \in SessionType BY JobFacts
    <2>2. StopsForFailure(job.session) BY DEF IInv, Phases
    <2>3. BarrierAt(job.session) BY DEF IInv, JobRight
    <2>4. params.autoStaging =>
             StagingThis(job.session) /\ \A p \in Relevant : Known(p) => StagingOf(job.session, p)
      BY DEF IInv, StagingRight
    <2> QED BY <2>1, <2>2, <2>3, <2>4 DEF Reached
  <1>2. ASSUME NEW t \in Reached, IsValid(t), ~IsRelevant(CurrentPackage(t), params.relevant)
        PROVE  SelectNextPackage(t) \in Reached
    <2> DEFINE u == SelectNextPackage(t)
               cur == CurrentPackage(t)
    <2>1. t \in SessionType /\ HasPackage(t) BY <1>2 DEF Reached, IsValid
    <2>2. \A p \in Packages : Passed(u, p) <=> Passed(t, p) \/ p = cur BY <2>1, SelectNextPasses
    <2>3. cur \notin Relevant /\ Relevant \subseteq Packages BY <1>2 DEF Relevant
    <2>4. /\ u \in SessionType /\ StopsForFailure(u)
          /\ u.skip = job.session.skip /\ u.responses = job.session.responses
          /\ BarrierAt(u)
          /\ params.autoStaging =>
                /\ StagingThis(u)
                /\ \A p \in Relevant : Known(p) /\ Passed(t, p) => StagingOf(u, p)
      BY <1>2, NextReached
    <2> HIDE DEF u, cur
    <2>5. \A p \in Relevant : Passed(u, p) <=> Passed(t, p) BY <2>2, <2>3
    <2>6. \A p \in Relevant : Passed(u, p) => Passed(job.session, p) BY <2>5 DEF Reached
    <2>7. params.autoStaging => \A p \in Relevant : Known(p) => StagingOf(u, p)
      BY <2>4, <2>5 DEF StagingOf
    <2> QED BY <2>4, <2>6, <2>7 DEF Reached, u
  <1> HIDE DEF Reached
  <1> QED BY <1>1, <1>2, SkipInvariant

\* enqueueMakechrootpkg() selects the next package.
LEMMA SelectPackageIInv == ASSUME IInv, SelectPackage PROVE IInv'
  <1> DEFINE s == SkipIrrelevant(job.session, params.relevant)
  <1>1. /\ job.pc = "next"
        /\ job' = IF IsValid(s)
                  THEN [job EXCEPT !.pc = "invoke", !.package = CurrentPackage(s),
                                   !.session = SelectNextPackage(s),
                                   !.failures = HasFailuresInPreviousBatches(job.session)]
                  ELSE [job EXCEPT !.pc = "end", !.holds = FALSE]
        /\ UNCHANGED <<progress, disk, params, runs, result, downloads, active, blocked, stored, crashed>>
    BY DEF SelectPackage
  <1>2. s \in Reached BY <1>1, SkipReached
  <1> HIDE DEF s
  <1>3. /\ s \in SessionType /\ StopsForFailure(s)
        /\ s.skip = job.session.skip /\ s.responses = job.session.responses
        /\ \A p \in Relevant : Passed(s, p) => Passed(job.session, p)
        /\ params.autoStaging => \A p \in Relevant : Known(p) => StagingOf(s, p)
    BY <1>2 DEF Reached
  <1>4. TypeOK /\ JobRight /\ StagingRight /\ SavedRight /\ StoredRight /\ AddedOnlyIfStored
           /\ SourcesAttempted
    BY DEF IInv
  <1>5. job \in JobType /\ job.session \in SessionType BY JobFacts
  <1>6. Relevant' = Relevant /\ Relevant \subseteq Packages BY <1>1 DEF Relevant
  <1>7. /\ \A p : InRepository(p)' <=> InRepository(p)
        /\ \A p : DownloadNeeded(p)' <=> DownloadNeeded(p)
    BY <1>1 DEF InRepository, DownloadNeeded
  <1>8. job'.pc \in {"invoke", "end"} BY <1>1, <1>5 DEF JobType
  <1>9. SourcesAttempted' BY <1>1, <1>4, <1>6, <1>7 DEF SourcesAttempted
  <1>10. AddedOnlyIfStored' BY <1>1, <1>4, <1>7 DEF AddedOnlyIfStored
  <1>11. StoredRight' BY <1>1, <1>4, <1>8 DEF StoredRight
  <1>12. SavedRight' BY <1>1, <1>4 DEF SavedRight, SameButError
  <1>13. ~AtPackage BY <1>1 DEF AtPackage
  <1>14. CASE ~IsValid(s)
    <2>1. job' = [job EXCEPT !.pc = "end", !.holds = FALSE] BY <1>1, <1>14
    <2>2. job' \in JobType /\ job'.pc = "end" /\ job'.session = job.session
      BY <1>5, <2>1 DEF JobType, PCs
    <2>3. TypeOK' BY <1>1, <1>4, <2>2 DEF TypeOK
    <2>4. StopsForFailure(job'.session) BY <2>2 DEF IInv, Phases
    <2>5. ASSUME job.session.responses = {} PROVE \A p \in Relevant : Passed(job.session, p)
      <3>1. ~HasPackage(s) BY <1>3, <1>14, <2>5 DEF IsValid
      <3>2. \A p \in Packages : Passed(s, p) BY <1>3, <2>5, <3>1, AllPassed
      <3> QED BY <1>3, <1>6, <3>2
    <2>6. ~AtPackage' BY <2>2 DEF AtPackage
    <2>7. Kept(job.session, job'.session) BY <2>2, JobFacts
    <2>8. JobRight' BY <1>1, <1>7, <1>13, <2>2, <2>5, <2>6, <2>7, JobStays
    <2>9. \A p : Known(p)' <=> Known(p) BY <1>1, <1>13, <2>6 DEF Known
    <2>10. StagingRight' BY <1>1, <1>13, <2>2, <2>6, <2>7, <2>9, StagingStays
    <2> QED BY <1>1, <1>9, <1>10, <1>11, <1>12, <2>2, <2>3, <2>4, <2>8, <2>10, BuildFrame
  <1>15. CASE IsValid(s)
    <2> DEFINE u == SelectNextPackage(s)
               failures == HasFailuresInPreviousBatches(job.session)
    <2>1. HasPackage(s) BY <1>15 DEF IsValid
    <2>2. CurrentPackage(s) \in Packages /\ BatchOf(CurrentPackage(s)) = s.batch
      BY <1>3, <2>1, CurrentPackagePlace
    <2> PICK p \in Packages : p = CurrentPackage(s) BY <2>2
    <2>3. BatchOf(p) = s.batch BY <2>2
    <2>4. s.batch \in 1 .. Len(Batches) BY <1>3, <2>1, CurrentPackagePlace
    <2>5. /\ u \in SessionType /\ StopsForFailure(u)
          /\ u.skip = job.session.skip /\ u.responses = job.session.responses
          /\ BarrierAt(u)
          /\ params.autoStaging =>
                /\ StagingThis(u)
                /\ \A q \in Relevant : Known(q) /\ Passed(s, q) => StagingOf(u, q)
      BY <1>1, <1>2, <1>15, NextReached
    <2>6. /\ \A q \in Packages : Passed(u, q) <=> Passed(s, q) \/ q = p
          /\ \A q \in Packages : BatchOf(q) < s.batch => Passed(s, q)
      BY <1>3, <2>1, SelectNextPasses
    <2>7. /\ u.batch \in s.batch + 1 .. Len(Batches) => u.package = 1
          /\ s.staging => u.staging
          /\ StagingThis(s) /\ Len(Batches[s.batch]) > 1 /\ s.stagingThis => u.staging
      BY <1>3, <2>1, SelectNextStages
    <2>8. failures \in BOOLEAN BY <1>5 DEF HasFailuresInPreviousBatches, SessionType
    <2> HIDE DEF u, failures
    <2>9. job' = [job EXCEPT !.pc = "invoke", !.package = p, !.session = u, !.failures = failures]
      BY <1>1, <1>15 DEF u, failures
    <2>10. job' \in JobType /\ job'.pc = "invoke" /\ job'.package = p /\ job'.session = u
      BY <1>5, <2>5, <2>8, <2>9 DEF JobType, PCs
    <2>11. AtPackage' BY <2>10 DEF AtPackage
    <2>12. TypeOK' BY <1>1, <1>4, <2>10 DEF TypeOK
    <2>13. Before(BatchOf(Pkg))' = Before(s.batch) /\ Before(s.batch) \subseteq Relevant
      BY <1>6, <2>3, <2>10 DEF Before, Pkg
    <2>14. ASSUME u.skip, NEW q \in Before(s.batch) PROVE InRepository(q)'
      BY <1>1, <1>2, <1>3, <1>7, <1>15, <2>5, <2>14, PreviousBatches
    <2>15. ASSUME NEW q \in Relevant, Passed(u, q), q # p PROVE InRepository(q)' \/ q \in u.responses
      <3>1. Passed(job.session, q) BY <1>3, <1>6, <2>6, <2>15
      <3>2. Settles(job.session, q) BY <1>1, <1>4, <1>13, <3>1 DEF JobRight
      <3> QED BY <1>7, <2>5, <3>2 DEF Settles
    <2>16. BarrierAt(job.session)'
      <3> SUFFICES ASSUME u.skip, u.batch <= Len(Batches), u.package # 1,
                          NEW q \in Before(job.session.batch)'
                   PROVE  InRepository(q)'
        BY <2>10 DEF BarrierAt
      <3>1. q \in Before(u.batch) BY <1>6, <2>10 DEF Before
      <3>2. InRepository(q) BY <2>5, <3>1 DEF BarrierAt
      <3> QED BY <1>7, <3>2
    <2>17. JobRight'
      <3>1. job'.session.skip = ~params'.asFarAsPossible BY <1>1, <1>4, <2>5, <2>10 DEF JobRight
      <3>2. p \in Packages /\ Passed(u, p) BY <2>6
      <3>3. u.batch \in BatchOf(p) + 1 .. Len(Batches) => u.package = 1 BY <2>3, <2>7
      <3>4. \A q \in Relevant' : Passed(u, q) /\ ~(AtPackage' /\ q = p) => Settles(job.session, q)'
        BY <1>6, <2>10, <2>11, <2>15 DEF Settles
      <3>5. u.skip => \A q \in Before(BatchOf(Pkg))' : InRepository(q)' BY <2>13, <2>14
      <3> QED BY <2>10, <2>16, <3>1, <3>2, <3>3, <3>4, <3>5 DEF JobRight, Pkg
    <2>18. StagingRight'
      <3> SUFFICES ASSUME params.autoStaging
                   PROVE  /\ \A q \in Relevant : Known(q)' => StagingOf(u, q)
                          /\ StagingThis(u)
                          /\ Len(Batches[s.batch]) > 1 =>
                                \A q \in Before(s.batch) : Known(q)' => u.staging
        BY <1>1, <1>6, <2>3, <2>10, <2>13 DEF StagingRight, Pkg
      <3>1. ASSUME NEW q \in Relevant, Known(q)' PROVE Known(q) /\ q # p
        <4>1. q # p BY <2>10, <2>11, <3>1 DEF Known, Pkg
        <4> QED BY <1>1, <1>13, <2>10, <3>1, <4>1 DEF Known, Pkg
      <3>2. ASSUME NEW q \in Relevant, Known(q)' PROVE StagingOf(u, q)
        <4>1. Known(q) /\ q # p /\ q \in Packages BY <1>6, <3>1, <3>2
        <4>2. CASE Passed(s, q) BY <2>5, <4>1, <4>2
        <4>3. CASE ~Passed(s, q)
          <5>1. ~Passed(u, q) BY <2>6, <4>1, <4>3
          <5> QED BY <5>1 DEF StagingOf
        <4> QED BY <4>2, <4>3
      <3>3. ASSUME Len(Batches[s.batch]) > 1, NEW q \in Before(s.batch), Known(q)' PROVE u.staging
        <4>1. q \in Relevant /\ q \in Packages /\ BatchOf(q) < s.batch BY <1>6 DEF Before
        <4>2. Known(q) BY <3>1, <3>3, <4>1
        <4>3. Passed(s, q) /\ StagingOf(s, q) BY <1>3, <2>6, <4>1, <4>2
        <4>4. s.batch \in BatchOf(q) + 1 .. Len(Batches)
          <5>1. BatchOf(q) \in 1 .. Len(Batches) /\ Len(Batches) \in Nat
            BY <4>1, PlaceOfPackage, LengthFacts
          <5> QED BY <2>4, <4>1, <5>1
        <4>5. s.stagingThis \/ s.staging BY <4>3, <4>4 DEF StagingOf
        <4>6. StagingThis(s) BY <1>2 DEF Reached
        <4> QED BY <2>7, <3>3, <4>5, <4>6
      <3> QED BY <2>5, <3>2, <3>3
    <2> QED BY <1>1, <1>9, <1>10, <1>11, <1>12, <2>5, <2>10, <2>12, <2>17, <2>18, BuildFrame
  <1> QED BY <1>14, <1>15

-----------------------------------------------------------------------------
(* Building: the package is added to the repository.                       *)

\* The failure of a package is stored with the package alone.
LEMMA FailureStored ==
    ASSUME NEW f \in [Packages -> ProgressType], NEW p \in Packages,
           NEW g, g = [f EXCEPT ![p].error = TRUE, ![p].addedToRepo = FALSE]
    PROVE  /\ g \in [Packages -> ProgressType]
           /\ \A q \in Packages : q # p => g[q] = f[q]
           /\ ~g[p].addedToRepo /\ g[p].error /\ g[p].stagingNeeded = f[p].stagingNeeded
  <1>1. g \in [Packages -> ProgressType] /\ \A q \in Packages : q # p => g[q] = f[q]
    BY DEF ProgressType
  <1>2. ~g[p].addedToRepo /\ g[p].error /\ g[p].stagingNeeded = f[p].stagingNeeded
    BY DEF ProgressType
  <1> QED BY <1>1, <1>2

\* A repo-add process has exited.
LEMMA RepoStep ==
    ASSUME IInv, job.pc = "repo", NEW p \in Packages, p = job.package,
           NEW db, db \in job.repoAdds,
           UNCHANGED <<disk, params, runs, result, downloads, active, blocked, crashed>>,
           job' \in JobType, job'.pc = "repo", job'.package = p, Kept(job.session, job'.session),
           job'.repoAdds = job.repoAdds \ {db}, job'.staged = job.staged,
           job'.session.staging = job.session.staging,
           progress' \in [Packages -> ProgressType],
           \A q \in Packages : q # p => progress'[q] = progress[q],
           progress'[p].stagingNeeded = progress[p].stagingNeeded,
           DownloadNeeded(p)' => DownloadNeeded(p) \/ progress'[p].error,
           progress[p].error => progress'[p].error,
           stored' \in [Packages -> SUBSET {"packages", "debug"}],
           \A q \in Packages : q # p => stored'[q] = stored[q],
           stored'[p] \in {stored[p], stored[p] \cup {db}},
           progress'[p].addedToRepo => stored'[p] # {},
           progress'[p].addedToRepo \/ ~progress'[p].error \/ p \notin job'.session.responses
              => Databases(p) \ job'.repoAdds \subseteq stored'[p]
    PROVE  IInv'
  <1>1. TypeOK /\ Phases /\ SourcesAttempted /\ AddedOnlyIfStored /\ StoredRight /\ StagingRight
    BY DEF IInv
  <1>2. AtPackage /\ AtPackage' /\ job.session \in SessionType BY JobFacts DEF AtPackage
  <1>3. TypeOK' BY <1>1 DEF TypeOK
  <1>4. StopsForFailure(job'.session) BY <1>1, <1>2, KeptFacts DEF Phases
  <1>5. Relevant' = Relevant /\ Relevant \subseteq Packages BY DEF Relevant
  <1>6. /\ job.repoAdds \subseteq Databases(p) /\ db \in Databases(p)
        /\ \A q \in Packages : stored[q] \subseteq Databases(q)
    BY <1>1 DEF StoredRight, Pkg
  <1>7. \A q \in Packages : stored[q] \subseteq stored'[q] /\ stored'[q] \subseteq Databases(q)
    <2> TAKE q \in Packages
    <2>1. CASE q = p BY <1>6, <2>1
    <2>2. CASE q # p BY <1>6, <2>2
    <2> QED BY <2>1, <2>2
  <1>8. ASSUME NEW q \in Packages, InRepository(q) PROVE InRepository(q)'
    <2>1. stored[q] # {} /\ (crashed \/ stored[q] = Databases(q)) BY <1>8 DEF InRepository
    <2>2. stored'[q] # {} BY <1>7, <2>1
    <2>3. stored[q] = Databases(q) => stored'[q] = Databases(q)
      <3>1. stored[q] \subseteq stored'[q] /\ stored'[q] \subseteq Databases(q) BY <1>7
      <3> SUFFICES ASSUME stored[q] = Databases(q) PROVE stored'[q] = Databases(q) OBVIOUS
      <3>2. Databases(q) \subseteq stored'[q] BY <3>1
      <3> QED BY <3>1, <3>2
    <2> QED BY <2>1, <2>2, <2>3 DEF InRepository
  <1>9. SourcesAttempted'
    <2>1. ASSUME NEW q \in Relevant, DownloadNeeded(q)' PROVE progress'[q].error
      <3>1. q \in Packages BY <1>5
      <3>2. CASE q = p
        <4>1. DownloadNeeded(p) => progress[p].error BY <1>1, <3>2 DEF SourcesAttempted
        <4> QED BY <2>1, <3>2, <4>1
      <3>3. CASE q # p
        <4>1. progress'[q] = progress[q] BY <3>1, <3>3
        <4>2. DownloadNeeded(q) BY <2>1, <4>1 DEF DownloadNeeded
        <4> QED BY <1>1, <4>1, <4>2 DEF SourcesAttempted
      <3> QED BY <3>2, <3>3
    <2> QED BY <1>5, <2>1 DEF SourcesAttempted
  <1>10. AddedOnlyIfStored'
    <2>1. ASSUME NEW q \in Packages, q # p, progress'[q].addedToRepo PROVE InRepository(q)'
      <3>1. progress[q].addedToRepo BY <2>1
      <3>2. InRepository(q) BY <1>1, <2>1, <3>1 DEF AddedOnlyIfStored, Pkg
      <3> QED BY <1>8, <3>2
    <2> QED BY <2>1 DEF AddedOnlyIfStored, Pkg
  <1>11. StoredRight'
    <2>1. ASSUME NEW q \in Packages
          PROVE  disk'[q].addedToRepo \/ progress'[q].addedToRepo => stored'[q] # {}
      <3>1. disk[q].addedToRepo \/ progress[q].addedToRepo => stored[q] # {} BY <1>1 DEF StoredRight
      <3>2. disk[q].addedToRepo => stored'[q] # {} BY <1>7, <3>1
      <3>3. CASE q = p BY <3>2, <3>3
      <3>4. CASE q # p BY <3>1, <3>2, <3>4
      <3> QED BY <3>3, <3>4
    <2>2. job'.repoAdds \subseteq Databases(p) BY <1>6
    <2> QED BY <1>7, <2>1, <2>2 DEF StoredRight, Pkg
  <1>12. SavedRight'
    <2>1. result = "none" BY <1>1 DEF Phases
    <2> QED BY <2>1 DEF SavedRight
  <1>13. JobRight'
    <2>1. job'.pc # "none" /\ job'.pc # "end" OBVIOUS
    <2> QED BY <1>2, <1>8, <2>1, JobStays
  <1>14. StagingRight'
    <2>1. ASSUME NEW q \in Relevant, Known(q)' PROVE Known(q)
      <3>1. q \in Packages BY <1>5
      <3>2. CASE q = p BY <1>2, <2>1, <3>2 DEF Known, Pkg
      <3>3. CASE q # p
        <4>1. progress'[q] = progress[q] /\ q # Pkg /\ q # job'.package BY <3>1, <3>3 DEF Pkg
        <4> QED BY <2>1, <4>1 DEF Known, Pkg
      <3> QED BY <3>2, <3>3
    <2>2. params.autoStaging /\ job'.session.staging => job'.staged BY <1>1 DEF StagingRight
    <2> QED BY <1>2, <2>1, <2>2, StagingStays
  <1> QED BY <1>3, <1>4, <1>9, <1>10, <1>11, <1>12, <1>13, <1>14, BuildFrame

\* The processes for a package and its debug package exit in any order.
LEMMA RepoAddDoneIInv == ASSUME IInv, NEW db \in {"packages", "debug"}, RepoAddDone(db) PROVE IInv'
  <1>1. /\ job.pc = "repo" /\ db \in job.repoAdds
        /\ UNCHANGED <<disk, params, runs, result, downloads, active, blocked, crashed>>
    BY DEF RepoAddDone
  <1>2. AtPackage BY <1>1 DEF AtPackage
  <1>3. Pkg \in Packages BY <1>2, JobFacts
  <1> PICK p \in Packages : p = job.package BY <1>3 DEF Pkg
  <1>4. TypeOK /\ SourcesAttempted /\ AddedOnlyIfStored /\ StoredRight BY DEF IInv
  <1>5. /\ job \in JobType /\ job.session \in SessionType /\ progress \in [Packages -> ProgressType]
        /\ stored \in [Packages -> SUBSET {"packages", "debug"}]
        /\ job.repoAdds \in SUBSET {"packages", "debug"}
    BY <1>4, TypeFacts
  <1> DEFINE added == progress[p].addedToRepo \/ ~progress[p].error
             left == job.repoAdds \ {db}
             t == WithResponse(job.session, p)
  <1>6. CASE /\ progress' = [progress EXCEPT ![p].addedToRepo = added]
             /\ stored' = [stored EXCEPT ![p] = stored[p] \cup {db}]
             /\ job' = [job EXCEPT !.repoAdds = left]
    <2>1. added \in BOOLEAN /\ left \in SUBSET {"packages", "debug"} BY <1>5
    <2> HIDE DEF added, left
    <2>2. /\ progress' \in [Packages -> ProgressType]
          /\ \A q \in Packages : q # p => progress'[q] = progress[q]
      BY <1>5, <1>6, <2>1 DEF ProgressType
    <2>3. /\ progress'[p].addedToRepo = added /\ progress'[p].error = progress[p].error
          /\ progress'[p].finished = progress[p].finished
          /\ progress'[p].hasSources = progress[p].hasSources
          /\ progress'[p].stagingNeeded = progress[p].stagingNeeded
      BY <1>5, <1>6, <2>1 DEF ProgressType
    <2>4. /\ job' \in JobType /\ job'.pc = "repo" /\ job'.package = p /\ job'.session = job.session
          /\ job'.repoAdds = left /\ job'.staged = job.staged
      BY <1>1, <1>5, <1>6, <2>1 DEF JobType
    <2>5. Kept(job.session, job'.session) BY <2>4, JobFacts
    <2>6. /\ stored' \in [Packages -> SUBSET {"packages", "debug"}]
          /\ stored'[p] = stored[p] \cup {db}
          /\ \A q \in Packages : q # p => stored'[q] = stored[q]
      BY <1>5, <1>6
    <2>7. progress'[p].addedToRepo \/ ~progress'[p].error \/ p \notin job'.session.responses
             => Databases(p) \ left \subseteq stored'[p]
      <3>1. progress[p].addedToRepo \/ ~progress[p].error \/ p \notin job.session.responses
               => Databases(p) \ job.repoAdds \subseteq stored[p]
        BY <1>1, <1>4 DEF StoredRight, Pkg
      <3>2. /\ progress'[p].addedToRepo => progress[p].addedToRepo \/ ~progress[p].error
            /\ ~progress'[p].error => ~progress[p].error
        BY <2>3 DEF added
      <3>3. Databases(p) \ job.repoAdds \subseteq stored[p] => Databases(p) \ left \subseteq stored'[p]
        BY <2>6 DEF left
      <3> QED BY <2>4, <3>1, <3>2, <3>3
    <2>8. DownloadNeeded(p)' => DownloadNeeded(p) \/ progress[p].error
      BY <2>3 DEF DownloadNeeded, added
    <2>9. progress[p].error => progress'[p].error BY <2>3
    <2>10. progress'[p].addedToRepo => stored'[p] # {} BY <2>6
    <2> QED BY <1>1, <1>2, <2>2, <2>3, <2>4, <2>5, <2>6, <2>7, <2>8, <2>9, <2>10,
               RepoStep DEF left
  <1>7. CASE /\ progress' = [progress EXCEPT ![p].error = TRUE, ![p].addedToRepo = FALSE]
             /\ job' = [job EXCEPT !.repoAdds = left, !.session = t]
             /\ UNCHANGED stored
    <2>1. left \in SUBSET {"packages", "debug"} BY <1>5
    <2>2. Kept(job.session, t) /\ t \in SessionType /\ p \in t.responses
      BY <1>5, WithResponseKept DEF Kept
    <2>7. t.staging = job.session.staging BY <1>5 DEF WithResponse, SessionType
    <2> HIDE DEF left, t
    <2>3. /\ progress' \in [Packages -> ProgressType]
          /\ \A q \in Packages : q # p => progress'[q] = progress[q]
      BY <1>5, <1>7, FailureStored
    <2>4. /\ ~progress'[p].addedToRepo /\ progress'[p].error
          /\ progress'[p].stagingNeeded = progress[p].stagingNeeded
      BY <1>5, <1>7, FailureStored
    <2>5. /\ job' \in JobType /\ job'.pc = "repo" /\ job'.package = p /\ job'.session = t
          /\ job'.repoAdds = left /\ job'.staged = job.staged
      BY <1>1, <1>5, <1>7, <2>1, <2>2 DEF JobType
    <2>6. stored' = stored BY <1>7
    <2> QED BY <1>1, <1>2, <1>5, <2>2, <2>3, <2>4, <2>5, <2>6, <2>7, RepoStep DEF left
  <1>8. \/ /\ progress' = [progress EXCEPT ![p].addedToRepo = added]
           /\ stored' = [stored EXCEPT ![p] = stored[p] \cup {db}]
           /\ job' = [job EXCEPT !.repoAdds = left]
        \/ /\ progress' = [progress EXCEPT ![p].error = TRUE, ![p].addedToRepo = FALSE]
           /\ job' = [job EXCEPT !.repoAdds = left, !.session = t]
           /\ UNCHANGED stored
    BY DEF RepoAddDone, Pkg
  <1> QED BY <1>6, <1>7, <1>8

\* All of them have exited: the package is in the repository or has failed.
LEMMA MakeNextPackageIInv == ASSUME IInv, MakeNextPackage PROVE IInv'
  <1>1. /\ job.pc = "repo" /\ job.repoAdds = {} /\ disk' = progress
        /\ job' = [job EXCEPT !.pc = "next"]
        /\ UNCHANGED <<progress, params, runs, result, downloads, active, blocked, stored, crashed>>
    BY DEF MakeNextPackage
  <1>2. AtPackage BY <1>1 DEF AtPackage
  <1>3. Pkg \in Packages BY <1>2, JobFacts
  <1> PICK p \in Packages : p = job.package BY <1>3 DEF Pkg
  <1>4. TypeOK /\ SourcesAttempted /\ AddedOnlyIfStored /\ StoredRight BY DEF IInv
  <1>5. /\ job' \in JobType /\ job'.pc = "next" /\ job'.package = p /\ job'.session = job.session
    BY <1>1, JobFacts DEF JobType, PCs
  <1>6. ~AtPackage' BY <1>5 DEF AtPackage
  <1>7. TypeOK' BY <1>1, <1>4, <1>5 DEF TypeOK
  <1>8. StopsForFailure(job'.session) BY <1>5 DEF IInv, Phases
  <1>9. Kept(job.session, job'.session) BY <1>5, JobFacts
  <1>10. /\ \A q : InRepository(q)' <=> InRepository(q)
         /\ \A q : DownloadNeeded(q)' <=> DownloadNeeded(q)
         /\ Relevant' = Relevant
    BY <1>1 DEF InRepository, DownloadNeeded, Relevant
  <1>11. SourcesAttempted' BY <1>1, <1>4, <1>10 DEF SourcesAttempted
  <1>12. progress[p].addedToRepo \/ p \notin job.session.responses => InRepository(p)
    <2> SUFFICES ASSUME progress[p].addedToRepo \/ p \notin job.session.responses
                 PROVE  InRepository(p)
      OBVIOUS
    <2>1. Databases(p) \ job.repoAdds \subseteq stored[p] /\ stored[p] \subseteq Databases(p)
      BY <1>1, <1>4 DEF StoredRight, Pkg
    <2>2. stored[p] = Databases(p) BY <1>1, <2>1
    <2> QED BY <2>2, DatabasesFacts DEF InRepository
  <1>13. AddedOnlyIfStored'
    <2>1. ASSUME NEW q \in Packages, progress[q].addedToRepo PROVE InRepository(q)
      <3>1. CASE q = p BY <1>12, <2>1, <3>1
      <3>2. CASE q # p BY <1>4, <2>1, <3>2 DEF AddedOnlyIfStored, Pkg
      <3> QED BY <3>1, <3>2
    <2> QED BY <1>1, <1>10, <2>1 DEF AddedOnlyIfStored
  <1>14. StoredRight' BY <1>1, <1>4, <1>5 DEF StoredRight
  <1>15. SavedRight' BY <1>1 DEF SavedRight, SameButError
  <1>16. JobRight'
    <2>1. \A q : AtPackage /\ q = Pkg /\ ~AtPackage' => Settles(job.session, q)'
      BY <1>5, <1>10, <1>12 DEF Settles, Pkg
    <2> QED BY <1>1, <1>5, <1>6, <1>9, <1>10, <2>1, JobStays
  <1>17. StagingRight'
    <2>1. \A q : Known(q)' => Known(q) BY <1>1, <1>6 DEF Known
    <2> QED BY <1>1, <1>5, <1>6, <1>9, <2>1, StagingStays
  <1> QED BY <1>1, <1>5, <1>7, <1>8, <1>11, <1>13, <1>14, <1>15, <1>16, <1>17, BuildFrame

\* Any action of the downloads.
LEMMA DownloadIInv == ASSUME IInv, NEW p \in Packages, Download(p) PROVE IInv'
  BY EnqueueIInv, HandlerIInv DEF Download

\* Any action of the build.
LEMMA BuildIInv == ASSUME IInv, Build PROVE IInv'
  <1>1. CASE SelectPackage BY <1>1, SelectPackageIInv
  <1>2. CASE SkipPackage BY <1>2, SkipPackageIInv
  <1>3. CASE AddFinished BY <1>3, AddFinishedIInv
  <1>4. CASE RefuseBuild BY <1>4, RefuseBuildIInv
  <1>5. CASE RefuseWithoutSources BY <1>5, RefuseWithoutSourcesIInv
  <1>6. CASE RequestChroot BY <1>6, RequestChrootIInv
  <1>7. CASE LaunchBuild BY <1>7, LaunchBuildIInv
  <1>8. CASE BuildDone BY <1>8, BuildDoneIInv
  <1>9. CASE AddFails BY <1>9, AddFailsIInv
  <1>10. CASE AddPackage BY <1>10, AddPackageIInv
  <1>11. CASE SigningFails BY <1>11, SigningFailsIInv
  <1>12. CASE SigningDone BY <1>12, SigningDoneIInv
  <1>13. CASE \E db \in {"packages", "debug"} : RepoAddDone(db) BY <1>13, RepoAddDoneIInv
  <1>14. CASE MakeNextPackage BY <1>14, MakeNextPackageIInv
  <1>15. CASE BuildsDone BY <1>15, BuildsDoneIInv
  <1> QED
    BY <1>1, <1>2, <1>3, <1>4, <1>5, <1>6, <1>7, <1>8, <1>9, <1>10, <1>11, <1>12, <1>13, <1>14, <1>15
    DEF Build

\* The invariant is inductive.
LEMMA NextIInv == IInv /\ [Next]_vars => IInv'
  <1> SUFFICES ASSUME IInv, [Next]_vars PROVE IInv' OBVIOUS
  <1>1. CASE Reject BY <1>1, RejectIInv
  <1>2. CASE Start BY <1>2, StartIInv
  <1>3. CASE Crash BY <1>3, CrashIInv
  <1>4. CASE NoFurtherDownload BY <1>4, NoFurtherDownloadIInv
  <1>5. CASE \E p \in Packages : Download(p) BY <1>5, DownloadIInv
  <1>6. CASE DownloadsDone BY <1>6, DownloadsDoneIInv
  <1>7. CASE Build BY <1>7, BuildIInv
  <1>8. CASE DumpAfterLaunch BY <1>8, DumpAfterLaunchIInv
  <1>9. CASE UNCHANGED vars
    <2>1. blocked' \in BOOLEAN BY <1>9, JobFacts DEF vars
    <2> QED BY <1>9, <2>1, BlockedIInv DEF vars
  <1> QED BY <1>1, <1>2, <1>3, <1>4, <1>5, <1>6, <1>7, <1>8, <1>9 DEF Next, Working

\* The inductive invariant holds in every state of every sequence of runs, with
\* failures and restarts of the service at any point.
THEOREM ConductInvariant == Spec => []IInv
  <1> QED BY InitIInv, NextIInv, PTL DEF Spec

\* However the exit handlers of downloads interleave, enqueueDownloads() never has
\* more processes running than m_downloadsSlots allows and forgets no package: when
\* the first one is built, the sources of each are there or an error is recorded.
THEOREM DownloadsConsistent == Spec => []Consistent
  <1>1. IInv => Consistent BY DEF IInv, Consistent
  <1> QED BY <1>1, ConductInvariant, PTL

\* BatchProcessingSession holds a batch back until the packages of all previous
\* ones are in the repository, unless the action is told to build as far as
\* possible.
THEOREM BatchesWait == Spec => []BatchBarrier
  <1>1. IInv => BatchBarrier
    <2> SUFFICES ASSUME IInv, job.pc \in {"chroot", "build", "add", "sign", "repo"},
                        ~params.asFarAsPossible, NEW p \in Relevant, BatchOf(p) < BatchOf(Pkg)
                 PROVE  InRepository(p)
      BY DEF BatchBarrier
    <2>1. AtPackage /\ job.pc # "none" BY DEF AtPackage
    <2>2. job.session.skip BY <2>1 DEF IInv, JobRight
    <2>3. p \in Before(BatchOf(Pkg)) BY DEF Before
    <2> QED BY <2>1, <2>2, <2>3 DEF IInv, JobRight
  <1> QED BY <1>1, ConductInvariant, PTL

\* In whatever order the processes invoked by addPackageToRepo() exit or fail: what
\* is marked as added, and what a run reports as success, has been added by
\* repo-add.
THEOREM ReportedIsStored == Spec => []StoredAsReported
  <1>1. IInv => StoredAsReported BY DEF IInv, StoredAsReported
  <1> QED BY <1>1, ConductInvariant, PTL

\* When a run is over dumpBuildProgress() has saved what has been achieved (but not
\* each error); and after a package known to need staging, by this run or by an
\* earlier one, packages of later batches (of more than one) are staged.
THEOREM KnowledgeKept == Spec => []ProgressKept
  <1>1. ASSUME IInv PROVE ProgressSaved
    <2>1. SavedRight BY <1>1 DEF IInv
    <2> QED BY <2>1 DEF SavedRight, ProgressSaved, Idle, SameButError
  <1>2. ASSUME IInv PROVE StagingKept
    <2> SUFFICES ASSUME job.pc \in {"sign", "repo"}, params.autoStaging, Len(Batches[BatchOf(Pkg)]) > 1,
                        NEW p \in Relevant, BatchOf(p) < BatchOf(Pkg),
                        progress[p].addedToRepo, progress[p].stagingNeeded = "Yes"
                 PROVE  job.staged
      BY DEF StagingKept
    <2>1. AtPackage /\ job.pc # "none" BY DEF AtPackage
    <2>2. p \in Before(BatchOf(Pkg)) BY DEF Before
    <2>3. Known(p) BY DEF Known
    <2>4. StagingRight BY <1>2 DEF IInv
    <2>5. job.session.staging BY <2>1, <2>2, <2>3, <2>4 DEF StagingRight
    <2> QED BY <2>1, <2>4, <2>5 DEF StagingRight
  <1>3. IInv => ProgressKept BY <1>1, <1>2 DEF ProgressKept
  <1> QED BY <1>3, ConductInvariant, PTL

-----------------------------------------------------------------------------
(* The locks of one build: ChrootBuild for every set of actions, any        *)
(* assignment of working copies to them and any set of actions stopped.    *)

\* An action owns a lock that is held by its callback or process session, or that
\* a callback about to be invoked has been granted.
Owns(c, n) == n \in held[c] \/ (pc[c] = "granted" /\ Current(c) = n)

\* The locks are only used exclusively.  A lock has one owner exactly if it is
\* locked, and a callback is only stored behind an owner.
Ownership ==
    /\ \A n \in Names :
        /\ mutexes[n].sharedOwners = 0 /\ mutexes[n].sharedCallbacks = {}
        /\ mutexes[n].exclusivelyOwned <=> \E c \in Clients : Owns(c, n)
        /\ mutexes[n].exclusiveCallback # None => mutexes[n].exclusivelyOwned
    /\ \A n \in Names : \A c, d \in Clients : Owns(c, n) /\ Owns(d, n) => c = d

\* The callback stored in a mutex is that of the one action waiting for it.
CallbackWaits ==
    \A n \in Names : \A c \in Clients :
        mutexes[n].exclusiveCallback = c <=> pc[c] = "wait" /\ Current(c) = n

\* What an action holds at each point, and that one which has been concluded or
\* which unwinds has no session in m_ongoingProcesses.
Position(c) ==
    /\ pc[c] = "start" => held[c] = {} /\ session[c] = "none"
    /\ pc[c] \in {"flagged", "request", "wait", "granted"} =>
          held[c] = IF session[c] = "none" THEN {} ELSE {Root}
    /\ pc[c] \in {"posted", "callback"} =>
          held[c] = IF session[c] = "none" THEN {Root} ELSE {Root, UserOf[c]}
    /\ pc[c] = "prepared" => held[c] = {Root} /\ session[c] # "none"
    /\ pc[c] = "process" => held[c] \in {{Root, UserOf[c]}, {UserOf[c]}} /\ session[c] # "none"
    /\ pc[c] = "unwind" => session[c] # "ongoing"
    /\ pc[c] \in {"exited", "enqueue", "finish", "ended"} => held[c] = {}
    /\ outcome[c] # "none" => session[c] # "ongoing" /\ (aborted[c] \/ pc[c] = "ended")
    /\ aborting[c] \/ stop[c] => aborted[c]

\* ChrootConsistent is not inductive: that a lock is locked by its owner only needs to
\* know where callbacks are stored, and that an overwritten callback leaves no
\* session behind needs to know what the actions hold at each point.
ChrootIInv == ChrootTypeOK /\ Ownership /\ CallbackWaits /\ \A c \in Clients : Position(c)

-------------------------------------------------------------------------------
(* Invariants follow from the inductive one.                               *)

LEMMA Implied == ChrootIInv => ChrootConsistent
  <1> SUFFICES ASSUME ChrootIInv PROVE ChrootConsistent OBVIOUS
  <1> USE DEF ChrootIInv
  <1>1. \A c, d \in Clients : c # d => held[c] \cap held[d] = {}
    BY DEF Ownership, Owns, ChrootTypeOK
  <1>2. ASSUME NEW c \in Clients
        PROVE  /\ pc[c] \in {"callback", "prepared", "request", "wait"} =>
                     (session[c] = "none" /\ pc[c] # "callback") \/ Root \in held[c]
               /\ pc[c] = "process" => UserOf[c] \in held[c]
    BY DEF Position
  <1>3. ChrootProtected BY <1>1, <1>2 DEF ChrootProtected
  <1>4. NoLeakedLock BY DEF NoLeakedLock, Ownership, Owns, Position
  <1> QED BY <1>3, <1>4 DEF ChrootConsistent

LEMMA ChrootInitIInv == ChrootInit => ChrootIInv
  <1> SUFFICES ASSUME ChrootInit PROVE ChrootIInv OBVIOUS
  <1>1. ChrootTypeOK
    BY DEF ChrootInit, ChrootTypeOK, NewMutex, MutexType, JobStates, Sessions
  <1>2. \A n \in Names : mutexes[n] = NewMutex BY DEF ChrootInit
  <1>3. \A c \in Clients : \A n \in Names : ~Owns(c, n) BY DEF ChrootInit, Owns
  <1>4. Ownership BY <1>2, <1>3 DEF Ownership, NewMutex
  <1>5. CallbackWaits BY <1>2, ClientsAssumption DEF ChrootInit, CallbackWaits, NewMutex
  <1>6. \A c \in Clients : Position(c) BY DEF ChrootInit, Position
  <1> QED BY <1>1, <1>4, <1>5, <1>6 DEF ChrootIInv

-------------------------------------------------------------------------------
(* Steps that leave the mutexes alone.                                     *)

\* Nobody gets or loses a lock or starts or ends to wait.
LEMMA LocalStep ==
    ASSUME ChrootIInv, ChrootTypeOK', UNCHANGED mutexes,
           \A c \in Clients : \A n \in Names : Owns(c, n)' <=> Owns(c, n),
           \A c \in Clients : pc'[c] = "wait" <=> pc[c] = "wait",
           \A c \in Clients : pc[c] = "wait" => (session'[c] = "none" <=> session[c] = "none"),
           \A c \in Clients : Position(c)'
    PROVE  ChrootIInv'
  <1>1. Ownership' BY DEF ChrootIInv, Ownership
  <1>2. CallbackWaits' BY DEF ChrootIInv, CallbackWaits, Current
  <1> QED BY <1>1, <1>2 DEF ChrootIInv

LEMMA SetWaitingIInv ==
    ASSUME ChrootIInv, NEW c \in Clients, SetWaiting(c) PROVE ChrootIInv'
  <1> USE DEF ChrootIInv, SetWaiting
  <1>1. ChrootTypeOK' BY DEF ChrootTypeOK, JobStates, Sessions
  <1>2. UNCHANGED mutexes OBVIOUS
  <1>3. \A d \in Clients : \A n \in Names : Owns(d, n)' <=> Owns(d, n)
    BY DEF Owns, Current, ChrootTypeOK, Position
  <1>4. /\ \A d \in Clients : pc'[d] = "wait" <=> pc[d] = "wait"
        /\ \A d \in Clients : pc[d] = "wait" => (session'[d] = "none" <=> session[d] = "none")
    BY DEF ChrootTypeOK
  <1>5. \A d \in Clients : Position(d)' BY DEF Position, Current, ChrootTypeOK, JobStates, Sessions
  <1> QED BY <1>1, <1>2, <1>3, <1>4, <1>5, LocalStep

LEMMA CheckAbortedIInv ==
    ASSUME ChrootIInv, NEW c \in Clients, CheckAborted(c) PROVE ChrootIInv'
  <1> USE DEF ChrootIInv, CheckAborted, ConcludedIfExecuting, Concluded
  <1>1. ChrootTypeOK' BY DEF ChrootTypeOK, JobStates, Sessions
  <1>2. UNCHANGED mutexes OBVIOUS
  <1>3. \A d \in Clients : \A n \in Names : Owns(d, n)' <=> Owns(d, n)
    BY DEF Owns, Current, ChrootTypeOK, Position
  <1>4. /\ \A d \in Clients : pc'[d] = "wait" <=> pc[d] = "wait"
        /\ \A d \in Clients : pc[d] = "wait" => (session'[d] = "none" <=> session[d] = "none")
    BY DEF ChrootTypeOK
  <1>5. \A d \in Clients \ {c} : Position(d)'
    <2> SUFFICES ASSUME NEW d \in Clients \ {c} PROVE Position(d)' OBVIOUS
    <2>1. Position(d) OBVIOUS
    <2>2. /\ pc'[d] = pc[d] /\ session'[d] = session[d] /\ outcome'[d] = outcome[d]
          /\ held'[d] = held[d] /\ aborted'[d] = aborted[d]
          /\ aborting'[d] = aborting[d] /\ stop'[d] = stop[d]
      BY DEF ChrootTypeOK
    <2> QED BY <2>1, <2>2 DEF Position
  <1>6. Position(c)'
    <2>1. Position(c) OBVIOUS
    <2>2. CASE aborted[c] /\ ConcludedIfExecuting(c, "unwind")
      BY <2>1, <2>2 DEF Position, ChrootTypeOK
    <2>3. CASE ~aborted[c] /\ pc' = [pc EXCEPT ![c] = "request"] /\ UNCHANGED <<session, outcome>>
      BY <2>1, <2>3 DEF Position, ChrootTypeOK
    <2> QED BY <2>2, <2>3
  <1> QED BY <1>1, <1>2, <1>3, <1>4, <1>5, <1>6, LocalStep

LEMMA GrantedIInv ==
    ASSUME ChrootIInv, NEW c \in Clients, Granted(c) PROVE ChrootIInv'
  <1> USE DEF ChrootIInv, Granted
  <1>1. ChrootTypeOK'
    <2>1. Current(c) \in Names BY ChrootAssumption DEF Current, ChrootTypeOK
    <2>2. held' \in [Clients -> SUBSET Names] BY <2>1 DEF ChrootTypeOK
    <2>3. pc' \in [Clients -> JobStates] /\ waiting' \in [Clients -> BOOLEAN] BY DEF ChrootTypeOK, JobStates
    <2>4. UNCHANGED <<mutexes, session, failed, aborted, aborting, stop, outcome>> OBVIOUS
    <2> HIDE DEF Granted
    <2> QED BY <2>2, <2>3, <2>4 DEF ChrootTypeOK
  <1>2. UNCHANGED mutexes OBVIOUS
  <1>3. \A d \in Clients : \A n \in Names : Owns(d, n)' <=> Owns(d, n)
    BY DEF Owns, Current, ChrootTypeOK, Position
  <1>4. /\ \A d \in Clients : pc'[d] = "wait" <=> pc[d] = "wait"
        /\ \A d \in Clients : pc[d] = "wait" => (session'[d] = "none" <=> session[d] = "none")
    BY DEF ChrootTypeOK
  <1>5. \A d \in Clients : Position(d)' BY DEF Position, Current, ChrootTypeOK, JobStates, Sessions
  <1> QED BY <1>1, <1>2, <1>3, <1>4, <1>5, LocalStep

LEMMA RunPostedIInv ==
    ASSUME ChrootIInv, NEW c \in Clients, RunPosted(c) PROVE ChrootIInv'
  <1> USE DEF ChrootIInv, RunPosted, ConcludedIfExecuting, Concluded
  <1>1. ChrootTypeOK' BY DEF ChrootTypeOK, JobStates, Sessions
  <1>2. UNCHANGED mutexes OBVIOUS
  <1>3. \A d \in Clients : \A n \in Names : Owns(d, n)' <=> Owns(d, n)
    BY DEF Owns, Current, ChrootTypeOK, Position
  <1>4. /\ \A d \in Clients : pc'[d] = "wait" <=> pc[d] = "wait"
        /\ \A d \in Clients : pc[d] = "wait" => (session'[d] = "none" <=> session[d] = "none")
    BY DEF ChrootTypeOK
  <1>5. \A d \in Clients : Position(d)' BY DEF Position, Current, ChrootTypeOK, JobStates, Sessions
  <1> QED BY <1>1, <1>2, <1>3, <1>4, <1>5, LocalStep

LEMMA UnwoundIInv ==
    ASSUME ChrootIInv, NEW c \in Clients, Unwound(c) PROVE ChrootIInv'
  <1> USE DEF ChrootIInv, Unwound
  <1>1. ChrootTypeOK' BY DEF ChrootTypeOK, JobStates, Sessions
  <1>2. UNCHANGED mutexes OBVIOUS
  <1>3. \A d \in Clients : \A n \in Names : Owns(d, n)' <=> Owns(d, n)
    BY DEF Owns, Current, ChrootTypeOK, Position
  <1>4. /\ \A d \in Clients : pc'[d] = "wait" <=> pc[d] = "wait"
        /\ \A d \in Clients : pc[d] = "wait" => (session'[d] = "none" <=> session[d] = "none")
    BY DEF ChrootTypeOK
  <1>5. \A d \in Clients : Position(d)' BY DEF Position, Current, ChrootTypeOK, JobStates, Sessions
  <1> QED BY <1>1, <1>2, <1>3, <1>4, <1>5, LocalStep

LEMMA LaunchIInv ==
    ASSUME ChrootIInv, NEW c \in Clients, Launch(c) PROVE ChrootIInv'
  <1> USE DEF ChrootIInv, Launch
  <1>1. ChrootTypeOK' BY DEF ChrootTypeOK, JobStates, Sessions
  <1>2. UNCHANGED mutexes OBVIOUS
  <1>3. \A d \in Clients : \A n \in Names : Owns(d, n)' <=> Owns(d, n)
    BY DEF Owns, Current, ChrootTypeOK, Position
  <1>4. /\ \A d \in Clients : pc'[d] = "wait" <=> pc[d] = "wait"
        /\ \A d \in Clients : pc[d] = "wait" => (session'[d] = "none" <=> session[d] = "none")
    BY DEF ChrootTypeOK
  <1>5. \A d \in Clients : Position(d)' BY DEF Position, Current, ChrootTypeOK, JobStates, Sessions
  <1> QED BY <1>1, <1>2, <1>3, <1>4, <1>5, LocalStep

LEMMA ExitIInv ==
    ASSUME ChrootIInv, NEW c \in Clients, Exit(c) PROVE ChrootIInv'
  <1> USE DEF ChrootIInv, Exit
  <1>1. ChrootTypeOK' BY DEF ChrootTypeOK, JobStates, Sessions
  <1>2. UNCHANGED mutexes OBVIOUS
  <1>3. \A d \in Clients : \A n \in Names : Owns(d, n)' <=> Owns(d, n)
    BY DEF Owns, Current, ChrootTypeOK, Position
  <1>4. /\ \A d \in Clients : pc'[d] = "wait" <=> pc[d] = "wait"
        /\ \A d \in Clients : pc[d] = "wait" => (session'[d] = "none" <=> session[d] = "none")
    BY DEF ChrootTypeOK
  <1>5. \A d \in Clients : Position(d)' BY DEF Position, Current, ChrootTypeOK, JobStates, Sessions
  <1> QED BY <1>1, <1>2, <1>3, <1>4, <1>5, LocalStep

LEMMA RunExitHandlerIInv ==
    ASSUME ChrootIInv, NEW c \in Clients, RunExitHandler(c) PROVE ChrootIInv'
  <1> USE DEF ChrootIInv, RunExitHandler
  <1>1. ChrootTypeOK' BY DEF ChrootTypeOK, JobStates, Sessions
  <1>2. UNCHANGED mutexes OBVIOUS
  <1>3. \A d \in Clients : \A n \in Names : Owns(d, n)' <=> Owns(d, n)
    BY DEF Owns, Current, ChrootTypeOK, Position
  <1>4. /\ \A d \in Clients : pc'[d] = "wait" <=> pc[d] = "wait"
        /\ \A d \in Clients : pc[d] = "wait" => (session'[d] = "none" <=> session[d] = "none")
    BY DEF ChrootTypeOK
  <1>5. \A d \in Clients : Position(d)' BY DEF Position, Current, ChrootTypeOK, JobStates, Sessions
  <1> QED BY <1>1, <1>2, <1>3, <1>4, <1>5, LocalStep

LEMMA EnqueueChrootIInv ==
    ASSUME ChrootIInv, NEW c \in Clients, Enqueue(c) PROVE ChrootIInv'
  <1> USE DEF ChrootIInv, Enqueue, Concluded
  <1>1. ChrootTypeOK' BY DEF ChrootTypeOK, JobStates, Sessions
  <1>2. UNCHANGED mutexes OBVIOUS
  <1>3. \A d \in Clients : \A n \in Names : Owns(d, n)' <=> Owns(d, n)
    BY DEF Owns, Current, ChrootTypeOK, Position
  <1>4. /\ \A d \in Clients : pc'[d] = "wait" <=> pc[d] = "wait"
        /\ \A d \in Clients : pc[d] = "wait" => (session'[d] = "none" <=> session[d] = "none")
    BY DEF ChrootTypeOK
  <1>5. \A d \in Clients : Position(d)' BY DEF Position, Current, ChrootTypeOK, JobStates, Sessions
  <1> QED BY <1>1, <1>2, <1>3, <1>4, <1>5, LocalStep

LEMMA FinishBuildIInv ==
    ASSUME ChrootIInv, NEW c \in Clients, FinishBuild(c) PROVE ChrootIInv'
  <1> USE DEF ChrootIInv, FinishBuild, Concluded
  <1>1. ChrootTypeOK' BY DEF ChrootTypeOK, JobStates, Sessions
  <1>2. UNCHANGED mutexes OBVIOUS
  <1>3. \A d \in Clients : \A n \in Names : Owns(d, n)' <=> Owns(d, n)
    BY DEF Owns, Current, ChrootTypeOK, Position
  <1>4. /\ \A d \in Clients : pc'[d] = "wait" <=> pc[d] = "wait"
        /\ \A d \in Clients : pc[d] = "wait" => (session'[d] = "none" <=> session[d] = "none")
    BY DEF ChrootTypeOK
  <1>5. \A d \in Clients : Position(d)' BY DEF Position, Current, ChrootTypeOK, JobStates, Sessions
  <1> QED BY <1>1, <1>2, <1>3, <1>4, <1>5, LocalStep

LEMMA AbortIInv ==
    ASSUME ChrootIInv, NEW c \in Clients, Abort(c) PROVE ChrootIInv'
  <1> USE DEF ChrootIInv, Abort
  <1>1. ChrootTypeOK' BY DEF ChrootTypeOK, JobStates, Sessions
  <1>2. UNCHANGED mutexes OBVIOUS
  <1>3. \A d \in Clients : \A n \in Names : Owns(d, n)' <=> Owns(d, n)
    BY DEF Owns, Current, ChrootTypeOK, Position
  <1>4. /\ \A d \in Clients : pc'[d] = "wait" <=> pc[d] = "wait"
        /\ \A d \in Clients : pc[d] = "wait" => (session'[d] = "none" <=> session[d] = "none")
    BY DEF ChrootTypeOK
  <1>5. \A d \in Clients : Position(d)' BY DEF Position, Current, ChrootTypeOK, JobStates, Sessions
  <1> QED BY <1>1, <1>2, <1>3, <1>4, <1>5, LocalStep

LEMMA AbortWaitingIInv ==
    ASSUME ChrootIInv, NEW c \in Clients, AbortWaiting(c) PROVE ChrootIInv'
  <1> USE DEF ChrootIInv, AbortWaiting, ConcludedIfExecuting, Concluded
  <1>1. ChrootTypeOK' BY DEF ChrootTypeOK, JobStates, Sessions
  <1>2. UNCHANGED mutexes OBVIOUS
  <1>3. \A d \in Clients : \A n \in Names : Owns(d, n)' <=> Owns(d, n)
    BY DEF Owns, Current, ChrootTypeOK, Position
  <1>4. /\ \A d \in Clients : pc'[d] = "wait" <=> pc[d] = "wait"
        /\ \A d \in Clients : pc[d] = "wait" => (session'[d] = "none" <=> session[d] = "none")
    BY DEF ChrootTypeOK
  <1>5. \A d \in Clients : Position(d)' BY DEF Position, Current, ChrootTypeOK, JobStates, Sessions
  <1> QED BY <1>1, <1>2, <1>3, <1>4, <1>5, LocalStep

LEMMA RunStopHandlerIInv ==
    ASSUME ChrootIInv, NEW c \in Clients, RunStopHandler(c) PROVE ChrootIInv'
  <1> USE DEF ChrootIInv, RunStopHandler, ConcludedIfExecuting, Concluded
  <1>1. ChrootTypeOK' BY DEF ChrootTypeOK, JobStates, Sessions
  <1>2. UNCHANGED mutexes OBVIOUS
  <1>3. \A d \in Clients : \A n \in Names : Owns(d, n)' <=> Owns(d, n)
    BY DEF Owns, Current, ChrootTypeOK, Position
  <1>4. /\ \A d \in Clients : pc'[d] = "wait" <=> pc[d] = "wait"
        /\ \A d \in Clients : pc[d] = "wait" => (session'[d] = "none" <=> session[d] = "none")
    BY DEF ChrootTypeOK
  <1>5. \A d \in Clients : Position(d)' BY DEF Position, Current, ChrootTypeOK, JobStates, Sessions
  <1> QED BY <1>1, <1>2, <1>3, <1>4, <1>5, LocalStep

-------------------------------------------------------------------------------
(* Steps that lock a mutex or wait for it.                                 *)

LEMMA RequestIInv ==
    ASSUME ChrootIInv, NEW c \in Clients, Request(c) PROVE ChrootIInv'
  <1> DEFINE n == Current(c)
             old == mutexes[n].exclusiveCallback
  <1> USE DEF ChrootIInv
  <1>1. n \in Names BY ChrootAssumption DEF Current, ChrootTypeOK
  <1>2. pc[c] = "request" BY DEF Request
  <1>3. mutexes[n] \in MutexType BY <1>1 DEF ChrootTypeOK
  <1>4. UNCHANGED <<held, session, failed, waiting, aborted, aborting, stop, outcome>> BY DEF Request
  <1>5. CASE CanLock(mutexes[n])
    <2>1. /\ mutexes' = [mutexes EXCEPT ![n] = Locked(@)]
          /\ pc' = [pc EXCEPT ![c] = "granted"]
      BY <1>5 DEF Request
    <2>2. ChrootTypeOK' BY <1>1, <1>3, <1>4, <2>1 DEF ChrootTypeOK, MutexType, Locked, JobStates
    <2>3. \A d \in Clients : \A k \in Names : Owns(d, k)' <=> Owns(d, k) \/ (d = c /\ k = n)
      BY <1>2, <1>4, <2>1 DEF Owns, Current, ChrootTypeOK
    <2>4. \A d \in Clients : ~Owns(d, n) BY <1>1, <1>5 DEF CanLock, Ownership
    <2>5. /\ mutexes'[n].sharedOwners = 0 /\ mutexes'[n].sharedCallbacks = {}
          /\ mutexes'[n].exclusivelyOwned /\ mutexes'[n].exclusiveCallback = old
          /\ \A k \in Names \ {n} : mutexes'[k] = mutexes[k]
      BY <1>1, <1>3, <2>1 DEF Locked, MutexType, ChrootTypeOK, Ownership
    <2>6. Ownership' BY <1>1, <2>3, <2>4, <2>5 DEF Ownership
    <2>7. CallbackWaits'
      BY <1>1, <1>2, <1>4, <2>1, <2>5 DEF CallbackWaits, Current, ChrootTypeOK
    <2>8. \A d \in Clients : Position(d)' BY <1>2, <1>4, <2>1 DEF Position, ChrootTypeOK
    <2> QED BY <2>2, <2>6, <2>7, <2>8
  <1>6. CASE ~CanLock(mutexes[n])
    <2>1. /\ mutexes' = [mutexes EXCEPT ![n] = WithExclusiveCallback(@, c)]
          /\ pc' = [d \in Clients |-> IF d = c THEN "wait"
                                      ELSE IF d = old THEN "unwind" ELSE pc[d]]
      BY <1>6 DEF Request
    <2>2. ChrootTypeOK' BY <1>1, <1>3, <1>4, <2>1 DEF ChrootTypeOK, MutexType, WithExclusiveCallback, JobStates
    <2>3. /\ mutexes'[n].sharedOwners = 0 /\ mutexes'[n].sharedCallbacks = {}
          /\ mutexes'[n].exclusivelyOwned = mutexes[n].exclusivelyOwned
          /\ mutexes'[n].exclusiveCallback = c
          /\ \A k \in Names \ {n} : mutexes'[k] = mutexes[k]
      BY <1>1, <1>3, <2>1 DEF WithExclusiveCallback, MutexType, ChrootTypeOK, Ownership
    <2>4. mutexes[n].exclusivelyOwned BY <1>1, <1>6 DEF CanLock, Ownership
    <2>5. ASSUME NEW d \in Clients, d = old
          PROVE  d # c /\ pc[d] = "wait" /\ Current(d) = n
      BY <1>1, <1>2, <2>5 DEF CallbackWaits
    <2>6. \A d \in Clients : \A k \in Names : Owns(d, k)' <=> Owns(d, k)
      BY <1>2, <1>4, <2>1, <2>5 DEF Owns, Current
    <2>7. Ownership' BY <1>1, <2>3, <2>4, <2>6, ClientsAssumption DEF Ownership
    \* An action that waits for a working copy owns the root directory, so no
    \* other one overwrites its callback.
    <2>8. ASSUME NEW d \in Clients, d = old
          PROVE  session[d] = "none"
      <3>1. d # c /\ pc[d] = "wait" /\ Current(d) = Current(c) BY <2>5, <2>8
      <3>2. SUFFICES ASSUME session[d] # "none" PROVE FALSE OBVIOUS
      <3>3. UserOf[d] # Root BY ChrootAssumption
      <3>4. session[c] # "none" BY <3>1, <3>2, <3>3 DEF Current
      <3>5. held[d] = {Root} BY <3>1, <3>2 DEF Position
      <3>6. held[c] = {Root} BY <1>2, <3>4 DEF Position
      <3> QED BY <3>1, <3>5, <3>6, ChrootAssumption DEF Ownership, Owns
    <2>9. CallbackWaits'
      <3>1. SUFFICES ASSUME NEW k \in Names, NEW d \in Clients
                     PROVE  mutexes'[k].exclusiveCallback = d <=> pc'[d] = "wait" /\ Current(d)' = k
        BY DEF CallbackWaits
      <3>2. Current(d)' = Current(d) BY <1>4 DEF Current
      <3>3. mutexes[k].exclusiveCallback = d <=> pc[d] = "wait" /\ Current(d) = k
        BY DEF CallbackWaits
      <3>4. CASE k = n
        <4>1. pc[d] = "wait" /\ Current(d) = k => d = old BY <3>3, <3>4
        <4> QED BY <1>1, <2>1, <2>3, <3>2, <3>4, <4>1
      <3>5. CASE k # n
        <4>1. d = old => Current(d) # k BY <2>5, <3>5
        <4> QED BY <1>1, <2>1, <2>3, <3>2, <3>3, <3>5, <4>1
      <3> QED BY <3>4, <3>5
    <2>10. \A d \in Clients : Position(d)'
      BY <1>2, <1>4, <2>1, <2>5, <2>8 DEF Position, ChrootTypeOK
    <2> QED BY <2>2, <2>7, <2>9, <2>10
  <1> QED BY <1>5, <1>6

-------------------------------------------------------------------------------
(* Steps that release a lock.                                              *)

\* Whoever waits for the lock owns it at once, nobody else does.
LEMMA ReleaseIInv ==
    ASSUME ChrootIInv, NEW c \in Clients, NEW n \in held[c], NEW to \in JobStates,
           pc[c] \notin {"wait", "granted"}, to \notin {"wait", "granted"},
           Release(c, n, to), UNCHANGED <<session, waiting, aborted, aborting, stop, outcome>>,
           failed' \in [Clients -> BOOLEAN],
           Position(c)'
    PROVE  ChrootIInv'
  <1> DEFINE old == mutexes[n].exclusiveCallback
             m == Released(n)
  <1> USE DEF ChrootIInv
  <1>1. n \in Names /\ mutexes[n] \in MutexType BY DEF ChrootTypeOK
  <1>2. /\ mutexes[n].sharedOwners = 0 /\ mutexes[n].sharedCallbacks = {}
        /\ \A d \in Clients : Owns(d, n) <=> d = c
    BY <1>1 DEF Ownership, Owns
  <1>3. m = [mutexes[n] EXCEPT !.exclusivelyOwned = FALSE] BY DEF Released, Unlocked
  <1>4. InvokedShared(m) = {} BY <1>1, <1>2, <1>3 DEF InvokedShared, MutexType
  <1>5. InvokedExclusive(m) = {old} \ {None}
    BY <1>1, <1>2, <1>3, <1>4 DEF InvokedExclusive, CanLock, MutexType
  <1>6. /\ held' = [held EXCEPT ![c] = @ \ {n}]
        /\ mutexes' = [mutexes EXCEPT ![n] = Notified(m)]
        /\ pc' = [d \in Clients |-> IF d \in {old} \ {None} THEN "granted"
                                    ELSE IF d = c THEN to ELSE pc[d]]
    BY <1>5 DEF Release
  <1>7. \A d \in Clients : Current(d)' = Current(d) BY DEF Current
  <1>8. ASSUME NEW d \in Clients, d = old
        PROVE  d # c /\ pc[d] = "wait" /\ Current(d) = n
    BY <1>1, <1>8 DEF CallbackWaits
  <1>9. \A d \in Clients : \A k \in Names \ {n} : Owns(d, k)' <=> Owns(d, k)
    BY <1>6, <1>7, <1>8 DEF Owns, ChrootTypeOK
  <1>10. /\ \A d \in Clients : d = old => Position(d)'
         /\ \A d \in Clients : d # old /\ d # c => Position(d)'
    <2> SUFFICES ASSUME NEW d \in Clients \ {c} PROVE Position(d)' BY <1>8
    <2>1. Position(d) OBVIOUS
    <2>2. /\ session'[d] = session[d] /\ outcome'[d] = outcome[d] /\ held'[d] = held[d]
          /\ aborted'[d] = aborted[d] /\ aborting'[d] = aborting[d] /\ stop'[d] = stop[d]
      BY <1>6 DEF ChrootTypeOK
    <2>3. pc'[d] = IF d = old THEN "granted" ELSE pc[d]
      BY <1>6, ClientsAssumption DEF ChrootTypeOK
    <2>4. d = old => pc[d] = "wait" BY <1>8
    <2> HIDE DEF old, ChrootIInv, Release
    <2> QED BY <2>1, <2>2, <2>3, <2>4 DEF Position
  <1>11. CASE old = None
    <2>1. Notified(m) = m BY <1>4, <1>5, <1>11 DEF Notified
    <2>2. ChrootTypeOK' BY <1>1, <1>3, <1>6, <1>11, <2>1 DEF ChrootTypeOK, MutexType
    <2>3. \A d \in Clients : ~Owns(d, n)'
      BY <1>2, <1>6, <1>7, <1>11, ClientsAssumption DEF Owns, ChrootTypeOK
    <2>4. /\ mutexes'[n].sharedOwners = 0 /\ mutexes'[n].sharedCallbacks = {}
          /\ ~mutexes'[n].exclusivelyOwned /\ mutexes'[n].exclusiveCallback = None
          /\ \A k \in Names \ {n} : mutexes'[k] = mutexes[k]
      BY <1>1, <1>2, <1>3, <1>6, <1>11, <2>1 DEF ChrootTypeOK, MutexType
    <2>5. Ownership' BY <1>9, <2>3, <2>4 DEF Ownership
    <2>6. CallbackWaits'
      BY <1>1, <1>6, <1>7, <1>11, <2>4, ClientsAssumption DEF CallbackWaits
    <2> QED BY <1>10, <1>11, <2>2, <2>5, <2>6, ClientsAssumption
  <1>12. CASE old # None
    <2>1. old \in Clients /\ InvokedExclusive(m) = {old}
      BY <1>1, <1>5, <1>12 DEF MutexType
    <2>2. Notified(m) = [m EXCEPT !.exclusivelyOwned = TRUE, !.exclusiveCallback = None]
      BY <1>4, <2>1 DEF Notified
    <2>3. ChrootTypeOK' BY <1>1, <1>3, <1>6, <2>2 DEF ChrootTypeOK, MutexType, JobStates
    <2>4. \A d \in Clients : Owns(d, n)' <=> d = old
      BY <1>2, <1>6, <1>7, <1>8, <1>12, <2>1 DEF Owns, ChrootTypeOK
    <2>5. /\ mutexes'[n].sharedOwners = 0 /\ mutexes'[n].sharedCallbacks = {}
          /\ mutexes'[n].exclusivelyOwned /\ mutexes'[n].exclusiveCallback = None
          /\ \A k \in Names \ {n} : mutexes'[k] = mutexes[k]
      BY <1>1, <1>2, <1>3, <1>6, <2>2 DEF ChrootTypeOK, MutexType
    <2>6. Ownership' BY <1>9, <2>1, <2>4, <2>5 DEF Ownership
    <2>7. CallbackWaits'
      <3>1. SUFFICES ASSUME NEW k \in Names, NEW d \in Clients
                     PROVE  mutexes'[k].exclusiveCallback = d <=> pc'[d] = "wait" /\ Current(d)' = k
        BY DEF CallbackWaits
      <3>2. mutexes[k].exclusiveCallback = d <=> pc[d] = "wait" /\ Current(d) = k
        BY DEF CallbackWaits
      <3>3. CASE k = n BY <1>6, <1>7, <1>12, <2>5, <3>2, <3>3, ClientsAssumption
      <3>4. CASE k # n
        <4>1. d = old => Current(d) # k BY <1>8, <3>4
        <4> QED BY <1>6, <1>7, <1>12, <2>5, <3>2, <3>4, <4>1
      <3> QED BY <3>3, <3>4
    <2> QED BY <1>10, <2>3, <2>6, <2>7
  <1> QED BY <1>11, <1>12

\* The action that releases a lock does not wait for it.
LEMMA NotInvoked ==
    ASSUME ChrootIInv, NEW c \in Clients, NEW n \in Names, pc[c] # "wait"
    PROVE  c \notin InvokedExclusive(Released(n))
  BY DEF ChrootIInv, ChrootTypeOK, CallbackWaits, InvokedExclusive, Released, Unlocked, MutexType

LEMMA UnwindIInv ==
    ASSUME ChrootIInv, NEW c \in Clients, Unwind(c) PROVE ChrootIInv'
  <1>1. PICK n \in held[c] : Release(c, n, "unwind") BY DEF Unwind
  <1>2. /\ pc[c] = "unwind"
        /\ UNCHANGED <<session, failed, waiting, aborted, aborting, stop, outcome>>
    BY DEF Unwind
  <1>3. Position(c)'
    <2>1. n \in Names BY DEF ChrootIInv, ChrootTypeOK
    <2>2. pc'[c] = "unwind" BY <1>1, <1>2, <2>1, NotInvoked DEF Release
    <2> QED BY <1>2, <2>2 DEF Position, ChrootIInv
  <1>4. "unwind" \in JobStates BY DEF JobStates
  <1> QED BY <1>1, <1>2, <1>3, <1>4, ReleaseIInv DEF ChrootIInv, ChrootTypeOK

LEMMA SynchronizedIInv ==
    ASSUME ChrootIInv, NEW c \in Clients, Synchronized(c) PROVE ChrootIInv'
  <1>1. /\ pc[c] = "process" /\ Root \in held[c]
        /\ Release(c, Root, "process")
        /\ UNCHANGED <<session, failed, waiting, aborted, aborting, stop, outcome>>
    BY DEF Synchronized
  <1>2. held[c] = {Root, UserOf[c]} /\ session[c] # "none" /\ UserOf[c] # Root
    BY <1>1, ChrootAssumption DEF ChrootIInv, Position
  <1>3. Position(c)'
    <2>1. held'[c] = {UserOf[c]} BY <1>1, <1>2 DEF Release, ChrootIInv, ChrootTypeOK
    <2>2. pc'[c] \in {"process", "granted"} BY <1>1 DEF Release
    <2>3. c \notin InvokedExclusive(Released(Root)) BY <1>1, ChrootAssumption, NotInvoked
    <2>4. pc'[c] = "process" BY <1>1, <2>3 DEF Release
    <2> QED BY <1>1, <1>2, <2>1, <2>4 DEF Position, ChrootIInv
  <1>4. "process" \in JobStates BY DEF JobStates
  <1> QED BY <1>1, <1>3, <1>4, ReleaseIInv DEF ChrootIInv, ChrootTypeOK

LEMMA PrepareIInv ==
    ASSUME ChrootIInv, NEW c \in Clients, Prepare(c) PROVE ChrootIInv'
  <1> USE DEF ChrootIInv
  <1>1. /\ pc[c] = "callback" /\ session[c] = "none" /\ held[c] = {Root}
        /\ UNCHANGED <<waiting, aborted, aborting, stop>>
    BY DEF Prepare, Position
  <1>2. CASE /\ Release(c, Root, "enqueue")
             /\ failed' = [failed EXCEPT ![c] = TRUE]
             /\ UNCHANGED <<session, outcome>>
    <2>1. held'[c] = {} BY <1>1, <1>2 DEF Release, ChrootTypeOK
    <2>2. c \notin InvokedExclusive(Released(Root)) BY <1>1, ChrootAssumption, NotInvoked
    <2>3. pc'[c] = "enqueue" BY <1>2, <2>2 DEF Release
    <2>4. Position(c)' BY <1>1, <1>2, <2>1, <2>3 DEF Position
    <2>5. "enqueue" \in JobStates /\ failed' \in [Clients -> BOOLEAN] BY <1>2 DEF JobStates, ChrootTypeOK
    <2> QED BY <1>1, <1>2, <2>4, <2>5, ReleaseIInv
  <1>3. CASE /\ aborted[c] /\ BuildLock
             /\ Concluded(c, "aborted", "unwind")
             /\ UNCHANGED <<mutexes, held, failed>>
    <2> USE <1>1, <1>3 DEF Concluded
    <2>1. ChrootTypeOK' BY DEF ChrootTypeOK, JobStates, Sessions
    <2>2. \A d \in Clients : \A n \in Names : Owns(d, n)' <=> Owns(d, n)
      BY DEF Owns, Current, ChrootTypeOK
    <2>3. /\ \A d \in Clients : pc'[d] = "wait" <=> pc[d] = "wait"
          /\ \A d \in Clients : pc[d] = "wait" => (session'[d] = "none" <=> session[d] = "none")
      BY DEF ChrootTypeOK
    <2>4. \A d \in Clients : Position(d)' BY DEF Position, ChrootTypeOK
    <2> QED BY <2>1, <2>2, <2>3, <2>4, LocalStep
  <1>4. CASE /\ ~aborted[c] /\ BuildLock
             /\ session' = [session EXCEPT ![c] = "ongoing"]
             /\ pc' = [pc EXCEPT ![c] = "prepared"]
             /\ UNCHANGED <<mutexes, held, failed, outcome>>
    <2> USE <1>1, <1>4
    <2>1. ChrootTypeOK' BY DEF ChrootTypeOK, JobStates, Sessions
    <2>2. \A d \in Clients : \A n \in Names : Owns(d, n)' <=> Owns(d, n)
      BY DEF Owns, Current, ChrootTypeOK
    <2>3. /\ \A d \in Clients : pc'[d] = "wait" <=> pc[d] = "wait"
          /\ \A d \in Clients : pc[d] = "wait" => (session'[d] = "none" <=> session[d] = "none")
      BY DEF ChrootTypeOK
    <2>4. \A d \in Clients : Position(d)' BY DEF Position, ChrootTypeOK
    <2> QED BY <2>1, <2>2, <2>3, <2>4, LocalStep
  <1> QED BY <1>2, <1>3, <1>4 DEF Prepare

-------------------------------------------------------------------------------

LEMMA ChrootNextIInv == ChrootIInv /\ [ChrootNext]_chrootVars => ChrootIInv'
  <1> SUFFICES ASSUME ChrootIInv, [ChrootNext]_chrootVars PROVE ChrootIInv' OBVIOUS
  <1>1. ASSUME NEW c \in Clients, Job(c) PROVE ChrootIInv'
    BY <1>1, SetWaitingIInv, CheckAbortedIInv, RequestIInv, GrantedIInv, RunPostedIInv,
       UnwindIInv, UnwoundIInv, PrepareIInv, LaunchIInv, RunExitHandlerIInv, EnqueueChrootIInv,
       FinishBuildIInv DEF Job
  <1>2. ASSUME NEW c \in Clients, Synchronized(c) \/ Exit(c) PROVE ChrootIInv'
    BY <1>2, SynchronizedIInv, ExitIInv
  <1>3. ASSUME NEW c \in Clients, Abort(c) \/ AbortWaiting(c) \/ RunStopHandler(c) PROVE ChrootIInv'
    BY <1>3, AbortIInv, AbortWaitingIInv, RunStopHandlerIInv
  <1>4. CASE UNCHANGED chrootVars
    BY <1>4 DEF chrootVars, ChrootIInv, ChrootTypeOK, Ownership, Owns, Current, CallbackWaits, Position
  <1> QED BY <1>1, <1>2, <1>3, <1>4 DEF ChrootNext

\* Builds in chroots never share a directory they need for themselves, and no
\* lock is leaked whenever an action is stopped, fails or has its callback
\* overwritten, whatever number of actions there is and whichever working copies
\* they use (ConductBuild::invokeMakechrootpkg, BuildAction::acquireToWrite).
THEOREM ChrootsConsistent == ChrootSpec => []ChrootConsistent
  <1>1. ChrootSpec => []ChrootIInv BY ChrootInitIInv, ChrootNextIInv, PTL DEF ChrootSpec
  <1> QED BY <1>1, Implied, PTL
=============================================================================
