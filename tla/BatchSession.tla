---------------------------- MODULE BatchSession ----------------------------
(***************************************************************************)
(* BatchProcessingSession (librepomgr/buildactions/conductbuild.cpp):      *)
(* hands out the packages of a build batch by batch, collects the ones     *)
(* that failed and decides where staging starts.  A session is a record,   *)
(* its member functions are operators on it.                               *)
(***************************************************************************)
EXTENDS Integers, Sequences, FiniteSets

CONSTANTS
    Packages,   \* the packages of the batches
    Batches     \* computed by the preparation of the build

ASSUME BatchAssumption ==
    /\ IsFiniteSet(Packages)
    /\ Batches \in Seq(Seq(Packages))
    /\ \A i \in DOMAIN Batches : Batches[i] # <<>>
    \* every package is in one place of one batch
    /\ \A i, j \in DOMAIN Batches : \A m \in DOMAIN Batches[i], n \in DOMAIN Batches[j] :
          Batches[i][m] = Batches[j][n] => i = j /\ m = n
    /\ \A p \in Packages : \E i \in DOMAIN Batches : \E n \in DOMAIN Batches[i] : Batches[i][n] = p

BatchOf(p) == CHOOSE i \in DOMAIN Batches : \E n \in DOMAIN Batches[i] : Batches[i][n] = p

SessionType ==
    [batch : 1 .. Len(Batches) + 1, package : Nat \ {0}, first : BOOLEAN, skip : BOOLEAN,
     failures : BOOLEAN, stagingNext : BOOLEAN, stagingThis : BOOLEAN, staging : BOOLEAN,
     responses : SUBSET Packages]

NewSession(skip) ==
    [batch |-> 1, package |-> 1, first |-> TRUE, skip |-> skip, failures |-> FALSE,
     stagingNext |-> FALSE, stagingThis |-> FALSE, staging |-> FALSE, responses |-> {}]

\* m_packageIterator != m_packageEnd
HasPackage(s) == s.batch <= Len(Batches) /\ s.package <= Len(Batches[s.batch])

\* Mutation of IsValid: failures do not matter.
IsValidDespiteFailures(s) == HasPackage(s)

IsValid(s) == HasPackage(s) /\ (s.responses = {} \/ ~s.skip \/ s.package # 1)

HasFailuresInPreviousBatches(s) == s.failures \/ (s.first /\ s.responses # {})

CurrentPackage(s) == Batches[s.batch][s.package]

SelectNextPackage(s) ==
    LET next == [s EXCEPT !.package = @ + 1, !.failures = s.responses # {}] IN
    IF s.package < Len(Batches[s.batch])
    THEN [s EXCEPT !.package = @ + 1, !.first = FALSE, !.staging = @ \/ s.stagingThis]
    ELSE IF next.failures /\ s.skip THEN next                           \* invalid from now on
    ELSE IF s.batch = Len(Batches) THEN [next EXCEPT !.batch = @ + 1]   \* that was the last one
    ELSE [next EXCEPT !.batch = @ + 1, !.package = 1, !.first = TRUE,
                      !.stagingThis = s.stagingNext]

IsRelevant(p, relevant) == relevant = {} \/ p \in relevant

\* The loop of getCurrentPackageNameIfValidAndRelevantAndSelectNext() over
\* packages that are not relevant.
SkipIrrelevant(s, relevant) ==
    LET skipped[n \in Nat] ==
            IF n = 0 THEN s
            ELSE LET t == skipped[n - 1] IN
                 IF IsValid(t) /\ ~IsRelevant(CurrentPackage(t), relevant)
                 THEN SelectNextPackage(t) ELSE t
    IN skipped[Cardinality(Packages)]

\* addResponse()
WithResponse(s, p) == [s EXCEPT !.responses = @ \cup {p}]

\* The next package is selected before this is called, hence the condition.
EnableStagingInNextBatch(s) ==
    [s EXCEPT !.stagingNext = TRUE,
              !.staging = @ \/ (s.batch \in 2 .. Len(Batches) /\ s.package = 1)]
==============================================================================
