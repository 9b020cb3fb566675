------------------------- MODULE VersionComparison -------------------------
(***************************************************************************)
(* The comparison of package versions and the matching of version          *)
(* constraints (libpkg/data/package.cpp).                                  *)
(*                                                                         *)
(* A version is a sequence of alphanumeric segments with a separator       *)
(* between neighbours.  compareSegments() orders segments by their length  *)
(* without leading zeros and then character by character, which is a total *)
(* preorder: a segment is modelled by its rank in that order, 0 being the  *)
(* rank of a segment without any character but zeros.                      *)
(***************************************************************************)
EXTENDS Integers, Sequences, SequencesExt

\* segs and seps of "1:2.3-1" are <<1, 2, 3, 1>> and <<":", ".", "-">>.
IsVersion(v) == /\ v.segs \in Seq(Nat)
                /\ v.seps \in Seq({":", ".", "-"})
                /\ Len(v.segs) = Len(v.seps) + 1

Segment(a, b) == IF a > b THEN "newer" ELSE IF a < b THEN "older" ELSE "equal"

\* Whether the segment is followed by nothing but a package release: "-" and
\* segments separated by dots.
OnlyPkgRel(v, i) ==
    v.seps[i] = "-" /\ \A j \in i + 1 .. Len(v.seps) : v.seps[j] = "."

HasEpoch(v) == v.seps # <<>> /\ v.seps[1] = ":"

\* The first segments that differ decide, otherwise what one of the versions has more.
CompareSegments(a, b, implicit) ==
    LET differ == {i \in 1 .. Min({Len(a.segs), Len(b.segs)}) : Segment(a.segs[i], b.segs[i]) # "equal"}
    IN  IF differ # {} THEN Segment(a.segs[Min(differ)], b.segs[Min(differ)])
        ELSE IF Len(a.segs) > Len(b.segs)
             THEN IF implicit /\ OnlyPkgRel(a, Len(b.segs)) THEN "equal" ELSE "newer"
        ELSE IF Len(a.segs) < Len(b.segs) THEN "older"
        ELSE "equal"

\* PackageVersion::compareParts().
CompareParts(a, b, implicit) ==
    IF HasEpoch(a) /\ ~HasEpoch(b) THEN "newer"
    ELSE IF HasEpoch(b) /\ ~HasEpoch(a) THEN "older"
    ELSE CompareSegments(a, b, implicit)

Modes == {"any", "equal", "greaterEqual", "greaterThan", "lessEqual", "lessThan"}

\* Dependency::matches().
Matches(mode, required, provided) ==
    \/ mode = "any"
    \/ CompareParts(provided, required, TRUE) \in
         CASE mode = "equal" -> {"equal"}
           [] mode = "greaterEqual" -> {"equal", "newer"}
           [] mode = "greaterThan" -> {"newer"}
           [] mode = "lessEqual" -> {"equal", "older"}
           [] mode = "lessThan" -> {"older"}
           [] OTHER -> {}

-----------------------------------------------------------------------------
(* PackageVersion: epoch, upstream version and package release             *)

Part(segs) == [segs |-> segs, seps |-> [i \in 1 .. Len(segs) - 1 |-> "."]]

\* PackageVersion::fromString(): the epoch ends at the first separator if that
\* is a colon, the package release starts at the last dash.  An absent part is
\* empty, which compareSegments() treats like a zero.
PackageVersion(v) ==
    LET e     == IF HasEpoch(v) THEN 1 ELSE 0
        dashes == {i \in e + 1 .. Len(v.seps) : v.seps[i] = "-"}
        last  == IF dashes = {} THEN Len(v.segs) ELSE Max(dashes)
    IN  [epoch    |-> IF e = 1 THEN <<v.segs[1]>> ELSE <<>>,
         upstream |-> [segs |-> SubSeq(v.segs, e + 1, last),
                       seps |-> SubSeq(v.seps, e + 1, last - 1)],
         package  |-> SubSeq(v.segs, last + 1, Len(v.segs))]

ComparePart(a, b) ==
    CompareParts(Part(IF a = <<>> THEN <<0>> ELSE a), Part(IF b = <<>> THEN <<0>> ELSE b), FALSE)

\* Mutation of BothReleased: only the release of this version is looked at.
BothReleasedHere(t, o) == t.package # <<>>

BothReleased(t, o) == t.package # <<>> /\ o.package # <<>>

\* PackageVersion::compare(): what an update from this version to the other
\* one would be.
Compare(this, other) ==
    LET t == PackageVersion(this)
        o == PackageVersion(other)
        epoch == ComparePart(o.epoch, t.epoch)
        upstream == CompareParts(o.upstream, t.upstream, FALSE)
        package == IF BothReleased(t, o) THEN ComparePart(o.package, t.package) ELSE "equal"
    IN  IF epoch = "newer" THEN "SoftwareUpgrade"
        ELSE IF epoch = "older" THEN "NewerThanSyncVersion"
        ELSE IF upstream = "newer" THEN "SoftwareUpgrade"
        ELSE IF upstream = "older" THEN "NewerThanSyncVersion"
        ELSE CASE package = "newer" -> "PackageUpgradeOnly"
               [] package = "older" -> "NewerThanSyncVersion"
               [] OTHER -> "Equal"
=============================================================================
