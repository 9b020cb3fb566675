---------------------------- MODULE BuildBatches ----------------------------
(***************************************************************************)
(* How PrepareBuild orders the packages to build (computeBatches() in      *)
(* buildactions/preparebuild.cpp): packages whose needed packages are all  *)
(* done form the next batch until nothing more can be added; what is left  *)
(* then depends on itself in a cycle.                                      *)
(*                                                                         *)
(* needed[i] is the BatchItem::neededItems of i: sets of items of which    *)
(* one has to be done, the item found first and its alternatives.          *)
(***************************************************************************)
EXTENDS Naturals, Sequences, FiniteSets

CONSTANT Items               \* names of packages that can be built

VARIABLES phase, needed, done, batches, leftovers

vars == <<phase, needed, done, batches, leftovers>>

Nothing == [i \in {} |-> {}]

Init == /\ phase = "idle" /\ needed = Nothing
        /\ done = {} /\ batches = <<>> /\ leftovers = {}

Present == DOMAIN needed

\* determineNeededItems() has looked at every item; no item needs itself.
Start(items) ==
    /\ phase = "idle"
    /\ needed' \in [items -> SUBSET ((SUBSET items) \ {{}})]
    /\ \A i \in items : \A group \in needed'[i] : i \notin group
    /\ phase' = "computing"
    /\ UNCHANGED <<done, batches, leftovers>>

Satisfied(group) == group \cap done # {}

\* Mutation of Ready: one needed item suffices.
ReadyOne == {i \in Present \ done : needed[i] = {} \/ \E group \in needed[i] : Satisfied(group)}

\* addItemsToBatch().
Ready == {i \in Present \ done : \A group \in needed[i] : Satisfied(group)}

AddBatch ==
    /\ phase = "computing"
    /\ Ready # {}
    /\ batches' = Append(batches, Ready)
    /\ done' = done \cup Ready
    /\ UNCHANGED <<phase, needed, leftovers>>

Finish ==
    /\ phase = "computing"
    /\ Ready = {}
    /\ leftovers' = Present \ done
    /\ phase' = "finished"
    /\ UNCHANGED <<needed, done, batches>>

\* computeBatches() returns early: aborted, or the databases are gone.
Cancel ==
    /\ phase \in {"idle", "computing"}
    /\ phase' = "finished"
    /\ batches' = <<>> /\ done' = {} /\ needed' = Nothing
    /\ UNCHANGED leftovers

\* deduceBatchesFromSpecifiedOrder(): every package is a batch of its own, in
\* the order in which the packages have been specified.
KeepOrder(order) ==
    /\ phase = "idle"
    /\ \A k, l \in DOMAIN order : order[k] = order[l] => k = l
    /\ needed' = [i \in {order[k] : k \in DOMAIN order} |-> {}]
    /\ batches' = [k \in 1 .. Len(order) |-> {order[k]}]
    /\ done' = {order[k] : k \in DOMAIN order}
    /\ phase' = "finished"
    /\ UNCHANGED leftovers

Next == \/ \E items \in SUBSET Items : Start(items)
        \/ AddBatch \/ Finish \/ Cancel
        \/ \E n \in 0 .. Cardinality(Items) : \E order \in [1 .. n -> Items] : KeepOrder(order)

Spec == Init /\ [][Next]_vars

-----------------------------------------------------------------------------

TypeOK ==
    /\ phase \in {"idle", "computing", "finished"}
    /\ Present \subseteq Items
    /\ needed \in [Present -> SUBSET SUBSET Items]
    /\ done \subseteq Present
    /\ leftovers \subseteq Present
    /\ batches \in Seq(SUBSET Items)

\* No package is built twice and every finished item is in a batch: the batches
\* are disjoint and make up what is done.
EachOnce ==
    /\ \A i \in done : \E k \in DOMAIN batches : i \in batches[k]
    /\ \A k \in DOMAIN batches : batches[k] \subseteq done
    /\ \A k, l \in DOMAIN batches : k # l => batches[k] \cap batches[l] = {}

\* Conducting the build relies on it: a package is only in a batch if for
\* everything it needs one of the packages providing that is in an earlier
\* batch.
NeededEarlier ==
    \A k \in DOMAIN batches : \A i \in batches[k] : \A group \in needed[i] :
        \E l \in 1 .. k - 1 : group \cap batches[l] # {}

\* What is reported as cyclic really is: every package left over needs
\* something that only other packages left over provide.
LeftoversCyclic ==
    phase = "finished" =>
        \A i \in leftovers : \E group \in needed[i] :
            group \subseteq leftovers /\ group # {}

\* The batches are in order and what they leave out is cyclic.
BatchesRight == NeededEarlier /\ LeftoversCyclic

=============================================================================
