------------------------- MODULE MCPackageResolution -------------------------
EXTENDS PackageResolution

V(a) == [segs |-> <<a>>, seps |-> <<>>]
D(name, mode, a) == [name |-> name, mode |-> mode, version |-> V(a)]
P(name, a, provides, deps, binary) ==
    [name |-> name, version |-> V(a), provides |-> {[name |-> n, version |-> V(0)] : n \in provides},
     deps |-> deps, binary |-> binary]

MCDependencies == {D("a", "any", 0), D("a", "greaterEqual", 2), D("b", "lessThan", 2), D("c", "any", 0)}

As == {P("a", 1, {}, {D("b", "any", 0)}, TRUE), P("a", 1, {"c"}, {}, FALSE),
       P("a", 2, {}, {D("c", "any", 0)}, FALSE), P("a", 2, {"c"}, {D("b", "lessThan", 2)}, FALSE)}
Bs == {P("b", 1, {"c"}, {D("a", "greaterEqual", 2)}, FALSE), P("b", 1, {}, {D("a", "any", 0)}, FALSE),
       P("b", 2, {"a"}, {}, TRUE), P("b", 2, {}, {D("c", "any", 0), D("a", "any", 0)}, FALSE)}

Lists == {<<>>} \cup {<<p>> : p \in As \cup Bs} \cup {<<p, q>> : p \in As, q \in Bs}
NoPackages == [db \in Databases |-> <<>>]
TwoDatabases == {[db \in Databases |-> IF db = 1 THEN p ELSE IF db = 2 THEN q ELSE <<>>] : p, q \in Lists}

\* Databases whose packages require each other in a chain.
Chained(dep) == P("a", 1, {}, {D(dep, "any", 0)}, TRUE)
Chains == {[db \in Databases |->
              CASE db = 1 -> <<P("d", 1, {}, {D("e", "any", 0)}, TRUE), P("e", 1, {}, {}, TRUE)>>
                [] db = 2 -> <<P("b", 1, {}, {}, TRUE), Chained(dep)>>
                [] OTHER -> <<>>] : dep \in {"d", "e"}}
          \cup {[db \in Databases |->
              CASE db = 1 -> <<P("d", 1, {}, {D("e", "any", 0)}, TRUE), P("e", 1, {}, {}, TRUE)>>
                [] db = 2 -> <<P("b", 1, {"c"}, {}, TRUE),
                               P("a", 1, {}, {D("c", "any", 0), D("d", "any", 0)}, TRUE)>>
                [] OTHER -> <<>>]}

Stacked == [db \in Databases |-> IF db = 2 THEN {1} ELSE {}]
AllLinks == [Databases -> SUBSET (Databases \cup {Missing})]

MCInputs == {[links |-> l, packages |-> NoPackages] : l \in AllLinks}
            \cup {[links |-> Stacked, packages |-> p] : p \in TwoDatabases \cup Chains}

MCVersions == {v \in UNION {[segs : [1 .. n -> 0 .. 1], seps : [1 .. n - 1 -> {":", ".", "-"}]] : n \in 1 .. 3} :
                 HasEpoch(v) => v.segs[1] # 0 /\ Len(v.segs) > 1}
=============================================================================
