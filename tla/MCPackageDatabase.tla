-------------------------- MODULE MCPackageDatabase --------------------------
EXTENDS PackageDatabase, TLC

\* Two packages, the first in two versions with different libraries; the
\* second provides the first one's first version and requires its second.
MCPackages == {<<"a", 1>>, <<"a", 2>>, <<"b", 1>>}
MCProvides == [nv \in MCPackages |-> IF nv[1] = "b" THEN {<<"a", 1>>} ELSE {}]
MCRequires == [nv \in MCPackages |-> IF nv[1] = "b" THEN {<<"a", 2>>} ELSE {}]
MCLibProvides == [nv \in MCPackages |-> IF nv = <<"a", 1>> THEN {"lib.1"} ELSE {"lib.2"}]
MCLibDepends == [nv \in MCPackages |-> IF nv[1] = "b" THEN {"lib.1"} ELSE {}]

\* Once an update has worked on a stale cache, only a complete reload follows.
ReloadWhenDamaged ==
    damaged => /\ upd.pc = "idle" \/ (upd.pc = "updater" /\ upd.clear)
               /\ \A r \in Readers : readers[r].pc = "idle"
==============================================================================
