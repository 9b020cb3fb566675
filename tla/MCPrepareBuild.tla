--------------------------- MODULE MCPrepareBuild ---------------------------
EXTENDS PrepareBuild

V(up, rel) == [epoch |-> 0, up |-> up, rel |-> rel]
R(up, deps, make) ==
    [version |-> V(up, 10), deps |-> {AnyVersion(d) : d \in deps}, make |-> {AnyVersion(d) : d \in make},
     check |-> {}, provides |-> {}, vcs |-> FALSE]
E(db, n, up, deps) == [db |-> db, name |-> n, base |-> n, version |-> V(up, 10), provides |-> {},
                       deps |-> {AnyVersion(d) : d \in deps}]

NoDirs == [n \in Names |-> NoDir]
Dir(n, info, stale) == [exists |-> TRUE, pkgbuild |-> [of |-> n, version |-> V(1, 10)],
                        info |-> IF info THEN [of |-> n, version |-> V(1, 10)] ELSE None,
                        stale |-> stale, aur |-> FALSE]
Nowhere == [place \in {"local", "aur", "official"} |-> {}]

\* Package 1 needs 2 and is there already; everything is in the AUR.
Basic == [flags |-> {}, specified |-> <<1>>, dest |-> 2, required |-> {1, 2}, bases |-> {},
          existing |-> <<E(1, 4, 1, {})>>,
          recipes |-> [n \in Names |-> CASE n = 1 -> R(1, {2}, {3}) [] n = 2 -> R(1, {4}, {})
                                         [] OTHER -> R(1, {}, {})],
          convertSource |-> <<>>, convertsRight |-> TRUE, sourcePackages |-> <<>>,
          places |-> [Nowhere EXCEPT !["aur"] = Names], script |-> FALSE,
          variants |-> [n \in Names |-> {}], dirs |-> NoDirs, originals |-> {},
          newer |-> {}, made |-> [n \in Names |-> "none"], reload |-> FALSE]

\* What is specified, whether an order is given, and which dependencies there are.
Graphs == {[Basic EXCEPT !.flags = flags, !.specified = <<1>>, !.existing = existing,
                         !.places = [Nowhere EXCEPT !["local"] = {1, 2, 3}],
                         !.recipes = [n \in Names |-> CASE n = 1 -> R(1, a, b) [] n = 2 -> R(1, c, {})
                                         [] n = 3 -> [R(1, {4}, {}) EXCEPT !.provides = p] [] OTHER -> R(1, {}, {})]] :
              flags \in {{}, {"noCheck"}}, a \in {{2}, {4}}, b \in {{}, {3}}, c \in {{}, {1}, {3}},
              p \in {{}, {2}}, existing \in {<<E(1, 4, 1, {})>>, <<E(1, 4, 1, {2})>>}}

\* Several packages are specified and provide the same.
Alternatives == {[Basic EXCEPT !.flags = flags, !.specified = <<3, 1, 2>>,
                         !.places = [Nowhere EXCEPT !["local"] = {1, 2, 3}],
                         !.recipes = [n \in Names |-> CASE n = 1 -> R(1, a, b) [] n = 2 -> [R(1, c, {}) EXCEPT !.provides = {4}]
                                         [] n = 3 -> [R(1, {}, {}) EXCEPT !.provides = {4}] [] OTHER -> R(1, {}, {})]] :
              flags \in {{}, {"keepOrder"}}, a \in {{2}, {4}}, b \in {{}, {2}, {4}}, c \in {{}, {1}, {3}}}

\* Versions: what exists and what is built; whether progress has been made.
AllBumps == {[Basic EXCEPT !.flags = flags, !.specified = <<1>>, !.existing = existing,
                        !.recipes[1] = [R(2, {}, {}) EXCEPT !.vcs = vcs], !.reload = flags = {},
                        !.sourcePackages = sp,
                        !.places = [Nowhere EXCEPT !["local"] = IF sp = <<>> THEN {1} ELSE {}, !["aur"] = {1}],
                        !.made = [n \in Names |-> made0]] :
              flags \in {{}, {"force"}, {"keepVersion"}, {"matchVersion", "sourcePackages"}}, vcs \in BOOLEAN,
              sp \in {<<>>, 1 :> {V(2, 10), V(1, 10)}},
              made0 \in {"none", "made", "nodir"},
              existing \in {<<>>, <<E(2, 1, 1, {})>>, <<E(2, 1, 2, {})>>, <<E(2, 1, 3, {})>>,
                            <<[E(2, 1, 1, {}) EXCEPT !.version.epoch = 1]>>,
                            <<E(1, 1, 1, {}), E(2, 1, 3, {})>>}}

\* Former progress only matters for what is amended, the version to match only for
\* source packages, what is recorded of several packages is one version, and how
\* sources of VCS packages are got and what is made of them is like for others.
Bumps == {i \in AllBumps :
             /\ i.sourcePackages # <<>> => i.made[1] = "none"
             /\ "matchVersion" \in i.flags => i.sourcePackages # <<>>
             /\ Len(i.existing) = 2 => i.made[1] = "none" /\ i.sourcePackages = <<>>
             /\ i.recipes[1].vcs =>
                    i.made[1] = "none" /\ i.sourcePackages = <<>> /\ "keepVersion" \notin i.flags}

\* Where the sources come from.
AllPlaces == {[Basic EXCEPT !.flags = flags, !.specified = <<1>>, !.places = places, !.script = script,
                         !.convertSource = convert, !.convertsRight = right,
                         !.recipes = [n \in Names |-> R(1, {}, {})],
                         !.dirs = [NoDirs EXCEPT ![1] = dir], !.originals = orig] :
              flags \in {{}, {"clean"}, {"official"}, {"official", "clean"}, {"localOnly"}, {"aurOnly"}},
              places \in {[Nowhere EXCEPT !["local"] = l, !["aur"] = u, !["official"] = o] :
                             l \in {{}, {1}}, u \in {{}, {1}, {3}}, o \in {{}, {1}}},
              script \in BOOLEAN, convert \in {<<>>, 1 :> 3}, right \in BOOLEAN,
              dir \in {NoDir, [NoDir EXCEPT !.exists = TRUE], Dir(1, TRUE, FALSE), Dir(1, TRUE, TRUE), Dir(1, FALSE, FALSE),
                       [Dir(1, FALSE, FALSE) EXCEPT !.pkgbuild = None, !.aur = TRUE]},
              orig \in {{}, {1}}}

\* Whether the conversion is right only matters if there is one; a script takes
\* precedence over where to download from, and is not asked for local sources.
Places == {i \in AllPlaces :
             /\ i.convertSource = <<>> => i.convertsRight /\ i.originals = {}
             /\ i.script => i.flags \subseteq {"clean"}}

Variants == {[Basic EXCEPT !.flags = {"variants"} \cup f, !.specified = <<1>>, !.variants = [n \in Names |-> IF n = 1 THEN {4} ELSE {}],
                           !.bases = bases,
                           !.recipes = [n \in Names |-> R(1, {}, IF n = 4 THEN {3} ELSE {})]] :
              f \in {{}, {"unexpected"}}, bases \in {{}, {1}, {2}}}

Rejections == {[Basic EXCEPT !.flags = {"force", "keepVersion"}], [Basic EXCEPT !.flags = {"container"}],
               [Basic EXCEPT !.specified = <<>>], [Basic EXCEPT !.dest = None]}

MCInputs == {Basic} \cup Graphs \cup Alternatives \cup Bumps \cup Places \cup Variants \cup Rejections

MCOrders == {[n \in Names |-> n], [n \in Names |-> 10 - n]}
=============================================================================
