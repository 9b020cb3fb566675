--------------------------- MODULE MCRepoManagement ---------------------------
EXTENDS RepoManagement

\* The repository "stable" for two architectures, of which the first has a debug
\* repository, and the repository "testing" the packages are moved to.
MCDbs == {"stable64", "stable32", "debug64", "testing64", "testdebug64"}
MCRepoOf == [stable64 |-> "stable", stable32 |-> "stable", debug64 |-> "stable-debug",
             testing64 |-> "testing", testdebug64 |-> "testing-debug"]
MCDebugDb == [stable64 |-> "debug64", stable32 |-> "none", debug64 |-> "none",
              testing64 |-> "testdebug64", testdebug64 |-> "none"]

\* "any" is in both architectures, "tool" has a debug package; "old" is left over.
MCPackages == {"any", "tool", "tool-debug", "old"}
MCDebugName == [any |-> "any-debug", tool |-> "tool-debug", old |-> "old-debug"]

MCListed0 == [stable64 |-> {"any", "tool"}, stable32 |-> {"any"}, debug64 |-> {"tool-debug"},
              testing64 |-> {}, testdebug64 |-> {}]
MCFiles0 == {<<"stable64", "any", "pkg">>, <<"stable64", "any", "sig">>, <<"stable32", "any", "pkg">>,
             <<"stable", "any", "pkg">>, <<"stable", "any", "sig">>,
             <<"stable64", "tool", "pkg">>, <<"debug64", "tool-debug", "pkg">>,
             <<"stable64", "old", "pkg">>}

Move == [kind |-> "move", source |-> "stable64", dest |-> "testing64", packages |-> {"any", "tool"}, ignore |-> TRUE]
Remove == [kind |-> "remove", dest |-> "stable32", packages |-> {"any"}]
Clean == [kind |-> "clean", dbs |-> {"stable64"}, dryRun |-> FALSE]
Check == [kind |-> "check", dbs |-> {"stable64"}]

\* Jobs that give up early: nothing is found, or only one side has a debug repository.
Unlisted == [kind |-> "remove", dest |-> "stable64", packages |-> {"old"}]
Inconsistent == [kind |-> "move", source |-> "stable32", dest |-> "testing64", packages |-> {"any"}, ignore |-> FALSE]

MCJob == [move |-> Move, moveAny |-> [Move EXCEPT !.packages = {"any"}],
          moveTool |-> [Move EXCEPT !.packages = {"tool"}], remove |-> Remove,
          clean |-> Clean, check |-> Check, unlisted |-> Unlisted, inconsistent |-> Inconsistent]
MCJobs == DOMAIN MCJob
MCTogether == {{"move"}, {"moveAny", "remove", "clean"}, {"moveTool", "check"},
               {"remove", "clean", "check"}, {"unlisted", "inconsistent"}}
==============================================================================
