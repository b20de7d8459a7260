--------------------------- MODULE MCPluginChange ---------------------------
(* Two released versions and two contents; a publisher may add a version    *)
(* and republish one, an author breaks the source tree or repairs it, and   *)
(* an earlier release may have left a quarantined entry.                    *)
EXTENDS PluginChange

CONSTANTS h, c, a, b

MCVersions == {1, 2}
MCContents == {a, b}
MCActors == {h, c}

Cat(x, y) == (1 :> x) @@ (2 :> y)

MCCatalogs == {Cat(a, None), Cat(b, b)}
MCRequests == {{"install", "run"}, {"upgrade", "install"}, {"rollback", "list"}, {"downgrade"},
               {"uninstall", "install"}, {"install", "assayer"}}
MCSources == {None, [version |-> 2, content |-> b]}
MCInherited == {[history |-> <<1>>, records |-> Cat(a, None), state |-> "dirty"],
                [history |-> <<1, 2>>, records |-> Cat(a, a), state |-> "dirty"]}

\* One operation at a time: two plans, or one plan and a stop; and operations
\* that overlap, over shorter histories and without Runs
MCSettings ==
    {[overlaps |-> FALSE, runs |-> TRUE, history |-> 3, plans |-> 2, restarts |-> 0, edits |-> 1],
     [overlaps |-> FALSE, runs |-> TRUE, history |-> 2, plans |-> 1, restarts |-> 1, edits |-> 0],
     [overlaps |-> TRUE, runs |-> FALSE, history |-> 1, plans |-> 1, restarts |-> 1, edits |-> 0]}
=============================================================================
