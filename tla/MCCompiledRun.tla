---------------------------- MODULE MCCompiledRun ----------------------------
EXTENDS CompiledRun
CONSTANTS a1, a2, satisfied, unknown, v1, v2

\* Two sources, reviewed in one batch.
MCAtom == {a1, a2}
MCBatchOf == [a \in MCAtom |-> 1]
MCEditable == {a1}
MCVersion == {v1, v2}
MCState == {satisfied, unknown}
MCNeedsEvidence == {satisfied}
MCValue == [state : MCState, evidence : Version \cup {None}]

\* The names of a source's versions do not matter: each starts in the first.
MCFirstWorlds == {[s \in MCAtom |-> v1]}
=============================================================================
