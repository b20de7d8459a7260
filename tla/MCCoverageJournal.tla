-------------------------- MODULE MCCoverageJournal --------------------------
EXTENDS CoverageJournal
CONSTANTS a1, c1, c2, p1, p2

MCBatchOf == [a \in Atom |-> 1]

Together == [c \in Caller |-> p1]
Apart == [c \in Caller |-> IF c = c1 THEN p1 ELSE p2]

Deployed(where, legacy, faults, events) ==
  [storeOf |-> where, legacy |-> legacy, faults |-> faults, events |-> events]

\* Two callers in one process, whose writes fail and whose truncations may fail
\* too; a journaling process beside one that saves snapshots, with everything
\* that may go wrong; two journaling processes that may die.
MCDeployments ==
  {Deployed(Together, {}, {"write", "crash"}, 2),
   Deployed(Together, {}, {"write", "rollback", "crash"}, 2),
   Deployed(Apart, {c2}, {"write", "rollback", "crash"}, 2),
   Deployed(Apart, {}, {"crash"}, 2)}
=============================================================================
