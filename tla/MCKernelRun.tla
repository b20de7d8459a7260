----------------------------- MODULE MCKernelRun -----------------------------
EXTENDS KernelRun, TLC
CONSTANTS s1, s2, p1, p2, clean

MCItem == 1..3
MCState == {s1, s2}
MCScopes == {1..3, {1}}
\* Only the first WorkItem changes.
MCWorlds == {[i \in 1..3 |-> s1], [i \in 1..3 |-> IF i = 1 THEN s2 ELSE s1]}
\* Two decisions that differ in their findings alone.
MCOutcomeOf == [p \in {p1, p2} |-> clean]

\* No ledger, or one whose receipt has no digest.
Legacy(r) == [status    |-> "partial",
              decisions |-> [i \in 1..3 |-> IF i = 1 THEN [state |-> s1, proposal |-> p1]
                                            ELSE NoReceipt],
              receipts  |-> [i \in 1..3 |-> IF i = 1 THEN [digest |-> NoReceipt, result |-> r]
                                            ELSE NoReceipt]]
MCFirstLedgers == {NoReceipt, Legacy(clean)}

Plan(faults, poison, reuse, split, parallel, inspect, decide) ==
  [faults |-> faults, poison |-> poison, cache |-> reuse, split |-> split,
   parallel |-> parallel, inspectSize |-> inspect, decisionSize |-> decide]

MCDeployments ==
  {Plan({"save"}, {2}, TRUE, TRUE, FALSE, 3, 3),
   Plan({"plugin"}, {}, TRUE, TRUE, FALSE, 2, 2),
   Plan({"plugin"}, {}, TRUE, FALSE, TRUE, 2, 3),
   Plan({"committer", "crash"}, {}, FALSE, FALSE, FALSE, 2, 3),
   Plan({}, {1, 3}, TRUE, TRUE, TRUE, 2, 1)}

\* Nothing fails: two decisions, three calls, two kernels.
MCFaultless == {Plan({}, {}, FALSE, FALSE, FALSE, 1, 1)}
MCScope == {{1}}
=============================================================================
