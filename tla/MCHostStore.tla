---------------------------- MODULE MCHostStore ----------------------------
(* Two threads, two operations and two keys, and the chain of tables up to  *)
(* an issue.                                                               *)
EXTENDS HostStore, TLC

CONSTANTS t1, t2, o1, o2, k1, k2, c1, c2, l1, l2

MCSymmetry == Permutations(Threads) \cup Permutations(Cases) \cup Permutations(Payloads)
              \cup Permutations(Operations) \cup Permutations(Keys)

MCTables == {"page_states", "audit_objects", "assessments", "issues"}
=============================================================================
