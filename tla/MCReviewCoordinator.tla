------------------------- MODULE MCReviewCoordinator -------------------------
EXTENDS ReviewCoordinator
CONSTANTS a1, a2, satisfied, violated

\* Two batches of one atom; the second may be the oversized one.
MCAtom == {a1, a2}
MCBatchOf == [a \in MCAtom |-> IF a = a1 THEN 1 ELSE 2]
MCValue == {satisfied, violated}

\* The identities bind() can produce, by the length of their chain.
MCIdentities[n \in 1..MaxRevisions] ==
  LET choices(b) == [{a \in MCAtom : MCBatchOf[a] = b} -> MCValue]
      parents(b) == IF n = 1 THEN {None} ELSE {id \in MCIdentities[n - 1] : id[1] = b}
  IN UNION {{<<b, d, p>> : d \in choices(b), p \in parents(b)} : b \in 1..2}
MCSubmissionId == UNION {MCIdentities[n] : n \in 1..MaxRevisions}
=============================================================================
