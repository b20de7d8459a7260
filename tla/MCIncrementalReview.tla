--------------------------- MODULE MCIncrementalReview ---------------------------
(* A review from its plan on: plan is called with many lists of atoms, and one  *)
(* of the plans it arrives at is the one that is reviewed.                       *)
EXTENDS IncrementalReview, BatchPlan, TLC
CONSTANTS a1, a2, a3, c1, c2

MCContextBytes == (c1 :> 2) @@ (c2 :> 1)

\* Up to four atoms, with limits from those that fit hardly anything to those that
\* fit almost everything.
MCLists == UNION {[1 .. n -> [bytes : 1 .. 2, context : {c1, NoContext}]] : n \in 1 .. 4}
\* The list that is reviewed: two atoms share a context, a third has another.
MCReviewed == [atoms |-> <<[bytes |-> 1, context |-> c1], [bytes |-> 1, context |-> c1],
                           [bytes |-> 2, context |-> c2]>>,
               maxItems |-> 3, maxBytes |-> 4]
MCInputs == [atoms : MCLists, maxItems : 2 .. 3, maxBytes : 2 .. 6] \cup {MCReviewed}

\* Its plan: one batch of two atoms and one of a single atom.
MCAtom == {a1, a2, a3}
MCBatchOf == [a \in MCAtom |-> IF a = a3 THEN 2 ELSE 1]

MCInit == Init /\ PlanInit

\* The Run's review, once its plan is made.
Review(step) == Done /\ input = MCReviewed /\ starts = <<1, 3>> /\ step /\ UNCHANGED planVars

MCNext ==
  \/ Refuse /\ UNCHANGED ledger
  \/ Join /\ UNCHANGED ledger
  \/ Open /\ UNCHANGED ledger
  \/ \E b \in Batch : Review(OfferBatch(b))
  \/ \E v \in NewVerdict : Review(Accept(v))
  \/ \E b \in Batch, r \in Reason : Review(Block(b, r))
  \/ \E s \in TerminalStates : Review(Finalize(s))

MCSpec == MCInit /\ [][MCNext]_<<ledger, planVars>>
=============================================================================
