-------------------------- MODULE IncrementalReview --------------------------
(***************************************************************************)
(* One Run's coverage ledger under every sequence of calls of its           *)
(* transitions, whoever makes them, and what it promises.                   *)
(***************************************************************************)
EXTENDS CoverageLedger

VARIABLE ledger

OfferBatch(b) == CanOffer(ledger, b) /\ ledger' = OfferResult(ledger, b)

Accept(v) == CanAccept(ledger, v) /\ ledger' = AcceptResult(ledger, v)

Block(b, r) == CanBlock(ledger, b, r) /\ ledger' = BlockResult(ledger, b, r)

Finalize(s) == CanFinalize(ledger, s) /\ ledger' = FinalizeResult(ledger, s)

Init == ledger = Planned

Next == \/ \E b \in Batch : OfferBatch(b)
        \/ \E v \in NewVerdict : Accept(v)
        \/ \E b \in Batch, r \in Reason : Block(b, r)
        \/ \E s \in TerminalStates : Finalize(s)

Spec == Init /\ [][Next]_ledger

-----------------------------------------------------------------------------
(* Properties.  The code does not re-run the checks of __post_init__ after   *)
(* a transition (_transitioned, "Construct a locally proven state            *)
(* transition"): the proofs are here.  A ledger that broke one of them would  *)
(* be written to disk and refused on the next load.                          *)

\* Every ledger is a well-formed value of the class.
TypeOK == ledger \in Ledger

\* A batch and its atoms never disagree about where the review stands.
StatusesAgree == StatusAgreement(ledger)

\* Corrections never fork, reorder or lose a batch's history.
HistoryIsAChain == RevisionChain(ledger)

\* What an atom reports as its verdict is the end of its batch's history.
EffectiveIsLatest == EffectiveVerdict(ledger)

\* A frozen ledger's status is justified by its atoms.
TerminalIsTruthful == TerminalTruth(ledger)

\* What any series of corrections, replays and conflicting identities leaves,
\* the next load accepts: all four checks of __post_init__ hold of it.
LoaderAccepts == StatusesAgree /\ HistoryIsAChain /\ EffectiveIsLatest /\ TerminalIsTruthful

\* History is append-only: accept() never drops, reorders or edits a verdict
\* stored before, it only marks the one it supersedes.
HistoryAppendOnly ==
  [][\A b \in Batch : Extends(ledger.verdicts[b], ledger'.verdicts[b])]_ledger

-----------------------------------------------------------------------------
(* The promise the ledger implements.                                      *)

Outcome == INSTANCE ReviewOutcome WITH
  decided <- [a \in Atom |-> StandingDecision(ledger, a)],
  blocked <- {b \in Batch : \E a \in AtomsOf(b) : ledger.entries[a].status = "blocked"},
  result  <- ledger.terminal

\* The ledger's transitions, seen through the standing decisions, are those
\* of the abstract review: batches decided whole, never decided and given up,
\* frozen with a truthful status.
ImplementsOutcome == Outcome!Spec
=============================================================================
