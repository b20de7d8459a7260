--------------------------- MODULE CoverageLedger ---------------------------
(***************************************************************************)
(* The incremental-review coverage ledger of                               *)
(* assayer_platform/incremental_review.py: a frozen plan of atoms grouped   *)
(* in batches, and the history of what an Agent decided about them.         *)
(*                                                                         *)
(* A ledger is an immutable Python value; here it is a record, and every    *)
(* transition of the class is a pair of operators over ledgers: CanX says   *)
(* when the method returns (it raises, and changes nothing, otherwise) and  *)
(* XResult is the ledger it returns.  The tuple of verdicts is kept as one   *)
(* sequence per batch: the code reads it only by submission identity and    *)
(* per batch.                                                               *)
(***************************************************************************)
EXTENDS Absence, Integers, Sequences

CONSTANTS Atom,          \* ReviewAtom identities
          NumBatches,    \* how many batches the planner made
          BatchOf,       \* the batch of every atom, by batch sequence number
          SubmissionId,  \* identities a submission may carry
          Value,         \* what a decision says about an atom
          Reason        \* why a batch is blocked

Batch == 1..NumBatches

AtomsOf(b) == {a \in Atom : BatchOf[a] = b}

TerminalStates == {"completed", "partial", "failed"}
BatchStates    == {"planned", "offered", "accepted", "blocked", "terminal"}

\* ReviewBatch refuses an empty batch; the identities are never None.
ASSUME PlanAssumption ==
  /\ NumBatches \in Nat
  /\ BatchOf \in [Atom -> Batch]
  /\ \A b \in Batch : AtomsOf(b) # {}

ASSUME NoneAssumption ==
  None \notin SubmissionId \cup Reason \cup Value \cup TerminalStates

\* One decision per atom, about some nonempty set of atoms.
Decisions == UNION {[S -> Value] : S \in (SUBSET Atom) \ {{}}}

Verdict == [id : SubmissionId, batch : Batch, decisions : Decisions,
            supersedes : SubmissionId \cup {None},
            status : {"accepted", "superseded"}]

\* What a caller can hand to accept(): BatchVerdict forbids superseding itself.
NewVerdict == {v \in Verdict : v.status = "accepted" /\ v.supersedes # v.id}

ReviewBatch == [status : BatchStates, reason : Reason \cup {None}]

CoverageEntry == [status : BatchStates, effective : SubmissionId \cup {None},
                  revisions : Seq(SubmissionId), reason : Reason \cup {None}]

Ledger == [batches  : [Batch -> ReviewBatch],
           entries  : [Atom -> CoverageEntry],
           verdicts : [Batch -> Seq(Verdict)],
           terminal : TerminalStates \cup {None}]

\* CoverageLedger.plan: the grouping is BatchOf (module BatchPlan says how it
\* is chosen), everything else starts blank.
Planned ==
  [batches  |-> [b \in Batch |-> [status |-> "planned", reason |-> None]],
   entries  |-> [a \in Atom |-> [status |-> "planned", effective |-> None,
                                 revisions |-> << >>, reason |-> None]],
   verdicts |-> [b \in Batch |-> << >>],
   terminal |-> None]

-----------------------------------------------------------------------------
(* The transitions, as operators over ledgers.                             *)

\* offer(): a batch already offered is returned as it is.
CanOffer(l, b) ==
  /\ l.terminal = None
  /\ l.batches[b].status \in {"planned", "offered"}

OfferResult(l, b) ==
  [l EXCEPT !.batches = [@ EXCEPT ![b].status = "offered"],
            !.entries = [a \in Atom |->
               IF BatchOf[a] = b THEN [@[a] EXCEPT !.status = "offered"] ELSE @[a]]]

\* The verdicts already stored under an identity, whatever their batch.
Stored(l, id) ==
  {v \in UNION {{l.verdicts[b][i] : i \in 1..Len(l.verdicts[b])} : b \in Batch} :
     v.id = id}

\* Equal content_digest: everything but the status.
SameContent(v, w) ==
  /\ v.id = w.id
  /\ v.batch = w.batch
  /\ v.decisions = w.decisions
  /\ v.supersedes = w.supersedes

EffectiveIds(l, b) == {l.entries[a].effective : a \in AtomsOf(b)} \ {None}

IsReplay(l, v) == \E w \in Stored(l, v.id) : SameContent(v, w)

IsInitial(l, v) ==
  /\ v.supersedes = None
  /\ l.batches[v.batch].status = "offered"
  /\ EffectiveIds(l, v.batch) = {}

IsCorrection(l, v) ==
  /\ v.supersedes # None
  /\ l.batches[v.batch].status = "accepted"
  /\ EffectiveIds(l, v.batch) = {v.supersedes}
  /\ \E w \in Stored(l, v.supersedes) : w.batch = v.batch /\ w.status = "accepted"

IsNew(l, v) ==
  /\ Stored(l, v.id) = {}
  /\ DOMAIN v.decisions = AtomsOf(v.batch)
  /\ IsInitial(l, v) \/ IsCorrection(l, v)

CanAccept(l, v) == l.terminal = None /\ (IsReplay(l, v) \/ IsNew(l, v))

\* Mutant: a correction takes its parent's place.
RevisedReplacingParent(l, v) ==
  IF v.supersedes = None THEN <<v>>
  ELSE [l.verdicts[v.batch] EXCEPT ![Len(l.verdicts[v.batch])] = v]

\* The batch's verdicts after v, the one v supersedes marked as such.
Revised(l, v) ==
  LET old == l.verdicts[v.batch]
  IN Append([i \in 1..Len(old) |->
               IF old[i].id = v.supersedes THEN [old[i] EXCEPT !.status = "superseded"]
               ELSE old[i]],
            v)

\* Mutant: a correction forgets the revisions before it.
RevisionIdsOfLast(l, v) == <<v.id>>

\* Every entry of the batch gets the history of the batch's first entry.
RevisionIds(l, v) ==
  IF v.supersedes = None THEN <<v.id>>
  ELSE Append(l.entries[CHOOSE a \in AtomsOf(v.batch) : TRUE].revisions, v.id)

Recorded(l, v) ==
  [l EXCEPT !.batches = [@ EXCEPT ![v.batch].status = "accepted"],
            !.verdicts = [@ EXCEPT ![v.batch] = Revised(l, v)],
            !.entries = [a \in Atom |->
               IF BatchOf[a] = v.batch
               THEN [@[a] EXCEPT !.status = "accepted", !.effective = v.id,
                                 !.revisions = RevisionIds(l, v)]
               ELSE @[a]]]

AcceptResult(l, v) == IF Stored(l, v.id) # {} THEN l ELSE Recorded(l, v)

\* Mutant: an accepted batch may still be blocked.
CanBlockAccepted(l, b, r) ==
  l.terminal = None /\ l.batches[b].status \in {"planned", "offered", "accepted"}

CanBlock(l, b, r) ==
  /\ l.terminal = None
  /\ \/ l.batches[b].status = "blocked" /\ l.batches[b].reason = r
     \/ l.batches[b].status \in {"planned", "offered"}

BlockResult(l, b, r) ==
  [l EXCEPT !.batches = [@ EXCEPT ![b] = [status |-> "blocked", reason |-> r]],
            !.entries = [a \in Atom |->
               IF BatchOf[a] = b THEN [@[a] EXCEPT !.status = "blocked", !.reason = r]
               ELSE @[a]]]

\* Mutant: finalizing again is refused.
CanFinalizeOnce(l, s) ==
  /\ l.terminal = None
  /\ s = "completed" => \A b \in Batch : l.batches[b].status = "accepted"
  /\ s = "partial"   => \A b \in Batch : l.batches[b].status \in {"accepted", "blocked"}

CanFinalize(l, s) ==
  \/ l.terminal = s
  \/ /\ l.terminal = None
     /\ s = "completed" => \A b \in Batch : l.batches[b].status = "accepted"
     /\ s = "partial"   => \A b \in Batch : l.batches[b].status \in {"accepted", "blocked"}

\* The batches turn terminal and drop their reasons; the entries keep theirs.
FinalizeResult(l, s) ==
  [l EXCEPT !.batches = [b \in Batch |-> [status |-> "terminal", reason |-> None]],
            !.terminal = s]

-----------------------------------------------------------------------------
(* What a well-formed ledger is: the structural checks of                  *)
(* CoverageLedger.__post_init__ that a transition could break.  The code      *)
(* makes them on construction and on load, and not after a transition.       *)

\* A batch and all of its atoms agree on their status until the review is
\* frozen; exactly the blocked ones carry a reason.
StatusAgreement(l) ==
  \A a \in Atom :
    LET b == l.batches[BatchOf[a]]
        e == l.entries[a]
    IN /\ b.status # "terminal" => e.status = b.status
       /\ e.status # "terminal"
       /\ (b.status = "blocked") <=> (b.reason # None)
       /\ (e.status = "blocked") <=> (e.reason # None)

\* The verdicts of a batch are one linear chain of revisions: each covers
\* exactly the batch, supersedes its predecessor, only the last one is still
\* accepted, and no identity is used twice in the Run.
RevisionChain(l) ==
  /\ \A b \in Batch : \A i \in 1..Len(l.verdicts[b]) :
       LET v == l.verdicts[b][i]
       IN /\ v.batch = b
          /\ DOMAIN v.decisions = AtomsOf(b)
          /\ v.supersedes = IF i = 1 THEN None ELSE l.verdicts[b][i - 1].id
          /\ v.status = IF i = Len(l.verdicts[b]) THEN "accepted" ELSE "superseded"
  /\ \A b, c \in Batch : \A i \in 1..Len(l.verdicts[b]), j \in 1..Len(l.verdicts[c]) :
       l.verdicts[b][i].id = l.verdicts[c][j].id => b = c /\ i = j

Ids(chain) == [i \in 1..Len(chain) |-> chain[i].id]

LatestId(chain) == IF Len(chain) = 0 THEN None ELSE chain[Len(chain)].id

\* Every atom's revision history is its batch's chain, its effective verdict
\* is the end of that chain, and it has one exactly when it is accepted.
EffectiveVerdict(l) ==
  \A a \in Atom :
    LET e == l.entries[a]
        chain == l.verdicts[BatchOf[a]]
    IN /\ e.revisions = Ids(chain)
       /\ e.effective = LatestId(chain)
       /\ e.status = "accepted" <=> Len(chain) > 0

\* The terminal status tells the truth about the coverage it freezes.
TerminalTruth(l) ==
  /\ l.terminal = None => \A b \in Batch : l.batches[b].status # "terminal"
  /\ l.terminal # None => \A b \in Batch : l.batches[b].status = "terminal"
  /\ l.terminal = "completed" => \A a \in Atom : l.entries[a].status = "accepted"
  /\ l.terminal = "partial" =>
       \A a \in Atom : l.entries[a].status \in {"accepted", "blocked"}

\* What __post_init__ would accept, as one predicate.
ValidLedger(l) ==
  /\ StatusAgreement(l)
  /\ RevisionChain(l)
  /\ EffectiveVerdict(l)
  /\ TerminalTruth(l)

\* A later history of a batch: every stored verdict keeps its place and
\* content for ever and can only go from accepted to superseded.
Extends(old, new) ==
  /\ Len(old) <= Len(new)
  /\ \A i \in 1..Len(old) :
       /\ SameContent(old[i], new[i])
       /\ old[i].status = "superseded" => new[i].status = "superseded"

\* The decision that stands about an atom: the one its effective verdict makes.
StandingDecision(l, a) ==
  IF l.entries[a].effective = None THEN None
  ELSE (CHOOSE v \in Stored(l, l.entries[a].effective) : TRUE).decisions[a]
=============================================================================
