------------------------- MODULE CoverageLedgerProofs -------------------------
(***************************************************************************)
(* What the transitions of a ledger keep, for every plan and every set of   *)
(* submission identities, decision values and blocking reasons: facts about *)
(* ledgers, cited wherever one is part of a state.  The four structural      *)
(* checks lean on each other (a correction extends the right chain only      *)
(* because the effective identity is the chain's end), so they are           *)
(* preserved together, one lemma per transition of the class.               *)
(***************************************************************************)
EXTENDS CoverageLedger, SequenceTheorems, WellFoundedInduction, TLAPS

\* A set of numbers has a least one: what induction rests on.
LEMMA LeastNatural ==
  ASSUME NEW T, T \subseteq Nat, T # {}
  PROVE  \E n \in T : \A m \in T : n <= m
<1> DEFINE R == OpToRel(<, Nat)
<1>1. IsWellFoundedOn(R, Nat)
  BY NatLessThanWellFounded
<1>2. R = {ss \in Nat \X Nat : ss[1] < ss[2]}
  BY DEF OpToRel
<1> HIDE DEF R
<1>3. PICK n \in T : \A m \in T : ~(<<m, n>> \in R)
  BY <1>1, WFMin
<1>4. \A m, k \in Nat : m < k => <<m, k>> \in R
  BY <1>2
<1>5. ASSUME NEW m \in T PROVE n <= m
  <2>1. ~(m < n)
    BY <1>3, <1>4
  <2>2. m \in Nat /\ n \in Nat
    OBVIOUS
  <2> QED BY <2>1, <2>2
<1> QED BY <1>5

\* Induction over the numbers, for a set in place of a predicate.
LEMMA Induction ==
  ASSUME NEW T, 0 \in T, \A n \in Nat : n \in T => n + 1 \in T
  PROVE  Nat \subseteq T
<1> DEFINE U == Nat \ T
<1> SUFFICES ASSUME U # {} PROVE FALSE
  OBVIOUS
<1>1. PICK n \in U : \A m \in U : n <= m
  BY LeastNatural
<1>2. n \in Nat /\ n # 0
  OBVIOUS
<1>3. n - 1 \in Nat /\ n - 1 \notin U
  BY <1>1, <1>2
<1>4. n - 1 \in T
  BY <1>3
<1>5. (n - 1) + 1 \in T
  BY <1>3, <1>4
<1> QED BY <1>2, <1>5

\* The blank ledger CoverageLedger.plan builds passes every check of
\* __post_init__.
LEMMA PlannedIsValid == Planned \in Ledger /\ ValidLedger(Planned)
<1>1. Planned \in Ledger
  BY PlanAssumption DEF Planned, Ledger, BatchStates, ReviewBatch, CoverageEntry
<1>2. StatusAgreement(Planned) /\ TerminalTruth(Planned)
  BY PlanAssumption, NoneAssumption DEF Planned, StatusAgreement, TerminalTruth, TerminalStates
<1>3. RevisionChain(Planned)
  BY DEF Planned, RevisionChain
<1>4. EffectiveVerdict(Planned)
  BY PlanAssumption DEF Planned, EffectiveVerdict, Ids, LatestId
<1> QED BY <1>1, <1>2, <1>3, <1>4 DEF ValidLedger

\* Changing the status of one batch (dataclasses.replace in offer and accept)
\* keeps its reason and every other batch.
LEMMA StatusUpdate ==
  ASSUME NEW l \in Ledger, NEW b \in Batch, NEW s \in BatchStates
  PROVE  LET B == [l.batches EXCEPT ![b].status = s]
         IN  /\ B \in [Batch -> ReviewBatch]
             /\ B[b].status = s /\ B[b].reason = l.batches[b].reason
             /\ \A c \in Batch \ {b} : B[c] = l.batches[c]
BY DEF Ledger, ReviewBatch

\* The chain condition reads the stored verdicts and nothing else, so the
\* transitions that store none (offer, block, finalize) keep it.
LEMMA ChainNeedsOnlyVerdicts ==
  ASSUME NEW l, NEW m, m.verdicts = l.verdicts, RevisionChain(l)
  PROVE  RevisionChain(m)
BY SMTT(30) DEF RevisionChain

\* offer() keeps a ledger valid: a planned batch and its atoms move together,
\* and neither has a verdict or a reason to lose.
LEMMA OfferPreserves ==
  ASSUME NEW l \in Ledger, ValidLedger(l), NEW b \in Batch, CanOffer(l, b)
  PROVE  OfferResult(l, b) \in Ledger /\ ValidLedger(OfferResult(l, b))
<1> DEFINE m == OfferResult(l, b)
           B == [l.batches EXCEPT ![b].status = "offered"]
           E == [a \in Atom |-> IF BatchOf[a] = b
                   THEN [l.entries[a] EXCEPT !.status = "offered"] ELSE l.entries[a]]
<1>1. m = [l EXCEPT !.batches = B, !.entries = E]
  BY DEF OfferResult
<1>2. /\ B \in [Batch -> ReviewBatch]
      /\ B[b].status = "offered" /\ B[b].reason = l.batches[b].reason
      /\ \A c \in Batch \ {b} : B[c] = l.batches[c]
  BY DEF Ledger, ReviewBatch, BatchStates
<1>3. ASSUME NEW a \in Atom, BatchOf[a] = b
      PROVE  /\ E[a] \in CoverageEntry
             /\ E[a].status = "offered"
             /\ E[a].reason = l.entries[a].reason
             /\ E[a].effective = l.entries[a].effective
             /\ E[a].revisions = l.entries[a].revisions
  <2>1. l.entries[a] \in CoverageEntry
    BY DEF Ledger
  <2>2. E[a] = [l.entries[a] EXCEPT !.status = "offered"]
    BY <1>3
  <2> HIDE DEF E
  <2> QED BY <2>1, <2>2 DEF CoverageEntry, BatchStates
<1>4. \A a \in Atom : BatchOf[a] # b => E[a] = l.entries[a] /\ E[a] \in CoverageEntry
  BY DEF Ledger
<1>5. E \in [Atom -> CoverageEntry]
  BY <1>3, <1>4
<1> HIDE DEF B, E, m
<1>6. m \in Ledger /\ m.batches = B /\ m.entries = E /\ m.verdicts = l.verdicts /\ m.terminal = l.terminal
  BY <1>1, <1>2, <1>5 DEF Ledger
<1>7. StatusAgreement(m)
  <2> SUFFICES ASSUME NEW a \in Atom
      PROVE  /\ B[BatchOf[a]].status # "terminal" => E[a].status = B[BatchOf[a]].status
             /\ E[a].status # "terminal"
             /\ (B[BatchOf[a]].status = "blocked") <=> (B[BatchOf[a]].reason # None)
             /\ (E[a].status = "blocked") <=> (E[a].reason # None)
    BY <1>6 DEF StatusAgreement
  <2>1. BatchOf[a] \in Batch
    BY PlanAssumption
  <2>2. CASE BatchOf[a] = b
    BY <1>2, <1>3, <2>2 DEF ValidLedger, StatusAgreement, CanOffer
  <2>3. CASE BatchOf[a] # b
    BY <1>2, <1>4, <2>1, <2>3 DEF ValidLedger, StatusAgreement
  <2> QED BY <2>2, <2>3
<1>8. RevisionChain(m)
  BY <1>6, ChainNeedsOnlyVerdicts DEF ValidLedger
<1>9. EffectiveVerdict(m)
  <2> SUFFICES ASSUME NEW a \in Atom
      PROVE  /\ E[a].revisions = Ids(l.verdicts[BatchOf[a]])
             /\ E[a].effective = LatestId(l.verdicts[BatchOf[a]])
             /\ E[a].status = "accepted" <=> Len(l.verdicts[BatchOf[a]]) > 0
    BY <1>6 DEF EffectiveVerdict
  <2>2. CASE BatchOf[a] = b
    BY <1>3, <2>2 DEF ValidLedger, StatusAgreement, EffectiveVerdict, CanOffer
  <2>3. CASE BatchOf[a] # b
    BY <1>4, <2>3 DEF ValidLedger, EffectiveVerdict
  <2> QED BY <2>2, <2>3
<1>10. TerminalTruth(m)
  BY <1>2, <1>6, NoneAssumption DEF ValidLedger, TerminalTruth, CanOffer, TerminalStates
<1> QED BY <1>6, <1>7, <1>8, <1>9, <1>10 DEF m, ValidLedger

\* block() keeps a ledger valid: only a batch without verdicts is blocked, and
\* its reason reaches every one of its atoms.
LEMMA BlockPreserves ==
  ASSUME NEW l \in Ledger, ValidLedger(l), NEW b \in Batch, NEW r \in Reason,
         CanBlock(l, b, r)
  PROVE  BlockResult(l, b, r) \in Ledger /\ ValidLedger(BlockResult(l, b, r))
<1> DEFINE m == BlockResult(l, b, r)
           B == [l.batches EXCEPT ![b] = [status |-> "blocked", reason |-> r]]
           E == [a \in Atom |-> IF BatchOf[a] = b
                   THEN [l.entries[a] EXCEPT !.status = "blocked", !.reason = r]
                   ELSE l.entries[a]]
<1>1. m = [l EXCEPT !.batches = B, !.entries = E]
  BY DEF BlockResult
<1>2. /\ B \in [Batch -> ReviewBatch]
      /\ B[b].status = "blocked" /\ B[b].reason = r
      /\ \A c \in Batch \ {b} : B[c] = l.batches[c]
  BY DEF Ledger, ReviewBatch, BatchStates
<1>3. ASSUME NEW a \in Atom, BatchOf[a] = b
      PROVE  /\ E[a] \in CoverageEntry
             /\ E[a].status = "blocked"
             /\ E[a].reason = r
             /\ E[a].effective = l.entries[a].effective
             /\ E[a].revisions = l.entries[a].revisions
  <2>1. l.entries[a] \in CoverageEntry
    BY DEF Ledger
  <2>2. E[a] = [l.entries[a] EXCEPT !.status = "blocked", !.reason = r]
    BY <1>3
  <2> HIDE DEF E
  <2> QED BY <2>1, <2>2 DEF CoverageEntry, BatchStates
<1>4. \A a \in Atom : BatchOf[a] # b => E[a] = l.entries[a] /\ E[a] \in CoverageEntry
  BY DEF Ledger
<1>5. E \in [Atom -> CoverageEntry]
  BY <1>3, <1>4
<1> HIDE DEF B, E, m
<1>6. /\ m \in Ledger /\ m.batches = B /\ m.entries = E
      /\ m.verdicts = l.verdicts /\ m.terminal = l.terminal
  BY <1>1, <1>2, <1>5 DEF Ledger
<1>7. StatusAgreement(m)
  <2> SUFFICES ASSUME NEW a \in Atom
      PROVE  /\ B[BatchOf[a]].status # "terminal" => E[a].status = B[BatchOf[a]].status
             /\ E[a].status # "terminal"
             /\ (B[BatchOf[a]].status = "blocked") <=> (B[BatchOf[a]].reason # None)
             /\ (E[a].status = "blocked") <=> (E[a].reason # None)
    BY <1>6 DEF StatusAgreement
  <2>1. BatchOf[a] \in Batch
    BY PlanAssumption
  <2>2. CASE BatchOf[a] = b
    BY <1>2, <1>3, <2>2, NoneAssumption
  <2>3. CASE BatchOf[a] # b
    BY <1>2, <1>4, <2>1, <2>3 DEF ValidLedger, StatusAgreement
  <2> QED BY <2>2, <2>3
<1>8. RevisionChain(m)
  BY <1>6, ChainNeedsOnlyVerdicts DEF ValidLedger
<1>9. EffectiveVerdict(m)
  <2> SUFFICES ASSUME NEW a \in Atom
      PROVE  /\ E[a].revisions = Ids(l.verdicts[BatchOf[a]])
             /\ E[a].effective = LatestId(l.verdicts[BatchOf[a]])
             /\ E[a].status = "accepted" <=> Len(l.verdicts[BatchOf[a]]) > 0
    BY <1>6 DEF EffectiveVerdict
  <2>2. CASE BatchOf[a] = b
    BY <1>3, <2>2 DEF ValidLedger, StatusAgreement, EffectiveVerdict, CanBlock
  <2>3. CASE BatchOf[a] # b
    BY <1>4, <2>3 DEF ValidLedger, EffectiveVerdict
  <2> QED BY <2>2, <2>3
<1>10. TerminalTruth(m)
  BY <1>2, <1>6, NoneAssumption DEF ValidLedger, TerminalTruth, CanBlock, TerminalStates
<1> QED BY <1>6, <1>7, <1>8, <1>9, <1>10 DEF m, ValidLedger

\* finalize() keeps a ledger valid: the guards on the batches justify the
\* status for the atoms, whose entries it leaves alone.
LEMMA FinalizePreserves ==
  ASSUME NEW l \in Ledger, ValidLedger(l), NEW s \in TerminalStates, CanFinalize(l, s)
  PROVE  FinalizeResult(l, s) \in Ledger /\ ValidLedger(FinalizeResult(l, s))
<1> DEFINE m == FinalizeResult(l, s)
           B == [b \in Batch |-> [status |-> "terminal", reason |-> None]]
<1>1. m = [l EXCEPT !.batches = B, !.terminal = s]
  BY DEF FinalizeResult
<1>2. /\ B \in [Batch -> ReviewBatch]
      /\ \A b \in Batch : B[b].status = "terminal" /\ B[b].reason = None
  BY DEF ReviewBatch, BatchStates
<1> HIDE DEF B, m
<1>3. /\ m \in Ledger /\ m.batches = B /\ m.entries = l.entries
      /\ m.verdicts = l.verdicts /\ m.terminal = s
  BY <1>1, <1>2 DEF Ledger
<1>4. StatusAgreement(m)
  <2>1. ASSUME NEW a \in Atom
        PROVE  /\ BatchOf[a] \in Batch
               /\ l.entries[a].status # "terminal"
               /\ (l.entries[a].status = "blocked") <=> (l.entries[a].reason # None)
    BY PlanAssumption DEF ValidLedger, StatusAgreement
  <2> QED BY <1>2, <1>3, <2>1 DEF StatusAgreement
<1>5. RevisionChain(m)
  BY <1>3, ChainNeedsOnlyVerdicts DEF ValidLedger
<1>6. EffectiveVerdict(m)
  BY <1>3 DEF ValidLedger, EffectiveVerdict
<1>7. TerminalTruth(m)
  <2>1. s # None
    BY NoneAssumption
  <2>2. CASE l.terminal = s
    BY <1>2, <1>3, <2>1, <2>2 DEF ValidLedger, TerminalTruth
  <2>3. CASE l.terminal = None
    BY <1>2, <1>3, <2>1, <2>3, PlanAssumption
    DEF ValidLedger, TerminalTruth, StatusAgreement, CanFinalize
  <2> QED BY <2>2, <2>3 DEF CanFinalize
<1> QED BY <1>3, <1>4, <1>5, <1>6, <1>7 DEF m, ValidLedger

\* What accept() does to a batch's history when the submission is new: it
\* supersedes the end of the chain, appends the submission, and the revision
\* list it copies to every atom is the identities of the new chain.
LEMMA RevisedChain ==
  ASSUME NEW l \in Ledger, ValidLedger(l), NEW v \in NewVerdict, IsNew(l, v)
  PROVE  LET old == l.verdicts[v.batch]
             new == Revised(l, v)
         IN  /\ new \in Seq(Verdict)
             /\ Len(new) = Len(old) + 1
             /\ new[Len(new)] = v
             /\ v.supersedes = LatestId(old)
             /\ \A i \in 1..Len(old) : new[i] = [old[i] EXCEPT !.status = "superseded"]
             /\ RevisionIds(l, v) = Ids(new)
<1> DEFINE old == l.verdicts[v.batch]
           marked == [i \in 1..Len(old) |->
                        IF old[i].id = v.supersedes
                        THEN [old[i] EXCEPT !.status = "superseded"] ELSE old[i]]
           first == CHOOSE a \in AtomsOf(v.batch) : TRUE
<1>1. v \in Verdict /\ v.batch \in Batch
  BY DEF NewVerdict, Verdict
<1>2. old \in Seq(Verdict) /\ Len(old) \in Nat
  BY <1>1 DEF Ledger
<1>3. first \in Atom /\ BatchOf[first] = v.batch
  BY <1>1, PlanAssumption DEF AtomsOf
<1>4. l.entries[first].effective = LatestId(old) /\ l.entries[first].revisions = Ids(old)
  BY <1>3 DEF ValidLedger, EffectiveVerdict
<1>5. l.entries[first].status = "accepted" <=> Len(old) > 0
  BY <1>3 DEF ValidLedger, EffectiveVerdict
<1>6. v.supersedes = LatestId(old)
  <2>1. CASE IsInitial(l, v)
    <3>1. l.entries[first].status = "offered"
      BY <2>1, <1>3 DEF IsInitial, ValidLedger, StatusAgreement
    <3>2. Len(old) = 0
      BY <3>1, <1>2, <1>5
    <3> QED BY <3>2, <2>1 DEF IsInitial, LatestId
  <2>2. CASE IsCorrection(l, v)
    <3>1. l.entries[first].effective \in EffectiveIds(l, v.batch) \cup {None}
      BY <1>3 DEF EffectiveIds, AtomsOf
    <3>2. l.batches[v.batch].status = "accepted"
      BY <2>2 DEF IsCorrection
    <3>3. l.entries[first].status = "accepted"
      BY <3>2, <1>3 DEF ValidLedger, StatusAgreement
    <3>4. LatestId(old) # None
      <4>1. old[Len(old)] \in Verdict
        BY <3>3, <1>5, <1>2
      <4> QED BY <4>1, <3>3, <1>5, <1>2, NoneAssumption DEF LatestId, Verdict
    <3> QED BY <3>1, <3>4, <1>4, <2>2 DEF IsCorrection
  <2> QED BY <2>1, <2>2 DEF IsNew
<1>7. ASSUME NEW i \in 1..Len(old)
      PROVE  marked[i] = [old[i] EXCEPT !.status = "superseded"] /\ marked[i] \in Verdict
  <2>1. old[i] \in Verdict /\ old[Len(old)] \in Verdict
    BY <1>2
  <2>2. [old[i] EXCEPT !.status = "superseded"] \in Verdict
    BY <2>1, SMTT(30) DEF Verdict
  <2>3. v.supersedes = old[Len(old)].id
    BY <1>6, <1>2 DEF LatestId
  <2>4. CASE i = Len(old)
    <3>1. old[i].id = v.supersedes
      BY <2>3, <2>4
    <3>2. marked[i] = IF old[i].id = v.supersedes THEN [old[i] EXCEPT !.status = "superseded"] ELSE old[i]
      OBVIOUS
    <3> HIDE DEF marked, old
    <3> QED BY <2>2, <3>1, <3>2
  <2>5. CASE i # Len(old)
    <3>1. old[i].id # old[Len(old)].id
      BY <2>5, <1>1, <1>2 DEF ValidLedger, RevisionChain
    <3>2. old[i].status = "superseded"
      BY <2>5, <1>1, <1>2 DEF ValidLedger, RevisionChain
    <3>3. old[i] = [old[i] EXCEPT !.status = "superseded"]
      BY <3>2, <2>1 DEF Verdict
    <3> QED BY <3>1, <3>3, <2>1, <2>3
  <2> QED BY <2>4, <2>5
<1>8. marked \in Seq(Verdict) /\ Len(marked) = Len(old)
  <2>1. marked \in [1..Len(old) -> Verdict] /\ DOMAIN marked = 1..Len(old)
    BY <1>7
  <2> HIDE DEF marked, old
  <2> QED BY <2>1, <1>2
<1>9. Revised(l, v) = Append(marked, v)
  BY DEF Revised
<1>10. /\ Append(marked, v) \in Seq(Verdict)
       /\ Len(Append(marked, v)) = Len(old) + 1
       /\ \A i \in 1..Len(old) : Append(marked, v)[i] = marked[i]
       /\ Append(marked, v)[Len(old) + 1] = v
  <2> HIDE DEF marked
  <2> QED BY <1>8, <1>1, AppendProperties
<1>11. RevisionIds(l, v) = Ids(Append(marked, v))
  <2>1. Ids(Append(marked, v)) = [i \in 1..(Len(old) + 1) |-> IF i = Len(old) + 1 THEN v.id ELSE old[i].id]
    <3>1. \A i \in 1..Len(old) : marked[i].id = old[i].id
      <4> SUFFICES ASSUME NEW i \in 1..Len(old) PROVE marked[i].id = old[i].id
        OBVIOUS
      <4>1. old[i] \in Verdict
        BY <1>2
      <4> QED BY <4>1, <1>7 DEF Verdict
    <3> HIDE DEF marked, old
    <3> QED BY <3>1, <1>2, <1>10 DEF Ids
  <2>2. CASE v.supersedes = None
    <3>1. Len(old) = 0
      <4> SUFFICES ASSUME Len(old) # 0 PROVE FALSE
        OBVIOUS
      <4>1. old[Len(old)] \in Verdict
        BY <1>2
      <4> QED BY <4>1, <2>2, <1>6, NoneAssumption DEF LatestId, Verdict
    <3>2. RevisionIds(l, v) = <<v.id>>
      BY <2>2 DEF RevisionIds
    <3>3. <<v.id>> = [i \in 1..1 |-> v.id]
      OBVIOUS
    <3> QED BY <3>1, <3>2, <3>3, <2>1
  <2>3. CASE v.supersedes # None
    <3>1. RevisionIds(l, v) = Append(Ids(old), v.id)
      BY <2>3, <1>4 DEF RevisionIds
    <3>2. Append(Ids(old), v.id) = [i \in 1..(Len(old) + 1) |-> IF i = Len(old) + 1 THEN v.id ELSE old[i].id]
      <4> HIDE DEF old
      <4> QED BY <1>2 DEF Ids
    <3> QED BY <3>1, <3>2, <2>1, ZenonT(60)
  <2> QED BY <2>2, <2>3
<1> QED BY <1>6, <1>7, <1>9, <1>10, <1>11, ZenonT(60)

\* accept() keeps a ledger valid, for an initial submission, for a correction
\* and for a replay.
LEMMA AcceptPreserves ==
  ASSUME NEW l \in Ledger, ValidLedger(l), NEW v \in NewVerdict, CanAccept(l, v)
  PROVE  AcceptResult(l, v) \in Ledger /\ ValidLedger(AcceptResult(l, v))
<1>1. CASE Stored(l, v.id) # {}
  BY <1>1 DEF AcceptResult
<1>2. CASE Stored(l, v.id) = {}
  <2> DEFINE m == Recorded(l, v)
             B == [l.batches EXCEPT ![v.batch].status = "accepted"]
             V == [l.verdicts EXCEPT ![v.batch] = Revised(l, v)]
             R == RevisionIds(l, v)
             E == [a \in Atom |-> IF BatchOf[a] = v.batch
                     THEN [l.entries[a] EXCEPT !.status = "accepted", !.effective = v.id,
                                               !.revisions = R]
                     ELSE l.entries[a]]
             old == l.verdicts[v.batch]
             new == Revised(l, v)
  <2>1. IsNew(l, v) /\ l.terminal = None
    BY <1>2 DEF CanAccept, IsReplay
  <2>2. v \in Verdict /\ v.id \in SubmissionId /\ v.batch \in Batch /\ v.status = "accepted"
    BY DEF NewVerdict, Verdict
  <2>3. /\ new \in Seq(Verdict)
        /\ Len(new) = Len(old) + 1
        /\ new[Len(new)] = v
        /\ v.supersedes = LatestId(old)
        /\ \A i \in 1..Len(old) : new[i] = [old[i] EXCEPT !.status = "superseded"]
        /\ R = Ids(new)
    BY <2>1, RevisedChain
  <2>4. /\ B \in [Batch -> ReviewBatch]
        /\ B[v.batch].status = "accepted" /\ B[v.batch].reason = l.batches[v.batch].reason
        /\ \A c \in Batch \ {v.batch} : B[c] = l.batches[c]
    BY <2>2, StatusUpdate, ZenonT(60) DEF BatchStates
  <2>5. /\ V \in [Batch -> Seq(Verdict)]
        /\ V[v.batch] = new
        /\ \A c \in Batch \ {v.batch} : V[c] = l.verdicts[c]
    BY <2>2, <2>3 DEF Ledger
  <2>6. R \in Seq(SubmissionId)
    <3>1. \A i \in 1..Len(new) : new[i] \in Verdict
      BY <2>3
    <3>2. \A i \in 1..Len(new) : new[i].id \in SubmissionId
      BY <3>1 DEF Verdict
    <3>3. Ids(new) \in [1..Len(new) -> SubmissionId] /\ Len(new) \in Nat
      <4> HIDE DEF new
      <4> QED BY <3>2, <2>3 DEF Ids
    <3> HIDE DEF new, R
    <3> QED BY <3>3, <2>3
  <2>7. ASSUME NEW a \in Atom, BatchOf[a] = v.batch
        PROVE  /\ E[a] \in CoverageEntry
               /\ E[a].status = "accepted"
               /\ E[a].reason = l.entries[a].reason
               /\ E[a].effective = v.id
               /\ E[a].revisions = R
    <3>1. l.entries[a] \in CoverageEntry
      BY DEF Ledger
    <3>2. E[a] = [l.entries[a] EXCEPT !.status = "accepted", !.effective = v.id,
                                      !.revisions = R]
      BY <2>7
    <3> HIDE DEF E, R
    <3> QED BY <3>1, <3>2, <2>2, <2>6 DEF CoverageEntry, BatchStates
  <2>8. \A a \in Atom : BatchOf[a] # v.batch => E[a] = l.entries[a] /\ E[a] \in CoverageEntry
    BY DEF Ledger
  <2>9. E \in [Atom -> CoverageEntry]
    BY <2>7, <2>8
  <2>10. m = [l EXCEPT !.batches = B, !.verdicts = V, !.entries = E]
    BY DEF Recorded
  <2> HIDE DEF B, V, E, R, m
  <2>11. /\ m \in Ledger /\ m.batches = B /\ m.entries = E /\ m.verdicts = V
         /\ m.terminal = l.terminal
    BY <2>4, <2>5, <2>9, <2>10 DEF Ledger
  <2>12. \A a \in Atom : BatchOf[a] = v.batch => l.entries[a].status \in {"offered", "accepted"}
    BY <2>1 DEF IsNew, IsInitial, IsCorrection, ValidLedger, StatusAgreement
  <2>13. StatusAgreement(m)
    <3> SUFFICES ASSUME NEW a \in Atom
        PROVE  /\ B[BatchOf[a]].status # "terminal" => E[a].status = B[BatchOf[a]].status
               /\ E[a].status # "terminal"
               /\ (B[BatchOf[a]].status = "blocked") <=> (B[BatchOf[a]].reason # None)
               /\ (E[a].status = "blocked") <=> (E[a].reason # None)
      BY <2>11 DEF StatusAgreement
    <3>1. BatchOf[a] \in Batch
      BY PlanAssumption
    <3>2. CASE BatchOf[a] = v.batch
      <4>1. l.batches[v.batch].status \in {"offered", "accepted"}
        BY <2>1 DEF IsNew, IsInitial, IsCorrection
      <4>2. l.batches[v.batch].reason = None /\ l.entries[a].reason = None
        BY <4>1, <2>12, <3>2 DEF ValidLedger, StatusAgreement
      <4> QED BY <4>2, <2>4, <2>7, <3>2
    <3>3. CASE BatchOf[a] # v.batch
      BY <2>4, <2>8, <3>1, <3>3 DEF ValidLedger, StatusAgreement
    <3> QED BY <3>2, <3>3
  <2>14. EffectiveVerdict(m)
    <3> SUFFICES ASSUME NEW a \in Atom
        PROVE  /\ E[a].revisions = Ids(V[BatchOf[a]])
               /\ E[a].effective = LatestId(V[BatchOf[a]])
               /\ E[a].status = "accepted" <=> Len(V[BatchOf[a]]) > 0
      BY <2>11 DEF EffectiveVerdict
    <3>1. BatchOf[a] \in Batch
      BY PlanAssumption
    <3>2. CASE BatchOf[a] = v.batch
      <4>1. Len(old) \in Nat /\ Len(new) = Len(old) + 1
        BY <2>2, <2>3 DEF Ledger
      <4> HIDE DEF new
      <4>2. LatestId(new) = v.id
        BY <2>3, <4>1 DEF LatestId
      <4> QED BY <4>1, <4>2, <2>3, <2>5, <2>7, <3>2
    <3>3. CASE BatchOf[a] # v.batch
      BY <2>5, <2>8, <3>1, <3>3 DEF ValidLedger, EffectiveVerdict
    <3> QED BY <3>2, <3>3
  <2>15. RevisionChain(m)
    <3> DEFINE pos(b) == 1..Len(V[b])
    <3>1. Len(old) \in Nat /\ old \in Seq(Verdict)
      BY <2>2 DEF Ledger
    <3>2. \A i \in 1..Len(old) : /\ old[i] \in Verdict
                               /\ SameContent(old[i], new[i])
                               /\ new[i].status = "superseded"
      <4> SUFFICES ASSUME NEW i \in 1..Len(old)
          PROVE  old[i] \in Verdict /\ SameContent(old[i], new[i]) /\ new[i].status = "superseded"
        OBVIOUS
      <4>1. old[i] \in Verdict /\ new[i] = [old[i] EXCEPT !.status = "superseded"]
        BY <2>3, <3>1
      <4> HIDE DEF old, new
      <4> QED BY <4>1 DEF Verdict, SameContent
    <3>3. ASSUME NEW b \in Batch, NEW i \in 1..Len(V[b])
          PROVE  /\ V[b][i].batch = b
                 /\ DOMAIN V[b][i].decisions = AtomsOf(b)
                 /\ V[b][i].supersedes = IF i = 1 THEN None ELSE V[b][i - 1].id
                 /\ V[b][i].status = IF i = Len(V[b]) THEN "accepted" ELSE "superseded"
      <4>1. CASE b # v.batch
        BY <2>5, <3>3, <4>1 DEF ValidLedger, RevisionChain
      <4>2. CASE b = v.batch /\ i = Len(new)
        <5>1. DOMAIN v.decisions = AtomsOf(b)
          BY <2>1, <4>2 DEF IsNew
        <5>2. v.supersedes = IF i = 1 THEN None ELSE new[i - 1].id
          <6>1. CASE Len(old) = 0
            BY <6>1, <2>3, <4>2 DEF LatestId
          <6>2. CASE Len(old) # 0
            BY <6>2, <2>3, <3>1, <3>2, <4>2, SMTT(30) DEF LatestId, SameContent
          <6> QED BY <6>1, <6>2
        <5> HIDE DEF new
        <5> QED BY <5>1, <5>2, <2>2, <2>3, <2>5, <4>2
      <4>3. CASE b = v.batch /\ i # Len(new)
        <5>1. i \in 1..Len(old)
          BY <2>3, <2>5, <3>1, <3>3, <4>3
        <5>2. /\ old[i].batch = b
              /\ DOMAIN old[i].decisions = AtomsOf(b)
              /\ old[i].supersedes = IF i = 1 THEN None ELSE old[i - 1].id
          BY <4>3, <5>1 DEF ValidLedger, RevisionChain
        <5>3. i # 1 => i - 1 \in 1..Len(old)
          BY <5>1, <3>1
        <5>4. /\ new[i].batch = b
              /\ DOMAIN new[i].decisions = AtomsOf(b)
              /\ new[i].supersedes = IF i = 1 THEN None ELSE new[i - 1].id
              /\ new[i].status = "superseded"
          <6> HIDE DEF old, new
          <6> QED BY <3>2, <5>1, <5>2, <5>3 DEF SameContent
        <5> HIDE DEF new
        <5> QED BY <5>4, <2>5, <4>3
      <4> QED BY <4>1, <4>2, <4>3
    <3>4. \A b \in Batch : \A i \in 1..Len(l.verdicts[b]) :
            l.verdicts[b][i] \in Verdict /\ l.verdicts[b][i].id # v.id
      <4> SUFFICES ASSUME NEW b \in Batch, NEW i \in 1..Len(l.verdicts[b]),
                          l.verdicts[b][i].id = v.id
                   PROVE  l.verdicts[b][i] \in Stored(l, v.id)
        BY <1>2 DEF Ledger
      <4> QED BY DEF Stored
    <3>5. ASSUME NEW b \in Batch, NEW i \in 1..Len(V[b])
          PROVE  \/ /\ i \in 1..Len(l.verdicts[b])
                    /\ V[b][i].id = l.verdicts[b][i].id
                    /\ V[b][i].id # v.id
                 \/ b = v.batch /\ i = Len(old) + 1 /\ V[b][i].id = v.id
      <4>1. CASE b # v.batch
        BY <2>5, <3>4, <3>5, <4>1
      <4>2. CASE b = v.batch /\ i = Len(old) + 1
        BY <2>3, <2>5, <4>2
      <4>3. CASE b = v.batch /\ i # Len(old) + 1
        <5>1. i \in 1..Len(old)
          BY <2>3, <2>5, <3>1, <3>5, <4>3
        <5> QED BY <2>5, <3>2, <3>4, <4>3, <5>1 DEF SameContent
      <4> QED BY <4>1, <4>2, <4>3
    <3>6. ASSUME NEW b \in Batch, NEW c \in Batch,
                 NEW i \in 1..Len(V[b]), NEW j \in 1..Len(V[c]), V[b][i].id = V[c][j].id
          PROVE  b = c /\ i = j
      BY <3>5, <3>6 DEF ValidLedger, RevisionChain
    <3> QED BY <2>11, <3>3, <3>6 DEF RevisionChain
  <2>16. TerminalTruth(m)
    BY <2>1, <2>4, <2>11, NoneAssumption DEF ValidLedger, TerminalTruth, TerminalStates
  <2> QED BY <1>2, <2>11, <2>13, <2>14, <2>15, <2>16 DEF m, ValidLedger, AcceptResult
<1> QED BY <1>1, <1>2

\* accept() extends the history of the submission's batch and leaves every
\* other history alone.
LEMMA AcceptExtends ==
  ASSUME NEW l \in Ledger, ValidLedger(l), NEW v \in NewVerdict, CanAccept(l, v),
         NEW b \in Batch
  PROVE  Extends(l.verdicts[b], AcceptResult(l, v).verdicts[b])
<1>1. l.verdicts[b] \in Seq(Verdict) /\ Len(l.verdicts[b]) \in Nat
  BY DEF Ledger
<1>2. CASE AcceptResult(l, v).verdicts[b] = l.verdicts[b]
  BY <1>1, <1>2 DEF Extends, SameContent
<1>3. CASE AcceptResult(l, v).verdicts[b] # l.verdicts[b]
  <2>1. Stored(l, v.id) = {} /\ AcceptResult(l, v) = Recorded(l, v)
    BY <1>3 DEF AcceptResult
  <2>2. AcceptResult(l, v).verdicts = [l.verdicts EXCEPT ![v.batch] = Revised(l, v)]
    BY <2>1 DEF Recorded, Ledger
  <2>3. b = v.batch /\ AcceptResult(l, v).verdicts[b] = Revised(l, v)
    BY <1>3, <2>2 DEF Ledger
  <2>4. IsNew(l, v)
    BY <2>1 DEF CanAccept, IsReplay
  <2> DEFINE old == l.verdicts[b]
             new == Revised(l, v)
  <2>5. /\ Len(new) = Len(old) + 1
        /\ \A i \in 1..Len(old) : new[i] = [old[i] EXCEPT !.status = "superseded"]
    BY <2>3, <2>4, RevisedChain
  <2>6. \A i \in 1..Len(old) : SameContent(old[i], new[i]) /\ new[i].status = "superseded"
    <3> SUFFICES ASSUME NEW i \in 1..Len(old)
                 PROVE  SameContent(old[i], new[i]) /\ new[i].status = "superseded"
      OBVIOUS
    <3>1. old[i] \in Verdict /\ new[i] = [old[i] EXCEPT !.status = "superseded"]
      BY <1>1, <2>5
    <3> HIDE DEF old, new
    <3> QED BY <3>1 DEF Verdict, SameContent
  <2>7. Extends(old, new)
    <3> HIDE DEF old, new
    <3> QED BY <2>5, <2>6 DEF Extends
  <2> QED BY <2>3, <2>7
<1> QED BY <1>2, <1>3
=============================================================================
