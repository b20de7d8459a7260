------------------------ MODULE ReviewCoordinatorProofs ------------------------
(***************************************************************************)
(* Proofs about ReviewCoordinator, for any plan, any number of revisions and  *)
(* crashes.  The inductive invariant says what the coordinator's memory and     *)
(* the durable ledger have to do with each other, and that every stored         *)
(* verdict has the identity bind() gave it.                                   *)
(***************************************************************************)
EXTENDS ReviewCoordinator, CoverageLedgerProofs, FiniteSetTheorems

\* Every verdict was bound by the Host: its identity is made of what it says.
Traced(l) ==
  \A b \in Batch :
    LET chain == l.verdicts[b]
    IN /\ Len(chain) <= MaxRevisions
       /\ \A i \in 1..Len(chain) :
            /\ chain[i].id \in Identities[i]
            /\ chain[i].id = <<b, chain[i].decisions, chain[i].supersedes>>

WellKept(l) == l \in Ledger /\ ValidLedger(l) /\ Traced(l)

Single(l) == \A b, c \in Offered(l) : b = c

\* A task that is held is about a batch that can be answered now.
Holding(l, task) ==
  /\ l.terminal = None
  /\ Offered(l) \subseteq {task.batch}
  /\ l.batches[task.batch].status \in {"offered", "accepted"}
  /\ task.supersedes = LatestId(l.verdicts[task.batch])

Coordinated ==
  /\ TypeOK
  /\ ledger # None => WellKept(ledger) /\ Single(ledger)
  /\ active # None => up /\ ledger # None /\ Holding(ledger, active)
  /\ \A m \in sent : m.decisions \in [AtomsOf(m.batch) -> Value]

-----------------------------------------------------------------------------
(* Facts about ledgers *)

\* The first of some numbered batches is one of them.
LEMMA MinOfNats ==
  ASSUME NEW S \in SUBSET Nat, S # {}
  PROVE  Min(S) \in S
BY LeastNatural DEF Min

\* The verdict that stands for a batch is the end of its chain.
LEMMA EffectiveIsLatest ==
  ASSUME NEW l \in Ledger, ValidLedger(l), NEW b \in Batch
  PROVE  LET latest == LatestId(l.verdicts[b])
         IN /\ EffectiveIds(l, b) = {latest} \ {None}
            /\ latest \in SubmissionId \cup {None}
            /\ latest = None <=> Len(l.verdicts[b]) = 0
            /\ Binding(l, b) = [batch |-> b, supersedes |-> latest]
<1> DEFINE chain == l.verdicts[b]
           latest == LatestId(chain)
<1>1. chain \in Seq(Verdict) /\ Len(chain) \in Nat
  BY DEF Ledger
<1>2. AtomsOf(b) # {} /\ \A a \in AtomsOf(b) : l.entries[a].effective = latest
  BY PlanAssumption DEF ValidLedger, EffectiveVerdict, AtomsOf
<1>3. EffectiveIds(l, b) = {latest} \ {None}
  <2> HIDE DEF latest
  <2> QED BY <1>2 DEF EffectiveIds
<1>4. latest \in SubmissionId \cup {None} /\ (latest = None <=> Len(chain) = 0)
  <2>1. CASE Len(chain) = 0
    BY <2>1 DEF LatestId
  <2>2. CASE Len(chain) # 0
    <3>1. chain[Len(chain)] \in Verdict
      BY <1>1, <2>2
    <3> QED BY <2>2, <3>1, NoneAssumption DEF LatestId, Verdict
  <2> QED BY <2>1, <2>2
<1>5. Binding(l, b) = [batch |-> b, supersedes |-> latest]
  <2> HIDE DEF latest
  <2>1. CASE latest = None
    BY <1>3, <2>1 DEF Binding
  <2>2. CASE latest # None
    BY <1>3, <2>2 DEF Binding
  <2> QED BY <2>1, <2>2
<1> QED BY <1>3, <1>4, <1>5

\* A batch that is being reviewed has a standing verdict exactly when it is accepted.
LEMMA AcceptedHasChain ==
  ASSUME NEW l \in Ledger, ValidLedger(l), NEW b \in Batch,
         l.batches[b].status \in {"offered", "accepted"}
  PROVE  l.batches[b].status = "accepted" <=> Len(l.verdicts[b]) > 0
<1>1. PICK a \in AtomsOf(b) : TRUE
  BY PlanAssumption
<1>2. a \in Atom /\ BatchOf[a] = b
  BY <1>1 DEF AtomsOf
<1> QED BY <1>2 DEF ValidLedger, StatusAgreement, EffectiveVerdict

\* The identity of an answer to the current task is new: nothing stored was an
\* answer to the same task.
LEMMA BoundIsNew ==
  ASSUME NEW l, WellKept(l), NEW b \in Batch, NEW decisions
  PROVE  Stored(l, <<b, decisions, LatestId(l.verdicts[b])>>) = {}
<1> DEFINE chain == l.verdicts[b]
           id == <<b, decisions, LatestId(chain)>>
<1> SUFFICES ASSUME Stored(l, id) # {} PROVE FALSE
  OBVIOUS
<1>1. \A c \in Batch : l.verdicts[c] \in Seq(Verdict) /\ Len(l.verdicts[c]) \in Nat
  BY DEF WellKept, Ledger
<1>2. PICK c \in Batch : \E i \in 1..Len(l.verdicts[c]) : l.verdicts[c][i].id = id
  <2> HIDE DEF id
  <2> QED BY DEF Stored
<1>3. PICK i \in 1..Len(l.verdicts[c]) : l.verdicts[c][i].id = id
  BY <1>2
<1>4. l.verdicts[c][i].id = <<c, l.verdicts[c][i].decisions, l.verdicts[c][i].supersedes>>
  BY DEF WellKept, Traced
<1>5. c = b /\ chain[i].supersedes = LatestId(chain) /\ i \in 1..Len(chain)
  BY <1>3, <1>4
<1>6. Len(chain) \in Nat /\ Len(chain) # 0 /\ LatestId(chain) = chain[Len(chain)].id
  BY <1>1, <1>5 DEF LatestId
<1>7. chain[Len(chain)].id # None
  <2>1. chain[Len(chain)] \in Verdict
    BY <1>1, <1>6
  <2> QED BY <2>1, NoneAssumption DEF Verdict
<1>8. i # 1 /\ chain[i - 1].id = chain[Len(chain)].id
  BY <1>5, <1>6, <1>7 DEF WellKept, ValidLedger, RevisionChain
<1>9. i - 1 \in 1..Len(chain) /\ Len(chain) \in 1..Len(chain) /\ i - 1 # Len(chain)
  BY <1>1, <1>5, <1>6, <1>8
<1>10. \A j, k \in 1..Len(chain) : chain[j].id = chain[k].id => j = k
  BY DEF WellKept, ValidLedger, RevisionChain
<1> QED BY <1>8, <1>9, <1>10

\* Whatever complete answer is given to the current task, the ledger takes it.
LEMMA AnswerFits ==
  ASSUME NEW l, WellKept(l), NEW b \in Batch, l.terminal = None,
         l.batches[b].status \in {"offered", "accepted"},
         NEW decisions \in [AtomsOf(b) -> Value]
  PROVE  LET v == Bind([batch |-> b, supersedes |-> LatestId(l.verdicts[b])], decisions)
         IN Stored(l, v.id) = {} /\ IsNew(l, v) /\ CanAccept(l, v)
<1> DEFINE chain == l.verdicts[b]
           latest == LatestId(chain)
           v == Bind([batch |-> b, supersedes |-> latest], decisions)
<1>1. /\ v.id = <<b, decisions, latest>> /\ v.batch = b /\ v.decisions = decisions
      /\ v.supersedes = latest
  BY DEF Bind
<1>2. l \in Ledger /\ ValidLedger(l) /\ chain \in Seq(Verdict) /\ Len(chain) \in Nat
  BY DEF WellKept, Ledger
<1>3. Stored(l, v.id) = {}
  BY <1>1, BoundIsNew
<1>4. EffectiveIds(l, b) = {latest} \ {None} /\ (latest = None <=> Len(chain) = 0)
  BY <1>2, EffectiveIsLatest
<1>5. l.batches[b].status = "accepted" <=> Len(chain) > 0
  BY <1>2, AcceptedHasChain
<1>6. CASE Len(chain) = 0
  <2>1. IsInitial(l, v)
    <3> HIDE DEF v, latest
    <3> QED BY <1>1, <1>4, <1>5, <1>6 DEF IsInitial
  <2> QED BY <1>1, <1>3, <2>1 DEF IsNew, CanAccept
<1>7. CASE Len(chain) > 0
  <2>1. latest = chain[Len(chain)].id /\ chain[Len(chain)].batch = b
        /\ chain[Len(chain)].status = "accepted"
    BY <1>2, <1>7 DEF latest, LatestId, ValidLedger, RevisionChain
  <2>2. chain[Len(chain)] \in Stored(l, latest)
    BY <1>2, <1>7, <2>1 DEF Stored
  <2>3. IsCorrection(l, v)
    <3> HIDE DEF v, latest
    <3> QED BY <1>1, <1>2, <1>4, <1>5, <1>7, <2>1, <2>2 DEF IsCorrection
  <2> QED BY <1>1, <1>3, <2>3 DEF IsNew, CanAccept
<1> QED BY <1>2, <1>3, <1>6, <1>7

\* An answer the ledger takes becomes the end of its batch's chain, under an
\* identity of its own, and its batch is offered no longer.
LEMMA AcceptKeeps ==
  ASSUME NEW l, WellKept(l), NEW b \in Batch, l.terminal = None,
         l.batches[b].status \in {"offered", "accepted"},
         Len(l.verdicts[b]) < MaxRevisions, NEW decisions \in [AtomsOf(b) -> Value]
  PROVE  LET v == Bind([batch |-> b, supersedes |-> LatestId(l.verdicts[b])], decisions)
             m == AcceptResult(l, v)
         IN v \in NewVerdict /\ WellKept(m) /\ Offered(m) = Offered(l) \ {b}
<1> DEFINE chain == l.verdicts[b]
           latest == LatestId(chain)
           v == Bind([batch |-> b, supersedes |-> latest], decisions)
           m == AcceptResult(l, v)
           n == Len(chain) + 1
<1>1. /\ v = [id |-> <<b, decisions, latest>>, batch |-> b, decisions |-> decisions,
              supersedes |-> latest, status |-> "accepted"]
  BY DEF Bind
<1>2. l \in Ledger /\ ValidLedger(l) /\ chain \in Seq(Verdict) /\ Len(chain) \in Nat
  BY DEF WellKept, Ledger
<1>3. Stored(l, v.id) = {} /\ IsNew(l, v) /\ CanAccept(l, v)
  BY AnswerFits
<1>4. /\ latest \in SubmissionId \cup {None}
      /\ latest = None <=> Len(chain) = 0
      /\ Len(chain) # 0 => latest = chain[Len(chain)].id
  <2>1. Len(chain) # 0 => latest = chain[Len(chain)].id
    BY DEF LatestId
  <2> QED BY <1>2, <2>1, EffectiveIsLatest
<1>5. n \in 1..MaxRevisions
  BY <1>2, CoordinatorAssumption
<1>6. <<b, decisions, latest>> \in Identities[n] /\ <<b, decisions, latest>> \in SubmissionId
  <2>1. latest \in IF n = 1 THEN {None} ELSE {id \in Identities[n - 1] : id[1] = b}
    <3>1. CASE Len(chain) = 0
      BY <1>4, <3>1
    <3>2. CASE Len(chain) # 0
      <4>1. n # 1 /\ n - 1 = Len(chain) /\ Len(chain) \in 1..Len(chain)
        BY <1>2, <3>2
      <4>2. latest \in Identities[n - 1] /\ latest[1] = b
        <5>1. /\ chain[Len(chain)].id \in Identities[Len(chain)]
              /\ chain[Len(chain)].id =
                   <<b, chain[Len(chain)].decisions, chain[Len(chain)].supersedes>>
          BY <4>1 DEF WellKept, Traced
        <5> QED BY <1>4, <3>2, <4>1, <5>1
      <4> QED BY <4>1, <4>2
    <3> QED BY <3>1, <3>2
  <2> HIDE DEF latest, n
  <2>2. <<b, decisions, latest>> \in Identities[n]
    BY <1>5, <2>1, IdentityAssumption
  <2> QED BY <1>5, <2>2, IdentityAssumption
<1>7. decisions \in Decisions
  <2>1. AtomsOf(b) \in (SUBSET Atom) \ {{}}
    BY PlanAssumption DEF AtomsOf
  <2> QED BY <2>1 DEF Decisions
<1>8. v.supersedes # v.id
  <2>1. CASE Len(chain) = 0
    BY <1>1, <1>4, <1>6, <2>1, NoneAssumption
  <2>2. CASE Len(chain) # 0
    <3>1. Len(chain) \in 1..Len(chain)
      BY <1>2, <2>2
    <3>2. chain[Len(chain)] \in Stored(l, latest)
      BY <1>4, <2>2, <3>1 DEF Stored
    <3> QED BY <1>1, <1>3, <3>2
  <2> QED BY <2>1, <2>2
<1>9. v \in NewVerdict
  <2> HIDE DEF v, latest
  <2> QED BY <1>1, <1>4, <1>6, <1>7, <1>8 DEF NewVerdict, Verdict
<1>10. m \in Ledger /\ ValidLedger(m)
  BY <1>2, <1>3, <1>9, AcceptPreserves
<1>11. m = Recorded(l, v) /\ v.batch = b
  BY <1>1, <1>3 DEF AcceptResult
<1> DEFINE new == Revised(l, v)
<1>12. /\ Len(new) = n /\ new[n] = v
       /\ \A i \in 1..Len(chain) : new[i] = [chain[i] EXCEPT !.status = "superseded"]
  <2>1. v.batch = b /\ l \in Ledger /\ ValidLedger(l) /\ v \in NewVerdict /\ IsNew(l, v)
    BY <1>2, <1>3, <1>9, <1>11
  <2> HIDE DEF v
  <2> QED BY <2>1, RevisedChain
<1>13. /\ m.verdicts[b] = new /\ \A c \in Batch \ {b} : m.verdicts[c] = l.verdicts[c]
       /\ m.batches[b].status = "accepted"
       /\ \A c \in Batch \ {b} : m.batches[c] = l.batches[c]
  <2> DEFINE B == [l.batches EXCEPT ![b].status = "accepted"]
             V == [l.verdicts EXCEPT ![b] = new]
             E == [a \in Atom |-> IF BatchOf[a] = b
                     THEN [l.entries[a] EXCEPT !.status = "accepted", !.effective = v.id,
                                               !.revisions = RevisionIds(l, v)]
                     ELSE l.entries[a]]
  <2>1. m = [l EXCEPT !.batches = B, !.verdicts = V, !.entries = E]
    BY <1>11 DEF Recorded
  <2>2. B[b].status = "accepted" /\ \A c \in Batch \ {b} : B[c] = l.batches[c]
    BY <1>2, StatusUpdate DEF BatchStates
  <2>3. V[b] = new /\ \A c \in Batch \ {b} : V[c] = l.verdicts[c]
    BY <1>2 DEF Ledger
  <2> HIDE DEF B, V, E, m, new
  <2>4. m.batches = B /\ m.verdicts = V
    BY <1>2, <2>1 DEF Ledger
  <2> QED BY <2>2, <2>3, <2>4
<1>14. Traced(m)
  <2> SUFFICES ASSUME NEW c \in Batch
               PROVE  /\ Len(m.verdicts[c]) <= MaxRevisions
                      /\ \A i \in 1..Len(m.verdicts[c]) :
                           LET w == m.verdicts[c][i]
                           IN w.id \in Identities[i] /\ w.id = <<c, w.decisions, w.supersedes>>
    BY DEF Traced
  <2>1. CASE c # b
    BY <1>13, <2>1 DEF WellKept, Traced
  <2>2. CASE c = b
    <3>1. ASSUME NEW i \in 1..n
          PROVE  new[i].id \in Identities[i]
                 /\ new[i].id = <<b, new[i].decisions, new[i].supersedes>>
      <4>1. CASE i = n
        <5>1. v.id \in Identities[n] /\ v.id = <<b, v.decisions, v.supersedes>>
          BY <1>1, <1>6
        <5>2. new[i] = v
          BY <1>12, <4>1
        <5> HIDE DEF new, m, v, n
        <5> QED BY <4>1, <5>1, <5>2
      <4>2. CASE i # n
        <5>1. i \in 1..Len(chain) /\ chain[i] \in Verdict
          BY <1>2, <4>2
        <5>2. new[i] = [chain[i] EXCEPT !.status = "superseded"]
          BY <1>12, <5>1
        <5>3. /\ new[i].id = chain[i].id /\ new[i].decisions = chain[i].decisions
              /\ new[i].supersedes = chain[i].supersedes
          <6> HIDE DEF new
          <6> QED BY <5>1, <5>2 DEF Verdict
        <5> QED BY <5>1, <5>3 DEF WellKept, Traced
      <4> QED BY <4>1, <4>2
    <3> HIDE DEF new, m, v
    <3> QED BY <1>5, <1>12, <1>13, <2>2, <3>1
  <2> QED BY <2>1, <2>2
<1>15. Offered(m) = Offered(l) \ {b}
  <2> HIDE DEF m
  <2> QED BY <1>13 DEF Offered
<1> QED BY <1>9, <1>10, <1>14, <1>15 DEF WellKept

\* A ledger whose chains are the old one's is traced as that one was.
LEMMA SameChains ==
  ASSUME NEW l, Traced(l), NEW m, m.verdicts = l.verdicts
  PROVE  Traced(m)
BY DEF Traced

LEMMA OfferKeeps ==
  ASSUME NEW l, WellKept(l), NEW b \in Batch, CanOffer(l, b)
  PROVE  LET m == OfferResult(l, b)
         IN /\ WellKept(m) /\ m.terminal = None /\ m.verdicts = l.verdicts
            /\ m.batches[b].status = "offered" /\ Offered(m) = Offered(l) \cup {b}
<1> DEFINE m == OfferResult(l, b)
           B == [l.batches EXCEPT ![b].status = "offered"]
           E == [a \in Atom |-> IF BatchOf[a] = b
                   THEN [l.entries[a] EXCEPT !.status = "offered"] ELSE l.entries[a]]
<1>1. l \in Ledger /\ ValidLedger(l) /\ Traced(l) /\ l.terminal = None
  BY DEF WellKept, CanOffer
<1>2. m = [l EXCEPT !.batches = B, !.entries = E]
  BY DEF OfferResult
<1>3. m \in Ledger /\ ValidLedger(m)
  BY <1>1, OfferPreserves
<1>4. B[b].status = "offered" /\ \A c \in Batch \ {b} : B[c] = l.batches[c]
  BY <1>1, StatusUpdate, ZenonT(60) DEF BatchStates
<1> HIDE DEF B, E, m
<1>5. m.batches = B /\ m.verdicts = l.verdicts /\ m.terminal = l.terminal
  BY <1>1, <1>2 DEF Ledger
<1>6. Offered(m) = Offered(l) \cup {b}
  BY <1>4, <1>5 DEF Offered
<1>7. WellKept(m) /\ m.terminal = None /\ m.verdicts = l.verdicts
      /\ m.batches[b].status = "offered" /\ Offered(m) = Offered(l) \cup {b}
  BY <1>1, <1>3, <1>4, <1>5, <1>6, SameChains DEF WellKept
<1> QED BY <1>7 DEF m

LEMMA BlockKeeps ==
  ASSUME NEW l, WellKept(l), NEW b \in Batch, NEW r \in Reason, CanBlock(l, b, r)
  PROVE  LET m == BlockResult(l, b, r)
         IN /\ WellKept(m) /\ m.terminal = None /\ m.verdicts = l.verdicts
            /\ Offered(m) = Offered(l) \ {b}
            /\ \A c \in Batch \ {b} : m.batches[c] = l.batches[c]
<1> DEFINE m == BlockResult(l, b, r)
           B == [l.batches EXCEPT ![b] = [status |-> "blocked", reason |-> r]]
           E == [a \in Atom |-> IF BatchOf[a] = b
                   THEN [l.entries[a] EXCEPT !.status = "blocked", !.reason = r]
                   ELSE l.entries[a]]
<1>1. l \in Ledger /\ ValidLedger(l) /\ Traced(l) /\ l.terminal = None
  BY DEF WellKept, CanBlock
<1>2. m = [l EXCEPT !.batches = B, !.entries = E]
  BY DEF BlockResult
<1>3. m \in Ledger /\ ValidLedger(m)
  BY <1>1, BlockPreserves
<1>4. B[b].status = "blocked" /\ \A c \in Batch \ {b} : B[c] = l.batches[c]
  BY <1>1 DEF Ledger
<1> HIDE DEF B, E, m
<1>5. m.batches = B /\ m.verdicts = l.verdicts /\ m.terminal = l.terminal
  BY <1>1, <1>2 DEF Ledger
<1>6. Offered(m) = Offered(l) \ {b}
  BY <1>4, <1>5 DEF Offered
<1>7. WellKept(m) /\ m.terminal = None /\ m.verdicts = l.verdicts
      /\ Offered(m) = Offered(l) \ {b}
      /\ \A c \in Batch \ {b} : m.batches[c] = l.batches[c]
  BY <1>1, <1>3, <1>4, <1>5, <1>6, SameChains DEF WellKept
<1> QED BY <1>7 DEF m

LEMMA FinalizeKeeps ==
  ASSUME NEW l, WellKept(l), NEW s \in TerminalStates, CanFinalize(l, s)
  PROVE  LET m == FinalizeResult(l, s) IN WellKept(m) /\ Offered(m) = {}
<1> DEFINE m == FinalizeResult(l, s)
           B == [b \in Batch |-> [status |-> "terminal", reason |-> None]]
<1>1. l \in Ledger /\ ValidLedger(l) /\ Traced(l)
  BY DEF WellKept
<1>2. m = [l EXCEPT !.batches = B, !.terminal = s]
  BY DEF FinalizeResult
<1>3. m \in Ledger /\ ValidLedger(m)
  BY <1>1, FinalizePreserves
<1>4. \A b \in Batch : B[b].status = "terminal"
  OBVIOUS
<1> HIDE DEF B, m
<1>5. m.batches = B /\ m.verdicts = l.verdicts
  BY <1>1, <1>2 DEF Ledger
<1>6. WellKept(m) /\ Offered(m) = {}
  BY <1>1, <1>3, <1>4, <1>5, SameChains DEF WellKept, Offered
<1> QED BY <1>6 DEF m

-----------------------------------------------------------------------------
(* The steps of the coordinator *)

LEMMA BindingIsTask ==
  ASSUME NEW l, WellKept(l), NEW b \in Batch
  PROVE  LET task == Binding(l, b)
         IN /\ task \in Task /\ task.batch = b
            /\ task.supersedes = LatestId(l.verdicts[b])
<1>1. /\ Binding(l, b) = [batch |-> b, supersedes |-> LatestId(l.verdicts[b])]
      /\ LatestId(l.verdicts[b]) \in SubmissionId \cup {None}
  BY EffectiveIsLatest DEF WellKept
<1> QED BY <1>1 DEF Task

\* A task that is handed out is about the batch it was made for; one that does
\* not fit changes nothing.
LEMMA ActivateCoordinated ==
  ASSUME Coordinated, Running, ledger' # None, WellKept(ledger'), Single(ledger'),
         NEW b \in Batch, Activate(ledger', b),
         ledger'.terminal = None, Offered(ledger') \subseteq {b},
         ledger'.batches[b].status \in {"offered", "accepted"},
         active # None => Holding(ledger', active),
         UNCHANGED <<oversized, up, sent, crashes>>
  PROVE  Coordinated'
<1> DEFINE l == ledger'
           task == Binding(l, b)
<1>1. task \in Task /\ task.batch = b /\ task.supersedes = LatestId(l.verdicts[b])
  <2> HIDE DEF l
  <2>1. WellKept(l)
    BY DEF l
  <2> QED BY <2>1, BindingIsTask
<1>2. TypeOK /\ up
  BY DEF Coordinated, Running
<1> HIDE DEF task
<1>3. (active' = active /\ shown' = shown) \/ (active' = task /\ shown' = task)
  BY DEF Activate, task
<1>4. TypeOK'
  BY <1>1, <1>2, <1>3 DEF TypeOK, WellKept
<1>5. active' # None => Holding(ledger', active')
  BY <1>1, <1>3 DEF Holding
<1> QED BY <1>2, <1>4, <1>5 DEF Coordinated, Holding

\* Whatever else changes the ledger of a live coordinator drops its task, or
\* leaves it one that can be answered.
LEMMA LedgerCoordinated ==
  ASSUME Coordinated, Running, ledger' # None, WellKept(ledger'), Single(ledger'),
         active' = None \/ (active' = active /\ (active # None => Holding(ledger', active))),
         UNCHANGED <<oversized, up, shown, sent, crashes>>
  PROVE  Coordinated'
<1>1. TypeOK' /\ up'
  BY DEF Coordinated, TypeOK, Running, WellKept
<1> QED BY <1>1 DEF Coordinated, Holding

LEMMA NextTaskCoordinated ==
  ASSUME Coordinated, NextTask
  PROVE  Coordinated'
<1>1. /\ Running /\ ledger.terminal = None /\ ledger # None
      /\ WellKept(ledger) /\ Single(ledger) /\ UNCHANGED <<oversized, up, sent, crashes>>
  BY DEF NextTask, Running, Coordinated
<1>2. CASE active # None /\ Activate(ledger, active.batch) /\ ledger' = ledger
  <2>1. active.batch \in Batch /\ Holding(ledger, active)
    BY <1>2 DEF Coordinated, TypeOK, Task
  <2>2. Activate(ledger', active.batch)
    BY <1>2 DEF Activate
  <2> QED BY <1>1, <1>2, <2>1, <2>2, ActivateCoordinated DEF Holding
<1>3. CASE /\ active = None /\ ledger' = ledger
           /\ \E b \in Offered(ledger) : Offered(ledger) = {b} /\ Activate(ledger, b)
  <2>1. PICK b \in Offered(ledger) : Offered(ledger) = {b} /\ Activate(ledger, b)
    BY <1>3
  <2>2. b \in Batch /\ ledger.batches[b].status = "offered"
    BY DEF Offered
  <2>3. Activate(ledger', b)
    BY <1>3, <2>1 DEF Activate
  <2> QED BY <1>1, <1>3, <2>1, <2>2, <2>3, ActivateCoordinated
<1>4. CASE /\ active = None /\ Offered(ledger) = {} /\ PlannedBatches(ledger) # {}
           /\ LET b == Min(PlannedBatches(ledger))
              IN ledger' = OfferResult(ledger, b) /\ Activate(ledger', b)
  <2> DEFINE b == Min(PlannedBatches(ledger))
  <2>1. b \in PlannedBatches(ledger)
    <3>1. PlannedBatches(ledger) \in SUBSET Nat
      BY PlanAssumption DEF PlannedBatches, Batch
    <3> QED BY <1>4, <3>1, MinOfNats
  <2>2. b \in Batch /\ CanOffer(ledger, b)
    BY <1>1, <2>1 DEF PlannedBatches, CanOffer
  <2> HIDE DEF b
  <2>3. ledger' = OfferResult(ledger, b) /\ Activate(ledger', b)
    BY <1>4 DEF b
  <2>4. /\ WellKept(ledger') /\ ledger'.terminal = None
        /\ ledger'.batches[b].status = "offered" /\ Offered(ledger') = {b}
    BY <1>1, <1>4, <2>2, <2>3, OfferKeeps
  <2>5. ledger' # None /\ Single(ledger')
    BY <2>4, CoordinatorAssumption DEF WellKept, Single
  <2> QED BY <1>1, <1>4, <2>2, <2>3, <2>4, <2>5, ActivateCoordinated
<1> QED BY <1>2, <1>3, <1>4 DEF NextTask

\* The task an answer is bound to, held or recovered from the ledger.
LEMMA CurrentTask ==
  ASSUME Coordinated, Running, CurrentBinding # None
  PROVE  /\ CurrentBinding \in Task /\ Offered(ledger) \subseteq {CurrentBinding.batch}
         /\ ledger.batches[CurrentBinding.batch].status \in {"offered", "accepted"}
         /\ CurrentBinding.supersedes = LatestId(ledger.verdicts[CurrentBinding.batch])
         /\ ledger.terminal = None
<1>1. WellKept(ledger) /\ ledger # None /\ TypeOK
  BY DEF Coordinated, Running
<1>2. CASE active # None
  <2>1. CurrentBinding = active
    BY <1>2 DEF CurrentBinding
  <2> QED BY <1>1, <1>2, <2>1 DEF Coordinated, Holding, TypeOK
<1>3. CASE active = None
  <2> DEFINE b == CHOOSE c \in Offered(ledger) : TRUE
  <2>1. Cardinality(Offered(ledger)) = 1 /\ CurrentBinding = Binding(ledger, b)
    BY <1>3 DEF CurrentBinding
  <2>2. Offered(ledger) # {} /\ \A c, d \in Offered(ledger) : c = d
    <3>1. Offered(ledger) # {}
      BY <2>1, FS_EmptySet
    <3> QED BY <1>1, <3>1 DEF Coordinated, Single
  <2>3. b \in Offered(ledger) /\ Offered(ledger) \subseteq {b}
    BY <2>2
  <2>4. b \in Batch /\ ledger.batches[b].status = "offered"
    BY <2>3 DEF Offered
  <2> HIDE DEF b
  <2>5. ledger.terminal = None
    <3>1. ledger.terminal # None => ledger.batches[b].status = "terminal"
      BY <1>1, <2>4 DEF WellKept, ValidLedger, TerminalTruth
    <3> QED BY <2>4, <3>1
  <2> QED BY <1>1, <2>1, <2>3, <2>4, <2>5, BindingIsTask
<1> QED BY <1>2, <1>3

LEMMA SubmitCoordinated ==
  ASSUME Coordinated, NEW m \in sent, Submit(m)
  PROVE  Coordinated'
<1> DEFINE task == CurrentBinding
           b == m.batch
           v == Bind(task, m.decisions)
<1>1. /\ Running /\ ledger # None /\ WellKept(ledger) /\ Single(ledger)
      /\ task # None /\ task.batch = b /\ Len(ledger.verdicts[b]) < MaxRevisions
      /\ ledger' = AcceptResult(ledger, v) /\ active' = None
      /\ UNCHANGED <<oversized, up, shown, sent, crashes>>
  BY DEF Submit, Running, Coordinated
<1>2. /\ task \in Task /\ ledger.batches[b].status \in {"offered", "accepted"}
      /\ task.supersedes = LatestId(ledger.verdicts[b]) /\ ledger.terminal = None
  BY <1>1, CurrentTask
<1>3. b \in Batch /\ m.decisions \in [AtomsOf(b) -> Value]
  BY DEF Coordinated, TypeOK, Message
<1>4. task = [batch |-> b, supersedes |-> LatestId(ledger.verdicts[b])]
  <2> HIDE DEF task
  <2> QED BY <1>1, <1>2 DEF Task
<1> HIDE DEF task
<1>5. WellKept(ledger') /\ Offered(ledger') = Offered(ledger) \ {b}
  BY <1>1, <1>2, <1>3, <1>4, AcceptKeeps
<1>6. ledger' # None /\ Single(ledger')
  BY <1>1, <1>5, CoordinatorAssumption DEF WellKept, Single
<1> QED BY <1>1, <1>5, <1>6, LedgerCoordinated

LEMMA CorrectionCoordinated ==
  ASSUME Coordinated, NEW b \in Batch, CorrectionTask(b)
  PROVE  Coordinated'
<1>1. /\ Running /\ ledger # None /\ ledger' = ledger /\ ledger.terminal = None
      /\ WellKept(ledger) /\ Single(ledger) /\ Offered(ledger) = {}
      /\ ledger.batches[b].status = "accepted" /\ Activate(ledger, b)
      /\ active # None => Holding(ledger, active)
      /\ UNCHANGED <<oversized, up, sent, crashes>>
  BY DEF CorrectionTask, Running, Coordinated
<1>2. Activate(ledger', b)
  BY <1>1 DEF Activate
<1> QED BY <1>1, <1>2, ActivateCoordinated

LEMMA BlockCoordinated ==
  ASSUME Coordinated, Running, NEW b \in Batch, NEW r \in Reason,
         CanBlock(ledger, b, r), ledger' = BlockResult(ledger, b, r),
         \/ active' = None
         \/ active' = active /\ (active # None => active.batch # b),
         UNCHANGED <<oversized, up, shown, sent, crashes>>
  PROVE  Coordinated'
<1>1. ledger # None /\ WellKept(ledger) /\ Single(ledger)
  BY DEF Running, Coordinated
<1>2. /\ WellKept(ledger') /\ ledger'.terminal = None /\ ledger'.verdicts = ledger.verdicts
      /\ Offered(ledger') = Offered(ledger) \ {b}
      /\ \A c \in Batch \ {b} : ledger'.batches[c] = ledger.batches[c]
  BY <1>1, BlockKeeps
<1>3. ledger' # None /\ Single(ledger')
  BY <1>1, <1>2, CoordinatorAssumption DEF WellKept, Single
<1>4. active # None /\ active.batch # b => Holding(ledger', active)
  BY <1>2 DEF Coordinated, TypeOK, Task, Holding
<1> QED BY <1>2, <1>3, <1>4, LedgerCoordinated

LEMMA FinishCoordinated ==
  ASSUME Coordinated, NEW s \in TerminalStates, Finish(s)
  PROVE  Coordinated'
<1>1. /\ Running /\ ledger # None /\ WellKept(ledger) /\ active' = None
      /\ CanFinalize(ledger, s) /\ ledger' = FinalizeResult(ledger, s)
      /\ UNCHANGED <<oversized, up, shown, sent, crashes>>
  BY DEF Finish, Running, Coordinated
<1>2. WellKept(ledger') /\ Offered(ledger') = {}
  BY <1>1, FinalizeKeeps
<1>3. ledger' # None /\ Single(ledger')
  BY <1>2, CoordinatorAssumption DEF WellKept, Single
<1> QED BY <1>1, <1>2, <1>3, LedgerCoordinated

LEMMA AnswerCoordinated ==
  ASSUME Coordinated, NEW choice \in Decisions, Answer(choice)
  PROVE  Coordinated'
<1> DEFINE m == [batch |-> shown.batch, decisions |-> choice, about |-> shown.supersedes]
<1>1. /\ shown \in Task /\ DOMAIN choice = AtomsOf(shown.batch) /\ sent' = sent \cup {m}
      /\ UNCHANGED <<oversized, ledger, up, active, shown, crashes>>
  BY DEF Answer, Coordinated, TypeOK
<1>2. choice \in [AtomsOf(shown.batch) -> Value]
  BY <1>1 DEF Decisions
<1>3. m \in Message /\ m.decisions = choice /\ m.batch = shown.batch
  BY <1>1 DEF Message, Task
<1> HIDE DEF m
<1> QED BY <1>1, <1>2, <1>3 DEF Coordinated, TypeOK, Holding

LEMMA StartCoordinated ==
  ASSUME Coordinated, Start
  PROVE  Coordinated'
<1>1. /\ ledger' = Planned /\ active = None
      /\ UNCHANGED <<oversized, up, active, shown, sent, crashes>>
  BY DEF Start, Coordinated
<1>2. Planned \in Ledger /\ ValidLedger(Planned)
  BY PlannedIsValid
<1>3. Traced(Planned) /\ Single(Planned)
  BY CoordinatorAssumption DEF Planned, Traced, Single, Offered
<1> QED BY <1>1, <1>2, <1>3 DEF Coordinated, TypeOK, WellKept

LEMMA CoordinatedInit == Init => Coordinated
BY CoordinatorAssumption DEF Init, Coordinated, TypeOK

LEMMA CoordinatedStep == Coordinated /\ [Next]_vars => Coordinated'
<1> SUFFICES ASSUME Coordinated, [Next]_vars PROVE Coordinated'
  OBVIOUS
<1>1. CASE Crash
  <2>1. crashes' \in 0..MaxCrashes
    BY <1>1, CoordinatorAssumption DEF Crash, Coordinated, TypeOK
  <2> QED BY <1>1, <2>1 DEF Crash, Coordinated, TypeOK
<1>2. CASE Restore
  BY <1>2 DEF Restore, Coordinated, TypeOK, Holding
<1>3. ASSUME NEW r \in Reason, BlockCurrent(r) PROVE Coordinated'
  <2>1. PICK b \in Offered(ledger) :
          CanBlock(ledger, b, r) /\ ledger' = BlockResult(ledger, b, r)
    BY <1>3 DEF BlockCurrent
  <2>2. b \in Batch
    BY DEF Offered
  <2> QED BY <1>3, <2>1, <2>2, BlockCoordinated DEF BlockCurrent
<1>4. ASSUME NEW b \in Batch, NEW r \in Reason, Block(b, r) PROVE Coordinated'
  BY <1>4, BlockCoordinated DEF Block
<1>5. CASE UNCHANGED vars
  BY <1>5 DEF vars, Coordinated, TypeOK, Holding
<1> QED BY <1>1, <1>2, <1>3, <1>4, <1>5, StartCoordinated, NextTaskCoordinated,
           SubmitCoordinated, CorrectionCoordinated, FinishCoordinated, AnswerCoordinated
        DEF Next

LEMMA AlwaysCoordinated == Spec => []Coordinated
BY CoordinatedInit, CoordinatedStep, PTL DEF Spec

-----------------------------------------------------------------------------
\* next_task, submit, block and restore: through any answers, corrections and
\* crashes the Agent has one batch at a time, and a task held in memory is that
\* batch's, or corrects the decision that stands.
THEOREM OneTaskAtATime == Spec => []TaskIsCurrent
<1>1. Coordinated => TaskIsCurrent
  <2> SUFFICES ASSUME Coordinated PROVE TaskIsCurrent
    OBVIOUS
  <2>1. ASSUME ledger # None PROVE Cardinality(Offered(ledger)) <= 1
    <3>1. CASE Offered(ledger) = {}
      BY <3>1, FS_EmptySet
    <3>2. CASE Offered(ledger) # {}
      <4>1. PICK b \in Offered(ledger) : TRUE
        BY <3>2
      <4>2. Offered(ledger) = {b}
        BY <2>1, <4>1 DEF Coordinated, Single
      <4>3. Cardinality({b}) = 1
        BY FS_Singleton
      <4> QED BY <4>2, <4>3
    <3> QED BY <3>1, <3>2
  <2> QED BY <2>1 DEF Coordinated, Holding, TaskIsCurrent
<1> QED BY <1>1, AlwaysCoordinated, PTL

\* ReviewTaskBinding.bind and CoverageLedger.accept: whatever happened since a
\* task was issued, a complete answer to the current task has a new identity and
\* is one the ledger takes.
THEOREM CurrentAnswerFits == Spec => []CurrentAnswerIsAcceptable
<1>1. Coordinated => CurrentAnswerIsAcceptable
  <2> SUFFICES ASSUME Coordinated, Running, CurrentBinding # None,
                      NEW choice \in [AtomsOf(CurrentBinding.batch) -> Value]
               PROVE  LET v == Bind(CurrentBinding, choice)
                      IN Stored(ledger, v.id) = {} /\ CanAccept(ledger, v)
    BY DEF CurrentAnswerIsAcceptable
  <2> DEFINE task == CurrentBinding
             b == task.batch
  <2>1. /\ task \in Task /\ ledger.batches[b].status \in {"offered", "accepted"}
        /\ task.supersedes = LatestId(ledger.verdicts[b]) /\ ledger.terminal = None
    BY CurrentTask
  <2>2. WellKept(ledger)
    BY DEF Coordinated, Running
  <2> HIDE DEF task
  <2>3. task = [batch |-> b, supersedes |-> LatestId(ledger.verdicts[b])] /\ b \in Batch
    BY <2>1 DEF Task
  <2> QED BY <2>1, <2>2, <2>3, AnswerFits DEF task
<1> QED BY <1>1, AlwaysCoordinated, PTL

-----------------------------------------------------------------------------
(* The promise of IncrementalReview: whatever the Agent answers, and whenever  *)
(* the process dies, the coordinator moves the ledger as IncrementalReview     *)
(* lets anybody move it, and by no other way.                                  *)

\* The durable ledger; before start() has stored one, the plan it is to store.
Durable == IF ledger = None THEN Planned ELSE ledger

Review == INSTANCE IncrementalReview WITH ledger <- Durable

\* The instance's transitions are the ledger's own.
LEMMA SameOffer ==
  ASSUME NEW l, NEW b
  PROVE  Review!CanOffer(l, b) = CanOffer(l, b) /\ Review!OfferResult(l, b) = OfferResult(l, b)
BY DEF CanOffer, OfferResult, Review!CanOffer, Review!OfferResult

\* Blocking means the same in both.
LEMMA SameBlock ==
  ASSUME NEW l, NEW b, NEW r
  PROVE  Review!CanBlock(l, b, r) = CanBlock(l, b, r) /\ Review!BlockResult(l, b, r) = BlockResult(l, b, r)
BY DEF CanBlock, BlockResult, Review!CanBlock, Review!BlockResult

\* Finalizing means the same in both.
LEMMA SameFinalize ==
  ASSUME NEW l, NEW s
  PROVE  Review!CanFinalize(l, s) = CanFinalize(l, s) /\ Review!FinalizeResult(l, s) = FinalizeResult(l, s)
BY DEF CanFinalize, FinalizeResult, Review!CanFinalize, Review!FinalizeResult, Batch, Review!Batch

\* The plan, its batches and the verdicts are the same in both.
LEMMA SamePlan == Review!Planned = Planned /\ Review!Batch = Batch /\ Review!NewVerdict = NewVerdict
  /\ Review!TerminalStates = TerminalStates
BY DEF Planned, Review!Planned, Batch, Review!Batch, NewVerdict, Review!NewVerdict, Verdict, Review!Verdict,
  Decisions, Review!Decisions, TerminalStates, Review!TerminalStates

\* Accepting means the same in both.
LEMMA SameAccept ==
  ASSUME NEW l, NEW v
  PROVE  Review!CanAccept(l, v) = CanAccept(l, v) /\ Review!AcceptResult(l, v) = AcceptResult(l, v)
BY DEF CanAccept, Review!CanAccept, AcceptResult, Review!AcceptResult,
  Recorded, Review!Recorded, Stored, Review!Stored, IsReplay, Review!IsReplay, IsNew, Review!IsNew,
  IsInitial, IsCorrection, Review!IsInitial, Review!IsCorrection, SameContent, Review!SameContent,
  AtomsOf, Review!AtomsOf, EffectiveIds, Review!EffectiveIds, Revised, Review!Revised, RevisionIds, Review!RevisionIds,
  Batch, Review!Batch

\* What the transitions of the review are, of the ledger on disk.
LEMMA ReviewActions ==
  /\ \A b : Review!OfferBatch(b) <=> CanOffer(Durable, b) /\ Durable' = OfferResult(Durable, b)
  /\ \A v : Review!Accept(v) <=> CanAccept(Durable, v) /\ Durable' = AcceptResult(Durable, v)
  /\ \A b, r : Review!Block(b, r) <=> CanBlock(Durable, b, r) /\ Durable' = BlockResult(Durable, b, r)
  /\ \A s : Review!Finalize(s) <=> CanFinalize(Durable, s) /\ Durable' = FinalizeResult(Durable, s)
<1>1. ASSUME NEW b
      PROVE  Review!OfferBatch(b) <=> CanOffer(Durable, b) /\ Durable' = OfferResult(Durable, b)
  <2>1. Review!OfferBatch(b) <=> Review!CanOffer(Durable, b) /\ Durable' = Review!OfferResult(Durable, b)
    BY DEF Review!OfferBatch, Durable
  <2> QED BY <2>1, SameOffer
<1>2. ASSUME NEW v
      PROVE  Review!Accept(v) <=> CanAccept(Durable, v) /\ Durable' = AcceptResult(Durable, v)
  <2>1. Review!Accept(v) <=> Review!CanAccept(Durable, v) /\ Durable' = Review!AcceptResult(Durable, v)
    BY DEF Review!Accept, Durable
  <2> QED BY <2>1, SameAccept
<1>3. ASSUME NEW b, NEW r
      PROVE  Review!Block(b, r) <=> CanBlock(Durable, b, r) /\ Durable' = BlockResult(Durable, b, r)
  <2>1. Review!Block(b, r) <=> Review!CanBlock(Durable, b, r) /\ Durable' = Review!BlockResult(Durable, b, r)
    BY DEF Review!Block, Durable
  <2> QED BY <2>1, SameBlock
<1>4. ASSUME NEW s
      PROVE  Review!Finalize(s) <=> CanFinalize(Durable, s) /\ Durable' = FinalizeResult(Durable, s)
  <2>1. Review!Finalize(s) <=> Review!CanFinalize(Durable, s) /\ Durable' = Review!FinalizeResult(Durable, s)
    BY DEF Review!Finalize, Durable
  <2> QED BY <2>1, SameFinalize
<1> QED BY <1>1, <1>2, <1>3, <1>4

\* submit() hands accept() a verdict that BatchVerdict allows.
LEMMA SubmitAccepts ==
  ASSUME Coordinated, NEW m \in sent, Submit(m)
  PROVE  \E v \in NewVerdict : CanAccept(ledger, v) /\ ledger' = AcceptResult(ledger, v)
<1> DEFINE task == CurrentBinding
           b == m.batch
           v == Bind(task, m.decisions)
<1>1. /\ Running /\ WellKept(ledger) /\ task # None /\ task.batch = b
      /\ Len(ledger.verdicts[b]) < MaxRevisions
      /\ CanAccept(ledger, v) /\ ledger' = AcceptResult(ledger, v)
  BY DEF Submit, Running, Coordinated
<1>2. /\ task \in Task /\ ledger.batches[b].status \in {"offered", "accepted"}
      /\ task.supersedes = LatestId(ledger.verdicts[b]) /\ ledger.terminal = None
  BY <1>1, CurrentTask
<1>3. b \in Batch /\ m.decisions \in [AtomsOf(b) -> Value]
  BY DEF Coordinated, TypeOK, Message
<1>4. task = [batch |-> b, supersedes |-> LatestId(ledger.verdicts[b])]
  <2> HIDE DEF task
  <2> QED BY <1>1, <1>2 DEF Task
<1> HIDE DEF task
<1>5. v \in NewVerdict
  BY <1>1, <1>2, <1>3, <1>4, AcceptKeeps
<1> HIDE DEF v
<1> QED BY <1>1, <1>5

\* Every step is one transition of the review or none.
LEMMA StepIsTransition ==
  ASSUME Coordinated, Next PROVE Review!Next \/ Durable' = Durable
<1>1. ASSUME ledger' = ledger PROVE Durable' = Durable
  BY <1>1 DEF Durable
<1>2. ASSUME Running, ledger' # None PROVE Durable = ledger /\ Durable' = ledger'
  BY <1>2 DEF Durable, Running
<1>3. Coordinated'
  BY CoordinatedStep
<1>4. CASE Start
  BY <1>4 DEF Start, Durable
<1>5. CASE Crash \/ Restore \/ (\E choice \in Decisions : Answer(choice))
  BY <1>1, <1>5 DEF Crash, Restore, Answer
<1>6. ASSUME NEW b \in Batch, CorrectionTask(b) PROVE Durable' = Durable
  BY <1>1, <1>6 DEF CorrectionTask
<1>7. CASE NextTask
  <2>1. CASE ledger' = ledger
    BY <1>1, <2>1
  <2>2. CASE ledger' # ledger
    <3> DEFINE b == Min(PlannedBatches(ledger))
    <3>1. /\ Running /\ ledger.terminal = None /\ Offered(ledger) = {}
          /\ PlannedBatches(ledger) # {} /\ ledger' = OfferResult(ledger, b)
      BY <1>7, <2>2 DEF NextTask
    <3>2. b \in PlannedBatches(ledger)
      <4>1. PlannedBatches(ledger) \in SUBSET Nat
        BY PlanAssumption DEF PlannedBatches, Batch
      <4> QED BY <3>1, <4>1, MinOfNats
    <3> HIDE DEF b
    <3>3. b \in Batch /\ CanOffer(ledger, b)
      BY <3>1, <3>2 DEF PlannedBatches, Offered, CanOffer
    <3>4. OfferResult(ledger, b) # None
      BY <3>1, <3>3, OfferKeeps, CoordinatorAssumption DEF WellKept, Coordinated, Running
    <3>5. Review!OfferBatch(b)
      BY <1>2, <3>1, <3>3, <3>4, ReviewActions
    <3> QED BY <3>3, <3>5, SamePlan DEF Review!Next
  <2> QED BY <2>1, <2>2
<1>8. ASSUME NEW m \in sent, Submit(m) PROVE Review!Next
  <2>1. PICK v \in NewVerdict : CanAccept(ledger, v) /\ ledger' = AcceptResult(ledger, v)
    BY <1>8, SubmitAccepts
  <2>2. Running /\ ledger' # None
    <3>1. Running /\ WellKept(ledger) /\ v \in NewVerdict
      BY <1>8, <2>1 DEF Submit, Coordinated, Running
    <3>2. AcceptResult(ledger, v) \in Ledger
      BY <2>1, <3>1, AcceptPreserves DEF WellKept
    <3> QED BY <2>1, <3>1, <3>2, CoordinatorAssumption
  <2>3. Review!Accept(v)
    BY <1>2, <2>1, <2>2, ReviewActions
  <2> QED BY <2>3, SamePlan DEF Review!Next
<1>9. ASSUME NEW b \in Batch, NEW r \in Reason, Running, CanBlock(ledger, b, r),
             ledger' = BlockResult(ledger, b, r)
      PROVE  Review!Next
  <2>1. ledger' # None
    BY <1>9, BlockKeeps, CoordinatorAssumption DEF WellKept, Coordinated, Running
  <2>2. Review!Block(b, r)
    BY <1>2, <1>9, <2>1, ReviewActions
  <2> QED BY <2>2, SamePlan DEF Review!Next
<1>10. ASSUME NEW r \in Reason, BlockCurrent(r) PROVE Review!Next
  <2>1. PICK b \in Offered(ledger) : /\ CanBlock(ledger, b, r)
                                     /\ ledger' = BlockResult(ledger, b, r)
    BY <1>10 DEF BlockCurrent
  <2>2. b \in Batch /\ Running
    BY <1>10 DEF Offered, BlockCurrent
  <2> QED BY <1>9, <2>1, <2>2
<1>11. ASSUME NEW b \in Batch, NEW r \in Reason, Block(b, r) PROVE Review!Next
  BY <1>9, <1>11 DEF Block
<1>12. ASSUME NEW s \in TerminalStates, Finish(s) PROVE Review!Next
  <2>1. Running /\ CanFinalize(ledger, s) /\ ledger' = FinalizeResult(ledger, s)
    BY <1>12 DEF Finish
  <2>2. ledger' # None
    BY <2>1, FinalizeKeeps, CoordinatorAssumption DEF WellKept, Coordinated, Running
  <2>3. Review!Finalize(s)
    BY <1>2, <2>1, <2>2, ReviewActions
  <2> QED BY <2>3, SamePlan DEF Review!Next
<1> QED BY <1>4, <1>5, <1>6, <1>7, <1>8, <1>10, <1>11, <1>12 DEF Next

\* IncrementalReviewCoordinator implements IncrementalReview: with any answers, late,
\* repeated or meant for another task, and any deaths between its steps, the ledger it
\* stores moves by one legal transition at a time and is never gone once start() stored it.
THEOREM CoordinatorImplementsReview == Spec => Review!Spec
<1>1. Init => Review!Init
  BY SamePlan DEF Init, Review!Init, Durable
<1>2. Coordinated /\ [Next]_vars => [Review!Next]_Durable
  <2>1. UNCHANGED vars => Durable' = Durable
    BY DEF vars, Durable
  <2> QED BY <2>1, StepIsTransition
<1> QED BY <1>1, <1>2, AlwaysCoordinated, PTL DEF Spec, Review!Spec
=============================================================================
