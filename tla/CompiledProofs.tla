--------------------------- MODULE CompiledProofs ---------------------------
(***************************************************************************)
(* What holds of a compiled plugin contract where it is used and where it is *)
(* kept: of the Runs that an Agent takes through MCP (CompiledRun), for any *)
(* number of Runs, sources, versions and batches; and of the plugin store and *)
(* those who change it (PluginChange), for any versions, catalogs and actors. *)
(***************************************************************************)
EXTENDS CompiledRun, PluginChange, CoverageLedgerProofs

\* The parts of a Run agree on what was discovered.
AgreeOnDiscovery(m) ==
  /\ m.workItems # None => m.discoveries # None /\ m.workItems = m.discoveries
  /\ m.collections # None \/ m.coverage # None => m.workItems # None

\* A Run in memory has what the store has, and the snapshots of its first discovery.
Linked(r) == memory[r] # None =>
  /\ r \in begun
  /\ memory[r].coverage = disk[r]
  /\ memory[r].discoveries = pinned[r]
  /\ AgreeOnDiscovery(memory[r])

Fresh(r) == r \notin begun => pinned[r] = None /\ disk[r] = None

Judged(l, p) ==
  \A b \in Batch : \A i \in 1..Len(l.verdicts[b]) :
    \A s \in DOMAIN l.verdicts[b][i].decisions :
      l.verdicts[b][i].decisions[s].state \in NeedsEvidence =>
        l.verdicts[b][i].decisions[s].evidence = p[s]

Stands(r) == disk[r] # None => ValidLedger(disk[r]) /\ Judged(disk[r], pinned[r])

IInv == /\ TypeOK
        /\ \A r \in Run : Linked(r) /\ Fresh(r) /\ Stands(r)
        /\ UnfinishedIsActive

\* Discovering again, whatever the sources have become, is discovering what
\* was discovered first (the cache of discover_sources).
LEMMA DiscoveredOnce ==
  ASSUME NEW m \in RunState, world \in Snapshots
  PROVE  /\ Discovered(m) \in Snapshots
         /\ Discovered(m) # None
         /\ m.discoveries # None => Discovered(m) = m.discoveries
BY RunAssumption DEF Discovered, RunState, Snapshots

\* What discover and collect do to a Run: the plan is left alone, and its
\* parts still agree on what was discovered.
Gathers(m, n) ==
  /\ n \in RunState
  /\ n.coverage = m.coverage
  /\ n.discoveries = Discovered(m)
  /\ AgreeOnDiscovery(n)

LEMMA DiscoverGathers ==
  ASSUME NEW m \in RunState, world \in Snapshots, AgreeOnDiscovery(m)
  PROVE  Gathers(m, [m EXCEPT !.discoveries = Discovered(m), !.workItems = Discovered(m)])
<1> DEFINE d == Discovered(m)
           n == [m EXCEPT !.discoveries = d, !.workItems = d]
<1>1. d \in Snapshots /\ d # None
  BY DiscoveredOnce
<1> HIDE DEF d
<1>2. n \in RunState /\ n.coverage = m.coverage /\ n.discoveries = d /\ n.workItems = d
  BY <1>1 DEF RunState
<1> QED BY <1>1, <1>2 DEF Gathers, AgreeOnDiscovery, d

\* A whole collection fills in the work items and the answers together.
LEMMA CollectedGathers ==
  ASSUME NEW m \in RunState, world \in Snapshots, AgreeOnDiscovery(m), NEW n \in Collected(m)
  PROVE  Gathers(m, n) /\ n.workItems # None
<1> DEFINE d == Discovered(m)
           w == Items(m)
<1>1. d \in Snapshots /\ d # None
  BY DiscoveredOnce
<1>2. w = d
  BY DiscoveredOnce DEF Items, AgreeOnDiscovery
<1>3. PICK f \in Results : n = [m EXCEPT !.discoveries = d, !.workItems = w,
                                         !.results = f, !.collections = f]
  BY DEF Collected
<1> HIDE DEF d, w
<1>4. /\ n \in RunState /\ n.coverage = m.coverage
      /\ n.discoveries = d /\ n.workItems = d
  BY <1>1, <1>2, <1>3 DEF RunState
<1> QED BY <1>1, <1>4 DEF Gathers, AgreeOnDiscovery, d

\* An interrupted one only remembers answers.
LEMMA InterruptedGathers ==
  ASSUME NEW m \in RunState, world \in Snapshots, AgreeOnDiscovery(m), NEW n \in Interrupted(m)
  PROVE  Gathers(m, n)
<1> DEFINE d == Discovered(m)
<1>1. d \in Snapshots /\ d # None /\ (m.discoveries # None => d = m.discoveries)
  BY DiscoveredOnce
<1>2. PICK f \in Results : n = [m EXCEPT !.discoveries = d, !.results = f]
  BY DEF Interrupted
<1> HIDE DEF d
<1>3. /\ n \in RunState /\ n.coverage = m.coverage
      /\ n.discoveries = d /\ n.workItems = m.workItems /\ n.collections = m.collections
  BY <1>1, <1>2 DEF RunState
<1> QED BY <1>1, <1>3 DEF Gathers, AgreeOnDiscovery, d

\* A Run that moves on keeps what its first discovery saw, and no other Run
\* is touched.
LEMMA KeepLinks ==
  ASSUME IInv, NEW r \in Run, memory[r] # None, NEW n \in RunState,
         memory[r].discoveries # None => n.discoveries = memory[r].discoveries,
         AgreeOnDiscovery(n),
         Keep(r, n), begun' = begun, disk' = [disk EXCEPT ![r] = n.coverage]
  PROVE  /\ memory' \in [Run -> RunState \cup {None}]
         /\ disk' \in [Run -> Ledger \cup {None}]
         /\ pinned' \in [Run -> Snapshots \cup {None}]
         /\ disk'[r] = n.coverage
         /\ pinned[r] # None => pinned'[r] = pinned[r]
         /\ pinned'[r] = n.discoveries
         /\ \A q \in Run \ {r} : /\ memory'[q] = memory[q]
                                 /\ disk'[q] = disk[q]
                                 /\ pinned'[q] = pinned[q]
         /\ \A q \in Run : Linked(q)' /\ Fresh(q)'
<1>1. /\ memory \in [Run -> RunState \cup {None}]
      /\ disk \in [Run -> Ledger \cup {None}]
      /\ pinned \in [Run -> Snapshots \cup {None}]
  BY DEF IInv, TypeOK
<1>2. n.coverage \in Ledger \cup {None} /\ n.discoveries \in Snapshots \cup {None}
  BY DEF RunState
<1>3. /\ r \in begun /\ memory[r].discoveries = pinned[r]
  BY DEF IInv, Linked
<1>4. /\ memory' \in [Run -> RunState \cup {None}] /\ memory'[r] = n
      /\ \A q \in Run \ {r} : memory'[q] = memory[q]
  BY <1>1 DEF Keep
<1>5. /\ disk' \in [Run -> Ledger \cup {None}] /\ disk'[r] = n.coverage
      /\ \A q \in Run \ {r} : disk'[q] = disk[q]
  BY <1>1, <1>2
<1>6. /\ pinned' \in [Run -> Snapshots \cup {None}]
      /\ pinned'[r] = IF pinned[r] = None THEN n.discoveries ELSE pinned[r]
      /\ \A q \in Run \ {r} : pinned'[q] = pinned[q]
  BY <1>1, <1>2 DEF Keep
<1>7. pinned'[r] = n.discoveries
  BY <1>3, <1>6
<1>8. Linked(r)' /\ Fresh(r)'
  BY <1>3, <1>4, <1>5, <1>7 DEF Linked, Fresh, AgreeOnDiscovery
<1>9. ASSUME NEW q \in Run \ {r}
      PROVE  Linked(q)' /\ Fresh(q)'
  <2>1. Linked(q) /\ Fresh(q)
    BY DEF IInv
  <2> QED BY <1>4, <1>5, <1>6, <2>1 DEF Linked, Fresh, AgreeOnDiscovery
<1> QED BY <1>4, <1>5, <1>6, <1>7, <1>8, <1>9

-----------------------------------------------------------------------------
\* What a collection or a discovery does to the state.
LEMMA GatheringKeepsIInv ==
  ASSUME IInv, NEW r \in Run, memory[r] # None, NEW n, Gathers(memory[r], n),
         Keep(r, n), UNCHANGED <<world, active, begun, disk>>
  PROVE  IInv'
<1>1. memory[r] \in RunState /\ disk \in [Run -> Ledger \cup {None}] /\ world \in Snapshots
  BY DEF IInv, TypeOK
<1>2. /\ n \in RunState /\ AgreeOnDiscovery(n) /\ n.coverage = memory[r].coverage
      /\ memory[r].discoveries # None => n.discoveries = memory[r].discoveries
  BY <1>1, DiscoveredOnce DEF Gathers
<1>3. memory[r].coverage = disk[r] /\ memory[r].discoveries = pinned[r] /\ AgreeOnDiscovery(memory[r])
  BY DEF IInv, Linked
<1>4. disk' = [disk EXCEPT ![r] = n.coverage]
  BY <1>1, <1>2, <1>3
<1>5. /\ memory' \in [Run -> RunState \cup {None}]
      /\ pinned' \in [Run -> Snapshots \cup {None}]
      /\ pinned[r] # None => pinned'[r] = pinned[r]
      /\ \A q \in Run \ {r} : memory'[q] = memory[q] /\ pinned'[q] = pinned[q]
      /\ \A q \in Run : Linked(q)' /\ Fresh(q)'
  BY <1>2, <1>4, KeepLinks
<1>6. TypeOK'
  BY <1>5 DEF IInv, TypeOK
<1>7. ASSUME NEW q \in Run
      PROVE  Stands(q)'
  <2>1. disk[q] # None => pinned'[q] = pinned[q]
    BY <1>3, <1>5 DEF AgreeOnDiscovery
  <2> QED BY <2>1 DEF IInv, Stands, Judged
<1>8. UnfinishedIsActive'
  <2>1. ASSUME NEW q \in Run, memory'[q] # None PROVE memory[q] # None
    BY <1>5, <2>1
  <2>2. \A q \in Run : memory[q] # None /\ ~(disk[q] # None /\ disk[q].terminal # None) => active = q
    BY DEF IInv, UnfinishedIsActive, Known, Ended
  <2>3. active' = active /\ disk' = disk
    OBVIOUS
  <2> QED BY <2>1, <2>2, <2>3 DEF UnfinishedIsActive, Known, Ended
<1> QED BY <1>5, <1>6, <1>7, <1>8 DEF IInv

\* What a call that saves a ledger does to the state.
LEMMA SavingKeepsIInv ==
  ASSUME IInv, NEW r \in Run, memory[r] # None, NEW n \in RunState,
         memory[r].discoveries # None => n.discoveries = memory[r].discoveries,
         AgreeOnDiscovery(n), Save(r, n), UNCHANGED <<world, begun>>,
         n.coverage # None,
         ValidLedger(n.coverage), Judged(n.coverage, n.discoveries),
         active' \in Run \cup {None},
         \A q \in Run \ {r} : active = q => active' = q,
         n.coverage.terminal # None \/ active' = r
  PROVE  IInv'
<1>1. /\ memory' \in [Run -> RunState \cup {None}]
      /\ disk' \in [Run -> Ledger \cup {None}]
      /\ pinned' \in [Run -> Snapshots \cup {None}]
      /\ disk'[r] = n.coverage
      /\ pinned'[r] = n.discoveries
      /\ \A q \in Run \ {r} : /\ memory'[q] = memory[q]
                              /\ disk'[q] = disk[q]
                              /\ pinned'[q] = pinned[q]
      /\ \A q \in Run : Linked(q)' /\ Fresh(q)'
  BY KeepLinks DEF Save
<1>2. TypeOK'
  BY <1>1 DEF IInv, TypeOK
<1>3. ASSUME NEW q \in Run
      PROVE  Stands(q)'
  <2>1. CASE q = r
    BY <1>1, <2>1 DEF Stands
  <2>2. CASE q # r
    <3>1. Stands(q)
      BY DEF IInv
    <3> QED BY <1>1, <2>2, <3>1 DEF Stands
  <2> QED BY <2>1, <2>2
<1>4. UnfinishedIsActive'
  BY <1>1 DEF IInv, UnfinishedIsActive, Known, Ended
<1> QED BY <1>1, <1>2, <1>3, <1>4 DEF IInv

\* accept() adds at most the submitted decisions to those already stored.
LEMMA AcceptAddsItsDecisions ==
  ASSUME NEW l \in Ledger, ValidLedger(l), NEW v \in NewVerdict, CanAccept(l, v),
         NEW b \in Batch, NEW i \in 1..Len(AcceptResult(l, v).verdicts[b])
  PROVE  LET d == AcceptResult(l, v).verdicts[b][i].decisions
         IN  \/ d = v.decisions
             \/ i \in 1..Len(l.verdicts[b]) /\ d = l.verdicts[b][i].decisions
<1>1. Extends(l.verdicts[b], AcceptResult(l, v).verdicts[b])
  BY AcceptExtends
<1>2. l.verdicts[b] \in Seq(Verdict) /\ Len(l.verdicts[b]) \in Nat
  BY DEF Ledger
<1>3. CASE i <= Len(l.verdicts[b])
  BY <1>1, <1>2, <1>3 DEF Extends, SameContent
<1>4. CASE ~(i <= Len(l.verdicts[b]))
  <2>1. AcceptResult(l, v) # l
    BY <1>2, <1>4
  <2>2. AcceptResult(l, v) = Recorded(l, v) /\ IsNew(l, v)
    BY <2>1 DEF AcceptResult, CanAccept, IsReplay
  <2>3. l.verdicts \in [Batch -> Seq(Verdict)] /\ v.batch \in Batch
    BY DEF Ledger, NewVerdict, Verdict
  <2>4. Recorded(l, v).verdicts = [l.verdicts EXCEPT ![v.batch] = Revised(l, v)]
    BY DEF Recorded, Ledger
  <2>5. b = v.batch /\ AcceptResult(l, v).verdicts[b] = Revised(l, v)
    BY <1>2, <1>4, <2>2, <2>3, <2>4
  <2>6. Len(Revised(l, v)) = Len(l.verdicts[b]) + 1 /\ Revised(l, v)[Len(Revised(l, v))] = v
    BY <2>2, <2>5, RevisedChain
  <2> QED BY <1>2, <1>4, <2>5, <2>6
<1> QED BY <1>3, <1>4

\* Offering a batch stores no verdict and keeps the review open.
LEMMA OfferAddsNothing ==
  ASSUME NEW l \in Ledger, NEW b \in Batch
  PROVE  OfferResult(l, b).verdicts = l.verdicts /\ OfferResult(l, b).terminal = l.terminal
BY DEF OfferResult, Ledger

\* An accepted verdict keeps the review open.
LEMMA AcceptLeavesOpen ==
  ASSUME NEW l \in Ledger, NEW v
  PROVE  AcceptResult(l, v).terminal = l.terminal
BY DEF AcceptResult, Recorded, Ledger

\* submit_review_batch only accepts what rests on the discovered sources.
LEMMA SubmitKeepsIInv ==
  ASSUME IInv, NEW r \in Run, NEW b \in Batch, NEW id \in SubmissionId,
         NEW decisions \in [AtomsOf(b) -> Value], Submit(r, b, id, decisions)
  PROVE  IInv' /\ ~Ended(r) /\ \A q \in Run \ {r} : disk'[q] = disk[q]
<1> DEFINE m == memory[r]
           l == m.coverage
           o == IF l.batches[b].status = "planned" THEN OfferResult(l, b) ELSE l
           v == [id |-> id, batch |-> b, decisions |-> decisions,
                 supersedes |-> None, status |-> "accepted"]
           c == AcceptResult(o, v)
           n == [m EXCEPT !.coverage = c]
<1>1. /\ m # None /\ l # None
      /\ \A s \in AtomsOf(b) : Supported(m, s, decisions[s])
      /\ l.batches[b].status = "planned" => CanOffer(l, b)
      /\ CanAccept(o, v)
      /\ Save(r, n)
      /\ UNCHANGED <<world, active, begun>>
  BY DEF Submit, Known
<1>2. m \in RunState /\ l \in Ledger /\ AgreeOnDiscovery(m) /\ l = disk[r] /\ m.discoveries = pinned[r]
  <2>1. m \in RunState
    BY <1>1 DEF IInv, TypeOK
  <2>2. l \in Ledger
    BY <1>1, <2>1 DEF RunState
  <2> QED BY <1>1, <2>1, <2>2 DEF IInv, Linked
<1>3. ValidLedger(l) /\ Judged(l, pinned[r])
  BY <1>1, <1>2 DEF IInv, Stands
<1>4. v \in NewVerdict
  <2>1. AtomsOf(b) \in (SUBSET Atom) \ {{}}
    <3>1. AtomsOf(b) \subseteq Atom /\ AtomsOf(b) # {}
      BY PlanAssumption DEF AtomsOf
    <3> QED BY <3>1
  <2>2. decisions \in Decisions
    BY <2>1 DEF Decisions
  <2> QED BY <2>2, NoneAssumption DEF NewVerdict, Verdict
<1>5. /\ o \in Ledger /\ ValidLedger(o) /\ o.verdicts = l.verdicts /\ o.terminal = l.terminal
  BY <1>1, <1>2, <1>3, OfferPreserves, OfferAddsNothing
<1> HIDE DEF m, l, o
<1>6. c \in Ledger /\ ValidLedger(c) /\ c.terminal = l.terminal
  <2> HIDE DEF v
  <2> QED BY <1>1, <1>4, <1>5, AcceptPreserves, AcceptLeavesOpen
<1>7. l.terminal = None
  BY <1>1, <1>5 DEF CanAccept
<1>8. \A s \in AtomsOf(b) : decisions[s].state \in NeedsEvidence =>
        decisions[s].evidence = m.discoveries[s]
  BY <1>1, <1>2 DEF Supported, AgreeOnDiscovery, l
<1>9. Judged(c, m.discoveries)
  <2> SUFFICES ASSUME NEW b2 \in Batch, NEW i \in 1..Len(c.verdicts[b2]),
                      NEW s \in DOMAIN c.verdicts[b2][i].decisions,
                      c.verdicts[b2][i].decisions[s].state \in NeedsEvidence
               PROVE  c.verdicts[b2][i].decisions[s].evidence = m.discoveries[s]
    BY DEF Judged
  <2>1. v.decisions = decisions /\ DOMAIN decisions = AtomsOf(b)
    OBVIOUS
  <2> HIDE DEF v
  <2>2. \/ c.verdicts[b2][i].decisions = v.decisions
        \/ /\ i \in 1..Len(o.verdicts[b2])
           /\ c.verdicts[b2][i].decisions = o.verdicts[b2][i].decisions
    BY <1>1, <1>4, <1>5, AcceptAddsItsDecisions
  <2> HIDE DEF c
  <2>3. CASE c.verdicts[b2][i].decisions = decisions
    BY <1>8, <2>1, <2>3
  <2>4. CASE /\ i \in 1..Len(l.verdicts[b2])
             /\ c.verdicts[b2][i].decisions = l.verdicts[b2][i].decisions
    <3>1. Judged(l, m.discoveries)
      BY <1>2, <1>3
    <3>2. /\ s \in DOMAIN l.verdicts[b2][i].decisions
          /\ l.verdicts[b2][i].decisions[s].state \in NeedsEvidence
      BY <2>4
    <3>3. l.verdicts[b2][i].decisions[s].evidence = m.discoveries[s]
      BY <2>4, <3>1, <3>2 DEF Judged
    <3> QED BY <2>4, <3>3
  <2> QED BY <1>5, <2>1, <2>2, <2>3, <2>4
<1> HIDE DEF c, v
<1>10. /\ n \in RunState /\ n.coverage = c /\ n.discoveries = m.discoveries
       /\ n.workItems = m.workItems /\ n.collections = m.collections
  BY <1>2, <1>6 DEF RunState
<1> HIDE DEF n
<1>11. c # None /\ AgreeOnDiscovery(n)
  BY <1>1, <1>2, <1>6, <1>10, RunAssumption DEF AgreeOnDiscovery, l
<1>12. ~Ended(r)
  BY <1>2, <1>7 DEF Ended
<1>13. active' = r
  BY <1>1, <1>12 DEF IInv, UnfinishedIsActive, Known, m
<1>14. \A q \in Run \ {r} : disk'[q] = disk[q]
  BY <1>1 DEF Save, IInv, TypeOK
<1>15. memory[r] # None /\ memory[r].discoveries = m.discoveries /\ active' \in Run \cup {None}
  BY <1>1, <1>13 DEF m
<1>16. IInv'
  BY <1>1, <1>6, <1>9, <1>10, <1>11, <1>13, <1>15, SavingKeepsIInv
<1> QED BY <1>12, <1>14, <1>16

\* finalize: a review that has ended already is written as it was.
LEMMA FinalizeAgain ==
  ASSUME NEW l \in Ledger, ValidLedger(l), CanFinalize(l, "completed"), l.terminal # None
  PROVE  FinalizeResult(l, "completed") = l
<1>1. l.terminal = "completed"
  BY DEF CanFinalize
<1>2. ASSUME NEW b \in Batch
      PROVE  l.batches[b] = [status |-> "terminal", reason |-> None]
  <2>1. l.batches[b] \in ReviewBatch
    BY DEF Ledger
  <2>2. l.batches[b].status = "terminal"
    BY DEF ValidLedger, TerminalTruth
  <2>3. PICK a \in Atom : BatchOf[a] = b
    BY PlanAssumption DEF AtomsOf
  <2>4. l.batches[b].reason = None
    BY <2>2, <2>3 DEF ValidLedger, StatusAgreement
  <2> QED BY <2>1, <2>2, <2>4 DEF ReviewBatch
<1>3. l.batches = [b \in Batch |-> [status |-> "terminal", reason |-> None]]
  BY <1>2 DEF Ledger
<1>4. l = [l EXCEPT !.batches = l.batches, !.terminal = l.terminal]
  BY DEF Ledger
<1> QED BY <1>1, <1>3, <1>4 DEF FinalizeResult

\* Finalizing, with or without an answer, keeps the invariant and every
\* terminal ledger.
LEMMA ClosingKeepsIInv ==
  ASSUME IInv, NEW r \in Run, Closing(r),
         active' = active \/ active' = IF active = r THEN None ELSE active
  PROVE  IInv' /\ \A q \in Run : Ended(q) => disk'[q] = disk[q]
<1> DEFINE m == memory[r]
           l == m.coverage
           c == FinalizeResult(l, "completed")
           n == [m EXCEPT !.coverage = c]
<1>1. /\ m # None /\ l # None /\ CanFinalize(l, "completed")
      /\ Save(r, n) /\ UNCHANGED <<world, begun>>
  BY DEF Closing, Known
<1>2. m \in RunState /\ l \in Ledger /\ AgreeOnDiscovery(m) /\ l = disk[r] /\ m.discoveries = pinned[r]
  <2>1. m \in RunState
    BY <1>1 DEF IInv, TypeOK
  <2>2. l \in Ledger
    BY <1>1, <2>1 DEF RunState
  <2> QED BY <1>1, <2>1, <2>2 DEF IInv, Linked
<1>3. ValidLedger(l) /\ Judged(l, m.discoveries)
  BY <1>1, <1>2 DEF IInv, Stands
<1> HIDE DEF l
<1>4. c \in Ledger /\ ValidLedger(c) /\ c.verdicts = l.verdicts /\ c.terminal = "completed"
  <2>1. c \in Ledger /\ ValidLedger(c)
    BY <1>1, <1>2, <1>3, FinalizePreserves DEF TerminalStates
  <2> QED BY <1>2, <2>1 DEF FinalizeResult, Ledger
<1> HIDE DEF c
<1>5. Judged(c, m.discoveries)
  BY <1>3, <1>4 DEF Judged
<1>6. /\ n \in RunState /\ n.coverage = c /\ n.discoveries = m.discoveries
      /\ n.workItems = m.workItems /\ n.collections = m.collections
  BY <1>2, <1>4 DEF RunState
<1> HIDE DEF n
<1>7. c # None /\ AgreeOnDiscovery(n)
  BY <1>1, <1>2, <1>4, <1>6, RunAssumption DEF AgreeOnDiscovery, l
<1>8. /\ active' \in Run \cup {None}
      /\ \A q \in Run \ {r} : active = q => active' = q
  BY DEF IInv, TypeOK
<1>9. c.terminal # None
  BY <1>4, NoneAssumption DEF TerminalStates
<1>10. memory[r] # None /\ memory[r].discoveries = m.discoveries
  BY <1>1 DEF m
<1>11. IInv'
  BY <1>1, <1>4, <1>5, <1>6, <1>7, <1>8, <1>9, <1>10, SavingKeepsIInv
<1>12. disk' = [disk EXCEPT ![r] = c] /\ disk \in [Run -> Ledger \cup {None}]
  BY <1>1, <1>6 DEF Save, IInv, TypeOK
<1>13. Ended(r) => c = l
  BY <1>1, <1>2, <1>3, FinalizeAgain DEF Ended, c
<1> QED BY <1>2, <1>11, <1>12, <1>13

\* plan_review_batches writes the first ledger of its Run.
LEMMA PlanKeepsIInv ==
  ASSUME IInv, NEW r \in Run, Plan(r)
  PROVE  IInv' /\ ~Ended(r) /\ \A q \in Run \ {r} : disk'[q] = disk[q]
<1>1. /\ memory[r] # None /\ memory[r].coverage = None
      /\ UNCHANGED <<world, active, begun>>
  BY DEF Plan, Open, Known
<1>2. /\ memory[r] \in RunState /\ world \in Snapshots /\ active \in Run \cup {None}
      /\ disk[r] = None /\ AgreeOnDiscovery(memory[r])
  BY <1>1 DEF IInv, TypeOK, Linked
<1>3. PICK m : /\ m \in (IF memory[r].collections # None THEN {memory[r]} ELSE Collected(memory[r]))
               /\ Save(r, [m EXCEPT !.coverage = Planned])
  BY DEF Plan
<1>4. /\ m \in RunState /\ AgreeOnDiscovery(m) /\ m.workItems # None
      /\ memory[r].discoveries # None => m.discoveries = memory[r].discoveries
  <2>1. CASE memory[r].collections # None
    BY <1>2, <1>3, <2>1 DEF AgreeOnDiscovery
  <2>2. CASE memory[r].collections = None
    <3>1. m \in Collected(memory[r])
      BY <1>3, <2>2
    <3> QED BY <1>2, <3>1, CollectedGathers, DiscoveredOnce DEF Gathers
  <2> QED BY <2>1, <2>2
<1> DEFINE n == [m EXCEPT !.coverage = Planned]
<1>5. Planned \in Ledger /\ ValidLedger(Planned) /\ Planned # None
  BY PlannedIsValid, RunAssumption
<1>6. /\ n \in RunState /\ n.coverage = Planned /\ n.discoveries = m.discoveries
      /\ n.workItems = m.workItems /\ n.collections = m.collections
  BY <1>4, <1>5 DEF RunState
<1>7. Save(r, n)
  BY <1>3
<1> HIDE DEF n
<1>8. AgreeOnDiscovery(n)
  BY <1>4, <1>6 DEF AgreeOnDiscovery
<1>9. Judged(Planned, n.discoveries)
  BY DEF Judged, Planned
<1>10. ~Ended(r)
  BY <1>2 DEF Ended
<1>11. active' = r
  BY <1>1, <1>10 DEF IInv, UnfinishedIsActive, Known
<1>12. IInv'
  BY <1>1, <1>4, <1>5, <1>6, <1>7, <1>8, <1>9, <1>11, SavingKeepsIInv
<1> QED BY <1>7, <1>10, <1>12 DEF Save, IInv, TypeOK

\* start: only when the transport is free, and under an unused identity.
LEMMA StartKeepsIInv ==
  ASSUME IInv, NEW r \in Run, Start(r)
  PROVE  IInv' /\ disk' = disk
<1>1. /\ memory \in [Run -> RunState \cup {None}]
      /\ disk \in [Run -> Ledger \cup {None}]
      /\ pinned \in [Run -> Snapshots \cup {None}]
  BY DEF IInv, TypeOK
<1>2. /\ active = None /\ r \notin begun /\ begun' = begun \cup {r} /\ active' = r
      /\ Keep(r, Started) /\ UNCHANGED <<world, disk>>
  BY DEF Start
<1>3. pinned[r] = None /\ disk[r] = None
  BY <1>2 DEF IInv, Fresh
<1>4. /\ Started \in RunState /\ Started.coverage = None /\ Started.discoveries = None
      /\ AgreeOnDiscovery(Started)
  BY DEF Started, RunState, Results, AgreeOnDiscovery
<1>5. /\ memory' \in [Run -> RunState \cup {None}] /\ memory'[r] = Started
      /\ \A q \in Run \ {r} : memory'[q] = memory[q]
      /\ pinned' = pinned
  <2> HIDE DEF Started
  <2> QED BY <1>1, <1>2, <1>3, <1>4 DEF Keep
<1>6. TypeOK'
  BY <1>2, <1>5 DEF IInv, TypeOK
<1>7. ASSUME NEW q \in Run
      PROVE  Linked(q)' /\ Fresh(q)' /\ Stands(q)'
  <2>1. CASE q = r
    BY <1>2, <1>3, <1>4, <1>5, <2>1 DEF Linked, Fresh, Stands, AgreeOnDiscovery
  <2>2. CASE q # r
    <3>1. Linked(q) /\ Fresh(q) /\ Stands(q)
      BY DEF IInv
    <3>2. /\ memory'[q] = memory[q] /\ disk'[q] = disk[q] /\ pinned'[q] = pinned[q]
          /\ q \in begun' <=> q \in begun
      BY <1>2, <1>5, <2>2
    <3>3. Linked(q)'
      BY <3>1, <3>2 DEF Linked, AgreeOnDiscovery
    <3> QED BY <3>1, <3>2, <3>3 DEF Fresh, Stands
  <2> QED BY <2>1, <2>2
<1>8. UnfinishedIsActive'
  <2> SUFFICES ASSUME NEW q \in Run \ {r}, memory[q] # None, ~Ended(q)
               PROVE  FALSE
    BY <1>2, <1>5 DEF UnfinishedIsActive, Known, Ended
  <2> QED BY <1>2, RunAssumption DEF IInv, UnfinishedIsActive, Known
<1> QED BY <1>2, <1>6, <1>7, <1>8 DEF IInv

\* bind_provider changes neither what a Run saw nor what it saved.
LEMMA BindKeepsIInv ==
  ASSUME IInv, NEW r \in Run, Bind(r)
  PROVE  IInv' /\ disk' = disk
<1> DEFINE m == memory[r]
           n == [m EXCEPT !.bound = TRUE]
<1>1. /\ m # None /\ Keep(r, n)
      /\ UNCHANGED <<world, active, begun, disk>>
  BY DEF Bind, Known
<1>2. m \in RunState /\ AgreeOnDiscovery(m) /\ m.coverage = disk[r] /\ disk \in [Run -> Ledger \cup {None}]
      /\ m.discoveries = pinned[r]
  BY <1>1 DEF IInv, TypeOK, Linked
<1>3. /\ n \in RunState /\ n.coverage = m.coverage /\ n.discoveries = m.discoveries
      /\ n.workItems = m.workItems /\ n.collections = m.collections
  BY <1>2 DEF RunState
<1> HIDE DEF n
<1>4. AgreeOnDiscovery(n) /\ disk' = [disk EXCEPT ![r] = n.coverage]
  BY <1>1, <1>2, <1>3 DEF AgreeOnDiscovery
<1>5. /\ memory' \in [Run -> RunState \cup {None}]
      /\ pinned' \in [Run -> Snapshots \cup {None}]
      /\ pinned'[r] = n.discoveries
      /\ \A q \in Run \ {r} : memory'[q] = memory[q] /\ pinned'[q] = pinned[q]
      /\ \A q \in Run : Linked(q)' /\ Fresh(q)'
  BY <1>1, <1>3, <1>4, KeepLinks
<1>6. TypeOK'
  BY <1>1, <1>5 DEF IInv, TypeOK
<1>7. ASSUME NEW q \in Run
      PROVE  Stands(q)'
  <2>1. pinned'[q] = pinned[q]
    BY <1>2, <1>3, <1>5
  <2> QED BY <1>1, <2>1 DEF IInv, Stands, Judged
<1>8. UnfinishedIsActive'
  BY <1>1, <1>5 DEF IInv, UnfinishedIsActive, Known, Ended
<1> QED BY <1>1, <1>5, <1>6, <1>7, <1>8 DEF IInv

\* When the process ends there is no Run left to be active.
LEMMA ExitKeepsIInv ==
  ASSUME IInv, Exit
  PROVE  IInv' /\ disk' = disk
<1>1. TypeOK'
  BY RunAssumption DEF Exit, IInv, TypeOK
<1>2. ASSUME NEW r \in Run
      PROVE  Linked(r)' /\ Fresh(r)' /\ Stands(r)'
  BY DEF Exit, IInv, Linked, Fresh, Stands, Judged
<1>3. UnfinishedIsActive'
  BY DEF Exit, UnfinishedIsActive, Known
<1> QED BY <1>1, <1>2, <1>3 DEF IInv, Exit

\* A source changes under the Runs, and nothing they hold changes with it.
LEMMA ChangeKeepsIInv ==
  ASSUME IInv, NEW s \in Editable, Change(s)
  PROVE  IInv' /\ disk' = disk
<1>1. world' \in Snapshots
  BY DEF Change, IInv, TypeOK, Snapshots
<1>2. UNCHANGED <<active, begun, memory, disk, pinned>>
  BY DEF Change
<1>3. ASSUME NEW r \in Run
      PROVE  Linked(r)' /\ Fresh(r)' /\ Stands(r)'
  BY <1>2 DEF IInv, Linked, Fresh, Stands, Judged, AgreeOnDiscovery
<1> QED BY <1>1, <1>2, <1>3 DEF IInv, TypeOK, UnfinishedIsActive, Known, Ended

\* One step: the invariant is kept, and so is every terminal ledger.
LEMMA StepKeepsIInv ==
  ASSUME IInv, [Next]_vars
  PROVE  IInv' /\ \A q \in Run : Ended(q) => disk'[q] = disk[q]
<1>1. ASSUME NEW r \in Run, Start(r)
      PROVE  IInv' /\ disk' = disk
  BY <1>1, StartKeepsIInv
<1>2. ASSUME NEW r \in Run, Bind(r)
      PROVE  IInv' /\ disk' = disk
  BY <1>2, BindKeepsIInv
<1>3. ASSUME NEW r \in Run, Discover(r)
      PROVE  IInv' /\ disk' = disk
  <2>1. memory[r] # None /\ memory[r] \in RunState /\ world \in Snapshots /\ AgreeOnDiscovery(memory[r])
    BY <1>3 DEF Discover, Open, Known, IInv, TypeOK, Linked
  <2>2. PICK n : Gathers(memory[r], n) /\ Keep(r, n)
    BY <1>3, <2>1, DiscoverGathers DEF Discover
  <2>3. UNCHANGED <<world, active, begun, disk>>
    BY <1>3 DEF Discover
  <2> QED BY <2>1, <2>2, <2>3, GatheringKeepsIInv
<1>4. ASSUME NEW r \in Run, Collect(r)
      PROVE  IInv' /\ disk' = disk
  <2>1. memory[r] # None /\ memory[r] \in RunState /\ world \in Snapshots /\ AgreeOnDiscovery(memory[r])
    BY <1>4 DEF Collect, Open, Known, IInv, TypeOK, Linked
  <2>2. PICK n \in Collected(memory[r]) \cup Interrupted(memory[r]) : Keep(r, n)
    BY <1>4 DEF Collect
  <2>3. Gathers(memory[r], n)
    BY <2>1, CollectedGathers, InterruptedGathers
  <2>4. UNCHANGED <<world, active, begun, disk>>
    BY <1>4 DEF Collect
  <2> QED BY <2>1, <2>2, <2>3, <2>4, GatheringKeepsIInv
<1>5. ASSUME NEW r \in Run, Plan(r)
      PROVE  IInv' /\ \A q \in Run : Ended(q) => disk'[q] = disk[q]
  BY <1>5, PlanKeepsIInv
<1>6. ASSUME NEW r \in Run, SubmitSome(r)
      PROVE  IInv' /\ \A q \in Run : Ended(q) => disk'[q] = disk[q]
  BY <1>6, SubmitKeepsIInv DEF SubmitSome
<1>7. ASSUME NEW r \in Run, Finalize(r) \/ FinalizeUnread(r)
      PROVE  IInv' /\ \A q \in Run : Ended(q) => disk'[q] = disk[q]
  BY <1>7, ClosingKeepsIInv DEF Finalize, FinalizeUnread
<1>8. ASSUME Exit
      PROVE  IInv' /\ disk' = disk
  BY <1>8, ExitKeepsIInv
<1>9. ASSUME NEW s \in Editable, Change(s)
      PROVE  IInv' /\ disk' = disk
  BY <1>9, ChangeKeepsIInv
<1>10. CASE UNCHANGED vars
  <2>1. ASSUME NEW r \in Run
        PROVE  Linked(r)' /\ Fresh(r)' /\ Stands(r)'
    BY <1>10 DEF vars, IInv, Linked, Fresh, Stands, Judged, AgreeOnDiscovery
  <2> QED BY <1>10, <2>1 DEF vars, IInv, TypeOK, UnfinishedIsActive, Known, Ended
<1> QED BY <1>1, <1>2, <1>3, <1>4, <1>5, <1>6, <1>7, <1>8, <1>9, <1>10 DEF Next

-----------------------------------------------------------------------------
LEMMA IInvIsInvariant == Spec => []IInv
<1>1. Init => IInv
  <2> SUFFICES ASSUME Init
               PROVE  IInv
    OBVIOUS
  <2>1. TypeOK
    BY RunAssumption DEF Init, TypeOK, Snapshots
  <2>2. \A r \in Run : Linked(r) /\ Fresh(r) /\ Stands(r)
    BY DEF Init, Linked, Fresh, Stands
  <2> QED BY <2>1, <2>2 DEF Init, IInv, UnfinishedIsActive, Known
<1>2. IInv /\ [Next]_vars => IInv'
  BY StepKeepsIInv
<1> QED BY <1>1, <1>2, PTL DEF Spec

\* The controller, its provider's caches and the store hold well-formed values.
THEOREM TypeCorrect == Spec => []TypeOK
<1>1. IInv => TypeOK
  BY DEF IInv
<1> QED BY <1>1, IInvIsInvariant, PTL

\* submit_review_batch never lets a judgement on disk rest on anything but the
\* source as the Run's first discovery saw it.
THEOREM JudgementsRestOnDiscovery == Spec => []JudgedAsDiscovered
<1>1. IInv => JudgedAsDiscovered
  BY DEF IInv, Stands, Judged, JudgedAsDiscovered
<1> QED BY <1>1, IInvIsInvariant, PTL

\* The transport's active Run is the only one the controller can still change.
THEOREM UnfinishedIsGuarded == Spec => []UnfinishedIsActive
<1>1. IInv => UnfinishedIsActive
  BY DEF IInv
<1> QED BY <1>1, IInvIsInvariant, PTL

\* No tool call, restart or new Run changes a terminal ledger on disk.
THEOREM ResultsAreFinal == Spec => ResultIsFinal
<1>1. IInv /\ [Next]_vars => [\A r \in Run : Ended(r) => disk'[r] = disk[r]]_vars
  BY StepKeepsIInv
<1> QED BY <1>1, IInvIsInvariant, PTL DEF Spec, ResultIsFinal

-----------------------------------------------------------------------------
(* The plugin store *)

(* Entries of the index *)

LEMMA ActiveIsLast ==
  ASSUME NEW e \in Entry, Coherent(e)
  PROVE  /\ Len(e.history) \in Nat \ {0}
         /\ ActiveVersion(e) = e.history[Len(e.history)]
         /\ ActiveVersion(e) \in Versions
         /\ ActiveVersion(e) \in ToSet(e.history)
         /\ HasRecord(e, ActiveVersion(e))
         /\ e # None
<1>1. e.history \in Seq(Versions) /\ e.history # <<>> /\ e # None
  BY SentinelAssumption DEF Entry, Coherent
<1>2. Len(e.history) \in Nat \ {0}
  BY <1>1
<1>3. ActiveVersion(e) = e.history[Len(e.history)]
  BY <1>1 DEF ActiveVersion, Last
<1>4. Len(e.history) \in DOMAIN e.history
  BY <1>1, <1>2
<1>5. ActiveVersion(e) \in ToSet(e.history)
  BY <1>3, <1>4 DEF ToSet
<1>6. ActiveVersion(e) \in Versions
  BY <1>1, <1>3, <1>4
<1> QED BY <1>1, <1>2, <1>3, <1>5, <1>6 DEF Coherent, HasRecord

\* An activation appended behind another version keeps an entry coherent.
LEMMA Appending ==
  ASSUME NEW h \in Seq(Versions), NEW v \in Versions,
         h # <<>> => h[Len(h)] # v,
         \A i \in 1 .. Len(h) - 1 : h[i] # h[i + 1]
  PROVE  LET g == Append(h, v) IN
         /\ g \in Seq(Versions) /\ g # <<>>
         /\ g[Len(g)] = v
         /\ \A w : w \in ToSet(g) <=> w = v \/ w \in ToSet(h)
         /\ \A i \in 1 .. Len(g) - 1 : g[i] # g[i + 1]
<1> DEFINE g == Append(h, v)
<1>1. /\ g \in Seq(Versions) /\ Len(g) = Len(h) + 1 /\ g[Len(g)] = v
      /\ \A i \in 1..Len(h) : g[i] = h[i]
  OBVIOUS
<1>2. DOMAIN g = 1..(Len(h) + 1) /\ DOMAIN h = 1..Len(h) /\ Len(h) \in Nat
  BY <1>1
<1>3. \A w : w \in ToSet(g) <=> w = v \/ w \in ToSet(h)
  <2> SUFFICES ASSUME NEW w PROVE w \in ToSet(g) <=> w = v \/ w \in ToSet(h)
    OBVIOUS
  <2> HIDE DEF g
  <2>1. w \in ToSet(g) <=> \E i \in 1..(Len(h) + 1) : g[i] = w
    BY <1>2 DEF ToSet
  <2>2. w \in ToSet(h) <=> \E i \in 1..Len(h) : h[i] = w
    BY <1>2 DEF ToSet
  <2>3. g[Len(h) + 1] = v
    BY <1>1
  <2> QED BY <2>1, <2>2, <2>3, <1>1, <1>2
<1>4. \A i \in 1 .. Len(g) - 1 : g[i] # g[i + 1]
  <2> SUFFICES ASSUME NEW i \in 1 .. Len(g) - 1 PROVE g[i] # g[i + 1]
    OBVIOUS
  <2> DEFINE n == Len(h)
  <2>1. i \in 1..n /\ n \in Nat
    BY <1>1, <1>2
  <2>2. CASE i = Len(h)
    BY <2>2, <1>1, <1>2
  <2>3. CASE i \in 1..Len(h) - 1
    BY <2>3, <1>1, <1>2
  <2>4. i = n \/ i \in 1..n - 1
    <3> HIDE DEF n
    <3> QED BY <2>1
  <2> QED BY <2>2, <2>3, <2>4
<1>5. g # <<>>
  BY <1>1, <1>2
<1> QED BY <1>1, <1>3, <1>4, <1>5

LEMMA UpsertKeeps ==
  ASSUME NEW e \in Entry \cup {None}, e # None => Coherent(e),
         NEW v \in Versions, NEW c \in Contents
  PROVE  LET r == Upsert(e, v, c) IN
         /\ r \in Entry /\ Coherent(r)
         /\ r.state = "installed"
         /\ r.records[v] = c
         /\ \A w \in Versions \ {v} : r.records[w] = IF e = None THEN None ELSE e.records[w]
         /\ IF e # None /\ v \in ToSet(e.history) THEN r.history = e.history
                                                  ELSE ActiveVersion(r) = v
<1> DEFINE base == IF e = None
                   THEN [history |-> <<>>, records |-> [w \in Versions |-> None],
                         state |-> "installed"]
                   ELSE e
           new == v \notin ToSet(base.history)
           hist == IF new THEN Append(base.history, v) ELSE base.history
           recs == [base.records EXCEPT ![v] = c]
           r == Upsert(e, v, c)
<1>1. base \in Entry /\ (\A w \in ToSet(base.history) : base.records[w] # None)
      /\ (\A i \in 1 .. Len(base.history) - 1 : base.history[i] # base.history[i + 1])
  <2>1. CASE e = None
    <3>1. base = [history |-> <<>>, records |-> [w \in Versions |-> None],
                  state |-> "installed"]
      BY <2>1
    <3>2. base \in Entry /\ base.history = <<>>
      BY <3>1 DEF Entry
    <3>3. ToSet(<<>>) = {}
      BY DEF ToSet
    <3> QED BY <3>2, <3>3
  <2>2. CASE e # None
    BY <2>2 DEF Coherent
  <2> QED BY <2>1, <2>2
<1>2. r = [history |-> hist, records |-> recs, state |-> "installed"]
  BY DEF Upsert
<1>3. e = None => base.history = <<>> /\ \A w \in Versions : base.records[w] = None
  OBVIOUS
<1>4. e # None => base = e /\ base.history # <<>>
  BY DEF Coherent
<1>5. None \notin Contents
  BY ContentsAssumption
<1> HIDE DEF base
<1>6. base.history \in Seq(Versions) /\ base.records \in [Versions -> Contents \cup {None}]
  BY <1>1 DEF Entry
<1>7. /\ recs \in [Versions -> Contents \cup {None}] /\ recs[v] = c
      /\ \A w \in Versions \ {v} : recs[w] = base.records[w]
  BY <1>6
<1>8. base.history # <<>> => base.history[Len(base.history)] \in ToSet(base.history)
  <2>1. base.history # <<>> => Len(base.history) \in DOMAIN base.history
    BY <1>6
  <2> QED BY <2>1 DEF ToSet
<1>9. CASE new
  <2>1. /\ hist \in Seq(Versions) /\ hist # <<>>
        /\ hist[Len(hist)] = v
        /\ \A w : w \in ToSet(hist) <=> w = v \/ w \in ToSet(base.history)
        /\ \A i \in 1 .. Len(hist) - 1 : hist[i] # hist[i + 1]
    BY <1>1, <1>6, <1>8, <1>9, Appending
  <2>2. \A w \in ToSet(hist) : recs[w] # None
    <3> SUFFICES ASSUME NEW w \in ToSet(hist) PROVE recs[w] # None
      OBVIOUS
    <3>1. w \in Versions
      BY <2>1 DEF ToSet
    <3> HIDE DEF hist, recs
    <3> QED BY <3>1, <2>1, <1>1, <1>7, <1>5
  <2> HIDE DEF hist, recs, r
  <2>3. r \in Entry /\ r.history = hist /\ r.records = recs /\ r.state = "installed"
    BY <1>2, <1>7, <2>1 DEF Entry
  <2>4. Coherent(r)
    BY <2>1, <2>2, <2>3 DEF Coherent
  <2>5. ActiveVersion(r) = v
    BY <2>1, <2>3, <2>4, ActiveIsLast
  <2> QED BY <2>3, <2>4, <2>5, <1>3, <1>4, <1>7, <1>9 DEF new, r
<1>10. CASE ~new
  <2>1. hist = base.history /\ v \in ToSet(base.history)
    BY <1>10
  <2>2. base.history # <<>>
    BY <2>1 DEF ToSet
  <2>3. e # None /\ base = e
    BY <2>2, <1>3, <1>4
  <2>4. \A w \in ToSet(hist) : recs[w] # None
    <3> SUFFICES ASSUME NEW w \in ToSet(hist) PROVE recs[w] # None
      OBVIOUS
    <3>1. w \in Versions
      BY <2>1, <1>6 DEF ToSet
    <3> HIDE DEF hist, recs
    <3> QED BY <3>1, <2>1, <1>1, <1>7, <1>5
  <2> HIDE DEF hist, recs, r
  <2>5. r \in Entry /\ r.history = hist /\ r.records = recs /\ r.state = "installed"
    BY <1>2, <1>6, <1>7, <2>1 DEF Entry
  <2>6. Coherent(r)
    BY <2>1, <2>2, <2>4, <2>5, <1>1 DEF Coherent
  <2> QED BY <2>1, <2>3, <2>5, <2>6, <1>7 DEF r
<1> QED BY <1>9, <1>10

LEMMA ReactivateKeeps ==
  ASSUME NEW e \in Entry, Coherent(e), NEW v \in Versions, HasRecord(e, v)
  PROVE  LET r == Reactivate(e, v) IN
         /\ r \in Entry /\ Coherent(r)
         /\ r.records = e.records
         /\ ActiveVersion(r) = v
         /\ IF v = ActiveVersion(e) THEN r = e ELSE r.state = "installed"
<1> DEFINE r == Reactivate(e, v)
           hist == Append(e.history, v)
<1>1. CASE v = ActiveVersion(e)
  BY <1>1 DEF Reactivate
<1>2. CASE v # ActiveVersion(e)
  <2>1. e.history \in Seq(Versions) /\ e.records \in [Versions -> Contents \cup {None}]
    BY DEF Entry
  <2>2. e.history[Len(e.history)] # v
    BY <1>2, ActiveIsLast
  <2>3. /\ hist \in Seq(Versions) /\ hist # <<>>
        /\ hist[Len(hist)] = v
        /\ \A w : w \in ToSet(hist) <=> w = v \/ w \in ToSet(e.history)
        /\ \A i \in 1 .. Len(hist) - 1 : hist[i] # hist[i + 1]
    BY <2>1, <2>2, Appending DEF Coherent
  <2>4. r = [e EXCEPT !.history = hist, !.state = "installed"]
    BY <1>2 DEF Reactivate
  <2> HIDE DEF hist, r
  <2>5. r \in Entry /\ r.history = hist /\ r.records = e.records /\ r.state = "installed"
    BY <2>3, <2>4 DEF Entry
  <2>6. Coherent(r)
    BY <2>3, <2>5 DEF Coherent, HasRecord
  <2>7. ActiveVersion(r) = v
    BY <2>3, <2>5, <2>6, ActiveIsLast
  <2> QED BY <1>2, <2>5, <2>6, <2>7 DEF r
<1> QED BY <1>1, <1>2

----------------------------------------------------------------------------
(* What plans, calls and operations are *)

Replacing == {"install", "upgrade"}

\* What an operation needs of what it loaded, to write a coherent entry.
JobFits(j) ==
  /\ j.loaded # None => Coherent(j.loaded)
  /\ j.op \in Replacing => j.version \in Versions /\ j.content \in Contents
  /\ j.op \in {"upgrade", "downgrade", "rollback", "uninstall"} => j.loaded # None
  /\ j.op \in {"downgrade", "rollback"} => j.version \in Versions /\ HasRecord(j.loaded, j.version)
  /\ j.at \in {"clear", "copy"} => j.op \in Replacing
  /\ j.at = "remove" => j.op = "uninstall"

PlanRecord == [op : Operations, from : {"catalog", "source", "store"}, target : Versions \cup {None},
         content : Contents \cup {None}, reactivates : BOOLEAN,
         catalogDigest : Catalogs \cup {None}, packageDigest : Sources \cup {None},
         storeDigest : Entry \cup {None, Empty, Garbled}, used : BOOLEAN, expired : BOOLEAN]

Asked == [phase : {"resolved"}, op : Operations, from : {"catalog", "source", "store"},
          target : Versions \cup {None}, content : Contents \cup {None}]

\* A request or a plan names what its operation takes.
Sensible(p) ==
  IF p.from = "store"
  THEN /\ p.op \in {"downgrade", "rollback", "uninstall"} /\ p.content = None
       /\ p.op = "downgrade" => p.target \in Versions
  ELSE p.op \in Replacing /\ p.target \in Versions /\ p.content \in Contents

CallFits ==
  \/ call = None
  \/ call \in Asked /\ Sensible(call)
  \/ call \in [phase : {"checked"}, plan : PlanRecord] /\ Sensible(call.plan)
  \/ call = [phase |-> "confirmed"] /\ plan \in PlanRecord /\ Sensible(plan)

JobsFit == \A a \in Actors : job[a] # None => JobFits(job[a])

PlansFit == /\ catalog \in Catalogs /\ source \in Sources
            /\ CallFits
            /\ plan # None => plan \in PlanRecord /\ Sensible(plan)

\* Whatever can be read as an entry, under either name, is coherent.
Shaped == /\ StoreTypes
          /\ Entered(index) => Coherent(index)
          /\ Entered(temporary) => Coherent(temporary)

Fit == Shaped /\ JobsFit /\ PlansFit

LEMMA ReadsEntry ==
  ASSUME Shaped, Readable(index)
  PROVE  /\ index \in Entry \cup {None}
         /\ index # None <=> Entered(index)
         /\ index # None => Coherent(index)
BY SentinelAssumption DEF Shaped, StoreTypes, Readable, Entered

\* An operation begins with the entry as it is.
LEMMA Begins ==
  ASSUME Shaped, NEW a \in Actors, NEW op, NEW v, NEW c, Begin(a, op, v, c),
         op \in Replacing => v \in Versions /\ c \in Contents,
         op = "downgrade" => v \in Versions
  PROVE  \E j \in Job :
           /\ job' = [job EXCEPT ![a] = j]
           /\ JobFits(j)
           /\ j.op = op /\ j.loaded = index /\ j.at \in {"clear", "save"}
           /\ op = "install" => CanInstall(v)
           /\ op \in Replacing => j.version = v /\ j.content = c
           /\ op = "upgrade" => CanUpgrade(v) /\ (j.at = "clear" => ~HasRecord(index, v))
                                /\ (j.at = "save" => HasRecord(index, v))
           /\ op = "install" => j.at = "clear"
           /\ op = "downgrade" => j.version = v
           /\ op = "rollback" => j.version = index.history[Len(index.history) - 1]
           /\ Readable(index)
<1>0. Readable(index)
  BY DEF Begin, Install, Upgrade, Rollback, Downgrade, Uninstall,
         CanInstall, CanUpgrade, CanRollback, CanDowngrade, Entered, Readable
<1>1. /\ index \in Entry \cup {None} /\ (index # None => Coherent(index))
      /\ index # None <=> Entered(index)
      /\ index # None => index.history \in Seq(Versions)
  BY <1>0, ReadsEntry DEF Entry
<1>2. CASE op = "install" /\ Install(a, v, c)
  <2> DEFINE j == FreshJob("install", "clear", v, c)
  <2>1. j \in Job /\ j.op = op /\ j.loaded = index /\ j.at = "clear" /\ j.version = v /\ j.content = c
    BY <1>1, <1>2 DEF FreshJob, Job, Replacing
  <2>2. job' = [job EXCEPT ![a] = j] /\ CanInstall(v)
    BY <1>2 DEF Install
  <2> HIDE DEF j
  <2> QED BY <2>1, <2>2, <1>0, <1>1, <1>2 DEF JobFits, Replacing
<1>3. CASE op = "upgrade" /\ Upgrade(a, v, c)
  <2> DEFINE at == IF HasRecord(index, v) THEN "save" ELSE "clear"
             j == FreshJob("upgrade", at, v, c)
  <2>1. at \in {"clear", "save"} /\ (at = "save" <=> HasRecord(index, v))
    OBVIOUS
  <2>2. job' = [job EXCEPT ![a] = j] /\ CanUpgrade(v) /\ index # None
    BY <1>1, <1>3 DEF Upgrade, CanUpgrade
  <2> HIDE DEF at
  <2>3. j \in Job /\ j.op = op /\ j.loaded = index /\ j.at = at /\ j.version = v /\ j.content = c
    BY <1>1, <1>3, <2>1 DEF FreshJob, Job, Replacing
  <2> HIDE DEF j
  <2> QED BY <2>1, <2>2, <2>3, <1>0, <1>1, <1>3 DEF JobFits, Replacing
<1>4. CASE op = "downgrade" /\ Downgrade(a, v)
  <2> DEFINE j == FreshJob("downgrade", "save", v, None)
  <2>1. j \in Job /\ j.op = op /\ j.loaded = index /\ j.at = "save" /\ j.version = v
    BY <1>1, <1>4 DEF FreshJob, Job
  <2>2. job' = [job EXCEPT ![a] = j] /\ HasRecord(index, v) /\ index # None
    BY <1>4 DEF Downgrade, CanDowngrade, HasRecord
  <2> HIDE DEF j
  <2> QED BY <2>1, <2>2, <1>0, <1>1, <1>4 DEF JobFits, Replacing
<1>5. CASE op = "rollback" /\ Rollback(a)
  <2> DEFINE v2 == index.history[Len(index.history) - 1]
             j == FreshJob("rollback", "save", v2, None)
  <2>1. /\ index # None /\ Len(index.history) >= 2
        /\ HasRecord(index, v2)
        /\ job' = [job EXCEPT ![a] = j]
    BY <1>1, <1>5 DEF Rollback, CanRollback
  <2>2. v2 \in Versions
    BY <2>1, <1>1
  <2> HIDE DEF v2
  <2>3. j \in Job /\ j.op = op /\ j.loaded = index /\ j.at = "save" /\ j.version = v2
    BY <1>1, <1>5, <2>2 DEF FreshJob, Job
  <2> HIDE DEF j
  <2> QED BY <2>1, <2>2, <2>3, <1>0, <1>1, <1>5 DEF JobFits, Replacing, v2
<1>6. CASE op = "uninstall" /\ Uninstall(a)
  <2> DEFINE j == FreshJob("uninstall", "save", None, None)
  <2>1. j \in Job /\ j.op = op /\ j.loaded = index /\ j.at = "save"
    BY <1>1, <1>6 DEF FreshJob, Job
  <2>2. job' = [job EXCEPT ![a] = j]
    BY <1>6 DEF Uninstall
  <2>3. index # None
    BY <1>1, <1>6 DEF Uninstall
  <2> HIDE DEF j
  <2> QED BY <2>1, <2>2, <2>3, <1>0, <1>1, <1>6 DEF JobFits, Replacing
<1> QED BY <1>2, <1>3, <1>4, <1>5, <1>6 DEF Begin

\* What save writes is coherent, whatever the entry is by then.
LEMMA Saves ==
  ASSUME NEW j \in Job, JobFits(j)
  PROVE  /\ Result(j) \in Entry \cup {None}
         /\ Result(j) # None => Coherent(Result(j))
         /\ Result(j) = None <=> j.op = "uninstall"
<1>1. /\ j.loaded \in Entry \cup {None}
      /\ j.op \in {"install", "upgrade", "downgrade", "rollback", "uninstall"}
  BY DEF Job
<1>2. CASE j.op = "uninstall"
  BY <1>2 DEF Result
<1>3. CASE j.op = "install" \/ (j.op = "upgrade" /\ ~HasRecord(j.loaded, j.version))
  <2>1. Result(j) = Upsert(j.loaded, j.version, j.content)
    BY <1>3 DEF Result
  <2>2. j.version \in Versions /\ j.content \in Contents /\ (j.loaded # None => Coherent(j.loaded))
    BY <1>3 DEF JobFits, Replacing
  <2>3. Result(j) \in Entry /\ Coherent(Result(j))
    BY <2>1, <2>2, <1>1, UpsertKeeps
  <2> QED BY <2>3, <1>3, ActiveIsLast
<1>4. CASE j.op \in {"downgrade", "rollback"} \/ (j.op = "upgrade" /\ HasRecord(j.loaded, j.version))
  <2>1. Result(j) = Reactivate(j.loaded, j.version)
    BY <1>4 DEF Result
  <2>2. j.version \in Versions /\ j.loaded \in Entry /\ Coherent(j.loaded)
        /\ HasRecord(j.loaded, j.version)
    BY <1>4, <1>1 DEF JobFits, Replacing
  <2>3. Result(j) \in Entry /\ Coherent(Result(j))
    BY <2>1, <2>2, ReactivateKeeps
  <2> QED BY <2>3, <1>4, ActiveIsLast
<1> QED BY <1>1, <1>2, <1>3, <1>4

Steps == {"clear", "copy", "save", "write", "overwrite", "lost", "replace", "remove"}

LEMMA JobAt ==
  ASSUME NEW j \in Job, JobFits(j), NEW at \in Steps,
         at \in {"clear", "copy"} => j.op \in Replacing,
         at = "remove" => j.op = "uninstall"
  PROVE  LET k == [j EXCEPT !.at = at] IN
         /\ k \in Job /\ k # None /\ JobFits(k)
         /\ k.at = at /\ k.op = j.op /\ k.loaded = j.loaded
         /\ k.version = j.version /\ k.content = j.content
         /\ Result(k) = Result(j)
<1> DEFINE k == [j EXCEPT !.at = at]
<1>1. /\ k \in Job
      /\ k.at = at /\ k.op = j.op /\ k.loaded = j.loaded
      /\ k.version = j.version /\ k.content = j.content
  BY DEF Job, Steps
<1> HIDE DEF k
<1>2. k # None
  BY <1>1, SentinelAssumption
<1>3. JobFits(k)
  BY <1>1 DEF JobFits
<1>4. Result(k) = Result(j)
  BY <1>1 DEF Result
<1> QED BY <1>1, <1>2, <1>3, <1>4 DEF k

\* A text that a file may hold.
Fits(t) == /\ t \in Entry \cup {None, Empty, Garbled}
           /\ Entered(t) => Coherent(t)

LEMMA WritesFit ==
  ASSUME NEW j \in Job, JobFits(j), NEW text, NEW t \in Written(text, j)
  PROVE  Fits(t)
BY Saves DEF Written, Fits, Entered

\* A step of the file system leaves texts that fit, also when it overlaps with one
\* of another operation.
LEMMA StepsFit ==
  ASSUME Shaped, JobsFit, NEW a \in Actors, FileStep(a) \/ FailStep(a) \/ Stop(a)
  PROVE  Shaped' /\ JobsFit'
<1>1. /\ job \in [Actors -> Job \cup {None}]
      /\ packages \in [Versions -> Contents \cup {None, "partial"}]
      /\ torn \subseteq Versions /\ setting \in Settings
      /\ Fits(index) /\ (temporary = Missing \/ Fits(temporary))
  BY DEF Shaped, StoreTypes, Fits
<1>2. ~Idle(a) => job[a] \in Job /\ JobFits(job[a])
  BY <1>1 DEF JobsFit, Idle
<1>3. ASSUME NEW k \in Job \cup {None}, k # None => JobFits(k),
             job' = [job EXCEPT ![a] = k]
      PROVE  JobsFit' /\ job' \in [Actors -> Job \cup {None}]
  BY <1>1, <1>3 DEF JobsFit, JobFits, HasRecord, Coherent
<1>4. ASSUME JobsFit', job' \in [Actors -> Job \cup {None}],
             packages' \in [Versions -> Contents \cup {None, "partial"}],
             torn' \subseteq Versions, setting' = setting,
             Fits(index'), temporary' = Missing \/ Fits(temporary')
      PROVE  Shaped' /\ JobsFit'
  BY <1>1, <1>4, SentinelAssumption DEF Shaped, StoreTypes, Fits, Entered, Coherent
<1>5. Fits(Empty) /\ Fits(Garbled)
  BY DEF Fits, Entered
<1>6. CASE ClearPackage(a)
  <2> DEFINE k == [job[a] EXCEPT !.at = "copy"]
  <2>1. ~Idle(a) /\ job[a].at = "clear" /\ job[a].version \in Versions
    BY <1>6, <1>2 DEF ClearPackage, JobFits
  <2>2. k \in Job /\ JobFits(k)
    BY <1>2, <2>1, JobAt DEF JobFits, Steps
  <2>3. job' = [job EXCEPT ![a] = k]
    BY <1>6 DEF ClearPackage
  <2> HIDE DEF k
  <2>4. JobsFit' /\ job' \in [Actors -> Job \cup {None}]
    BY <1>3, <2>2, <2>3
  <2>5. /\ packages' \in [Versions -> Contents \cup {None, "partial"}]
        /\ torn' \subseteq Versions /\ UNCHANGED <<setting, index, temporary>>
    BY <1>1, <1>6, <2>1 DEF ClearPackage
  <2> QED BY <1>1, <1>4, <2>4, <2>5
<1>7. CASE CopyPackage(a)
  <2> DEFINE k == [job[a] EXCEPT !.at = "save"]
  <2>1. ~Idle(a) /\ job[a].at = "copy" /\ job[a].content \in Contents
    BY <1>7, <1>2 DEF CopyPackage, JobFits
  <2>2. k \in Job /\ JobFits(k)
    BY <1>2, <2>1, JobAt DEF Steps
  <2>3. job' = [job EXCEPT ![a] = k]
    BY <1>7 DEF CopyPackage
  <2> HIDE DEF k
  <2>4. JobsFit' /\ job' \in [Actors -> Job \cup {None}]
    BY <1>3, <2>2, <2>3
  <2>5. /\ packages' \in [Versions -> Contents \cup {None, "partial"}]
        /\ UNCHANGED <<setting, index, temporary, torn>>
    BY <1>1, <1>7, <2>1 DEF CopyPackage
  <2> QED BY <1>1, <1>4, <2>4, <2>5
<1>8. CASE RemovePackages(a) \/ KeepIndex(a) \/ FailStep(a)
  <2>1. JobsFit' /\ job' \in [Actors -> Job \cup {None}]
    BY <1>3, <1>8 DEF RemovePackages, KeepIndex, FailStep
  <2>2. /\ packages' \in [Versions -> Contents \cup {None, "partial"}]
        /\ UNCHANGED <<setting, index, temporary, torn>>
    BY <1>1, <1>8 DEF RemovePackages, KeepIndex, FailStep, stored
  <2> QED BY <1>1, <1>4, <2>1, <2>2
<1>9. CASE OpenTemporary(a) \/ WriteTemporary(a)
  <2>1. ~Idle(a) /\ UNCHANGED <<setting, packages, torn>>
    BY <1>9 DEF OpenTemporary, WriteTemporary
  <2>2. PICK at \in {"write", "replace"} : job' = [job EXCEPT ![a] = [job[a] EXCEPT !.at = at]]
    BY <1>9 DEF OpenTemporary, WriteTemporary
  <2> DEFINE k == [job[a] EXCEPT !.at = at]
  <2>3. k \in Job /\ JobFits(k)
    BY <1>2, <2>1, JobAt DEF Steps
  <2> HIDE DEF k
  <2>4. JobsFit' /\ job' \in [Actors -> Job \cup {None}]
    <3>1. job' = [job EXCEPT ![a] = k]
      BY <2>2 DEF k
    <3> QED BY <1>3, <2>3, <3>1
  <2>5. Fits(index') /\ (temporary' = Missing \/ Fits(temporary'))
    BY <1>1, <1>2, <1>5, <1>9, <2>1, WritesFit DEF OpenTemporary, WriteTemporary
  <2> QED BY <1>1, <1>4, <2>1, <2>4, <2>5
<1>10. CASE ReplaceIndex(a)
  <2>1. /\ ~Idle(a) /\ temporary # Missing
        /\ index' = temporary /\ temporary' = Missing /\ torn' \subseteq Versions
        /\ UNCHANGED <<setting, packages>>
        /\ job' = [b \in Actors |-> IF b = a THEN Saved(job[a]) ELSE Renamed(job[b])]
    BY <1>1, <1>10 DEF ReplaceIndex
  <2>2. ASSUME NEW j \in Job \cup {None}, j # None => JobFits(j)
        PROVE  Renamed(j) \in Job \cup {None} /\ (Renamed(j) # None => JobFits(Renamed(j)))
    BY <2>2, JobAt DEF Renamed, Steps
  <2>3. Saved(job[a]) \in Job \cup {None} /\ (Saved(job[a]) # None => JobFits(Saved(job[a])))
    BY <1>2, <2>1, JobAt DEF Saved, Steps
  <2>4. \A b \in Actors : job'[b] \in Job \cup {None} /\ (job'[b] # None => JobFits(job'[b]))
    BY <1>1, <2>1, <2>2, <2>3 DEF JobsFit
  <2>5. JobsFit' /\ job' \in [Actors -> Job \cup {None}]
    BY <2>1, <2>4 DEF JobsFit, JobFits, HasRecord, Coherent
  <2> QED BY <1>1, <1>4, <2>1, <2>5
<1>11. CASE Stop(a)
  <2>1. JobsFit' /\ job' \in [Actors -> Job \cup {None}]
    BY <1>3, <1>11 DEF Stop
  <2>2. /\ packages' \in [Versions -> Contents \cup {None, "partial"}]
        /\ UNCHANGED <<setting, torn>>
        /\ Fits(index') /\ (temporary' = Missing \/ Fits(temporary'))
    BY <1>1, <1>2, <1>5, <1>11 DEF Stop, JobFits
  <2> QED BY <1>1, <1>4, <2>1, <2>2
<1> QED BY <1>6, <1>7, <1>8, <1>9, <1>10, <1>11 DEF FileStep
LEMMA BeginsFit ==
  ASSUME Shaped, JobsFit, UNCHANGED stored,
         NEW a \in Actors, NEW op, NEW v, NEW c, Begin(a, op, v, c),
         op \in Replacing => v \in Versions /\ c \in Contents,
         op = "downgrade" => v \in Versions
  PROVE  Shaped' /\ JobsFit'
<1>1. PICK j \in Job : job' = [job EXCEPT ![a] = j] /\ JobFits(j)
  BY Begins
<1>2. job' \in [Actors -> Job \cup {None}] /\ JobsFit'
  BY <1>1 DEF Shaped, StoreTypes, JobsFit
<1> QED BY <1>2 DEF Shaped, StoreTypes, stored, Entered, Coherent

LEMMA StoreStays ==
  ASSUME Shaped, JobsFit, UNCHANGED storeVars
  PROVE  Shaped' /\ JobsFit'
BY DEF Shaped, StoreTypes, JobsFit, storeVars, stored, Entered, Coherent

LEMMA PlansStay ==
  ASSUME PlansFit, UNCHANGED <<catalog, source, call, plan>>
  PROVE  PlansFit'
BY DEF PlansFit, CallFits

LEMMA CatalogGives ==
  ASSUME PlansFit, NEW v \in Published(catalog)
  PROVE  v \in Versions /\ catalog[v] \in Contents
BY ChangeAssumption DEF PlansFit, Published

LEMMA SourceGives ==
  ASSUME PlansFit, source # None
  PROVE  source \in [version : Versions, content : Contents]
BY ChangeAssumption DEF PlansFit

\* A command begins one operation, with a contract of the catalog or the source.
LEMMA CliBegins ==
  ASSUME PlansFit, (\E op \in Operations : CliCommand(op)) \/ (\E words \in Requests : CliRequest(words))
  PROVE  \E op, v, c :
           /\ Begin(Cli, op, v, c)
           /\ op \in Replacing => v \in Versions /\ c \in Contents
           /\ op = "downgrade" => v \in Versions
<1>1. \A v \in Published(catalog) : v \in Versions /\ catalog[v] \in Contents
  BY CatalogGives
<1>2. source # None => source.version \in Versions /\ source.content \in Contents
  BY SourceGives
<1>3. ASSUME NEW op, NEW v, Resolved(catalog, None) # {}, v \in Resolved(catalog, None)
      PROVE  v \in Published(catalog)
  BY <1>3 DEF Resolved
<1>4. CASE \E op \in Operations : CliCommand(op)
  <2> PICK op \in Operations : CliCommand(op)
    BY <1>4
  <2>1. CASE op = "install" /\ \E v \in Published(catalog) : Install(Cli, v, catalog[v])
    BY <2>1, <1>1 DEF Begin
  <2>2. CASE op \in {"install", "upgrade"} /\ source # None
             /\ Begin(Cli, op, source.version, source.content)
    BY <2>2, <1>2
  <2>3. CASE op = "downgrade" /\ \E v \in Versions : Downgrade(Cli, v)
    BY <2>3 DEF Begin, Replacing
  <2>4. CASE op \in {"rollback", "uninstall"} /\ Begin(Cli, op, None, None)
    BY <2>4 DEF Replacing
  <2> QED BY <2>1, <2>2, <2>3, <2>4 DEF CliCommand
<1>5. CASE \E words \in Requests : CliRequest(words)
  <2> PICK words \in Requests : CliRequest(words)
    BY <1>5
  <2> DEFINE op == Intent(words)
  <2>0. IntentStep(op)
    BY DEF CliRequest
  <2> HIDE DEF op
  <2>1. CASE op \in {"install", "upgrade"} /\ \E v \in Resolved(catalog, None) : Begin(Cli, op, v, catalog[v])
    BY <2>1, <1>1, <1>3
  <2>2. CASE op \in {"install", "upgrade"} /\ source # None
             /\ Begin(Cli, op, source.version, source.content)
    BY <2>2, <1>2
  <2>3. CASE op = "downgrade" /\ \E v \in Versions : Downgrade(Cli, v)
    BY <2>3 DEF Begin, Replacing
  <2>4. CASE op \in {"rollback", "uninstall"} /\ Begin(Cli, op, None, None)
    BY <2>4 DEF Replacing
  <2> QED BY <2>0, <2>1, <2>2, <2>3, <2>4 DEF IntentStep
<1> QED BY <1>4, <1>5

\* What the host begins is what the plan says.
LEMMA HostBegins ==
  ASSUME PlansFit, StartConfirmed
  PROVE  /\ plan \in PlanRecord /\ Sensible(plan)
         /\ \E f \in Fetched(plan) :
              /\ Begin(Host, plan.op, f.version, f.content)
              /\ plan.op \in Replacing => f.version \in Versions /\ f.content \in Contents
              /\ plan.op = "downgrade" => f.version = plan.target /\ plan.target \in Versions
              /\ plan.from = "catalog" => f.version = plan.target /\ f.content = plan.content
              /\ plan.from = "source" => source # None /\ f = source
<1>1. plan \in PlanRecord /\ Sensible(plan)
  BY DEF PlansFit, CallFits, StartConfirmed, InCall, Asked
<1>2. PICK f \in Fetched(plan) : Begin(Host, plan.op, f.version, f.content)
  BY DEF StartConfirmed
<1>3. plan.from \in {"catalog", "source", "store"}
  BY <1>1 DEF PlanRecord
<1>4. CASE plan.from = "catalog"
  BY <1>1, <1>2, <1>4 DEF Sensible, Fetched, Replacing
<1>5. CASE plan.from = "source"
  BY <1>1, <1>2, <1>5, SourceGives DEF Sensible, Fetched, Replacing
<1>6. CASE plan.from = "store"
  BY <1>1, <1>2, <1>6 DEF Sensible, Fetched, Replacing
<1> QED BY <1>1, <1>3, <1>4, <1>5, <1>6

LEMMA FitInit == ChangeInit => Fit
<1> SUFFICES ASSUME ChangeInit PROVE Fit
  OBVIOUS
<1>1. index \in Entry \cup {None} /\ (index # None => Coherent(index))
  BY InheritedAssumption DEF ChangeInit, StoreInit
<1>2. torn \subseteq Versions
  BY DEF ChangeInit, StoreInit
<1>3. packages \in [Versions -> Contents \cup {None, "partial"}]
  <2>1. \A v \in Versions : index # None => index.records[v] \in Contents \cup {None}
    BY <1>1 DEF Entry
  <2> QED BY <2>1 DEF ChangeInit, StoreInit, HasRecord
<1>4. setting \in Settings /\ temporary = Missing /\ job = [a \in Actors |-> None]
  BY DEF ChangeInit, StoreInit
<1>5. Shaped
  BY <1>1, <1>2, <1>3, <1>4 DEF Shaped, StoreTypes, Entered
<1> QED BY <1>4, <1>5 DEF ChangeInit, Fit, JobsFit, PlansFit, CallFits

LEMMA AskingFits ==
  ASSUME Fit, NEW op \in Operations, ResolveTarget(op)
  PROVE  PlansFit'
<1>1. \E from, v, c : /\ call' = Request(op, from, v, c)
                      /\ Request(op, from, v, c) \in Asked
                      /\ Sensible(Request(op, from, v, c))
  <2>1. CASE op \in {"install", "upgrade"}
             /\ \E asked \in Versions \cup {None} : \E v \in Resolved(catalog, asked) :
                   call' = Request(op, "catalog", v, catalog[v])
    <3>1. PICK asked \in Versions \cup {None} : \E v \in Resolved(catalog, asked) :
                   call' = Request(op, "catalog", v, catalog[v])
      BY <2>1
    <3>2. PICK v \in Resolved(catalog, asked) : call' = Request(op, "catalog", v, catalog[v])
      BY <3>1
    <3>3. v \in Published(catalog)
      BY <3>2 DEF Resolved
    <3>4. v \in Versions /\ catalog[v] \in Contents
      BY <3>3, CatalogGives DEF Fit
    <3> QED BY <2>1, <3>2, <3>4 DEF Request, Asked, Sensible, Replacing
  <2>2. CASE op \in {"install", "upgrade"} /\ source # None
             /\ call' = Request(op, "source", source.version, source.content)
    <3>1. source.version \in Versions /\ source.content \in Contents
      BY <2>2, SourceGives DEF Fit
    <3> QED BY <2>2, <3>1 DEF Request, Asked, Sensible, Replacing
  <2>3. CASE op = "downgrade" /\ \E v \in Versions : call' = Request(op, "store", v, None)
    BY <2>3 DEF Request, Asked, Sensible
  <2>4. CASE op \in {"rollback", "uninstall"} /\ call' = Request(op, "store", None, None)
    BY <2>4 DEF Request, Asked, Sensible
  <2> QED BY <2>1, <2>2, <2>3, <2>4 DEF ResolveTarget
<1>2. plan' = None /\ UNCHANGED <<catalog, source>>
  BY DEF ResolveTarget
<1> QED BY <1>1, <1>2 DEF Fit, PlansFit, CallFits, Sensible

LEMMA CheckingFits ==
  ASSUME Fit, CheckEntry
  PROVE  PlansFit'
<1>1. call \in Asked /\ Sensible(call)
  BY DEF CheckEntry, InCall, Fit, PlansFit, CallFits
<1>2. UNCHANGED <<catalog, source, plan>>
  BY DEF CheckEntry
<1>3. CASE ~(Readable(index) /\ Ready(call.op, call.target))
  BY <1>2, <1>3 DEF CheckEntry, Fit, PlansFit, CallFits
<1>4. CASE Readable(index) /\ Ready(call.op, call.target)
  <2> DEFINE again == call.op = "upgrade" /\ HasRecord(index, call.target)
             cat == IF call.from = "catalog" THEN catalog ELSE None
             src == IF call.from = "source" THEN source ELSE None
             p == [op |-> call.op, from |-> call.from, target |-> Target(call),
                   content |-> call.content, reactivates |-> again,
                   catalogDigest |-> cat, packageDigest |-> src,
                   storeDigest |-> None, used |-> FALSE, expired |-> FALSE]
  <2>1. call' = [phase |-> "checked", plan |-> p]
    BY <1>4 DEF CheckEntry
  <2>2. Target(call) \in Versions \cup {None} /\ (call.op # "rollback" => Target(call) = call.target)
    <3>1. CASE call.op = "rollback"
      <4>1. index # None /\ Len(index.history) >= 2 /\ index.history \in Seq(Versions)
        BY <1>4, <3>1, ReadsEntry DEF Ready, Fit, Entry
      <4> QED BY <3>1, <4>1 DEF Target
    <3>2. CASE call.op # "rollback"
      BY <1>1, <3>2 DEF Target, Asked
    <3> QED BY <3>1, <3>2
  <2>3. cat \in Catalogs \cup {None} /\ src \in Sources \cup {None} /\ again \in BOOLEAN
    BY DEF Fit, PlansFit
  <2> HIDE DEF cat, src, again
  <2>4. p \in PlanRecord /\ p.op = call.op /\ p.from = call.from /\ p.target = Target(call)
        /\ p.content = call.content
    BY <1>1, <2>2, <2>3 DEF PlanRecord, Asked
  <2> HIDE DEF p
  <2>5. Sensible(p)
    BY <1>1, <2>2, <2>4 DEF Sensible, Replacing
  <2>6. call' \in [phase : {"checked"}, plan : PlanRecord] /\ call'.plan = p
    BY <2>1, <2>4
  <2> QED BY <1>2, <2>5, <2>6 DEF Fit, PlansFit, CallFits, Sensible
<1> QED BY <1>3, <1>4

LEMMA PlanSteps ==
  ASSUME Fit, IssueToken \/ Expire \/ ConfirmToken
  PROVE  PlansFit'
<1>1. UNCHANGED <<catalog, source>>
  BY DEF IssueToken, Expire, ConfirmToken
<1>2. CASE IssueToken
  <2>1. call.plan \in PlanRecord /\ Sensible(call.plan)
        /\ index \in Entry \cup {None, Empty, Garbled}
    BY <1>2 DEF IssueToken, InCall, Fit, PlansFit, CallFits, Asked, Shaped, StoreTypes
  <2>2. plan' = [call.plan EXCEPT !.storeDigest = index] /\ call' = None
    BY <1>2 DEF IssueToken
  <2>3. plan' \in PlanRecord /\ plan'.op = call.plan.op /\ plan'.from = call.plan.from
        /\ plan'.target = call.plan.target /\ plan'.content = call.plan.content
    BY <2>1, <2>2 DEF PlanRecord
  <2> QED BY <1>1, <2>1, <2>2, <2>3 DEF Fit, PlansFit, CallFits, Sensible
<1>3. CASE Expire
  <2>1. plan \in PlanRecord /\ Sensible(plan) /\ plan' = [plan EXCEPT !.expired = TRUE]
        /\ call' = call /\ call = None
    BY <1>3 DEF Expire, Fit, PlansFit, Quiet, HostIdle
  <2>2. plan' \in PlanRecord /\ plan'.op = plan.op /\ plan'.from = plan.from
        /\ plan'.target = plan.target /\ plan'.content = plan.content
    BY <2>1 DEF PlanRecord
  <2> QED BY <1>1, <2>1, <2>2 DEF Fit, PlansFit, CallFits, Sensible
<1>4. CASE ConfirmToken
  <2>1. plan \in PlanRecord /\ Sensible(plan) /\ plan' = [plan EXCEPT !.used = TRUE]
        /\ call' = [phase |-> "confirmed"]
    BY <1>4 DEF ConfirmToken, Fit, PlansFit
  <2>2. plan' \in PlanRecord /\ plan'.op = plan.op /\ plan'.from = plan.from
        /\ plan'.target = plan.target /\ plan'.content = plan.content
    BY <2>1 DEF PlanRecord
  <2> QED BY <1>1, <2>1, <2>2 DEF Fit, PlansFit, CallFits, Sensible
<1> QED BY <1>2, <1>3, <1>4

LEMMA FitStep ==
  ASSUME Fit, [ChangeNext]_allVars
  PROVE  Fit'
<1>1. /\ Host \in Actors /\ Cli \in Actors
      /\ Shaped /\ JobsFit /\ PlansFit
  BY ChangeAssumption DEF Fit
<1>2. CASE \E op \in Operations : ResolveTarget(op)
  <2>1. PICK op \in Operations : ResolveTarget(op)
    BY <1>2
  <2>2. PlansFit' /\ UNCHANGED storeVars
    BY <2>1, AskingFits DEF ResolveTarget
  <2> QED BY <1>1, <2>2, StoreStays DEF Fit
<1>3. CASE (\E op \in Operations : CliCommand(op)) \/ (\E words \in Requests : CliRequest(words))
  <2>1. UNCHANGED stored /\ UNCHANGED changeVars
    BY <1>3 DEF CliCommand, CliRequest
  <2>2. Shaped' /\ JobsFit'
    BY <1>1, <1>3, <2>1, CliBegins, BeginsFit
  <2> QED BY <1>1, <2>1, <2>2, PlansStay DEF Fit, changeVars
<1>4. CASE CheckEntry
  BY <1>1, <1>4, CheckingFits, StoreStays DEF CheckEntry, Fit
<1>5. CASE IssueToken \/ Expire \/ ConfirmToken
  BY <1>1, <1>5, PlanSteps, StoreStays DEF IssueToken, Expire, ConfirmToken, Fit
<1>6. CASE StartConfirmed
  <2>1. Shaped' /\ JobsFit'
    BY <1>1, <1>6, HostBegins, BeginsFit DEF StartConfirmed
  <2> QED BY <1>1, <1>6, <2>1 DEF StartConfirmed, Fit, PlansFit, CallFits
<1>7. CASE FailConfirmed
  BY <1>1, <1>7, StoreStays DEF FailConfirmed, Fit, PlansFit, CallFits
<1>8. CASE HostStep
  BY <1>1, <1>8, StepsFit, PlansStay DEF HostStep, Fit
<1>9. CASE CliStep \/ StopCli
  BY <1>1, <1>9, StepsFit, PlansStay DEF CliStep, StopCli, changeVars, Fit
<1>10. CASE EditCatalog \/ EditSource
  <2>1. UNCHANGED storeVars /\ UNCHANGED <<call, plan>> /\ catalog' \in Catalogs /\ source' \in Sources
    BY <1>1, <1>10 DEF EditCatalog, EditSource, PlansFit
  <2> QED BY <1>1, <2>1, StoreStays DEF Fit, PlansFit, CallFits
<1>11. CASE StartRun \/ EndRun
  BY <1>1, <1>11, StoreStays, PlansStay DEF StartRun, EndRun, Fit
<1>12. CASE StopHost
  <2>1. Shaped' /\ JobsFit'
    BY <1>1, <1>12, StepsFit DEF StopHost
  <2> QED BY <1>1, <1>12, <2>1 DEF StopHost, Fit, PlansFit, CallFits
<1>13. CASE UNCHANGED allVars
  BY <1>1, <1>13, StoreStays, PlansStay DEF allVars, changeVars, Fit
<1> QED BY <1>2, <1>3, <1>4, <1>5, <1>6, <1>7, <1>8, <1>9, <1>10, <1>11, <1>12, <1>13 DEF ChangeNext

LEMMA AlwaysFit == ChangeSpec => []Fit
BY FitInit, FitStep, PTL DEF ChangeSpec

----------------------------------------------------------------------------
(* One operation at a time: the store behind the index *)

Alone == /\ call # None => \A a \in Actors : Idle(a)
         /\ \A a, b \in Actors : ~Idle(a) /\ ~Idle(b) => a = b

\* The operation writes a package, in place of none or of one that does not count.
Staging(j) == j.op = "install" \/ (j.op = "upgrade" /\ ~HasRecord(j.loaded, j.version))

Saving == {"save", "write", "replace"}

\* The operation loaded the index as it is, and what is in the temporary file is its own.
Attached(j) ==
  /\ IF j.at = "remove" THEN index = None ELSE j.loaded = index
  /\ j.at \notin {"overwrite", "lost"}
  /\ j.at = "write" => temporary = Empty
  /\ j.at = "replace" => temporary = Result(j)
  /\ j.op = "install" /\ index # None => index.state = "dirty"
  /\ j.at \in {"clear", "copy"} => Staging(j)
  /\ Staging(j) /\ j.at \in Saving \cup {"copy"} /\ HasRecord(index, j.version) => j.version \in torn
  /\ Staging(j) /\ j.at \in Saving => packages[j.version] = j.content

Kept == \A v \in Versions : HasRecord(index, v) /\ v \notin torn => packages[v] = index.records[v]

Backed == /\ Alone
          /\ Readable(index)
          /\ \A a \in Actors : ~Idle(a) => Attached(job[a])
          /\ Kept

----------------------------------------------------------------------------
(* One operation at a time: what is carried out is what was planned *)

Newest(e) == \A v \in ToSet(e.history) : v <= Last(e.history)

\* The plan was made on this entry ...
Made(p, e) ==
  /\ p.op = "upgrade" => p.target # ActiveVersion(e) /\ (p.reactivates <=> HasRecord(e, p.target))
  /\ p.op = "downgrade" => p.target # ActiveVersion(e)
  /\ p.op = "rollback" => /\ e # None /\ Len(e.history) >= 2
                          /\ p.target = e.history[Len(e.history) - 1]

\* ... from this source.
Sourced(p) ==
  p.from = "source" => /\ p.packageDigest # None
                       /\ p.target = p.packageDigest.version
                       /\ p.content = p.packageDigest.content

Carries(p, j) ==
  /\ p \in PlanRecord /\ Sensible(p) /\ Made(p, j.loaded)
  /\ j.op = p.op
  /\ p.op # "uninstall" => j.version = p.target
  /\ p.op \in Replacing => j.content = p.content
  /\ p.op = "install" => ~Older(p.target, j.loaded)

Traceable ==
  /\ InCall("resolved") /\ call.from = "source" =>
       source # None /\ call.target = source.version /\ call.content = source.content
  /\ InCall("checked") => Made(call.plan, index) /\ Sourced(call.plan)
  /\ plan # None => Made(plan, plan.storeDigest) /\ Sourced(plan)
  /\ InCall("confirmed") => Made(plan, index) /\ Sourced(plan) /\ Bound(plan)
  /\ ~Idle(Host) => Carries(plan, job[Host])

Unrepaired == index # None /\ index.state = "dirty" => Newest(index)

Faithful == Traceable /\ Unrepaired /\ ConfirmedIsExecuted

LEMMA Busy ==
  ASSUME Alone, job \in [Actors -> Job \cup {None}], NEW a \in Actors, ~Idle(a)
  PROVE  call = None /\ \A b \in Actors \ {a} : job[b] = None
BY DEF Alone, Idle

LEMMA BeginsBacked ==
  ASSUME Fit, Backed, \A a \in Actors : Idle(a), call' = None,
         UNCHANGED stored,
         NEW a \in Actors, NEW op, NEW v, NEW c, Begin(a, op, v, c),
         op \in Replacing => v \in Versions /\ c \in Contents,
         op = "downgrade" => v \in Versions
  PROVE  Backed'
<1>1. PICK j \in Job :
           /\ job' = [job EXCEPT ![a] = j]
           /\ JobFits(j)
           /\ j.op = op /\ j.loaded = index /\ j.at \in {"clear", "save"}
           /\ op = "install" => CanInstall(v)
           /\ op \in Replacing => j.version = v /\ j.content = c
           /\ op = "upgrade" => CanUpgrade(v) /\ (j.at = "clear" => ~HasRecord(index, v))
                                /\ (j.at = "save" => HasRecord(index, v))
           /\ op = "install" => j.at = "clear"
           /\ op = "downgrade" => j.version = v
           /\ op = "rollback" => j.version = index.history[Len(index.history) - 1]
  BY Begins DEF Fit
<1>2. job \in [Actors -> Job \cup {None}]
  BY DEF Fit, Shaped, StoreTypes
<1>3. job'[a] = j /\ \A b \in Actors \ {a} : job'[b] = None
  BY <1>1, <1>2 DEF Idle
<1>4. Attached(j)
  BY <1>1 DEF Attached, Staging, Saving, JobFits, Replacing, CanInstall
<1>5. Attached(j)'
  BY <1>1, <1>4 DEF Attached, Staging, HasRecord, stored
<1>6. Alone'
  BY <1>3 DEF Alone, Idle
<1>7. ASSUME NEW b \in Actors, job'[b] # None
      PROVE  Attached(job[b])'
  <2>1. job'[b] = j
    BY <1>3, <1>7
  <2> QED BY <2>1, <1>5 DEF Attached, Staging, HasRecord
<1>8. Kept' /\ Readable(index)'
  BY DEF Backed, Kept, HasRecord, Readable, stored
<1> QED BY <1>6, <1>7, <1>8 DEF Backed, Idle

\* The rename publishes what this operation wrote (save).
LEMMA Replaces ==
  ASSUME Fit, Backed, NEW a \in Actors, ReplaceIndex(a)
  PROVE  /\ ~Idle(a) /\ job[a] \in Job /\ JobFits(job[a]) /\ Attached(job[a])
         /\ job[a].at = "replace" /\ job[a].loaded = index
         /\ index' = Result(job[a]) /\ packages' = packages /\ Readable(index')
         /\ job' = [job EXCEPT ![a] = Saved(job[a])]
<1>1. job \in [Actors -> Job \cup {None}] /\ Alone
  BY DEF Fit, Shaped, StoreTypes, Backed
<1>2. ~Idle(a) /\ job[a].at = "replace" /\ index' = temporary /\ packages' = packages
      /\ job' = [b \in Actors |-> IF b = a THEN Saved(job[a]) ELSE Renamed(job[b])]
  BY DEF ReplaceIndex
<1>3. job[a] \in Job /\ JobFits(job[a]) /\ Attached(job[a])
  BY <1>1, <1>2 DEF Fit, JobsFit, Backed, Idle
<1>4. job[a].loaded = index /\ index' = Result(job[a])
  BY <1>2, <1>3 DEF Attached
<1>5. Readable(index')
  BY <1>3, <1>4, Saves, SentinelAssumption DEF Readable
<1>6. \A b \in Actors \ {a} : Renamed(job[b]) = job[b]
  BY <1>1, <1>2, Busy DEF Renamed
<1>7. job' = [job EXCEPT ![a] = Saved(job[a])]
  BY <1>1, <1>2, <1>6
<1> QED BY <1>2, <1>3, <1>4, <1>5, <1>7

\* While an operation runs, what the index records is there, but for what the
\* operation replaces; and that does not count (_stage, _persist, save, uninstall).
LEMMA StepsBacked ==
  ASSUME ~setting.overlaps, Fit, Backed, NEW a \in Actors,
         FileStep(a) \/ FailStep(a) \/ Stop(a), call' \in {call, None}
  PROVE  Backed'
<1>1. /\ job \in [Actors -> Job \cup {None}]
      /\ packages \in [Versions -> Contents \cup {None, "partial"}]
      /\ torn \subseteq Versions
      /\ index \in Entry \cup {None} /\ (index # None => Coherent(index))
      /\ Alone /\ Kept /\ Readable(index)
  BY ReadsEntry DEF Fit, Shaped, StoreTypes, Backed
<1>2. ~Idle(a) => /\ job[a] \in Job /\ JobFits(job[a]) /\ Attached(job[a])
                  /\ call = None /\ \A b \in Actors \ {a} : job[b] = None
  BY <1>1, Busy DEF Fit, JobsFit, Backed, Idle
<1>3. ASSUME ~Idle(a), NEW k \in Job \cup {None}, job' = [job EXCEPT ![a] = k],
             (k # None => Attached(k))'
      PROVE  Alone' /\ \A b \in Actors : ~Idle(b)' => Attached(job[b])'
  <2>1. job'[a] = k /\ (\A b \in Actors \ {a} : job'[b] = None) /\ call' = None
    BY <1>1, <1>2, <1>3
  <2>2. Alone'
    BY <2>1 DEF Alone, Idle
  <2>3. ASSUME NEW b \in Actors, job'[b] # None
        PROVE  Attached(job[b])'
    <3>1. b = a /\ job'[b] = k
      BY <2>1, <2>3
    <3> QED BY <3>1, <2>3, <1>3 DEF Attached, Staging, HasRecord
  <2> QED BY <2>2, <2>3 DEF Idle
<1>4. CASE ClearPackage(a)
  <2> PICK j, k : j = job[a] /\ k = [j EXCEPT !.at = "copy"]
    OBVIOUS
  <2>1. ~Idle(a) /\ j.at = "clear" /\ j.version \in Versions /\ j.op \in Replacing /\ j.loaded = index
        /\ Staging(j) /\ j \in Job /\ JobFits(j) /\ (j.op = "install" /\ index # None => index.state = "dirty")
    BY <1>4, <1>2 DEF ClearPackage, JobFits, Attached
  <2>2. /\ k \in Job /\ k # None /\ k.at = "copy" /\ k.op = j.op /\ k.loaded = j.loaded
        /\ k.version = j.version /\ k.content = j.content
    BY <2>1, JobAt DEF Steps
  <2>3. job' = [job EXCEPT ![a] = k] /\ index' = index
        /\ packages' = [packages EXCEPT ![j.version] = None]
        /\ torn' = IF HasRecord(index, j.version) /\ index.state = "dirty"
                   THEN torn \cup {j.version} ELSE torn
    BY <1>4, <2>1 DEF ClearPackage
  <2>4. HasRecord(index, j.version) => j.version \in torn'
    BY <2>1, <2>3 DEF Staging, HasRecord, Replacing
  <2>5. Attached(k)'
    BY <2>1, <2>2, <2>3, <2>4 DEF Attached, Staging, HasRecord, Saving
  <2>6. Alone' /\ \A b \in Actors : ~Idle(b)' => Attached(job[b])'
    BY <2>1, <2>2, <2>3, <2>5, <1>3
  <2>7. Kept'
    BY <1>1, <2>3, <2>4 DEF Kept, HasRecord
  <2> QED BY <1>1, <2>3, <2>6, <2>7 DEF Backed, Readable
<1>5. CASE CopyPackage(a)
  <2> PICK j, k : j = job[a] /\ k = [j EXCEPT !.at = "save"]
    OBVIOUS
  <2>1. ~Idle(a) /\ j.at = "copy" /\ j.version \in Versions /\ j.op \in Replacing /\ j.loaded = index
        /\ Staging(j) /\ j \in Job /\ JobFits(j) /\ (j.op = "install" /\ index # None => index.state = "dirty")
        /\ (HasRecord(index, j.version) => j.version \in torn)
    BY <1>5, <1>2 DEF CopyPackage, JobFits, Attached
  <2>2. /\ k \in Job /\ k # None /\ k.at = "save" /\ k.op = j.op /\ k.loaded = j.loaded
        /\ k.version = j.version /\ k.content = j.content
    BY <2>1, JobAt DEF Steps
  <2>3. job' = [job EXCEPT ![a] = k] /\ index' = index /\ torn' = torn
        /\ packages' = [packages EXCEPT ![j.version] = j.content]
    BY <1>5 DEF CopyPackage
  <2>5. Attached(k)'
    BY <1>1, <2>1, <2>2, <2>3 DEF Attached, Staging, HasRecord, Saving
  <2>6. Alone' /\ \A b \in Actors : ~Idle(b)' => Attached(job[b])'
    BY <2>1, <2>2, <2>3, <2>5, <1>3
  <2>7. Kept'
    BY <1>1, <2>1, <2>3 DEF Kept, HasRecord
  <2> QED BY <1>1, <2>3, <2>6, <2>7 DEF Backed, Readable
<1>6. CASE OpenTemporary(a) \/ WriteTemporary(a)
  <2> PICK j : j = job[a]
    OBVIOUS
  <2>1. /\ ~Idle(a) /\ j \in Job /\ JobFits(j) /\ Attached(j)
        /\ j.at \in {"save", "write"} /\ j.loaded = index
    BY <1>6, <1>2 DEF OpenTemporary, WriteTemporary, Attached
  <2>2. /\ index' = index /\ packages' = packages /\ torn' = torn
        /\ \/ temporary' = Empty /\ job' = [job EXCEPT ![a] = [j EXCEPT !.at = "write"]]
           \/ temporary' = Result(j) /\ job' = [job EXCEPT ![a] = [j EXCEPT !.at = "replace"]]
    BY <1>6, <2>1 DEF OpenTemporary, WriteTemporary, Attached, Written
  <2>3. PICK at \in {"write", "replace"} :
          /\ job' = [job EXCEPT ![a] = [j EXCEPT !.at = at]]
          /\ temporary' = IF at = "write" THEN Empty ELSE Result(j)
    BY <2>2
  <2> PICK k : k = [j EXCEPT !.at = at]
    OBVIOUS
  <2>4. /\ k \in Job /\ k # None /\ k.at = at /\ k.op = j.op /\ k.loaded = j.loaded
        /\ k.version = j.version /\ k.content = j.content /\ Result(k) = Result(j)
    <3>1. at \in Steps /\ at \notin {"clear", "copy", "remove"}
      BY DEF Steps
    <3> QED BY <2>1, <3>1, JobAt
  <2>5. Attached(k)'
    BY <2>1, <2>2, <2>3, <2>4 DEF Attached, Staging, HasRecord, Saving
  <2>6. Alone' /\ \A b \in Actors : ~Idle(b)' => Attached(job[b])'
    BY <2>1, <2>3, <2>4, <2>5, <1>3
  <2> QED BY <1>1, <2>2, <2>6 DEF Backed, Kept, HasRecord, Readable
<1>7. CASE ReplaceIndex(a)
  <2> PICK j, k : j = job[a] /\ k = Saved(j)
    OBVIOUS
  <2>1. ~Idle(a) /\ j.at = "replace" /\ j.loaded = index /\ j \in Job /\ JobFits(j) /\ Attached(j)
        /\ job' = [job EXCEPT ![a] = k] /\ packages' = packages /\ index' = Result(j)
        /\ Readable(index)'
    BY <1>7, Replaces DEF Readable
  <2>2. torn' = IF j.op = "uninstall" THEN {}
                ELSE IF j.op = "install" THEN torn \ {j.version} ELSE torn
    BY <1>7 DEF ReplaceIndex
  <2>3. CASE j.op = "uninstall"
    <3>1. k \in Job /\ k # None /\ k.at = "remove" /\ k.op = "uninstall"
      BY <2>1, <2>3, JobAt DEF Saved, Steps
    <3>2. index' = None
      BY <2>1, <2>3 DEF Result
    <3>3. Attached(k)'
      BY <3>1, <3>2 DEF Attached, Staging, Saving
    <3>4. Alone' /\ \A b \in Actors : ~Idle(b)' => Attached(job[b])'
      BY <2>1, <3>1, <3>3, <1>3
    <3> QED BY <2>1, <3>2, <3>4 DEF Backed, Kept, HasRecord
  <2>4. CASE j.op # "uninstall"
    <3>0. k = None
      BY <2>4 DEF Saved
    <3>1. Alone' /\ \A b \in Actors : ~Idle(b)' => Attached(job[b])'
      BY <2>1, <3>0, <1>3
    <3>2. CASE Staging(j)
      <4>1. j.version \in Versions /\ j.content \in Contents /\ packages[j.version] = j.content
        BY <2>1, <3>2 DEF JobFits, Staging, Replacing, Attached, Saving
      <4>2. index' = Upsert(index, j.version, j.content)
        BY <2>1, <3>2 DEF Result, Staging
      <4>3. /\ index'.records[j.version] = j.content
            /\ \A w \in Versions \ {j.version} :
                 index'.records[w] = IF index = None THEN None ELSE index.records[w]
        BY <4>1, <4>2, <1>1, UpsertKeeps
      <4>4. torn \subseteq torn' \cup {j.version}
        BY <2>2, <2>4
      <4> QED BY <2>1, <3>1, <4>1, <4>3, <4>4, <1>1 DEF Backed, Kept, HasRecord
    <3>3. CASE ~Staging(j)
      <4>1. j.op \in {"downgrade", "rollback"} \/ (j.op = "upgrade" /\ HasRecord(j.loaded, j.version))
        BY <2>1, <2>4, <3>3 DEF Staging, Job
      <4>2. index' = Reactivate(index, j.version) /\ index # None /\ j.version \in Versions
            /\ HasRecord(index, j.version)
        BY <2>1, <4>1 DEF Result, JobFits, Replacing
      <4>3. index'.records = index.records
        BY <4>2, <1>1, ReactivateKeeps
      <4>4. torn' = torn
        BY <2>2, <4>1
      <4> QED BY <2>1, <3>1, <4>2, <4>3, <4>4, <1>1 DEF Backed, Kept, HasRecord
    <3> QED BY <3>2, <3>3
  <2> QED BY <2>3, <2>4
<1>8. CASE KeepIndex(a)
  <2>1. ~Idle(a) /\ job' = [job EXCEPT ![a] = None] /\ UNCHANGED <<index, torn, packages>>
    BY <1>8 DEF KeepIndex, stored
  <2>2. Alone' /\ \A b \in Actors : ~Idle(b)' => Attached(job[b])'
    BY <2>1, <1>3
  <2> QED BY <1>1, <2>1, <2>2 DEF Backed, Kept, HasRecord, Readable
<1>9. CASE RemovePackages(a)
  <2>1. ~Idle(a) /\ index = None /\ job' = [job EXCEPT ![a] = None] /\ UNCHANGED <<index, torn>>
    BY <1>9, <1>2 DEF RemovePackages, Attached
  <2>2. Alone' /\ \A b \in Actors : ~Idle(b)' => Attached(job[b])'
    BY <2>1, <1>3
  <2> QED BY <1>1, <2>1, <2>2 DEF Backed, Kept, HasRecord, Readable
<1>10. CASE FailStep(a)
  <2>1. ~Idle(a) /\ job[a].at = "replace" /\ temporary = Missing
    BY <1>10 DEF FailStep
  <2>2. temporary = Result(job[a]) /\ Result(job[a]) \in Entry \cup {None}
    BY <2>1, <1>2, Saves DEF Attached
  <2> QED BY <2>1, <2>2, SentinelAssumption
<1>11. CASE Stop(a) /\ ~Idle(a)
  <2>1. job' = [job EXCEPT ![a] = None] /\ UNCHANGED <<index, torn>>
    BY <1>2, <1>11 DEF Stop, Attached
  <2>2. Alone' /\ \A b \in Actors : ~Idle(b)' => Attached(job[b])'
    BY <2>1, <1>11, <1>3
  <2>3. CASE UNCHANGED packages
    BY <1>1, <2>1, <2>2, <2>3 DEF Backed, Kept, HasRecord, Readable
  <2>4. CASE job[a].at = "copy" /\ packages' = [packages EXCEPT ![job[a].version] = "partial"]
    <3>1. HasRecord(index, job[a].version) => job[a].version \in torn
      BY <1>2, <1>11, <2>4 DEF Attached
    <3> QED BY <1>1, <2>1, <2>2, <2>4, <3>1 DEF Backed, Kept, HasRecord, Readable
  <2> QED BY <1>11, <2>3, <2>4 DEF Stop
<1>12. CASE Stop(a) /\ Idle(a)
  <2>1. job' = job /\ UNCHANGED <<index, temporary, torn, packages>>
    BY <1>1, <1>12 DEF Stop, Idle
  <2> QED BY <2>1, <1>12 DEF Backed, Alone, Idle, Attached, Staging, Kept, HasRecord, Readable
<1> QED BY <1>4, <1>5, <1>6, <1>7, <1>8, <1>9, <1>10, <1>11, <1>12 DEF FileStep

LEMMA Nobody ==
  ASSUME call = None, Idle(Host), Idle(Cli)
  PROVE  \A a \in Actors : Idle(a)
BY ChangeAssumption

LEMMA BackedInit == ChangeInit => Backed
<1> SUFFICES ASSUME ChangeInit PROVE Backed
  OBVIOUS
<1>1. \A a \in Actors : Idle(a)
  BY DEF ChangeInit, StoreInit, Idle
<1>2. Readable(index)
  BY InheritedAssumption, SentinelAssumption DEF ChangeInit, StoreInit, Readable
<1> QED BY <1>1, <1>2 DEF ChangeInit, StoreInit, Backed, Alone, Kept

LEMMA BackedStep ==
  ASSUME ~setting.overlaps, Fit, Backed, [ChangeNext]_allVars
  PROVE  Backed'
<1>1. Host \in Actors /\ Cli \in Actors
  BY ChangeAssumption
<1>2. ASSUME UNCHANGED storeVars, call' \in {call, None} \/ \A a \in Actors : Idle(a)
      PROVE  Backed'
  BY <1>2 DEF storeVars, stored, Backed, Alone, Idle, Attached, Staging, Kept, HasRecord, Readable
<1>3. CASE \E op \in Operations : ResolveTarget(op)
  <2>1. UNCHANGED storeVars /\ call = None /\ Idle(Host) /\ Idle(Cli)
    BY <1>3 DEF ResolveTarget, Quiet, HostIdle
  <2> QED BY <2>1, <1>2, Nobody
<1>4. CASE (\E op \in Operations : CliCommand(op)) \/ (\E words \in Requests : CliRequest(words))
  <2>1. UNCHANGED <<stored, call>> /\ call = None /\ Idle(Host) /\ Idle(Cli)
    BY <1>4 DEF CliCommand, CliRequest, Free, Quiet, HostIdle, changeVars
  <2>2. call' = None /\ \A a \in Actors : Idle(a)
    BY <2>1, Nobody
  <2> QED BY <1>1, <1>4, <2>1, <2>2, CliBegins, BeginsBacked DEF Fit
<1>5. CASE CheckEntry \/ IssueToken \/ FailConfirmed
  <2>1. UNCHANGED storeVars /\ call # None
    BY <1>5 DEF CheckEntry, IssueToken, FailConfirmed, InCall
  <2> QED BY <2>1, <1>2 DEF Backed, Alone
<1>6. CASE Expire \/ StartRun \/ EndRun \/ EditCatalog \/ EditSource
  BY <1>6, <1>2 DEF Expire, StartRun, EndRun, EditCatalog, EditSource
<1>7. CASE ConfirmToken
  <2>1. UNCHANGED storeVars /\ call = None /\ Idle(Host) /\ Idle(Cli)
    BY <1>7 DEF ConfirmToken, Quiet, HostIdle
  <2> QED BY <2>1, <1>2, Nobody
<1>8. CASE StartConfirmed
  <2>1. UNCHANGED stored /\ call' = None /\ \A a \in Actors : Idle(a)
    BY <1>8 DEF StartConfirmed, InCall, Backed, Alone
  <2> QED BY <1>1, <1>8, <2>1, HostBegins, BeginsBacked DEF Fit
<1>9. CASE HostStep \/ CliStep \/ StopCli \/ StopHost
  BY <1>1, <1>9, StepsBacked DEF HostStep, CliStep, StopCli, StopHost, changeVars
<1>10. CASE UNCHANGED allVars
  BY <1>10, <1>2 DEF allVars, changeVars
<1> QED BY <1>3, <1>4, <1>5, <1>6, <1>7, <1>8, <1>9, <1>10 DEF ChangeNext

LEMMA SettingStays ==
  ASSUME [ChangeNext]_allVars
  PROVE  /\ setting' = setting
         /\ setting.overlaps /\ executed = None => executed' = None
<1>1. ASSUME NEW a \in Actors, FileStep(a) \/ FailStep(a) \/ Stop(a)
      PROVE  setting' = setting
  BY <1>1 DEF FileStep, FailStep, Stop, ClearPackage, CopyPackage, RemovePackages, KeepIndex,
              OpenTemporary, WriteTemporary, ReplaceIndex, stored
<1>2. CASE HostStep \/ CliStep \/ StopHost \/ StopCli
  BY <1>1, <1>2, ChangeAssumption DEF HostStep, CliStep, StopHost, StopCli, changeVars
<1>3. CASE (\E op \in Operations : ResolveTarget(op) \/ CliCommand(op))
           \/ (\E words \in Requests : CliRequest(words))
  BY <1>3 DEF ResolveTarget, CliCommand, CliRequest, storeVars, stored, changeVars
<1>4. CASE CheckEntry \/ IssueToken \/ Expire \/ ConfirmToken \/ StartConfirmed \/ FailConfirmed
  BY <1>4 DEF CheckEntry, IssueToken, Expire, ConfirmToken, StartConfirmed, FailConfirmed,
              storeVars, stored
<1>5. CASE EditCatalog \/ EditSource \/ StartRun \/ EndRun \/ UNCHANGED allVars
  BY <1>5 DEF EditCatalog, EditSource, StartRun, EndRun, allVars, storeVars, stored, changeVars
<1> QED BY <1>2, <1>3, <1>4, <1>5 DEF ChangeNext

\* What holds wherever operations do not overlap is kept apart from what always does.
LEMMA AlwaysBacked == ChangeSpec => [](Fit /\ (~setting.overlaps => Backed))
<1>1. Fit /\ (~setting.overlaps => Backed) /\ [ChangeNext]_allVars => (~setting.overlaps => Backed)'
  BY BackedStep, SettingStays
<1>2. ChangeInit => (~setting.overlaps => Backed)
  BY BackedInit
<1> QED BY <1>1, <1>2, AlwaysFit, PTL DEF ChangeSpec

\* Whatever plans, commands and stops do to each other, also in the middle of one
\* another and through one temporary file, an index that can be read can be rolled back;
\* and one operation at a time it can be read, wherever a save stops (save, upsert, _reactivate).
THEOREM IndexStaysCoherent == ChangeSpec => []IndexIsCoherent
<1>1. Fit /\ (~setting.overlaps => Backed) => IndexIsCoherent
  BY DEF Fit, Shaped, Backed, IndexIsCoherent
<1> QED BY <1>1, AlwaysBacked, PTL

\* A stop between any two file steps, or in the middle of a copy or a save, never leaves an
\* installed entry whose active contract is gone or is another than the one recorded.
THEOREM ActiveContractStays == ChangeSpec => []ActiveContractLoads
<1>1. Fit /\ (~setting.overlaps => Backed) => ActiveContractLoads
  <2> SUFFICES ASSUME Fit, Backed, index # None, index.state = "installed",
                      ActiveVersion(index) \notin torn
               PROVE  LoadInstalled # None
    BY DEF ActiveContractLoads
  <2> DEFINE v == ActiveVersion(index)
  <2>1. index \in Entry /\ Entered(index) /\ v \in Versions /\ HasRecord(index, v)
    BY ReadsEntry, ActiveIsLast DEF Fit, Backed
  <2>2. packages[v] = index.records[v] /\ index.records[v] \in Contents
    BY <2>1 DEF Backed, Kept, HasRecord, Entry
  <2>3. v # None
    BY <2>1, SentinelAssumption
  <2> HIDE DEF v
  <2>4. LoadInstalled = [version |-> v, content |-> packages[v]]
    BY <2>1, <2>2, <2>3 DEF LoadInstalled, Loadable, v
  <2> QED BY <2>1, <2>2, <2>4, SentinelAssumption
<1> QED BY <1>1, AlwaysBacked, PTL

\* An entry is dirty as it was inherited, until an operation on it completes.
LEMMA StaysUnrepaired ==
  ASSUME ~setting.overlaps, Fit, Backed, Unrepaired, NEW a \in Actors, FileStep(a) \/ FailStep(a)
  PROVE  Unrepaired'
<1>0. job[a] # None => Attached(job[a])
  BY DEF Backed, Idle
<1>1. CASE ~ReplaceIndex(a)
  <2>1. index' = index
    BY <1>0, <1>1 DEF FileStep, FailStep, ClearPackage, CopyPackage, RemovePackages, KeepIndex, OpenTemporary,
                WriteTemporary, Attached, Idle, stored
  <2> QED BY <2>1 DEF Unrepaired, Newest
<1>2. CASE ReplaceIndex(a)
  <2> PICK j : j = job[a]
    OBVIOUS
  <2>1. j \in Job /\ JobFits(j) /\ j.loaded = index /\ index \in Entry \cup {None}
        /\ index' = Result(j)
        /\ (index # None => Coherent(index))
    BY <1>2, Replaces, ReadsEntry DEF Fit, Backed
  <2>2. CASE j.op = "uninstall"
    BY <2>1, <2>2 DEF Result, Unrepaired
  <2>3. CASE j.op = "install" \/ (j.op = "upgrade" /\ ~HasRecord(j.loaded, j.version))
    <3>1. index' = Upsert(index, j.version, j.content) /\ j.version \in Versions /\ j.content \in Contents
      BY <2>1, <2>3 DEF Result, JobFits, Replacing
    <3>2. index'.state = "installed"
      BY <2>1, <3>1, UpsertKeeps
    <3> QED BY <3>2 DEF Unrepaired
  <2>4. CASE j.op \in {"downgrade", "rollback"} \/ (j.op = "upgrade" /\ HasRecord(j.loaded, j.version))
    <3>1. index' = Reactivate(index, j.version) /\ j.version \in Versions /\ HasRecord(index, j.version)
          /\ index # None
      BY <2>1, <2>4 DEF Result, JobFits, Replacing
    <3>2. index' = index \/ index'.state = "installed"
      BY <2>1, <3>1, ReactivateKeeps
    <3> QED BY <3>2 DEF Unrepaired, Newest
  <2> QED BY <2>1, <2>2, <2>3, <2>4 DEF Job
<1> QED BY <1>1, <1>2

\* The save of a planned operation leaves what the plan showed (upsert, _reactivate).
LEMMA Completes ==
  ASSUME Fit, Backed, Traceable, Unrepaired, KeepIndex(Host) \/ ReplaceIndex(Host),
         job[Host].op # "uninstall"
  PROVE  /\ plan.op # "uninstall"
         /\ index' # None /\ index'.state = "installed"
         /\ ActiveVersion(index') = plan.target
         /\ plan.content # None /\ ~plan.reactivates => packages'[plan.target] = plan.content
<1>0. Host \in Actors
  BY ChangeAssumption
<1> PICK j : j = job[Host]
  OBVIOUS
<1>1. /\ j \in Job /\ JobFits(j) /\ Attached(j) /\ j.at \in Saving /\ j.loaded = index
      /\ Carries(plan, j)
      /\ index' = Result(j) /\ packages' = packages
      /\ index \in Entry \cup {None} /\ (index # None => Coherent(index))
  <2>1. index \in Entry \cup {None} /\ (index # None => Coherent(index))
    BY ReadsEntry DEF Fit, Backed
  <2>2. CASE KeepIndex(Host)
    BY <1>0, <2>1, <2>2 DEF KeepIndex, stored, Idle, Fit, Shaped, StoreTypes, JobsFit, Backed, Attached,
                            Traceable, Saving
  <2>3. CASE ReplaceIndex(Host)
    BY <1>0, <2>1, <2>3, Replaces DEF Traceable, Saving
  <2> QED BY <2>2, <2>3
<1>2. plan.op = j.op /\ j.op # "uninstall" /\ plan.target = j.version /\ Made(plan, index)
      /\ Sensible(plan) /\ plan \in PlanRecord
  BY <1>1 DEF Carries
<1>3. CASE Staging(j)
  <2>1. /\ j.version \in Versions /\ j.content \in Contents
        /\ packages[j.version] = j.content /\ plan.content = j.content
        /\ index' = Upsert(index, j.version, j.content)
    BY <1>1, <1>3 DEF Staging, JobFits, Replacing, Attached, Result, Carries
  <2>2. index # None /\ j.version \in ToSet(index.history) => j.version = ActiveVersion(index)
    <3> SUFFICES ASSUME index # None, j.version \in ToSet(index.history)
                 PROVE  j.version = ActiveVersion(index)
      OBVIOUS
    <3>1. HasRecord(index, j.version)
      BY <1>1 DEF Coherent, HasRecord
    <3>2. j.op = "install" /\ index.state = "dirty"
      BY <1>1, <1>3, <3>1 DEF Staging, Attached
    <3>3. j.version <= Last(index.history) /\ ~Older(j.version, index)
      BY <1>1, <1>2, <3>2 DEF Unrepaired, Newest, Carries
    <3>4. ActiveVersion(index) = Last(index.history) /\ ActiveVersion(index) \in Versions
      BY <1>1, ActiveIsLast DEF ActiveVersion, Coherent
    <3>5. ActiveVersion(index) # None
      BY <3>4, SentinelAssumption
    <3>6. ~(j.version < ActiveVersion(index)) /\ j.version <= ActiveVersion(index)
      BY <3>3, <3>4, <3>5 DEF Older
    <3>7. j.version \in Nat /\ ActiveVersion(index) \in Nat
      BY <2>1, <3>4, VersionsAssumption
    <3> QED BY <3>6, <3>7
  <2>3. index' \in Entry /\ Coherent(index') /\ index'.state = "installed" /\ index' # None
        /\ IF index # None /\ j.version \in ToSet(index.history)
           THEN index'.history = index.history ELSE ActiveVersion(index') = j.version
    BY <1>1, <2>1, UpsertKeeps, SentinelAssumption
  <2>4. ActiveVersion(index') = j.version
    BY <2>2, <2>3, <1>1 DEF ActiveVersion, Coherent
  <2> QED BY <1>1, <1>2, <2>1, <2>3, <2>4
<1>4. CASE ~Staging(j)
  <2>1. j.op \in {"downgrade", "rollback"} \/ (j.op = "upgrade" /\ HasRecord(index, j.version))
    BY <1>1, <1>2, <1>4 DEF Staging, Job
  <2>2. index' = Reactivate(index, j.version) /\ index \in Entry /\ Coherent(index)
        /\ j.version \in Versions /\ HasRecord(index, j.version)
    BY <1>1, <2>1 DEF Result, JobFits, Replacing
  <2>3. j.version # ActiveVersion(index)
    <3>1. CASE j.op = "rollback"
      <4>1. Len(index.history) >= 2 /\ j.version = index.history[Len(index.history) - 1]
        BY <1>2, <3>1 DEF Made
      <4>2. index.history[Len(index.history) - 1] # index.history[Len(index.history)]
        <5> DEFINE i == Len(index.history) - 1
        <5>1. i \in 1 .. Len(index.history) - 1 /\ i + 1 = Len(index.history)
          BY <2>2, <4>1, ActiveIsLast
        <5> QED BY <2>2, <5>1 DEF Coherent
      <4> QED BY <2>2, <4>1, <4>2, ActiveIsLast
    <3>2. CASE j.op # "rollback"
      BY <1>2, <2>1, <3>2 DEF Made
    <3> QED BY <3>1, <3>2
  <2>4. index' \in Entry /\ ActiveVersion(index') = j.version /\ index'.state = "installed"
    BY <2>2, <2>3, ReactivateKeeps
  <2>5. index' # None
    BY <2>4, SentinelAssumption
  <2>6. plan.content # None => plan.reactivates
    <3>1. CASE plan.from = "store"
      BY <1>2, <3>1 DEF Sensible
    <3>2. CASE plan.from # "store"
      BY <1>2, <2>1, <3>2 DEF Sensible, Made, Replacing
    <3> QED BY <3>1, <3>2
  <2> QED BY <1>2, <2>4, <2>5, <2>6
<1> QED BY <1>3, <1>4

LEMMA HostCompletes ==
  ASSUME ~setting.overlaps, Fit, Backed, Faithful, HostStep
  PROVE  Traceable' /\ ConfirmedIsExecuted'
<1>0. Host \in Actors /\ job \in [Actors -> Job \cup {None}]
  BY ChangeAssumption DEF Fit, Shaped, StoreTypes
<1>1. /\ ~Idle(Host) /\ call = None /\ call' = None /\ plan' = plan
      /\ job[Host] \in Job /\ JobFits(job[Host]) /\ Attached(job[Host])
      /\ Carries(plan, job[Host])
  <2>1. ~Idle(Host)
    BY DEF HostStep, FileStep, FailStep, ClearPackage, CopyPackage, RemovePackages, KeepIndex,
           OpenTemporary, WriteTemporary, ReplaceIndex
  <2> QED BY <2>1, <1>0 DEF HostStep, Faithful, Traceable, Backed, Alone, Idle, Fit, JobsFit
<1>1a. FileStep(Host) /\ ~FailStep(Host)
  <2>1. ASSUME FailStep(Host) PROVE FALSE
    <3>1. temporary = Missing /\ temporary = Result(job[Host]) /\ Result(job[Host]) \in Entry \cup {None}
      BY <2>1, <1>1, Saves DEF FailStep, Attached
    <3> QED BY <3>1, SentinelAssumption
  <2> QED BY <2>1 DEF HostStep
<1>1b. executed' = IF job'[Host] = None
                   THEN [plan |-> plan, entry |-> index', packages |-> packages']
                   ELSE executed
  BY <1>1a DEF HostStep
<1>0a. (plan # None => Made(plan, plan.storeDigest) /\ Sourced(plan))'
  BY <1>1 DEF Faithful, Traceable
<1> PICK j : j = job[Host]
  OBVIOUS
<1>2. ASSUME NEW at \in Steps,
             at \in {"clear", "copy"} => j.op \in Replacing,
             at = "remove" => j.op = "uninstall",
             job' = [job EXCEPT ![Host] = [j EXCEPT !.at = at]]
      PROVE  Traceable' /\ job'[Host] # None
  <2> PICK k : k = [j EXCEPT !.at = at]
    OBVIOUS
  <2>1. /\ k # None /\ k.op = j.op /\ k.loaded = j.loaded
        /\ k.version = j.version /\ k.content = j.content
    <3>1. j \in Job /\ JobFits(j)
      BY <1>1
    <3>2. (at \in {"clear", "copy"} => j.op \in Replacing) /\ (at = "remove" => j.op = "uninstall")
      BY <1>2
    <3> QED BY <3>1, <3>2, JobAt, ZenonT(60)
  <2>2. job'[Host] = k
    BY <1>0, <1>2
  <2>3. Carries(plan, k)
    BY <1>1, <2>1 DEF Carries
  <2>4. Carries(plan, job[Host])'
    BY <1>1, <2>2, <2>3 DEF Carries
  <2> QED BY <1>0a, <1>1, <2>1, <2>2, <2>4 DEF Traceable, InCall
<1>3. ASSUME job' = [job EXCEPT ![Host] = None]
      PROVE  Traceable' /\ job'[Host] = None
  BY <1>0, <1>0a, <1>1, <1>3 DEF Traceable, InCall, Idle
<1>4. CASE job'[Host] # None /\ Traceable'
  BY <1>1b, <1>4 DEF Faithful, ConfirmedIsExecuted, ActiveVersion
<1>5. CASE ClearPackage(Host) \/ CopyPackage(Host) \/ OpenTemporary(Host) \/ WriteTemporary(Host)
  <2>1. \E at \in Steps \ {"clear", "remove"} :
          /\ job' = [job EXCEPT ![Host] = [j EXCEPT !.at = at]]
          /\ at = "copy" => j.op \in Replacing
    BY <1>1, <1>5 DEF ClearPackage, CopyPackage, OpenTemporary, WriteTemporary, JobFits, Steps
  <2> QED BY <2>1, <1>2, <1>4
<1>6. CASE ReplaceIndex(Host) /\ j.op = "uninstall"
  <2>1. job' = [job EXCEPT ![Host] = [j EXCEPT !.at = "remove"]]
    BY <1>0, <1>6, Replaces DEF Saved
  <2> QED BY <2>1, <1>2, <1>4, <1>6 DEF Steps
<1>7. CASE KeepIndex(Host) \/ (ReplaceIndex(Host) /\ j.op # "uninstall")
  <2>1. job' = [job EXCEPT ![Host] = None]
    BY <1>0, <1>7, Replaces DEF KeepIndex, Saved
  <2>2. executed' = [plan |-> plan, entry |-> index', packages |-> packages']
    BY <2>1, <1>3, <1>1b
  <2>3. job[Host].op # "uninstall"
    BY <1>1, <1>7 DEF KeepIndex, Result, JobFits
  <2>4. /\ plan.op # "uninstall"
        /\ index' # None /\ index'.state = "installed"
        /\ ActiveVersion(index') = plan.target
        /\ plan.content # None /\ ~plan.reactivates => packages'[plan.target] = plan.content
    BY <1>7, <2>3, Completes DEF Faithful
  <2>5. executed'.plan = plan /\ executed'.entry = index' /\ executed'.packages = packages'
    BY <2>2
  <2> QED BY <2>1, <2>4, <2>5, <1>3 DEF ConfirmedIsExecuted, ActiveVersion
<1>8. CASE RemovePackages(Host)
  <2>1. job' = [job EXCEPT ![Host] = None] /\ packages' = [v \in Versions |-> None]
        /\ index' = index
    BY <1>8 DEF RemovePackages
  <2>2. executed' = [plan |-> plan, entry |-> index', packages |-> packages']
    BY <2>1, <1>3, <1>1b
  <2>3. index = None /\ plan.op = "uninstall"
    BY <1>1, <1>8 DEF RemovePackages, Attached, JobFits, Carries
  <2>4. executed'.plan = plan /\ executed'.entry = index' /\ executed'.packages = packages'
    BY <2>2
  <2> QED BY <2>1, <2>3, <2>4, <1>3 DEF ConfirmedIsExecuted
<1> QED BY <1>1a, <1>5, <1>6, <1>7, <1>8 DEF FileStep

\* Each step of planning and confirming keeps the plan true to the entry, the catalog
\* and the source it was made from.
LEMMA PlanningFaithful ==
  ASSUME ~setting.overlaps, Fit, Backed, Faithful,
         (\E op \in Operations : ResolveTarget(op)) \/ CheckEntry \/ IssueToken
         \/ Expire \/ ConfirmToken \/ StartConfirmed \/ FailConfirmed
  PROVE  Traceable'
<1>0. /\ Host \in Actors /\ Cli \in Actors
      /\ job \in [Actors -> Job \cup {None}]
      /\ PlansFit
  BY ChangeAssumption DEF Fit, Shaped, StoreTypes
<1>1. CASE \E op \in Operations : ResolveTarget(op)
  <2> PICK op \in Operations : ResolveTarget(op)
    BY <1>1
  <2>1. plan' = None /\ job' = job /\ Idle(Host) /\ source' = source
    BY DEF ResolveTarget, Quiet, HostIdle, storeVars, stored
  <2>2. \E from, v, c : /\ call' = Request(op, from, v, c)
                        /\ from = "source" => source # None /\ v = source.version /\ c = source.content
    <3>1. CASE \E asked \in Versions \cup {None} : \E v \in Resolved(catalog, asked) :
                   call' = Request(op, "catalog", v, catalog[v])
      BY <3>1
    <3>2. CASE source # None /\ call' = Request(op, "source", source.version, source.content)
      BY <3>2
    <3>3. CASE \E v \in Versions : call' = Request(op, "store", v, None)
      BY <3>3
    <3>4. CASE call' = Request(op, "store", None, None)
      BY <3>4
    <3> QED BY <3>1, <3>2, <3>3, <3>4 DEF ResolveTarget
  <2>3. /\ call'.phase = "resolved"
        /\ call'.from = "source" => source # None /\ call'.target = source.version
                                    /\ call'.content = source.content
    BY <2>2 DEF Request
  <2> QED BY <2>1, <2>3 DEF Traceable, InCall, Idle
<1>2. CASE CheckEntry
  <2>1. /\ call \in Asked /\ Sensible(call) /\ call.phase = "resolved" /\ Idle(Host)
        /\ UNCHANGED <<index, job, source, plan>>
        /\ call.from = "source" =>
             source # None /\ call.target = source.version /\ call.content = source.content
    BY <1>0, <1>2 DEF CheckEntry, InCall, PlansFit, CallFits, Backed, Alone, storeVars, stored, Faithful, Traceable
  <2>2. plan' # None => Made(plan, plan.storeDigest)' /\ Sourced(plan)'
    BY <2>1 DEF Faithful, Traceable, Made, Sourced, ActiveVersion, HasRecord
  <2>3. CASE ~(Readable(index) /\ Ready(call.op, call.target))
    BY <1>2, <2>1, <2>2, <2>3 DEF CheckEntry, Traceable, InCall, Idle
  <2>4. CASE Readable(index) /\ Ready(call.op, call.target)
    <3> PICK p : p = [op |-> call.op, from |-> call.from, target |-> Target(call),
                      content |-> call.content,
                      reactivates |-> call.op = "upgrade" /\ HasRecord(index, call.target),
                      catalogDigest |-> IF call.from = "catalog" THEN catalog ELSE None,
                      packageDigest |-> IF call.from = "source" THEN source ELSE None,
                      storeDigest |-> None, used |-> FALSE, expired |-> FALSE]
      OBVIOUS
    <3>1. call' = [phase |-> "checked", plan |-> p]
      BY <1>2, <2>4 DEF CheckEntry
    <3>2. call'.phase = "checked" /\ call'.plan = p
      BY <3>1
    <3>3. /\ p.op = call.op /\ p.from = call.from /\ p.target = Target(call)
          /\ p.content = call.content
          /\ p.reactivates <=> call.op = "upgrade" /\ HasRecord(index, call.target)
          /\ p.packageDigest = IF call.from = "source" THEN source ELSE None
      OBVIOUS
    <3>4. Made(p, index)
      BY <2>4, <3>3 DEF Made, Ready, Target
    <3>5. Sourced(p)
      BY <2>1, <3>3 DEF Sourced, Target, Sensible, Replacing
    <3>6. Made(p, index)' /\ Sourced(p)'
      BY <2>1, <3>4, <3>5 DEF Made, Sourced, ActiveVersion, HasRecord
    <3> QED BY <2>1, <2>2, <3>2, <3>6 DEF Traceable, InCall, Idle, Made, Sourced
  <2> QED BY <2>3, <2>4
<1>3. CASE IssueToken
  <2>1. /\ call.plan \in PlanRecord /\ Made(call.plan, index) /\ Sourced(call.plan) /\ Idle(Host)
        /\ plan' = [call.plan EXCEPT !.storeDigest = index] /\ call' = None
        /\ UNCHANGED <<index, job>>
    BY <1>0, <1>3 DEF IssueToken, InCall, PlansFit, CallFits, Asked, Backed, Alone, storeVars, stored,
                      Faithful, Traceable
  <2> PICK p : p = [call.plan EXCEPT !.storeDigest = index]
    OBVIOUS
  <2>2. /\ p.op = call.plan.op /\ p.from = call.plan.from /\ p.target = call.plan.target
        /\ p.content = call.plan.content /\ p.reactivates = call.plan.reactivates
        /\ p.packageDigest = call.plan.packageDigest /\ p.storeDigest = index
    BY <2>1 DEF PlanRecord
  <2>3. Made(p, p.storeDigest) /\ Sourced(p)
    BY <2>1, <2>2 DEF Made, Sourced
  <2>4. plan' = p
    BY <2>1
  <2> QED BY <2>1, <2>3, <2>4 DEF Traceable, InCall, Idle, Made, Sourced, ActiveVersion, HasRecord
<1>4. CASE Expire
  <2>1. /\ plan # None /\ plan \in PlanRecord /\ Idle(Host) /\ call = None /\ call' = None
        /\ plan' = [plan EXCEPT !.expired = TRUE] /\ job' = job
        /\ Made(plan, plan.storeDigest) /\ Sourced(plan)
    BY <1>0, <1>4 DEF Expire, Quiet, HostIdle, PlansFit, Faithful, Traceable, storeVars, stored
  <2> PICK p : p = [plan EXCEPT !.expired = TRUE]
    OBVIOUS
  <2>2. /\ p.op = plan.op /\ p.from = plan.from /\ p.target = plan.target
        /\ p.content = plan.content /\ p.reactivates = plan.reactivates
        /\ p.packageDigest = plan.packageDigest /\ p.storeDigest = plan.storeDigest
    BY <2>1 DEF PlanRecord
  <2>3. Made(p, p.storeDigest) /\ Sourced(p)
    BY <2>1, <2>2 DEF Made, Sourced
  <2> QED BY <2>1, <2>3 DEF Traceable, InCall, Idle, Made, Sourced, ActiveVersion, HasRecord
<1>5. CASE ConfirmToken
  <2>1. /\ plan # None /\ plan \in PlanRecord /\ Idle(Host) /\ call' = [phase |-> "confirmed"]
        /\ plan' = [plan EXCEPT !.used = TRUE] /\ job' = job
        /\ UNCHANGED <<index, catalog, source>>
        /\ Made(plan, plan.storeDigest) /\ Sourced(plan) /\ plan.storeDigest = index /\ Bound(plan)
    BY <1>0, <1>5 DEF ConfirmToken, Quiet, HostIdle, PlansFit, Faithful, Traceable, storeVars, stored, Executable
  <2> PICK p : p = [plan EXCEPT !.used = TRUE]
    OBVIOUS
  <2>2. /\ p.op = plan.op /\ p.from = plan.from /\ p.target = plan.target
        /\ p.content = plan.content /\ p.reactivates = plan.reactivates
        /\ p.packageDigest = plan.packageDigest /\ p.storeDigest = plan.storeDigest
        /\ p.catalogDigest = plan.catalogDigest
    BY <2>1 DEF PlanRecord
  <2>3. Made(p, p.storeDigest) /\ Sourced(p) /\ Made(p, index) /\ Bound(p)
    BY <2>1, <2>2 DEF Made, Sourced, Bound
  <2>4. plan' = p /\ call'.phase = "confirmed"
    BY <2>1
  <2> QED BY <2>1, <2>3, <2>4 DEF Traceable, InCall, Idle, Made, Sourced, Bound, ActiveVersion, HasRecord
<1>6. CASE StartConfirmed
  <2>1. /\ Made(plan, index) /\ Sourced(plan) /\ Bound(plan) /\ call' = None
        /\ UNCHANGED <<index, plan>>
    BY <1>6 DEF StartConfirmed, Faithful, Traceable, stored
  <2>2. plan \in PlanRecord /\ Sensible(plan)
    BY <1>0, <1>6, HostBegins
  <2>3. PICK f \in Fetched(plan) :
              /\ Begin(Host, plan.op, f.version, f.content)
              /\ plan.op \in Replacing => f.version \in Versions /\ f.content \in Contents
              /\ plan.op = "downgrade" => f.version = plan.target /\ plan.target \in Versions
              /\ plan.from = "catalog" => f.version = plan.target /\ f.content = plan.content
              /\ plan.from = "source" => source # None /\ f = source
    BY <1>0, <1>6, HostBegins
  <2>4. PICK j \in Job :
           /\ job' = [job EXCEPT ![Host] = j]
           /\ j.op = plan.op /\ j.loaded = index
           /\ plan.op = "install" => CanInstall(f.version)
           /\ plan.op \in Replacing => j.version = f.version /\ j.content = f.content
           /\ plan.op = "downgrade" => j.version = f.version
           /\ plan.op = "rollback" => j.version = index.history[Len(index.history) - 1]
    BY <1>0, <2>3, Begins DEF Fit
  <2>5. plan.op \in Replacing => f.version = plan.target /\ f.content = plan.content
    BY <2>1, <2>2, <2>3 DEF Sensible, PlanRecord, Sourced, Bound, Replacing
  <2>6. plan.op \in {"install", "upgrade", "downgrade", "rollback", "uninstall"}
    BY <2>2 DEF PlanRecord, Operations
  <2>7. Carries(plan, j)
    BY <2>1, <2>2, <2>3, <2>4, <2>5, <2>6 DEF Carries, Made, CanInstall, Replacing
  <2>8. job'[Host] = j
    BY <1>0, <2>4
  <2> QED BY <2>1, <2>7, <2>8
          DEF Traceable, Faithful, InCall, Idle, Carries, Made, Sourced, Sensible, ActiveVersion, HasRecord, Older
<1>7. CASE FailConfirmed
  <2>1. call' = None /\ UNCHANGED <<index, job, plan>> /\ Idle(Host)
    BY <1>0, <1>7 DEF FailConfirmed, storeVars, stored, InCall, Backed, Alone
  <2> QED BY <2>1 DEF Traceable, Faithful, InCall, Idle, Made, Sourced, ActiveVersion, HasRecord
<1> QED BY <1>1, <1>2, <1>3, <1>4, <1>5, <1>6, <1>7

LEMMA OthersFaithful ==
  ASSUME Fit, Traceable, UNCHANGED plan, job'[Host] = job[Host],
         call' = call, call = None \/ UNCHANGED <<index, catalog, source>>
  PROVE  Traceable'
BY DEF Traceable, InCall, Idle, Carries, Made, Sourced, Bound, Sensible, ActiveVersion, HasRecord, Older

LEMMA FaithfulInit ==
  ASSUME \A e \in Inherited : e.state = "dirty" => Newest(e)
  PROVE  ChangeInit => Faithful
<1> SUFFICES ASSUME ChangeInit PROVE Faithful
  OBVIOUS
<1>1. Idle(Host)
  BY ChangeAssumption DEF ChangeInit, StoreInit, Idle
<1> QED BY <1>1 DEF ChangeInit, StoreInit, Faithful, Traceable, Unrepaired, InCall, ConfirmedIsExecuted

LEMMA FaithfulStep ==
  ASSUME ~setting.overlaps, Fit, Backed, Faithful, [ChangeNext]_allVars
  PROVE  Faithful'
<1>0. /\ Host \in Actors /\ Cli \in Actors /\ Host # Cli
      /\ job \in [Actors -> Job \cup {None}]
      /\ Traceable /\ Unrepaired /\ ConfirmedIsExecuted
  BY ChangeAssumption DEF Fit, Shaped, StoreTypes, Faithful
<1>1. ASSUME index' = index
      PROVE  Unrepaired'
  BY <1>0, <1>1 DEF Unrepaired, Newest
<1>2. ASSUME executed' = executed \/ executed' = None
      PROVE  ConfirmedIsExecuted'
  BY <1>0, <1>2 DEF ConfirmedIsExecuted, ActiveVersion
<1>3. CASE (\E op \in Operations : ResolveTarget(op)) \/ CheckEntry \/ IssueToken
           \/ Expire \/ ConfirmToken \/ StartConfirmed \/ FailConfirmed
  <2>1. Traceable'
    BY <1>3, PlanningFaithful
  <2>2. index' = index /\ (executed' = executed \/ executed' = None)
    BY <1>3 DEF ResolveTarget, CheckEntry, IssueToken, Expire, ConfirmToken, StartConfirmed,
                FailConfirmed, storeVars, stored
  <2> QED BY <2>1, <2>2, <1>1, <1>2 DEF Faithful
<1>4. CASE (\E op \in Operations : CliCommand(op)) \/ (\E words \in Requests : CliRequest(words))
  <2>1. UNCHANGED stored /\ UNCHANGED changeVars
    BY <1>4 DEF CliCommand, CliRequest
  <2>2. PICK op, v, c :
           /\ Begin(Cli, op, v, c)
           /\ op \in Replacing => v \in Versions /\ c \in Contents
           /\ op = "downgrade" => v \in Versions
    BY <1>4, CliBegins DEF Fit
  <2>3. PICK j \in Job : job' = [job EXCEPT ![Cli] = j]
    BY <1>0, <2>2, Begins DEF Fit
  <2>4. job'[Host] = job[Host]
    BY <1>0, <2>3
  <2> QED BY <1>0, <1>1, <1>2, <2>1, <2>4, OthersFaithful DEF Faithful, changeVars, stored
<1>5. CASE HostStep
  <2>1. Unrepaired'
    BY <1>0, <1>5, StaysUnrepaired DEF HostStep
  <2>2. Traceable' /\ ConfirmedIsExecuted'
    BY <1>5, HostCompletes
  <2> QED BY <2>1, <2>2 DEF Faithful
<1>6. CASE CliStep
  <2>1. ~Idle(Cli) /\ (FileStep(Cli) \/ FailStep(Cli)) /\ UNCHANGED changeVars
    BY <1>6 DEF CliStep, FileStep, FailStep, ClearPackage, CopyPackage, RemovePackages, KeepIndex,
                OpenTemporary, WriteTemporary, ReplaceIndex
  <2>2. call = None
    BY <1>0, <2>1 DEF Backed, Alone
  <2>3. job'[Host] = job[Host]
    <3>1. CASE ReplaceIndex(Cli)
      BY <1>0, <3>1, Replaces
    <3>2. CASE ~ReplaceIndex(Cli)
      BY <1>0, <2>1, <3>2 DEF FileStep, FailStep, ClearPackage, CopyPackage, RemovePackages, KeepIndex,
                              OpenTemporary, WriteTemporary
    <3> QED BY <3>1, <3>2
  <2> QED BY <1>0, <1>2, <2>1, <2>2, <2>3, StaysUnrepaired, OthersFaithful DEF Faithful, changeVars
<1>7. CASE StopCli
  <2>1. job'[Host] = job[Host] /\ index' = index /\ UNCHANGED changeVars
    <3>1. ~Idle(Cli) => Attached(job[Cli])
      BY <1>0 DEF Backed
    <3> QED BY <1>0, <1>7, <3>1 DEF StopCli, Stop, Attached
  <2> QED BY <1>0, <1>1, <1>2, <2>1, OthersFaithful DEF Faithful, changeVars
<1>8. CASE StopHost
  <2>1. job'[Host] = None /\ index' = index /\ call' = None /\ plan' = None /\ executed' = None
    <3>1. ~Idle(Host) => Attached(job[Host])
      BY <1>0 DEF Backed
    <3> QED BY <1>0, <1>8, <3>1 DEF StopHost, Stop, Attached
  <2> QED BY <1>1, <1>2, <2>1 DEF Faithful, Traceable, InCall, Idle
<1>9. CASE EditCatalog \/ EditSource
  <2>1. call = None /\ call' = None /\ plan' = plan /\ executed' = executed /\ UNCHANGED storeVars
    BY <1>9 DEF EditCatalog, EditSource, Free, Quiet, HostIdle
  <2> QED BY <1>0, <1>1, <1>2, <2>1, OthersFaithful DEF Faithful, storeVars, stored
<1>10. CASE StartRun \/ EndRun \/ UNCHANGED allVars
  <2>1. UNCHANGED storeVars /\ UNCHANGED <<catalog, source, call, plan, executed>>
    BY <1>10 DEF StartRun, EndRun, allVars, changeVars
  <2> QED BY <1>0, <1>1, <1>2, <2>1, OthersFaithful DEF Faithful, storeVars, stored
<1> QED BY <1>3, <1>4, <1>5, <1>6, <1>7, <1>8, <1>9, <1>10 DEF ChangeNext

\* A change that completes is the one the plan showed, whatever was published, written
\* or run from the command line between the plan and its token, and whatever stopped;
\* if the version a dirty entry has active is not older than another one in its history.
THEOREM ConfirmedChangesHappen ==
  ASSUME \A e \in Inherited : e.state = "dirty" => Newest(e)
  PROVE  ChangeSpec => []ConfirmedIsExecuted
<1> DEFINE Apart == (setting.overlaps => executed = None) /\ (~setting.overlaps => Faithful)
<1>1. Apart => ConfirmedIsExecuted
  BY DEF Faithful, ConfirmedIsExecuted
<1>2. ChangeInit => Apart
  BY FaithfulInit DEF ChangeInit
<1>3. Fit /\ (~setting.overlaps => Backed) /\ Apart /\ [ChangeNext]_allVars => Apart'
  BY FaithfulStep, SettingStays
<1> QED BY <1>1, <1>2, <1>3, AlwaysBacked, PTL DEF ChangeSpec
=============================================================================
