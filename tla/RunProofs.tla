------------------------------ MODULE RunProofs -----------------------------
(***************************************************************************)
(* What holds of an interactive Run (InteractiveRun), for any set of WorkItems, *)
(* decisions and receipts, whatever its saves do and however often it is   *)
(* restored; and of the provider a Run calls (ProviderExecution), for any  *)
(* registry, profiles, callers, sources and budgets.                       *)
(*                                                                         *)
(* Every copy of a Run, in memory and on disk, is Sound: its decisions are *)
(* closed under the packets, recoveries and receipts they rest on.  That is *)
(* more than EligibleRunsConform says, which speaks of the Runs that may finish *)
(* only, and it is what the calls preserve; the same holds of keeping the  *)
(* commits that were acknowledged.                                         *)
(***************************************************************************)
EXTENDS InteractiveRun, ProviderExecution, FiniteSetTheorems, TLAPS

Sound(r) ==
  /\ \A i \in WorkItem :
       r.decisions[i] # None =>
         /\ i \in r.items /\ i \in r.inspected
         /\ Recovered(r, i)
         /\ r.receipts[i] # None /\ r.receipts[i].result = OutcomeOf[r.decisions[i]]
  /\ \A i \in WorkItem : r.decisions[i] = None => r.receipts[i] = None
  /\ r.inspected \subseteq r.items

Keeps(r, commits) == \A a \in commits : r.receipts[a[1]] = a[2]

Good(r, commits) == r \in Run /\ Sound(r) /\ Keeps(r, commits)

RunInv ==
  /\ memory = None \/ Good(memory, acked)
  /\ ledger = None \/ Good(ledger, acked)
  /\ acked \subseteq WorkItem \X Receipt
  /\ ledger = None => acked = {}

-----------------------------------------------------------------------------
\* A Run that has only begun is sound, and has nothing to keep.
LEMMA StartedIsGood == Good(Started, {})
<1>1. Started \in Run
  BY DEF Started, Run, Terminal, Workflow
<1>2. Sound(Started)
  BY DEF Started, Sound
<1>. QED
  BY <1>1, <1>2 DEF Good, Keeps

\* Fields that Sound does not read may change freely.
LEMMA GoodAfterWorkflow ==
  ASSUME NEW r, NEW commits, Good(r, commits), NEW w \in Workflow
  PROVE  Good([r EXCEPT !.workflow = w], commits)
<1> DEFINE n == [r EXCEPT !.workflow = w]
<1>1. n \in Run
  BY DEF Good, Run
<1>2. /\ n.items = r.items /\ n.inspected = r.inspected /\ n.recovery = r.recovery
      /\ n.decisions = r.decisions /\ n.receipts = r.receipts
  BY DEF Good, Run
<1> HIDE DEF n
<1>3. Good(n, commits)
  BY <1>1, <1>2 DEF Good, Sound, Keeps, Recovered
<1>. QED
  BY <1>3 DEF n

\* What finish() changes is not read by Sound either.
LEMMA GoodAfterEnd ==
  ASSUME NEW r, NEW commits, Good(r, commits),
         NEW status \in Terminal, NEW fs \in SUBSET WorkItem
  PROVE  Good(Ended(r, status, fs), commits)
<1> DEFINE n == Ended(r, status, fs)
<1>1. n \in Run
  BY DEF Good, Run, Ended, Terminal, Workflow
<1>2. /\ n.items = r.items /\ n.inspected = r.inspected /\ n.recovery = r.recovery
      /\ n.decisions = r.decisions /\ n.receipts = r.receipts
  BY DEF Good, Run, Ended
<1> HIDE DEF n
<1>3. Good(n, commits)
  BY <1>1, <1>2 DEF Good, Sound, Keeps, Recovered
<1>. QED
  BY <1>3 DEF n

\* Discovery only adds items.
LEMMA GoodAfterDiscovery ==
  ASSUME NEW r, NEW commits, Good(r, commits), NEW found \in SUBSET WorkItem
  PROVE  /\ Good([r EXCEPT !.items = @ \cup found], commits)
         /\ Good([r EXCEPT !.items = @ \cup found, !.discovered = TRUE], commits)
<1> DEFINE n == [r EXCEPT !.items = @ \cup found]
           d == [r EXCEPT !.items = @ \cup found, !.discovered = TRUE]
<1>1. n \in Run /\ d \in Run
  BY DEF Good, Run
<1>2. /\ n.items = r.items \cup found /\ n.inspected = r.inspected
      /\ n.recovery = r.recovery /\ n.decisions = r.decisions /\ n.receipts = r.receipts
  BY DEF Good, Run
<1>3. /\ d.items = r.items \cup found /\ d.inspected = r.inspected
      /\ d.recovery = r.recovery /\ d.decisions = r.decisions /\ d.receipts = r.receipts
  BY DEF Good, Run
<1> HIDE DEF n, d
<1>4. Good(n, commits)
  BY <1>1, <1>2 DEF Good, Sound, Keeps, Recovered
<1>5. Good(d, commits)
  BY <1>1, <1>3 DEF Good, Sound, Keeps, Recovered
<1>. QED
  BY <1>4, <1>5 DEF n, d

\* An inspection, or its failure, of a discovered item.
LEMMA GoodAfterInspection ==
  ASSUME NEW r, NEW commits, Good(r, commits), NEW i \in WorkItem, i \in r.items
  PROVE  /\ Good([r EXCEPT !.inspected = @ \cup {i}, !.failures = @ \ {i}], commits)
         /\ Good([r EXCEPT !.failures = @ \cup {i}], commits)
<1> DEFINE n == [r EXCEPT !.inspected = @ \cup {i}, !.failures = @ \ {i}]
           d == [r EXCEPT !.failures = @ \cup {i}]
<1>1. n \in Run /\ d \in Run
  BY DEF Good, Run
<1>2. /\ n.items = r.items /\ n.inspected = r.inspected \cup {i}
      /\ n.recovery = r.recovery /\ n.decisions = r.decisions /\ n.receipts = r.receipts
  BY DEF Good, Run
<1>3. /\ d.items = r.items /\ d.inspected = r.inspected
      /\ d.recovery = r.recovery /\ d.decisions = r.decisions /\ d.receipts = r.receipts
  BY DEF Good, Run
<1> HIDE DEF n, d
<1>4. Good(n, commits)
  BY <1>1, <1>2 DEF Good, Sound, Keeps, Recovered
<1>5. Good(d, commits)
  BY <1>1, <1>3 DEF Good, Sound, Keeps, Recovered
<1>. QED
  BY <1>4, <1>5 DEF n, d

\* A recovery of an item without a decision cannot make a decision unsafe.
LEMMA GoodAfterRecovery ==
  ASSUME NEW r, NEW commits, Good(r, commits),
         NEW i \in WorkItem, NEW s \in Recovery, r.decisions[i] = None
  PROVE  Good([r EXCEPT !.recovery[i] = s], commits)
<1> DEFINE n == [r EXCEPT !.recovery[i] = s]
<1>1. n \in Run
  BY DEF Good, Run
<1>2. /\ n.items = r.items /\ n.inspected = r.inspected
      /\ \A j \in WorkItem : j # i => n.recovery[j] = r.recovery[j]
      /\ n.decisions = r.decisions /\ n.receipts = r.receipts
  BY DEF Good, Run
<1> HIDE DEF n
<1>3. Good(n, commits)
  BY <1>1, <1>2 DEF Good, Sound, Keeps, Recovered
<1>. QED
  BY <1>3 DEF n

\* A commit that was validated keeps the Run sound, and every receipt that was
\* acknowledged: it may repeat one, never replace it.
LEMMA GoodAfterCommit ==
  ASSUME RunInv, NEW i \in WorkItem, NEW d \in Proposal, NEW c \in Receipt,
         MayCommit(i, d, c)
  PROVE  Good(Committing(i, d, c), acked \cup {<<i, c>>})
<1> DEFINE n == Committing(i, d, c)
<1>1. Good(memory, acked)
  BY DEF RunInv, MayCommit, Running
<1>2. n \in Run
  BY <1>1 DEF Good, Run, Committing
<1>3. /\ n.items = memory.items /\ n.inspected = memory.inspected
      /\ n.recovery = memory.recovery
      /\ n.decisions[i] = d /\ n.receipts[i] = c
      /\ \A j \in WorkItem : j # i => /\ n.decisions[j] = memory.decisions[j]
                                      /\ n.receipts[j] = memory.receipts[j]
  BY <1>1 DEF Good, Run, Committing
<1>4. c # None /\ d # None
  BY RunAssumption DEF RunAssumption
<1>5. i \in memory.inspected /\ i \in memory.items
  BY <1>1 DEF MayCommit, Good, Sound
<1>6. c.result = OutcomeOf[d] /\ Recovered(memory, i)
  BY DEF MayCommit
<1> HIDE DEF n
<1>7. Sound(n)
  BY <1>1, <1>3, <1>4, <1>5, <1>6 DEF Good, Sound, Recovered
<1>8. Keeps(n, acked \cup {<<i, c>>})
  <2> SUFFICES ASSUME NEW a \in acked \cup {<<i, c>>} PROVE n.receipts[a[1]] = a[2]
    BY DEF Keeps
  <2>1. CASE a = <<i, c>>
    BY <2>1, <1>3
  <2>2. CASE a \in acked
    <3>1. a[1] \in WorkItem /\ a[2] \in Receipt /\ memory.receipts[a[1]] = a[2]
      BY <2>2, <1>1 DEF RunInv, Good, Keeps
    <3>2. a[2] # None
      BY <3>1, RunAssumption DEF RunAssumption
    <3>3. a[1] = i => a[2] = c
      BY <3>1, <3>2 DEF MayCommit
    <3>. QED
      BY <3>1, <3>3, <1>3
  <2>. QED
    BY <2>1, <2>2
<1>9. Good(n, acked \cup {<<i, c>>})
  BY <1>2, <1>7, <1>8 DEF Good
<1>. QED
  BY <1>9 DEF n

\* Naming the operation of a commit changes nothing else.
LEMMA GoodAfterNaming ==
  ASSUME NEW r, NEW commits, Good(r, commits), NEW op \in OperationName \cup {None}
  PROVE  Good([r EXCEPT !.named = @ \cup ({op} \ {None})], commits)
<1> DEFINE n == [r EXCEPT !.named = @ \cup ({op} \ {None})]
<1>1. n \in Run
  BY DEF Good, Run
<1>2. /\ n.items = r.items /\ n.inspected = r.inspected /\ n.recovery = r.recovery
      /\ n.decisions = r.decisions /\ n.receipts = r.receipts
  BY DEF Good, Run
<1> HIDE DEF n
<1>3. Good(n, commits)
  BY <1>1, <1>2 DEF Good, Sound, Keeps, Recovered
<1>. QED
  BY <1>3 DEF n

-----------------------------------------------------------------------------
\* Whatever a save does, it leaves one of the Runs it was given, or nothing new.
LEMMA SavePreserves ==
  ASSUME RunInv, NEW r, NEW back, NEW outcome, Save(r, back, outcome), acked' = acked,
         Good(r, acked), back = None \/ Good(back, acked)
  PROVE  RunInv'
<1>1. memory' \in {r, back} /\ ledger' \in {r, ledger}
  BY DEF Save, Written
<1>2. memory' = None \/ Good(memory', acked)
  BY <1>1
<1>3. ledger' = None \/ Good(ledger', acked)
  BY <1>1 DEF RunInv
<1>4. ledger' = None => acked = {}
  BY <1>1, RunAssumption DEF RunInv, Good, RunAssumption
<1>. QED
  BY <1>2, <1>3, <1>4 DEF RunInv

LEMMA RunInvInit == Init => RunInv
  BY DEF Init, RunInv

\* A Run is begun where nothing was acknowledged yet.
LEMMA BeginPreserves ==
  ASSUME RunInv, NEW outcome, Begin(outcome)
  PROVE  RunInv'
<1>1. acked = {} /\ Good(Started, acked)
  BY StartedIsGood DEF RunInv, Begin
<1>2. Save(Started, None, outcome) /\ acked' = acked
  BY DEF Begin
<1>. QED
  BY <1>1, <1>2, SavePreserves

\* A commit that returns is acknowledged, and is both in memory and on disk.
LEMMA CommitPreserves ==
  ASSUME RunInv, NEW i \in WorkItem, NEW d \in Proposal, NEW c \in Receipt,
         NEW op \in OperationName \cup {None}, NEW outcome,
         RecordCommit(i, d, c, op, outcome)
  PROVE  RunInv'
<1> DEFINE commits == acked \cup {<<i, c>>}
           n == [Committing(i, d, c) EXCEPT !.named = @ \cup ({op} \ {None})]
<1>1. Good(n, commits)
  BY GoodAfterCommit, GoodAfterNaming DEF RecordCommit
<1>2. Save(n, memory, outcome)
  BY DEF RecordCommit, Undone
<1>3. acked' = IF outcome = "saved" THEN commits ELSE acked
  BY DEF RecordCommit
<1>4. Good(memory, acked)
  BY DEF RecordCommit, MayCommit, Running, RunInv
<1> HIDE DEF n
<1>5. Good(n, acked)
  BY <1>1 DEF Good, Keeps
<1>6. n # None
  BY <1>1, RunAssumption DEF RunAssumption, Good
<1>7. CASE outcome = "saved"
  <2>1. memory' = n /\ ledger' = n /\ acked' = commits
    BY <1>2, <1>3, <1>7 DEF Save, Written
  <2>2. commits \subseteq WorkItem \X Receipt
    BY DEF RunInv
  <2>. QED
    BY <2>1, <2>2, <1>1, <1>6 DEF RunInv
<1>8. CASE outcome # "saved"
  <2>1. acked' = acked
    BY <1>3, <1>8
  <2>. QED
    BY <2>1, <1>2, <1>4, <1>5, SavePreserves
<1>. QED
  BY <1>7, <1>8

\* A commit refused for its operation's name changes memory all the same.
LEMMA RefusedCommitPreserves ==
  ASSUME RunInv, NEW i \in WorkItem, NEW d \in Proposal, NEW c \in Receipt,
         NEW op \in OperationName, RefuseCommit(i, d, c, op)
  PROVE  RunInv'
<1>1. Good(Committing(i, d, c), acked \cup {<<i, c>>})
  BY GoodAfterCommit DEF RefuseCommit
<1>2. Good(Committing(i, d, c), acked)
  BY <1>1 DEF Good, Keeps
<1>. QED
  BY <1>2 DEF RefuseCommit, RunInv

\* finish() leaves the Run ended, or ready to finish where that was made explicit.
LEMMA FinishPreserves ==
  ASSUME RunInv, NEW status \in Terminal, NEW fs \in SUBSET WorkItem, NEW outcome,
         Finish(status, fs, outcome)
  PROVE  RunInv'
<1>1. Good(memory, acked)
  BY DEF Finish, Running, RunInv
<1>2. "ready_to_finish" \in Workflow
  BY DEF Workflow
<1>3. Good(Ready(status), acked)
  BY <1>1, <1>2, GoodAfterWorkflow DEF Ready
<1>4. Good(Ended(Ready(status), status, fs), acked)
  BY <1>3, GoodAfterEnd
<1>. QED
  BY <1>3, <1>4, SavePreserves DEF Finish

LEMMA RunInvNext == RunInv /\ [Next]_vars => RunInv'
<1> SUFFICES ASSUME RunInv, [Next]_vars PROVE RunInv'
  OBVIOUS
<1>1. CASE Stop
  BY <1>1 DEF Stop, RunInv
<1>2. CASE Restore
  BY <1>2 DEF Restore, RunInv
<1>3. ASSUME NEW found \in SUBSET WorkItem, RefuseDiscovery(found) PROVE RunInv'
  <2>1. Good([memory EXCEPT !.items = @ \cup found], acked)
    BY <1>3, GoodAfterDiscovery DEF RefuseDiscovery, Running, RunInv
  <2>. QED
    BY <1>3, <2>1 DEF RefuseDiscovery, RunInv
<1>4. ASSUME NEW i \in WorkItem, NEW d \in Proposal, NEW c \in Receipt,
             NEW op \in OperationName, RefuseCommit(i, d, c, op)
      PROVE RunInv'
  BY <1>4, RefusedCommitPreserves
<1>5. ASSUME NEW outcome \in Result, Begin(outcome) PROVE RunInv'
  BY <1>5, BeginPreserves
<1>6. ASSUME NEW outcome \in Result, RecordNote(outcome) PROVE RunInv'
  BY <1>6, SavePreserves DEF RecordNote, Record, Running, RunInv
<1>7. ASSUME NEW outcome \in Result, NEW w \in Boundaries, RecordWorkflow(w, outcome)
      PROVE RunInv'
  <2>1. w \in Workflow
    BY RunAssumption DEF RunAssumption
  <2>2. Good([memory EXCEPT !.workflow = w], acked)
    BY <1>7, <2>1, GoodAfterWorkflow DEF RecordWorkflow, Running, RunInv
  <2>. QED
    BY <1>7, <2>2, SavePreserves DEF RecordWorkflow, Record
<1>8. ASSUME NEW outcome \in Result, NEW found \in SUBSET WorkItem,
             RecordDiscovery(found, outcome)
      PROVE RunInv'
  <2>1. Good([memory EXCEPT !.items = @ \cup found, !.discovered = TRUE], acked)
    BY <1>8, GoodAfterDiscovery DEF RecordDiscovery, Running, RunInv
  <2>. QED
    BY <1>8, <2>1, SavePreserves DEF RecordDiscovery, Record
<1>9. ASSUME NEW outcome \in Result, NEW i \in WorkItem, RecordInvestigation(i, outcome)
      PROVE RunInv'
  <2>1. Good([memory EXCEPT !.inspected = @ \cup {i}, !.failures = @ \ {i}], acked)
    BY <1>9, GoodAfterInspection DEF RecordInvestigation, Running, RunInv
  <2>. QED
    BY <1>9, <2>1, SavePreserves DEF RecordInvestigation, Record
<1>10. ASSUME NEW outcome \in Result, NEW i \in WorkItem,
              RecordInspectionFailure(i, outcome)
       PROVE RunInv'
  <2>1. Good([memory EXCEPT !.failures = @ \cup {i}], acked)
    BY <1>10, GoodAfterInspection DEF RecordInspectionFailure, Running, RunInv
  <2>. QED
    BY <1>10, <2>1, SavePreserves DEF RecordInspectionFailure, Record
<1>11. ASSUME NEW outcome \in Result, NEW i \in WorkItem, NEW s \in Recovery,
              RecordRecovery(i, s, outcome)
       PROVE RunInv'
  <2>1. Good([memory EXCEPT !.recovery[i] = s], acked)
    BY <1>11, GoodAfterRecovery DEF RecordRecovery, Running, RunInv
  <2>. QED
    BY <1>11, <2>1, SavePreserves DEF RecordRecovery, Record
<1>12. ASSUME NEW outcome \in Result, NEW i \in WorkItem, NEW d \in Proposal,
              NEW c \in Receipt, NEW op \in OperationName \cup {None},
              RecordCommit(i, d, c, op, outcome)
       PROVE RunInv'
  BY <1>12, CommitPreserves
<1>13. ASSUME NEW outcome \in Result, NEW status \in Terminal,
              NEW fs \in SUBSET WorkItem, Finish(status, fs, outcome)
       PROVE RunInv'
  BY <1>13, FinishPreserves
<1>14. CASE UNCHANGED vars
  BY <1>14 DEF vars, RunInv
<1>. QED
  BY <1>1, <1>2, <1>3, <1>4, <1>5, <1>6, <1>7, <1>8, <1>9, <1>10, <1>11, <1>12,
     <1>13, <1>14 DEF Next

LEMMA AlwaysRunInv == Spec => []RunInv
  BY RunInvInit, RunInvNext, PTL DEF Spec

-----------------------------------------------------------------------------
\* Every copy of the Run is well-formed.
THEOREM TypeCorrect == Spec => []TypeOK
<1>1. RunInv => TypeOK
  BY DEF RunInv, Good, TypeOK
<1>. QED
  BY <1>1, AlwaysRunInv, PTL

\* What validate_finish lets through, the conformance gate of the terminal save
\* accepts: soundness of the decisions is all that the two differ in.
THEOREM EligibleRunsAlwaysConform == Spec => []EligibleRunsConform
<1>1. RunInv => EligibleRunsConform
  <2> SUFFICES ASSUME RunInv, Running, NEW status \in Terminal,
                      NEW fs \in SUBSET WorkItem, MayFinish(memory, status, fs)
               PROVE  Conforms(Ended(memory, status, fs))
    BY DEF EligibleRunsConform
  <2> DEFINE n == Ended(memory, status, fs)
  <2>1. Good(memory, acked)
    BY DEF RunInv, Running
  <2>2. Good(n, acked)
    BY <2>1, GoodAfterEnd
  <2>3. /\ n.status = status /\ n.failures = memory.failures \cup fs
        /\ n.inspected = memory.inspected /\ n.decisions = memory.decisions
    BY <2>1 DEF Good, Run, Ended
  <2> HIDE DEF n
  <2>4. status = "completed" => n.failures = {} /\ n.inspected \subseteq Decided(n)
    BY <2>3 DEF MayFinish, Decided
  <2>5. Decided(n) \subseteq n.inspected
    BY <2>2 DEF Good, Sound, Decided
  <2>6. Conforms(n)
    BY <2>2, <2>3, <2>4, <2>5 DEF Good, Sound, Conforms, Decided
  <2>. QED
    BY <2>6 DEF n
<1>. QED
  BY <1>1, AlwaysRunInv, PTL

\* An acknowledged commit is on disk and in memory from then on.
THEOREM AcknowledgedCommitsAlwaysSurvive == Spec => []AcknowledgedCommitsSurvive
<1>1. RunInv => AcknowledgedCommitsSurvive
  BY DEF RunInv, Good, Keeps, AcknowledgedCommitsSurvive
<1>. QED
  BY <1>1, AlwaysRunInv, PTL

-----------------------------------------------------------------------------
(* The provider *)

-----------------------------------------------------------------------------
(* The shape of the state.                                                   *)

Busy == {"calling", "issuing", "storing"}
Steps == Busy \cup {"idle", "discovering", "admitting", "clearing", "closing", "releasing"}

Shape ==
  /\ pc \in [Callers -> Steps]
  /\ request = [t \in Callers |-> request[t]]
  /\ pending = [t \in Callers |-> pending[t]]
  /\ gathered = [t \in Callers |-> gathered[t]]
  /\ stored = [q \in Requests |-> stored[q]]
  /\ discovered = [c \in Capabilities |-> discovered[c]]
  /\ source \in [Sources -> Versions]
  /\ handed \subseteq Requests
  /\ binding.phase \in {"unbound", "refused", "failed", "bound"}
  /\ binding.granted \subseteq Capabilities
  /\ \A t \in Callers : pc[t] \in Busy \cup {"admitting"} => request[t] \in handed
  /\ \A t \in Callers : pc[t] = "discovering" => request[t] \in Capabilities

LEMMA ShapeInit == ProviderInit => Shape
BY RegistryAssumption DEF ProviderInit, Shape, Unbound, Steps, Busy, Versions

ProfileType == [allows : SUBSET Capabilities, concurrency : Nat]

\* Whoever binds, it is with profiles and for declared capabilities.
Bind ==
  \E required \in SUBSET Capabilities, named \in Providers \cup {None}, platform, user \in ProfileType :
    BindTo(required, named, platform, user)

LEMMA ControllerBinds ==
  ASSUME NEW c \in Capabilities, NEW named \in Providers \cup {None},
         NEW platform \in Profiles \cup {None}, NEW user \in Profiles \cup {None},
         BindForController(c, named, platform, user)
  PROVE  Bind
<1> DEFINE given(profile) == IF profile = None THEN JustEnough({c}) ELSE profile
<1>1. JustEnough({c}) \in ProfileType
  BY DEF JustEnough, ProfileType
<1>2. given(platform) \in ProfileType /\ given(user) \in ProfileType
  BY <1>1, RegistryAssumption DEF ProfileType
<1>3. BindTo({c}, named, given(platform), given(user))
  BY DEF BindForController
<1> HIDE DEF given
<1> QED BY <1>2, <1>3 DEF Bind

LEMMA CheckBinds ==
  ASSUME NEW required \in CheckRequires, BindForCheck(required)
  PROVE  Bind
<1>1. required \in SUBSET Capabilities
  BY RegistryAssumption
<1>2. JustEnough(required) \in ProfileType
  BY <1>1 DEF JustEnough, ProfileType
<1> QED BY <1>1, <1>2 DEF Bind, BindForCheck

LEMMA ShapeStep == Shape /\ [ProviderNext]_providerVars => Shape'
<1> SUFFICES ASSUME Shape, [ProviderNext]_providerVars PROVE Shape'
  OBVIOUS
<1> USE DEF Shape, Steps, Busy
<1>1. CASE Bind
  <2>1. PICK required \in SUBSET Capabilities, named \in Providers \cup {None},
             platform \in ProfileType, user \in ProfileType : BindTo(required, named, platform, user)
    BY <1>1 DEF Bind
  <2>2. binding'.phase \in {"unbound", "refused", "failed", "bound"} /\ binding'.granted \subseteq Capabilities
    BY <2>1 DEF BindTo, BindRefused, BindConstructs, Unbound
  <2> QED BY <2>1, <2>2 DEF BindTo, cache, evidence, thread
<1>2. ASSUME NEW s \in Sources, SourceChanges(s) PROVE Shape'
  <2>1. source' \in [Sources -> Versions]
    BY <1>2, RegistryAssumption DEF SourceChanges, Versions
  <2> QED BY <1>2, <2>1 DEF SourceChanges, cache, evidence, thread
<1>3. ASSUME NEW t \in Callers, NEW c \in Capabilities, Discover(t, c) PROVE Shape'
  BY <1>3 DEF Discover, evidence
<1>4. ASSUME NEW t \in Callers, Discovered(t) PROVE Shape'
  <2>1. handed \subseteq handed' /\ handed' \subseteq Requests
    BY <1>4 DEF Discovered, Requests
  <2>2. discovered' = [c \in Capabilities |-> discovered'[c]]
    BY <1>4 DEF Discovered
  <2> QED BY <1>4, <2>1, <2>2 DEF Discovered, evidence
<1>5. ASSUME NEW t \in Callers, NEW q \in Requests, Collect(t, q) PROVE Shape'
  BY <1>5 DEF Collect, cache, evidence
<1>6. ASSUME NEW t \in Callers, Admit(t) PROVE Shape'
  BY <1>6 DEF Admit, cache, evidence
<1>7. ASSUME NEW t \in Callers, Raises(t) PROVE Shape'
  BY <1>7 DEF Raises, Ends, cache, evidence
<1>8. ASSUME NEW t \in Callers, NEW code \in FailureCodes, Fails(t, code) PROVE Shape'
  BY <1>8 DEF Fails, Ends, cache, evidence
<1>9. ASSUME NEW t \in Callers, NEW facts \in FactLists, Answers(t, facts) PROVE Shape'
  BY <1>9 DEF Answers, Ends, cache, evidence
<1>10. ASSUME NEW t \in Callers, Issue(t) PROVE Shape'
  BY <1>10 DEF Issue, cache
<1>11. ASSUME NEW t \in Callers, Reject(t) PROVE Shape'
  BY <1>11 DEF Reject, Reset, cache, evidence
<1>12. ASSUME NEW t \in Callers, Store(t) PROVE Shape'
  BY <1>12 DEF Store, Reset, cache
<1>13. ASSUME NEW t \in Callers, Close(t) PROVE Shape'
  BY <1>13 DEF Close, cache, evidence
<1>14. ASSUME NEW t \in Callers, ClearDiscoveries(t) PROVE Shape'
  BY <1>14 DEF ClearDiscoveries, evidence
<1>15. ASSUME NEW t \in Callers, CloseProvider(t) PROVE Shape'
  BY <1>15 DEF CloseProvider, AfterProviderClose, cache, evidence
<1>16. ASSUME NEW t \in Callers, ReleaseLease(t) PROVE Shape'
  BY <1>16 DEF ReleaseLease, cache, evidence
<1>17. CASE UNCHANGED providerVars
  BY <1>17 DEF providerVars, cache, evidence, thread
<1> QED BY <1>1, <1>2, <1>3, <1>4, <1>5, <1>6, <1>7, <1>8, <1>9, <1>10, <1>11, <1>12, <1>13,
           <1>14, <1>15, <1>16, <1>17, ControllerBinds, CheckBinds DEF ProviderNext

\* Every reachable state has the shape.
THEOREM ShapeHolds == ProviderSpec => []Shape
<1>1. ProviderInit => Shape
  BY ShapeInit
<1>2. Shape /\ [ProviderNext]_providerVars => Shape'
  BY ShapeStep
<1> QED BY <1>1, <1>2, PTL DEF ProviderSpec

-----------------------------------------------------------------------------
(* WithinEveryLimit: what was negotiated is within what each party allows, the *)
(* counter is the number of calls inside, and a call enters only below the      *)
(* negotiated limit.                                                         *)

Negotiated ==
  Bound =>
    /\ binding.provider \in Providers
    /\ binding.limit \in Nat
    /\ binding.limit <= Concurrency[binding.provider]
    /\ binding.granted \subseteq Declares[binding.provider]
    /\ binding.platform \in ProfileType
    /\ binding.user \in ProfileType
    /\ \A p \in {binding.platform, binding.user} :
         /\ p.concurrency # 0 => binding.limit <= p.concurrency
         /\ binding.granted \subseteq p.allows

Counted ==
  /\ active = Cardinality(Inside)
  /\ Bound => active <= binding.limit
  /\ ~Bound => \A t \in Callers : pc[t] = "idle"
  /\ \A t \in Callers : pc[t] \in {"admitting", "calling"} => request[t].capability \in binding.granted

LimitInv == Shape /\ Negotiated /\ Counted

LEMMA LeastLimit ==
  ASSUME NEW p \in Providers, NEW platform \in ProfileType, NEW user \in ProfileType
  PROVE  /\ EffectiveLimit(p, platform, user) \in Nat
         /\ EffectiveLimit(p, platform, user) <= Concurrency[p]
         /\ platform.concurrency # 0 => EffectiveLimit(p, platform, user) <= platform.concurrency
         /\ user.concurrency # 0 => EffectiveLimit(p, platform, user) <= user.concurrency
<1>1. Concurrency[p] \in Nat /\ platform.concurrency \in Nat /\ user.concurrency \in Nat
  BY RegistryAssumption DEF ProfileType
<1> QED BY <1>1 DEF EffectiveLimit, Narrower

\* A bind that is made leaves what was negotiated.
LEMMA BindNegotiates == Bind => Negotiated'
<1> SUFFICES ASSUME Bind, Bound' PROVE Negotiated'
  BY DEF Negotiated
<1>1. PICK required \in SUBSET Capabilities, named \in Providers \cup {None},
           platform \in ProfileType, user \in ProfileType : BindTo(required, named, platform, user)
  BY DEF Bind
<1>2. BindConstructs(required, named, platform, user)
  BY <1>1 DEF BindTo, BindRefused, Bound, Unbound
<1>3. PICK p \in Candidates(required, named) :
        /\ Granted(p, required, platform, user) = required
        /\ \/ binding' = [phase |-> "bound", provider |-> p, granted |-> required,
                          limit |-> EffectiveLimit(p, platform, user),
                          platform |-> platform, user |-> user]
           \/ binding' = [Unbound EXCEPT !.phase = "failed"]
  BY <1>2 DEF BindConstructs
<1>4. binding' = [phase |-> "bound", provider |-> p, granted |-> required,
                  limit |-> EffectiveLimit(p, platform, user), platform |-> platform, user |-> user]
  BY <1>3 DEF Bound, Unbound
<1>5. p \in Providers
  BY DEF Candidates
<1>6. /\ required \subseteq Declares[p]
      /\ required \subseteq platform.allows
      /\ required \subseteq user.allows
  BY <1>3 DEF Granted
<1> QED BY <1>4, <1>5, <1>6, LeastLimit DEF Negotiated

LEMMA InsideIsFinite == IsFiniteSet(Inside) /\ Cardinality(Inside) \in Nat
<1>1. Inside \subseteq Callers /\ IsFiniteSet(Callers)
  BY RegistryAssumption DEF Inside
<1> QED BY <1>1, FS_Subset, FS_CardinalityType

\* A step that moves one thread between steps outside the provider.
LEMMA InsideStays ==
  ASSUME Shape, NEW t \in Callers, NEW step, pc[t] # "calling", step # "calling",
         pc' = [pc EXCEPT ![t] = step]
  PROVE  Inside' = Inside
BY DEF Inside, Shape

LEMMA LimitInvInit == ProviderInit => LimitInv
<1> SUFFICES ASSUME ProviderInit PROVE LimitInv
  OBVIOUS
<1>1. Inside = {}
  BY DEF ProviderInit, Inside
<1>2. Cardinality(Inside) = 0
  BY <1>1, FS_EmptySet
<1> QED BY <1>2, ShapeInit DEF ProviderInit, LimitInv, Negotiated, Counted, Bound, Unbound

LEMMA BindingStays == [ProviderNext]_providerVars => Bind \/ binding' = binding
BY ControllerBinds, CheckBinds
   DEF ProviderNext, providerVars, SourceChanges, Discover, Discovered, Collect, Admit, Raises, Fails, Answers, Ends,
       Issue, Reject, Store, Close, ClearDiscoveries, CloseProvider, ReleaseLease

LEMMA NegotiatedStep == Negotiated /\ [ProviderNext]_providerVars => Negotiated'
BY BindNegotiates, BindingStays DEF Negotiated, Bound

\* A step of one thread that neither enters nor leaves the provider.
LEMMA CountedElsewhere ==
  ASSUME Shape, Counted, NEW t \in Callers, NEW step,
         pc[t] # "calling", step # "calling", pc' = [pc EXCEPT ![t] = step],
         Bound, UNCHANGED <<binding, active>>,
         \A u \in Callers \ {t} : request'[u] = request[u],
         step = "admitting" => request'[t].capability \in binding.granted
  PROVE  Counted'
<1>1. Inside' = Inside
  BY InsideStays
<1>2. ~Bound' => \A u \in Callers : pc'[u] = "idle"
  BY DEF Bound
<1>3. \A u \in Callers : pc'[u] \in {"admitting", "calling"} => request'[u].capability \in binding'.granted
  BY DEF Counted, Shape
<1>4. active' = Cardinality(Inside') /\ (Bound' => active' <= binding'.limit)
  BY <1>1 DEF Counted, Bound
<1> QED BY <1>2, <1>3, <1>4 DEF Counted

\* A thread enters the provider.
LEMMA CountedCall ==
  ASSUME Shape, Negotiated, Counted, NEW t \in Callers, Bound,
         pc[t] = "admitting", HasRoom, pc' = [pc EXCEPT ![t] = "calling"],
         active' = active + 1, UNCHANGED <<binding, request>>
  PROVE  Counted'
<1>1. Inside' = Inside \cup {t} /\ t \notin Inside
  BY DEF Inside, Shape
<1>2. Cardinality(Inside') = Cardinality(Inside) + 1
  BY <1>1, InsideIsFinite, FS_AddElement
<1>3. active' <= binding'.limit
  BY InsideIsFinite DEF Counted, Negotiated, HasRoom
<1> QED BY <1>2, <1>3 DEF Counted, Shape, Bound

\* A call ends.
LEMMA CountedReturn ==
  ASSUME Shape, Negotiated, Counted, NEW t \in Callers, NEW step \in {"idle", "storing", "issuing"},
         Ends(t, step), Bound, \A u \in Callers \ {t} : request'[u] = request[u]
  PROVE  Counted'
<1>1. Inside' = Inside \ {t} /\ t \in Inside
  BY DEF Inside, Shape, Ends
<1>2. Cardinality(Inside') = Cardinality(Inside) - 1
  BY <1>1, InsideIsFinite, FS_RemoveElement
<1>3. active' = Cardinality(Inside') /\ (Bound' => active' <= binding'.limit)
  BY <1>2, InsideIsFinite DEF Counted, Negotiated, Ends, Bound
<1> QED BY <1>3 DEF Counted, Shape, Bound, Ends

LEMMA CountedStep == LimitInv /\ [ProviderNext]_providerVars => Counted'
<1> SUFFICES ASSUME LimitInv, [ProviderNext]_providerVars PROVE Counted'
  OBVIOUS
<1> USE DEF LimitInv
<1>0. \A t \in Callers : pc[t] # "idle" => Bound
  BY DEF Counted
<1>1. CASE Bind
  <2>1. \A t \in Callers : pc[t] = "idle"
    BY <1>1 DEF Bind, BindTo, Counted, Bound
  <2>2. Inside = {} /\ Inside' = {}
    BY <1>1, <2>1 DEF Bind, BindTo, thread, Inside
  <2>3. active = 0 /\ active' = Cardinality(Inside') /\ active' = 0
    BY <1>1, <2>2, FS_EmptySet DEF Bind, BindTo, Counted
  <2>4. Bound' => binding'.limit \in Nat
    BY <1>1, BindNegotiates DEF Negotiated
  <2> QED BY <1>1, <2>1, <2>3, <2>4 DEF Bind, BindTo, thread, Counted
<1>2. ASSUME NEW s \in Sources, SourceChanges(s) PROVE Counted'
  BY <1>2 DEF SourceChanges, thread, Counted, Inside, Bound
<1>3. ASSUME NEW t \in Callers, NEW c \in Capabilities, Discover(t, c) PROVE Counted'
  BY <1>3, CountedElsewhere DEF Discover, Shape
<1>4. ASSUME NEW t \in Callers, Discovered(t) PROVE Counted'
  BY <1>0, <1>4, CountedElsewhere DEF Discovered, Shape
<1>5. ASSUME NEW t \in Callers, NEW q \in Requests, Collect(t, q) PROVE Counted'
  BY <1>5, CountedElsewhere DEF Collect, Shape
<1>6. ASSUME NEW t \in Callers, Admit(t) PROVE Counted'
  BY <1>0, <1>6, CountedElsewhere, CountedCall DEF Admit, Shape
<1>7. ASSUME NEW t \in Callers, Raises(t) PROVE Counted'
  BY <1>0, <1>7, CountedReturn DEF Raises, Ends, Shape
<1>8. ASSUME NEW t \in Callers, NEW code \in FailureCodes, Fails(t, code) PROVE Counted'
  BY <1>0, <1>8, CountedReturn DEF Fails, Ends, Shape
<1>9. ASSUME NEW t \in Callers, NEW facts \in FactLists, Answers(t, facts) PROVE Counted'
  BY <1>0, <1>9, CountedReturn DEF Answers, Ends, Shape
<1>10. ASSUME NEW t \in Callers, Issue(t) PROVE Counted'
  BY <1>10 DEF Issue, Counted, Inside, Bound
<1>11. ASSUME NEW t \in Callers, Reject(t) PROVE Counted'
  BY <1>0, <1>11, CountedElsewhere DEF Reject, Reset, Shape
<1>12. ASSUME NEW t \in Callers, Store(t) PROVE Counted'
  BY <1>0, <1>12, CountedElsewhere DEF Store, Reset, Shape
<1>13. ASSUME NEW t \in Callers, Close(t) PROVE Counted'
  BY <1>13, CountedElsewhere DEF Close
<1>14. ASSUME NEW t \in Callers, ClearDiscoveries(t) PROVE Counted'
  BY <1>0, <1>14, CountedElsewhere DEF ClearDiscoveries
<1>15. ASSUME NEW t \in Callers, CloseProvider(t) PROVE Counted'
  BY <1>0, <1>15, CountedElsewhere DEF CloseProvider, AfterProviderClose
<1>16. ASSUME NEW t \in Callers, ReleaseLease(t) PROVE Counted'
  BY <1>0, <1>16, CountedElsewhere DEF ReleaseLease
<1>17. CASE UNCHANGED providerVars
  BY <1>17 DEF providerVars, thread, Counted, Inside, Bound
<1> QED BY <1>1, <1>2, <1>3, <1>4, <1>5, <1>6, <1>7, <1>8, <1>9, <1>10, <1>11, <1>12, <1>13,
           <1>14, <1>15, <1>16, <1>17, ControllerBinds, CheckBinds DEF ProviderNext

LEMMA LimitInvGives == LimitInv => WithinEveryLimit
<1> SUFFICES ASSUME LimitInv, Bound PROVE WithinEveryLimit
  BY DEF WithinEveryLimit
<1> DEFINE parties == {binding.platform, binding.user}
<1>1. Cardinality(Inside) \in Nat /\ Cardinality(Inside) <= binding.limit
  BY InsideIsFinite DEF LimitInv, Counted
<1>2. \A p \in parties : p.concurrency \in Nat
  BY DEF LimitInv, Negotiated, ProfileType
<1>3. Concurrency[binding.provider] \in Nat
  BY RegistryAssumption DEF LimitInv, Negotiated
<1>4. \A p \in parties : p.concurrency # 0 => Cardinality(Inside) <= p.concurrency
  BY <1>1, <1>2 DEF LimitInv, Negotiated
<1>5. \A t \in Inside : request[t].capability \in binding.granted
  BY DEF LimitInv, Counted, Inside
<1>6. Cardinality(Inside) <= Concurrency[binding.provider]
  BY <1>1, <1>3 DEF LimitInv, Negotiated
<1>7. \A t \in Inside : /\ request[t].capability \in Declares[binding.provider]
                        /\ \A p \in parties : request[t].capability \in p.allows
  BY <1>5 DEF LimitInv, Negotiated
<1> QED BY <1>4, <1>6, <1>7 DEF WithinEveryLimit

\* However many threads collect at once, the calls inside the provider stay
\* within the limits and the grants of the provider, the platform and the user.
THEOREM CallsStayWithinEveryLimit == ProviderSpec => []WithinEveryLimit
<1>1. ProviderInit => LimitInv
  BY LimitInvInit
<1>2. LimitInv /\ [ProviderNext]_providerVars => LimitInv'
  BY ShapeStep, NegotiatedStep, CountedStep DEF LimitInv
<1>3. LimitInv => WithinEveryLimit
  BY LimitInvGives
<1> QED BY <1>1, <1>2, <1>3, PTL DEF ProviderSpec
-----------------------------------------------------------------------------
(* SettledForever: only a call under way stores a result, and a call starts    *)
(* only for a request without one.                                           *)

KeepsSettled(q) == Settled(q)' /\ stored'[q] = stored[q]

\* A step of one thread that stores nothing and starts nothing for q.
LEMMA SettledElsewhere ==
  ASSUME Shape, NEW q \in Requests, Settled(q), NEW t \in Callers, NEW step,
         pc' = [pc EXCEPT ![t] = step], stored' = stored,
         \A u \in Callers \ {t} : request'[u] = request[u],
         request'[t] = q => step \notin {"calling", "issuing", "storing"}
  PROVE  KeepsSettled(q)
BY DEF Shape, Settled, KeepsSettled

LEMMA SettledStep ==
  ASSUME Shape, [ProviderNext]_providerVars, NEW q \in Requests, Settled(q)
  PROVE  KeepsSettled(q)
<1>0. \A t \in Callers : pc[t] \in {"calling", "issuing", "storing"} => request[t] # q
  BY DEF Settled
<1>1. CASE Bind
  BY <1>1 DEF Bind, BindTo, thread, evidence, Settled, KeepsSettled
<1>2. ASSUME NEW s \in Sources, SourceChanges(s) PROVE KeepsSettled(q)
  BY <1>2 DEF SourceChanges, thread, evidence, Settled, KeepsSettled
<1>3. ASSUME NEW t \in Callers, NEW c \in Capabilities, Discover(t, c) PROVE KeepsSettled(q)
  BY <1>3, SettledElsewhere DEF Discover, Shape, evidence
<1>4. ASSUME NEW t \in Callers, Discovered(t) PROVE KeepsSettled(q)
  BY <1>4, SettledElsewhere DEF Discovered, Shape, evidence
<1>5. ASSUME NEW t \in Callers, NEW r \in Requests, Collect(t, r) PROVE KeepsSettled(q)
  BY <1>5, SettledElsewhere DEF Collect, Shape, evidence
<1>6. ASSUME NEW t \in Callers, Admit(t) PROVE KeepsSettled(q)
  <2>1. request[t] = q => Replays(q)
    BY DEF Settled, Replays
  <2> QED BY <1>6, <2>1, SettledElsewhere DEF Admit, Shape, evidence
<1>7. ASSUME NEW t \in Callers, Raises(t) PROVE KeepsSettled(q)
  BY <1>7, SettledElsewhere DEF Raises, Ends, Shape, evidence
<1>8. ASSUME NEW t \in Callers, NEW code \in FailureCodes, Fails(t, code) PROVE KeepsSettled(q)
  BY <1>0, <1>8, SettledElsewhere DEF Fails, Ends, Shape, evidence
<1>9. ASSUME NEW t \in Callers, NEW facts \in FactLists, Answers(t, facts) PROVE KeepsSettled(q)
  BY <1>0, <1>9, SettledElsewhere DEF Answers, Ends, Shape, evidence
<1>10. ASSUME NEW t \in Callers, Issue(t) PROVE KeepsSettled(q)
  BY <1>10 DEF Issue, Settled, KeepsSettled
<1>11. ASSUME NEW t \in Callers, Reject(t) PROVE KeepsSettled(q)
  BY <1>11, SettledElsewhere DEF Reject, Reset, Shape, evidence
<1>12. ASSUME NEW t \in Callers, Store(t) PROVE KeepsSettled(q)
  <2>1. request[t] # q
    BY <1>0, <1>12 DEF Store
  <2>2. stored'[q] = stored[q]
    BY <1>12, <2>1 DEF Store, Shape
  <2> QED BY <1>12, <2>1, <2>2 DEF Store, Reset, Shape, Settled, KeepsSettled
<1>13. ASSUME NEW t \in Callers, Close(t) PROVE KeepsSettled(q)
  BY <1>13, SettledElsewhere DEF Close, evidence
<1>14. ASSUME NEW t \in Callers, ClearDiscoveries(t) PROVE KeepsSettled(q)
  BY <1>14, SettledElsewhere DEF ClearDiscoveries, evidence
<1>15. ASSUME NEW t \in Callers, CloseProvider(t) PROVE KeepsSettled(q)
  BY <1>15, SettledElsewhere DEF CloseProvider, AfterProviderClose, evidence
<1>16. ASSUME NEW t \in Callers, ReleaseLease(t) PROVE KeepsSettled(q)
  BY <1>16, SettledElsewhere DEF ReleaseLease, evidence
<1>17. CASE UNCHANGED providerVars
  BY <1>17 DEF providerVars, thread, evidence, Settled, KeepsSettled
<1> QED BY <1>1, <1>2, <1>3, <1>4, <1>5, <1>6, <1>7, <1>8, <1>9, <1>10, <1>11, <1>12, <1>13,
           <1>14, <1>15, <1>16, <1>17, ControllerBinds, CheckBinds DEF ProviderNext

\* A settled request keeps its result and is never taken to the provider again.
THEOREM SettledRequestsStay == ProviderSpec => SettledForever
<1>1. Shape /\ [ProviderNext]_providerVars => \A q \in Requests : Settled(q) => Settled(q)' /\ stored'[q] = stored[q]
  BY SettledStep DEF KeepsSettled
<1> QED BY <1>1, ShapeHolds, PTL DEF ProviderSpec, SettledForever
-----------------------------------------------------------------------------
(* OneStatePerSource: until the provider is closed, what discovery froze is    *)
(* what it handed out, and a capability is discovered by one thread, once.      *)

Frozen ==
  /\ \A t \in Callers : pc[t] \in {"clearing", "closing", "releasing"} => closed
  /\ \A r \in issued : r.request \in handed /\ r.state = r.request.state
  /\ ~closed =>
       /\ \A t \in Callers : pc[t] = "discovering" => sourceLock = t /\ discovered[request[t]] = None
       /\ \A a \in handed : /\ discovered[a.capability] # None
                            /\ discovered[a.capability][a.source] = a.state

LEMMA FrozenInit == ProviderInit => Frozen
BY DEF ProviderInit, Frozen

LEMMA BindKeeps == Bind => UNCHANGED <<closed, discovered, sourceLock, handed, issued, pc, request>>
BY DEF Bind, BindTo, cache, evidence, thread

\* While a thread discovers, no other does, and nothing is yet known of what it asks.
LEMMA DiscoversAlone ==
  ASSUME NEW t \in Callers, pc[t] = "discovering", Frozen, ~closed
  PROVE  /\ \A u \in Callers \ {t} : pc[u] # "discovering"
         /\ \A a \in handed : a.capability # request[t]
<1>1. sourceLock = t /\ discovered[request[t]] = None
  BY DEF Frozen
<1>2. \A u \in Callers : pc[u] = "discovering" => sourceLock = u
  BY DEF Frozen
<1>3. \A a \in handed : discovered[a.capability] # None
  BY DEF Frozen
<1> QED BY <1>1, <1>2, <1>3

LEMMA FrozenStep == Shape /\ Frozen /\ [ProviderNext]_providerVars => Frozen'
<1> SUFFICES ASSUME Shape, Frozen, [ProviderNext]_providerVars PROVE Frozen'
  OBVIOUS
<1>1. CASE Bind
  BY <1>1, BindKeeps DEF Frozen
<1> USE DEF Frozen, Shape
<1>2. ASSUME NEW s \in Sources, SourceChanges(s) PROVE Frozen'
  BY <1>2 DEF SourceChanges, cache, evidence, thread
<1>3. ASSUME NEW t \in Callers, NEW c \in Capabilities, Discover(t, c) PROVE Frozen'
  <2>1. ~closed => \A u \in Callers : pc[u] # "discovering"
    BY <1>3, RegistryAssumption DEF Discover, SourceLockFree
  <2> QED BY <1>3, <2>1 DEF Discover, evidence
<1>4. ASSUME NEW t \in Callers, Discovered(t) PROVE Frozen'
  <2>0. pc[t] = "discovering"
    BY <1>4 DEF Discovered
  <2>1. ~closed => \A u \in Callers \ {t} : pc[u] # "discovering"
    BY <2>0, DiscoversAlone
  <2>2. request[t] \in Capabilities /\ source # None
    BY <1>4, RegistryAssumption DEF Discovered
  <2>3. ~closed => \A a \in handed : a.capability # request[t]
    BY <2>0, DiscoversAlone
  <2>4. handed \subseteq handed'
    BY <1>4 DEF Discovered
  <2>5. ~closed' => \A a \in handed' : /\ discovered'[a.capability] # None
                                      /\ discovered'[a.capability][a.source] = a.state
    <3>1. CASE UNCHANGED <<discovered, handed>>
      BY <1>4, <3>1 DEF Discovered
    <3>2. CASE /\ discovered' = [discovered EXCEPT ![request[t]] = source]
               /\ handed' = handed \cup {[capability |-> request[t], source |-> s, state |-> source[s]] : s \in Sources}
      <4>1. ASSUME ~closed', NEW a \in handed
            PROVE  discovered'[a.capability] # None /\ discovered'[a.capability][a.source] = a.state
        BY <1>4, <2>3, <3>2, <4>1 DEF Discovered, Requests
      <4>2. ASSUME NEW s \in Sources
            PROVE  discovered'[request[t]] # None /\ discovered'[request[t]][s] = source[s]
        BY <2>2, <3>2
      <4>3. ASSUME NEW s \in Sources, NEW a, a = [capability |-> request[t], source |-> s, state |-> source[s]]
            PROVE  discovered'[a.capability] # None /\ discovered'[a.capability][a.source] = a.state
        <5>1. a.capability = request[t] /\ a.source = s /\ a.state = source[s]
          BY <4>3
        <5> QED BY <4>2, <5>1
      <4>4. \A a \in handed' : a \in handed \/ \E s \in Sources :
              a = [capability |-> request[t], source |-> s, state |-> source[s]]
        BY <3>2
      <4> QED BY <4>1, <4>3, <4>4
    <3> QED BY <1>4, <3>1, <3>2 DEF Discovered
  <2> QED BY <1>4, <2>1, <2>4, <2>5 DEF Discovered, evidence
<1>5. ASSUME NEW t \in Callers, NEW q \in Requests, Collect(t, q) PROVE Frozen'
  BY <1>5 DEF Collect, cache, evidence
<1>6. ASSUME NEW t \in Callers, Admit(t) PROVE Frozen'
  <2>1. /\ UNCHANGED <<closed, discovered, handed, issued, sourceLock>>
        /\ \A u \in Callers \ {t} : pc'[u] = pc[u] /\ request'[u] = request[u]
        /\ pc'[t] \in {"idle", "calling"}
    BY <1>6 DEF Admit, cache, evidence
  <2> QED BY <2>1
<1>7. ASSUME NEW t \in Callers, Raises(t) PROVE Frozen'
  BY <1>7 DEF Raises, Ends, cache, evidence
<1>8. ASSUME NEW t \in Callers, NEW code \in FailureCodes, Fails(t, code) PROVE Frozen'
  BY <1>8 DEF Fails, Ends, cache, evidence
<1>9. ASSUME NEW t \in Callers, NEW facts \in FactLists, Answers(t, facts) PROVE Frozen'
  BY <1>9 DEF Answers, Ends, cache, evidence
<1>10. ASSUME NEW t \in Callers, Issue(t) PROVE Frozen'
  <2>1. \A r \in issued' : r.request \in handed /\ r.state = r.request.state
    BY <1>10 DEF Issue, FactFits, IssuedRecord, Busy
  <2> QED BY <1>10, <2>1 DEF Issue, cache
<1>11. ASSUME NEW t \in Callers, Reject(t) PROVE Frozen'
  BY <1>11 DEF Reject, Reset, cache, evidence
<1>12. ASSUME NEW t \in Callers, Store(t) PROVE Frozen'
  BY <1>12 DEF Store, Reset, cache
<1>13. ASSUME NEW t \in Callers, Close(t) PROVE Frozen'
  BY <1>13 DEF Close, cache, evidence
<1>14. ASSUME NEW t \in Callers, ClearDiscoveries(t) PROVE Frozen'
  BY <1>14 DEF ClearDiscoveries, evidence
<1>15. ASSUME NEW t \in Callers, CloseProvider(t) PROVE Frozen'
  BY <1>15 DEF CloseProvider, AfterProviderClose, cache, evidence
<1>16. ASSUME NEW t \in Callers, ReleaseLease(t) PROVE Frozen'
  BY <1>16 DEF ReleaseLease, cache, evidence
<1>17. CASE UNCHANGED providerVars
  BY <1>17 DEF providerVars, cache, evidence, thread
<1> QED BY <1>1, <1>2, <1>3, <1>4, <1>5, <1>6, <1>7, <1>8, <1>9, <1>10, <1>11, <1>12, <1>13,
           <1>14, <1>15, <1>16, <1>17, ControllerBinds, CheckBinds DEF ProviderNext

LEMMA FrozenGives == Shape /\ Frozen => OneStatePerSource
<1> SUFFICES ASSUME Shape, Frozen, ~closed PROVE OneStatePerSource
  BY DEF OneStatePerSource
<1>1. \A r \in issued : [r.request EXCEPT !.state = r.state] \in handed
  BY DEF Frozen, Shape, Requests
<1> QED BY <1>1 DEF Frozen, OneStatePerSource

\* Whatever the sources do, an open provider shows its Run one state of each.
THEOREM RunSeesOneState == ProviderSpec => []OneStatePerSource
<1>1. ProviderInit => Shape /\ Frozen
  BY ShapeInit, FrozenInit
<1>2. Shape /\ Frozen /\ [ProviderNext]_providerVars => (Shape /\ Frozen)'
  BY ShapeStep, FrozenStep
<1> QED BY <1>1, <1>2, FrozenGives, PTL DEF ProviderSpec

-----------------------------------------------------------------------------
(* EvidenceVerifies: the identity of a record determines the record, so to      *)
(* issue one never replaces another.                                         *)

Identified ==
  /\ \A r \in issued : r = IssuedRecord(r.id[1], r.id[2], r.id[3])
  /\ returned \subseteq issued
  /\ \A t \in Callers : gathered[t] \in Seq(issued)

LEMMA EmptyIssued == <<>> \in Seq(issued)
OBVIOUS

LEMMA IdentifiedInit == ProviderInit => Identified
BY DEF ProviderInit, Identified

LEMMA IssuedOnly ==
  ASSUME Identified, NEW t \in Callers, Issue(t)
  PROVE  issued \subseteq issued' /\ Identified'
<1> DEFINE r == IssuedRecord(request[t], Len(gathered[t]), Head(pending[t]))
<1>1. r.id[1] = request[t] /\ r.id[2] = Len(gathered[t]) /\ r.id[3] = Head(pending[t])
  BY DEF IssuedRecord, EvidenceId
<1>2. r = IssuedRecord(r.id[1], r.id[2], r.id[3])
  BY <1>1
<1>3. issued' = {o \in issued : o.id # r.id} \cup {r} /\ gathered' = [gathered EXCEPT ![t] = Append(@, r)]
  BY DEF Issue
<1> HIDE DEF r
<1>4. issued \subseteq issued'
  BY <1>2, <1>3 DEF Identified
<1>5. \A o \in issued' : o = IssuedRecord(o.id[1], o.id[2], o.id[3])
  BY <1>2, <1>3 DEF Identified
<1>6. \A u \in Callers : gathered[u] \in Seq(issued')
  BY <1>4 DEF Identified
<1>7. Append(gathered[t], r) \in Seq(issued')
  BY <1>3, <1>6
<1>8. \A u \in Callers : gathered'[u] \in Seq(issued')
  <2>1. ASSUME NEW u \in Callers PROVE gathered'[u] \in {gathered[u], Append(gathered[t], r)}
    BY <1>3
  <2> QED BY <1>6, <1>7, <2>1
<1> QED BY <1>4, <1>5, <1>8 DEF Identified, Issue

LEMMA IdentifiedStep == Shape /\ Identified /\ [ProviderNext]_providerVars => Identified'
<1> SUFFICES ASSUME Shape, Identified, [ProviderNext]_providerVars PROVE Identified'
  OBVIOUS
<1>1. ASSUME NEW t \in Callers, Issue(t) PROVE Identified'
  BY <1>1, IssuedOnly
<1>2. ASSUME NEW t \in Callers, Store(t) PROVE Identified'
  <2>1. {gathered[t][i] : i \in DOMAIN gathered[t]} \subseteq issued
    BY DEF Identified
  <2>2. \A u \in Callers : gathered'[u] \in {gathered[u], <<>>}
    BY <1>2 DEF Store, Reset, Shape
  <2>3. \A u \in Callers : gathered'[u] \in Seq(issued)
    BY <2>2, EmptyIssued DEF Identified
  <2> QED BY <1>2, <2>1, <2>3 DEF Store, Identified
<1>3. ASSUME NEW t \in Callers, Reject(t) PROVE Identified'
  <2>1. \A u \in Callers : gathered'[u] \in {gathered[u], <<>>}
    BY <1>3 DEF Reject, Reset, Shape
  <2>3. \A u \in Callers : gathered'[u] \in Seq(issued)
    BY <2>1, EmptyIssued DEF Identified
  <2> QED BY <1>3, <2>3 DEF Reject, evidence, Identified
<1>4. CASE UNCHANGED <<issued, returned, gathered>>
  BY <1>4 DEF Identified
<1> QED BY <1>1, <1>2, <1>3, <1>4
  DEF ProviderNext, providerVars, BindForController, BindForCheck, BindTo, SourceChanges, Discover, Discovered, Collect, Admit, Raises, Fails, Answers, Ends,
      Close, ClearDiscoveries, CloseProvider, ReleaseLease, thread, evidence

\* No concurrent call can make Evidence that a caller holds fail to verify.
THEOREM ReturnedEvidenceVerifies == ProviderSpec => []EvidenceVerifies
<1>1. ProviderInit => Shape /\ Identified
  BY ShapeInit, IdentifiedInit
<1>2. Shape /\ Identified /\ [ProviderNext]_providerVars => (Shape /\ Identified)'
  BY ShapeStep, IdentifiedStep
<1>3. Identified => EvidenceVerifies
  BY DEF Identified, EvidenceVerifies, Verifies
<1> QED BY <1>1, <1>2, <1>3, PTL DEF ProviderSpec
=============================================================================
