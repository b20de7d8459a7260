-------------------------- MODULE ReviewCoordinator --------------------------
(***************************************************************************)
(* IncrementalReviewCoordinator: the Host-side bridge between the durable   *)
(* ledger and an Agent that sees one task at a time and answers it.  The     *)
(* Host process may die between any two steps and be restored from the       *)
(* store; the Agent's answers travel on their own, so one may be delivered    *)
(* late, twice, or to a process that did not issue its task.                  *)
(*                                                                         *)
(* The store is the single-writer one: a transition is durable when the       *)
(* method that makes it returns (module CoverageJournal says what the files    *)
(* do), so one ledger stands for the file and for the coordinator's copy; a    *)
(* store that raises leaves both as they were.                                *)
(***************************************************************************)
EXTENDS CoverageLedger, FiniteSets, FiniteSetsExt

CONSTANTS MaxRevisions,  \* bound on the verdicts of a batch
          MaxCrashes,    \* bound on the number of crashes
          Identities     \* what bind() may call the n-th verdict of a batch

ASSUME CoordinatorAssumption ==
  MaxRevisions \in Nat /\ MaxCrashes \in Nat /\ None \notin Ledger

\* There is an identity for everything bind() may digest.
ASSUME IdentityAssumption ==
  /\ Identities \in [1..MaxRevisions -> SUBSET SubmissionId]
  /\ \A n \in 1..MaxRevisions, b \in Batch : \A decisions \in [AtomsOf(b) -> Value] :
       \A parent \in IF n = 1 THEN {None} ELSE {id \in Identities[n - 1] : id[1] = b} :
         <<b, decisions, parent>> \in Identities[n]

VARIABLES ledger,   \* the durable ledger, None before start()
          oversized, \* batches whose projected task exceeds the byte limit
          up,       \* the coordinator process is alive
          active,   \* _active_binding, or None
          shown,    \* the task the Agent was last given, or None
          sent,     \* every answer the Agent has sent; none ever disappears
          crashes   \* how often the process died

vars == <<ledger, oversized, up, active, shown, sent, crashes>>

Offered(l) == {b \in Batch : l.batches[b].status = "offered"}
PlannedBatches(l) == {b \in Batch : l.batches[b].status = "planned"}

\* ReviewTaskBinding.from_ledger: the batch and the revision it corrects.
Binding(l, b) ==
  [batch |-> b, supersedes |-> LET ids == EffectiveIds(l, b)
                               IN IF ids = {} THEN None ELSE CHOOSE id \in ids : TRUE]

\* Mutant: the identity digests the content only, not the parent.
BindContentOnly(binding, decisions) ==
  [id |-> <<binding.batch, decisions, None>>,
   batch |-> binding.batch, decisions |-> decisions,
   supersedes |-> binding.supersedes, status |-> "accepted"]

\* bind(): the identity digests the batch, the decisions and the parent.
Bind(binding, decisions) ==
  [id |-> <<binding.batch, decisions, binding.supersedes>>,
   batch |-> binding.batch, decisions |-> decisions,
   supersedes |-> binding.supersedes, status |-> "accepted"]

\* submit() falls back to the sole offered batch when no task is active.
CurrentBinding ==
  IF active # None THEN active
  ELSE IF Cardinality(Offered(ledger)) = 1
       THEN Binding(ledger, CHOOSE b \in Offered(ledger) : TRUE)
       ELSE None

\* A call into a live coordinator of a started Run.
Running == up /\ ledger # None

-----------------------------------------------------------------------------
Init == /\ oversized \in SUBSET Batch
        /\ ledger = None /\ up = TRUE /\ active = None
        /\ shown = None /\ sent = {} /\ crashes = 0

\* start(): plan, check and persist a Run that does not exist yet.
Start ==
  /\ up
  /\ ledger = None
  /\ ledger' = Planned
  /\ UNCHANGED <<oversized, up, active, shown, sent, crashes>>

\* _activate: build the task for a batch and, if it fits, hand it out.  A task
\* that does not fit raises, and leaves the binding as it was.
Activate(l, b) ==
  IF b \in oversized
  THEN UNCHANGED <<active, shown>>
  ELSE active' = Binding(l, b) /\ shown' = Binding(l, b)

\* Mutant: a batch offered before a restart is forgotten.
NextTaskForgetful ==
  /\ Running
  /\ ledger.terminal = None
  /\ \/ /\ active # None
        /\ Activate(ledger, active.batch)
        /\ UNCHANGED ledger
     \/ /\ active = None /\ PlannedBatches(ledger) # {}
        /\ LET b == Min(PlannedBatches(ledger))
           IN /\ ledger' = OfferResult(ledger, b)
              /\ Activate(ledger', b)
  /\ UNCHANGED <<oversized, up, sent, crashes>>

\* next_task(): the active task again, else the offered batch's, else the
\* first planned batch's, which is offered durably before its task is built.
NextTask ==
  /\ Running
  /\ ledger.terminal = None
  /\ \/ /\ active # None
        /\ Activate(ledger, active.batch)
        /\ UNCHANGED ledger
     \/ /\ active = None
        /\ \E b \in Offered(ledger) : Offered(ledger) = {b} /\ Activate(ledger, b)
        /\ UNCHANGED ledger
     \/ /\ active = None /\ Offered(ledger) = {} /\ PlannedBatches(ledger) # {}
        /\ LET b == Min(PlannedBatches(ledger))
           IN /\ ledger' = OfferResult(ledger, b)
              /\ Activate(ledger', b)
  /\ UNCHANGED <<oversized, up, sent, crashes>>

\* submit(): an answer names the items of its batch, whose references are
\* unique in the Run, so it binds only while that batch's task is current.
Submit(m) ==
  /\ Running
  /\ ledger.terminal = None
  /\ CurrentBinding # None
  /\ CurrentBinding.batch = m.batch
  /\ Len(ledger.verdicts[m.batch]) < MaxRevisions
  /\ LET v == Bind(CurrentBinding, m.decisions)
     IN /\ CanAccept(ledger, v)
        /\ ledger' = AcceptResult(ledger, v)
  /\ active' = None
  /\ UNCHANGED <<oversized, up, shown, sent, crashes>>

\* Mutant: a correction may be opened while another batch is offered.
CorrectionTaskAnytime(b) ==
  /\ Running
  /\ ledger.terminal = None
  /\ ledger.batches[b].status = "accepted"
  /\ Len(ledger.verdicts[b]) < MaxRevisions
  /\ Activate(ledger, b)
  /\ UNCHANGED <<oversized, ledger, up, sent, crashes>>

\* correction_task(): only between tasks, only for an accepted batch.
CorrectionTask(b) ==
  /\ Running
  /\ ledger.terminal = None
  /\ Offered(ledger) = {}
  /\ ledger.batches[b].status = "accepted"
  /\ Len(ledger.verdicts[b]) < MaxRevisions
  /\ Activate(ledger, b)
  /\ UNCHANGED <<oversized, ledger, up, sent, crashes>>

\* block_current(): the sole offered batch, whatever task is active.
BlockCurrent(r) ==
  /\ Running
  /\ \E b \in Offered(ledger) :
       /\ Offered(ledger) = {b}
       /\ CanBlock(ledger, b, r)
       /\ ledger' = BlockResult(ledger, b, r)
  /\ active' = None
  /\ UNCHANGED <<oversized, up, shown, sent, crashes>>

\* block(): any undecided batch; the active task survives if it is another's.
Block(b, r) ==
  /\ Running
  /\ CanBlock(ledger, b, r)
  /\ ledger' = BlockResult(ledger, b, r)
  /\ active' = IF active # None /\ active.batch = b THEN None ELSE active
  /\ UNCHANGED <<oversized, up, shown, sent, crashes>>

\* finish(): freeze the review.
Finish(s) ==
  /\ Running
  /\ CanFinalize(ledger, s)
  /\ ledger' = FinalizeResult(ledger, s)
  /\ active' = None
  /\ UNCHANGED <<oversized, up, shown, sent, crashes>>

\* The process dies; the binding it held is nowhere on disk.
Crash ==
  /\ up
  /\ crashes < MaxCrashes
  /\ up' = FALSE
  /\ active' = None
  /\ crashes' = crashes + 1
  /\ UNCHANGED <<oversized, ledger, shown, sent>>

\* A new process: restore() from the store, which refuses two offered
\* batches, or a Run that never got as far as the store.
Restore ==
  /\ ~up
  /\ ledger # None => Cardinality(Offered(ledger)) <= 1
  /\ up' = TRUE
  /\ UNCHANGED <<oversized, ledger, active, shown, sent, crashes>>

\* The Agent (not part of this code) answers the task it was last shown.
Answer(choice) ==
  /\ shown # None
  /\ DOMAIN choice = AtomsOf(shown.batch)
  /\ sent' = sent \cup {[batch |-> shown.batch, decisions |-> choice,
                         about |-> shown.supersedes]}
  /\ UNCHANGED <<oversized, ledger, up, active, shown, crashes>>

Next ==
  \/ Start \/ NextTask \/ Crash \/ Restore
  \/ \E m \in sent : Submit(m)
  \/ \E b \in Batch : CorrectionTask(b)
  \/ \E r \in Reason : BlockCurrent(r)
  \/ \E b \in Batch, r \in Reason : Block(b, r)
  \/ \E s \in TerminalStates : Finish(s)
  \/ \E choice \in Decisions : Answer(choice)

Spec == Init /\ [][Next]_vars

\* The Host blocks the batch whose task next_task() cannot deliver.
GiveUpOversized ==
  /\ Running
  /\ Offered(ledger) \cap oversized # {}
  /\ \E r \in Reason : BlockCurrent(r)

\* An Agent that answers, a Host that restarts and keeps asking.
Fairness ==
  /\ WF_vars(Start) /\ WF_vars(Restore) /\ WF_vars(NextTask)
  /\ WF_vars(\E choice \in Decisions : Answer(choice))
  /\ WF_vars(\E m \in sent : Submit(m))
  /\ WF_vars(GiveUpOversized)

FairSpec == Spec /\ Fairness

-----------------------------------------------------------------------------
Task == [batch : Batch, supersedes : SubmissionId \cup {None}]

Message == [batch : Batch, decisions : Decisions, about : SubmissionId \cup {None}]

\* Every variable holds a value of its kind.
TypeOK ==
  /\ ledger \in Ledger \cup {None}
  /\ oversized \subseteq Batch
  /\ up \in BOOLEAN
  /\ active \in Task \cup {None}
  /\ shown \in Task \cup {None}
  /\ sent \subseteq Message
  /\ crashes \in 0..MaxCrashes

\* The Agent works on one batch at a time: never two offered batches (restore
\* would refuse them), and a task held in memory is that batch's, or corrects
\* the decision that stands when nothing is offered.
TaskIsCurrent ==
  /\ TypeOK
  /\ ledger # None =>
    /\ Cardinality(Offered(ledger)) <= 1
    /\ active # None =>
         /\ ledger.terminal = None
         /\ Offered(ledger) \subseteq {active.batch}
         /\ ledger.batches[active.batch].status \in {"offered", "accepted"}
         /\ active.supersedes = LatestId(ledger.verdicts[active.batch])

\* The identities bound by the Host always fit: whatever happened since a task
\* was issued, a complete answer to the current task is one the ledger takes.
CurrentAnswerIsAcceptable ==
  Running /\ CurrentBinding # None =>
    \A choice \in [AtomsOf(CurrentBinding.batch) -> Value] :
      LET v == Bind(CurrentBinding, choice)
      IN Stored(ledger, v.id) = {} /\ CanAccept(ledger, v)

\* With a cooperating Agent and Host the review drains: every batch ends up
\* accepted or blocked, or the Run is closed, through any number of restarts.
Drains ==
  <>(ledger # None /\ \A b \in Batch :
       ledger.batches[b].status \in {"accepted", "blocked", "terminal"})
=============================================================================
