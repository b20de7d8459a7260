---------------------------- MODULE InteractiveRun ----------------------------
(***************************************************************************)
(* InteractivePlatformRun: one Run that a Host drives call by call for an     *)
(* Agent, kept in memory and saved to its ledger after every call.  A call    *)
(* may raise after it has changed memory, after it has written the ledger      *)
(* file (a later file or the exporter failed), or half way through a batch;    *)
(* only record_commit and finish undo what they changed.  A process that       *)
(* stops is replaced by one that restores the Run from its ledger file.        *)
(*                                                                         *)
(* What makes a packet or a proposal well-formed is data; a refused call that  *)
(* changes nothing is no step.  Events and operations are kept as far as a      *)
(* guard reads them.                                                         *)
(***************************************************************************)
EXTENDS Absence, Naturals

CONSTANTS WorkItem,
          Proposal,       \* decisions a Host can record ...
          Outcome,        \* ... and their results
          OutcomeOf,
          Commit,         \* commit identities of receipts
          OperationName,  \* operation identities a Host chooses itself
          Recovery,       \* what a recovery can report
          Boundaries,     \* workflow states a Host records
          Faults         \* what saves may do wrong

Receipt == [commit : Commit, result : Outcome]

Safe == {"restored", "not_required"}

Terminal == {"completed", "partial", "failed"}
Workflow == Terminal \cup {"running", "awaiting_agent_decision", "blocked", "ready_to_finish"}

\* A Run, in memory and as its ledger.
Run == [status     : {"running"} \cup Terminal,
        workflow   : Workflow,
        discovered : BOOLEAN,               \* a discover operation succeeded
        items      : SUBSET WorkItem,
        inspected  : SUBSET WorkItem,       \* the items that have a packet
        recovery   : [WorkItem -> Recovery \cup {None}],  \* latest recovery event
        decisions  : [WorkItem -> Proposal \cup {None}],
        receipts   : [WorkItem -> Receipt \cup {None}],
        failures   : SUBSET WorkItem,
        named      : SUBSET OperationName]  \* operations the Host has named

ASSUME RunAssumption ==
  /\ OutcomeOf \in [Proposal -> Outcome]
  /\ Recovery \subseteq Safe \cup {"uncertain", "failed"}
  /\ Boundaries \subseteq Workflow
  /\ Faults \subseteq {"written", "refused"}
  /\ None \notin Proposal \cup Receipt \cup OperationName \cup Run

VARIABLES memory,  \* the InteractivePlatformRun of the process, or None
          ledger,  \* <run>.platform-ledger.json, or None
          acked    \* commits record_commit has returned from (a history variable)

vars == <<memory, ledger, acked>>

Started ==
  [status |-> "running", workflow |-> "running", discovered |-> FALSE,
   items |-> {}, inspected |-> {}, recovery |-> [i \in WorkItem |-> None],
   decisions |-> [i \in WorkItem |-> None], receipts |-> [i \in WorkItem |-> None],
   failures |-> {}, named |-> {}]

Running == memory # None /\ memory.status = "running"

\* _RUN_TRANSITIONS
Transitions ==
  [w \in Workflow |->
     CASE w \in {"running", "awaiting_agent_decision"} -> Workflow \ {"completed"}
       [] w = "blocked"         -> {"blocked", "running", "partial", "failed"}
       [] w = "ready_to_finish" -> {"ready_to_finish"} \cup Terminal
       [] OTHER                 -> {w}]

\* The latest recovery event, or the packet's own status, which is always safe.
Recovered(r, i) == r.recovery[i] \in Safe \cup {None}

Decided(r) == {i \in WorkItem : r.decisions[i] # None}

\* inspect_result_conformance, as far as a Run's history decides it.
Conforms(r) ==
  /\ \A i \in Decided(r) :
       /\ i \in r.items \cap r.inspected
       /\ r.status # "failed" => Recovered(r, i)
       /\ r.receipts[i] # None /\ r.receipts[i].result = OutcomeOf[r.decisions[i]]
  /\ \A i \in WorkItem \ Decided(r) : r.receipts[i] = None
  /\ r.status = "completed" => r.failures = {} /\ Decided(r) = r.inspected

\* validate_finish: whether a Run may end so, with these further failures.
MayFinish(r, status, fs) ==
  /\ status \in Terminal
  /\ status = "completed" =>
       /\ r.discovered
       /\ r.failures \cup fs = {}
       /\ r.items \subseteq r.inspected
       /\ r.inspected \subseteq Decided(r)
       /\ \A i \in Decided(r) : Recovered(r, i)

\* A terminal Run is only saved when its result conforms.
Publishable(r) == r.status \in Terminal => Conforms(r)

\* JsonPlatformLedgerStore.save: nothing of the Run changes in the files before the
\* ledger file is replaced, which comes first.
Written(r, outcome) == ledger' = IF outcome = "refused" THEN ledger ELSE r

\* _save with its outcome: it returns ("saved"), raises after the ledger file
\* was written ("written"), or raises before that ("refused").  A call that
\* raises leaves the Run back in memory.
Save(r, back, outcome) ==
  /\ outcome # "refused" => Publishable(r)
  /\ outcome = "written" => "written" \in Faults
  /\ outcome = "refused" => "refused" \in Faults \/ ~Publishable(r)
  /\ memory' = IF outcome = "saved" THEN r ELSE back
  /\ Written(r, outcome)

\* The calls that leave what they changed in memory when the save raises.
Record(r, outcome) == Save(r, r, outcome) /\ UNCHANGED acked

-----------------------------------------------------------------------------
Init == memory = None /\ ledger = None /\ acked = {}

\* begin(): the constructor saves; if that raises there is no Run object.  A
\* Run identity is begun once, the controller refuses one that left a directory.
Begin(outcome) ==
  /\ memory = None /\ ledger = None
  /\ Save(Started, None, outcome)
  /\ UNCHANGED acked

\* The process, or its InteractivePlatformRun, is gone.
Stop ==
  /\ memory # None
  /\ memory' = None
  /\ UNCHANGED <<ledger, acked>>

\* restore(): only a running ledger is resumed.
Restore ==
  /\ memory = None
  /\ ledger # None /\ ledger.status = "running"
  /\ memory' = ledger
  /\ UNCHANGED <<ledger, acked>>

\* A boundary equal to the present one is not saved, hence no step.
RecordWorkflow(w, outcome) ==
  /\ Running
  /\ w \in Transitions[memory.workflow]
  /\ Record([memory EXCEPT !.workflow = w], outcome)

RecordDiscovery(found, outcome) ==
  /\ Running
  /\ Record([memory EXCEPT !.items = @ \cup found, !.discovered = TRUE], outcome)

\* An item of the batch has changed its identity: those before it stay.
RefuseDiscovery(found) ==
  /\ Running
  /\ memory.items # {}
  /\ memory' = [memory EXCEPT !.items = @ \cup found]
  /\ UNCHANGED <<ledger, acked>>

RecordInvestigation(i, outcome) ==
  /\ Running
  /\ i \in memory.items
  /\ Record([memory EXCEPT !.inspected = @ \cup {i}, !.failures = @ \ {i}], outcome)

RecordInspectionFailure(i, outcome) ==
  /\ Running
  /\ i \in memory.items
  /\ Record([memory EXCEPT !.failures = @ \cup {i}], outcome)

\* Mutant: a recovery is recorded whatever has been decided.
RecordRecoveryAnytime(i, s, outcome) ==
  /\ Running
  /\ i \in memory.items
  /\ Record([memory EXCEPT !.recovery[i] = s], outcome)

RecordRecovery(i, s, outcome) ==
  /\ Running
  /\ i \in memory.items
  /\ memory.decisions[i] = None
  /\ Record([memory EXCEPT !.recovery[i] = s], outcome)

\* Splits, rejections, metrics and timings: nothing a guard reads, but a save.
RecordNote(outcome) == Running /\ Record(memory, outcome)

\* What record_commit validates of a decision and its receipt.
MayCommit(i, d, c) ==
  /\ Running
  /\ i \in memory.inspected
  /\ Recovered(memory, i)
  /\ c.result = OutcomeOf[d]
  /\ memory.receipts[i] \in {None, c}

Committing(i, d, c) == [memory EXCEPT !.decisions[i] = d, !.receipts[i] = c]

\* Mutant: a commit that is not saved is dropped, with the one it repeated.
Popped(i) == [memory EXCEPT !.decisions[i] = None, !.receipts[i] = None]

\* What the except branch restores: the decision and receipt from before.
Undone(i) == memory

RecordCommit(i, d, c, op, outcome) ==
  /\ MayCommit(i, d, c)
  /\ op \notin memory.named
  /\ Save([Committing(i, d, c) EXCEPT !.named = @ \cup ({op} \ {None})], Undone(i), outcome)
  /\ acked' = IF outcome = "saved" THEN acked \cup {<<i, c>>} ELSE acked

\* The Host names an operation that exists: this raises before the try, and
\* the decision and its receipt stay in memory, unsaved.
RefuseCommit(i, d, c, op) ==
  /\ MayCommit(i, d, c)
  /\ op \in memory.named
  /\ memory' = Committing(i, d, c)
  /\ UNCHANGED <<ledger, acked>>

\* The boundary finish() makes explicit for a Run that was not ready yet; it
\* stays when the save raises.
Ready(status) ==
  IF status = "completed" THEN [memory EXCEPT !.workflow = "ready_to_finish"] ELSE memory

Ended(r, status, fs) ==
  [r EXCEPT !.status = status, !.workflow = status, !.failures = @ \cup fs]

Finish(status, fs, outcome) ==
  /\ Running
  /\ MayFinish(memory, status, fs)
  /\ Ready(status).workflow \in Transitions[memory.workflow]
  /\ status \in Transitions[Ready(status).workflow]
  /\ Save(Ended(Ready(status), status, fs), Ready(status), outcome)
  /\ UNCHANGED acked

Result == {"saved", "written", "refused"}

Next ==
  \/ Stop
  \/ Restore
  \/ \E found \in SUBSET WorkItem : RefuseDiscovery(found)
  \/ \E i \in WorkItem, d \in Proposal, c \in Receipt, op \in OperationName :
       RefuseCommit(i, d, c, op)
  \/ \E outcome \in Result :
       \/ Begin(outcome)
       \/ RecordNote(outcome)
       \/ \E w \in Boundaries : RecordWorkflow(w, outcome)
       \/ \E found \in SUBSET WorkItem : RecordDiscovery(found, outcome)
       \/ \E i \in WorkItem :
            \/ RecordInvestigation(i, outcome)
            \/ RecordInspectionFailure(i, outcome)
            \/ \E s \in Recovery : RecordRecovery(i, s, outcome)
            \/ \E d \in Proposal, c \in Receipt, op \in OperationName \cup {None} :
                 RecordCommit(i, d, c, op, outcome)
       \/ \E status \in Terminal, fs \in SUBSET WorkItem : Finish(status, fs, outcome)

Spec == Init /\ [][Next]_vars

-----------------------------------------------------------------------------
\* What is in memory and on disk is a Run.
TypeOK ==
  /\ memory \in Run \cup {None}
  /\ ledger \in Run \cup {None}
  /\ acked \subseteq WorkItem \X Receipt

\* A Host asks validate_finish before it publishes artifacts: what it lets
\* through, finish() must be able to save.  No sequence of recoveries, retried,
\* refused and undone commits, failed saves and restarts leads to a Run that
\* may finish and whose result does not conform.
EligibleRunsConform ==
  Running => \A status \in Terminal, fs \in SUBSET WorkItem :
    MayFinish(memory, status, fs) => Conforms(Ended(memory, status, fs))

\* A commit that record_commit has returned from is never lost or replaced:
\* its receipt is on disk, and in the memory of whoever holds the Run, also
\* after the same commit was repeated and that save failed.
AcknowledgedCommitsSurvive ==
  \A a \in acked :
    /\ ledger # None /\ ledger.receipts[a[1]] = a[2]
    /\ memory # None => memory.receipts[a[1]] = a[2]
=============================================================================
