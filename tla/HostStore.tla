----------------------------- MODULE HostStore -----------------------------
(***************************************************************************)
(* SQLiteStore, the host's database of one scan, and the adapter           *)
(* SQLitePlatformLedgerStore that keeps the platform ledger in it.         *)
(*                                                                         *)
(* The threads of a process share one connection.  A client opens a        *)
(* transaction, makes any calls and ends it, or raises; the clients are    *)
(* external, as the repository itself calls only the adapter.  The adapter *)
(* saves in a transaction of its own, and on a second connection when the  *)
(* shared one has been closed.  SQLite admits one writer at a time, undoes *)
(* what was not committed, and checks keys, references and indexes: a call *)
(* that breaks one raises.                                                 *)
(***************************************************************************)
EXTENDS Absence, Naturals, Sequences, FiniteSets, SequencesExt, FiniteSetsExt

CONSTANTS
    Threads,
    Operations,   \* operation identities
    Keys,         \* idempotency keys
    Cases,        \* reverse cases of one object and rule
    Tables,       \* the entity tables in use, one row of each
    Payloads,     \* platform ledgers
    MaxEvents,    \* bound: runtime events of the scan
    MaxCalls     \* bound: calls that clients make

ASSUME HostAssumption ==
    /\ MaxEvents \in Nat /\ MaxCalls \in Nat
    /\ None \notin Threads \cup Payloads \cup Keys \cup Operations

VARIABLES
    db,       \* what is committed
    writer,   \* the open transaction: who, on which connection, for what
    work,     \* the database as the open transaction sees it
    open,     \* the shared connection is open
    retry,    \* thread -> the payload its save takes to a second connection
    saved,    \* history: the payload of the last save that returned, while it stands
    calls     \* counter for the bound

storeVars == <<db, writer, work, open, retry, saved, calls>>

TerminalScan == {"completed", "partial", "failed"}
Ended == {"succeeded", "rejected", "failed_known", "result_unknown"}
ActiveCase == {"planned", "executing"}

\* What each row refers to, and what an insert does when the row is there
Parents ==
    [page_states |-> {}, entrypoints |-> {"page_states"}, page_candidates |-> {"page_states"},
     audit_objects |-> {"page_states"}, object_verifications |-> {"page_states"},
     evidence |-> {"page_states", "audit_objects"}, screenshots |-> {"page_states", "audit_objects"},
     pending_decisions |-> {"audit_objects"}, dimension_findings |-> {"audit_objects"},
     assessments |-> {"audit_objects"}, issues |-> {"assessments", "audit_objects"}]

Repeatable == {"page_states", "entrypoints", "page_candidates", "audit_objects"}

Operation == [key : Keys, kind : {"tool", "browser_action", "recovery"},
              status : {"running"} \cup Ended, ended : BOOLEAN]

ASSUME OperationAssumption == None \notin Operation

Event ==
    [sequence : Nat,
     name : {"scan", "operation", "tool", "browser_action", "recovery", "gate", "decision",
             "model", "assessment", "issue", "component", "integrity"}
            \X {"start", "finish", "instant"},
     of : Operations \cup {None},
     outcome : {"started", "succeeded", "rejected", "failed", "unknown"}]

Database ==
    [scan : {"running", None} \cup TerminalScan,
     operations : [Operations -> Operation \cup {None}],
     bootstrap : [Keys -> Operations \cup {None}],
     cases : [Cases -> ActiveCase \cup {"closed", None}],
     rows : SUBSET Tables,
     ledger : Payloads \cup {None},
     events : Seq(Event)]

Empty ==
    [scan |-> None, operations |-> [o \in Operations |-> None],
     bootstrap |-> [k \in Keys |-> None], cases |-> [c \in Cases |-> None],
     rows |-> {}, ledger |-> None, events |-> <<>>]

----------------------------------------------------------------------------
\* Runtime events

\* _next_event_sequence: one more than the highest there is
NextSequence(d) == 1 + Max({0} \cup {e.sequence : e \in ToSet(d.events)})

Appended(d, name, of, outcome) ==
    [d EXCEPT !.events =
        Append(@, [sequence |-> NextSequence(d), name |-> name, of |-> of, outcome |-> outcome])]

Outcome(status) ==
    CASE status = "succeeded" -> "succeeded"
      [] status = "rejected" -> "rejected"
      [] status = "failed_known" -> "failed"
      [] OTHER -> "unknown"

\* _append_operation_event: the tool event, the same again for the browser or
\* the recovery, and the gate that stopped the operation
OperationEvent(d, o, kind, phase, status) ==
    LET outcome == IF phase = "start" THEN "started" ELSE Outcome(status)
        tool == Appended(d, <<"operation", phase>>, o, outcome)
        browser == IF kind = "tool" THEN tool ELSE Appended(tool, <<kind, phase>>, o, outcome)
    IN IF phase = "finish" /\ outcome # "succeeded"
       THEN Appended(browser, <<"gate", "instant">>, o, outcome)
       ELSE browser

\* _append_agent_decision_events: what the Agent said of its decision, with
\* the model's timing or without
DecisionEvents(d, o, said) ==
    LET decision == Appended(d, <<"decision", "instant">>, o, "succeeded")
    IN CASE said = "nothing" -> d
         [] said = "reason" -> decision
         [] OTHER -> Appended(decision, <<"model", "finish">>, o, "succeeded")

----------------------------------------------------------------------------
\* The calls a client makes in an open transaction

InsertScan ==
    /\ work.scan = None
    /\ work' = Appended([work EXCEPT !.scan = "running"], <<"scan", "start">>, None, "started")

UpdateScan ==
    /\ work.scan # None
    /\ \E s \in {"running"} \cup TerminalScan :
        LET updated == [work EXCEPT !.scan = s] IN
        work' = IF work.scan \notin TerminalScan /\ s \in TerminalScan
                THEN Appended(updated, <<"scan", "finish">>, None,
                              IF s = "failed" THEN "failed" ELSE "succeeded")
                ELSE updated

\* An operation is inserted once, under a key no other has; it may have ended.
Free(d, o, k) ==
    /\ d.scan # None /\ d.operations[o] = None
    /\ \A p \in Operations : d.operations[p] # None => d.operations[p].key # k

Stored(d, o, k, kind, status) ==
    [d EXCEPT !.operations[o] =
        [key |-> k, kind |-> kind, status |-> status, ended |-> status \in Ended]]

\* Mutant: the finish of an operation that was over at once is not recorded.
InsertedUnfinished(d, o, k, kind, status, said) ==
    DecisionEvents(OperationEvent(Stored(d, o, k, kind, status), o, kind, "start", status), o, said)

Inserted(d, o, k, kind, status, said) ==
    LET started == OperationEvent(Stored(d, o, k, kind, status), o, kind, "start", status)
        begun == DecisionEvents(started, o, said)
    IN IF status \in Ended THEN OperationEvent(begun, o, kind, "finish", status) ELSE begun

InsertOperation ==
    \E o \in Operations, k \in Keys, kind \in {"tool", "browser_action", "recovery"},
       status \in {"running"} \cup Ended, said \in {"nothing", "reason", "timing"} :
        /\ Free(work, o, k)
        /\ work' = Inserted(work, o, k, kind, status, said)

\* The status may change after the operation ended; its finish is recorded
\* the first time only.
Updated(d, o, status) ==
    LET was == d.operations[o]
        stored == [d EXCEPT !.operations[o] =
                     [was EXCEPT !.status = status, !.ended = @ \/ status \in Ended]]
    IN IF ~was.ended /\ status \in Ended
       THEN OperationEvent(stored, o, was.kind, "finish", status)
       ELSE stored

UpdateOperation ==
    \E o \in Operations, status \in {"running"} \cup Ended :
        /\ work.operations[o] # None
        /\ work' = Updated(work, o, status)

InsertBootstrapKey ==
    \E k \in Keys, o \in Operations :
        /\ work.bootstrap[k] = None /\ work.operations[o] # None
        /\ work' = [work EXCEPT !.bootstrap[k] = o]

Writable(d, table) ==
    /\ d.scan # None
    /\ Parents[table] \subseteq d.rows
    /\ table \in d.rows => table \in Repeatable

Written(d, table) == [d EXCEPT !.rows = @ \cup {table}]

\* insert_page_inspection, insert_object_verification, insert_evidence, ...
InsertEntity ==
    \E table \in Tables \ {"assessments", "issues"} :
        /\ Writable(work, table)
        /\ work' = Written(work, table)

\* insert_assessment and insert_issue, each with its event
Announced(d, table) ==
    Appended(Written(d, table),
             IF table = "assessments" THEN <<"assessment", "finish">> ELSE <<"issue", "instant">>,
             None, "succeeded")

InsertOutcome ==
    \E table \in Tables \cap {"assessments", "issues"} :
        /\ Writable(work, table)
        /\ work' = Announced(work, table)

\* one_active_case_per_object_rule; insert_case reports a conflict and the
\* transaction goes on.
NoneActive(d, but) == \A c \in Cases \ {but} : d.cases[c] \notin ActiveCase

InsertCase ==
    \E c \in Cases :
        /\ work.cases[c] = None /\ "audit_objects" \in work.rows
        /\ work' = IF NoneActive(work, None) THEN [work EXCEPT !.cases[c] = "planned"] ELSE work

UpdateCase ==
    \E c \in Cases, s \in {"executing", "closed"} :
        /\ work.cases[c] # None
        /\ s \in ActiveCase => NoneActive(work, c)
        /\ work' = [work EXCEPT !.cases[c] = s]

\* append_runtime_event, of any component; ensure_integrity_event, once
RecordEvent ==
    /\ work.scan # None
    /\ \/ work' = Appended(work, <<"component", "instant">>, None, "succeeded")
       \/ work' = IF \E e \in ToSet(work.events) : e.name = <<"integrity", "instant">> THEN work
                  ELSE Appended(work, <<"integrity", "instant">>, None, "succeeded")

Calls == InsertScan \/ UpdateScan \/ InsertOperation \/ UpdateOperation \/ InsertBootstrapKey
         \/ InsertEntity \/ InsertOutcome \/ InsertCase \/ UpdateCase \/ RecordEvent

----------------------------------------------------------------------------
\* Transactions

Opened(t, connection, payload) == [thread |-> t, connection |-> connection, payload |-> payload]

\* A thread that takes part in nothing else
Ready(t) == retry[t] = None /\ (writer # None => writer.thread # t)

\* transaction(): the lock, and BEGIN IMMEDIATE, which another connection's
\* transaction keeps out
Begin(t) ==
    /\ Ready(t) /\ open /\ writer = None
    /\ writer' = Opened(t, "shared", None)
    /\ work' = db
    /\ UNCHANGED <<db, open, retry, saved, calls>>

Call(t) ==
    /\ writer # None /\ writer.thread = t /\ writer.payload = None
    /\ calls < MaxCalls
    /\ Calls /\ Len(work'.events) <= MaxEvents
    /\ calls' = calls + 1
    /\ UNCHANGED <<db, writer, open, retry, saved>>

\* SQLitePlatformLedgerStore.save, on the shared connection or, when it is
\* closed, on one of its own
Save(t, p) ==
    /\ Ready(t) /\ writer = None
    /\ writer' = Opened(t, IF open THEN "shared" ELSE "reopened", p)
    /\ work' = [db EXCEPT !.ledger = p]
    /\ UNCHANGED <<db, open, retry, saved, calls>>

Resave(t) ==
    /\ retry[t] # None /\ writer = None
    /\ writer' = Opened(t, "reopened", retry[t])
    /\ work' = [db EXCEPT !.ledger = retry[t]]
    /\ retry' = [retry EXCEPT ![t] = None]
    /\ UNCHANGED <<db, open, saved, calls>>

\* The transaction ends: what was in work is in the database, or none of it.
End == writer' = None /\ work' = None

CommitTransaction ==
    /\ writer # None
    /\ db' = work
    /\ saved' = IF writer.payload # None THEN {writer.payload} ELSE saved
    /\ End
    /\ UNCHANGED <<open, retry, calls>>

\* A call or the client raises.  A save within the thread's own transaction
\* raises too: it cannot begin another, and rolls the first one back.
Raise ==
    /\ writer # None
    /\ End
    /\ UNCHANGED <<db, open, retry, saved, calls>>

\* Mutant: a save cut short by close() is taken for done.
ReturnedQuietly ==
    /\ retry' = retry
    /\ saved' = IF writer.payload # None THEN {writer.payload} ELSE saved

\* The exception of a closed connection sends a save to a second one.
Reopens ==
    /\ retry' = [retry EXCEPT ![writer.thread] = writer.payload]
    /\ saved' = saved

\* close(), which takes no lock: an open transaction on the shared connection
\* is undone.
Close ==
    /\ open /\ open' = FALSE
    /\ IF writer # None /\ writer.connection = "shared"
       THEN Reopens /\ End
       ELSE UNCHANGED <<writer, work, retry, saved>>
    /\ UNCHANGED <<db, calls>>

\* A new file, or that of a scan whose first object has been found
Inspected ==
    Appended([Empty EXCEPT !.scan = "running", !.rows = Tables \cap {"page_states", "audit_objects"}],
             <<"scan", "start">>, None, "started")

\* The process ends, and another one opens the same file.
Restart ==
    /\ open' = TRUE /\ End
    /\ retry' = [t \in Threads |-> None]
    /\ UNCHANGED <<db, saved, calls>>

StoreInit ==
    /\ db \in {Empty, Inspected} /\ work = None /\ writer = None /\ open = TRUE
    /\ retry = [t \in Threads |-> None] /\ saved = {} /\ calls = 0

StoreNext ==
    \/ \E t \in Threads : Begin(t) \/ Call(t) \/ Resave(t)
    \/ \E t \in Threads, p \in Payloads : Save(t, p)
    \/ CommitTransaction \/ Raise \/ Close \/ Restart

StoreSpec == StoreInit /\ [][StoreNext]_storeVars

----------------------------------------------------------------------------
\* Properties

Of(name, o) == {e \in ToSet(db.events) : e.name = name /\ e.of = o}

\* Whatever was rolled back, refused or interrupted, the committed journal of
\* runtime events tells the whole story: numbered without a gap; for every
\* operation one start and, exactly when it has ended, one finish after it;
\* the browser's or the recovery's events beside the tool's; a gate for
\* exactly the operations that did not succeed when they ended; and one event
\* for every assessment and issue (insert_operation, update_operation,
\* _append_operation_event).
JournalIsComplete ==
    /\ \A i \in 1 .. Len(db.events) : db.events[i].sequence = i
    /\ \A o \in Operations :
        LET starts == Of(<<"operation", "start">>, o)
            finishes == Of(<<"operation", "finish">>, o)
            op == db.operations[o]
        IN IF op = None THEN \A e \in ToSet(db.events) : e.of # o
           ELSE /\ Cardinality(starts) = 1
                /\ Cardinality(finishes) = IF op.ended THEN 1 ELSE 0
                /\ \A s \in starts, f \in finishes : s.sequence < f.sequence
                /\ op.kind # "tool" =>
                     /\ Cardinality(Of(<<op.kind, "start">>, o)) = 1
                     /\ Cardinality(Of(<<op.kind, "finish">>, o)) = Cardinality(finishes)
                /\ Cardinality(Of(<<"gate", "instant">>, o))
                     = Cardinality({f \in finishes : f.outcome # "succeeded"})
    /\ \A x \in {<<"assessments", <<"assessment", "finish">>>>, <<"issues", <<"issue", "instant">>>>} :
        Cardinality(Of(x[2], None)) = IF x[1] \in db.rows THEN 1 ELSE 0

\* A save that returned is in the database until another one is committed
\* over it, although the connection may be closed under it at any moment and
\* the process may end (SQLitePlatformLedgerStore.save, SQLiteStore.close).
SavedIsDurable ==
    /\ db \in Database
    /\ saved \subseteq {db.ledger}
=============================================================================
