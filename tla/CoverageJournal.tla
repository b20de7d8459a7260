--------------------------- MODULE CoverageJournal ---------------------------
(***************************************************************************)
(* JsonCoverageLedgerStore: one Run's ledger on disk as a snapshot and an   *)
(* append-only journal of transitions, each event carrying the digest of     *)
(* everything before it.  Several callers use one or several store           *)
(* instances (processes) over the same two files; writes fail, processes    *)
(* die, and what is left is what load() finds.                               *)
(*                                                                         *)
(* A digest stands for the history it digests (SHA-256 collisions are left   *)
(* out): the snapshot it starts from and the operations since.  An event's   *)
(* sequence number is one more than that history's length.  The journal is    *)
(* the sequence of its physical writes, whole or cut short: a short write     *)
(* leaves no newline, so it spoils the line it is on whatever follows.        *)
(***************************************************************************)
EXTENDS CoverageLedger, SequencesExt

CONSTANTS Caller,       \* coordinators holding a ledger of this Run
          Store,        \* store instances, one per process
          Deployments   \* who runs where, how, what may go wrong, and a bound
                        \* on the journal's length

ASSUME StoreAssumption ==
  Deployments \subseteq [storeOf : [Caller -> Store],
                         legacy  : SUBSET Caller,
                         faults  : SUBSET {"write", "rollback", "crash"},
                         events  : Nat]

VARIABLES deployment, \* one of them; never changes
          snapshot,   \* <run>.review-coverage.json, or None
          temporary,  \* its .tmp file, or None
          journal,    \* <run>.review-coverage.journal.jsonl
          cache,      \* _current_ledgers and _journal_heads of every store
          held,       \* the ledger every caller was last given, or None
          busy,       \* the write every store is in the middle of, or None
          acked       \* histories whose last append returned (a history variable)

StoreOf == deployment.storeOf  \* the instance every caller uses
Legacy  == deployment.legacy   \* the callers that save whole snapshots
Faults  == deployment.faults
MaxEvents == deployment.events

journalVars == <<deployment, snapshot, temporary, journal, cache, held, busy, acked>>

Operation ==
  [kind : {"offer"}, batch : Batch]
  \cup [kind : {"accept"}, verdict : NewVerdict]
  \cup [kind : {"block"}, batch : Batch, reason : Reason]
  \cup [kind : {"finalize"}, status : TerminalStates]

\* Mutant: operations are applied without the transitions' own checks.
CanApplyAnything(l, op) == TRUE

\* _apply_operation: the transition an operation names, when it is legal.
CanApply(l, op) ==
  \/ op.kind = "offer" /\ CanOffer(l, op.batch)
  \/ op.kind = "accept" /\ CanAccept(l, op.verdict)
  \/ op.kind = "block" /\ CanBlock(l, op.batch, op.reason)
  \/ op.kind = "finalize" /\ CanFinalize(l, op.status)

Apply(l, op) ==
  CASE op.kind = "offer"    -> OfferResult(l, op.batch)
    [] op.kind = "accept"   -> AcceptResult(l, op.verdict)
    [] op.kind = "block"    -> BlockResult(l, op.batch, op.reason)
    [] op.kind = "finalize" -> FinalizeResult(l, op.status)

\* What one operation makes of a ledger; None if the transition raises.
Step(l, op) == IF l # None /\ CanApply(l, op) THEN Apply(l, op) ELSE None

\* Replaying operations on a ledger.
Replay(l, ops) ==
  LET after[n \in 0..Len(ops)] == IF n = 0 THEN l ELSE Step(after[n - 1], ops[n])
  IN after[Len(ops)]

History == [base : Ledger, operations : Seq(Operation)]

Digest(base, ops) == [base |-> base, operations |-> ops]

EventDigest(e) == Digest(e.previous.base, Append(e.previous.operations, e.operation))

Event(head, op) == [whole |-> TRUE, previous |-> head, operation |-> op]

Line == [whole : BOOLEAN, previous : History, operation : Operation]

Short(e) == [e EXCEPT !.whole = FALSE]

\* The journal's file, if there is one; without it a load finds no lines.
NoFile == [exists |-> FALSE, lines |-> << >>]

File(lines) == [exists |-> TRUE, lines |-> lines]

OpsOf(lines) == [i \in 1..Len(lines) |-> lines[i].operation]

\* Mutant: the digest chain is not checked.
IntactUnchained(base, lines) == \A i \in 1..Len(lines) : lines[i].whole

\* The checks load() makes of the journal, line by line.
Intact(base, lines) ==
  \A i \in 1..Len(lines) :
    /\ lines[i].whole
    /\ lines[i].previous = Digest(base, SubSeq(OpsOf(lines), 1, i - 1))

\* load() over the files: when it succeeds, and what it returns.
Loaded(s, j) == Replay(s, OpsOf(j.lines))

Loadable(s, j) == s # None /\ Intact(s, j.lines) /\ Loaded(s, j) # None

Entry(l, head) == [ledger |-> l, head |-> head]

\* What a store may have in memory: what it last persisted, and a write that
\* is going on.  A store that has nothing is not one that has something.
Entries == [ledger : Ledger, head : History]

AppendWork == [doing : {"append", "rollback"}, caller : Caller, result : Ledger,
               event : Line, offset : Nat]

ASSUME RecordAssumption == None \notin Ledger \cup Entries \cup AppendWork

-----------------------------------------------------------------------------
JournalInit ==
  /\ deployment \in Deployments
  /\ snapshot = None /\ temporary = None /\ journal = NoFile
  /\ cache = [p \in Store |-> None]
  /\ held = [c \in Caller |-> None]
  /\ busy = [p \in Store |-> None]
  /\ acked = {}

\* restore(): a failed load raises and caches nothing.
Load(c) ==
  /\ busy[StoreOf[c]] = None
  /\ Loadable(snapshot, journal)
  /\ LET l == Loaded(snapshot, journal)
     IN /\ cache' = [cache EXCEPT ![StoreOf[c]] =
                       Entry(l, Digest(snapshot, OpsOf(journal.lines)))]
        /\ held' = [held EXCEPT ![c] = l]
  /\ UNCHANGED <<snapshot, temporary, journal, busy, acked>>

\* save() up to writing the temporary file, whose name all processes share.
BeginSave(c, l) ==
  /\ busy[StoreOf[c]] = None
  /\ ~journal.exists
  /\ temporary' = l
  /\ busy' = [busy EXCEPT ![StoreOf[c]] = [doing |-> "save", caller |-> c, result |-> l]]
  /\ UNCHANGED <<snapshot, journal, cache, held, acked>>

\* start(): plan and initialize() a Run that has no files yet.
Initialize(c) == snapshot = None /\ BeginSave(c, Planned)

\* A legacy caller applies a transition in memory and saves the result.
Resave(c, op) ==
  /\ c \in Legacy
  /\ held[c] # None
  /\ CanApply(held[c], op)
  /\ BeginSave(c, Apply(held[c], op))

\* The rename, and the caches save() sets after it.
FinishSave(p) ==
  /\ busy[p] # None /\ busy[p].doing = "save"
  /\ temporary # None
  /\ snapshot' = temporary
  /\ temporary' = None
  /\ LET l == busy[p].result
     IN /\ cache' = [cache EXCEPT ![p] = Entry(l, Digest(l, << >>))]
        /\ held' = [held EXCEPT ![busy[p].caller] = l]
  /\ busy' = [busy EXCEPT ![p] = None]
  /\ UNCHANGED <<journal, acked>>

\* The write or the rename raises (another process may have renamed the
\* temporary file away); it is removed and the caller keeps its old ledger.
FailSave(p) ==
  /\ busy[p] # None /\ busy[p].doing = "save"
  /\ "write" \in Faults \/ temporary = None
  /\ temporary' = None
  /\ busy' = [busy EXCEPT ![p] = None]
  /\ UNCHANGED <<snapshot, journal, cache, held, acked>>

\* _append_operation up to the write: the caller's ledger must be the one the
\* store last persisted; the file is opened, and created, for appending.
BeginAppend(c, op) ==
  LET p == StoreOf[c]
  IN /\ c \notin Legacy
     /\ busy[p] = None
     /\ held[c] # None
     /\ cache[p].ledger = held[c]
     /\ CanApply(held[c], op)
     /\ Len(journal.lines) < MaxEvents
     /\ journal' = File(journal.lines)
     /\ busy' = [busy EXCEPT ![p] =
                   [doing |-> "append", caller |-> c, result |-> Apply(held[c], op),
                    event |-> Event(cache[p].head, op), offset |-> Len(journal.lines)]]
     /\ UNCHANGED <<snapshot, temporary, cache, held, acked>>

\* write, flush and fsync succeed; the caches move and the caller is told.
FinishAppend(p) ==
  /\ busy[p] # None /\ busy[p].doing = "append"
  /\ LET w == busy[p]
     IN /\ journal' = File(Append(journal.lines, w.event))
        /\ cache' = [cache EXCEPT ![p] = Entry(w.result, EventDigest(w.event))]
        /\ held' = [held EXCEPT ![w.caller] = w.result]
        /\ acked' = acked \cup {EventDigest(w.event)}
  /\ busy' = [busy EXCEPT ![p] = None]
  /\ UNCHANGED <<snapshot, temporary>>

\* What an interrupted write leaves of an event.
Remains(lines, e) ==
  {File(lines), File(Append(lines, Short(e))), File(Append(lines, e))}

\* write, flush or fsync raises after writing nothing, a part or everything.
FailAppend(p) ==
  /\ "write" \in Faults
  /\ busy[p] # None /\ busy[p].doing = "append"
  /\ journal' \in Remains(journal.lines, busy[p].event)
  /\ busy' = [busy EXCEPT ![p].doing = "rollback"]
  /\ UNCHANGED <<snapshot, temporary, cache, held, acked>>

\* Mutant: a failed write is not truncated away.
RollbackNothing(p) ==
  /\ busy[p] # None /\ busy[p].doing = "rollback"
  /\ busy' = [busy EXCEPT ![p] = None]
  /\ UNCHANGED <<snapshot, temporary, journal, cache, held, acked>>

\* seek and truncate; past the end of the file they pad it with zeros.
Rollback(p) ==
  /\ busy[p] # None /\ busy[p].doing = "rollback"
  /\ LET n == busy[p].offset
     IN journal' = File(IF n <= Len(journal.lines) THEN SubSeq(journal.lines, 1, n)
                        ELSE Append(journal.lines, Short(busy[p].event)))
  /\ busy' = [busy EXCEPT ![p] = None]
  /\ UNCHANGED <<snapshot, temporary, cache, held, acked>>

\* The truncation raises too: the file stays as the failed write left it.
FailRollback(p) ==
  /\ "rollback" \in Faults
  /\ busy[p] # None /\ busy[p].doing = "rollback"
  /\ busy' = [busy EXCEPT ![p] = None]
  /\ UNCHANGED <<snapshot, temporary, journal, cache, held, acked>>

\* The process dies: its memory is gone, a write in progress is cut anywhere.
Crash(p) ==
  /\ "crash" \in Faults
  /\ cache' = [cache EXCEPT ![p] = None]
  /\ held' = [c \in Caller |-> IF StoreOf[c] = p THEN None ELSE held[c]]
  /\ busy' = [busy EXCEPT ![p] = None]
  /\ IF busy[p] # None /\ busy[p].doing = "append"
     THEN journal' \in Remains(journal.lines, busy[p].event)
     ELSE UNCHANGED journal
  /\ UNCHANGED <<snapshot, temporary, acked>>

JournalNext ==
  /\ UNCHANGED deployment
  /\ \/ \E c \in Caller : Load(c) \/ Initialize(c)
     \/ \E c \in Caller, op \in Operation : Resave(c, op) \/ BeginAppend(c, op)
     \/ \E p \in Store : \/ FinishSave(p) \/ FailSave(p)
                         \/ FinishAppend(p) \/ FailAppend(p)
                         \/ Rollback(p) \/ FailRollback(p)
                         \/ Crash(p)

JournalSpec == JournalInit /\ [][JournalNext]_journalVars

-----------------------------------------------------------------------------
\* The files and the memory of every process hold well-formed values.
JournalTypeOK ==
  /\ deployment \in Deployments
  /\ snapshot \in Ledger \cup {None}
  /\ temporary \in Ledger \cup {None}
  /\ journal \in [exists : BOOLEAN, lines : Seq(Line)]
  /\ \A p \in Store : cache[p] # None => cache[p] \in Entries
  /\ \A c \in Caller : held[c] \in Ledger \cup {None}
  /\ \A p \in Store : busy[p] # None =>
       /\ busy[p].doing \in {"save", "append", "rollback"}
       /\ StoreOf[busy[p].caller] = p
       /\ busy[p].result \in Ledger
  /\ acked \subseteq History

\* Whatever two processes, a crash or a legacy save did to the files, a load
\* that succeeds continues the history of every acknowledged append: the
\* digest chain turns a lost or forked transition into a refusal.
LoadNeverLies ==
  Loadable(snapshot, journal) =>
    \A h \in acked : /\ h.base = snapshot
                     /\ IsPrefix(h.operations, OpsOf(journal.lines))

OneProcess == \A c, d \in Caller : StoreOf[c] = StoreOf[d]

Alone == "rollback" \notin Faults /\ OneProcess

\* With one process at a time, what a live store believes to be persisted is
\* what a restart would load: failed writes are rolled back and an
\* interrupted one is either refused or resumed, never half-believed.  (Types
\* are part of it: a head that is no history would agree with nothing.)
ReloadAgrees ==
  /\ JournalTypeOK
  /\ Alone => \A p \in Store : cache[p] # None /\ busy[p] = None =>
    Loadable(snapshot, journal) /\ Loaded(snapshot, journal) = cache[p].ledger

\* The journal, less what a failed write left in it and is to be truncated away.
RollingBack == {p \in Store : busy[p] # None /\ busy[p].doing = "rollback"}

LinesToStay ==
  IF RollingBack = {} THEN journal.lines
  ELSE SubSeq(journal.lines, 1, busy[CHOOSE p \in RollingBack : TRUE].offset)

\* The ledger on disk: the replay of the longest intact part of the journal.
IntactPart(s, lines) ==
  SubSeq(lines, 1, Max({n \in 0..Len(lines) : Intact(s, SubSeq(lines, 1, n))}))

DurableLedger ==
  IF snapshot = None THEN Planned
  ELSE Replay(snapshot, OpsOf(IntactPart(snapshot, LinesToStay)))

\* A legacy caller's snapshot may hide what others have written since, and a
\* rollback beside another process take its events back: there nothing is claimed.
Chained == Legacy = {} /\ ("write" \notin Faults \/ OneProcess)

Review == INSTANCE IncrementalReview WITH
  ledger <- IF Chained THEN DurableLedger ELSE Planned

\* The store implements the ledger: seen on disk, every write is one legal
\* transition or none, also when writes fail, processes crash or race for the
\* journal.
ImplementsReview == Review!Spec
=============================================================================
