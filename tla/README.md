# A TLA+ verification of Assayer

Assayer audits a target: a Host plans *review atoms*, hands them to an Agent in
bounded batches, records the Agent's decisions in a durable ledger and derives a
result from it. This directory holds TLA+ models of the parts of it whose
correctness depends on order, failure or concurrency, the TLC runs that check
them, and proofs that TLAPS checks. Paths below are relative to the repository;
`platform/` is `src/assayer_platform/`, `host/` is `src/assayer_host/`, `sdk/` is
`src/assayer_plugin_sdk/`.

- [Inventory](#inventory): the system's parts and what makes them hard
- [Modules](#modules): what models what, and what each run and proof shows
- [What is proved, and what is model-checked only](#proved)
- [What the code does that its documents do not say](#findings)
- [Not modelled](#not-modelled), and [Plan](#plan): what would come next

## Inventory

How the parts call each other:

    Agent / Codex ──MCP──> host/transport ──> platform/compiled_interactive ──> session ──> ledger store
                                                     │                          (state_machine, export)
                                                     └──> incremental_review (CoverageLedger, JsonCoverageLedgerStore)
                           IncrementalReviewCoordinator ──> journaled transitions of the same store
    scripted checks ─────> platform/kernel ──> provider_execution / parallel_execution ──> Provider
    session, kernel ──> result_conformance, canonical_result, audit_report ──> result and report files
    session, kernel ──> host/platform_store ──> host/store (SQLite)
    Codex ──MCP──> host/plugin_lifecycle_mcp ──┬> plugin_lifecycle_ops ──> compiled_plugin_lifecycle
    host/cli, host/plugin_intent ──────────────┘                             ──> plugin store on disk
    Codex ──MCP──> host/lifecycle_product ──> lifecycle_transaction ──> Codex plugin catalog (external)

| Component | State | Operations | Hard behaviour | Correct when |
|---|---|---|---|---|
| **Coverage ledger** `platform/incremental_review.py` | immutable value: plan, batch and atom statuses, verdict history, terminal status | plan, offer, accept (new / replay / correction), block, finalize | transitions skip the validation the constructor makes; identities repeat and conflict | every reachable ledger passes the constructor's checks; history is only extended; a terminal status is true |
| **Coverage journal store** same file | snapshot file, `.tmp` file, journal file; per-instance cached ledger and head digest | save, initialize, offer/accept/block/finalize, load | failing writes with rollback, crashes inside a write, several processes on one Run, shared `.tmp` name | load returns a ledger that has every acknowledged transition, or refuses; memory and disk agree |
| **Review coordinator** `platform/incremental_review_runtime.py`, `review_binding.py` | in-memory binding of the current task, copy of the ledger | start, restore, next_task, submit, correction_task, block_current, block, finish | answers late, repeated, or after a restart; a task that does not fit after its batch was offered | one batch at a time; the binding is current; the current answer is accepted; the review drains |
| **Lifecycle transaction** `host/lifecycle_transaction.py`, `release_lifecycle.py` | journal file per transaction; external catalog | execute: refresh, journal, remove, install, verify, commit, compensate | commands that raise after they were applied, broken releases, journal failures, crashes | one release installed; the recorded result is true; no change without a running journal |
| **Lifecycle product** `host/lifecycle_product.py` | SQLite table of plan tokens | plan, execute, claim, complete, recover | two processes, retries, dead owners of an executing token | a plan is carried out once; terminal means over; a claimed token settles |
| **Session and state machine** `platform/session.py`, `state_machine.py`, `ledger.py` | Run record, operations, receipts, ledger file set | record_*, finish, restore | a save fails before or after the ledger file is written; only commit and finish roll memory back; a Host that repeats or contradicts itself | what may finish conforms; an acknowledged commit is never lost or replaced |
| **Kernel** `platform/kernel.py`, `decision.py`, `error_policy.py` | committed receipts, inspection cache, adaptive batch size | run: discover, inspect (split on failure), decide, commit, replay | batches split to isolate a bad item; a Run called again with another decision; one save at the very end, replacing what an earlier call saved | every item decided or failed once; packets current; receipts match; nothing committed twice |
| **Compiled controller and transport** `platform/compiled_interactive.py`, `host/transport.py` | map of Runs, one active Run id, snapshot-saved ledger | start, bind, discover, collect, plan, submit, finalize, restore, close | save succeeds and the in-memory update does not; the active Run is released on one path only | tool order enforced; memory equals disk; a Run can always be released |
| **Review projection, common review** `platform/review_projection.py`, `common_review.py` | none | build task, parse and validate an answer | combinations of verdicts, applicability, support and findings | an answer decides exactly the batch and cites only what the task issued |
| **Review plan, declaration compiler** `platform/compiled_review_plan.py`, `declaration_compiler.py`, `sdk/invariant_program.py` | none | expansion, compilation, three-valued evaluation | combinations of unknown facts | agrees with a reference definition |
| **Provider execution** `platform/provider_execution.py`, `capability_negotiation.py`, `provider_registry.py`, `provider_binding.py` | discovered sources, result cache, issued Evidence, calls under way, runtime lease | select, negotiate, construct, discover, collect, close | threads that collect and discover while the source changes; provider calls outside the lock; a close that raises | limits of every party hold; what was returned verifies; one state of a source; the runtime is given back |
| **Result, delivery, reports** `platform/canonical_result.py`, `result_conformance.py`, `result_delivery.py`, `audit_report.py`, `sdk/actionable_result.py` | the files of a terminal Run | derive the result, render the report | Runs that end early; four sources of a problem row, each used only where the ones before have nothing | every item accounted for; nothing objected to is passed; actionable means actionable |
| **Run store, platform store** `host/store.py`, `platform_store.py` | SQLite tables, event journal, one shared connection | transactions, operations, events, cases, rows, platform ledger | threads on one connection, a close in the middle of a transaction, rollbacks, keys that repeat | the committed journal tells every operation once; a save that returned stays |
| **Plugin store and lifecycle tools** `host/plugin_lifecycle_mcp.py`, `plugin_lifecycle_ops.py`, `plugin_lifecycle_router.py`, `plugin_intent.py`, `host/cli.py`, `platform/plugin_catalog.py`, `plugin_installation.py`, `compiled_plugin_lifecycle.py` | index file, package directories, one-time plans in memory | plan, execute, apply, install, upgrade, downgrade, rollback, uninstall | store, catalog or source changed between plan and execution; a stop between two file steps; long histories | the active contract loads; what completes is what was confirmed |
| **Runtime cleanup** `host/runtime_cleanup.py` | runtime directories, markers | inspect, plan, remove | crash between rename and removal | the runtime in use survives |
| **Authentication, readiness, Codex client** `host/auth.py`, `readiness.py`, `codex_plugin_client.py` | keychain, subprocesses | | I/O | external here |
| **Evidence SDK** `sdk/evidence_*.py`, `source_chunking.py`, `source_fact_index.py` | immutable graphs and indexes | build, slice, resolve | numeric edges of chunking | chunks cover the source |
| **SDK contract** `sdk/contract.py`, `plugin_sdk.py`, `plugin_compatibility.py` ... | none | validation, version comparison | | agrees with its schema |
| **Documents, conformance, CLI, scripts** | none worth a model | | text and I/O | |

`PROJECT.json` lists each component with its modelling status, every hazard with
the line it bites at and the properties that would catch it, and for every
definition of the modules the source lines it stands for.

## Modules

    ReviewOutcome          what a review promises, abstractly
      ^ implemented by
    IncrementalReview      the ledger of one Run, a method a step             <- IncrementalReviewProofs
      ^ implemented by
    CoverageJournal        its files, written by one process or several       <- IncrementalReviewProofs
    ReviewCoordinator      its driver: tasks, late answers, restarts          <- ReviewCoordinatorProofs

    CoverageLedger         the ledger's transitions and structural checks (operators, no state),
                           of the three and of CompiledRun                    <- CoverageLedgerProofs
    CompiledRun            a compiled plugin's Run, call by call              <- CompiledProofs

    BatchPlan              the planning pass        <- proved in IncrementalReviewProofs
      + IncrementalReview, composed in MCIncrementalReview: one of the plans is then reviewed

    InteractiveRun         a Run driven call by call, its saves and restarts  <- RunProofs
    KernelRun              PlatformKernel.run, publish and restarts           <- KernelRunProofs
    ProviderExecution      the provider of one Run, shared by threads         <- RunProofs

    CommonReview           what an Agent's answer may be (operators, no state)
      ^ extended by
    TerminalResult         from answers and decisions to the canonical result and the report
                                                                              <- RecordsProofs

    LifecycleTransaction   one transaction, step by step
      ^ extended by
    LifecycleProduct       tokens, processes, recovery, and the whole composed
                                                                              <- LifecycleProductProofs

    PluginStore            index and packages on disk, one operation in file steps
      ^ extended by
    PluginChange           plans, command line, requests in words, catalog, source, Runs
                                                                              <- CompiledProofs

    HostStore              the SQLite store, its clients and the ledger adapter <- RecordsProofs

`MC*` modules only define constants for TLC. An operator whose comment begins
with "Mutant:" is a plausible bug in the definition that follows it; no
specification uses one. Each property was checked to fail with one of them in place.

`Absence` declares `None` for all of them. `RunProofs` (`InteractiveRun`, `ProviderExecution`), `RecordsProofs`
(`HostStore`, `TerminalResult`) and `CompiledProofs` (`CompiledRun`, `PluginChange`) are about two components
each: a theorem of theirs starts from the specification of the one it names (`Spec`, `ProviderSpec`,
`StoreSpec`, `ChangeSpec`) and says nothing of the other.

### CoverageLedger and IncrementalReview

A ledger is a record: `batches` (status and blocking reason), `entries` (an
atom's status, effective submission and list of revisions), `verdicts` and
`terminal`. The code keeps verdicts in one tuple but reads them only by identity
and per batch, so the model has one sequence per batch. For every method `m` of
`CoverageLedger` there is `CanM` (the method returns; it raises otherwise) and
`MResult` (the ledger it returns). Decisions are functions from atoms to values;
what is in a verdict besides its identity, parent, batch, decisions and status is
left out.

`IncrementalReview` has one variable, the ledger, and one action per method, with
any batch, any well-formed verdict (any identity, any decisions, any parent) and
any terminal status as input.

The structural checks of `__post_init__` run when a ledger is decoded but not
when a transition builds the next one (`_transitioned` bypasses them). So a
transition that broke one would be saved, and discovered only when the Run is
next loaded and refused. They are stated as
`StatusesAgree`, `HistoryIsAChain`, `EffectiveIsLatest`, `TerminalIsTruthful`;
`HistoryAppendOnly` says that no step drops, edits or reorders a stored verdict
(superseding marks it), and `ImplementsOutcome` that, mapped to what each atom is
currently decided to be, the ledger makes only the moves `ReviewOutcome` allows:
a batch is decided whole, a blocked batch stays undecided, a finished review is
frozen, and `completed` / `partial` tell the truth about coverage.

`LoaderAccepts` is the conjunction of the four, with well-formedness: what the
constructor would say of the ledger.

Where the batches come from is `BatchPlan`: the loop of `CoverageLedger.plan` as a
state machine, an atom per step, that joins the atom to the batch being filled,
opens the next one, or refuses the plan when an atom alone is too large. Atoms carry
a context or none; equal contexts are one entry of a payload's catalog, so how
much an atom adds depends on the batch it joins (`PayloadSize`). `PlansAreBest`: the
plan that the pass arrives at is one the loader accepts (every atom in one batch,
in order, no limit exceeded), no plan it would accept has fewer batches, and the
pass gives up only if there is no such plan. `Acceptable` is the reference
definition, over all ways to cut the list.

*Run* `ledger` plans every list of up to four atoms of one or two bytes, with and without
one shared context of two bytes, for every limit of two or three atoms and two to six bytes
(3,401 inputs), and then reviews one of the plans. That one is of three atoms in two
batches, one of which has two atoms; three identities,
so that two corrections of one batch, an identity used for the wrong batch, and
replays of superseded verdicts all occur; two values; two reasons. Everything is
finite (an identity is stored at most once), so the run needs no bound on steps.

*Proofs* (`IncrementalReviewProofs`, no assumption besides those on the constants):

| Theorem | Statement |
|---|---|
| `TypeCorrect` | `Spec => []TypeOK` |
| `LedgerStaysLoadable` | `Spec => [](StatusesAgree /\ HistoryIsAChain /\ EffectiveIsLatest /\ TerminalIsTruthful)` |
| `HistoryIsNeverRewritten` | `Spec => HistoryAppendOnly` |
| `LedgerImplementsOutcome` | `Spec => ImplementsOutcome` |

The inductive invariant is `TypeOK /\ ValidLedger(ledger)`: the four checks are
not inductive one by one. A correction is accepted because the effective
identities of the batch's atoms are exactly its parent, and that this parent is
the *last* verdict of the batch's history — which keeps the chain a chain —
follows only from `EffectiveVerdict`; that a block cannot strike a batch with
verdicts needs `StatusAgreement`; that a new chain can be re-read by identity
needs all stored identities of the chain distinct. The proof has one lemma per
method (`OfferPreserves`, `AcceptPreserves`, `BlockPreserves`, `FinalizePreserves`, and
`AcceptExtends` for the history), stated in `CoverageLedgerProofs` about ledgers
rather than about a state, so that the modules which embed a ledger cite them.

`LedgerImplementsOutcome` is the refinement, with the mapping of `ImplementsOutcome`: a planned ledger
has decided and blocked nothing, an accepted verdict decides (or decides again) the atoms of
one batch, a block gives up on an undecided one, `finalize` tells the truth about what is decided,
and an offer, a replay and a repeated `finalize` change nothing of it. It needs the invariant: only in
a valid ledger does the decision that stands for an atom come from the verdict just stored.

*Proof* (also in `IncrementalReviewProofs`): `GreedyIsBest`, `PlanSpec => []PlansAreBest`, for any lists
and limits. It rests on `InputAssumption` (limits `plan` does not refuse) and
`ContextAssumption` (contexts have weights). That a part of a payload is no larger than the whole is the lemma
`PayloadGrows`, by [induction](#induction) on the atoms of the two: where only the part has to bring an
atom's context, the whole has brought it with an atom before the part. The invariant is the exchange argument: the plan
so far is acceptable for the atoms so far (`Sound`); no acceptable plan has fewer batches
than it, or starts one of them later (`Ahead`); the next atom lies in a batch of every acceptable
plan (`Covered`); and one that is too large alone leaves none (`Hopeless`).

### CoverageJournal

The three files of a Run, the per-process cache of `JsonCoverageLedgerStore` and
the ledger each caller holds. A digest is modelled by what it digests (the snapshot
and the operations before it); two digests are equal exactly when the histories
are, which is what SHA-256 is used for. `Replay` of operations on a ledger is a recursive function,
one `Step` (the transition, or `None` if it raises) at a time. A write is two steps, `Begin...` and
`Finish...`; in between the process may die, leaving nothing, a line cut short or
a whole line (`Remains`), or the write may fail and be rolled back by truncating
to the recorded offset, and the rollback itself may fail. `load` is `Loadable` and `Loaded`.

*Run* `journal`, four deployments: two callers on one store, with write failures and crashes;
the same where a rollback may fail too; a journaling process beside one that saves whole
snapshots, with all three; and two journaling processes, each with its own cached head, that
may die. Is what the live store believes what a restart loads, is nothing acknowledged ever lost, and do the
files only make legal ledger transitions?

Who runs where, in which mode, and what may go wrong is a `deployment`, chosen in the
initial state and never changed, so that one run covers all four.

- `LoadNeverLies` — whenever a load succeeds, the history it returns extends every
  history whose append returned.
- `ReloadAgrees` — in a process that has the files to itself, and whose rollbacks succeed, a store's cached
  ledger is what `load` would return when no write is in flight; the types of the
  variables are its first conjunct.
- `ImplementsReview` — the ledger on disk makes only the transitions of `IncrementalReview`. It is the
  replay of the longest intact part (`IntactPart`) of the lines that are there to stay
  (`LinesToStay`: what a failed write left is not, while it is being rolled back). So a transition
  happens when its line is whole: at a returned append, at a crash, or at a rollback that fails after
  a write that was complete, when the caller is told of a failure that a restart will not
  know of. Nothing is claimed (`Chained`) beside a caller that saves whole snapshots, or if writes fail
  while several processes journal.

Two events are enough for an append after a damaged line or a rollback and for a fork by two processes;
one atom and one batch suffice because `CoverageLedger` is checked and proved separately.

*Proofs* (also in `IncrementalReviewProofs`), for any callers, stores, failures and journals of any length:

| Theorem | Statement | Condition |
|---|---|---|
| `AcknowledgedStays` | `JournalSpec => []LoadNeverLies` | `OneJournalist`: in a deployment where writes fail, all who append use one store |
| `ReloadsAgree` | `JournalSpec => []ReloadAgrees` | none (the property has its own, `Alone`) |
| `JournalImplementsReview` | `JournalSpec => ImplementsReview` | none (the property has its own, `Chained`) |

The invariant for `LoadNeverLies` has two halves. `AckedStay`: every acknowledged history is the one that some line of the
journal ends. A successful load has compared that line's digest with the snapshot and the operations
before it, so the history is a prefix of what it returns; nothing is said of, or needed from, the lines
that are spoiled. `TruncationIsSafe`: while a store writes, everything acknowledged
lies before the offset it may truncate to. The condition is used in one place,
`NobodyElseWrites`: no other store appends between the offset and the truncation. A crash, a
failing rollback and a caller that saves a snapshot over the journal's base need no condition: they
make loads fail, not lie.

The condition is necessary: with *two* journaling processes *and* write failures,
`LoadNeverLies` is false (a rollback truncates what another process appended after the offset
was taken). It needs two live writers, which the documents rule out; it is recorded as a hazard, and
the run's deployments leave it out.

The other two are about ledgers, not only about operations. `Memory` says of every deployment that a store
believes the ledger that the history its head digests replays to, that a write in
progress is one legal operation on it, and that both ledgers are valid (`Sane`), which is where the
lemmas of `CoverageLedgerProofs` come in; `Files` that what is on disk is well-formed. What a replay does with one more
operation, or with a part of its operations, is [proved by induction](#induction) on their number.

`ReloadsAgree` adds `OneWriter`: where one process has the files, its head is the digest of the
journal at rest (`AtRest`: before the write in progress), and a write in progress knows the files, an append
where it began, a rollback what is behind that place. A load then finds exactly what the
store believes, after any number of failed writes and deaths: a death leaves memory empty, so nothing is to agree.

`JournalImplementsReview` adds `Journaled`: where nobody saves snapshots, the snapshot stays the plan. Two things
may be done to the lines to stay: a line is added, and what a rollback or a failing rollback
decides. One more line is one operation or none on the ledger on disk (`LineCounts`): if the
line continues the chain, the operation was legal in the writer's memory, and by `Memory` that is the ledger
on disk; if it does not, because another process was faster or the file is damaged, then the intact
part ends before it, now and for ever. This is why two processes may race for the journal and ruin it, yet
never make it tell an illegal review.

### ReviewCoordinator

The coordinator in front of a store that is durable when its methods return. The
Agent is external: it answers the task it was last shown, with any decisions for
that batch; every answer it ever sent may be delivered at any later time, more
than once, to any incarnation of the process. `Crash` loses the binding; `Restore`
is the constructor over a loaded ledger. `oversized` are the batches (any) whose
projected task exceeds the byte limit, which `_activate` finds out *after*
`next_task` has offered the batch durably.

- `TaskIsCurrent` — never two offered batches (the constructor would refuse such a
  Run), and the task held in memory belongs to the offered batch or corrects the
  verdict that stands.
- `CurrentAnswerIsAcceptable` — whatever happened since, a complete answer to the
  current task carries a fresh identity and is accepted by the ledger.
- `Drains` — every batch ends up decided or blocked. The fairness
  is that of the environment, not of the code, which is a library without threads:
  the Agent answers what it is shown and its answers arrive, the Host restarts a
  dead process, keeps asking for the next task and blocks the batch whose task it
  is told does not fit. Nothing is assumed about corrections, crashes or blocks
  beyond their bounds. The property fails without the code's rule that a batch
  offered before a restart is found again.

*Run* `coordinator`: two batches of one atom, two values, at most two verdicts per batch, one crash. A second crash adds no new state of memory:
`Restore` starts from nothing in either case.

*Proofs* (`ReviewCoordinatorProofs`), for any plan, values and bounds:

| Theorem | Statement |
|---|---|
| `OneTaskAtATime` | `Spec => []TaskIsCurrent` |
| `CurrentAnswerFits` | `Spec => []CurrentAnswerIsAcceptable` |
| `CoordinatorImplementsReview` | `Spec => Review!Spec`: the stored ledger (the plan, until there is one) follows `IncrementalReview` |

The last closes a chain: what the coordinator does to its ledger, in front of a durable store, and what
the journal store does to the files are both behaviours of `IncrementalReview`, which implements `ReviewOutcome`. It needs the
invariant: `submit` hands `accept` a verdict that the ledger does not refuse only
because the binding is current and its identity new.

They rest on `IdentityAssumption`: there is an identity for everything `bind` may digest.
`Identities[n]` are those of the n-th verdict of a batch; the code needs no such bound, an identity there is a
digest of batch, decisions and parent, and here it *is* that triple, which must have a place in
`SubmissionId`. The invariant, `Coordinated`, says of the store that its ledger is valid, that at most one
batch is offered, and that every stored verdict's identity is the digest of its own content (`Traced`);
and of memory that the task held is about the one batch that can be answered now and names the
verdict that stands (`Holding`). `Traced` is what makes the current answer new: an identity that is
already stored names its parent, so an answer to the latest verdict would have to be its own
ancestor.

### LifecycleTransaction and LifecycleProduct

`LifecycleTransaction` is `execute`, one action per external command, catalog
check or journal save, of a process that has claimed a plan; `proc[p].at` is its
place in the code. The catalog is external: a command may be refused, applied and
then raise, or install an unhealthy release. Reading the catalog, writing the
journal and writing the token table may fail, and a process may die anywhere.
`LifecycleProduct` adds the token table (`Issue`, `Claim`, `Report`) and the
repair of an `executing` token from a terminal journal (`Recover`). `last` and
`begun` are history variables.

- `OneRelease` — replacing a release, failing anywhere and undoing it never leaves two
  releases installed.
- `ResultIsTrue` — a stored result says what the catalog has, as long as no later
  transaction has sent a command.
- `MutationIsJournaled` — the catalog changes only under a running journal.
- `ExecutedOnce` — a plan is carried out at most once, and a terminal token means that
  nobody is executing it any more and that its result is the journal's (types included).
- `ClaimsSettle` — a claimed token becomes terminal.

*Run* `lifecycle`, two releases: one process with two tokens and every fault, two
processes with one token and every fault, or only those of the client and the journal.

Two tokens let a second transaction start from what the first left behind. `OneRelease`
is not claimed of two processes with *different* tokens, where it is false (see
[below](#findings)). Which processes, tokens
and faults there are is chosen in the initial state (`Deployments`) and never changes. The
fairness of `ClaimsSettle` is that a process which is alive takes its next step; the
code is straight-line Python. It is claimed where no crash, no failing token table and
no exception before the first journal save occur: each leaves the token
`executing` for good, which the code intends (its answer is "result unknown").

*Proofs* (`LifecycleProductProofs`), for any number of releases, processes, tokens, deployments
and crashes, from `SentinelAssumption` and `IdentityAssumption` (the constants have different values):

| Theorem | Statement |
|---|---|
| `TypesStay` | `Spec => []TypeOK` |
| `CarriedOutOnce` | `Spec => []ExecutedOnce` |
| `MutationFollowsJournal` | `Spec => MutationIsJournaled` |
| `OneReleaseStays` | `Spec /\ []Exclusive => []OneRelease` |
| `ReportsAreTrue` | `Spec /\ []Exclusive => []ResultIsTrue` |
| `OneByOneIsSafe` | `ASSUME \A d \in Deployments : OneByOne(d) PROVE Spec => [](OneRelease /\ ResultIsTrue)` |

There are two invariants. `Owned` is about who may act: the process that executes a plan is the one whose claim
the table has, at most one holds each token (`Holds`, `Owner`), its journal says what its place
in the code implies (`Recorded`), and who is about to report has the result its journal has
(`Reporter`). The first three theorems follow from it, whatever else runs. `Sound` is about the
catalog: for each place in `execute`, which of the two releases are installed (`Stage`), and
that whatever claims a result of the last transaction claims what the catalog has (`Truth`). It
is inductive only where no two transactions are under way at once (`Exclusive`), and two
transactions of different tokens do break it ([below](#findings)): that is a condition on the callers,
which neither the token table nor the journal enforces. `OneByOneIsSafe` discharges it where there is
one process or one token (`OneByOne`), as in the deployments of the run, since `Owned` then allows only one.

### CompiledRun

The path an Agent takes through MCP: `start_compiled_run`, `bind_provider`,
`discover_sources`, `collect_evidence`, `plan_review_batches`, `submit_review_batch`,
`finalize_compiled_run`, one action each, in any order and as often as wanted. The
transport runs one tool at a time. `memory[r]` is the controller's `CompiledRun` with
the two caches of its provider (what was discovered, what was answered); `disk` is the
coverage store, whose saves are atomic here; `Exit` is the end of the process, in order
or not, after which no tool resumes a Run. The sources change at any moment
(`Change`), a collection may fail for one source or raise half way, and reading
the result back after it was saved may raise (`FinalizeUnread`).

- `JudgedAsDiscovered` — a judgement that needs Evidence rests on the source as
  the Run's first discovery saw it (`pinned` remembers), and a source whose
  collection failed is never judged. Discovery replaces the work items on every call
  while collections are kept, so this rests on the provider's cache.
- `UnfinishedIsActive` — a Run that can still change is the transport's active one; the
  plugin lifecycle tools look at exactly that identity before they change a plugin.
- `ResultIsFinal` — a terminal ledger on disk is never written again with another value.
- `RunsEnd` — an active Run is finished or its process ends. Fairness: the client
  goes on with the Run (binds, plans, submits some complete answer it may submit,
  finalizes), and the provider answers, if only with a classified failure. A
  provider that raises for ever, or an atom larger than the limit, is outside it:
  no tool abandons a Run, so such a Run holds the transport until the process ends.

*Run* `compiled_run`: two Runs, two sources in one batch, one of which changes between
two versions. Two Runs are needed for a late `finalize` of the first while the second
is active; two sources for a collection that is half done. One identity suffices,
as one batch takes one verdict on this path. The provider runtimes that the
transport resolves are not modelled: no other state depends on them.

That the sources may start in any of `FirstWorlds` and that only those in `Editable`
change are the other two bounds (one start, one editable source).

*Proofs* (`CompiledProofs`), for any number of Runs, sources, versions and batches,
from `RunAssumption` (which values the constants have), `PlanAssumption` and
`NoneAssumption`:

| Theorem | Statement |
|---|---|
| `TypeCorrect` | `Spec => []TypeOK` |
| `JudgementsRestOnDiscovery` | `Spec => []JudgedAsDiscovered` |
| `UnfinishedIsGuarded` | `Spec => []UnfinishedIsActive` |
| `ResultsAreFinal` | `Spec => ResultIsFinal` |

None of these is inductive. `IInv` adds, for each Run: what the controller holds is
what the store has and what was first discovered (`Linked`), with the work items
those of the cached discovery (`AgreeOnDiscovery`) — without this, a second `discover_sources`
could put a later version under Evidence already judged; a Run that never began has
nothing on disk (`Fresh`), so `start` cannot overwrite a result; and the stored ledger
is valid and judged as pinned (`Stands`), which uses the lemmas of
`CoverageLedgerProofs`. `ResultsAreFinal` follows from `Linked`: whatever is
saved was computed from the stored ledger, and no transition of a terminal ledger
but finalizing with the same status exists.

### InteractiveRun

`InteractivePlatformRun`, which a Host drives for an Agent call by call. `memory` is the
object, `ledger` the file that `restore` reads; both are records of what the guards
read: status and workflow state, discovery, items, packets, latest recovery
events, decisions, receipts, failures and the operation names the Host chose itself
(generated ones never repeat). There is one action per `record_*` method and for
`finish`, `begin`, `restore`; the five that record metrics, splits, rejections
and timings are one action, `RecordNote`, because nothing reads what they record. A packet
is kept as the fact that there is one: `_validate_packets` refuses one that was not
safely recovered, and a different packet for the same item changes nothing.

`Save` is `_save` with its outcome: it returns, raises after the ledger file was
written (one of the files after it, or the exporter, failed), or raises before. What a
call leaves in memory when the save raises is its own: `record_commit` and
`finish` undo (`finish` keeps the boundary `ready_to_finish` it made explicit), the
others keep. Two calls raise without saving after they changed memory: a discovery
with an item that changed identity (`RefuseDiscovery`), and a commit whose operation
name is taken (`RefuseCommit`), which leaves decision and receipt for the next
save to write. The process may stop anywhere; a running ledger is restored.

- `EligibleRunsConform` — whatever `validate_finish` lets through, the conformance gate
  in `_save` accepts. A Host validates first and publishes artifacts
  before it calls `finish`, so a disagreement of the two would leave
  artifacts of a Run that cannot end. It rests on no recovery being recorded after
  a decision, and on decision and receipt changing together on every path.
- `AcknowledgedCommitsSurvive` — the receipt of a commit that `record_commit` returned
  from is on disk and in memory from then on: also after the same commit is repeated
  and that save fails, after other commits fail or are refused, after restarts.

*Run* `interactive_run`: two items, so that one may be open while another is decided, two
decisions with different results, one commit identity (hence two receipts per item, one of
each result), one operation name, a safe and an unsafe recovery, three of the workflow
states a Host can record (`awaiting_agent_decision` has the transitions of `running`), and
saves that fail either way, at any time. Items are symmetric.

*Proofs* (`RunProofs`), for any number of items, decisions and receipts,
from `RunAssumption` (which values the constants have):

| Theorem | Statement |
|---|---|
| `TypeCorrect` | `Spec => []TypeOK` |
| `EligibleRunsAlwaysConform` | `Spec => []EligibleRunsConform` |
| `AcknowledgedCommitsAlwaysSurvive` | `Spec => []AcknowledgedCommitsSurvive` |

`EligibleRunsConform` speaks of the Runs that may finish now; what the calls preserve is
that every copy, also a ledger that memory has left behind, is `Sound`: each decision
has its item, packet, safe recovery and matching receipt, and no receipt is without a
decision. `RunInv` says that, and that every copy keeps the acknowledged receipts. One lemma
per kind of change says that it leaves a Run good, `SavePreserves` that a save does,
whatever its outcome.

### KernelRun

`PlatformKernel.run` for one Run identity, called up to `MaxRuns` times by up to
`MaxLives` kernels that share only the ledger store. `run` holds the locals of the call
in progress and `run.at` its place:

| Code | Actions |
|---|---|
| hydration and discovery | `Discover`, `DiscoveryFails`, `Blocked`, `CapabilityMissing` (all take the stored receipts over first) |
| `inspect_chunk`, the serial loop, the merge of parallel results | `Reuse`, `InspectSucceeds`, `InspectFails` (which splits, or fails the chunk), `InspectRaises` (parallel mode only: what validation raises besides a contract error leaves `run` unsaved); cutting the next chunk and adapting its size is part of each |
| the decision loop | `Decide`, `DecideFails`, `NothingToDecide` |
| the commit of one proposal | `Replay`, `Conflict`, `Commit`, `CommitFails` |
| `finalize` | `Close`, `CloseFails` (before or after the ledger was replaced) |
| `publish`, `publish_artifact` | `Publish`, of a result its caller kept |
| a new process | `Restart`, anywhere if the deployment crashes |

The plugin, the decision provider and the committer are external. What they answer
is any packet or proposal that the kernel's validation lets through; they raise on the
`poison` items and, in a deployment with the fault, at will. A WorkItem's `State` is all
that its cache key covers besides its identity; a digest stands for what
`proposal_digest` covers. In parallel mode the plugin is asked for all chunks
at once, but results are merged in order, in one thread, and the cache
is looked up per item, so the merge is what is modelled. The in-memory committer is a
committer that never fails. Left out: the shape of packets and proposals,
Provider Evidence, events, metrics.

- `SettledOnce` — when a Run closes, each item is decided, or has failed exactly
  once; `DECISION_MISSING` is never needed.
- `FailuresAreIsolated` — a bad item does not fail the good ones of its batch.
- `PacketsAreCurrent` — no packet of an item's former state is used, whatever the
  cache has.
- `ReceiptsMatch` — a receipt in a ledger or result belongs to the decision next to it,
  replayed ones and those of ledgers without digests included.
- `NeverCommittedAgain` — nothing acknowledged is committed again: neither by the kernel
  that acknowledged it, nor by any kernel while the store has its receipt. `acked` is a
  history variable.
- `RunReturns` — under weak fairness of the Run's own steps: `run` is
  straight-line code, and what it calls returns. A batch size that reached zero
  or a split of a single item would break it.

*Run* `kernel_run`: three items, of which the first has two states; discovery returns all or
one; two proposals with the same result, so that only the digest tells them apart; no earlier
ledger or one without digests; two calls, two kernels; and five deployments: a bad item and
failing saves in one batch of three, a failing plugin in batches of two, serial and parallel, a
failing committer with crashes and no splitting, and two bad items in parallel mode. Three
items make a batch split twice and leave an odd half; two calls replay, conflict,
and use the cache. `kernel_restart`: one item, no fault, three calls, two kernels.

*Proofs* (`KernelRunProofs`), for any number of items, states, proposals, calls and
kernels and any batch sizes, from `KernelAssumption` (which values the constants have;
WorkItems are finitely many) and `FirstLedgersAssumption` (an earlier ledger's
receipts match its decisions):

| Theorem | Statement |
|---|---|
| `TypeCorrect` | `Spec => []TypeOK` |
| `CurrentPackets` | `Spec => []PacketsAreCurrent` |
| `MatchingReceipts` | `Spec => []ReceiptsMatch` |
| `CommittedOnce` | `Spec => NeverCommittedAgain` |
| `SettledExactlyOnce` | `Spec => []SettledOnce` |
| `IsolatedFailures` | `Spec => []FailuresAreIsolated` |

`IInv` adds what each needs of the step before: the states are known after discovery
(`StateKnown`, without which a digest could be of no state), what the cache has
under a key is of the state in the key (`CacheSound`), receipts match in the Run
in hand before they are saved (`Matches(run)`), a kernel that is in a Run knows every
receipt the store has (`LedgerKnown`), and has a receipt of all it had acknowledged
(`AckedKnown`). The last two rest on a second invariant, `Tidy`: during inspection each item either waits
in exactly one place, in what is left of the discovery or in one chunk of the work list, and nothing is known
of it, or it has a packet or one failure; in a deployment where only bad items raise and chunks are
split, what failed is bad (`Orderly`); and the cache holds no bad item (`CacheClean`), or a reused packet
could hide one. The first lemmas say what each operator on a Run keeps, the others
what each action makes of the Run and of the rest.

### ProviderExecution

The provider of one Run: `ProviderRegistry.select_for_capabilities`, `CapabilityNegotiator`
and `BoundCapabilityProvider`, bound by the controller or for a Check (`BindForController`,
`BindForCheck`), then shared by threads. `pc[t]` is a thread's place in `discover_sources`,
`collect` or `close`; a step ends where the code lets a lock go or calls the provider, so
`Collect` looks into the cache, `Admit` looks again under the lock and counts the call,
`Answers`, `Fails` and `Raises` are the provider's, `Issue` and `Reject` deal with one fact
each, and `Store` ends the call. The source changes at any time; the provider answers with
any facts, of any state, or fails with a declared code, or raises.

- `WithinEveryLimit` — the calls inside the provider never exceed what its descriptor, the
  platform and the user each allow, and each is for a capability that all of them grant.
- `EvidenceVerifies` — every record ever returned is in the ledger of issued Evidence as
  it was returned, so a packet citing it is accepted (`_validate_provider_evidence`),
  although two threads may collect one request at the same time.
- `OneStatePerSource` — until `close`, all WorkItems and Evidence under one
  capability are of one state of each source. It rests on the lock around the discovery of a
  source and on the comparison of each fact with the state of its request.
- `SettledForever` — once a request has a result and no call for it is under way, the
  provider is not asked for it again and the result stays.
- `RuntimeIsReleased` — a provider that is closed, or could not be constructed, gives its
  runtime back, also when its own `close` raises. Fairness: a thread inside `close` runs
  on; nothing is assumed about the others.

*Run* `provider`: two threads, two providers (one supplies both capabilities, so that naming
none is ambiguous), three profiles (no limit, one call, another capability), one source with
two states, two payloads, answers of up to two facts, two provider calls. Two threads suffice
for every race over one request, source or lease; two calls for a slow answer that overtakes.

*Proofs* (`RunProofs`), for any threads, providers, profiles, sources and
numbers, from `RegistryAssumption` (what the registry refuses to register otherwise):

| Theorem | Statement |
|---|---|
| `CallsStayWithinEveryLimit` | `ProviderSpec => []WithinEveryLimit` |
| `ReturnedEvidenceVerifies` | `ProviderSpec => []EvidenceVerifies` |
| `RunSeesOneState` | `ProviderSpec => []OneStatePerSource` |
| `SettledRequestsStay` | `ProviderSpec => SettledForever` |

The invariant counts the threads between `Admit` and the end of the call (the counter is
their number), binds each thread's request to what was handed out, and says that what a
thread has gathered is issued already.

### CommonReview and TerminalResult

`CommonReview` says what an answer may be: the values of the three kinds of item, with
verdict, applicability, support, findings and unknowns, which of them are well-formed
(`WellFormed`), and when a whole submission is accepted (`Accepted`: every item of the task
decided once, Evidence cited only if the task issued it). `TerminalResult` extends it with
the rest of the way to a reader: a Run discovers items, inspects them or fails to, and a
plugin decides each, from accepted answers about its atoms or by itself, with any delivery
the SDK builds or one that claims to be complete; the decision passes `Gate`. The Run may end
at any moment in every way `validate_finish` allows, and `Finish` derives `Canonical` and
`Report` from the ledger in one step, as `render_platform_artifacts` does before the first file
is written; where one of them raises, the Run cannot end so (`Renders`).

- `EveryItemAccounted` — each discovered item is skipped, or has an outcome, a failure or an
  entry that says what is missing; the counts add up; `complete` means an outcome for every
  applicable item; a failed Run concludes nothing.
- `NeverPassesSilently` — the report says *pass* or *not applicable* only of a completed Run in
  which every item was decided, no decision found an issue or needs review, and no accepted
  answer objects or is open; and no decision has two rows for one finding.
- `CompleteIsActionable` — where the result calls itself actionable, every violated or
  conflicted dimension has a remediation that rests on Evidence and published claims of that
  dimension, and a row of the report.

*Run* `terminal_result`: an item reviewed by three atoms, one per kind, with some 60 different
answers, well-formed or not, and one the plugin decides by itself; or the first beside an item
whose kind the Check does not declare. Two dimensions, two issued handles and one that is not.
The Run's receipts and recoveries are always in order here (`InteractiveRun` is about those), and
a plugin that decides from answers derives its common review from them.

*Proofs* (`RecordsProofs`), for any items, dimensions, atoms, answers and
findings, from `ResultAssumption` and `ReviewAssumption` (which values the constants have; what a
discovery returns is finite):

| Theorem | Statement |
|---|---|
| `EveryItemIsAccounted` | `Spec => []EveryItemAccounted` |
| `NothingPassesSilently` | `Spec => []NeverPassesSilently` |
| `ActionableIsComplete` | `Spec => []CompleteIsActionable` |

The three read what was published; what the steps preserve is about the Run. `Recorded`: packets and
failures are of applicable items, a decision has a packet, and is `Founded`: its delivery, its findings
and its remediations are what `Gate` let through. `ResultInv` says that, and that what was published is the
result and the report of the Run as it ended, both of which could be made (`Renders`). What is left is about the
two projections: the counts of the result are cardinalities of disjoint sets that make up
the discovered items; each of the ways to reach a passing conclusion excludes each kind of
objection; and the four sources of a report's rows, each used where the ones before have nothing,
between them reach every negative dimension of an actionable result, but never twice with one content.

### PluginStore and PluginChange

`PluginStore` is the installed-plugin store: the index entry of one plugin, its package
directories, and each operation of `CompiledPluginLifecycleManager` in its file steps: clear the
package directory, copy, open `index.json.tmp`, write it, rename it to `index.json`, remove. A process
may stop between any two, or within a copy or a write. All processes share that one temporary name, and a
setting says whether their operations overlap. Where they do, a second saver empties the file that the first is
writing or about to rename, its own write goes to wherever the file it opened has been renamed meanwhile
(`"overwrite"`: `index.json` itself), and a rename may find the file gone (`FailStep`). A text written into one
that another saver has written is either the whole new text or unreadable (`Garbled`).
`PluginChange` adds who uses it: the MCP tools, which plan a change, bind the plan to
digests of the catalog, the source and the index, and carry it out when its token comes back
confirmed; the command line and requests in words, which change the store at once, between
calls of the host or, where operations overlap, within one; publishers and authors who edit the catalog and the source; Runs of the
active contract; and stops. A digest is what it digests.

- `IndexIsCoherent` — an index that can be read is one the code can use: its last activation is recorded, and
  no activation is repeated in a row, so that the next rollback changes something; this also with savers that
  overlap. And while operations do not overlap, the index can be read, wherever a save is cut short. (With
  overlapping savers it may not be: see [below](#findings).)
- `ActiveContractLoads` — the active contract of an entry that is not marked dirty loads and
  is the one recorded, whatever stopped in between, while operations do not overlap.
- `ConfirmedIsExecuted` — a change that completes is the one the plan showed: the active
  version is its target, and the contract is the one the plan was made from. Told of operations that do
  not overlap; otherwise it is false, as no lock is taken between processes.

*Run* `plugin_change`: two versions, two contents, two catalogs, two sources, entries an earlier release left
dirty, and three settings, of which each behaviour has one. Two have one operation at a time, with Runs:
two plans, one edit and histories of three; or one plan, one stop and histories of two. In the third the host and the command
line overlap, with one plan, one stop, no Runs and histories of one. One plan is enough for two savers
to mix their writes and for a third operation to load the outcome, one stop to leave it as it is; longer histories with
overlapping operations are the theorem's. One plugin is enough: entries share only the index file.

*Proofs* (`CompiledProofs`), for any versions, contents, catalogs, sources, actors and settings, from the named
assumptions of the two modules (`InheritedAssumption`: what an earlier release left is itself a coherent
entry; `SentinelAssumption`, that `None` and the contents of a file that is no index are none of the values):

| Theorem | Statement |
|---|---|
| `IndexStaysCoherent` | `ChangeSpec => []IndexIsCoherent` |
| `ActiveContractStays` | `ChangeSpec => []ActiveContractLoads` |
| `ConfirmedChangesHappen` | `ASSUME \A e \in Inherited : e.state = "dirty" => Newest(e) PROVE ChangeSpec => []ConfirmedIsExecuted` |

`IndexStaysCoherent` holds with others in the middle of a call and of a save: an operation writes an
entry it computed from the one it loaded, and both are coherent, whichever was saved in between; what is
in `index.json.tmp` is such an entry, empty or garbled, whoever wrote it last. `Fit` says so of
every operation, plan and call (`JobsFit`, `PlansFit`). That the index can be read, and the other two theorems, are
about settings without overlap: there the saver that has the temporary file open is the only one, and it renames only
what it has written. `Backed` adds that an operation's loaded
entry is still the index (`Attached`), and that each recorded version not torn by a stopped
repair is on disk as recorded (`Kept`) at every file step; `Faithful` follows what is planned from
catalog or source through the digests to the operation (`Traceable`: `Made`, `Sourced`, `Carries`). The
hypothesis `Newest` excludes what the code does get wrong: see the plugin store [below](#findings).

### HostStore

`SQLiteStore` and the adapter that keeps the platform ledger in it. `db` is what is committed,
`work` what the open transaction sees, `writer` who has it open, on the shared connection or a
second one. Clients make any calls in a transaction and end it, or raise. A call is refused for a
key that repeats, a missing parent or a second active case; the event it appends takes the next
sequence number. `Close` takes no lock; `Save` goes to a second connection when the shared one was
closed under it (`Reopens`, `Resave`). `Restart` loses the open transaction.

- `JournalIsComplete` — the committed events are numbered without a gap, and tell each operation
  once: a start, one finish exactly when it has ended, the browser's or the recovery's beside the tool's, a gate
  exactly for those that did not succeed; one event per assessment and issue.
- `SavedIsDurable` — a save that returned stays in the database until another is committed.

*Run* `host_store`: two threads, two operations, keys, cases and ledgers, the chain of tables up to an
issue, three calls and eight events, from an empty file or one of a scan whose first object was
found; threads, operations, keys, cases and ledgers are symmetric. Operations are of every kind and inserted
running or ended in any way, with or without what the Agent said. Three calls bring an operation to its end and change it
again, or end it beside a second; eight events are those of a scan whose one browser operation fails as it is inserted,
with a decision and its timing.

*Proofs* (`RecordsProofs`), for any threads, operations, keys, ledgers, tables and bounds, and journals
of any length, from `OperationAssumption` and the others of the module:

| Theorem | Statement |
|---|---|
| `SavesAreDurable` | `StoreSpec => []SavedIsDurable` |
| `JournalStaysComplete` | `StoreSpec => []JournalIsComplete` |

The invariant, `Durable`, says that the committed database is `Consistent`, and that what an open
transaction has done to its copy is too, with the ledger that it will leave behind (`Promised`): a commit is then
harmless at any moment, and so is losing the copy. A database is consistent when its events are
`Numbered` and each operation's `Story` is told, a statement about the set of events with a given name and
operation that each call changes in one place (`One`, `Begun`, `Over`), where the property counts them.

Deadlock checking is off in all runs but `coordinator` and `compiled_run`: a list that is planned, a journal that is full, tokens that are all terminal, a
process that is gone, a provider that is closed, a Run that has ended, or that was called as often as the bounds allow has
nothing left to do.

<a name="proved"></a>
### What is proved, and what is model-checked only

Proved for every value of the constants: every invariant and action property that a passing run checks,
that `IncrementalReview` implements `ReviewOutcome`, and that `CoverageJournal` and `ReviewCoordinator` implement `IncrementalReview`.
The tables above list the theorems and what they assume. All have the same shape: an inductive
invariant, a lemma per action (or per kind of action) that preserves it, and a temporal step. `OneRelease` and
`ResultIsTrue` have a condition on the callers, `Exclusive`; `ActiveContractLoads` and `ConfirmedIsExecuted`
say something of settings without overlap only, the latter with a hypothesis on what was inherited; `LoadNeverLies` has one on who
appends where writes fail, `OneJournalist`; `ReloadAgrees` and `ImplementsReview` state theirs themselves; the others
have none beyond the assumptions on the constants, which TLC evaluates on each run.

<a name="induction"></a>
*Induction.* The library's induction theorems take the predicate as a parameter, which the prover cannot
instantiate. `CoverageLedgerProofs` therefore proves `LeastNatural` (a nonempty set of numbers has a least one, from the
well-foundedness of `<`) and `Induction`, with a *set* in place of the predicate: a set that has 0 and with each number the
next has them all. A proof by induction defines the set of numbers its claim holds for. That a recursive
function is defined, and what it is at its arguments (`SumExists`, `SumsAgree`, and the like for replays), comes
first; what the sums of payloads and the replays of journals have in common with their parts follows.

Model-checked only: *liveness* (`Drains`, `ClaimsSettle`, `RunsEnd`, `RunReturns`, `RuntimeIsReleased`), which the prover does
not handle.

<a name="findings"></a>
## What the code does that its documents do not say

**A changed decision is committed after a restart** (run `kernel_restart`).
`docs/platform-contract.md:203` says that a changed proposal for a committed
identity fails closed and that hydrated receipts carry this over a restart. But
every call of a Run replaces the stored ledger by its own, and a call that ends
early (capability missing, plan refused, discovery failed), or whose proposals
were refused, has no receipts: commit, call again without the capability,
restart, and a different decision is committed. `NeverCommittedAgain` says what
does hold: a receipt that the store *has* is always respected.

Seen while modelling, and not kept as runs:

- *Coverage ledger*: a ledger of schema version 1.0.0 is converted when it is loaded
  (`platform/incremental_review.py:771-789`): contexts move to a catalog and each atom gains
  a reference. A batch planned up to the byte limit may exceed it after that, and the load raises
  `REVIEW_BATCH_LIMIT_EXCEEDED`.
- *Journal*: `docs/multi-window-run-isolation-and-host-lifecycle-design.md:517` describes
  locks that serialize a Run's writers; none is taken. Two processes that loaded the same Run
  both append event 1 from their own head, and the journal is refused from then on: detected,
  never misread, but the Run is lost.
- *Coordinator*: `submit` promises "exactly once". An answer delivered again while a correction
  of its batch is open is bound to the correction, gets another identity and becomes a
  second verdict.
- *Lifecycle*: two tokens planned from the same state may be executed by two processes; both pass the
  stale-plan check, find the old release gone, and install their target: two
  releases, where `docs/user-journey-and-definition-of-done.md:110` promises one. And `_compensate`
  does not read the catalog after a restoring command that raised, as
  `docs/implementation-slice-061.md:44` says, so a restored release may be reported as failed.
- *Compiled controller*: a finalized Run keeps its provider runtime until the process ends, where
  `platform/provider_execution.py:50-51` says until the Run ends.
- *Session*: a `finish` whose save raises after the ledger file was written leaves a
  Run that is terminal on disk and running in memory, and its next call overwrites the terminal
  ledger (`docs/implementation-slice-058.md:55`: "A terminal Run is immutable"). A Run whose persisted
  workflow state is `blocked` passes `validate_finish` once its failures are cleared, but
  `finish("completed")` is refused.
- *Provider*: with a limit of one call, a request may still be asked twice, one after the other, as
  results are stored outside the lock. Failures are cached, also those declared
  retryable. `collect` and `discover_sources` do not ask whether the provider is closed, and `close`
  does not wait for calls in flight. Facts before a bad one stay issued. `PlatformKernel.run` never hands
  the issued Evidence to its validation, contrary to `issued_evidence` (`:429-432`); only the compiled
  controller does.
- *Report*: the fallback row for a violated dimension comes from the values of the common review. A decision
  that carries one gets no row for a `violated` or `conflicted` finding that those values do not repeat:
  findings are read only without a common review (`platform/audit_report.py:420`), and
  `details.commonReview` is never compared with result and findings. A completed Run with items
  of an undeclared kind is complete in the canonical result and partial in the report.
- *Result*: a kernel Run that ends because a capability is missing keeps decisions without receipts, which
  the canonical gate refuses to save (`platform/kernel.py:361-375`); an invalid delivery makes every later
  save of a terminal status raise; and a crash between two file writes leaves files of
  different saves, which no reader compares.
- *Plugin store*: `docs/plugin-lifecycle-design.md:118-120` has rollback drop the last activation, the code
  appends one; `:124` has uninstall atomic, but the index is saved first and the packages removed
  after. An upgrade or downgrade to a version already recorded ignores the artifact it is given. A repair that
  stops after copying leaves a package that the index does not record. A dirty entry with
  activations 1, 2, 1 that is repaired with version 2 keeps 1 active, although the plan showed 2: `upsert` appends
  no version that the history already has (`platform/plugin_installation.py:144`). The guard against an active Run is not
  asked by the command line, and no lock is taken between processes. A docstring calls the write of `index.json`
  "the single atomic write the installation store performs" (`host/plugin_lifecycle_ops.py:224`), but all savers write
  the same `index.json.tmp` first (`platform/plugin_installation.py:95-99`): of two that overlap, one may rename the file
  that the other has just emptied, so that readers meet a half-written index, for good if the writer then stops or both texts are
  mixed, or may find it gone and fail with `FileNotFoundError`. Checked without `~setting.overlaps`,
  `IndexIsCoherent` is violated by such a behaviour.
- *Host store*: writes outside `transaction()` open an implicit transaction, which the next
  `BEGIN IMMEDIATE` fails on and rolls back; a `transaction()` within another of the same thread rolls back the outer
  one, and the writes after it commit alone. An operation of unknown result that is later updated to succeeded
  keeps the event that says unknown.
- *Runtime cleanup*: a deletion that fails part-way may have removed the identity file already, so that
  the retry its "pending" answer asks for (`host/runtime_cleanup.py:111-118`) is rejected (`:99-100`); and the
  journal of an old uninstall still counts as proof after the same version was installed again (`:65-79`).

<a name="not-modelled"></a>
## Not modelled

- *Runtime cleanup*: three file steps, called by one acceptance script, with no state between
  calls but the tree; what a reader should know of them is above.
- *Compiled review plan, declaration compiler, invariant program, Evidence SDK, SDK contract and
  compatibility, document source and navigation*: pure functions over declarations, texts and
  offsets, without steps or state. Bounded inputs would show little that the repository's stored
  examples do not.
- *Authentication, readiness, Codex client*: subprocesses and the keychain. The client is the external
  catalog of `LifecycleTransaction`.
- *Conformance and performance tools, scripts, most of the command line*: sequential callers of
  the components above; the lifecycle subcommands are in `PluginChange`.
- Within modelled components: the conversion of old ledgers; events, metrics and the files beside the
  ledger; what a packet or proposal must look like beyond its WorkItem; byte budgets and durations of
  provider calls; the paging of large results, locations and texts in reports; in-place row updates,
  queries and export of the host store. Each module's head says what it leaves out, `PROJECT.json` what
  each component's status is.

## Plan

Written first: the ledger, because everything the platform claims about a review rests on it; then its
durability, its driver, the lifecycle transaction, the two ways a Run is driven and the kernel; then the
planner, the provider, results and reports, the plugin store and the host store. Next, in order:

1. The order of the files a save writes, with crashes between them: `InteractiveRun` knows two
   outcomes of a save, `TerminalResult` one.
2. `ProviderExecution` under `KernelRun` in parallel mode, in place of a plugin that answers at once.
