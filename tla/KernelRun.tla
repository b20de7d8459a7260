------------------------------ MODULE KernelRun ------------------------------
(***************************************************************************)
(* PlatformKernel.run for one Run identity, called again and again by one    *)
(* kernel, or by the kernels of one process after another: hydrate the        *)
(* receipts of the stored ledger, discover, inspect in batches that are split  *)
(* when they fail, decide in batches, commit each decision or replay its       *)
(* receipt, and save the ledger once, at the end.                              *)
(*                                                                         *)
(* The plugin, the decision provider and the committer are external: they     *)
(* answer in any way the kernel's validation lets through, or raise.  A        *)
(* WorkItem's state is all that its cache key covers besides its identity.     *)
(***************************************************************************)
EXTENDS Naturals, Sequences, FiniteSets

CONSTANTS Item,          \* WorkItems, numbered in the order discovery returns them
          State,         \* the states they can be in
          Scopes,        \* the WorkItems a discovery can return
          Worlds,        \* the states of the WorkItems at a discovery
          Proposal,      \* decisions the provider can propose ...
          Outcome,       \* ... and their results
          OutcomeOf,
          Unable,        \* the decision of a Run that lacks a capability
          FirstLedgers,  \* what the store may have of the Run before
          Deployments,   \* a plugin's profile, a set of bad items, and the faults
          NoReceipt,     \* absence of a receipt, packet, decision ...
          MaxRuns,       \* bound on calls of run()
          MaxLives       \* bound on kernels

Digest  == [state : State, proposal : Proposal]
Receipt == [digest : Digest \cup {NoReceipt}, result : Outcome]

Fault == {"crash", "save", "committer", "plugin"}

ASSUME KernelAssumption ==
  /\ Item \subseteq Nat /\ IsFiniteSet(Item)
  /\ Scopes \subseteq SUBSET Item
  /\ Worlds \subseteq [Item -> State]
  /\ OutcomeOf \in [Proposal -> Outcome]
  /\ Unable \in Proposal
  /\ Deployments \subseteq
       [faults : SUBSET Fault, poison : SUBSET Item, cache : BOOLEAN, split : BOOLEAN,
        parallel : BOOLEAN, inspectSize : Nat \ {0}, decisionSize : Nat \ {0}]
  /\ MaxRuns \in Nat /\ MaxLives \in Nat \ {0}
  /\ NoReceipt \notin State \cup Digest \cup Receipt \cup Proposal

VARIABLES deployment,
          ledger,     \* the store's ledger of the Run
          cache,      \* _cache: packets by key
          committed,  \* _committed_receipts
          run,        \* the locals of run()
          held,       \* a result that a caller keeps
          acked,      \* commits the committer acknowledged (a history variable)
          life, runs

vars == <<deployment, ledger, cache, committed, run, held, acked, life, runs>>

None == NoReceipt
Nothing == [i \in Item |-> None]

\* What a Run leaves: PlatformRunResult and its PlatformLedger.
Ledger == [status    : {"completed", "partial", "failed"},
           decisions : [Item -> Digest \cup {None}],
           receipts  : [Item -> Receipt \cup {None}]]

\* A receipt of a ledger is that of the decision next to it.
Matches(l) ==
  \A i \in Item :
    l.receipts[i] # None => /\ l.decisions[i] # None
                            /\ l.receipts[i].digest \in {None, l.decisions[i]}
                            /\ l.receipts[i].result = OutcomeOf[l.decisions[i].proposal]

\* A Run reviewed before, by a session that keeps no digests.
ASSUME FirstLedgersAssumption ==
  /\ FirstLedgers \subseteq Ledger \cup {None}
  /\ \A l \in FirstLedgers \ {None} : Matches(l)

Idle == [at        |-> "idle",
         items     |-> {},         \* applicable_items
         state     |-> Nothing,    \* the states of all WorkItems
         rest      |-> {},         \* not in a chunk yet
         work      |-> <<>>,       \* chunks of inspect_chunk still to do
         size      |-> 1,          \* adaptive_chunk_size
         learned   |-> 0,          \* learned_size
         splitting |-> FALSE,      \* the chunk was split
         packets   |-> Nothing,    \* the state each was inspected in
         proposals |-> Nothing,    \* validated, to be committed
         decisions |-> Nothing,
         receipts  |-> Nothing,
         failures  |-> [i \in Item |-> 0],
         forced    |-> None]       \* the status of a Run that ends early

RunState == [at : {"idle", "inspect", "decide", "commit", "close"},
             items : SUBSET Item, state : [Item -> State \cup {None}],
             rest : SUBSET Item, work : Seq(SUBSET Item), size : Nat \ {0}, learned : Nat,
             splitting : BOOLEAN, packets : [Item -> State \cup {None}],
             proposals : [Item -> Proposal \cup {None}],
             decisions : [Item -> Digest \cup {None}],
             receipts : [Item -> Receipt \cup {None}],
             failures : [Item -> Nat],
             forced : {"completed", "partial", "failed", None}]

Occurs(fault) == fault \in deployment.faults

Smaller(m, n) == IF m < n THEN m ELSE n
Larger(m, n)  == IF m < n THEN n ELSE m

\* The first n of some WorkItems.
First(items, n) == {i \in items : Cardinality({j \in items : j < i}) < n}

-----------------------------------------------------------------------------
(* Inspection *)

\* Mutant: what was inspected in another state is found.
KeyOfItem(i, s) == <<i>>

Key(i, s) == <<i, s>>

Cached(i) == {c \in cache : c.key = Key(i, run.state[i])}

Hits(chunk) == {i \in chunk : deployment.cache /\ Cached(i) # {}}

Pending(chunk) == chunk \ Hits(chunk)

\* The packets with those found in the cache.
Found(chunk) ==
  [i \in Item |-> IF i \in Hits(chunk)
                  THEN (CHOOSE c \in Cached(i) : TRUE).packet ELSE run.packets[i]]

\* The next chunk is cut when the last is done.  In parallel mode all chunks are
\* cut at the start; they are still merged one by one, in order.  (A call that has
\* one chunk to ask for is serial: the rest is in the cache, cut as it may.)
CutSize(r) == IF deployment.parallel THEN deployment.inspectSize ELSE r.size

Cut(r) ==
  IF r.rest = {} THEN [r EXCEPT !.at = "decide"]
  ELSE [r EXCEPT !.work = <<First(r.rest, CutSize(r))>>,
                 !.rest = @ \ First(@, CutSize(r)),
                 !.learned = 0, !.splitting = FALSE]

\* Mutant: the size learned from a split is taken as it is.
AdaptedToZero(r) == IF r.splitting THEN [r EXCEPT !.size = Smaller(@, r.learned)] ELSE r

\* A chunk that had to be split makes the next ones smaller.
Adapted(r) ==
  IF r.splitting THEN [r EXCEPT !.size = Smaller(@, Larger(r.learned, 1))] ELSE r

\* One call of inspect_chunk returned, having inspected n items.
Returned(r, n) ==
  LET s == [r EXCEPT !.work = Tail(@), !.learned = Larger(@, n)] IN
  IF s.work = <<>> THEN Cut(Adapted(s)) ELSE s

\* The chunk is inspected again in two halves.
Halved(r, chunk) ==
  LET half == First(chunk, Cardinality(chunk) \div 2) IN
  [r EXCEPT !.work = <<half, chunk \ half>> \o Tail(@), !.splitting = TRUE]

\* Mutant: the whole batch fails with its bad item.
SplitsNever(chunk) == FALSE

Splits(chunk) == Cardinality(chunk) > 1 /\ deployment.split

\* _validate_packets: a packet is about the WorkItem that was discovered.
ValidPackets(chunk, packets) ==
  \A i \in chunk : packets[i] = run.state[i]

-----------------------------------------------------------------------------
Init ==
  /\ deployment \in Deployments
  /\ ledger \in FirstLedgers
  /\ cache = {}
  /\ committed = Nothing
  /\ run = Idle
  /\ held = None
  /\ acked = [i \in Item |-> <<>>]
  /\ life = 1
  /\ runs = 0

\* Mutant: what the ledger has is not looked up.
NotHydrated == committed

\* The receipts of the stored ledger are taken over before anything else.
Hydrated == [i \in Item |-> IF ledger # None /\ ledger.receipts[i] # None
                            THEN ledger.receipts[i] ELSE committed[i]]

Begin ==
  /\ run.at = "idle"
  /\ runs < MaxRuns
  /\ runs' = runs + 1
  /\ committed' = Hydrated
  /\ UNCHANGED <<deployment, ledger, cache, held, acked, life>>

\* The Run of the WorkItems that discovery returned, in the states they are in.
Discovered(items, world) ==
  [Idle EXCEPT !.items = items, !.state = world, !.size = deployment.inspectSize]

\* run() up to the first inspection.
Discover == \E items \in Scopes, world \in Worlds :
  /\ Begin
  /\ run' = Cut([Discovered(items, world) EXCEPT !.at = "inspect", !.rest = items])

\* Discovery raised, or its WorkItems do not validate.
DiscoveryFails ==
  /\ Begin
  /\ Occurs("plugin")
  /\ run' = [Idle EXCEPT !.at = "close", !.forced = "failed"]

\* A capability that the Check requires is missing, or the parallel plan is
\* refused: every WorkItem fails (a refused plan fails even an empty Run) ...
Blocked == \E items \in Scopes, world \in Worlds :
  \E status \in {"failed"} \cup (IF items = {} THEN {"completed"} ELSE {}) :
  /\ Begin
  /\ run' = [Discovered(items, world) EXCEPT
               !.at = "close",
               !.forced = status,
               !.failures = [i \in Item |-> IF i \in items THEN 1 ELSE 0]]

\* ... or, if the Check says so, needs review without inspection or commit.
CapabilityMissing == \E items \in Scopes, world \in Worlds :
  /\ Begin
  /\ run' = [Discovered(items, world) EXCEPT
               !.at = "close",
               !.forced = IF items = {} THEN "completed" ELSE "partial",
               !.decisions = [i \in Item |-> IF i \in items
                                             THEN [state |-> world[i], proposal |-> Unable]
                                             ELSE None]]

\* The chunk in hand, and those of it that the plugin is asked for.
Chunk == Head(run.work)
Asked == Pending(Chunk)

Inspecting == run.at = "inspect" /\ run.work # <<>>

Reuse ==
  /\ Inspecting
  /\ Asked = {}
  /\ run' = Returned([run EXCEPT !.packets = Found(Chunk)], 0)
  /\ UNCHANGED <<deployment, ledger, cache, committed, held, acked, life, runs>>

\* The plugin returned packets that validate.
InspectSucceeds ==
  /\ Inspecting
  /\ Asked # {}
  /\ Asked \cap deployment.poison = {}
  /\ \E packets \in [Asked -> State] :
       /\ ValidPackets(Asked, packets)
       /\ run' = Returned([run EXCEPT !.packets =
                             [i \in Item |-> IF i \in Asked THEN packets[i]
                                             ELSE Found(Chunk)[i]]], Cardinality(Asked))
       /\ cache' = IF deployment.cache
                   THEN cache \cup {[key |-> Key(i, run.state[i]), packet |-> packets[i]] :
                                      i \in Asked}
                   ELSE cache
  /\ UNCHANGED <<deployment, ledger, committed, held, acked, life, runs>>

\* The Run with one more failure for each of some items.
Failing(r, items) ==
  [r EXCEPT !.failures = [i \in Item |-> IF i \in items THEN @[i] + 1 ELSE @[i]]]

\* The plugin raised, as it does on a bad item, or its packets do not validate.
InspectFails ==
  /\ Inspecting
  /\ Asked # {}
  /\ Asked \cap deployment.poison = {} => Occurs("plugin")
  /\ LET merged == [run EXCEPT !.packets = Found(Chunk)] IN
     run' = IF Splits(Asked) THEN Halved(merged, Asked)
            ELSE Returned(Failing(merged, Asked), 0)
  /\ UNCHANGED <<deployment, ledger, cache, committed, held, acked, life, runs>>

\* The merge of several chunks' results handles what validation refuses; what it
\* raises otherwise, over a packet it cannot read, leaves run() with nothing saved.
\* The halves of a chunk that was split are inspected as in a serial Run.
InspectRaises ==
  /\ Inspecting
  /\ deployment.parallel /\ Cardinality(run.items) > deployment.inspectSize
  /\ ~run.splitting
  /\ Asked # {} /\ Asked \cap deployment.poison = {}
  /\ Occurs("plugin")
  /\ run' = Idle
  /\ UNCHANGED <<deployment, ledger, cache, committed, held, acked, life, runs>>

-----------------------------------------------------------------------------
(* Decisions *)

\* Mutant: an item that failed is tried again.
WithoutDecision == {i \in run.items : run.packets[i] # None /\ run.decisions[i] = None}

\* Items with a packet that were neither decided nor failed.
Undecided == {i \in run.items : /\ run.packets[i] # None
                                /\ run.decisions[i] = None
                                /\ run.failures[i] = 0}

DecisionChunk == First(Undecided, deployment.decisionSize)

\* After the last packet was decided, the Run closes.
NothingToDecide ==
  /\ run.at = "decide"
  /\ Undecided = {}
  /\ run' = [run EXCEPT !.at = "close"]
  /\ UNCHANGED <<deployment, ledger, cache, committed, held, acked, life, runs>>

\* One valid proposal for each packet of the chunk.
Decide ==
  /\ run.at = "decide"
  /\ Undecided # {}
  /\ \E proposals \in [DecisionChunk -> Proposal] :
       run' = [run EXCEPT !.at = "commit",
                 !.proposals = [i \in Item |-> IF i \in DecisionChunk
                                               THEN proposals[i] ELSE None]]
  /\ UNCHANGED <<deployment, ledger, cache, committed, held, acked, life, runs>>

DecideFails ==
  /\ run.at = "decide"
  /\ Undecided # {}
  /\ Occurs("plugin")
  /\ run' = Failing(run, DecisionChunk)
  /\ UNCHANGED <<deployment, ledger, cache, committed, held, acked, life, runs>>

\* What is digested of the proposal for an item.
Proposed(i) == [state |-> run.state[i], proposal |-> run.proposals[i]]

ReceiptFor(d) == [digest |-> d, result |-> OutcomeOf[d.proposal]]

\* The next decision chunk comes when all proposals of this one are dealt with.
Dealt(r, i) ==
  LET s == [r EXCEPT !.proposals[i] = None] IN
  IF s.proposals = Nothing THEN [s EXCEPT !.at = "decide"] ELSE s

Recorded(i, receipt) ==
  Dealt([run EXCEPT !.decisions[i] = Proposed(i), !.receipts[i] = receipt], i)

Refused(i) == Dealt(Failing(run, {i}), i)

Committing(i) == run.at = "commit" /\ run.proposals[i] # None

\* Mutant: only the result is compared.
SameResult(receipt, d) == receipt.result = OutcomeOf[d.proposal]

\* A receipt without a digest is replayed on the strength of its result alone.
Replayable(receipt, d) ==
  /\ receipt.digest \in {None, d}
  /\ receipt.result = OutcomeOf[d.proposal]

Replay(i) ==
  /\ Committing(i)
  /\ committed[i] # None
  /\ Replayable(committed[i], Proposed(i))
  /\ run' = Recorded(i, committed[i])
  /\ UNCHANGED <<deployment, ledger, cache, committed, held, acked, life, runs>>

\* COMMIT_CONFLICT, or a receipt that does not match.
Conflict(i) ==
  /\ Committing(i)
  /\ committed[i] # None
  /\ ~Replayable(committed[i], Proposed(i))
  /\ run' = Refused(i)
  /\ UNCHANGED <<deployment, ledger, cache, committed, held, acked, life, runs>>

Kept(i, receipt) == [committed EXCEPT ![i] = receipt]

\* The committer returned a receipt that matches.
Commit(i) ==
  LET receipt == ReceiptFor(Proposed(i)) IN
  /\ Committing(i)
  /\ committed[i] = None
  /\ committed' = Kept(i, receipt)
  /\ run' = Recorded(i, receipt)
  /\ acked' = [acked EXCEPT ![i] = Append(@, [digest |-> Proposed(i), life |-> life])]
  /\ UNCHANGED <<deployment, ledger, cache, held, life, runs>>

\* The committer raised, whether it had committed or not, or its receipt does
\* not match.
CommitFails(i) ==
  /\ Committing(i)
  /\ committed[i] = None
  /\ Occurs("committer")
  /\ run' = Refused(i)
  /\ UNCHANGED <<deployment, ledger, cache, committed, held, acked, life, runs>>

-----------------------------------------------------------------------------
(* Closing, publishing, and the end of a kernel *)

Decided == {i \in Item : run.decisions[i] # None}

\* The failures, with DECISION_MISSING for items that have no decision yet.
Unsettled == {i \in Item : run.failures[i] > 0} \cup (run.items \ Decided)

Status == CASE run.forced # None -> run.forced
            [] run.forced = None /\ Unsettled = {} -> "completed"
            [] run.forced = None /\ Unsettled # {} /\ Decided # {} -> "partial"
            [] OTHER -> "failed"

Result == [status |-> Status, decisions |-> run.decisions, receipts |-> run.receipts]

\* The result is saved and returned, and the caller keeps it or drops it.
Close ==
  /\ run.at = "close"
  /\ ledger' = Result
  /\ held' \in {held, Result}
  /\ run' = Idle
  /\ UNCHANGED <<deployment, cache, committed, acked, life, runs>>

\* The save raised, before it replaced the ledger or after.
CloseFails ==
  /\ run.at = "close"
  /\ Occurs("save")
  /\ ledger' \in {ledger, Result}
  /\ run' = Idle
  /\ UNCHANGED <<deployment, cache, committed, held, acked, life, runs>>

\* publish: the result conforms, and its ledger is saved again with an artifact.
Conforms(r) == \A i \in Item : r.decisions[i] # None <=> r.receipts[i] # None

Publish ==
  /\ run.at = "idle"
  /\ held # None
  /\ held.status # "failed"
  /\ Conforms(held)
  /\ held.receipts # Nothing
  /\ ledger' = held
  /\ UNCHANGED <<deployment, cache, committed, run, held, acked, life, runs>>

\* Another process's kernel: all that is left is the stored ledger.
Restart ==
  /\ run.at # "idle" => Occurs("crash")
  /\ life < MaxLives
  /\ life' = life + 1
  /\ cache' = {}
  /\ committed' = Nothing
  /\ run' = Idle
  /\ held' = None
  /\ UNCHANGED <<deployment, ledger, acked, runs>>

Step == \/ Reuse \/ InspectSucceeds \/ InspectFails \/ InspectRaises
        \/ NothingToDecide \/ Decide \/ DecideFails
        \/ \E i \in Item : Replay(i) \/ Conflict(i) \/ Commit(i) \/ CommitFails(i)
        \/ Close \/ CloseFails

Next == Discover \/ DiscoveryFails \/ Blocked \/ CapabilityMissing \/ Step \/ Publish \/ Restart

Spec == Init /\ [][Next]_vars

\* run() is straight-line code, and what it calls returns.
FairSpec == Spec /\ WF_vars(Step)

-----------------------------------------------------------------------------
TypeOK ==
  /\ deployment \in Deployments
  /\ ledger \in Ledger \cup {None} /\ held \in Ledger \cup {None}
  /\ cache \subseteq [key : Item \X State, packet : State]
  /\ committed \in [Item -> Receipt \cup {None}]
  /\ run \in RunState
  /\ acked \in [Item -> Seq([digest : Digest, life : Nat])]
  /\ life \in 1..MaxLives /\ runs \in 0..MaxRuns

\* Every WorkItem is either decided or failed exactly once when a Run closes,
\* splits, replays and refused commits included: the fallback DECISION_MISSING
\* is never needed (kernel.py, the end of run).
SettledOnce ==
  run.at = "close" =>
    \A i \in run.items :
      run.failures[i] = (IF run.decisions[i] # None THEN 0 ELSE 1)

\* With a plugin that raises on bad items only, splitting finds exactly these:
\* no good item fails with them (inspect_chunk).
FailuresAreIsolated ==
  /\ run.at \in {"decide", "commit"}
  /\ deployment.split
  /\ ~Occurs("plugin")
  => \A i \in run.items : run.packets[i] = None <=> i \in deployment.poison

\* A decision rests on a packet of the state that this Run discovered,
\* whether it was inspected now or found in the cache (_cache_key).
PacketsAreCurrent ==
  \A i \in Item : run.packets[i] # None => run.packets[i] = run.state[i]

\* Whatever was replayed, a receipt that is saved or returned is that of the
\* decision next to it.
ReceiptsMatch == \A l \in {ledger, held} \ {None} : Matches(l)

\* Nothing is committed again, however often a Run is called and whatever is
\* proposed: neither by the kernel that had the decision acknowledged, nor by any
\* kernel once the stored ledger has the receipt (_committed_receipts and its hydration).
NeverCommittedAgain ==
  [][\A i \in Item : acked'[i] # acked[i] =>
       /\ \A m \in DOMAIN acked[i] : acked[i][m].life # life
       /\ ledger = None \/ ledger.receipts[i] = None]_vars

\* A Run that was called returns.
RunReturns == run.at # "idle" ~> run.at = "idle"

\* What docs/platform-contract.md:201-209 says: a changed proposal for a committed
\* identity fails closed, and the protection survives a kernel restart.
FailsClosed ==
  \A i \in Item : \A m, n \in DOMAIN acked[i] : acked[i][m].digest = acked[i][n].digest
=============================================================================
