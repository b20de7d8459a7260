----------------------------- MODULE CompiledRun -----------------------------
(***************************************************************************)
(* A compiled plugin's Runs in one Host process: the MCP transport, the     *)
(* compiled controller, and the provider each Run is bound to.              *)
(*                                                                         *)
(* A Run is started, bound, discovered, collected, planned, reviewed batch   *)
(* by batch and finalized, one tool call at a time, while the sources it     *)
(* reviews change.  Each call that changes the review saves the whole        *)
(* coverage ledger before it updates the Run in memory; saves that fail       *)
(* change nothing and are left out.  A source stands for all its pages and    *)
(* all its elements: it has one atom.                                        *)
(***************************************************************************)
EXTENDS CoverageLedger

CONSTANTS Run,            \* Run identities
          Version,        \* states a source can be in
          State,          \* TERMINAL_DECISION_STATES
          NeedsEvidence,  \* satisfied and violated
          Failed,         \* a classified failure of the provider
          FirstWorlds,    \* what the sources may be when the process starts
          Editable        \* sources that change under the Runs

Source == Atom

\* A decision is a state and the Evidence it cites, named by the version of
\* the source it was taken from.
ASSUME RunAssumption ==
  /\ Value = [state : State, evidence : Version \cup {None}]
  /\ NeedsEvidence \subseteq State
  /\ FirstWorlds \subseteq [Source -> Version]
  /\ Editable \subseteq Source
  /\ None \notin Run \cup [Source -> Version] \cup Ledger

VARIABLES world,     \* the state every source is in now
          active,    \* _active_run_id
          begun,     \* Runs whose directory exists
          memory,    \* the CompiledRun of every Run of this process, or None
          disk,      \* the coverage store, by Run
          pinned     \* what a Run's first discovery saw (a history variable)

vars == <<world, active, begun, memory, disk, pinned>>

Snapshots == [Source -> Version]
Results   == [Source -> Version \cup {Failed, None}]

\* The Run's fields that change, with its provider's two caches.
RunState == [bound       : BOOLEAN,
             discoveries : Snapshots \cup {None},  \* _source_discoveries
             results     : Results,                \* _results
             workItems   : Snapshots \cup {None},
             collections : Results \cup {None},
             coverage    : Ledger \cup {None}]

Started == [bound |-> FALSE, discoveries |-> None, results |-> [s \in Source |-> None],
            workItems |-> None, collections |-> None, coverage |-> None]

\* Mutant: the provider is asked to discover again on every call.
DiscoveredAfresh(m) == world

\* discover_sources: what was discovered first is what is discovered again.
Discovered(m) == IF m.discoveries # None THEN m.discoveries ELSE world

\* The work items a collection is about.
Items(m) == IF m.workItems # None THEN m.workItems ELSE Discovered(m)

\* A provider's answer about a source is given once.  It may be a failure, a
\* timeout included; facts must be about the state the work item names.
Answers(m, s) ==
  IF m.results[s] # None THEN {m.results[s]}
  ELSE {Failed} \cup {v \in {world[s]} : v = Items(m)[s]}

\* The Run after a collection that went through every source ...
Collected(m) ==
  {[m EXCEPT !.discoveries = Discovered(m), !.workItems = Items(m),
             !.results = f, !.collections = f] :
     f \in {g \in Results : \A s \in Source : g[s] \in Answers(m, s)}}

\* ... and after one in which the provider raised on a source: the Run is as it
\* was, and what the provider answered before stays in its caches.
Interrupted(m) ==
  {[m EXCEPT !.discoveries = Discovered(m), !.results = f] :
     f \in {g \in Results : /\ \A s \in Source : g[s] \in Answers(m, s) \cup {m.results[s]}
                            /\ \E s \in Source : g[s] = None}}

Keep(r, m) ==
  /\ memory' = [memory EXCEPT ![r] = m]
  /\ pinned' = [pinned EXCEPT ![r] = IF @ = None THEN m.discoveries ELSE @]

Known(r) == memory[r] # None

\* Mutant: a plan may be replaced.
OpenAgain(r) == Known(r) /\ memory[r].bound

\* A call that needs a bound provider and a plan that is not frozen yet.
Open(r) == Known(r) /\ memory[r].bound /\ memory[r].coverage = None

\* The ledger is written, then the Run in memory.
Save(r, m) == Keep(r, m) /\ disk' = [disk EXCEPT ![r] = m.coverage]

-----------------------------------------------------------------------------
Init == /\ world \in FirstWorlds
        /\ active = None
        /\ begun = {}
        /\ memory = [r \in Run |-> None]
        /\ disk = [r \in Run |-> None]
        /\ pinned = [r \in Run |-> None]

\* start_compiled_run, under an identity nobody has used.
Start(r) ==
  /\ active = None
  /\ r \notin begun /\ ~Known(r) /\ disk[r] = None
  /\ begun' = begun \cup {r}
  /\ active' = r
  /\ Keep(r, Started)
  /\ UNCHANGED <<world, disk>>

\* bind_provider.  The controller keeps the provider it has; the runtime that the
\* transport resolves for every call is left out.
Bind(r) ==
  /\ Known(r)
  /\ Keep(r, [memory[r] EXCEPT !.bound = TRUE])
  /\ UNCHANGED <<world, active, begun, disk>>

Discover(r) ==
  /\ Open(r)
  /\ Keep(r, [memory[r] EXCEPT !.discoveries = Discovered(memory[r]),
                               !.workItems = Discovered(memory[r])])
  /\ UNCHANGED <<world, active, begun, disk>>

Collect(r) ==
  /\ Open(r)
  /\ \E m \in Collected(memory[r]) \cup Interrupted(memory[r]) : Keep(r, m)
  /\ UNCHANGED <<world, active, begun, disk>>

\* plan_review_batches: collects what was not collected yet; every source,
\* failed or not, is an atom of the plan.
Plan(r) ==
  /\ Open(r)
  /\ \E m \in IF memory[r].collections # None THEN {memory[r]} ELSE Collected(memory[r]) :
       Save(r, [m EXCEPT !.coverage = Planned])
  /\ UNCHANGED <<world, active, begun>>

\* Cited Evidence was issued for the source and is about the state its work
\* item names; some decisions must cite Evidence.
Supported(m, s, decision) ==
  /\ decision.evidence # None =>
       /\ decision.evidence = m.collections[s]
       /\ decision.evidence = m.workItems[s]
  /\ decision.state \in NeedsEvidence => decision.evidence # None

\* submit_review_batch: a batch is offered and decided by one call.
Submit(r, b, id, decisions) ==
  /\ Known(r) /\ memory[r].coverage # None
  /\ \A s \in AtomsOf(b) : Supported(memory[r], s, decisions[s])
  /\ LET l == memory[r].coverage
         fresh == l.batches[b].status = "planned"
         offered == IF fresh THEN OfferResult(l, b) ELSE l
         v == [id |-> id, batch |-> b, decisions |-> decisions,
               supersedes |-> None, status |-> "accepted"]
     IN /\ fresh => CanOffer(l, b)
        /\ CanAccept(offered, v)
        /\ Save(r, [memory[r] EXCEPT !.coverage = AcceptResult(offered, v)])
  /\ UNCHANGED <<world, active, begun>>

\* Any complete answer for some batch.
SubmitSome(r) ==
  \E b \in Batch, id \in SubmissionId :
    \E decisions \in [AtomsOf(b) -> Value] : Submit(r, b, id, decisions)

Closing(r) ==
  /\ Known(r) /\ memory[r].coverage # None
  /\ \A s \in Source : memory[r].coverage.entries[s].status = "accepted"
  /\ CanFinalize(memory[r].coverage, "completed")
  /\ Save(r, [memory[r] EXCEPT !.coverage = FinalizeResult(@, "completed")])
  /\ UNCHANGED <<world, begun>>

\* Mutant: whatever Run is finalized, the transport becomes free.
FinalizeAny(r) == Closing(r) /\ active' = None

\* finalize_compiled_run, again as often as wanted.
Finalize(r) == Closing(r) /\ active' = IF active = r THEN None ELSE active

\* The ledger is saved, and reading it back for the answer raises.
FinalizeUnread(r) == Closing(r) /\ UNCHANGED active

\* The process ends, in order or not, and with it go the Runs it had in memory.  No
\* tool resumes a Run.
Exit ==
  /\ memory' = [r \in Run |-> None]
  /\ active' = None
  /\ UNCHANGED <<world, begun, disk, pinned>>

\* Somebody edits a source.
Change(s) ==
  /\ \E v \in Version : world' = [world EXCEPT ![s] = v]
  /\ UNCHANGED <<active, begun, memory, disk, pinned>>

Next ==
  \/ \E r \in Run : \/ Start(r) \/ Bind(r) \/ Discover(r) \/ Collect(r) \/ Plan(r)
                    \/ SubmitSome(r) \/ Finalize(r) \/ FinalizeUnread(r)
  \/ Exit
  \/ \E s \in Editable : Change(s)

Spec == Init /\ [][Next]_vars

\* A client that goes on with the Run it started, and a provider that answers
\* when it is asked, if only with a failure.
Fairness ==
  \A r \in Run : /\ WF_vars(Bind(r)) /\ WF_vars(Plan(r)) /\ WF_vars(SubmitSome(r))
                 /\ WF_vars(Finalize(r))

FairSpec == Spec /\ Fairness

-----------------------------------------------------------------------------
TypeOK ==
  /\ world \in Snapshots
  /\ active \in Run \cup {None}
  /\ begun \subseteq Run
  /\ memory \in [Run -> RunState \cup {None}]
  /\ disk \in [Run -> Ledger \cup {None}]
  /\ pinned \in [Run -> Snapshots \cup {None}]

Ended(r) == disk[r] # None /\ disk[r].terminal # None

\* Every judgement on disk that needs Evidence rests on the source as it was
\* when the Run first discovered it, however often it changed, was discovered
\* or collected again: a source whose collection failed is never judged.
JudgedAsDiscovered ==
  \A r \in Run : disk[r] # None =>
    \A b \in Batch : \A i \in 1..Len(disk[r].verdicts[b]) :
      LET decisions == disk[r].verdicts[b][i].decisions
      IN \A s \in DOMAIN decisions : decisions[s].state \in NeedsEvidence =>
           decisions[s].evidence = pinned[r][s]

\* A Run this process can still change is the active one, so that neither a
\* second Run nor a change of its plugin can be started under it.
UnfinishedIsActive ==
  \A r \in Run : Known(r) /\ ~Ended(r) => active = r

\* What get_compiled_result once answered it answers for ever: neither a
\* later call, a restart nor a new Run changes a terminal ledger.
ResultIsFinal ==
  [][\A r \in Run : Ended(r) => disk'[r] = disk[r]]_vars

\* An active Run is finished, or its process ends: nothing the sources, the
\* provider or a failing read do makes it hold the transport for ever.
RunsEnd == \A r \in Run : active = r ~> active # r

=============================================================================
