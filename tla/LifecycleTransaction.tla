------------------------- MODULE LifecycleTransaction -------------------------
(***************************************************************************)
(* PluginLifecycleTransaction: a process replaces or removes the installed  *)
(* release of the plugin, one external command at a time, under a journal,   *)
(* and undoes what it did when a step fails.  The plugin catalog belongs to   *)
(* an external client (Codex) that may refuse a command, apply it and lose    *)
(* the reply, or install something that does not work; every process and      *)
(* transaction shares it.  LifecycleProduct adds the tokens that start a       *)
(* transaction and composes the steps.                                       *)
(***************************************************************************)
EXTENDS Absence, Naturals, FiniteSets

CONSTANTS Selector,  \* plugin@marketplace selectors, one release each
          Tx,        \* plan tokens; a transaction's identity is its token's digest
          Process,   \* processes that may execute a transaction
          Deployments \* processes, tokens and what may go wrong

Fault == {"refuse",   \* a command changes nothing (and raises: returning is no better)
          "lost",     \* a command is applied and raises
          "break",    \* an installed release is unhealthy
          "snapshot", \* reading the catalog raises
          "probe",    \* an unstructured error before the mutation
          "journal",  \* the journal cannot be written
          "tokens",   \* the token database cannot be written
          "crash"}    \* the process dies

ASSUME DeploymentAssumption ==
  Deployments \subseteq
    [processes : SUBSET Process, tokens : SUBSET Tx, faults : SUBSET Fault]

ASSUME IdentityAssumption == None \notin Selector \cup Tx

VARIABLES deployment,
          catalog,  \* what Codex has under every selector
          plan,     \* the accepted plan of every transaction, or None
          journal,  \* status in the transaction's journal file, or None
          proc,     \* what every process is doing
          last      \* the transaction that last sent a command (history variable)

Releases == {"absent", "healthy", "unhealthy"}

Plan == [current : Selector, target : Selector \cup {None}]

Terminal == {"completed", "rolled_back", "failed", "rejected"}

Installed(s) == catalog[s] # "absent"

\* An upgrade or rollback needs another release that is not installed yet.
\* Releases are verified, immutable and in the right direction (the resolver's
\* business).
ReplacementReady(x) == x.target # x.current /\ ~Installed(x.target)

\* PluginLifecyclePlanner: when a plan is "ready".  An uninstall has no target.
PlanReady(x) ==
  /\ Installed(x.current)
  /\ x.target # None => ReplacementReady(x)

Cur(p) == plan[proc[p].tx].current
Tgt(p) == plan[proc[p].tx].target

At(p, place) == proc[p].at = place

Idle == [at |-> "idle", tx |-> None, outcome |-> None]

Goto(p, place) == proc' = [proc EXCEPT ![p].at = place]

\* Leave for a place with the status the transaction will report.
Conclude(p, place, status) ==
  proc' = [proc EXCEPT ![p] = [@ EXCEPT !.at = place, !.outcome = status]]

Fails(kinds) == kinds \cap deployment.faults # {}

Put(s, state) == [catalog EXCEPT ![s] = state]

Fresh == IF Fails({"break"}) THEN {"healthy", "unhealthy"} ELSE {"healthy"}

\* Catalogs a command may leave when it returns, and when it raises.
Removed(s) == {Put(s, "absent")}
Added(s) == {Put(s, state) : state \in Fresh}
Raising(applied) ==
  (IF Fails({"lost"}) THEN applied ELSE {}) \cup (IF Fails({"refuse"}) THEN {catalog} ELSE {})

\* The journal's file names a new status: it is replaced as a whole.
Journaled(p, status) == journal' = [journal EXCEPT ![proc[p].tx] = status]

\* A command of the running transaction leaves one of these catalogs.
Command(p, outcomes) == catalog' \in outcomes /\ last' = proc[p].tx

\* _refresh_plan: the plan made afresh from the live catalog.
StillReady(p) == PlanReady(plan[proc[p].tx])

-----------------------------------------------------------------------------
\* Mutant: a rejected plan is returned without being reported.
RefreshUnreported(p) ==
  /\ At(p, "refresh")
  /\ \/ StillReady(p) /\ Goto(p, "record")
     \/ proc' = [proc EXCEPT ![p] = Idle]
  /\ UNCHANGED <<catalog, plan, journal, last>>

\* The plan is rebuilt from live state.  Anything but the accepted
\* plan, an active Run or a catalog error rejects it; an unstructured error
\* escapes execute() and leaves no journal.
Refresh(p) ==
  /\ At(p, "refresh")
  /\ \/ StillReady(p) /\ Goto(p, "record")
     \/ Conclude(p, "settle", "rejected")
     \/ Fails({"probe"}) /\ proc' = [proc EXCEPT ![p] = Idle]
  /\ UNCHANGED <<catalog, plan, journal, last>>

\* Mutant: the first save is best effort like the last one.
RecordBestEffort(p) ==
  /\ At(p, "record")
  /\ \/ Journaled(p, "running")
     \/ Fails({"journal"}) /\ UNCHANGED journal
  /\ Goto(p, "remove")
  /\ UNCHANGED <<catalog, plan, last>>

\* The running journal is durable before the first command, or there is none.
Record(p) ==
  /\ At(p, "record")
  /\ \/ /\ Journaled(p, "running")
        /\ Goto(p, "remove")
     \/ /\ Fails({"journal"})
        /\ Conclude(p, "report", "failed")
        /\ UNCHANGED journal
  /\ UNCHANGED <<catalog, plan, last>>

\* _remove: the command, then what the catalog says of it.
Remove(p) ==
  /\ At(p, "remove")
  /\ Command(p, Removed(Cur(p)) \cup Raising(Removed(Cur(p))))
  /\ Goto(p, "check_removed")
  /\ UNCHANGED <<plan, journal>>

CheckRemoved(p) ==
  /\ At(p, "check_removed")
  /\ \/ ~Installed(Cur(p)) /\ Goto(p, IF Tgt(p) = None THEN "commit" ELSE "install")
     \/ Installed(Cur(p)) /\ Goto(p, "undo_target")
     \/ Fails({"snapshot", "journal"}) /\ Goto(p, "undo_target")
  /\ UNCHANGED <<catalog, plan, journal, last>>

\* _install_and_verify: an error is forgiven when the target is installed.
Install(p) ==
  /\ At(p, "install")
  /\ Command(p, Added(Tgt(p)) \cup Raising(Added(Tgt(p))))
  /\ Goto(p, "verify")
  /\ UNCHANGED <<plan, journal>>

\* Mutant: an installed target is good enough.
VerifyInstalled(p) ==
  /\ At(p, "verify")
  /\ Goto(p, IF Installed(Tgt(p)) THEN "close" ELSE "undo_target")
  /\ UNCHANGED <<catalog, plan, journal, last>>

Verify(p) ==
  /\ At(p, "verify")
  /\ \/ catalog[Tgt(p)] = "healthy" /\ Goto(p, "close")
     \/ catalog[Tgt(p)] # "healthy" /\ Goto(p, "undo_target")
     \/ Fails({"snapshot", "journal"}) /\ Goto(p, "undo_target")
  /\ UNCHANGED <<catalog, plan, journal, last>>

\* The previous selector must be absent.
Close(p) ==
  /\ At(p, "close")
  /\ \/ ~Installed(Cur(p)) /\ Goto(p, "commit")
     \/ /\ Installed(Cur(p)) \/ Fails({"snapshot"})
        /\ Goto(p, "undo_target")
  /\ UNCHANGED <<catalog, plan, journal, last>>

\* The last save of a successful change; when it fails the change is undone.
Commit(p) ==
  /\ At(p, "commit")
  /\ \/ /\ Journaled(p, "completed")
        /\ Conclude(p, "report", "completed")
     \/ /\ Fails({"snapshot", "journal"})
        /\ Goto(p, "undo_target")
        /\ UNCHANGED journal
  /\ UNCHANGED <<catalog, plan, last>>

\* Mutant: the failed target is left where it is.
UndoNothing(p) ==
  /\ At(p, "undo_target")
  /\ Goto(p, "restore")
  /\ UNCHANGED <<catalog, plan, journal, last>>

\* _compensate, first half: an installed target goes, and must be gone.
UndoTarget(p) ==
  /\ At(p, "undo_target")
  /\ LET there == Tgt(p) # None /\ Installed(Tgt(p))
     IN \/ ~there /\ Goto(p, "restore") /\ UNCHANGED <<catalog, last>>
        \/ there /\ Command(p, Removed(Tgt(p))) /\ Goto(p, "restore")
        \/ /\ there
           /\ Command(p, Raising(Removed(Tgt(p))))
           /\ Conclude(p, "settle", "failed")
        \/ /\ Fails({"snapshot"})
           /\ Conclude(p, "settle", "failed")
           /\ UNCHANGED <<catalog, last>>
  /\ UNCHANGED <<plan, journal>>

\* _compensate, second half: the previous release comes back.  Unlike the
\* forward commands an error here is not checked against the catalog.
Restore(p) ==
  /\ At(p, "restore")
  /\ \/ Installed(Cur(p)) /\ Goto(p, "confirm") /\ UNCHANGED <<catalog, last>>
     \/ ~Installed(Cur(p)) /\ Command(p, Added(Cur(p))) /\ Goto(p, "confirm")
     \/ /\ ~Installed(Cur(p))
        /\ Command(p, Raising(Added(Cur(p))))
        /\ Conclude(p, "settle", "failed")
     \/ /\ Fails({"snapshot"})
        /\ Conclude(p, "settle", "failed")
        /\ UNCHANGED <<catalog, last>>
  /\ UNCHANGED <<plan, journal>>

Confirm(p) ==
  /\ At(p, "confirm")
  /\ \/ catalog[Cur(p)] = "healthy" /\ Conclude(p, "settle", "rolled_back")
     \/ /\ catalog[Cur(p)] # "healthy" \/ Fails({"snapshot"})
        /\ Conclude(p, "settle", "failed")
  /\ UNCHANGED <<catalog, plan, journal, last>>

\* _best_effort_save: the terminal status, or the journal as it was.
Settle(p) ==
  /\ At(p, "settle")
  /\ \/ Journaled(p, proc[p].outcome)
     \/ Fails({"journal"}) /\ UNCHANGED journal
  /\ Goto(p, "report")
  /\ UNCHANGED <<catalog, plan, last>>

TxStep(p) ==
  \/ Refresh(p) \/ Record(p) \/ Remove(p) \/ CheckRemoved(p) \/ Install(p)
  \/ Verify(p) \/ Close(p) \/ Commit(p) \/ UndoTarget(p) \/ Restore(p)
  \/ Confirm(p) \/ Settle(p)

\* Where a process is between claiming a transaction and reporting it.
Executing(p) ==
  proc[p].at \in {"refresh", "record", "remove", "check_removed", "install", "verify",
                  "close", "commit", "undo_target", "restore", "confirm", "settle"}
=============================================================================
