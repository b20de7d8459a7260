---------------------------- MODULE PluginChange ----------------------------
(***************************************************************************)
(* Changing the installed plugin: the lifecycle tools of the MCP host      *)
(* (plan_plugin_change, execute_plugin_change, apply_plugin_change) and    *)
(* the command line, over the store of PluginStore.                        *)
(*                                                                         *)
(* The host plans a change, shows the plan with a one-time token and       *)
(* executes it when the token comes back confirmed; it keeps its plans in  *)
(* memory.  A plan is bound to digests of the catalog, of the local source *)
(* tree and of the index file.  The command line confirms and changes the  *)
(* store at once, with no plan.  Publishers edit the catalog and authors   *)
(* their source tree at any time between calls, and in a setting where     *)
(* operations overlap also in the middle of one.                           *)
(***************************************************************************)
EXTENDS PluginStore

CONSTANTS
    Host, Cli,    \* the two actors
    Requests,     \* what a request on the command line has words for
    Catalogs,     \* what the published catalog may be: version -> content
    Sources       \* what the local source tree may compile to

ASSUME ChangeAssumption ==
    /\ Actors = {Host, Cli} /\ Host # Cli
    /\ \A c \in Catalogs : c \in [Versions -> Contents \cup {None}]
    /\ \A s \in Sources : s = None \/ s \in [version : Versions, content : Contents]

VARIABLES
    catalog,    \* the catalog now published
    source,     \* what the local source tree compiles to, None when refused
    running,    \* a Run is active in the host process
    call,       \* the plan the host is computing, None between calls
    plan,       \* the plan of the last token, None when there is none
    executed,   \* history: the last plan carried out and the store it left,
                \* where operations do not overlap
    plans, restarts, edits   \* counters for the bounds

changeVars == <<catalog, source, running, call, plan, executed>>
counters == <<plans, restarts, edits>>
allVars == <<storeVars, changeVars, counters>>

Operations == {"install", "upgrade", "downgrade", "rollback", "uninstall"}

\* The host serves one call at a time; unless operations overlap, nothing else
\* is under way when a call or an operation of the command line starts.
HostIdle == call = None /\ Idle(Host)
Quiet == HostIdle /\ (setting.overlaps \/ Idle(Cli))
Free == setting.overlaps \/ Quiet

InCall(phase) == call # None /\ call.phase = phase

\* The catalog version asked for, or the latest.  A catalog that does not
\* parse is refused, as if it had no versions.
Published(c) == {v \in Versions : c[v] # None}
Resolved(c, v) == IF v = None THEN {w \in Published(c) : \A u \in Published(c) : u <= w}
                  ELSE {v} \cap Published(c)

----------------------------------------------------------------------------
\* plan_plugin_change: what is to be done, read from the catalog or compiled
\* from the source ...

Request(op, from, v, c) ==
    [phase |-> "resolved", op |-> op, from |-> from, target |-> v, content |-> c]

ResolveTarget(op) ==
    /\ ~running
    /\ Quiet /\ plans < setting.plans
    /\ \/ /\ op \in {"install", "upgrade"}
          /\ \E asked \in Versions \cup {None} : \E v \in Resolved(catalog, asked) :
                call' = Request(op, "catalog", v, catalog[v])
       \/ /\ op \in {"install", "upgrade"}
          /\ source # None
          /\ call' = Request(op, "source", source.version, source.content)
       \/ /\ op = "downgrade"
          /\ \E v \in Versions : call' = Request(op, "store", v, None)
       \/ /\ op \in {"rollback", "uninstall"}
          /\ call' = Request(op, "store", None, None)
    /\ plan' = None /\ executed' = None
    /\ plans' = plans + 1
    /\ UNCHANGED <<storeVars, catalog, source, running, restarts, edits>>

\* ... checked against the entry of the plugin ...
Ready(op, v) ==
    CASE op = "install" -> CanInstall(v)
      [] op = "upgrade" -> index # None /\ v # ActiveVersion(index) /\ ~Older(v, index)
      [] op = "downgrade" -> HasRecord(index, v) /\ v # ActiveVersion(index)
      [] op = "rollback" -> index # None /\ Len(index.history) >= 2
      [] OTHER -> index # None

Target(r) == IF r.op = "rollback" THEN index.history[Len(index.history) - 1] ELSE r.target

\* ... and, when it is ready, bound to the digests of what it was read from:
\* the catalog or the source as they are now, and, last, the index file.  A
\* blocked plan, or one over an index that cannot be read, has no token.
CheckEntry ==
    /\ InCall("resolved")
    /\ IF Readable(index) /\ Ready(call.op, call.target)
       THEN call' = [phase |-> "checked",
                     plan |-> [op |-> call.op, from |-> call.from, target |-> Target(call),
                               content |-> call.content,
                               reactivates |-> call.op = "upgrade" /\ HasRecord(index, call.target),
                               catalogDigest |-> IF call.from = "catalog" THEN catalog ELSE None,
                               packageDigest |-> IF call.from = "source" THEN source ELSE None,
                               storeDigest |-> None, used |-> FALSE, expired |-> FALSE]]
       ELSE call' = None
    /\ UNCHANGED <<storeVars, catalog, source, running, plan, executed, counters>>

IssueToken ==
    /\ InCall("checked")
    /\ plan' = [call.plan EXCEPT !.storeDigest = index]
    /\ call' = None
    /\ UNCHANGED <<storeVars, catalog, source, running, executed, counters>>

\* The plan lifetime passes.
Expire ==
    /\ plan # None /\ ~plan.expired /\ Quiet
    /\ plan' = [plan EXCEPT !.expired = TRUE]
    /\ UNCHANGED <<storeVars, catalog, source, running, call, executed, counters>>

----------------------------------------------------------------------------
\* execute_plugin_change

\* verify_plan_binding
Bound(p) ==
    /\ p.catalogDigest # None => p.catalogDigest = catalog
    /\ p.packageDigest # None => p.packageDigest = source

\* The token is known, unused and fresh, the store and the sources are what
\* they were, and no Run is active.
\* Mutant: the index file is not compared.
ExecutableWithoutDigest(p) ==
    /\ ~p.used /\ ~p.expired
    /\ Bound(p)
    /\ ~running

Executable(p) ==
    /\ ~p.used /\ ~p.expired
    /\ p.storeDigest = index
    /\ Bound(p)
    /\ ~running

\* A confirmed token is used up first, whatever becomes of the operation.
ConfirmToken ==
    /\ plan # None /\ Quiet
    /\ Executable(plan)
    /\ plan' = [plan EXCEPT !.used = TRUE]
    /\ call' = [phase |-> "confirmed"]
    /\ UNCHANGED <<storeVars, catalog, source, running, executed, counters>>

\* The operation itself: a catalog artifact is downloaded again and must have
\* the planned digest, a local source is compiled again from its path, and
\* the store operations are carried out by name on the entry as it is.
Fetched(p) ==
    CASE p.from = "catalog" -> {[version |-> p.target, content |-> p.content]}
      [] p.from = "source" -> {source} \ {None}
      [] OTHER -> {[version |-> IF p.op = "downgrade" THEN p.target ELSE None, content |-> None]}

StartConfirmed ==
    /\ InCall("confirmed")
    /\ \E f \in Fetched(plan) : Begin(Host, plan.op, f.version, f.content)
    /\ call' = None
    /\ UNCHANGED <<stored, catalog, source, running, plan, executed, counters>>

\* The download or the compilation fails, or the manager refuses.
FailConfirmed ==
    /\ InCall("confirmed")
    /\ \/ plan.from = "catalog"
       \/ \A f \in Fetched(plan) : ~CanBegin(plan.op, f.version)
    /\ call' = None
    /\ UNCHANGED <<storeVars, catalog, source, running, plan, executed, counters>>

\* A file step of the host; the last one completes the plan, unless it raises.
HostStep ==
    /\ \/ /\ FileStep(Host)
          /\ executed' = IF job'[Host] = None /\ ~setting.overlaps
                         THEN [plan |-> plan, entry |-> index', packages |-> packages']
                         ELSE executed
       \/ FailStep(Host) /\ UNCHANGED executed
    /\ UNCHANGED <<catalog, source, running, call, plan, counters>>

----------------------------------------------------------------------------
\* The command line, the authors and the processes

\* A subcommand of "assayer plugins", confirmed on the terminal.
CliCommand(op) ==
    /\ Idle(Cli) /\ Free
    /\ \/ /\ op = "install"                       \* plugins add
          /\ \E v \in Published(catalog) : Install(Cli, v, catalog[v])
       \/ /\ op \in {"install", "upgrade"}        \* plugins install, upgrade
          /\ source # None
          /\ Begin(Cli, op, source.version, source.content)
       \/ /\ op = "downgrade"
          /\ \E v \in Versions : Downgrade(Cli, v)
       \/ /\ op \in {"rollback", "uninstall"}
          /\ Begin(Cli, op, None, None)
    /\ UNCHANGED <<stored, changeVars, counters>>

\* resolve_intent: of the operations a request has words for, the first here
Precedence == <<"rollback", "downgrade", "uninstall", "upgrade", "install", "info", "list", "run">>

Intent(words) == SelectSeq(Precedence, LAMBDA op : op \in words)[1]

\* route_plugin_request: a request about Assayer itself is not for the store.
Routed(words) == "assayer" \notin words

\* The installed plugins are listed first, to find the one that is meant; the
\* listing raises when the active contract cannot be read.
Listed ==
    /\ Readable(index)
    /\ HasRecord(index, ActiveVersion(index)) => Loadable(ActiveVersion(index))

\* execute_intent_step, confirmed on the terminal: the step by name, with the
\* latest catalog version or a local source; other steps change nothing.
IntentStep(op) ==
    \/ /\ op \in {"install", "upgrade"}
       /\ \/ \E v \in Resolved(catalog, None) : Begin(Cli, op, v, catalog[v])
          \/ source # None /\ Begin(Cli, op, source.version, source.content)
    \/ op = "downgrade" /\ \E v \in Versions : Downgrade(Cli, v)
    \/ op \in {"rollback", "uninstall"} /\ Begin(Cli, op, None, None)

\* A request in words on the command line
CliRequest(words) ==
    /\ Idle(Cli) /\ Free
    /\ Routed(words) /\ Listed
    /\ IntentStep(Intent(words))
    /\ UNCHANGED <<stored, changeVars, counters>>

CliStep ==
    /\ FileStep(Cli) \/ FailStep(Cli)
    /\ UNCHANGED <<changeVars, counters>>

EditCatalog ==
    /\ Free /\ edits < setting.edits
    /\ catalog' \in Catalogs \ {catalog}
    /\ edits' = edits + 1
    /\ UNCHANGED <<storeVars, source, running, call, plan, executed, plans, restarts>>

EditSource ==
    /\ Free /\ edits < setting.edits
    /\ source' \in Sources \ {source}
    /\ edits' = edits + 1
    /\ UNCHANGED <<storeVars, catalog, running, call, plan, executed, plans, restarts>>

\* A Run starts on the active contract and ends.
StartRun ==
    /\ setting.runs /\ Quiet /\ ~running /\ LoadInstalled # None
    /\ running' = TRUE
    /\ UNCHANGED <<storeVars, catalog, source, call, plan, executed, counters>>

EndRun ==
    /\ Quiet /\ running
    /\ running' = FALSE
    /\ UNCHANGED <<storeVars, catalog, source, call, plan, executed, counters>>

\* The host stops and forgets its plans, its call and its Run.
StopHost ==
    /\ restarts < setting.restarts
    /\ Stop(Host)
    /\ running' = FALSE /\ call' = None /\ plan' = None /\ executed' = None
    /\ restarts' = restarts + 1
    /\ UNCHANGED <<catalog, source, plans, edits>>

StopCli ==
    /\ ~Idle(Cli) /\ restarts < setting.restarts
    /\ Stop(Cli)
    /\ restarts' = restarts + 1
    /\ UNCHANGED <<changeVars, plans, edits>>

ChangeInit ==
    /\ StoreInit
    /\ catalog \in Catalogs /\ source \in Sources
    /\ running = FALSE /\ call = None /\ plan = None /\ executed = None
    /\ plans = 0 /\ restarts = 0 /\ edits = 0

ChangeNext ==
    \/ \E op \in Operations : ResolveTarget(op) \/ CliCommand(op)
    \/ \E words \in Requests : CliRequest(words)
    \/ CheckEntry \/ IssueToken \/ Expire
    \/ ConfirmToken \/ StartConfirmed \/ FailConfirmed \/ HostStep
    \/ CliStep \/ EditCatalog \/ EditSource
    \/ StartRun \/ EndRun \/ StopHost \/ StopCli

ChangeSpec == ChangeInit /\ [][ChangeNext]_allVars

----------------------------------------------------------------------------
\* Properties

\* A change that completes is the change that was confirmed: the active
\* version is the target the plan showed, and the contract in the store is
\* the one the plan was made from, or the one already stored when the plan
\* said so; whatever the command line, publishers and authors did between
\* the plan and its token, and after any restart, as long as nothing is done
\* in the middle of the change itself (_execute_change, verify_plan_binding,
\* store_index_digest).
ConfirmedIsExecuted ==
    executed # None =>
        LET p == executed.plan IN
        IF p.op = "uninstall"
        THEN executed.entry = None /\ \A v \in Versions : executed.packages[v] = None
        ELSE /\ executed.entry # None /\ executed.entry.state = "installed"
             /\ ActiveVersion(executed.entry) = p.target
             /\ p.content # None /\ ~p.reactivates
                    => executed.packages[p.target] = p.content
=============================================================================
