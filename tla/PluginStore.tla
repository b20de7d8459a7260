---------------------------- MODULE PluginStore ----------------------------
(***************************************************************************)
(* The installed-plugin store of the host: index.json (one entry per       *)
(* plugin) and the package directories beside it, and the lifecycle        *)
(* manager that changes both, step by file-system step.  One plugin is     *)
(* modelled; entries of different plugins share nothing but the index file.*)
(*                                                                         *)
(* A contract is its version and its content; the digest of a contract is  *)
(* its content.  An actor is a process that runs the manager: the MCP host *)
(* or a command-line call.  A package directory is removed and copied in   *)
(* separate steps; the index is written to index.json.tmp, one name for    *)
(* all processes, which then replaces index.json.  A process may stop      *)
(* between any two of these steps or within one, and where the setting     *)
(* says so two operations overlap.  Where two savers write to one file,    *)
(* what is left of both texts is taken to be unreadable.                   *)
(***************************************************************************)
EXTENDS Absence, Naturals, Sequences, FiniteSets, SequencesExt

CONSTANTS
    Versions,     \* released versions, compared as numbers
    Contents,     \* what a compiled contract may contain
    Actors,       \* the processes that run the lifecycle manager
    Inherited,    \* index entries an earlier release may have left behind
    Empty, Garbled, Missing,  \* a file just opened for writing, one with parts
                              \* of texts in it, and one that is not there
    Settings      \* whether operations overlap, and the bounds for it: whether
                  \* Runs start, and how many activations an entry has, plans
                  \* the host makes, times a process stops, and edits of the
                  \* catalog or the source

ASSUME VersionsAssumption == Versions \subseteq Nat /\ Versions # {}
ASSUME ActorsAssumption == Actors # {} /\ None \notin Actors
ASSUME ContentsAssumption == {None, "partial"} \cap Contents = {}
ASSUME SettingsAssumption ==
    Settings \subseteq [overlaps : BOOLEAN, runs : BOOLEAN, history : Nat, plans : Nat,
                        restarts : Nat, edits : Nat]

VARIABLES
    setting,    \* the setting of this behaviour, never changed
    index,      \* index.json: the entry of the plugin in it, None without one
    temporary,  \* index.json.tmp, likewise
    packages,   \* version -> content of its package directory
    job,        \* actor -> the operation it is carrying out, None when idle
    torn        \* history: recorded versions whose package is not what the
                \* index records, inherited so or left by a stopped repair

stored == <<setting, index, temporary, packages, torn>>
storeVars == <<stored, job>>

Entry == [history : Seq(Versions), records : [Versions -> Contents \cup {None}],
          state : {"installed", "dirty"}]

\* The next step of an operation.  A saver that has index.json.tmp open is to
\* "write"; when another one renames or replaces the file under it, what it
\* writes goes to index.json ("overwrite") or to no name at all ("lost").
Job == [op : {"install", "upgrade", "downgrade", "rollback", "uninstall"},
        at : {"clear", "copy", "save", "write", "overwrite", "lost", "replace", "remove"},
        loaded : Entry \cup {None}, version : Versions \cup {None},
        content : Contents \cup {None}]

Idle(a) == job[a] = None

\* What every reader of the index relies on: an entry names at least one
\* activation, each activated version has a record, and two activations in a
\* row differ, so that a rollback always changes the version.
Coherent(e) ==
    /\ e.history # <<>>
    /\ \A v \in ToSet(e.history) : e.records[v] # None
    /\ \A i \in 1 .. Len(e.history) - 1 : e.history[i] # e.history[i + 1]

ASSUME InheritedAssumption == \A e \in Inherited : e \in Entry /\ Coherent(e)
ASSUME SentinelAssumption ==
    /\ None \notin Versions \cup Entry \cup Job \cup [version : Versions, content : Contents]
    /\ \A s \in {Empty, Garbled, Missing} : s \notin Entry \cup {None}
    /\ Missing \notin {Empty, Garbled} /\ Empty # Garbled

----------------------------------------------------------------------------
\* Reading the index and an entry

\* load refuses a file that is no JSON text; every operation starts with it.
Readable(f) == f \notin {Empty, Garbled}

Entered(f) == f \notin {Empty, Garbled, Missing, None}

ActiveVersion(e) ==
    IF e = None \/ e.history = <<>> THEN None ELSE Last(e.history)

HasRecord(e, v) == e # None /\ e.records[v] # None

\* load_compiled_plugin_contract reads and validates the stored contract;
\* a missing or half-copied file fails it.
Loadable(v) == packages[v] \in Contents

\* load_installed_compiled_plugin: what a Run of this plugin would be given,
\* None when the load is refused.
LoadInstalled ==
    LET v == ActiveVersion(index) IN
    IF /\ Entered(index) /\ index.state # "dirty"
       /\ v # None /\ HasRecord(index, v)
       /\ Loadable(v) /\ packages[v] = index.records[v]
    THEN [version |-> v, content |-> packages[v]]
    ELSE None

Older(v, e) == ActiveVersion(e) # None /\ v < ActiveVersion(e)

----------------------------------------------------------------------------
\* New entries

\* PluginInstallationStore.upsert and the state the manager sets after it
Upsert(e, v, c) ==
    LET base == IF e = None
                THEN [history |-> <<>>, records |-> [w \in Versions |-> None],
                      state |-> "installed"]
                ELSE e
    IN [history |-> IF v \in ToSet(base.history) THEN base.history
                    ELSE Append(base.history, v),
        records |-> [base.records EXCEPT ![v] = c],
        state |-> "installed"]

\* CompiledPluginLifecycleManager._reactivate; the active version again
\* changes nothing, not even a dirty state.
\* Mutant: every activation is appended.
ReactivateAlways(e, v) == [e EXCEPT !.history = Append(@, v), !.state = "installed"]

Reactivate(e, v) ==
    IF v = ActiveVersion(e) THEN e
    ELSE [e EXCEPT !.history = Append(@, v), !.state = "installed"]

----------------------------------------------------------------------------
\* Starting an operation: load the index and check its preconditions.  An
\* operation that raises leaves nothing behind and is not an action.

FreshJob(op, at, v, c) ==
    [op |-> op, at |-> at, loaded |-> index, version |-> v, content |-> c]

CanInstall(v) ==
    /\ Readable(index)
    /\ index # None => index.state = "dirty"
    /\ ~Older(v, index)

\* Mutant: a repair may also replace an entry that is installed.
InstallAnyway(a, v, c) ==
    /\ Readable(index) /\ ~Older(v, index)
    /\ job' = [job EXCEPT ![a] = FreshJob("install", "clear", v, c)]

Install(a, v, c) ==
    /\ CanInstall(v)
    /\ job' = [job EXCEPT ![a] = FreshJob("install", "clear", v, c)]

\* A version already in the index is activated again from its package: the
\* artifact handed in is not looked at.
CanUpgrade(v) ==
    /\ Entered(index)
    /\ ~Older(v, index)
    /\ HasRecord(index, v) => Loadable(v)

Upgrade(a, v, c) ==
    /\ CanUpgrade(v)
    /\ job' = [job EXCEPT ![a] =
                   FreshJob("upgrade", IF HasRecord(index, v) THEN "save" ELSE "clear", v, c)]

CanRollback ==
    /\ Entered(index)
    /\ Len(index.history) >= 2
    /\ LET v == index.history[Len(index.history) - 1]
       IN HasRecord(index, v) /\ Loadable(v)

Rollback(a) ==
    /\ CanRollback
    /\ job' = [job EXCEPT ![a] =
                   FreshJob("rollback", "save", index.history[Len(index.history) - 1], None)]

CanDowngrade(v) ==
    /\ Entered(index) /\ HasRecord(index, v)
    /\ (v # ActiveVersion(index) => Loadable(v))

Downgrade(a, v) ==
    /\ CanDowngrade(v)
    /\ job' = [job EXCEPT ![a] = FreshJob("downgrade", "save", v, None)]

Uninstall(a) ==
    /\ Entered(index)
    /\ job' = [job EXCEPT ![a] = FreshJob("uninstall", "save", None, None)]

\* One operation of the manager by name
Begin(a, op, v, c) ==
    \/ op = "install" /\ Install(a, v, c)
    \/ op = "upgrade" /\ Upgrade(a, v, c)
    \/ op = "downgrade" /\ Downgrade(a, v)
    \/ op = "rollback" /\ Rollback(a)
    \/ op = "uninstall" /\ Uninstall(a)

CanBegin(op, v) ==
    \/ op = "install" /\ CanInstall(v)
    \/ op = "upgrade" /\ CanUpgrade(v)
    \/ op = "downgrade" /\ CanDowngrade(v)
    \/ op = "rollback" /\ CanRollback
    \/ op = "uninstall" /\ Entered(index)

----------------------------------------------------------------------------
\* The file-system steps of an operation

\* _stage removes a package directory of the same version ...
ClearPackage(a) ==
    /\ ~Idle(a) /\ job[a].at = "clear"
    /\ packages' = [packages EXCEPT ![job[a].version] = None]
    /\ torn' = IF HasRecord(job[a].loaded, job[a].version) /\ job[a].loaded.state = "dirty"
               THEN torn \cup {job[a].version} ELSE torn
    /\ job' = [job EXCEPT ![a].at = "copy"]
    /\ UNCHANGED <<setting, index, temporary>>

\* ... and copies the artifact in its place; a stop may leave part of it.
CopyPackage(a) ==
    /\ ~Idle(a) /\ job[a].at = "copy"
    /\ packages' = [packages EXCEPT ![job[a].version] = job[a].content]
    /\ job' = [job EXCEPT ![a].at = "save"]
    /\ UNCHANGED <<setting, index, temporary, torn>>

\* What save writes, computed from the index the operation loaded
Result(j) ==
    CASE j.op = "uninstall" -> None
      [] j.op = "install" -> Upsert(j.loaded, j.version, j.content)
      [] j.op = "upgrade" /\ ~HasRecord(j.loaded, j.version)
             -> Upsert(j.loaded, j.version, j.content)
      [] OTHER -> Reactivate(j.loaded, j.version)

Grows(j) == j.op # "uninstall" /\ Len(Result(j).history) > setting.history

\* An activation of the active version saves nothing.
KeepIndex(a) ==
    /\ ~Idle(a) /\ job[a].at = "save"
    /\ Result(job[a]) = job[a].loaded
    /\ job' = [job EXCEPT ![a] = None]
    /\ UNCHANGED stored

\* save opens index.json.tmp, which empties what is there under that name, ...
OpenTemporary(a) ==
    /\ ~Idle(a) /\ job[a].at = "save"
    /\ Result(job[a]) # job[a].loaded /\ ~Grows(job[a])
    /\ temporary' = Empty
    /\ job' = [job EXCEPT ![a].at = "write"]
    /\ UNCHANGED <<setting, index, packages, torn>>

\* ... writes its text to the file it opened, whatever that file is called by
\* now and whatever another one wrote to it ...
Written(text, j) == IF text = Empty THEN {Result(j)} ELSE {Result(j), Garbled}

WriteTemporary(a) ==
    /\ ~Idle(a)
    /\ \/ job[a].at = "write" /\ temporary' \in Written(temporary, job[a]) /\ index' = index
       \/ job[a].at = "overwrite" /\ index' \in Written(index, job[a]) /\ temporary' = temporary
       \/ job[a].at = "lost" /\ UNCHANGED <<index, temporary>>
    /\ job' = [job EXCEPT ![a].at = "replace"]
    /\ UNCHANGED <<setting, packages, torn>>

\* ... and renames what is called index.json.tmp by now to index.json.
Renamed(j) ==
    IF j = None THEN None
    ELSE CASE j.at = "write" -> [j EXCEPT !.at = "overwrite"]
           [] j.at = "overwrite" -> [j EXCEPT !.at = "lost"]
           [] OTHER -> j

Saved(j) == IF j.op = "uninstall" THEN [j EXCEPT !.at = "remove"] ELSE None

ReplaceIndex(a) ==
    /\ ~Idle(a) /\ job[a].at = "replace"
    /\ temporary # Missing
    /\ index' = temporary /\ temporary' = Missing
    /\ torn' = IF job[a].op = "uninstall" THEN {}
               ELSE IF job[a].op = "install" THEN torn \ {job[a].version} ELSE torn
    /\ job' = [b \in Actors |-> IF b = a THEN Saved(job[a]) ELSE Renamed(job[b])]
    /\ UNCHANGED <<setting, packages>>

\* uninstall removes the packages after the entry is gone.
RemovePackages(a) ==
    /\ ~Idle(a) /\ job[a].at = "remove"
    /\ packages' = [v \in Versions |-> None]
    /\ job' = [job EXCEPT ![a] = None]
    /\ UNCHANGED <<setting, index, temporary, torn>>

\* An operation that overlaps with another finds a file gone that it is to
\* rename, copy to or remove, and raises.
FailStep(a) ==
    /\ ~Idle(a)
    /\ \/ job[a].at = "replace" /\ temporary = Missing
       \/ setting.overlaps /\ job[a].at \in {"clear", "copy", "remove"}
    /\ job' = [job EXCEPT ![a] = None]
    /\ UNCHANGED stored

\* The process stops; the file it is writing may be incomplete.
Stop(a) ==
    /\ job' = [job EXCEPT ![a] = None]
    /\ \/ UNCHANGED <<packages, index, temporary>>
       \/ ~Idle(a) /\ job[a].at = "copy"
          /\ packages' = [packages EXCEPT ![job[a].version] = "partial"]
          /\ UNCHANGED <<index, temporary>>
       \/ ~Idle(a) /\ job[a].at = "write" /\ temporary' = Garbled /\ UNCHANGED <<packages, index>>
       \/ ~Idle(a) /\ job[a].at = "overwrite" /\ index' = Garbled /\ UNCHANGED <<packages, temporary>>
    /\ UNCHANGED <<setting, torn>>

\* A dirty entry may come with an incomplete package.
StoreInit ==
    /\ setting \in Settings
    /\ temporary = Missing
    /\ index \in Inherited \cup {None}
    /\ torn \in IF index = None THEN {{}} ELSE SUBSET {v \in Versions : HasRecord(index, v)}
    /\ torn # {} => index.state = "dirty"
    /\ packages = [v \in Versions |-> IF v \in torn THEN "partial"
                                      ELSE IF HasRecord(index, v) THEN index.records[v]
                                      ELSE None]
    /\ job = [a \in Actors |-> None]

FileStep(a) ==
    \/ ClearPackage(a) \/ CopyPackage(a) \/ RemovePackages(a)
    \/ KeepIndex(a) \/ OpenTemporary(a) \/ WriteTemporary(a) \/ ReplaceIndex(a)

----------------------------------------------------------------------------
\* Properties

StoreTypes ==
    /\ setting \in Settings
    /\ index \in Entry \cup {None, Empty, Garbled}
    /\ temporary \in Entry \cup {None, Empty, Garbled, Missing}
    /\ packages \in [Versions -> Contents \cup {None, "partial"}]
    /\ job \in [Actors -> Job \cup {None}]
    /\ torn \subseteq Versions

\* Types, and what a reader of the index finds.  However operations overlap,
\* with stale entries saved, one temporary file written and renamed by both
\* and stops anywhere, an index that can be read at all has an entry no reader
\* and no rollback trips over; and while operations do not overlap it can be
\* read, wherever a save is cut short (PluginInstallationStore.save, upsert,
\* CompiledPluginLifecycleManager._reactivate).
IndexIsCoherent ==
    /\ StoreTypes
    /\ Entered(index) => Coherent(index)
    /\ ~setting.overlaps => Readable(index)

\* Wherever a process stops while operations do not overlap, the active
\* contract of an installed plugin can be loaded and is the one the index
\* records; only a version whose package was inherited broken, or whose repair
\* was cut short, may be refused (CompiledPluginLifecycleManager._stage,
\* _persist, uninstall).
ActiveContractLoads ==
    ~setting.overlaps /\ index # None /\ index.state = "installed"
            /\ ActiveVersion(index) \notin torn
        => LoadInstalled # None
=============================================================================
