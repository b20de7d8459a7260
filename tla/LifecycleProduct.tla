--------------------------- MODULE LifecycleProduct ---------------------------
(***************************************************************************)
(* LifecycleProductController and its LifecyclePlanStore: a plan is read-    *)
(* only and yields a token; execute(token) claims the token in the shared     *)
(* database, runs one transaction, and stores its result there.  Any number   *)
(* of processes may call execute with the same or different tokens, die, or    *)
(* find the token of a dead process and repair it from the journal.           *)
(***************************************************************************)
EXTENDS LifecycleTransaction

VARIABLES token,   \* state of every plan token in the database, or None
          stored,  \* result_json of every token, or None
          begun    \* how often each plan's journal went "running" (history variable)

vars == <<deployment, catalog, plan, journal, proc, last, token, stored, begun>>

TokenState == {"awaiting_confirmation", "executing", "terminal", "expired"}

ASSUME SentinelAssumption == None \notin TokenState \cup Terminal \cup {"running"}

\* One release is installed, and healthy.
Init ==
  /\ deployment \in Deployments
  /\ \E s \in Selector :
       catalog = [x \in Selector |-> IF x = s THEN "healthy" ELSE "absent"]
  /\ plan = [t \in Tx |-> None]
  /\ journal = [t \in Tx |-> None]
  /\ proc = [p \in Process |-> Idle]
  /\ last = None
  /\ token = [t \in Tx |-> None]
  /\ stored = [t \in Tx |-> None]
  /\ begun = [t \in Tx |-> 0]

\* issue(): the plan is stored under a token nobody has.
Issued(t, x) ==
  /\ token[t] = None
  /\ plan' = [plan EXCEPT ![t] = x]
  /\ token' = [token EXCEPT ![t] = "awaiting_confirmation"]

\* plan(): a ready plan gets a fresh token; no other outcome leaves a trace.
Issue(t, x) ==
  /\ t \in deployment.tokens
  /\ PlanReady(x)
  /\ Issued(t, x)
  /\ UNCHANGED <<deployment, catalog, journal, proc, last, stored, begun>>

\* execute() reads the token: a confirmed and authorized call goes on to claim
\* it, a call that finds it executing tries to repair it, all others return.
Execute(p, t) ==
  /\ p \in deployment.processes
  /\ proc[p] = Idle
  /\ \/ /\ token[t] = "awaiting_confirmation"
        /\ proc' = [proc EXCEPT ![p] = [Idle EXCEPT !.at = "claim", !.tx = t]]
     \/ /\ token[t] = "executing"
        /\ proc' = [proc EXCEPT ![p] = [Idle EXCEPT !.at = "recover", !.tx = t]]
  /\ UNCHANGED <<deployment, catalog, plan, journal, last, token, stored, begun>>

\* Mutant: the update does not ask for the state the caller has read.
ClaimAnyway(p) ==
  /\ At(p, "claim")
  /\ token' = [token EXCEPT ![proc[p].tx] = "executing"]
  /\ Goto(p, "refresh")
  /\ UNCHANGED <<deployment, catalog, plan, journal, last, stored, begun>>

\* claim(): BEGIN IMMEDIATE makes the check and the update one step.
Claim(p) ==
  /\ At(p, "claim")
  /\ LET t == proc[p].tx
     IN \/ /\ token[t] = "awaiting_confirmation"
           /\ token' = [token EXCEPT ![t] = "executing"]
           /\ Goto(p, "refresh")
        \/ /\ token[t] = "awaiting_confirmation"
           /\ token' = [token EXCEPT ![t] = "expired"]
           /\ proc' = [proc EXCEPT ![p] = Idle]
        \/ /\ token[t] # "awaiting_confirmation"
           /\ proc' = [proc EXCEPT ![p] = Idle]
           /\ UNCHANGED token
  /\ UNCHANGED <<deployment, catalog, plan, journal, last, stored, begun>>

\* _recover_executing: only a terminal journal speaks for a token that a
\* process, dead or alive, has claimed.
Recover(p) ==
  /\ At(p, "recover")
  /\ IF journal[proc[p].tx] \in Terminal
     THEN Conclude(p, "report", journal[proc[p].tx])
     ELSE proc' = [proc EXCEPT ![p] = Idle]
  /\ UNCHANGED <<deployment, catalog, plan, journal, last, token, stored, begun>>

\* complete(): the update applies to an executing token only; otherwise it
\* raises, and the call answers "result unknown".
Report(p) ==
  /\ At(p, "report")
  /\ LET t == proc[p].tx
     IN \/ /\ token[t] = "executing"
           /\ token' = [token EXCEPT ![t] = "terminal"]
           /\ stored' = [stored EXCEPT ![t] = proc[p].outcome]
        \/ /\ token[t] # "executing" \/ Fails({"tokens"})
           /\ UNCHANGED <<token, stored>>
  /\ proc' = [proc EXCEPT ![p] = Idle]
  /\ UNCHANGED <<deployment, catalog, plan, journal, last, begun>>

\* One step of the transaction a process has claimed.
Transact(p) ==
  /\ TxStep(p)
  /\ begun' = [t \in Tx |-> IF At(p, "record") /\ proc[p].tx = t /\ journal'[t] = "running"
                            THEN begun[t] + 1 ELSE begun[t]]
  /\ UNCHANGED <<deployment, token, stored>>

\* The process dies and is replaced; everything it knew is lost.
Crash(p) ==
  /\ Fails({"crash"})
  /\ proc[p] # Idle
  /\ proc' = [proc EXCEPT ![p] = Idle]
  /\ UNCHANGED <<deployment, catalog, plan, journal, last, token, stored, begun>>

\* What execute() does once the token was read.
Step(p) == Claim(p) \/ Recover(p) \/ Report(p) \/ Transact(p)

Next ==
  \/ \E t \in Tx, x \in Plan : Issue(t, x)
  \/ \E p \in Process, t \in Tx : Execute(p, t)
  \/ \E p \in Process : Step(p) \/ Crash(p)

Spec == Init /\ [][Next]_vars

\* A process that is alive takes its next step.
FairSpec == Spec /\ \A p \in Process : WF_vars(Step(p))

-----------------------------------------------------------------------------
\* Every variable holds a value of its kind.
TypeOK ==
  /\ deployment \in Deployments
  /\ catalog \in [Selector -> Releases]
  /\ plan \in [Tx -> Plan \cup {None}]
  /\ journal \in [Tx -> Terminal \cup {"running", None}]
  /\ \A p \in Process : /\ proc[p].tx \in Tx \cup {None}
                        /\ proc[p].outcome \in Terminal \cup {None}
                        /\ proc[p] = Idle \/ proc[p].at \in {"claim", "recover", "report"}
                             \/ Executing(p)
  /\ token \in [Tx -> TokenState \cup {None}]
  /\ stored \in [Tx -> Terminal \cup {None}]
  /\ begun \in [Tx -> Nat]
  /\ last \in Tx \cup {None}

\* Replacing a release, failing anywhere and undoing it never leaves two
\* releases installed: the old one is provably gone before the new one comes,
\* and the failed one before the old one comes back.
OneRelease ==
  \A s, u \in Selector : Installed(s) /\ Installed(u) => s = u

Says(t, status) == journal[t] = status \/ stored[t] = status

\* A recorded result is true of the catalog until the next transaction touches
\* it: completed means the target works and the old release is gone,
\* rolled back that the old one works and the target is gone.
ResultIsTrue ==
  last # None =>
    LET x == plan[last]
    IN /\ Says(last, "completed") =>
            /\ ~Installed(x.current)
            /\ x.target # None => catalog[x.target] = "healthy"
       /\ Says(last, "rolled_back") =>
            /\ catalog[x.current] = "healthy"
            /\ x.target # None => ~Installed(x.target)

\* The catalog changes only under a transaction whose journal says it is
\* running: a crash is always found in the journal.
MutationIsJournaled ==
  [][catalog' # catalog => last' # None /\ journal[last'] = "running"]_vars

\* Processes racing for a token, retrying it, or finding it after a crash
\* carry out its plan at most once, and the token becomes terminal only when
\* nobody is executing it any more, with the result its journal holds.
ExecutedOnce ==
  /\ TypeOK
  /\ \A t \in Tx : begun[t] <= 1
  /\ \A t \in Tx : token[t] = "terminal" =>
       /\ \A p \in Process : Executing(p) => proc[p].tx # t
       /\ journal[t] \in Terminal => stored[t] = journal[t]

\* Whatever the catalog client and the journal do, a claimed token of a process
\* that stays alive becomes terminal.  An error before the first journal save, a
\* token database that cannot be written and a crash leave it executing.
ClaimsSettle ==
  ~Fails({"probe", "tokens", "crash"}) =>
    \A t \in Tx : token[t] = "executing" ~> token[t] = "terminal"
=============================================================================
