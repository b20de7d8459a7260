------------------------ MODULE LifecycleProductProofs ------------------------
(***************************************************************************)
(* Proofs about LifecycleProduct, for any releases, tokens, processes and     *)
(* faults.  Owned says who may touch a token, its journal and its result, and   *)
(* needs no assumption.  Sound says what is installed at every point of a        *)
(* transaction; it is inductive as long as no two transactions are under way at  *)
(* once, which the code leaves to its callers.                                *)
(***************************************************************************)
EXTENDS LifecycleProduct, TLAPS

\* Before the journal says "running", and while it does.
Early   == {"refresh", "record"}
Changing == {"remove", "check_removed", "install", "verify", "close", "commit",
             "undo_target", "restore", "confirm"}

Places == {"idle", "claim", "recover", "settle", "report"} \cup Early \cup Changing

Call == [at : Places, tx : Tx \cup {None}, outcome : Terminal \cup {None}]

Types ==
  /\ deployment \in Deployments
  /\ catalog \in [Selector -> Releases]
  /\ plan \in [Tx -> Plan \cup {None}]
  /\ journal \in [Tx -> Terminal \cup {"running", None}]
  /\ proc \in [Process -> Call]
  /\ token \in [Tx -> TokenState \cup {None}]
  /\ stored \in [Tx -> Terminal \cup {None}]
  /\ begun \in [Tx -> Nat]
  /\ last \in Tx \cup {None}

\* A token that was issued has a plan, and a deployment has its tokens.
Planned(t) == token[t] # None =>
  /\ plan[t] \in Plan /\ plan[t].target # plan[t].current
  /\ t \in deployment.tokens

\* A process that is not idle has a token, which was issued.
Holds(p) ==
  IF proc[p].at = "idle" THEN proc[p] = Idle
  ELSE /\ p \in deployment.processes
       /\ proc[p].tx \in Tx /\ token[proc[p].tx] # None

\* A token has one owner while it is executed: only its owner's steps are
\* in its journal.
Owner(p) == Executing(p) =>
  LET t == proc[p].tx
  IN /\ token[t] = "executing"
     /\ \A q \in Process : proc[q].tx = t => q = p \/ proc[q].at \in {"claim", "recover"}
     /\ journal[t] \notin Terminal
     /\ proc[p].at \in Early => journal[t] # "running" /\ begun[t] = 0
     /\ proc[p].at \in Changing => journal[t] = "running"
     /\ proc[p].at = "settle" => proc[p].outcome \in Terminal

\* Who reports has a status that agrees with the journal.
Reporter(p) == proc[p].at = "report" =>
  LET t == proc[p].tx
  IN /\ token[t] \in {"executing", "terminal"}
     /\ proc[p].outcome \in Terminal
     /\ journal[t] \in Terminal => proc[p].outcome = journal[t]

\* What the database and the journal say of a token.
Recorded(t) ==
  /\ begun[t] <= 1
  /\ token[t] # "terminal" => stored[t] = None
  /\ token[t] \notin {"executing", "terminal"} =>
       journal[t] \notin Terminal /\ journal[t] # "running" /\ begun[t] = 0
  /\ token[t] = "terminal" /\ journal[t] \in Terminal => stored[t] = journal[t]

Owned == /\ Types
         /\ \A t \in Tx : Planned(t) /\ Recorded(t)
         /\ \A p \in Process : Holds(p) /\ Owner(p) /\ Reporter(p)

-----------------------------------------------------------------------------
(* What the steps of a transaction do to its process and its journal *)

LEMMA CallType ==
  ASSUME NEW c \in Call, NEW place \in Places
  PROVE  LET new == [c EXCEPT !.at = place] IN
         new \in Call /\ new.at = place /\ new.tx = c.tx /\ new.outcome = c.outcome
BY DEF Call

LEMMA IdleType == Idle \in Call /\ Idle.at = "idle" /\ Idle.tx = None
BY DEF Idle, Call, Places

LEMMA GoesTo ==
  ASSUME proc \in [Process -> Call], NEW p \in Process, NEW place \in Places,
         Goto(p, place)
  PROVE  \E new \in Call : /\ proc' = [proc EXCEPT ![p] = new]
                           /\ new.at = place /\ new.tx = proc[p].tx
                           /\ new.outcome = proc[p].outcome
<1>1. proc' = [proc EXCEPT ![p] = [proc[p] EXCEPT !.at = place]]
  BY DEF Goto
<1> QED BY <1>1, CallType

LEMMA Concludes ==
  ASSUME proc \in [Process -> Call], NEW p \in Process, NEW place \in Places,
         NEW status \in Terminal, Conclude(p, place, status)
  PROVE  \E new \in Call : /\ proc' = [proc EXCEPT ![p] = new]
                           /\ new.at = place /\ new.tx = proc[p].tx /\ new.outcome = status
<1> DEFINE new == [proc[p] EXCEPT !.at = place, !.outcome = status]
<1>1. proc' = [proc EXCEPT ![p] = new]
  BY DEF Conclude
<1>2. new \in Call /\ new.at = place /\ new.tx = proc[p].tx /\ new.outcome = status
  <2>1. proc[p] \in Call
    OBVIOUS
  <2> QED BY <2>1 DEF Call
<1> HIDE DEF new
<1> QED BY <1>1, <1>2

\* The process of a transaction is where it may be, and its journal says so.
Moves(p, new) ==
  LET from == proc[p].at
      t    == proc[p].tx
  IN \/ new = Idle /\ from \in Early /\ journal' = journal
     \/ /\ new.tx = t
        /\ \/ /\ from \in Early /\ new.at \in {"record", "settle", "report"}
              /\ new.at \in {"settle", "report"} => new.outcome \in Terminal
              /\ journal' = journal
           \/ /\ from = "record" /\ new.at = "remove"
              /\ journal' = [journal EXCEPT ![t] = "running"]
           \/ /\ from \in Changing /\ new.at \in Changing \cup {"settle"}
              /\ new.at = "settle" => new.outcome \in Terminal
              /\ journal' = journal
           \/ /\ from \in Changing \cup {"settle"} /\ new.at = "report"
              /\ from \in Changing => new.outcome \in Terminal
              /\ from = "settle" => new.outcome = proc[p].outcome
              /\ journal' \in {journal, [journal EXCEPT ![t] = new.outcome]}

LEMMA TxMoves ==
  ASSUME Types, NEW p \in Process, TxStep(p)
  PROVE  /\ Executing(p)
         /\ \E new \in Call : proc' = [proc EXCEPT ![p] = new] /\ Moves(p, new)
         /\ UNCHANGED plan
<1> USE DEF At, Executing
<1>1. proc \in [Process -> Call]
  BY DEF Types
<1>2. {"rejected", "failed", "completed", "rolled_back"} \subseteq Terminal
  BY DEF Terminal
<1>3. Early \cup Changing \cup {"settle", "report"} \subseteq Places
  BY DEF Places, Early, Changing
<1>4. CASE Refresh(p)
  <2>1. CASE Goto(p, "record")
    BY <1>1, <1>3, <1>4, <2>1, GoesTo DEF Refresh, Moves, Early
  <2>2. CASE Conclude(p, "settle", "rejected")
    BY <1>1, <1>2, <1>3, <1>4, <2>2, Concludes DEF Refresh, Moves, Early
  <2>3. CASE proc' = [proc EXCEPT ![p] = Idle]
    BY <1>4, <2>3, IdleType DEF Refresh, Moves, Early
  <2> QED BY <1>4, <2>1, <2>2, <2>3 DEF Refresh
<1>5. CASE Record(p)
  <2>1. CASE Journaled(p, "running") /\ Goto(p, "remove")
    <3>1. "remove" \in Places
      BY <1>3 DEF Changing
    <3> QED BY <1>1, <1>5, <2>1, <3>1, GoesTo DEF Record, Moves, Early, Journaled
  <2>2. CASE Conclude(p, "report", "failed") /\ journal' = journal
    BY <1>1, <1>2, <1>3, <1>5, <2>2, Concludes DEF Record, Moves, Early
  <2> QED BY <1>5, <2>1, <2>2 DEF Record
\* Between the first journal save and the last, a step goes from one of these
\* places to another, or settles.
<1>6. ASSUME proc[p].at \in Changing, journal' = journal,
             \/ \E place \in Changing : Goto(p, place)
             \/ \E status \in Terminal : Conclude(p, "settle", status)
      PROVE  \E new \in Call : proc' = [proc EXCEPT ![p] = new] /\ Moves(p, new)
  <2>1. ASSUME NEW place \in Changing, Goto(p, place)
        PROVE  \E new \in Call : proc' = [proc EXCEPT ![p] = new] /\ Moves(p, new)
    <3>1. place \in Places /\ place # "settle"
      BY <1>3 DEF Changing
    <3> QED BY <1>1, <1>6, <2>1, <3>1, GoesTo DEF Moves
  <2>2. ASSUME NEW status \in Terminal, Conclude(p, "settle", status)
        PROVE  \E new \in Call : proc' = [proc EXCEPT ![p] = new] /\ Moves(p, new)
    BY <1>1, <1>3, <1>6, <2>2, Concludes DEF Moves
  <2> QED BY <1>6, <2>1, <2>2
<1>7. CASE Remove(p) \/ CheckRemoved(p) \/ Install(p) \/ Verify(p) \/ Close(p)
  <2>1. /\ proc[p].at \in Changing /\ journal' = journal /\ plan' = plan
        /\ \E place \in Changing : Goto(p, place)
    BY <1>7 DEF Remove, CheckRemoved, Install, Verify, Close, Changing
  <2> QED BY <1>6, <2>1 DEF Changing
<1>8. CASE UndoTarget(p) \/ Restore(p) \/ Confirm(p)
  <2>1. /\ proc[p].at \in Changing /\ journal' = journal /\ plan' = plan
        /\ \/ \E place \in Changing : Goto(p, place)
           \/ \E status \in Terminal : Conclude(p, "settle", status)
    BY <1>2, <1>8 DEF UndoTarget, Restore, Confirm, Changing
  <2> QED BY <1>6, <2>1 DEF Changing
<1>9. CASE Commit(p)
  <2>1. CASE Journaled(p, "completed") /\ Conclude(p, "report", "completed")
    <3>1. PICK new \in Call : /\ proc' = [proc EXCEPT ![p] = new]
                              /\ new.at = "report" /\ new.tx = proc[p].tx
                              /\ new.outcome = "completed"
      BY <1>1, <1>2, <1>3, <2>1, Concludes
    <3>2. Moves(p, new)
      BY <1>2, <1>9, <2>1, <3>1 DEF Commit, Moves, Changing, Journaled
    <3> QED BY <1>9, <3>1, <3>2 DEF Commit
  <2>2. CASE Goto(p, "undo_target") /\ journal' = journal
    <3>1. proc[p].at \in Changing /\ plan' = plan /\ "undo_target" \in Changing
      BY <1>9 DEF Commit, Changing
    <3> QED BY <1>6, <2>2, <3>1 DEF Changing
  <2> QED BY <1>9, <2>1, <2>2 DEF Commit
<1>10. CASE Settle(p)
  <2>1. PICK new \in Call : /\ proc' = [proc EXCEPT ![p] = new]
                            /\ new.at = "report" /\ new.tx = proc[p].tx
                            /\ new.outcome = proc[p].outcome
    BY <1>1, <1>3, <1>10, GoesTo DEF Settle
  <2>2. Moves(p, new)
    BY <1>10, <2>1 DEF Settle, Moves, Changing, Journaled
  <2> QED BY <1>10, <2>1, <2>2 DEF Settle
<1> QED BY <1>4, <1>5, <1>7, <1>8, <1>9, <1>10 DEF TxStep

-----------------------------------------------------------------------------
(* Owned is an invariant *)

\* A command puts one of the three states under a selector.
LEMMA CommandType ==
  ASSUME Types, NEW p \in Process, TxStep(p)
  PROVE  catalog' \in [Selector -> Releases] /\ last' \in Tx \cup {None}
<1>1. \A x, state \in Releases : Put(x, state) \in [Selector -> Releases]
  BY DEF Types, Put
<1>2. \A x : /\ Removed(x) \subseteq [Selector -> Releases]
             /\ Added(x) \subseteq [Selector -> Releases]
  <2>1. \A x : \A state \in Releases : Put(x, state) \in [Selector -> Releases]
    BY DEF Types, Put
  <2>2. "absent" \in Releases /\ Fresh \subseteq Releases
    BY DEF Releases, Fresh
  <2> QED BY <2>1, <2>2 DEF Removed, Added
<1>3. \A applied : applied \subseteq [Selector -> Releases] =>
                     Raising(applied) \subseteq [Selector -> Releases]
  BY DEF Types, Raising
<1>4. catalog \in [Selector -> Releases] /\ last \in Tx \cup {None}
      /\ proc[p].tx \in Tx \cup {None}
  BY DEF Types, Call
<1>5. ASSUME NEW outcomes, outcomes \subseteq [Selector -> Releases], Command(p, outcomes)
      PROVE  catalog' \in [Selector -> Releases] /\ last' \in Tx \cup {None}
  BY <1>4, <1>5 DEF Command
<1>6. CASE UNCHANGED <<catalog, last>>
  BY <1>4, <1>6
<1>7. \/ UNCHANGED <<catalog, last>>
      \/ \E x : \/ Command(p, Removed(x) \cup Raising(Removed(x)))
                \/ Command(p, Added(x) \cup Raising(Added(x)))
                \/ Command(p, Removed(x)) \/ Command(p, Raising(Removed(x)))
                \/ Command(p, Added(x)) \/ Command(p, Raising(Added(x)))
  BY DEF TxStep, Refresh, Record, Remove, CheckRemoved, Install, Verify, Close, Commit,
         UndoTarget, Restore, Confirm, Settle
<1>8. CASE \E x : \/ Command(p, Removed(x) \cup Raising(Removed(x)))
                  \/ Command(p, Added(x) \cup Raising(Added(x)))
                  \/ Command(p, Removed(x)) \/ Command(p, Raising(Removed(x)))
                  \/ Command(p, Added(x)) \/ Command(p, Raising(Added(x)))
  <2>1. PICK x : \/ Command(p, Removed(x) \cup Raising(Removed(x)))
                 \/ Command(p, Added(x) \cup Raising(Added(x)))
                 \/ Command(p, Removed(x)) \/ Command(p, Raising(Removed(x)))
                 \/ Command(p, Added(x)) \/ Command(p, Raising(Added(x)))
    BY <1>8
  <2> DEFINE R == Removed(x)
             A == Added(x)
             RR == Raising(R)
             RA == Raising(A)
  <2>2. /\ R \subseteq [Selector -> Releases] /\ A \subseteq [Selector -> Releases]
        /\ RR \subseteq [Selector -> Releases] /\ RA \subseteq [Selector -> Releases]
    BY <1>2, <1>3
  <2>3. \/ Command(p, R \cup RR) \/ Command(p, A \cup RA)
        \/ Command(p, R) \/ Command(p, RR) \/ Command(p, A) \/ Command(p, RA)
    BY <2>1
  <2> HIDE DEF R, A, RR, RA
  <2> QED BY <1>5, <2>2, <2>3
<1> QED BY <1>6, <1>7, <1>8

\* A process that moves on with its token, or drops it, disturbs no other.
LEMMA TransactOwned ==
  ASSUME Owned, NEW p \in Process, Transact(p)
  PROVE  Owned'
<1>1. TxStep(p) /\ UNCHANGED <<deployment, token, stored>> /\ Types
  BY DEF Transact, Owned
<1>2. PICK new \in Call : proc' = [proc EXCEPT ![p] = new] /\ Moves(p, new)
  BY <1>1, TxMoves
<1>3. Executing(p) /\ plan' = plan
  BY <1>1, TxMoves
<1> DEFINE t == proc[p].tx
<1>4. /\ proc[p].at \in Early \cup Changing \cup {"settle"}
      /\ proc[p] \in Call /\ proc[p].at # "idle" /\ t \in Tx
      /\ p \in deployment.processes /\ token[t] = "executing"
  BY <1>1, <1>3 DEF Types, Owned, Owner, Holds, Executing, Early, Changing
<1>5. Owner(p) /\ Recorded(t)
  BY <1>4 DEF Owned
<1>6. \A q \in Process : proc'[q] = IF q = p THEN new ELSE proc[q]
  BY <1>1, <1>2 DEF Types
<1>7. /\ journal' \in [Tx -> Terminal \cup {"running", None}]
      /\ \A u \in Tx \ {t} : journal'[u] = journal[u]
      /\ journal'[t] \in {journal[t], "running", new.outcome}
  BY <1>1, <1>2, <1>4 DEF Types, Moves, Owner, Call, Early, Changing
<1>8. /\ begun' \in [Tx -> Nat] /\ \A u \in Tx \ {t} : begun'[u] = begun[u]
      /\ begun'[t] = IF proc[p].at = "record" /\ journal'[t] = "running"
                     THEN begun[t] + 1 ELSE begun[t]
  <2>1. begun \in [Tx -> Nat]
    BY <1>1 DEF Types
  <2> QED BY <1>4, <2>1 DEF Transact, At
<1>9. new = Idle \/ (new.tx = t /\ new.at # "idle")
  BY <1>2 DEF Moves, Early, Changing
<1>10. begun'[t] <= 1
  <2>1. begun[t] \in Nat
    BY <1>1, <1>4 DEF Types
  <2>2. CASE proc[p].at \in Early
    BY <1>3, <1>5, <1>8, <2>1, <2>2 DEF Owner
  <2>3. CASE proc[p].at \notin Early
    BY <1>5, <1>8, <2>3 DEF Recorded, Early
  <2> QED BY <2>2, <2>3
<1>11. Types'
  BY <1>1, <1>2, <1>3, <1>7, <1>8, CommandType DEF Types
<1>12. ASSUME NEW u \in Tx PROVE Planned(u)' /\ Recorded(u)'
  BY <1>1, <1>3, <1>4, <1>7, <1>8, <1>10 DEF Owned, Planned, Recorded
<1>13. ASSUME NEW q \in Process PROVE Holds(q)'
  BY <1>1, <1>4, <1>6, <1>9, IdleType DEF Owned, Holds
<1>14. \A q \in Process \ {p} : proc[q].tx = t => proc[q].at \in {"claim", "recover"}
  BY <1>3, <1>5 DEF Owner
<1>15. Owner(p)'
  <2> SUFFICES ASSUME Executing(p)' PROVE Owner(p)'
    BY DEF Owner
  <2>1. new.tx = t /\ proc'[p] = new
    BY <1>6, <1>9 DEF Executing, Idle
  <2>2. \A q \in Process : proc'[q].tx = t => q = p \/ proc'[q].at \in {"claim", "recover"}
    BY <1>6, <1>14
  <2>3. journal[t] \notin Terminal /\ "running" \notin Terminal
    BY <1>3, <1>5 DEF Owner, Terminal
  <2>4. CASE proc[p].at \in Early /\ new.at \in {"record", "settle"} /\ journal' = journal
    <3>1. journal[t] # "running" /\ begun[t] = 0
      BY <1>3, <1>5, <2>4 DEF Owner
    <3>2. begun'[t] = 0
      BY <1>8, <2>4, <3>1
    <3>3. new.at = "settle" => new.outcome \in Terminal
      BY <1>2, <2>4 DEF Moves, Early, Changing, Idle
    <3> QED BY <1>1, <1>4, <2>1, <2>2, <2>3, <2>4, <3>1, <3>2, <3>3 DEF Owner, Changing
  <2>5. CASE new.at = "remove" /\ journal' = [journal EXCEPT ![t] = "running"]
    <3>1. journal'[t] = "running"
      BY <1>1, <1>4, <2>5 DEF Types
    <3> QED BY <1>1, <1>4, <2>1, <2>2, <2>3, <2>5, <3>1 DEF Owner, Early
  <2>6. CASE /\ proc[p].at \in Changing /\ new.at \in Changing \cup {"settle"}
             /\ new.at = "settle" => new.outcome \in Terminal
             /\ journal' = journal
    <3>1. journal[t] = "running"
      BY <1>3, <1>5, <2>6 DEF Owner
    <3> QED BY <1>1, <1>4, <2>1, <2>2, <2>3, <2>6, <3>1 DEF Owner, Early, Changing
  <2>7. new.at # "report" /\ new # Idle
    BY <2>1 DEF Executing, Idle
  <2> QED BY <1>2, <2>4, <2>5, <2>6, <2>7 DEF Moves
<1>16. ASSUME NEW q \in Process, q # p PROVE Owner(q)'
  <2> SUFFICES ASSUME Executing(q) PROVE Owner(q)'
    BY <1>6, <1>16 DEF Owner, Executing
  <2>1. Owner(q) /\ proc'[q] = proc[q] /\ proc[q].tx # t
    BY <1>6, <1>14, <1>16 DEF Owned, Executing
  <2>2. proc[q].tx \in Tx
    BY <1>16 DEF Owned, Holds, Executing
  <2>3. \A r \in Process : proc'[r].tx = proc[q].tx => r # p /\ proc'[r] = proc[r]
    BY <1>6, <1>9, <2>1, <2>2, IdentityAssumption, IdleType
  <2>4. journal'[proc[q].tx] = journal[proc[q].tx] /\ begun'[proc[q].tx] = begun[proc[q].tx]
    BY <1>7, <1>8, <2>1, <2>2
  <2> QED BY <1>1, <2>1, <2>3, <2>4 DEF Owner
<1>17. Reporter(p)'
  <2> SUFFICES ASSUME new.at = "report" PROVE Reporter(p)'
    BY <1>6 DEF Reporter
  <2>1. proc'[p] = new /\ new.tx = t /\ journal[t] \notin Terminal /\ "running" \notin Terminal
    BY <1>3, <1>5, <1>6, <1>9 DEF Owner, Terminal, Idle
  <2>2. new.outcome \in Terminal /\ journal' \in {journal, [journal EXCEPT ![t] = new.outcome]}
    BY <1>2, <1>3, <1>5 DEF Moves, Owner, Idle, Early, Changing
  <2>3. journal'[t] \in Terminal => new.outcome = journal'[t]
    BY <1>1, <1>4, <2>1, <2>2 DEF Types
  <2> QED BY <1>1, <1>4, <2>1, <2>2, <2>3 DEF Reporter
<1>18. ASSUME NEW q \in Process, q # p PROVE Reporter(q)'
  <2> SUFFICES ASSUME proc[q].at = "report" PROVE Reporter(q)'
    BY <1>6, <1>18 DEF Reporter
  <2>1. Reporter(q) /\ proc'[q] = proc[q] /\ proc[q].tx # t /\ proc[q].tx \in Tx
    BY <1>6, <1>14, <1>18 DEF Owned, Holds
  <2>2. journal'[proc[q].tx] = journal[proc[q].tx]
    BY <1>7, <2>1
  <2> QED BY <1>1, <2>1, <2>2 DEF Reporter
<1> QED BY <1>11, <1>12, <1>13, <1>15, <1>16, <1>17, <1>18 DEF Owned

\* What holds of a token and of a process, unless one of these has changed.
LEMMA Undisturbed ==
  ASSUME Owned, UNCHANGED deployment
  PROVE  /\ \A t \in Tx : /\ UNCHANGED <<token[t], plan[t]>> => Planned(t)'
                          /\ UNCHANGED <<token[t], journal[t], begun[t], stored[t]>> => Recorded(t)'
         /\ \A p \in Process :
              /\ proc'[p] = proc[p] /\ (proc[p].tx \in Tx => token'[proc[p].tx] # None) => Holds(p)'
              /\ proc'[p] = Idle => Holds(p)' /\ Owner(p)' /\ Reporter(p)'
              /\ /\ proc'[p] = proc[p]
                 /\ \A q \in Process : proc'[q].tx = proc[p].tx =>
                                         proc'[q] = proc[q] \/ proc'[q].at \in {"claim", "recover"}
                 /\ LET t == proc[p].tx
                    IN t \in Tx => UNCHANGED <<token[t], journal[t], begun[t]>>
                 => Owner(p)' /\ Reporter(p)'
<1>1. \A t \in Tx : Planned(t) /\ Recorded(t)
  BY DEF Owned
<1>2. \A p \in Process : Holds(p) /\ Owner(p) /\ Reporter(p)
  BY DEF Owned
<1>3. \A p \in Process : proc[p].tx \in Tx \/ (~Executing(p) /\ proc[p].at # "report")
  BY <1>2 DEF Holds, Executing
<1>4. ASSUME NEW t \in Tx, UNCHANGED <<token[t], plan[t]>> PROVE Planned(t)'
  BY <1>1, <1>4 DEF Planned
<1>5. ASSUME NEW t \in Tx, UNCHANGED <<token[t], journal[t], begun[t], stored[t]>>
      PROVE  Recorded(t)'
  BY <1>1, <1>5 DEF Recorded
<1>6. ASSUME NEW p \in Process, proc'[p] = proc[p], proc[p].tx \in Tx => token'[proc[p].tx] # None
      PROVE  Holds(p)'
  BY <1>2, <1>6 DEF Holds
<1>7. ASSUME NEW p \in Process, proc'[p] = Idle
      PROVE  Holds(p)' /\ Owner(p)' /\ Reporter(p)'
  BY <1>7 DEF Holds, Owner, Reporter, Executing, Idle
<1>8. ASSUME NEW p \in Process, proc'[p] = proc[p],
             \A q \in Process : proc'[q].tx = proc[p].tx =>
                                  proc'[q] = proc[q] \/ proc'[q].at \in {"claim", "recover"},
             proc[p].tx \in Tx => /\ token'[proc[p].tx] = token[proc[p].tx]
                                  /\ journal'[proc[p].tx] = journal[proc[p].tx]
                                  /\ begun'[proc[p].tx] = begun[proc[p].tx]
      PROVE  Owner(p)' /\ Reporter(p)'
  <2>1. Executing(p)' <=> Executing(p)
    BY <1>8 DEF Executing
  <2>2. Owner(p)'
    BY <1>2, <1>3, <1>8, <2>1 DEF Owner
  <2>3. Reporter(p)'
    BY <1>2, <1>3, <1>8 DEF Reporter
  <2> QED BY <2>2, <2>3
<1> QED BY <1>4, <1>5, <1>6, <1>7, <1>8

LEMMA IssueOwned ==
  ASSUME Owned, NEW t \in Tx, NEW x \in Plan, Issue(t, x)
  PROVE  Owned'
<1>1. /\ Types /\ t \in deployment.tokens /\ token[t] = None
      /\ plan' = [plan EXCEPT ![t] = x]
      /\ token' = [token EXCEPT ![t] = "awaiting_confirmation"]
      /\ UNCHANGED <<deployment, catalog, journal, proc, last, stored, begun>>
  BY DEF Issue, Issued, Owned
<1>2. /\ token'[t] = "awaiting_confirmation" /\ plan'[t] = x
      /\ \A u \in Tx \ {t} : token'[u] = token[u] /\ plan'[u] = plan[u]
  BY <1>1 DEF Types
<1>3. x.target # x.current
  BY IdentityAssumption DEF Issue, PlanReady, ReplacementReady, Plan
<1>4. Types'
  BY <1>1 DEF Types, TokenState
<1>5. ASSUME NEW u \in Tx PROVE Planned(u)' /\ Recorded(u)'
  <2>1. CASE u = t
    <3>1. None \notin TokenState /\ Recorded(t)
      BY SentinelAssumption DEF Owned
    <3> QED BY <1>1, <1>2, <1>3, <2>1, <3>1 DEF Planned, Recorded, TokenState
  <2>2. CASE u # t
    BY <1>1, <1>2, <2>2, Undisturbed
  <2> QED BY <2>1, <2>2
<1>6. ASSUME NEW p \in Process PROVE Holds(p)' /\ Owner(p)' /\ Reporter(p)'
  <2>1. proc[p].at = "idle" \/ (proc[p].tx \in Tx /\ token[proc[p].tx] # None)
    BY DEF Owned, Holds
  <2>2. CASE proc[p].at = "idle"
    <3>1. proc[p] = Idle
      BY <2>2 DEF Owned, Holds
    <3> QED BY <1>1, <3>1, Undisturbed
  <2>3. CASE proc[p].tx \in Tx /\ token[proc[p].tx] # None
    <3>1. proc[p].tx # t
      BY <1>1, <2>3
    <3> QED BY <1>1, <1>2, <2>3, <3>1, Undisturbed
  <2> QED BY <2>1, <2>2, <2>3
<1> QED BY <1>4, <1>5, <1>6 DEF Owned

\* A process that begins to look at a token, and one that stops, do nothing to it.
LEMMA LooksOwned ==
  ASSUME Owned, NEW p \in Process, NEW new \in Call, proc' = [proc EXCEPT ![p] = new],
         UNCHANGED <<deployment, catalog, plan, journal, last, token, stored, begun>>,
         \/ new = Idle
         \/ /\ p \in deployment.processes /\ new.tx \in Tx /\ token[new.tx] # None
            /\ new.at \in {"claim", "recover"}
  PROVE  Owned'
<1>1. Types /\ Types'
  BY DEF Owned, Types
<1>2. \A q \in Process : proc'[q] = IF q = p THEN new ELSE proc[q]
  BY <1>1 DEF Types
<1>3. \A t \in Tx : Planned(t)' /\ Recorded(t)'
  BY Undisturbed
<1>4. ASSUME NEW q \in Process, q # p PROVE Holds(q)' /\ Owner(q)' /\ Reporter(q)'
  <2>1. Holds(q) /\ proc'[q] = proc[q]
    BY <1>2, <1>4 DEF Owned
  <2>2. CASE proc[q].at = "idle"
    BY <2>1, <2>2, Undisturbed DEF Holds
  <2>3. CASE proc[q].at # "idle"
    <3>1. proc[q].tx \in Tx /\ token[proc[q].tx] # None
      BY <2>1, <2>3 DEF Holds
    <3>2. \A r \in Process : proc'[r].tx = proc[q].tx =>
                               proc'[r] = proc[r] \/ proc'[r].at \in {"claim", "recover"}
      BY <1>2, <3>1, IdentityAssumption, IdleType
    <3> QED BY <2>1, <3>1, <3>2, Undisturbed
  <2> QED BY <2>2, <2>3
<1>5. Holds(p)' /\ Owner(p)' /\ Reporter(p)'
  <2>1. CASE new = Idle
    BY <1>2, <2>1, Undisturbed
  <2>2. CASE new # Idle
    BY <1>2, <2>2 DEF Holds, Owner, Reporter, Executing
  <2> QED BY <2>1, <2>2
<1> QED BY <1>1, <1>3, <1>4, <1>5 DEF Owned

LEMMA ExecuteOwned ==
  ASSUME Owned, NEW p \in Process, NEW t \in Tx, Execute(p, t)
  PROVE  Owned'
<1>1. PICK place \in {"claim", "recover"} :
        /\ proc' = [proc EXCEPT ![p] = [Idle EXCEPT !.at = place, !.tx = t]]
        /\ token[t] \in {"awaiting_confirmation", "executing"}
  BY DEF Execute
<1> DEFINE new == [Idle EXCEPT !.at = place, !.tx = t]
<1>2. new \in Call /\ new.at = place /\ new.tx = t
  BY DEF Idle, Call, Places
<1> HIDE DEF new
<1>3. proc' = [proc EXCEPT ![p] = new] /\ p \in deployment.processes
      /\ UNCHANGED <<deployment, catalog, plan, journal, last, token, stored, begun>>
  BY <1>1 DEF new, Execute
<1>4. token[t] # None
  BY <1>1, SentinelAssumption DEF TokenState
<1> QED BY <1>1, <1>2, <1>3, <1>4, LooksOwned

LEMMA CrashOwned ==
  ASSUME Owned, NEW p \in Process, Crash(p)
  PROVE  Owned'
BY LooksOwned, IdleType DEF Crash

\* A token that awaits its confirmation is nobody's, and goes to the one that claims it.
LEMMA ClaimOwned ==
  ASSUME Owned, NEW p \in Process, Claim(p)
  PROVE  Owned'
<1> DEFINE t == proc[p].tx
<1>1. Types /\ Holds(p) /\ proc[p].at = "claim" /\ p \in deployment.processes
      /\ t \in Tx /\ token[t] # None
      /\ UNCHANGED <<deployment, catalog, plan, journal, last, stored, begun>>
  BY DEF Claim, At, Owned, Holds
<1>2. CASE token' = token /\ proc' = [proc EXCEPT ![p] = Idle]
  BY <1>1, <1>2, LooksOwned, IdleType
<1>3. ASSUME token[t] = "awaiting_confirmation", NEW state \in {"executing", "expired"},
             token' = [token EXCEPT ![t] = state],
             NEW new \in Call, proc' = [proc EXCEPT ![p] = new],
             state = "expired" => new = Idle,
             state = "executing" => new.at = "refresh" /\ new.tx = t
      PROVE  Owned'
  <2>1. /\ token'[t] = state /\ \A u \in Tx \ {t} : token'[u] = token[u]
        /\ \A q \in Process : proc'[q] = IF q = p THEN new ELSE proc[q]
    BY <1>1, <1>3 DEF Types
  <2>2. Types'
    BY <1>1, <1>3 DEF Types, TokenState
  <2>3. Planned(t) /\ Recorded(t) /\ state # None
    BY <1>1, <1>3, SentinelAssumption DEF Owned, TokenState
  <2>4. ASSUME NEW u \in Tx PROVE Planned(u)' /\ Recorded(u)'
    <3>1. CASE u = t
      BY <1>1, <1>3, <2>1, <2>3, <3>1 DEF Planned, Recorded
    <3>2. CASE u # t
      BY <1>1, <2>1, <3>2, Undisturbed
    <3> QED BY <3>1, <3>2
  <2>5. \A q \in Process \ {p} : proc[q].tx = t => proc[q].at \in {"claim", "recover"}
    <3>1. ASSUME NEW q \in Process \ {p}, proc[q].tx = t
          PROVE  proc[q].at \in {"claim", "recover"}
      <4>1. Holds(q) /\ Owner(q) /\ Reporter(q) /\ proc[q] \in Call
        BY <1>1 DEF Owned, Types
      <4>2. ~Executing(q) /\ proc[q].at # "report"
        BY <1>1, <1>3, <3>1, <4>1 DEF Owner, Reporter
      <4>3. proc[q].at # "idle"
        BY <1>1, <3>1, <4>1, IdentityAssumption, IdleType DEF Holds
      <4> QED BY <4>1, <4>2, <4>3 DEF Executing, Call, Places, Early, Changing
    <3> QED BY <3>1
  <2>6. Holds(p)' /\ Owner(p)' /\ Reporter(p)'
    <3>1. CASE state = "expired"
      BY <1>1, <1>3, <2>1, <3>1, Undisturbed
    <3>2. CASE state = "executing"
      <4>1. \A q \in Process : proc'[q].tx = t => q = p \/ proc'[q].at \in {"claim", "recover"}
        BY <2>1, <2>5
      <4>2. journal[t] \notin Terminal /\ journal[t] # "running" /\ begun[t] = 0
        BY <1>3, <2>3 DEF Recorded
      <4>3. proc'[p] = new /\ new.at = "refresh" /\ new.tx = t /\ token'[t] = "executing"
        BY <1>3, <2>1, <3>2
      <4>4. Holds(p)' /\ Reporter(p)'
        BY <1>1, <2>3, <2>1, <4>3 DEF Holds, Reporter
      <4>5. Owner(p)'
        BY <1>1, <4>1, <4>2, <4>3 DEF Owner, Early, Changing
      <4> QED BY <4>4, <4>5
    <3> QED BY <1>3, <3>1, <3>2
  <2>7. ASSUME NEW q \in Process, q # p PROVE Holds(q)' /\ Owner(q)' /\ Reporter(q)'
    <3>1. Holds(q) /\ proc'[q] = proc[q]
      BY <2>1, <2>7 DEF Owned
    <3>2. CASE proc[q].at = "idle"
      BY <1>1, <3>1, <3>2, Undisturbed DEF Holds
    <3>3. CASE proc[q].at # "idle"
      <4>1. proc[q].tx \in Tx /\ token[proc[q].tx] # None
        BY <3>1, <3>3 DEF Holds
      <4>2. Holds(q)'
        BY <1>1, <2>1, <2>3, <3>1, <4>1, Undisturbed
      <4>3. CASE proc[q].tx = t
        BY <2>5, <2>7, <3>1, <4>2, <4>3 DEF Owner, Reporter, Executing
      <4>4. CASE proc[q].tx # t
        <5>1. \A r \in Process : proc'[r].tx = proc[q].tx => proc'[r] = proc[r]
          BY <1>3, <2>1, <4>1, <4>4, IdentityAssumption, IdleType
        <5> QED BY <1>1, <2>1, <3>1, <4>1, <4>2, <4>4, <5>1, Undisturbed
      <4> QED BY <4>3, <4>4
    <3> QED BY <3>2, <3>3
  <2> QED BY <2>2, <2>4, <2>6, <2>7 DEF Owned
<1>4. CASE /\ token[t] = "awaiting_confirmation" /\ Goto(p, "refresh")
           /\ token' = [token EXCEPT ![t] = "executing"]
  <2>1. "refresh" \in Places /\ proc \in [Process -> Call]
    BY <1>1 DEF Places, Early, Types
  <2>2. PICK new \in Call : /\ proc' = [proc EXCEPT ![p] = new]
                            /\ new.at = "refresh" /\ new.tx = t
    BY <1>4, <2>1, GoesTo
  <2> QED BY <1>3, <1>4, <2>2
<1>5. CASE /\ token[t] = "awaiting_confirmation" /\ proc' = [proc EXCEPT ![p] = Idle]
           /\ token' = [token EXCEPT ![t] = "expired"]
  BY <1>3, <1>5, IdleType
<1> QED BY <1>2, <1>4, <1>5 DEF Claim

\* Who finds a terminal journal finds a transaction that nobody executes any more.
LEMMA RecoverOwned ==
  ASSUME Owned, NEW p \in Process, Recover(p)
  PROVE  Owned'
<1> DEFINE t == proc[p].tx
<1>1. Types /\ Holds(p) /\ proc[p].at = "recover" /\ p \in deployment.processes
      /\ t \in Tx /\ token[t] # None /\ Recorded(t)
      /\ UNCHANGED <<deployment, catalog, plan, journal, last, token, stored, begun>>
  BY DEF Recover, At, Owned, Holds
<1>2. CASE proc' = [proc EXCEPT ![p] = Idle]
  BY <1>1, <1>2, LooksOwned, IdleType
<1>3. CASE journal[t] \in Terminal /\ Conclude(p, "report", journal[t])
  <2>1. "report" \in Places /\ proc \in [Process -> Call]
    BY <1>1 DEF Places, Types
  <2>2. PICK new \in Call : /\ proc' = [proc EXCEPT ![p] = new]
                            /\ new.at = "report" /\ new.tx = t /\ new.outcome = journal[t]
    BY <1>3, <2>1, Concludes
  <2>3. \A q \in Process : proc'[q] = IF q = p THEN new ELSE proc[q]
    BY <2>1, <2>2
  <2>4. Types'
    BY <1>1, <2>2 DEF Types
  <2>5. \A u \in Tx : Planned(u)' /\ Recorded(u)'
    BY <1>1, Undisturbed
  <2>6. token[t] \in {"executing", "terminal"}
    BY <1>1, <1>3 DEF Recorded
  <2>7. Holds(p)' /\ Owner(p)' /\ Reporter(p)'
    BY <1>1, <1>3, <2>2, <2>3, <2>6 DEF Holds, Owner, Reporter, Executing
  <2>8. ASSUME NEW q \in Process, q # p PROVE Holds(q)' /\ Owner(q)' /\ Reporter(q)'
    <3>1. Holds(q) /\ Owner(q) /\ Reporter(q) /\ proc'[q] = proc[q]
      BY <2>3, <2>8 DEF Owned
    <3>2. Holds(q)'
      BY <1>1, <3>1 DEF Holds
    <3>3. Reporter(q)'
      BY <1>1, <3>1 DEF Reporter
    <3>4. ASSUME Executing(q) PROVE proc[q].tx # t
      BY <1>3, <3>1, <3>4 DEF Owner
    <3>5. Owner(q)'
      BY <1>1, <2>2, <2>3, <3>1, <3>4 DEF Owner, Executing
    <3> QED BY <3>2, <3>3, <3>5
  <2> QED BY <2>4, <2>5, <2>7, <2>8 DEF Owned
<1> QED BY <1>1, <1>2, <1>3 DEF Recover

LEMMA ReportOwned ==
  ASSUME Owned, NEW p \in Process, Report(p)
  PROVE  Owned'
<1> DEFINE t == proc[p].tx
<1>1. Types /\ Holds(p) /\ Reporter(p) /\ proc[p].at = "report"
      /\ t \in Tx /\ token[t] # None /\ Recorded(t) /\ Planned(t)
      /\ proc' = [proc EXCEPT ![p] = Idle]
      /\ UNCHANGED <<deployment, catalog, plan, journal, last, begun>>
  BY DEF Report, At, Owned, Holds
<1>2. CASE UNCHANGED <<token, stored>>
  BY <1>1, <1>2, LooksOwned, IdleType
<1>3. CASE /\ token[t] = "executing" /\ token' = [token EXCEPT ![t] = "terminal"]
           /\ stored' = [stored EXCEPT ![t] = proc[p].outcome]
  <2>1. /\ token'[t] = "terminal" /\ stored'[t] = proc[p].outcome
        /\ \A u \in Tx \ {t} : token'[u] = token[u] /\ stored'[u] = stored[u]
        /\ \A q \in Process : proc'[q] = IF q = p THEN Idle ELSE proc[q]
    BY <1>1, <1>3 DEF Types
  <2>2. Types'
    BY <1>1, <1>3, IdleType DEF Types, TokenState, Reporter
  <2>3. ASSUME NEW u \in Tx PROVE Planned(u)' /\ Recorded(u)'
    <3>1. CASE u = t
      BY <1>1, <1>3, <2>1, <3>1, SentinelAssumption DEF Planned, Recorded, Reporter, TokenState
    <3>2. CASE u # t
      BY <1>1, <2>1, <3>2, Undisturbed
    <3> QED BY <3>1, <3>2
  <2>4. Holds(p)' /\ Owner(p)' /\ Reporter(p)'
    BY <1>1, <2>1, Undisturbed
  <2>5. ASSUME NEW q \in Process, q # p PROVE Holds(q)' /\ Owner(q)' /\ Reporter(q)'
    <3>1. Holds(q) /\ Owner(q) /\ Reporter(q) /\ proc'[q] = proc[q]
      BY <2>1, <2>5 DEF Owned
    <3>2. CASE proc[q].at = "idle"
      BY <1>1, <3>1, <3>2, Undisturbed DEF Holds
    <3>3. CASE proc[q].at # "idle"
      <4>1. proc[q].tx \in Tx /\ token[proc[q].tx] # None
        BY <3>1, <3>3 DEF Holds
      <4>2. "terminal" # None
        BY SentinelAssumption DEF TokenState
      <4>3. Holds(q)'
        BY <1>1, <2>1, <3>1, <4>1, <4>2, Undisturbed
      <4>4. CASE proc[q].tx = t
        <5>1. ~Executing(q)
          BY <1>1, <2>5, <3>1, <4>4 DEF Owner
        <5> QED BY <1>1, <2>1, <3>1, <4>3, <4>4, <5>1 DEF Owner, Reporter, Executing
      <4>5. CASE proc[q].tx # t
        <5>1. \A r \in Process : proc'[r].tx = proc[q].tx => proc'[r] = proc[r]
          BY <2>1, <4>1, IdentityAssumption, IdleType
        <5> QED BY <1>1, <2>1, <3>1, <4>1, <4>3, <4>5, <5>1, Undisturbed
      <4> QED BY <4>4, <4>5
    <3> QED BY <3>2, <3>3
  <2> QED BY <2>2, <2>3, <2>4, <2>5 DEF Owned
<1> QED BY <1>2, <1>3 DEF Report

LEMMA OwnedInit == Init => Owned
<1> SUFFICES ASSUME Init PROVE Owned
  OBVIOUS
<1>1. Types
  BY IdleType DEF Init, Types, Releases
<1>2. ASSUME NEW t \in Tx PROVE Planned(t) /\ Recorded(t)
  <2>1. token[t] = None /\ journal[t] = None /\ stored[t] = None /\ begun[t] = 0
    BY DEF Init
  <2>2. None \notin Terminal /\ None # "running" /\ None \notin {"executing", "terminal"}
    BY SentinelAssumption DEF TokenState
  <2> QED BY <2>1, <2>2 DEF Planned, Recorded
<1>3. \A p \in Process : Holds(p) /\ Owner(p) /\ Reporter(p)
  BY DEF Init, Holds, Owner, Reporter, Executing, Idle
<1> QED BY <1>1, <1>2, <1>3 DEF Owned

LEMMA OwnedStep == Owned /\ [Next]_vars => Owned'
<1> SUFFICES ASSUME Owned, [Next]_vars PROVE Owned'
  OBVIOUS
<1>1. CASE \E t \in Tx, x \in Plan : Issue(t, x)
  BY <1>1, IssueOwned
<1>2. CASE \E p \in Process, t \in Tx : Execute(p, t)
  BY <1>2, ExecuteOwned
<1>3. CASE \E p \in Process : Step(p) \/ Crash(p)
  BY <1>3, ClaimOwned, RecoverOwned, ReportOwned, TransactOwned, CrashOwned DEF Step
<1>4. CASE UNCHANGED vars
  BY <1>4 DEF vars, Owned, Types, Planned, Recorded, Holds, Owner, Reporter, Executing
<1> QED BY <1>1, <1>2, <1>3, <1>4 DEF Next

LEMMA AlwaysOwned == Spec => []Owned
BY OwnedInit, OwnedStep, PTL DEF Spec

\* Every variable holds a value of its kind.
THEOREM TypesStay == Spec => []TypeOK
<1>1. Owned => TypeOK
  <2> SUFFICES ASSUME Owned PROVE TypeOK
    OBVIOUS
  <2>1. ASSUME NEW p \in Process
        PROVE  /\ proc[p].tx \in Tx \cup {None} /\ proc[p].outcome \in Terminal \cup {None}
               /\ proc[p] = Idle \/ proc[p].at \in {"claim", "recover", "report"} \/ Executing(p)
    <3>1. proc[p] \in Call /\ Holds(p)
      BY DEF Owned, Types
    <3> QED BY <3>1 DEF Call, Places, Early, Changing, Holds, Executing
  <2> QED BY <2>1 DEF Owned, Types, TypeOK
<1> QED BY <1>1, AlwaysOwned, PTL

\* LifecyclePlanStore.claim and complete: however many processes race for a
\* token, retry it or find it after a crash, its plan is carried out at most once,
\* and it becomes terminal only when nobody executes it, with its journal's result.
THEOREM CarriedOutOnce == Spec => []ExecutedOnce
<1>1. Owned /\ TypeOK => ExecutedOnce
  BY DEF Owned, Recorded, Owner, ExecutedOnce
<1> QED BY <1>1, AlwaysOwned, TypesStay, PTL

\* PluginLifecycleTransaction.execute: whatever the processes do, the catalog
\* changes only under a transaction whose running journal is on disk.
THEOREM MutationFollowsJournal == Spec => MutationIsJournaled
<1>1. ASSUME Owned, [Next]_vars, catalog' # catalog
      PROVE  last' # None /\ journal[last'] = "running"
  <2>1. PICK p \in Process : Transact(p)
    BY <1>1, ZenonT(60) DEF Next, Issue, Execute, Step, Claim, Recover, Report, Crash, vars
  <2>2. TxStep(p) /\ Owner(p) /\ Holds(p)
    BY <1>1, <2>1 DEF Transact, Owned
  <2>3. last' = proc[p].tx /\ proc[p].at \in Changing
    BY <1>1, <2>2 DEF TxStep, Refresh, Record, Remove, CheckRemoved, Install, Verify, Close,
         Commit, UndoTarget, Restore, Confirm, Settle, Command, At, Changing
  <2> QED BY <2>2, <2>3, IdentityAssumption DEF Owner, Holds, Executing, Changing
<1>2. Owned /\ [Next]_vars =>
        [catalog' # catalog => last' # None /\ journal[last'] = "running"]_vars
  BY <1>1
<1> QED BY <1>2, AlwaysOwned, PTL DEF Spec, MutationIsJournaled

-----------------------------------------------------------------------------
(* What is installed at every point of a transaction *)

\* No two transactions are under way at once.  The code has no such lock across
\* tokens: it is up to the callers that share a catalog.
Exclusive == \A p, q \in Process : Executing(p) /\ Executing(q) => p = q

Only(some) == \A s \in Selector : Installed(s) => s \in some

\* What a process that executes a transaction may rely on.
Stage(p) ==
  LET at  == proc[p].at
      cur == Cur(p)
      tgt == Tgt(p)
  IN /\ at \in {"record", "remove"} =>
          Installed(cur) /\ (tgt # None => ~Installed(tgt))
     /\ at \in Changing \ {"remove"} => last = proc[p].tx
     /\ at \in {"install", "verify", "close"} => tgt # None
     /\ at = "install" => Only({})
     /\ at \in {"check_removed", "restore", "confirm"} => Only({cur})
     /\ at \in {"verify", "close", "commit"} => Only({tgt})
     /\ at \in {"close", "commit"} => (tgt # None => catalog[tgt] = "healthy")
     /\ at = "undo_target" => Only({cur, tgt})

\* The change was made, and the change was undone.
Made(x)   == ~Installed(x.current) /\ (x.target # None => catalog[x.target] = "healthy")
Undone(x) == catalog[x.current] = "healthy" /\ (x.target # None => ~Installed(x.target))

\* The journal, the token database or a process on its way there has this result.
Claims(t, status) ==
  \/ Says(t, status)
  \/ \E p \in Process : /\ proc[p].tx = t /\ proc[p].at \in {"settle", "report"}
                        /\ proc[p].outcome = status

Truth == last # None =>
  /\ token[last] # None
  /\ Claims(last, "completed") => Made(plan[last])
  /\ Claims(last, "rolled_back") => Undone(plan[last])

Sound == /\ OneRelease
         /\ \A p \in Process : Stage(p)
         /\ Truth

LEMMA Removes ==
  ASSUME Types, NEW s \in Selector, catalog' \in Removed(s) \cup Raising(Removed(s))
  PROVE  /\ \A u \in Selector \ {s} : catalog'[u] = catalog[u]
         /\ catalog'[s] \in {catalog[s], "absent"}
         /\ catalog' \in Removed(s) => catalog'[s] = "absent"
<1>1. catalog' = catalog \/ catalog' = [catalog EXCEPT ![s] = "absent"]
  BY DEF Removed, Raising, Put
<1>2. catalog' \in Removed(s) => catalog' = [catalog EXCEPT ![s] = "absent"]
  BY DEF Removed, Put
<1> QED BY <1>1, <1>2 DEF Types

LEMMA Adds ==
  ASSUME Types, NEW s \in Selector, catalog' \in Added(s) \cup Raising(Added(s))
  PROVE  \A u \in Selector \ {s} : catalog'[u] = catalog[u]
<1>1. catalog' = catalog \/ \E state : catalog' = [catalog EXCEPT ![s] = state]
  BY DEF Added, Raising, Put
<1> QED BY <1>1 DEF Types

\* Every step of a transaction that runs alone finds what it relies on, leaves
\* what the next one relies on, and keeps at most one release installed.
LEMMA StageStep ==
  ASSUME Owned, OneRelease, NEW p \in Process, Stage(p), TxStep(p)
  PROVE  OneRelease' /\ Stage(p)'
<1> USE DEF At
<1> DEFINE t == proc[p].tx
<1>1. Types /\ plan' = plan /\ Executing(p)
  BY TxMoves DEF Owned
<1>2. PICK new \in Call : proc' = [proc EXCEPT ![p] = new] /\ Moves(p, new)
  BY <1>1, TxMoves
<1>3. /\ proc'[p] = new
      /\ new = Idle \/ new.tx = t
      /\ t \in Tx /\ t # None /\ Planned(t)
  BY <1>1, <1>2, IdentityAssumption DEF Types, Moves, Owned, Holds, Executing
<1>4. /\ Cur(p) \in Selector /\ Tgt(p) \in Selector \cup {None} /\ Tgt(p) # Cur(p)
      /\ plan[t].current = Cur(p) /\ plan[t].target = Tgt(p)
      /\ None \notin Selector
  <2>1. plan[t] \in Plan /\ plan[t].target # plan[t].current
    BY <1>1, <1>3 DEF Owned, Owner, Planned, Executing, Holds
  <2> QED BY <2>1, IdentityAssumption DEF Cur, Tgt, Plan
<1>5. new.tx = t => Cur(p)' = Cur(p) /\ Tgt(p)' = Tgt(p) /\ proc'[p].tx = t
  BY <1>1, <1>3 DEF Cur, Tgt
<1>6. proc'[p].at = new.at
  BY <1>3
<1>7. \A place : Goto(p, place) => new.at = place /\ new.tx = t
  <2>1. ASSUME NEW place, Goto(p, place) PROVE new.at = place /\ new.tx = t
    <3>1. proc'[p] = [proc[p] EXCEPT !.at = place] /\ proc[p] \in Call
      BY <1>1, <2>1 DEF Goto, Types
    <3> QED BY <1>3, <3>1 DEF Call
  <2> QED BY <2>1
<1>8. \A place, status : Conclude(p, place, status) => new.at = place /\ new.tx = t
  <2>1. ASSUME NEW place, NEW status, Conclude(p, place, status)
        PROVE  new.at = place /\ new.tx = t
    <3>1. /\ proc'[p] = [proc[p] EXCEPT !.at = place, !.outcome = status]
          /\ proc[p] \in Call
      BY <1>1, <2>1 DEF Conclude, Types
    <3> QED BY <1>3, <3>1 DEF Call
  <2> QED BY <2>1
<1> HIDE DEF t
<1>9. CASE Refresh(p)
  <2>1. catalog' = catalog /\ new.at \in {"record", "settle", "idle"}
    BY <1>3, <1>7, <1>8, <1>9, <1>1, IdleType DEF Refresh, Types
  <2>2. OneRelease'
    BY <2>1 DEF OneRelease, Installed
  <2>3. new.at = "record" => new.tx = t /\ Installed(Cur(p)) /\ (Tgt(p) # None => ~Installed(Tgt(p)))
    <3>1. StillReady(p) => Installed(Cur(p)) /\ (Tgt(p) # None => ~Installed(Tgt(p)))
      BY DEF StillReady, PlanReady, ReplacementReady, Cur, Tgt
    <3>2. new.at = "record" => Goto(p, "record") /\ StillReady(p)
      BY <1>3, <1>8, <1>9, IdleType, <1>1 DEF Refresh, Types
    <3> QED BY <1>7, <3>1, <3>2
  <2> QED BY <1>5, <1>6, <2>1, <2>2, <2>3 DEF Stage, Installed, Changing
<1>10. CASE Record(p)
  <2>1. catalog' = catalog /\ new.at \in {"remove", "report"} /\ new.tx = t
    BY <1>7, <1>8, <1>10 DEF Record
  <2> QED BY <1>5, <1>6, <1>10, <2>1 DEF Record, Stage, Installed, Changing, OneRelease
<1>11. CASE Remove(p)
  <2>1. new.at = "check_removed" /\ new.tx = t /\ last' = t
    BY <1>7, <1>11 DEF Remove, Command, t
  <2>2. /\ \A u \in Selector \ {Cur(p)} : catalog'[u] = catalog[u]
        /\ catalog'[Cur(p)] \in {catalog[Cur(p)], "absent"}
    BY <1>1, <1>4, <1>11, Removes DEF Remove, Command
  <2>3. Installed(Cur(p))
    BY <1>11 DEF Remove, Stage
  <2> QED BY <1>4, <1>5, <1>6, <2>1, <2>2, <2>3 DEF Stage, Installed, OneRelease, Only, Changing
<1>12. CASE CheckRemoved(p)
  <2>1. catalog' = catalog /\ last' = last /\ new.tx = t /\ last = t /\ Only({Cur(p)})
    BY <1>7, <1>12 DEF CheckRemoved, Stage, Changing, t
  <2>2. \/ new.at = "undo_target"
        \/ new.at = "commit" /\ Tgt(p) = None /\ ~Installed(Cur(p))
        \/ new.at = "install" /\ Tgt(p) # None /\ ~Installed(Cur(p))
    BY <1>7, <1>12 DEF CheckRemoved
  <2>3. OneRelease'
    BY <2>1 DEF OneRelease, Installed
  <2> QED BY <1>5, <1>6, <2>1, <2>2, <2>3 DEF Stage, Installed, Only, Changing
<1>13. CASE Install(p)
  <2>1. new.at = "verify" /\ new.tx = t /\ last' = t /\ Tgt(p) # None /\ Only({})
    BY <1>7, <1>13 DEF Install, Command, Stage, t
  <2>2. \A u \in Selector \ {Tgt(p)} : catalog'[u] = catalog[u]
    BY <1>1, <1>4, <1>13, <2>1, Adds DEF Install, Command
  <2> QED BY <1>4, <1>5, <1>6, <2>1, <2>2 DEF Stage, Installed, OneRelease, Only, Changing
<1>14. CASE Verify(p)
  <2>1. /\ catalog' = catalog /\ last' = last /\ new.tx = t /\ last = t
        /\ Only({Tgt(p)}) /\ Tgt(p) # None
    BY <1>7, <1>14 DEF Verify, Stage, Changing, t
  <2>2. new.at = "undo_target" \/ (new.at = "close" /\ catalog[Tgt(p)] = "healthy")
    BY <1>7, <1>14 DEF Verify
  <2> QED BY <1>5, <1>6, <2>1, <2>2 DEF Stage, Installed, Only, OneRelease, Changing
<1>15. CASE Close(p)
  <2>1. /\ catalog' = catalog /\ last' = last /\ new.tx = t /\ last = t
        /\ Only({Tgt(p)}) /\ Tgt(p) # None /\ catalog[Tgt(p)] = "healthy"
    BY <1>7, <1>15 DEF Close, Stage, Changing, t
  <2>2. new.at \in {"undo_target", "commit"}
    BY <1>7, <1>15 DEF Close
  <2> QED BY <1>5, <1>6, <2>1, <2>2 DEF Stage, Installed, Only, OneRelease, Changing
<1>16. CASE Commit(p)
  <2>1. /\ catalog' = catalog /\ last' = last /\ new.tx = t /\ last = t /\ Only({Tgt(p)})
    BY <1>7, <1>8, <1>16 DEF Commit, Stage, Changing, t
  <2>2. new.at \in {"undo_target", "report"}
    BY <1>7, <1>8, <1>16 DEF Commit
  <2> QED BY <1>5, <1>6, <2>1, <2>2 DEF Stage, Installed, Only, OneRelease, Changing
<1>17. CASE UndoTarget(p)
  <2>1. /\ last = t /\ last' \in {last, t} /\ new.tx = t /\ new.at \in {"restore", "settle"}
        /\ Only({Cur(p), Tgt(p)})
    BY <1>7, <1>8, <1>17 DEF UndoTarget, Stage, Changing, Command, t
  <2>2. CASE catalog' = catalog
    <3>1. new.at = "restore" => Tgt(p) = None \/ ~Installed(Tgt(p))
      <4>1. ASSUME Tgt(p) \in Selector, Command(p, Removed(Tgt(p)))
            PROVE  catalog'[Tgt(p)] = "absent"
        <5>1. catalog' \in Removed(Tgt(p))
          BY <4>1 DEF Command
        <5> QED BY <1>1, <4>1, <5>1, Removes
      <4> QED BY <1>4, <1>8, <1>17, <2>2, <4>1 DEF UndoTarget, Installed
    <3> QED BY <1>4, <1>5, <1>6, <2>1, <2>2, <3>1 DEF Stage, Installed, Only, OneRelease, Changing
  <2>3. CASE catalog' # catalog
    <3>1. /\ Tgt(p) \in Selector
          /\ catalog' \in Removed(Tgt(p)) \cup Raising(Removed(Tgt(p)))
          /\ new.at = "restore" => catalog' \in Removed(Tgt(p))
      BY <1>4, <1>8, <1>17, <2>3 DEF UndoTarget, Command
    <3>2. /\ \A u \in Selector \ {Tgt(p)} : catalog'[u] = catalog[u]
          /\ catalog'[Tgt(p)] \in {catalog[Tgt(p)], "absent"}
          /\ new.at = "restore" => catalog'[Tgt(p)] = "absent"
      BY <1>1, <3>1, Removes
    <3> QED BY <1>5, <1>6, <2>1, <3>1, <3>2 DEF Stage, Installed, Only, OneRelease, Changing
  <2> QED BY <2>2, <2>3
<1>18. CASE Restore(p)
  <2>1. /\ last = t /\ last' \in {last, t} /\ new.tx = t /\ new.at \in {"confirm", "settle"}
        /\ Only({Cur(p)})
    BY <1>7, <1>8, <1>18 DEF Restore, Stage, Changing, Command, t
  <2>2. \A u \in Selector \ {Cur(p)} : catalog'[u] = catalog[u]
    <3>1. catalog' = catalog \/ catalog' \in Added(Cur(p)) \cup Raising(Added(Cur(p)))
      BY <1>18 DEF Restore, Command
    <3> QED BY <1>1, <1>4, <3>1, Adds
  <2> QED BY <1>4, <1>5, <1>6, <2>1, <2>2 DEF Stage, Installed, Only, OneRelease, Changing
<1>19. CASE Confirm(p) \/ Settle(p)
  <2>1. catalog' = catalog /\ new.at \in {"settle", "report"} /\ new.tx = t
    BY <1>7, <1>8, <1>19 DEF Confirm, Settle
  <2> QED BY <1>6, <2>1 DEF Stage, Installed, OneRelease, Changing
<1> QED BY <1>9, <1>10, <1>11, <1>12, <1>13, <1>14, <1>15, <1>16, <1>17, <1>18, <1>19 DEF TxStep

\* A process that sends no command comes to a result it already had, or to one
\* that its place in the transaction bears out.
LEMMA Verdict ==
  ASSUME Owned, NEW p \in Process, Stage(p), TxStep(p), UNCHANGED <<catalog, last>>,
         NEW status \in {"completed", "rolled_back"},
         \/ journal'[proc[p].tx] = status
         \/ proc'[p].at \in {"settle", "report"} /\ proc'[p].outcome = status
  PROVE  \/ Claims(proc[p].tx, status)
         \/ status = "completed" /\ Made(plan[proc[p].tx])
         \/ status = "rolled_back" /\ Undone(plan[proc[p].tx])
<1> DEFINE t == proc[p].tx
<1>1. /\ Types /\ Executing(p) /\ t \in Tx /\ Planned(t) /\ Owner(p)
      /\ proc[p] \in Call /\ journal \in [Tx -> Terminal \cup {"running", None}]
  BY TxMoves DEF Owned, Types, Holds, Executing
<1>2. /\ Cur(p) \in Selector /\ Tgt(p) \in Selector \cup {None} /\ Tgt(p) # Cur(p)
      /\ plan[t].current = Cur(p) /\ plan[t].target = Tgt(p)
      /\ None \notin Selector
  <2>1. plan[t] \in Plan /\ plan[t].target # plan[t].current
    BY <1>1, SentinelAssumption DEF Owner, Planned, TokenState
  <2> QED BY <2>1, IdentityAssumption DEF Cur, Tgt, Plan
<1>3. journal[t] \notin Terminal /\ status \in Terminal /\ status # "running"
  BY <1>1 DEF Owner, Terminal
<1>4. ASSUME NEW place, Goto(p, place)
      PROVE  proc'[p].at = place /\ proc'[p].outcome = proc[p].outcome
  <2>1. proc'[p] = [proc[p] EXCEPT !.at = place]
    BY <1>1, <1>4 DEF Goto, Types
  <2> QED BY <1>1, <2>1 DEF Call
<1>5. ASSUME NEW place, NEW said, Conclude(p, place, said)
      PROVE  proc'[p].at = place /\ proc'[p].outcome = said
  <2>1. proc'[p] = [proc[p] EXCEPT !.at = place, !.outcome = said]
    BY <1>1, <1>5 DEF Conclude, Types
  <2> QED BY <1>1, <2>1 DEF Call
<1>6. ASSUME NEW said, Journaled(p, said) PROVE journal'[t] = said
  BY <1>1, <1>6 DEF Journaled
<1>7. CASE Commit(p)
  <2>1. CASE Journaled(p, "completed") /\ Conclude(p, "report", "completed")
    <3>1. status = "completed"
      BY <1>5, <1>6, <2>1
    <3>2. Only({Tgt(p)}) /\ (Tgt(p) # None => catalog[Tgt(p)] = "healthy")
      BY <1>7 DEF Commit, At, Stage
    <3> QED BY <1>2, <3>1, <3>2 DEF Made, Only
  <2>2. CASE Goto(p, "undo_target") /\ journal' = journal
    BY <1>3, <1>4, <2>2
  <2> QED BY <1>7, <2>1, <2>2 DEF Commit
<1>8. CASE Confirm(p)
  <2>1. journal' = journal
    BY <1>8 DEF Confirm
  <2>2. CASE catalog[Cur(p)] = "healthy" /\ Conclude(p, "settle", "rolled_back")
    <3>1. status = "rolled_back"
      BY <1>3, <1>5, <2>1, <2>2
    <3>2. Only({Cur(p)})
      BY <1>8 DEF Confirm, At, Stage
    <3> QED BY <1>2, <2>2, <3>1, <3>2 DEF Undone, Only
  <2>3. CASE Conclude(p, "settle", "failed")
    BY <1>3, <1>5, <2>1, <2>3
  <2> QED BY <1>8, <2>2, <2>3 DEF Confirm
<1>9. CASE Settle(p)
  <2>1. proc[p].outcome = status
    BY <1>3, <1>4, <1>6, <1>9 DEF Settle
  <2> QED BY <1>9, <2>1 DEF Settle, At, Claims
<1>10. CASE Refresh(p)
  <2>1. CASE Goto(p, "record")
    BY <1>3, <1>4, <1>10, <2>1 DEF Refresh
  <2>2. CASE Conclude(p, "settle", "rejected")
    BY <1>3, <1>5, <1>10, <2>2 DEF Refresh
  <2>3. CASE proc' = [proc EXCEPT ![p] = Idle]
    <3>1. proc'[p].at = "idle"
      BY <1>1, <2>3, IdleType DEF Types
    <3> QED BY <1>3, <1>10, <3>1 DEF Refresh
  <2> QED BY <1>10, <2>1, <2>2, <2>3 DEF Refresh
<1>11. CASE Record(p)
  BY <1>3, <1>4, <1>5, <1>6, <1>11 DEF Record
<1>12. CASE Remove(p) \/ CheckRemoved(p) \/ Install(p) \/ Verify(p) \/ Close(p)
  <2>1. journal' = journal /\ \E place \in Changing : Goto(p, place)
    BY <1>12 DEF Remove, CheckRemoved, Install, Verify, Close, Changing
  <2> QED BY <1>3, <1>4, <2>1 DEF Changing
<1>13. CASE UndoTarget(p) \/ Restore(p)
  <2>1. /\ journal' = journal
        /\ Goto(p, "restore") \/ Goto(p, "confirm") \/ Conclude(p, "settle", "failed")
    BY <1>13 DEF UndoTarget, Restore
  <2> QED BY <1>3, <1>4, <1>5, <2>1
<1> QED BY <1>7, <1>8, <1>9, <1>10, <1>11, <1>12, <1>13 DEF TxStep

\* A command is sent while the journal is running, by a process that then goes on
\* or has failed: nobody says yet how the transaction ends.
LEMMA NothingSaid ==
  ASSUME Owned, NEW p \in Process, Transact(p), ~UNCHANGED <<catalog, last>>
  PROVE  /\ last' = proc[p].tx /\ last' \in Tx /\ token'[last'] # None
         /\ \A status \in {"completed", "rolled_back"} : ~Claims(last, status)'
<1> DEFINE t == proc[p].tx
<1>1. /\ Types /\ TxStep(p) /\ UNCHANGED <<token, stored>> /\ Executing(p) /\ t \in Tx
      /\ Owner(p) /\ Recorded(t) /\ proc[p] \in Call
  <2>1. Types /\ TxStep(p) /\ UNCHANGED <<token, stored>> /\ Executing(p)
    BY TxMoves DEF Transact, Owned
  <2> QED BY <2>1 DEF Owned, Types, Holds, Executing
<1>2. /\ last' = t /\ journal' = journal /\ proc[p].at \in Changing
      /\ \/ \E place \in Changing : Goto(p, place)
         \/ Conclude(p, "settle", "failed")
  BY <1>1 DEF TxStep, Refresh, Record, Remove, CheckRemoved, Install, Verify, Close,
       Commit, UndoTarget, Restore, Confirm, Settle, Command, At, Changing
<1>3. journal[t] = "running" /\ token[t] = "executing" /\ stored[t] = None
  BY <1>1, <1>2 DEF Owner, Recorded
<1>4. None \notin {"completed", "rolled_back", "executing"}
  BY SentinelAssumption DEF Terminal, TokenState
<1>5. proc'[p].at \in Changing \/ proc'[p].outcome = "failed"
  <2>1. ASSUME NEW place \in Changing, Goto(p, place) PROVE proc'[p].at = place
    <3>1. proc'[p] = [proc[p] EXCEPT !.at = place]
      BY <1>1, <2>1 DEF Goto, Types
    <3> QED BY <1>1, <3>1 DEF Call
  <2>2. ASSUME Conclude(p, "settle", "failed") PROVE proc'[p].outcome = "failed"
    <3>1. proc'[p] = [proc[p] EXCEPT !.at = "settle", !.outcome = "failed"]
      BY <1>1, <2>2 DEF Conclude, Types
    <3> QED BY <1>1, <3>1 DEF Call
  <2> QED BY <1>2, <2>1, <2>2
<1>6. \A q \in Process \ {p} : proc'[q] = proc[q]
  BY <1>1, <1>2 DEF Types, Goto, Conclude
<1>7. \A q \in Process \ {p} : proc'[q].tx = t => proc'[q].at \in {"claim", "recover"}
  BY <1>1, <1>6 DEF Owner
<1>8. last' = t /\ proc'[p].tx = t
  <2>1. \/ \E place : proc'[p] = [proc[p] EXCEPT !.at = place]
        \/ proc'[p] = [proc[p] EXCEPT !.at = "settle", !.outcome = "failed"]
    BY <1>1, <1>2 DEF Goto, Conclude, Types
  <2> QED BY <1>1, <1>2, <2>1 DEF Call
<1>9. ASSUME NEW status \in {"completed", "rolled_back"} PROVE ~Claims(last, status)'
  <2>1. journal'[t] # status /\ stored'[t] # status
    BY <1>1, <1>2, <1>3, <1>4
  <2>2. ASSUME NEW q \in Process, proc'[q].tx = t, proc'[q].at \in {"settle", "report"}
        PROVE  proc'[q].outcome # status
    BY <1>5, <1>7, <2>2 DEF Changing
  <2> QED BY <1>8, <2>1, <2>2 DEF Claims, Says
<1>10. token'[last'] # None
  BY <1>1, <1>3, <1>4, <1>8
<1> QED BY <1>1, <1>2, <1>9, <1>10

\* A result that was true stays true as long as no command is sent, and a new one
\* has to be true.
LEMMA StaysTrue ==
  ASSUME Owned, Truth, UNCHANGED <<catalog, last>>,
         last # None => token'[last] # None /\ plan'[last] = plan[last],
         \A status \in {"completed", "rolled_back"} :
           last # None /\ Claims(last, status)' =>
             \/ Claims(last, status)
             \/ status = "completed" /\ Made(plan[last])
             \/ status = "rolled_back" /\ Undone(plan[last])
  PROVE  Truth'
<1> SUFFICES ASSUME last' # None PROVE Truth'
  BY DEF Truth
<1>1. last' = last /\ (Made(plan[last]) => Made(plan[last])')
      /\ (Undone(plan[last]) => Undone(plan[last])')
  BY DEF Made, Undone, Installed
<1> QED BY <1>1 DEF Truth

LEMMA Claimants ==
  ASSUME Types, NEW p \in Process, NEW new \in Call, proc' = [proc EXCEPT ![p] = new],
         last' = last, NEW status, Claims(last, status)'
  PROVE  \/ journal'[last] = status \/ stored'[last] = status
         \/ Claims(last, status)
         \/ new.tx = last /\ new.at \in {"settle", "report"} /\ new.outcome = status
<1>1. \A q \in Process : proc'[q] = IF q = p THEN new ELSE proc[q]
  BY DEF Types
<1> QED BY <1>1 DEF Claims, Says

\* A transaction that runs alone.
LEMMA SoundTransact ==
  ASSUME Owned, Sound, Exclusive, NEW p \in Process, Transact(p)
  PROVE  Sound'
<1>1. Types /\ TxStep(p) /\ Executing(p) /\ UNCHANGED <<plan, token, stored>>
  BY TxMoves DEF Transact, Owned
<1>2. OneRelease' /\ Stage(p)'
  BY <1>1, StageStep DEF Sound
<1>3. PICK new \in Call : proc' = [proc EXCEPT ![p] = new] /\ Moves(p, new)
  BY <1>1, TxMoves
<1>4. ASSUME NEW q \in Process, q # p PROVE Stage(q)'
  <2>1. ~Executing(q) /\ proc'[q] = proc[q]
    BY <1>1, <1>3, <1>4 DEF Exclusive, Types
  <2> QED BY <2>1 DEF Stage, Executing, Changing
<1>5. Truth'
  <2>1. CASE ~UNCHANGED <<catalog, last>>
    BY <2>1, NothingSaid DEF Truth
  <2>2. CASE UNCHANGED <<catalog, last>>
    <3>1. ASSUME NEW status \in {"completed", "rolled_back"}, last # None,
                 Claims(last, status)'
          PROVE  \/ Claims(last, status)
                 \/ status = "completed" /\ Made(plan[last])
                 \/ status = "rolled_back" /\ Undone(plan[last])
      <4>1. CASE last = proc[p].tx
        <5>1. CASE Claims(last, status)
          BY <5>1
        <5>2. CASE stored'[last] = status
          BY <1>1, <5>2 DEF Claims, Says
        <5>3. CASE journal'[last] = status
          BY <1>1, <2>2, <4>1, <5>3, Verdict DEF Sound
        <5>4. CASE new.at \in {"settle", "report"} /\ new.outcome = status
          <6>1. proc'[p] = new
            BY <1>1, <1>3 DEF Types
          <6> QED BY <1>1, <2>2, <4>1, <5>4, <6>1, Verdict DEF Sound
        <5> QED BY <1>1, <1>3, <2>2, <3>1, <5>1, <5>2, <5>3, <5>4, Claimants
      <4>2. CASE last # proc[p].tx
        <5>1. last \in Tx /\ journal'[last] = journal[last] /\ stored'[last] = stored[last]
          BY <1>1, <1>3, <3>1, <4>2 DEF Types, Moves
        <5>2. new.tx # last
          BY <1>3, <3>1, <4>2, IdleType DEF Moves
        <5> QED BY <1>1, <1>3, <2>2, <3>1, <5>1, <5>2, Claimants DEF Claims, Says
      <4> QED BY <4>1, <4>2
    <3> QED BY <1>1, <2>2, <3>1, StaysTrue DEF Sound, Truth
  <2> QED BY <2>1, <2>2
<1> QED BY <1>2, <1>4, <1>5 DEF Sound

\* Whoever else comes or goes sends no command, and reports what was said before.
LEMMA SoundOther ==
  ASSUME Owned, Sound, NEW p \in Process, NEW new \in Call,
         proc' = [proc EXCEPT ![p] = new], UNCHANGED <<catalog, plan, journal, last>>,
         new.at \notin {"record"} \cup Changing,
         \A t \in Tx : token[t] # None => token'[t] # None,
         \A status \in {"completed", "rolled_back"} :
           /\ new.at \in {"settle", "report"} /\ new.outcome = status
                => Claims(new.tx, status)
           /\ \A t \in Tx : stored'[t] = status => Claims(t, status)
  PROVE  Sound'
<1>1. Types /\ OneRelease'
  BY DEF Owned, Sound, OneRelease, Installed
<1>2. ASSUME NEW q \in Process PROVE Stage(q)'
  <2>1. proc'[q] = IF q = p THEN new ELSE proc[q]
    BY <1>1 DEF Types
  <2>2. CASE q = p
    BY <2>1, <2>2 DEF Stage, Changing
  <2>3. CASE q # p
    BY <2>1, <2>3 DEF Sound, Stage, Cur, Tgt, Only, Installed
  <2> QED BY <2>2, <2>3
<1>3. Truth'
  <2>1. last # None => last \in Tx
    BY <1>1 DEF Types
  <2>2. ASSUME NEW status \in {"completed", "rolled_back"}, last # None, Claims(last, status)'
        PROVE  Claims(last, status)
    <3>1. journal'[last] = status => Claims(last, status)
      BY DEF Claims, Says
    <3> QED BY <1>1, <2>1, <2>2, <3>1, Claimants
  <2> QED BY <2>1, <2>2, StaysTrue DEF Sound, Truth
<1> QED BY <1>1, <1>2, <1>3 DEF Sound

\* Issuing a plan touches no plan that was issued before.
LEMMA SoundIssue ==
  ASSUME Owned, Sound, NEW t \in Tx, NEW x \in Plan, Issue(t, x)
  PROVE  Sound'
<1>1. /\ Types /\ token[t] = None
      /\ UNCHANGED <<deployment, catalog, journal, proc, last, stored, begun>>
      /\ \A u \in Tx \ {t} : token'[u] = token[u] /\ plan'[u] = plan[u]
  BY DEF Issue, Issued, Owned, Types
<1>2. OneRelease'
  BY <1>1 DEF Sound, OneRelease, Installed
<1>3. ASSUME NEW p \in Process PROVE Stage(p)'
  <2>1. CASE proc[p].at = "idle"
    BY <1>1, <2>1 DEF Stage, Changing
  <2>2. CASE proc[p].at # "idle"
    <3>1. proc[p].tx \in Tx \ {t}
      BY <1>1, <2>2 DEF Owned, Holds
    <3> QED BY <1>1, <3>1 DEF Sound, Stage, Cur, Tgt, Only, Installed
  <2> QED BY <2>1, <2>2
<1>4. Truth'
  <2>1. last # None => last \in Tx \ {t}
    BY <1>1 DEF Sound, Truth, Types
  <2>2. \A status : last # None /\ Claims(last, status)' => Claims(last, status)
    BY <1>1 DEF Claims, Says
  <2> QED BY <1>1, <2>1, <2>2, StaysTrue DEF Sound, Truth
<1> QED BY <1>2, <1>3, <1>4 DEF Sound

LEMMA SoundStep == Owned /\ Sound /\ Exclusive /\ [Next]_vars => Sound'
<1> SUFFICES ASSUME Owned, Sound, Exclusive, [Next]_vars PROVE Sound'
  OBVIOUS
<1>1. Types
  BY DEF Owned
<1>2. CASE \E t \in Tx, x \in Plan : Issue(t, x)
  BY <1>2, SoundIssue
<1>3. ASSUME NEW p \in Process, NEW t \in Tx, Execute(p, t) PROVE Sound'
  <2>1. PICK place \in {"claim", "recover"} :
          proc' = [proc EXCEPT ![p] = [Idle EXCEPT !.at = place, !.tx = t]]
    BY <1>3 DEF Execute
  <2> DEFINE new == [Idle EXCEPT !.at = place, !.tx = t]
  <2>2. new \in Call /\ new.at = place
    BY DEF Idle, Call, Places
  <2>3. proc' = [proc EXCEPT ![p] = new]
    BY <2>1
  <2> HIDE DEF new
  <2>4. UNCHANGED <<catalog, plan, journal, last, token, stored>>
    BY <1>3 DEF Execute
  <2>5. \A t2 \in Tx : \A status : stored'[t2] = status => Claims(t2, status)
    BY <2>4 DEF Claims, Says
  <2> QED BY <2>2, <2>3, <2>4, <2>5, SoundOther DEF Changing
<1>4. ASSUME NEW p \in Process, Claim(p) PROVE Sound'
  <2>1. /\ UNCHANGED <<catalog, plan, journal, last, stored>>
        /\ proc' = [proc EXCEPT ![p] = Idle] \/ Goto(p, "refresh")
        /\ \A t \in Tx : token[t] # None => token'[t] # None
    BY <1>1, <1>4, SentinelAssumption DEF Claim, Types, TokenState
  <2>2. PICK new \in Call : proc' = [proc EXCEPT ![p] = new] /\ new.at \in {"idle", "refresh"}
    <3>1. "refresh" \in Places
      BY DEF Places, Early
    <3> QED BY <1>1, <2>1, <3>1, IdleType, GoesTo DEF Types
  <2>3. \A t \in Tx : \A status : stored'[t] = status => Claims(t, status)
    BY <2>1 DEF Claims, Says
  <2> QED BY <2>1, <2>2, <2>3, SoundOther DEF Changing
<1>5. ASSUME NEW p \in Process, Recover(p) PROVE Sound'
  <2>1. UNCHANGED <<catalog, plan, journal, last, token, stored>>
    BY <1>5 DEF Recover
  <2>2. PICK new \in Call : /\ proc' = [proc EXCEPT ![p] = new]
                            /\ \/ new = Idle
                               \/ /\ new.at = "report" /\ new.tx = proc[p].tx
                                  /\ new.outcome = journal[proc[p].tx]
    <3>1. "report" \in Places
      BY DEF Places
    <3> QED BY <1>1, <1>5, <3>1, IdleType, Concludes DEF Types, Recover
  <2>3. \A t \in Tx : \A status : stored'[t] = status => Claims(t, status)
    BY <2>1 DEF Claims, Says
  <2> QED BY <2>1, <2>2, <2>3, IdleType, SoundOther DEF Changing, Claims, Says
<1>6. ASSUME NEW p \in Process, Report(p) PROVE Sound'
  <2>1. /\ UNCHANGED <<catalog, plan, journal, last>> /\ proc' = [proc EXCEPT ![p] = Idle]
        /\ proc[p].at = "report"
        /\ \/ UNCHANGED <<token, stored>>
           \/ /\ token' = [token EXCEPT ![proc[p].tx] = "terminal"]
              /\ stored' = [stored EXCEPT ![proc[p].tx] = proc[p].outcome]
    BY <1>6 DEF Report, At
  <2>2. \A t \in Tx : token[t] # None => token'[t] # None
    BY <1>1, <2>1, SentinelAssumption DEF Types, TokenState
  <2>3. \A t \in Tx : \A status : stored'[t] = status => Claims(t, status)
    BY <1>1, <2>1 DEF Types, Claims, Says
  <2> QED BY <2>1, <2>2, <2>3, IdleType, SoundOther DEF Changing
<1>7. ASSUME NEW p \in Process, Crash(p) PROVE Sound'
  <2>1. UNCHANGED <<catalog, plan, journal, last, token, stored>>
        /\ proc' = [proc EXCEPT ![p] = Idle]
    BY <1>7 DEF Crash
  <2>2. \A t \in Tx : \A status : stored'[t] = status => Claims(t, status)
    BY <2>1 DEF Claims, Says
  <2> QED BY <2>1, <2>2, IdleType, SoundOther DEF Changing
<1>8. CASE UNCHANGED vars
  BY <1>8 DEF vars, Sound, OneRelease, Installed, Stage, Cur, Tgt, Only, Truth, Claims, Says,
              Made, Undone
<1> QED BY <1>2, <1>3, <1>4, <1>5, <1>6, <1>7, <1>8, SoundTransact DEF Next, Step

LEMMA SoundInit == Init => Sound
<1> SUFFICES ASSUME Init PROVE Sound
  OBVIOUS
<1>1. PICK s \in Selector : catalog = [x \in Selector |-> IF x = s THEN "healthy" ELSE "absent"]
  BY DEF Init
<1>2. OneRelease
  BY <1>1 DEF OneRelease, Installed
<1>3. \A p \in Process : Stage(p)
  BY DEF Init, Idle, Stage, Changing
<1> QED BY <1>2, <1>3 DEF Init, Sound, Truth

LEMMA AlwaysSound == Spec /\ []Exclusive => []Sound
BY AlwaysOwned, SoundInit, SoundStep, PTL DEF Spec

\* _remove, _install_and_verify and _compensate: as long as one transaction runs
\* at a time, no failure and no crash leaves two releases installed.
THEOREM OneReleaseStays == Spec /\ []Exclusive => []OneRelease
<1>1. Sound => OneRelease
  BY DEF Sound
<1> QED BY <1>1, AlwaysSound, PTL

\* LifecycleResult: as long as one transaction runs at a time, what a token and a
\* journal report is true of the catalog until the next transaction touches it.
THEOREM ReportsAreTrue == Spec /\ []Exclusive => []ResultIsTrue
<1>1. Sound => ResultIsTrue
  BY DEF Sound, Truth, Claims, Made, Undone, ResultIsTrue
<1> QED BY <1>1, AlwaysSound, PTL

\* One process, or one token
OneByOne(d) ==
  \/ \A p, q \in d.processes : p = q
  \/ \A t, u \in d.tokens : t = u

\* There transactions run one at a time by themselves, since a token has one owner
\* (claim): one release stays, and what is reported of it is true.
THEOREM OneByOneIsSafe ==
  ASSUME \A d \in Deployments : OneByOne(d)
  PROVE  Spec => [](OneRelease /\ ResultIsTrue)
<1>1. Owned => Exclusive
  <2> SUFFICES ASSUME Owned, NEW p \in Process, NEW q \in Process, Executing(p), Executing(q)
               PROVE  p = q
    BY DEF Exclusive
  <2>1. /\ p \in deployment.processes /\ proc[p].tx \in Tx /\ Planned(proc[p].tx)
        /\ q \in deployment.processes /\ proc[q].tx \in Tx /\ Planned(proc[q].tx)
        /\ token[proc[p].tx] # None /\ token[proc[q].tx] # None
    BY DEF Owned, Holds, Executing
  <2>2. OneByOne(deployment)
    BY DEF Owned, Types
  <2>3. p = q \/ proc[p].tx = proc[q].tx
    BY <2>1, <2>2 DEF OneByOne, Planned
  <2> QED BY <2>3 DEF Owned, Owner, Executing
<1>2. Sound => OneRelease /\ ResultIsTrue
  BY DEF Sound, Truth, Claims, Made, Undone, ResultIsTrue
<1> QED BY <1>1, <1>2, AlwaysOwned, AlwaysSound, PTL
=============================================================================
