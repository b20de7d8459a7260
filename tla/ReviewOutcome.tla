--------------------------- MODULE ReviewOutcome ---------------------------
(***************************************************************************)
(* What the incremental review promises about a Run, with no ledger,      *)
(* submission identity or revision in sight: every planned atom ends with  *)
(* at most one standing decision, a batch is decided whole or not at all,   *)
(* a blocked batch stays undecided, and a finished review is frozen with a  *)
(* status that tells the truth about its coverage.                          *)
(***************************************************************************)

CONSTANTS Atom,      \* review atoms of the frozen plan
          Batch,     \* batches of the frozen plan
          BatchOf,   \* the batch every atom belongs to
          Value,     \* what may be decided about an atom
          None       \* no decision / review still active

VARIABLES decided,   \* the standing decision about every atom, or None
          blocked,   \* the batches closed without a decision
          result     \* terminal status of the review, or None

vars == <<decided, blocked, result>>

AtomsIn(b) == {a \in Atom : BatchOf[a] = b}

Undecided(b) == \A a \in AtomsIn(b) : decided[a] = None
Decided(b)   == \A a \in AtomsIn(b) : decided[a] # None

Init == /\ decided = [a \in Atom |-> None]
        /\ blocked = {}
        /\ result = None

\* Decide a batch, or replace its decision: all of its atoms and no other.
Decide(b) ==
  /\ result = None
  /\ b \notin blocked
  /\ \E choice \in [AtomsIn(b) -> Value] :
       decided' = [a \in Atom |-> IF BatchOf[a] = b THEN choice[a] ELSE decided[a]]
  /\ UNCHANGED <<blocked, result>>

\* Give up on a batch nobody has decided.
GiveUp(b) ==
  /\ result = None
  /\ Undecided(b)
  /\ blocked' = blocked \cup {b}
  /\ UNCHANGED <<decided, result>>

\* "completed" claims everything is decided, "partial" that every batch is
\* decided or given up, "failed" claims nothing.
Finish(s) ==
  /\ result = None
  /\ s = "completed" => \A b \in Batch : Decided(b)
  /\ s = "partial"   => \A b \in Batch : b \in blocked \/ Decided(b)
  /\ result' = s
  /\ UNCHANGED <<decided, blocked>>

Next == \/ \E b \in Batch : Decide(b) \/ GiveUp(b)
        \/ \E s \in {"completed", "partial", "failed"} : Finish(s)

Spec == Init /\ [][Next]_vars
=============================================================================
