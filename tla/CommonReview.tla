----------------------------- MODULE CommonReview -----------------------------
(***************************************************************************)
(* The common review language (common_review.py) and the binding of one task *)
(* (review_binding.py): which answers of an Agent become verdicts.  Texts are  *)
(* left out where only their presence is checked and every answer has them;    *)
(* optional parts are flags.                                                   *)
(***************************************************************************)
EXTENDS Absence

CONSTANTS Ref,       \* Evidence handles an Agent may write down
          Issued,    \* the handles its task has
          Dimension,
          Atom,      \* the items of a task ...
          KindOf,    \* ... and their kinds
          Title     \* contents of findings: title, message, recommendation

AtomKinds     == {"dimension", "candidate", "relationship"}
Applicability == {"applicable", "not_applicable", "unknown"}
Dispositions  == {"confirmed", "suppressed", "merged", "needs_review"}
DimensionVerdicts ==
  {"satisfied", "violated", "unresolved", "blocked", "conflicted", "not_applicable"}
RelationshipVerdicts == {"confirmed", "rejected", "unknown", "not_applicable"}

Finding == [title : Title, refs : SUBSET Ref, dims : SUBSET Dimension]

Dimensions ==
  [kind : {"dimension"}, dimension : Dimension, verdict : DimensionVerdicts,
   applies : Applicability, refs : SUBSET Ref, unknown : BOOLEAN,
   findings : SUBSET Finding]
Candidates ==
  [kind : {"candidate"}, disposition : Dispositions, refs : SUBSET Ref,
   finding : Finding \cup {None}, merged : BOOLEAN, unknown : BOOLEAN,
   escalation : BOOLEAN]
Relationships ==
  [kind : {"relationship"}, verdict : RelationshipVerdicts,
   applies : Applicability, refs : SUBSET Ref, unknown : BOOLEAN]

\* What an Agent can answer for an item, whatever its kind.
Value == Dimensions \cup Candidates \cup Relationships
           \cup [kind : {"unknown", "escalation"}]

ASSUME ReviewAssumption ==
  /\ Issued \subseteq Ref
  /\ KindOf \in [Atom -> AtomKinds]
  /\ None \notin Finding

-----------------------------------------------------------------------------
Supported(f) == f.refs # {}

WellFormedDimension(v) ==
  /\ (v.verdict = "not_applicable") <=> (v.applies = "not_applicable")
  /\ (v.verdict = "unresolved") <=> v.unknown
  /\ v.findings # {} => v.verdict \in {"violated", "conflicted"}
  /\ \A f \in v.findings : Supported(f) /\ (f.dims = {} \/ v.dimension \in f.dims)
  /\ v.verdict \in {"satisfied", "violated", "conflicted"} => v.refs # {}

WellFormedCandidate(v) ==
  /\ (v.disposition = "confirmed") <=> (v.finding # None)
  /\ v.finding # None => Supported(v.finding)
  /\ (v.disposition = "merged") <=> v.merged
  /\ IF v.disposition = "needs_review" THEN v.unknown # v.escalation
                                       ELSE ~v.unknown /\ ~v.escalation

WellFormedRelationship(v) ==
  /\ (v.verdict = "not_applicable") <=> (v.applies = "not_applicable")
  /\ (v.verdict = "unknown") <=> v.unknown
  /\ v.verdict \in {"confirmed", "rejected"} => v.refs # {}

\* _parse_review_value: what is not well-formed does not become a value.
WellFormed(v) ==
  CASE v.kind = "dimension"    -> WellFormedDimension(v)
    [] v.kind = "candidate"    -> WellFormedCandidate(v)
    [] v.kind = "relationship" -> WellFormedRelationship(v)
    [] OTHER                   -> TRUE

FindingsIn(v) ==
  CASE v.kind = "dimension" -> v.findings
    [] v.kind = "candidate" -> {v.finding} \ {None}
    [] OTHER                -> {}

CitedBy(v) ==
  UNION {f.refs : f \in FindingsIn(v)}
    \cup (IF v.kind \in AtomKinds THEN v.refs ELSE {})

\* A submission decides every item of the task once, cites only Evidence of the
\* task, and says of each item what its kind allows.  Which dimension a verdict
\* names is not compared with the item's.
Accepted(answers) ==
  /\ DOMAIN answers = Atom
  /\ \A a \in Atom :
       /\ WellFormed(answers[a])
       /\ CitedBy(answers[a]) \subseteq Issued
       /\ answers[a].kind \in {KindOf[a], "unknown", "escalation"}
=============================================================================
