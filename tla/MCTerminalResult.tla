--------------------------- MODULE MCTerminalResult ---------------------------
(* Two WorkItems: one is reviewed by three atoms, the other decided by the      *)
(* plugin itself; or the first and one of a kind the Check does not declare.    *)
EXTENDS TerminalResult

\* Answers with every verdict, some of them not well-formed, without the support
\* they need, or citing what the task has not issued.
RawDimension ==
  {[kind |-> "dimension", dimension |-> "d1", verdict |-> v, applies |-> a,
    refs |-> refs, unknown |-> v = "unresolved", findings |-> fs] :
     v \in {"satisfied", "violated", "unresolved", "not_applicable"},
     a \in {"applicable", "not_applicable"}, refs \in {{}, {"e1"}},
     fs \in {{}, {[title |-> "t", refs |-> {"e1"}, dims |-> {}]}}}
RawCandidate ==
  {[kind |-> "candidate", disposition |-> v, refs |-> refs, finding |-> f,
    merged |-> FALSE, unknown |-> FALSE, escalation |-> e] :
     v \in {"confirmed", "suppressed", "needs_review"}, refs \in {{}, {"x"}}, e \in BOOLEAN,
     f \in {None, [title |-> "t", refs |-> {"e1"}, dims |-> {"d2"}]}}
RawRelationship ==
  {[kind |-> "relationship", verdict |-> v, applies |-> "applicable", refs |-> refs,
    unknown |-> FALSE] : v \in {"confirmed", "rejected"}, refs \in {{}, {"e1"}}}
MCRawValue ==
  RawDimension \cup RawCandidate \cup RawRelationship \cup [kind : {"unknown", "escalation"}]

\* Finding states alone, and the pairs that matter together.
MCFindings ==
  {[d1 |-> a, d2 |-> "satisfied"] : a \in {"satisfied", "conflicted", "blocked"}}
    \cup {[d1 |-> "violated", d2 |-> b] : b \in {"satisfied", "violated", "unresolved"}}

MCDiscoverable == {{"i", "j"}, {"i", "k"}}

MCKindOf      == [a1 |-> "dimension", a2 |-> "candidate", a3 |-> "relationship"]
MCDimensionOf == [a1 |-> "d1", a2 |-> "d2", a3 |-> "d2"]
MCEvidenceOf  == [d1 |-> {"e1"}, d2 |-> {"e2"}]
=============================================================================
