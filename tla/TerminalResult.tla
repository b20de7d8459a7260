---------------------------- MODULE TerminalResult ----------------------------
(***************************************************************************)
(* From a Run's records to what its readers get: the Agent's answers, the      *)
(* decisions a plugin proposes from them, and, when the Run ends, the          *)
(* canonical result and the audit report, two projections of one ledger that    *)
(* are made before it is saved.                                                *)
(*                                                                         *)
(* A decision always has its receipt here and recovery is always safe           *)
(* (InteractiveRun and KernelRun are about those, and about saves that fail).    *)
(* Texts, timings, locations and the other files are left out.                   *)
(***************************************************************************)
EXTENDS CommonReview, Naturals, FiniteSets

CONSTANTS Item,        \* WorkItems
          Discoverable, \* what discovery may find
          Skipped,     \* items of kinds the Check does not declare
          Reviewed,    \* those whose decisions carry a common review
          DimensionOf, \* the dimension an atom is about
          RawValue,    \* answers the Agent may send
          EvidenceOf,  \* Evidence of a dimension in a packet
          Cited,       \* the Evidence record a plugin's claims cite
          Findings     \* what a plugin that is not told by atoms may find

FindingState == {"satisfied", "violated", "unresolved", "blocked", "conflicted"}
Result == {"issue_found", "scanned_no_issue", "not_applicable", "needs_review", "noise"}
Negative == {"violated", "conflicted"}
Open     == {"unresolved", "blocked", "conflicted"}
Terminal == {"completed", "partial", "failed"}

ASSUME ResultAssumption ==
  /\ Skipped \subseteq Item /\ Reviewed \subseteq Item
  /\ Discoverable \subseteq SUBSET Item
  /\ \A items \in Discoverable : IsFiniteSet(items)
  /\ DimensionOf \in [Atom -> Dimension]
  /\ RawValue \subseteq Value
  /\ EvidenceOf \in [Dimension -> SUBSET Issued] /\ Cited \in Issued
  /\ Findings \subseteq [Dimension -> FindingState]

VARIABLES run,       \* the Run and its ledger
          published  \* the canonical result and the report, once it has ended

vars == <<run, published>>

Decided(r) == {i \in Item : r.decisions[i] # None}

-----------------------------------------------------------------------------
(* Decisions *)

\* validate_decision_semantics, on proposal and again on conformance.
Gate(result, findings) ==
  LET states == {findings[d] : d \in Dimension}
  IN  /\ result = "scanned_no_issue" => states = {"satisfied"}
      /\ result = "issue_found" => "violated" \in states
      /\ result = "needs_review" => states \cap Open # {}

ActionableOf(findings) == {d \in Dimension : findings[d] \in Negative}

\* build_actionable_result: the envelope made of the dimensions that a plugin
\* has confirmed findings for, and of the findings its other dimensions refer to.
Deliver(findings, confirmed, linked) ==
  LET subjects == confirmed \cap ActionableOf(findings)
      dims(d)  == {d} \cup {l \in ActionableOf(findings) : d \in linked[l]}
      covered  == UNION {dims(d) : d \in subjects}
  IN [status       |-> IF covered = ActionableOf(findings) THEN "complete" ELSE "partial",
      remediations |-> {[id |-> d, dims |-> dims(d), claims |-> {d},
                         refs |-> UNION {EvidenceOf[x] : x \in dims(d)}] : d \in subjects},
      claims       |-> {[id |-> d, refs |-> {Cited}] : d \in subjects}]

\* validate_result_delivery and validate_evidence_claims.
ValidDelivery(v, result, findings) ==
  /\ \A c \in v.claims : c.refs # {} /\ c.refs \subseteq Issued
  /\ \A m \in v.remediations :
       /\ m.dims # {} /\ m.dims \subseteq ActionableOf(findings)
       /\ m.refs # {} /\ m.refs \subseteq Issued
       /\ \A k \in m.claims : \E c \in v.claims : c.id = k /\ c.refs \subseteq m.refs
  /\ v.status = "complete" =>
       /\ UNION {m.dims : m \in v.remediations} = ActionableOf(findings)
       /\ result = "issue_found" => v.remediations # {}

\* extract_result_delivery_bundle raises for a delivery that is not valid.
Extractable(d) ==
  d.delivery # None => ValidDelivery(d.delivery, d.result, d.findings)

\* A plugin's delivery for its findings: none, one built by the helper, or that
\* one claimed to be complete.
Deliveries(findings) ==
  LET built == {Deliver(findings, confirmed, linked) :
                  confirmed \in SUBSET Dimension,
                  linked \in [Dimension -> SUBSET Dimension]}
  IN  {None} \cup built \cup {[v EXCEPT !.status = "complete"] : v \in built}

\* What a plugin that reviews by atoms finds of a dimension: what its atom was
\* answered, no problem where the dimension does not apply.  The plugins are not
\* part of the source; the kernel compares neither with the other.
FindingsFrom(answers) ==
  [d \in Dimension |->
     LET told == {a \in Atom : DimensionOf[a] = d /\ KindOf[a] = "dimension"}
         of(v) == IF v.kind # "dimension" THEN "unresolved"
                  ELSE IF v.verdict = "not_applicable" THEN "satisfied" ELSE v.verdict
     IN  IF told = {} THEN "satisfied" ELSE of(answers[CHOOSE a \in told : TRUE])]

Proposal(result, findings, common, delivery) ==
  [result |-> result, findings |-> findings, common |-> common, delivery |-> delivery]

-----------------------------------------------------------------------------
(* build_canonical_result *)

\* Mutant: only what has been inspected or has failed counts.
ApplicableSeen(r) == (r.items \ Skipped) \cap (r.packets \cup r.failures)

\* _applicable_ids; a Run of the present code always declares kinds.
Applicable(r) == r.items \ Skipped

Processed(r)   == (Decided(r) \cup r.failures) \cap Applicable(r)
Unprocessed(r) == Applicable(r) \ Processed(r)

\* inspect_result_conformance, for a Run whose decisions all have receipts.
Conforms(r) ==
  /\ Decided(r) \subseteq r.packets
  /\ \A i \in Decided(r) : Gate(r.decisions[i].result, r.decisions[i].findings)
  /\ r.status = "completed" => r.failures = {} /\ Decided(r) = r.packets

\* The decisions whose conclusions a terminal Run stands for.
Formal(r) == IF r.status = "failed" THEN {} ELSE Decided(r)

Unverified(r) ==
  IF r.status = "failed"
  THEN {[item |-> i, missing |-> "valid_terminal_conclusion"] : i \in Applicable(r)}
  ELSE {[item |-> i, missing |-> IF i \in r.packets THEN "authoritative_decision"
                                                    ELSE "investigation_packet"]
          : i \in Unprocessed(r)}

\* The deliveries the result takes remediations and claims from.
Delivered(r) ==
  {i \in Formal(r) : r.decisions[i].delivery # None}

\* Mutant: the worst statement does not decide.
ActionabilityOfAny(r) ==
  LET statuses == {IF r.decisions[i].delivery = None THEN "not_declared"
                   ELSE r.decisions[i].delivery.status : i \in Formal(r)}
  IN  IF "complete" \in statuses THEN "complete"
      ELSE IF "partial" \in statuses THEN "partial" ELSE "not_declared"

Actionability(r) ==
  LET statuses == {IF r.decisions[i].delivery = None THEN "not_declared"
                   ELSE r.decisions[i].delivery.status : i \in Formal(r)}
  IN  IF statuses = {} \/ "not_declared" \in statuses THEN "not_declared"
      ELSE IF "partial" \in statuses THEN "partial" ELSE "complete"

CanonicalRemediations(r) ==
  UNION {{[item |-> i, id |-> m.id, dims |-> m.dims, refs |-> m.refs,
           claims |-> {<<i, k>> : k \in m.claims}]
            : m \in r.decisions[i].delivery.remediations} : i \in Delivered(r)}

CanonicalClaims(r) ==
  UNION {{[id |-> <<i, c.id>>, refs |-> c.refs]
            : c \in r.decisions[i].delivery.claims} : i \in Delivered(r)}

CanonicalFindings(r) ==
  {[item |-> i, dim |-> d, status |-> r.decisions[i].findings[d], refs |-> EvidenceOf[d]]
     : i \in Formal(r), d \in Dimension}

NeedsReview(r) ==
  {[item |-> i, dims |-> {d \in Dimension : r.decisions[i].findings[d] \in Open}]
     : i \in {j \in Formal(r) : r.decisions[j].result = "needs_review"}}

Canonical(r) ==
  [status        |-> r.status,
   discovered    |-> Cardinality(r.items),
   processed     |-> Cardinality(Processed(r)),
   skipped       |-> Cardinality(r.items \ Applicable(r)),
   unprocessed   |-> Cardinality(Unprocessed(r)),
   complete      |-> r.status = "completed" /\ Unprocessed(r) = {},
   outcomes      |-> {[item |-> i, result |-> r.decisions[i].result] : i \in Formal(r)},
   findings      |-> CanonicalFindings(r),
   actionability |-> Actionability(r),
   remediations  |-> CanonicalRemediations(r),
   claims        |-> CanonicalClaims(r),
   needsReview   |-> NeedsReview(r),
   unverified    |-> Unverified(r),
   failures      |-> r.failures]
-----------------------------------------------------------------------------
(* render_audit_report *)

Row(i, kind, title, dims, refs) ==
  [item |-> i, kind |-> kind, title |-> title, dims |-> dims, refs |-> refs]

\* What a decision without a problem of its own says of a dimension.
Fallback(i, d) == Row(i, "dimension", d, {d}, {})

\* Negative dimensions the remediations leave out get a row of their own.
DeliveryRows(i, d) ==
  LET covered == UNION {m.dims : m \in d.delivery.remediations}
  IN  {Row(i, "remediation", m.id, m.dims, m.refs) : m \in d.delivery.remediations}
        \cup {Fallback(i, x) : x \in ActionableOf(d.findings) \ covered}

\* The findings of confirmed candidates and violated dimensions.
ConfirmedIn(v) ==
  IF \/ v.kind = "candidate" /\ v.disposition = "confirmed"
     \/ v.kind = "dimension" /\ v.verdict = "violated"
  THEN FindingsIn(v) ELSE {}

\* A finding with no dimensions given belongs to the one under review.
DimensionsOf(f, v) ==
  IF f.dims = {} /\ v.kind = "dimension" THEN {v.dimension} ELSE f.dims

\* record_primary: one row for findings of the same content.
PrimaryRows(i, common) ==
  LET stated == UNION {{<<common[a], f>> : f \in ConfirmedIn(common[a])} : a \in Atom}
  IN  {LET same == {p \in stated : p[2].title = t}
       IN  Row(i, "finding", t, UNION {DimensionsOf(p[2], p[1]) : p \in same},
               UNION {p[1].refs \cup p[2].refs : p \in same})
         : t \in {p[2].title : p \in stated}}

RelationshipRows(i, common) ==
  {Row(i, "relationship", a, {}, common[a].refs)
     : a \in {b \in Atom : /\ common[b].kind = "relationship"
                           /\ common[b].verdict = "rejected"}}

\* A violated dimension is a row only where no problem was stated; the reasons
\* of two atoms are taken to differ.
CommonRows(i, common) ==
  LET problems == PrimaryRows(i, common) \cup RelationshipRows(i, common)
  IN  IF problems # {} THEN problems
      ELSE {Row(i, "dimension", a, {common[a].dimension}, common[a].refs)
              : a \in {b \in Atom : /\ common[b].kind = "dimension"
                                    /\ common[b].verdict = "violated"}}

\* _issue_rows, for one decision.
DecisionRows(i, d) ==
  IF d.delivery # None /\ d.delivery.remediations # {} THEN DeliveryRows(i, d)
  ELSE IF d.common # None THEN CommonRows(i, d.common)
  ELSE IF d.result = "issue_found" THEN {Fallback(i, x) : x \in ActionableOf(d.findings)}
  ELSE {}

\* Mutant: what needs a human is no open matter.
IsPendingButEscalated(v) ==
  CASE v.kind = "candidate"    -> v.disposition = "needs_review"
    [] v.kind = "relationship" -> v.verdict = "unknown"
    [] v.kind = "dimension"    -> v.verdict \in Open
    [] OTHER                   -> v.kind = "unknown"

IsPending(v) ==
  CASE v.kind = "candidate"    -> v.disposition = "needs_review"
    [] v.kind = "relationship" -> v.verdict = "unknown"
    [] v.kind = "dimension"    -> v.verdict \in Open
    [] OTHER                   -> TRUE

\* _pending_rows, for one decision.
PendingRows(i, d) ==
  CASE d.common # None ->
         {[item |-> i, subject |-> a] : a \in {b \in Atom : IsPending(d.common[b])}}
    [] d.common = None /\ d.result = "needs_review" ->
         {[item |-> i, subject |-> x] : x \in {y \in Dimension : d.findings[y] \in Open}}
    [] OTHER -> {}

Issues(r)  == UNION {DecisionRows(i, r.decisions[i]) : i \in Formal(r)}
Pending(r) == UNION {PendingRows(i, r.decisions[i]) : i \in Formal(r)}

\* The report counts every WorkItem, whatever its kind.
Unchecked(r) == (r.items \ Decided(r)) \ r.failures

ReportComplete(r) == r.status = "completed" /\ Unchecked(r) = {} /\ r.failures = {}

Conclusion(r) ==
  LET results == {r.decisions[i].result : i \in Decided(r)}
  IN  IF r.status = "failed" THEN "no_valid_conclusion"
      ELSE IF ~ReportComplete(r) THEN "partial"
      ELSE IF Issues(r) # {} THEN "fail"
      ELSE IF Pending(r) # {} THEN "pending"
      ELSE IF results = {"not_applicable"} THEN "not_applicable" ELSE "pass"

Report(r) ==
  [conclusion |-> Conclusion(r), complete |-> ReportComplete(r), issues |-> Issues(r),
   pending |-> Pending(r), unchecked |-> Unchecked(r)]

-----------------------------------------------------------------------------
Init ==
  /\ \E items \in Discoverable :
       run = [status |-> "running", items |-> items, packets |-> {}, failures |-> {},
              decisions |-> [i \in Item |-> None]]
  /\ published = None

Running == run.status = "running"

Records(r) == run' = r /\ UNCHANGED published

\* Only items of a declared kind are inspected.
Inspect(i) ==
  /\ Running /\ i \in Applicable(run) \ run.packets
  /\ Records([run EXCEPT !.packets = @ \cup {i}, !.failures = @ \ {i}])

InspectionFails(i) ==
  /\ Running /\ i \in Applicable(run) \ run.failures
  /\ Records([run EXCEPT !.failures = @ \cup {i}])

\* The answers a task accepts; others raise and change nothing.
Acceptable ==
  {answers : answers \in {chosen \in [Atom -> RawValue] : Accepted(chosen)}}

\* A decision that passes the gate is committed.
Commit(i, result, findings, common, delivery) ==
  /\ Gate(result, findings)
  /\ Records([run EXCEPT !.decisions[i] = Proposal(result, findings, common, delivery)])

\* The plugin decides an inspected item, from what the Agent was asked about its
\* atoms or by itself.
Decide(i) ==
  /\ Running /\ i \in run.packets /\ run.decisions[i] = None
  /\ \E result \in Result :
       IF i \in Reviewed
       THEN \E answers \in Acceptable :
              Commit(i, result, FindingsFrom(answers), answers, None)
       ELSE \E findings \in Findings : \E delivery \in Deliveries(findings) :
              Commit(i, result, findings, None, delivery)

\* validate_finish, and the kernel's rule for a completed Run.
MayFinish(status) ==
  status = "completed" =>
    /\ run.failures = {}
    /\ Applicable(run) \subseteq run.packets
    /\ run.packets \subseteq Decided(run)

\* render_platform_artifacts makes every file before the first is written, and
\* raises for a Run that does not conform or a delivery that is not valid.
Renders(r) ==
  /\ Conforms(r)
  /\ \A i \in Formal(r) : Extractable(r.decisions[i])

Finish(status) ==
  /\ Running /\ MayFinish(status)
  /\ LET r == [run EXCEPT !.status = status]
     IN  /\ Renders(r)
         /\ run' = r
         /\ published' = [canonical |-> Canonical(r), report |-> Report(r)]

Next ==
  \/ \E i \in Item : Inspect(i) \/ InspectionFails(i) \/ Decide(i)
  \/ \E status \in Terminal : Finish(status)

Spec == Init /\ [][Next]_vars

-----------------------------------------------------------------------------
Finished == published # None

\* The canonical result of a Run that ended accounts for every WorkItem: it is
\* skipped, or has an outcome, a failure or an entry that says what is missing,
\* the counts add up, and a result that calls its coverage complete has an
\* outcome for every applicable item.  A failed Run concludes nothing, whatever
\* was decided before, and names every applicable item as unverified.
EveryItemAccounted ==
  Finished =>
    LET c == published.canonical
        outcome(i)    == \E o \in c.outcomes : o.item = i
        unverified(i) == \E u \in c.unverified : u.item = i
    IN  /\ c.discovered = c.processed + c.skipped + c.unprocessed
        /\ \A i \in run.items \ Skipped :
             /\ outcome(i) \/ unverified(i) \/ i \in c.failures
             /\ ~(outcome(i) /\ unverified(i))
             /\ c.complete => outcome(i) /\ i \notin c.failures
             /\ c.status = "failed" => unverified(i)
        /\ c.status = "failed" => c.outcomes = {} /\ c.findings = {} /\ c.remediations = {}
        /\ \A o \in c.outcomes : run.decisions[o.item].result = o.result

\* What a confirmed review value says against its subject.
Objects(v) ==
  \/ ConfirmedIn(v) # {}
  \/ IsPending(v)
  \/ v.kind \in {"dimension", "relationship"} /\ v.verdict \in {"violated", "rejected"}

\* The report a reader finds after a Run ended passes, or calls a Run not
\* applicable, only when every WorkItem was decided, no decision found an issue
\* or needs review, and nothing an Agent got accepted objects or is open; a Run
\* that did not complete concludes nothing of the kind, and no decision has two
\* rows for findings of one content.
NeverPassesSilently ==
  Finished =>
    LET p == published.report
    IN  /\ p.conclusion \in {"pass", "not_applicable"} =>
             /\ run.status = "completed" /\ p.unchecked = {}
             /\ published.canonical.complete /\ published.canonical.needsReview = {}
             /\ \A i \in run.items :
                  LET d == run.decisions[i]
                  IN  /\ d # None /\ d.result \notin {"issue_found", "needs_review"}
                      /\ d.common # None => \A a \in Atom : ~Objects(d.common[a])
        /\ \A x, y \in p.issues :
             (x.item = y.item /\ x.kind = "finding" /\ y.kind = "finding" /\ x.title = y.title)
               => x = y

\* Where the canonical result calls itself actionable, every violated or
\* conflicted dimension of every outcome has a remediation, each rests on
\* Evidence of the dimensions it is about, and what it claims is among the
\* published claims, which cite no more than it does; the report then has a row
\* for every such dimension.
CompleteIsActionable ==
  (Finished /\ published.canonical.actionability = "complete") =>
    LET c == published.canonical
    IN  /\ \A f \in c.findings : f.status \in Negative =>
             /\ \E m \in c.remediations : m.item = f.item /\ f.dim \in m.dims
             /\ \E x \in published.report.issues : x.item = f.item /\ f.dim \in x.dims
        /\ \A m \in c.remediations :
             /\ \A d \in m.dims : \E f \in c.findings :
                  f.item = m.item /\ f.dim = d /\ f.status \in Negative
             /\ m.refs \subseteq UNION {f.refs : f \in {g \in c.findings : g.item = m.item}}
             /\ \A k \in m.claims : \E q \in c.claims : q.id = k /\ q.refs \subseteq m.refs
=============================================================================
