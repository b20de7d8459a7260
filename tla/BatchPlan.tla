------------------------------ MODULE BatchPlan ------------------------------
(***************************************************************************)
(* How CoverageLedger.plan cuts the atoms of a Run into batches: one pass in    *)
(* their order, each atom joining the batch being filled if both hard limits    *)
(* allow it, the number of atoms and the bytes of the payload.  Atoms may carry  *)
(* one context, often the same; a payload has each context once.  A plan is       *)
(* given by the positions at which its batches start.                         *)
(*                                                                         *)
(* Bytes are weights that add up; JSON's punctuation counts with what it       *)
(* separates.                                                               *)
(***************************************************************************)
EXTENDS Naturals, Sequences

CONSTANTS ContextBytes,  \* the weight of each context
          NoContext,     \* of an atom without one
          Inputs         \* atoms and limits that plan is called with

Context == DOMAIN ContextBytes
PlanAtom == [bytes : Nat \ {0}, context : Context \cup {NoContext}]

\* _catalog_atom_contexts: equal contexts are one entry of the catalog, and a
\* payload that starts with the atom at lo has the entry from the first atom on
\* that refers to it.
BringsContext(atoms, lo, i) ==
  /\ atoms[i].context # NoContext
  /\ \A k \in lo .. i - 1 : atoms[k].context # atoms[i].context

\* What each atom adds to a payload that starts with the one at lo.
Added(atoms, lo) ==
  [i \in 1 .. Len(atoms) |->
     IF i < lo THEN 0
     ELSE atoms[i].bytes
          + IF BringsContext(atoms, lo, i) THEN ContextBytes[atoms[i].context] ELSE 0]

Total(weights, n) ==
  LET sum[i \in 0 .. n] == IF i = 0 THEN 0 ELSE sum[i - 1] + weights[i] IN sum[n]

\* _batch_payload_size of the atoms at some consecutive positions
PayloadSize(atoms, lo, hi) == Total(Added(atoms, lo), hi)

\* plan refuses limits below one.
ASSUME InputAssumption ==
  \A in \in Inputs : /\ in.atoms \in Seq(PlanAtom) /\ in.atoms # <<>>
                     /\ in.maxItems \in Nat \ {0} /\ in.maxBytes \in Nat

ASSUME ContextAssumption == \A c \in Context : ContextBytes[c] \in Nat

\* Neither limit is exceeded.
Fits(in, lo, hi) ==
  /\ hi - lo < in.maxItems
  /\ PayloadSize(in.atoms, lo, hi) <= in.maxBytes

VARIABLES input,   \* the atoms and the limits
          next,    \* the atom at which the loop is
          starts,  \* where the batches made so far start
          refused  \* REVIEW_ATOM_TOO_LARGE

planVars == <<input, next, starts, refused>>

PlanInit ==
  /\ input \in Inputs
  /\ next = 1
  /\ starts = <<>>
  /\ refused = FALSE

More == ~refused /\ next <= Len(input.atoms)

\* An atom that does not fit alone ends the planning, and nothing is kept.
Refuse ==
  /\ More
  /\ PayloadSize(input.atoms, next, next) > input.maxBytes
  /\ refused' = TRUE
  /\ UNCHANGED <<input, next, starts>>

\* Mutant: the batch is measured without the atom that is to join it.
HadRoomFor(i) == starts # <<>> /\ Fits(input, starts[Len(starts)], i - 1)

\* The batch that is being filled can take the atom at i.
HasRoomFor(i) == starts # <<>> /\ Fits(input, starts[Len(starts)], i)

Turn ==
  /\ More
  /\ PayloadSize(input.atoms, next, next) <= input.maxBytes
  /\ next' = next + 1
  /\ UNCHANGED <<input, refused>>

\* It joins the batch ...
Join ==
  /\ Turn
  /\ HasRoomFor(next)
  /\ UNCHANGED starts

\* ... or starts the next one.
Open ==
  /\ Turn
  /\ ~HasRoomFor(next)
  /\ starts' = Append(starts, next)

PlanNext == Refuse \/ Join \/ Open

PlanSpec == PlanInit /\ [][PlanNext]_planVars

Done == ~refused /\ next > Len(input.atoms)

-----------------------------------------------------------------------------
\* Where the k-th batch of a plan for n atoms ends.
EndOf(s, k, n) == IF k = Len(s) THEN n ELSE s[k + 1] - 1

\* A plan for n atoms that the loader accepts (__post_init__): every atom is in one
\* batch, in order, and no batch is empty or exceeds a limit.
Acceptable(in, s, n) ==
  /\ s[1] = 1
  /\ \A k \in DOMAIN s : s[k] <= EndOf(s, k, n) /\ Fits(in, s[k], EndOf(s, k, n))

\* Sequences of positions that might be a plan.
Cuts(n) == UNION {[1 .. m -> 1 .. n] : m \in 1 .. n}

\* Whatever the atoms, the contexts they share and the limits, the loader accepts the
\* plan that the pass arrives at, no plan it would accept has fewer batches,
\* and the pass is given up only if there is no such plan at all.
PlansAreBest ==
  LET n == Len(input.atoms)
      accepted == {s \in Cuts(n) : Acceptable(input, s, n)}
  IN  /\ refused => accepted = {}
      /\ Done => /\ starts \in accepted
                 /\ \A s \in accepted : Len(starts) <= Len(s)
=============================================================================
