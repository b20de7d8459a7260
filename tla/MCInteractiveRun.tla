-------------------------- MODULE MCInteractiveRun --------------------------
EXTENDS InteractiveRun, TLC
CONSTANTS i1, i2, clean, issue, k1, o1

MCOutcomeOf == clean :> "no_issue" @@ issue :> "issue_found"

WorkItems == Permutations(WorkItem)
=============================================================================
