------------------------ MODULE MCProviderExecution ------------------------
EXTENDS ProviderExecution, TLC

CONSTANTS p1, p2, c1, c2

\* Only p1 supplies both capabilities; c1 alone is ambiguous unless one is named.
MCDeclares == p1 :> {c1, c2} @@ p2 :> {c1}
MCConcurrency == p1 :> 2 @@ p2 :> 1

\* Checks that require one capability; c1 is ambiguous for them.
MCCheckRequires == {{c1}, {c2}}

\* c1 without a limit, c1 one call at a time, and c2: no Run is granted both.
MCProfiles == {[allows |-> {c1}, concurrency |-> 0],
               [allows |-> {c1}, concurrency |-> 1],
               [allows |-> {c2}, concurrency |-> 0]}
=============================================================================
