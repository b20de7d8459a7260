-------------------------- MODULE MCLifecycleProduct --------------------------
EXTENDS LifecycleProduct
CONSTANTS p1, p2, t1, t2

Deployed(processes, tokens, may_fail) ==
  [processes |-> processes, tokens |-> tokens, faults |-> may_fail]

\* One process with two tokens and two processes with one token, with every fault;
\* and processes that live and can write the token table.
MCDeployments ==
  {Deployed({p1}, {t1, t2}, Fault), Deployed({p1, p2}, {t1}, Fault),
   Deployed({p1, p2}, {t1}, Fault \ {"probe", "tokens", "crash"})}
=============================================================================
