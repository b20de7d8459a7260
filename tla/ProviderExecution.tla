------------------------- MODULE ProviderExecution -------------------------
(***************************************************************************)
(* The provider of one Run: a registry of conforming providers, the          *)
(* negotiation of what every party allows, and BoundCapabilityProvider, which *)
(* any number of threads (the Kernel inspects in parallel) ask to discover     *)
(* sources and to collect facts, and which is closed once.  A provider call     *)
(* is made outside the lock, and a result is stored outside it too.            *)
(*                                                                         *)
(* Left out: a call refused before it changes anything, a hit in a cache seen   *)
(* before any lock is taken, byte budgets and durations as numbers, and the     *)
(* scope of a request, which is the Run's.  Nothing refuses a call after close.  *)
(***************************************************************************)
EXTENDS Absence, Naturals, Sequences, FiniteSets

CONSTANTS Callers,        \* threads that hold the bound provider
          Providers,      \* the providers in the registry
          Capabilities,
          Sources,
          Payloads,
          Profiles,       \* what a platform policy or a user may grant
          Declares,       \* the capabilities of a provider's descriptor
          Concurrency,    \* and its maxConcurrency
          CheckRequires,  \* provider capabilities a Check may require
          FailureCodes,   \* failures of the declared taxonomy
          MaxItems,       \* the negotiated item budget
          MaxVersions,    \* states a source may go through
          MaxCalls       \* bound on the calls made to the provider

Versions == 1 .. MaxVersions

\* The registry refuses anything else (provider conformance, _limits).
ASSUME RegistryAssumption ==
  /\ IsFiniteSet(Callers)
  /\ Concurrency \in [Providers -> Nat \ {0}]
  /\ Declares \in [Providers -> SUBSET Capabilities]
  /\ MaxVersions \in Nat \ {0}
  /\ CheckRequires \subseteq SUBSET Capabilities
  /\ None \notin Providers \cup Profiles \cup Callers \cup [Sources -> Versions]
  \* A profile's limit is 0 when the profile does not name it.
  /\ Profiles \subseteq [allows : SUBSET Capabilities, concurrency : Nat]

\* _request: the Run, the Check, the provider and the limits are fixed.
Requests == [capability : Capabilities, source : Sources, state : Versions]

\* ProviderFact; the payload is None if the fact is not one the request may have:
\* its kind is not declared, its source another, its payload not of the schema.
Facts == [state : Versions, payload : Payloads \cup {None}]

\* _digest of the request, the position and the fact.
\* Mutant: identified by the request and the position alone.
EvidenceIdOfPosition(q, i, f) == <<q, i>>
EvidenceId(q, i, f) == <<q, i, f>>

\* EvidenceRecord
IssuedRecord(q, i, f) == [id |-> EvidenceId(q, i, f), request |-> q, state |-> f.state,
                    payload |-> f.payload]

VARIABLES binding,     \* phase, and what was negotiated with whom
          lease,       \* the runtime lease of the latest bind
          closed,      \* _closed
          source,      \* the state each source is in
          discovered,  \* _source_discoveries
          sourceLock,  \* the holder of _source_lock
          handed,      \* the WorkItems discovery has handed out
          stored,      \* _results
          issued,      \* _issued_evidence
          returned,    \* the records of every result ever stored
          active,      \* _active
          calls,       \* calls made to the provider
          pc, request, pending, gathered, failure   \* of each thread

thread == <<pc, request, pending, gathered, failure>>
cache == <<discovered, sourceLock, handed>>
evidence == <<stored, issued, returned>>
providerVars == <<binding, lease, closed, source, cache, evidence, active, calls, thread>>

Unbound == [phase |-> "unbound", provider |-> None, granted |-> {}, limit |-> 0,
            platform |-> None, user |-> None]

ProviderInit ==
  /\ binding = Unbound
  /\ lease = "none"
  /\ closed = FALSE
  /\ source = [s \in Sources |-> 1]
  /\ discovered = [c \in Capabilities |-> None]
  /\ sourceLock = None
  /\ handed = {}
  /\ stored = [q \in Requests |-> None]
  /\ issued = {}
  /\ returned = {}
  /\ active = 0
  /\ calls = 0
  /\ pc = [t \in Callers |-> "idle"]
  /\ request = [t \in Callers |-> None]
  /\ pending = [t \in Callers |-> <<>>]
  /\ gathered = [t \in Callers |-> <<>>]
  /\ failure = [t \in Callers |-> None]

-----------------------------------------------------------------------------
(* Selection, negotiation and construction.                                  *)

\* select_for_capabilities, with or without a provider named.
Candidates(required, named) ==
  {p \in Providers : required \subseteq Declares[p] /\ named \in {None, p}}

\* CapabilityProfile(frozenset(required)), without limits.
JustEnough(required) == [allows |-> required, concurrency |-> 0]

\* negotiate: requested, declared, allowed by the platform and by the user.  (No
\* caller negotiates without a profile of the user.)
Granted(p, required, platform, user) ==
  required \cap Declares[p] \cap platform.allows \cap user.allows

\* _limits: the least of the limits that are named.
Narrower(a, b) == IF b = 0 \/ a <= b THEN a ELSE b
EffectiveLimit(p, platform, user) ==
  Narrower(Narrower(Concurrency[p], platform.concurrency), user.concurrency)

\* A bind that is refused before the provider exists: no provider or more than
\* one, or a blocked negotiation.  The lease it was given stays held.
BindRefused(required, named, platform, user) ==
  /\ \A p \in Candidates(required, named) :
       \/ Candidates(required, named) # {p}
       \/ Granted(p, required, platform, user) # required
  /\ binding' = [Unbound EXCEPT !.phase = "refused"]
  /\ lease' = "held"

\* A bind that constructs the provider, or fails to: the factory raised or made
\* something else than a provider.  A failure releases the lease.
BindConstructs(required, named, platform, user) ==
  \E p \in Candidates(required, named) :
    /\ Candidates(required, named) = {p}
    /\ Granted(p, required, platform, user) = required
    /\ \/ /\ binding' = [phase |-> "bound", provider |-> p, granted |-> required,
                         limit |-> EffectiveLimit(p, platform, user),
                         platform |-> platform, user |-> user]
          /\ lease' = "held"
       \/ /\ binding' = [Unbound EXCEPT !.phase = "failed"]
          /\ lease' = "released"

BindTo(required, named, platform, user) ==
  /\ binding.phase # "bound"
  /\ \/ BindRefused(required, named, platform, user)
     \/ BindConstructs(required, named, platform, user)
  /\ UNCHANGED <<closed, source, cache, evidence, active, calls, thread>>

\* bind_provider: one capability, profiles the Host gives or leaves to the
\* controller.  A Run that has a provider keeps it.
BindForController(c, named, platform, user) ==
  LET given(profile) == IF profile = None THEN JustEnough({c}) ELSE profile
  IN  BindTo({c}, named, given(platform), given(user))

\* bind_capability_provider: all the provider capabilities of a Check, which the
\* platform and the user grant.
BindForCheck(required) ==
  /\ required # {}
  /\ BindTo(required, None, JustEnough(required), JustEnough(required))

Bound == binding.phase = "bound"

\* The world: a source changes.
SourceChanges(s) ==
  /\ Bound
  /\ source[s] < MaxVersions
  /\ source' = [source EXCEPT ![s] = @ + 1]
  /\ UNCHANGED <<binding, lease, closed, cache, evidence, active, calls, thread>>

-----------------------------------------------------------------------------
(* discover_sources and discover_work_items.                                 *)

\* with self._source_lock.  Mutant: without it.
SourceLockIgnored == TRUE
SourceLockFree == sourceLock = None

\* A capability that is not discovered yet: the provider is asked under the lock.
Discover(t, c) ==
  /\ Bound /\ pc[t] = "idle" /\ SourceLockFree
  /\ c \in binding.granted /\ discovered[c] = None
  /\ pc' = [pc EXCEPT ![t] = "discovering"]
  /\ request' = [request EXCEPT ![t] = c]
  /\ sourceLock' = t
  /\ UNCHANGED <<binding, lease, closed, source, discovered, handed, evidence, active, calls,
                 pending, gathered, failure>>

\* The provider answers with a snapshot of every source, which is frozen and
\* turned into WorkItems, or it raises.
Discovered(t) ==
  /\ pc[t] = "discovering"
  /\ \/ LET c == request[t] IN
        /\ discovered' = [discovered EXCEPT ![c] = source]
        /\ handed' = handed \cup {[capability |-> c, source |-> s, state |-> source[s]] : s \in Sources}
     \/ UNCHANGED <<discovered, handed>>
  /\ sourceLock' = None
  /\ pc' = [pc EXCEPT ![t] = "idle"]
  /\ request' = [request EXCEPT ![t] = None]
  /\ UNCHANGED <<binding, lease, closed, source, evidence, active, calls, pending, gathered, failure>>

-----------------------------------------------------------------------------
(* collect, up to the answer of the provider.                                *)

\* A request for a WorkItem that was handed out; there was no result when the
\* thread looked, before it takes the lock.
Collect(t, q) ==
  /\ Bound /\ pc[t] = "idle"
  /\ q \in handed /\ q.capability \in binding.granted
  /\ stored[q] = None
  /\ pc' = [pc EXCEPT ![t] = "admitting"]
  /\ request' = [request EXCEPT ![t] = q]
  /\ UNCHANGED <<binding, lease, closed, source, cache, evidence, active, calls, pending,
                 gathered, failure>>

\* The second look, under the lock.  Mutant: no second look.
NeverReplays(q) == FALSE
Replays(q) == stored[q] # None

\* Mutant: one call too many.
HasRoomForOneMore == active <= binding.limit
HasRoom == active < binding.limit

\* Under the lock: the result another thread has stored, a refusal because the
\* provider is at its limit, or a call.
Admit(t) ==
  LET q == request[t] IN
  /\ pc[t] = "admitting"
  /\ \/ /\ Replays(q) \/ ~HasRoom
        /\ pc' = [pc EXCEPT ![t] = "idle"]
        /\ request' = [request EXCEPT ![t] = None]
        /\ UNCHANGED <<active, calls>>
     \/ /\ ~Replays(q) /\ HasRoom
        /\ calls < MaxCalls
        /\ pc' = [pc EXCEPT ![t] = "calling"]
        /\ active' = active + 1
        /\ calls' = calls + 1
        /\ UNCHANGED request
  /\ UNCHANGED <<binding, lease, closed, source, cache, evidence, pending, gathered, failure>>

\* The provider's call ends, whatever its answer: one call less is active.
Ends(t, next) ==
  /\ pc[t] = "calling"
  /\ active' = active - 1
  /\ pc' = [pc EXCEPT ![t] = next]
  /\ UNCHANGED <<binding, lease, closed, source, cache, evidence, calls>>

\* It raised, or answered outside its contract, for another request, or with a
\* failure it does not declare: nothing is kept.
Raises(t) ==
  /\ Ends(t, "idle")
  /\ request' = [request EXCEPT ![t] = None]
  /\ UNCHANGED <<pending, gathered, failure>>

\* It answered too late, failed, or returned more than the budget allows.
Fails(t, code) ==
  /\ Ends(t, "storing")
  /\ failure' = [failure EXCEPT ![t] = code]
  /\ UNCHANGED <<request, pending, gathered>>

\* It answered with facts about the source as it is now.
Answers(t, facts) ==
  /\ Ends(t, "issuing")
  /\ \A i \in DOMAIN facts : facts[i].state = source[request[t].source]
  /\ pending' = [pending EXCEPT ![t] = facts]
  /\ UNCHANGED <<request, gathered, failure>>

-----------------------------------------------------------------------------
(* _validate_response and the end of collect.                                *)

\* A fact is of the state of the source that the WorkItem was discovered with.
FactFits(q, f) == f.payload # None /\ f.state = q.state

Reset(t) ==
  /\ pc' = [pc EXCEPT ![t] = "idle"]
  /\ request' = [request EXCEPT ![t] = None]
  /\ pending' = [pending EXCEPT ![t] = <<>>]
  /\ gathered' = [gathered EXCEPT ![t] = <<>>]
  /\ failure' = [failure EXCEPT ![t] = None]

\* The next fact becomes a record under the lock ...
Issue(t) ==
  LET q == request[t]
      f == Head(pending[t])
      r == IssuedRecord(q, Len(gathered[t]), f)
  IN
  /\ pc[t] = "issuing" /\ pending[t] # <<>>
  /\ FactFits(q, f)
  /\ issued' = {o \in issued : o.id # r.id} \cup {r}
  /\ gathered' = [gathered EXCEPT ![t] = Append(@, r)]
  /\ pending' = [pending EXCEPT ![t] = Tail(@)]
  /\ UNCHANGED <<binding, lease, closed, source, cache, stored, returned, active, calls,
                 pc, request, failure>>

\* ... or refuses the answer; the records of the facts before it stay issued.
Reject(t) ==
  /\ pc[t] = "issuing" /\ pending[t] # <<>>
  /\ ~FactFits(request[t], Head(pending[t]))
  /\ Reset(t)
  /\ UNCHANGED <<binding, lease, closed, source, cache, evidence, active, calls>>

\* The result is stored, over whatever another thread has stored.
Store(t) ==
  /\ \/ pc[t] = "storing"
     \/ pc[t] = "issuing" /\ pending[t] = <<>>
  /\ stored' = [stored EXCEPT ![request[t]] =
                  [failure |-> failure[t], evidence |-> gathered[t]]]
  /\ returned' = returned \cup {gathered[t][i] : i \in DOMAIN gathered[t]}
  /\ Reset(t)
  /\ UNCHANGED <<binding, lease, closed, source, cache, issued, active, calls>>

\* What the readers of issued_evidence demand of Evidence that is cited.
Verifies(e) == \E o \in issued : o.id = e.id /\ o = e

-----------------------------------------------------------------------------
(* close.  Only the first caller does anything, and the others do not wait.   *)

Close(t) ==
  /\ Bound /\ pc[t] = "idle" /\ ~closed
  /\ closed' = TRUE
  /\ pc' = [pc EXCEPT ![t] = "clearing"]
  /\ UNCHANGED <<binding, lease, source, cache, evidence, active, calls, request, pending,
                 gathered, failure>>

\* _source_discoveries.clear(), without the lock.
ClearDiscoveries(t) ==
  /\ pc[t] = "clearing"
  /\ discovered' = [c \in Capabilities |-> None]
  /\ pc' = [pc EXCEPT ![t] = "closing"]
  /\ UNCHANGED <<binding, lease, closed, source, sourceLock, handed, evidence, active, calls,
                 request, pending, gathered, failure>>

\* try: provider.close() finally: the lease.  Mutant: no finally.
WithoutFinally(raised) == IF raised THEN "idle" ELSE "releasing"
AfterProviderClose(raised) == "releasing"

CloseProvider(t) ==
  /\ pc[t] = "closing"
  /\ \E raised \in BOOLEAN : pc' = [pc EXCEPT ![t] = AfterProviderClose(raised)]
  /\ UNCHANGED <<binding, lease, closed, source, cache, evidence, active, calls, request,
                 pending, gathered, failure>>

\* ProviderRuntimeLease.close
ReleaseLease(t) ==
  /\ pc[t] = "releasing"
  /\ lease' = "released"
  /\ pc' = [pc EXCEPT ![t] = "idle"]
  /\ UNCHANGED <<binding, closed, source, cache, evidence, active, calls, request, pending,
                 gathered, failure>>

-----------------------------------------------------------------------------
FactLists == UNION {[1 .. n -> Facts] : n \in 1 .. MaxItems}

ProviderNext ==
  \/ \E c \in Capabilities, named \in Providers \cup {None},
        platform, user \in Profiles \cup {None} : BindForController(c, named, platform, user)
  \/ \E required \in CheckRequires : BindForCheck(required)
  \/ \E s \in Sources : SourceChanges(s)
  \/ \E t \in Callers :
       \/ \E c \in Capabilities : Discover(t, c)
       \/ Discovered(t)
       \/ \E q \in Requests : Collect(t, q)
       \/ Admit(t)
       \/ Raises(t)
       \/ \E code \in FailureCodes : Fails(t, code)
       \/ \E facts \in FactLists : Answers(t, facts)
       \/ Issue(t)
       \/ Reject(t)
       \/ Store(t)
       \/ Close(t)
       \/ ClearDiscoveries(t)
       \/ CloseProvider(t)
       \/ ReleaseLease(t)

\* A thread that is closing runs on: it waits for no lock that another holds
\* and the provider's close returns or raises.
Fairness ==
  \A t \in Callers : WF_providerVars(ClearDiscoveries(t) \/ CloseProvider(t) \/ ReleaseLease(t))

ProviderSpec == ProviderInit /\ [][ProviderNext]_providerVars /\ Fairness

-----------------------------------------------------------------------------
\* The threads whose call is inside the provider.
Inside == {t \in Callers : pc[t] = "calling"}

\* At no time are more calls inside the provider, for whichever requests, than
\* the provider's descriptor, the platform's profile and the user's profile each
\* allow where they name a limit, and every call is for a capability each of
\* them grants (negotiate; the count kept around an unlocked call in collect).
WithinEveryLimit ==
  Bound =>
    LET parties == {binding.platform, binding.user} IN
    /\ Cardinality(Inside) <= Concurrency[binding.provider]
    /\ \A p \in parties : p.concurrency # 0 => Cardinality(Inside) <= p.concurrency
    /\ \A t \in Inside : /\ request[t].capability \in Declares[binding.provider]
                         /\ \A p \in parties : request[t].capability \in p.allows

\* Every record of every result a caller was ever given is in the ledger of
\* issued Evidence exactly as it was given, so a packet or a verdict that cites
\* it verifies, whatever other threads were issued since for the same request
\* (issued_evidence, _validate_provider_evidence).
EvidenceVerifies == \A e \in returned : Verifies(e)

\* Until the provider is closed, the WorkItems handed out and the Evidence
\* issued under one capability are of one state of each source, whatever the
\* source does in between (discover_sources, the state check of a fact).
OneStatePerSource ==
  ~closed =>
    \A a, b \in handed \cup {[r.request EXCEPT !.state = r.state] : r \in issued} :
      a.capability = b.capability /\ a.source = b.source => a.state = b.state

\* A request is settled once it has a result and no call for it is under way.
Settled(q) ==
  /\ stored[q] # None
  /\ \A t \in Callers : request[t] = q => pc[t] \notin {"calling", "issuing", "storing"}

\* The result of a settled request is never replaced and the provider is never
\* asked for it again, although threads that saw no result are still on their
\* way to the lock (the double check in collect).
SettledForever ==
  [][\A q \in Requests : Settled(q) => Settled(q)' /\ stored'[q] = stored[q]]_providerVars

\* A provider that was closed, or that could not be constructed, gives its
\* runtime back, even if its own close raises (close, __init__).
RuntimeIsReleased ==
  (closed \/ binding.phase = "failed") ~> (lease = "released")
=============================================================================
