--------------------------- MODULE KernelRunProofs ---------------------------
(***************************************************************************)
(* Proofs about KernelRun, for any WorkItems, profiles, faults, calls and     *)
(* kernels.                                                                 *)
(***************************************************************************)
EXTENDS KernelRun, FiniteSetTheorems, TLAPS

LEMMA FirstInside ==
  ASSUME NEW items \in SUBSET Item, NEW n
  PROVE  First(items, n) \in SUBSET Item
BY DEF First

\* What inspection changes of a Run is its queue: what it found and decided stays.
SameResults(r, s) ==
  /\ s.items = r.items /\ s.state = r.state /\ s.packets = r.packets
  /\ s.proposals = r.proposals /\ s.decisions = r.decisions /\ s.receipts = r.receipts
  /\ s.failures = r.failures /\ s.forced = r.forced

LEMMA CutType ==
  ASSUME NEW r \in RunState
  PROVE  /\ Cut(r) \in RunState
         /\ SameResults(r, Cut(r))
         /\ Cut(r).at \in {r.at, "decide"}
<1> DEFINE c == First(r.rest, CutSize(r))
<1>1. c \in SUBSET Item /\ r.rest \ c \in SUBSET Item
  BY FirstInside DEF RunState
<1>2. <<c>> \in Seq(SUBSET Item)
  BY <1>1
<1> HIDE DEF c
<1>3. CASE r.rest = {}
  BY <1>3 DEF Cut, RunState, SameResults
<1>4. CASE r.rest # {}
  <2> DEFINE w == <<c>>
  <2> DEFINE d == r.rest \ c
  <2>1. Cut(r) = [r EXCEPT !.work = w, !.rest = d, !.learned = 0, !.splitting = FALSE]
    BY <1>4 DEF Cut, c
  <2>2. w \in Seq(SUBSET Item) /\ d \in SUBSET Item
    BY <1>1, <1>2
  <2> HIDE DEF w, d
  <2>3. Cut(r) \in RunState
    <3> DEFINE q == [r EXCEPT !.work = w, !.rest = d, !.learned = 0]
    <3>1. q \in RunState
      BY <2>2 DEF RunState
    <3>2. Cut(r) = [q EXCEPT !.splitting = FALSE]
      BY <2>1
    <3> HIDE DEF q
    <3> QED BY <3>1, <3>2 DEF RunState
  <2>4. SameResults(r, Cut(r)) /\ Cut(r).at = r.at
    BY <2>1 DEF RunState, SameResults
  <2> QED BY <2>3, <2>4
<1> QED BY <1>3, <1>4

LEMMA AdaptedType ==
  ASSUME NEW r \in RunState
  PROVE  /\ Adapted(r) \in RunState
         /\ SameResults(r, Adapted(r))
         /\ Adapted(r).at = r.at
<1> DEFINE n == Smaller(r.size, Larger(r.learned, 1))
<1>1. n \in Nat \ {0}
  BY DEF RunState, Smaller, Larger
<1>2. Adapted(r) = IF r.splitting THEN [r EXCEPT !.size = n] ELSE r
  BY DEF Adapted
<1> HIDE DEF n
<1>3. [r EXCEPT !.size = n] \in RunState
  BY <1>1 DEF RunState
<1>4. SameResults(r, [r EXCEPT !.size = n]) /\ [r EXCEPT !.size = n].at = r.at
  BY DEF RunState, SameResults
<1>5. SameResults(r, r)
  BY DEF SameResults
<1> QED BY <1>2, <1>3, <1>4, <1>5

LEMMA ReturnedType ==
  ASSUME NEW r \in RunState, r.work # <<>>, NEW n \in Nat
  PROVE  /\ Returned(r, n) \in RunState
         /\ SameResults(r, Returned(r, n))
         /\ Returned(r, n).at \in {r.at, "decide"}
<1> DEFINE s == [r EXCEPT !.work = Tail(@), !.learned = Larger(@, n)]
<1>1. Tail(r.work) \in Seq(SUBSET Item) /\ Larger(r.learned, n) \in Nat
  BY DEF RunState, Larger
<1>2. s \in RunState /\ SameResults(r, s) /\ s.at = r.at
  BY <1>1 DEF RunState, SameResults
<1>3. Returned(r, n) = IF s.work = <<>> THEN Cut(Adapted(s)) ELSE s
  BY DEF Returned
<1> HIDE DEF s
<1>4. /\ Cut(Adapted(s)) \in RunState
      /\ SameResults(s, Cut(Adapted(s)))
      /\ Cut(Adapted(s)).at \in {s.at, "decide"}
  BY <1>2, AdaptedType, CutType DEF SameResults
<1> QED BY <1>2, <1>3, <1>4 DEF SameResults

LEMMA HalvedType ==
  ASSUME NEW r \in RunState, r.work # <<>>, NEW chunk \in SUBSET Item
  PROVE  /\ Halved(r, chunk) \in RunState
         /\ SameResults(r, Halved(r, chunk))
         /\ Halved(r, chunk).at = r.at
<1> DEFINE half == First(chunk, Cardinality(chunk) \div 2)
<1>1. half \in SUBSET Item /\ chunk \ half \in SUBSET Item
  BY FirstInside
<1> DEFINE w == <<half, chunk \ half>> \o Tail(r.work)
<1>2. Halved(r, chunk) = [r EXCEPT !.work = w, !.splitting = TRUE]
  BY DEF Halved
<1> HIDE DEF half
<1>3. w \in Seq(SUBSET Item)
  BY <1>1 DEF RunState
<1> HIDE DEF w
<1> QED BY <1>2, <1>3 DEF RunState, SameResults

LEMMA PacketsType ==
  ASSUME NEW r \in RunState, NEW packets \in [Item -> State \cup {None}]
  PROVE  LET s == [r EXCEPT !.packets = packets] IN
         /\ s \in RunState /\ s.at = r.at /\ s.work = r.work /\ s.packets = packets
         /\ s.items = r.items /\ s.state = r.state /\ s.rest = r.rest
         /\ s.decisions = r.decisions /\ s.receipts = r.receipts /\ s.failures = r.failures
BY DEF RunState

LEMMA FailingType ==
  ASSUME NEW r \in RunState, NEW items
  PROVE  /\ Failing(r, items) \in RunState
         /\ Failing(r, items).at = r.at /\ Failing(r, items).work = r.work
         /\ Failing(r, items).state = r.state /\ Failing(r, items).packets = r.packets
         /\ Failing(r, items).decisions = r.decisions
         /\ Failing(r, items).receipts = r.receipts
<1> DEFINE f == [i \in Item |-> IF i \in items THEN r.failures[i] + 1 ELSE r.failures[i]]
<1>1. f \in [Item -> Nat]
  BY DEF RunState
<1>2. Failing(r, items) = [r EXCEPT !.failures = f]
  BY DEF Failing
<1> HIDE DEF f
<1> QED BY <1>1, <1>2 DEF RunState

\* A failure is counted for each of the items, and for no other.
LEMMA FailingCounts ==
  ASSUME NEW r \in RunState, NEW items
  PROVE  /\ Failing(r, items).items = r.items /\ Failing(r, items).rest = r.rest
         /\ Failing(r, items).proposals = r.proposals
         /\ \A i \in Item : Failing(r, items).failures[i] =
                              IF i \in items THEN r.failures[i] + 1 ELSE r.failures[i]
<1> DEFINE f == [i \in Item |-> IF i \in items THEN r.failures[i] + 1 ELSE r.failures[i]]
<1>1. \A i \in Item : f[i] = IF i \in items THEN r.failures[i] + 1 ELSE r.failures[i]
  OBVIOUS
<1>2. Failing(r, items) = [r EXCEPT !.failures = f]
  BY DEF Failing
<1> HIDE DEF f
<1>3. /\ Failing(r, items).items = r.items /\ Failing(r, items).rest = r.rest
      /\ Failing(r, items).proposals = r.proposals /\ Failing(r, items).failures = f
  BY <1>2 DEF RunState
<1> QED BY <1>1, <1>3

LEMMA DealtType ==
  ASSUME NEW r \in RunState, r.at = "commit", NEW i \in Item
  PROVE  /\ Dealt(r, i) \in RunState
         /\ Dealt(r, i).at \in {"commit", "decide"}
         /\ Dealt(r, i).state = r.state /\ Dealt(r, i).packets = r.packets
         /\ Dealt(r, i).decisions = r.decisions /\ Dealt(r, i).receipts = r.receipts
<1> DEFINE p == [r.proposals EXCEPT ![i] = None]
           s == [r EXCEPT !.proposals = p]
<1>1. p \in [Item -> Proposal \cup {None}]
  BY DEF RunState
<1>2. Dealt(r, i) = IF s.proposals = Nothing THEN [s EXCEPT !.at = "decide"] ELSE s
  BY DEF Dealt
<1> HIDE DEF p
<1>3. /\ s \in RunState /\ s.at = "commit" /\ s.state = r.state /\ s.packets = r.packets
      /\ s.decisions = r.decisions /\ s.receipts = r.receipts
  BY <1>1 DEF RunState
<1> HIDE DEF s
<1> DEFINE e == [s EXCEPT !.at = "decide"]
<1>4. /\ e \in RunState /\ e.at = "decide" /\ e.state = s.state /\ e.packets = s.packets
      /\ e.decisions = s.decisions /\ e.receipts = s.receipts
  BY <1>3 DEF RunState
<1>5. Dealt(r, i) = IF s.proposals = Nothing THEN e ELSE s
  BY <1>2
<1> HIDE DEF e
<1> QED BY <1>3, <1>4, <1>5

\* A proposal that is dealt with is none any more; the others, and the failures, stay.
LEMMA DealtKeeps ==
  ASSUME NEW r \in RunState, NEW i \in Item
  PROVE  /\ Dealt(r, i).items = r.items /\ Dealt(r, i).failures = r.failures
         /\ \A j \in Item : Dealt(r, i).proposals[j] =
                              IF j = i THEN None ELSE r.proposals[j]
<1> DEFINE p == [r.proposals EXCEPT ![i] = None]
           s == [r EXCEPT !.proposals = p]
           e == [s EXCEPT !.at = "decide"]
<1>1. /\ p \in [Item -> Proposal \cup {None}]
      /\ \A j \in Item : p[j] = IF j = i THEN None ELSE r.proposals[j]
  BY DEF RunState
<1>2. Dealt(r, i) = IF s.proposals = Nothing THEN e ELSE s
  BY DEF Dealt
<1> HIDE DEF p
<1>3. s \in RunState /\ s.items = r.items /\ s.failures = r.failures /\ s.proposals = p
  BY <1>1 DEF RunState
<1> HIDE DEF s
<1>4. e.items = s.items /\ e.failures = s.failures /\ e.proposals = s.proposals
  BY <1>3 DEF RunState
<1> HIDE DEF e
<1> QED BY <1>1, <1>2, <1>3, <1>4

LEMMA ResultType ==
  ASSUME run \in RunState
  PROVE  /\ Result \in Ledger
         /\ Result.decisions = run.decisions /\ Result.receipts = run.receipts
<1>1. Status \in {"completed", "partial", "failed"}
  BY DEF RunState, Status
<1> QED BY <1>1 DEF Result, Ledger, RunState

LEMMA IdleType == Idle \in RunState
BY DEF Idle, RunState, Nothing

LEMMA DiscoveredType ==
  ASSUME KernelAssumption, deployment \in Deployments,
         NEW items \in Scopes, NEW world \in Worlds
  PROVE  LET r == Discovered(items, world) IN
         /\ r \in RunState /\ r.state = world /\ r.items = items /\ r.work = <<>>
         /\ r.packets = Nothing /\ r.decisions = Nothing /\ r.receipts = Nothing
         /\ r.failures = [i \in Item |-> 0]
<1> DEFINE n == deployment.inspectSize
           fresh == [i \in Item |-> 0]
<1>1. items \in SUBSET Item /\ world \in [Item -> State] /\ n \in Nat \ {0}
  BY DEF KernelAssumption
<1>2. Discovered(items, world) = [Idle EXCEPT !.items = items, !.state = world, !.size = n]
  BY DEF Discovered
<1>3. /\ Idle \in RunState /\ Idle.packets = Nothing /\ Idle.decisions = Nothing
      /\ Idle.receipts = Nothing /\ Idle.failures = fresh /\ Idle.work = <<>>
  BY IdleType DEF Idle
<1> HIDE DEF n, fresh
<1> DEFINE r == [Idle EXCEPT !.items = items, !.state = world, !.size = n]
<1>4. r \in RunState
  BY <1>1, <1>3 DEF RunState
<1>5. r.state = world /\ r.items = items
  BY <1>1, <1>3 DEF RunState
<1>6. /\ r.packets = Idle.packets /\ r.decisions = Idle.decisions
      /\ r.receipts = Idle.receipts /\ r.failures = Idle.failures /\ r.work = Idle.work
  BY <1>3 DEF RunState
<1>7. Discovered(items, world) = r
  BY <1>2
<1> HIDE DEF r
<1> QED BY <1>3, <1>4, <1>5, <1>6, <1>7 DEF fresh

-----------------------------------------------------------------------------
(* The inductive invariant *)

\* The states of the WorkItems are known once discovery has returned.
StateKnown == run.at \in {"inspect", "decide", "commit"} => run.state \in [Item -> State]

\* What the cache has under a key is a packet of the state in the key.
CacheSound == \A c \in cache : c.key[2] = c.packet

\* While a Run is under way, this kernel knows the receipts of the stored ledger.
LedgerKnown ==
  run.at # "idle" /\ ledger # None =>
    \A i \in Item : ledger.receipts[i] # None => committed[i] # None

\* What this kernel had acknowledged it has a receipt of.
AckedKnown ==
  \A i \in Item : \A m \in DOMAIN acked[i] :
    /\ acked[i][m].life <= life
    /\ acked[i][m].life = life => committed[i] # None

IInv == /\ TypeOK /\ StateKnown
        /\ CacheSound /\ PacketsAreCurrent
        /\ Matches(run) /\ ReceiptsMatch
        /\ LedgerKnown /\ AckedKnown

USE DEF None

LEMMA NoneIsNone ==
  None \notin Digest /\ None \notin Receipt /\ None \notin State /\ None \notin Proposal
BY KernelAssumption

\* Whatever the cache yields is of the state that was discovered.
LEMMA FoundCurrent ==
  ASSUME TypeOK, CacheSound, PacketsAreCurrent, NEW chunk \in SUBSET Item
  PROVE  /\ Found(chunk) \in [Item -> State \cup {None}]
         /\ \A i \in Item : Found(chunk)[i] # None => Found(chunk)[i] = run.state[i]
<1> DEFINE hit(i) == (CHOOSE c \in Cached(i) : TRUE).packet
<1>1. ASSUME NEW i \in Hits(chunk)
      PROVE  hit(i) \in State /\ hit(i) = run.state[i]
  <2>1. PICK c \in Cached(i) : c = (CHOOSE d \in Cached(i) : TRUE)
    BY <1>1 DEF Hits
  <2>2. c \in cache /\ c.key = <<i, run.state[i]>>
    BY <2>1 DEF Cached, Key
  <2>3. c.packet \in State /\ c.key[2] = c.packet
    BY <2>2 DEF TypeOK, CacheSound
  <2> QED BY <2>1, <2>2, <2>3
<1>2. Found(chunk) = [i \in Item |-> IF i \in Hits(chunk) THEN hit(i) ELSE run.packets[i]]
  BY DEF Found
<1> HIDE DEF hit
<1>3. run.packets \in [Item -> State \cup {None}]
  BY DEF TypeOK, RunState
<1> QED BY <1>1, <1>2, <1>3 DEF PacketsAreCurrent

\* A step of the inspection works on one chunk of the queue.
LEMMA ChunkType ==
  ASSUME TypeOK, Inspecting
  PROVE  /\ run \in RunState /\ run.work # <<>>
         /\ Chunk \in SUBSET Item /\ Asked \in SUBSET Chunk
         /\ Cardinality(Asked) \in Nat
<1>1. run \in RunState /\ run.work # <<>> /\ run.work \in Seq(SUBSET Item)
  BY DEF TypeOK, Inspecting, RunState
<1>2. Chunk \in SUBSET Item
  BY <1>1 DEF Chunk
<1>3. Asked \in SUBSET Chunk
  BY DEF Asked, Pending
<1>4. IsFiniteSet(Asked)
  BY <1>2, <1>3, KernelAssumption, FS_Subset
<1> QED BY <1>1, <1>2, <1>3, <1>4, FS_CardinalityType

\* What the inspection of a Run leaves: current packets, and the decisions as they were.
Inspected ==
  /\ run' \in RunState
  /\ run'.at \in {"inspect", "decide"} /\ run'.state = run.state
  /\ \A i \in Item : run'.packets[i] # None => run'.packets[i] = run.state[i]
  /\ run'.decisions = run.decisions /\ run'.receipts = run.receipts

LEMMA ReuseStep ==
  ASSUME TypeOK, CacheSound, PacketsAreCurrent, Reuse
  PROVE  Inspected
<1> DEFINE s == [run EXCEPT !.packets = Found(Chunk)]
<1>1. run \in RunState /\ run.work # <<>> /\ Chunk \in SUBSET Item /\ run.at = "inspect"
  BY ChunkType DEF Reuse, Inspecting
<1>2. /\ Found(Chunk) \in [Item -> State \cup {None}]
      /\ \A i \in Item : Found(Chunk)[i] # None => Found(Chunk)[i] = run.state[i]
  BY <1>1, FoundCurrent
<1>3. run' = Returned(s, 0)
  BY DEF Reuse
<1>4. /\ s \in RunState /\ s.at = run.at /\ s.work = run.work /\ s.packets = Found(Chunk)
      /\ s.state = run.state /\ s.decisions = run.decisions /\ s.receipts = run.receipts
  BY <1>1, <1>2, PacketsType
<1> HIDE DEF s
<1> QED BY <1>1, <1>2, <1>3, <1>4, ReturnedType DEF Inspected, SameResults

LEMMA InspectFailsStep ==
  ASSUME TypeOK, CacheSound, PacketsAreCurrent, InspectFails
  PROVE  Inspected
<1> DEFINE s == [run EXCEPT !.packets = Found(Chunk)]
<1>1. /\ run \in RunState /\ run.work # <<>> /\ Chunk \in SUBSET Item
      /\ Asked \in SUBSET Item /\ run.at = "inspect"
  BY ChunkType DEF InspectFails, Inspecting
<1>2. /\ Found(Chunk) \in [Item -> State \cup {None}]
      /\ \A i \in Item : Found(Chunk)[i] # None => Found(Chunk)[i] = run.state[i]
  BY <1>1, FoundCurrent
<1>3. run' = IF Splits(Asked) THEN Halved(s, Asked) ELSE Returned(Failing(s, Asked), 0)
  BY DEF InspectFails
<1>4. /\ s \in RunState /\ s.at = run.at /\ s.work = run.work /\ s.packets = Found(Chunk)
      /\ s.state = run.state /\ s.decisions = run.decisions /\ s.receipts = run.receipts
  BY <1>1, <1>2, PacketsType
<1> HIDE DEF s
<1>5. CASE Splits(Asked)
  BY <1>1, <1>2, <1>3, <1>4, <1>5, HalvedType DEF Inspected, SameResults
<1>6. CASE ~Splits(Asked)
  <2> DEFINE f == Failing(s, Asked)
  <2>1. /\ f \in RunState /\ f.at = s.at /\ f.work = s.work /\ f.state = s.state
        /\ f.packets = s.packets /\ f.decisions = s.decisions /\ f.receipts = s.receipts
    BY <1>4, FailingType
  <2>2. run' = Returned(f, 0)
    BY <1>3, <1>6
  <2> HIDE DEF f
  <2> QED BY <1>1, <1>2, <1>4, <2>1, <2>2, ReturnedType DEF Inspected, SameResults
<1> QED BY <1>5, <1>6

LEMMA InspectSucceedsStep ==
  ASSUME TypeOK, StateKnown, CacheSound, PacketsAreCurrent, InspectSucceeds
  PROVE  /\ Inspected
         /\ cache' \subseteq [key : Item \X State, packet : State]
         /\ CacheSound'
<1>1. /\ run \in RunState /\ run.work # <<>> /\ Chunk \in SUBSET Item
      /\ Asked \in SUBSET Item /\ run.at = "inspect" /\ Cardinality(Asked) \in Nat
  BY ChunkType DEF InspectSucceeds, Inspecting
<1>2. /\ Found(Chunk) \in [Item -> State \cup {None}]
      /\ \A i \in Item : Found(Chunk)[i] # None => Found(Chunk)[i] = run.state[i]
  BY <1>1, FoundCurrent
<1> DEFINE Merged(f) == [i \in Item |-> IF i \in Asked THEN f[i] ELSE Found(Chunk)[i]]
           New(f) == {[key |-> Key(i, run.state[i]), packet |-> f[i]] : i \in Asked}
<1>3. PICK packets \in [Asked -> State] :
        /\ ValidPackets(Asked, packets)
        /\ run' = Returned([run EXCEPT !.packets = Merged(packets)], Cardinality(Asked))
        /\ cache' = IF deployment.cache THEN cache \cup New(packets) ELSE cache
  BY DEF InspectSucceeds
<1>4. \A i \in Asked : packets[i] \in State /\ packets[i] = run.state[i]
  BY <1>3 DEF ValidPackets
<1> DEFINE merged == Merged(packets)
           s == [run EXCEPT !.packets = merged]
<1>5. /\ merged \in [Item -> State \cup {None}]
      /\ \A i \in Item : merged[i] # None => merged[i] = run.state[i]
  BY <1>2, <1>4
<1>6. run' = Returned(s, Cardinality(Asked))
  BY <1>3
<1> HIDE DEF merged
<1>7. /\ s \in RunState /\ s.at = run.at /\ s.work = run.work /\ s.packets = merged
      /\ s.state = run.state /\ s.decisions = run.decisions /\ s.receipts = run.receipts
  BY <1>1, <1>5, PacketsType
<1> HIDE DEF s
<1>8. Inspected
  BY <1>1, <1>5, <1>6, <1>7, ReturnedType DEF Inspected, SameResults
<1>9. \A c \in New(packets) :
        c \in [key : Item \X State, packet : State] /\ c.key[2] = c.packet
  BY <1>1, <1>4 DEF Key
<1>10. cache \subseteq [key : Item \X State, packet : State]
  BY DEF TypeOK
<1> QED BY <1>3, <1>8, <1>9, <1>10 DEF CacheSound

-----------------------------------------------------------------------------
(* What each step makes of the Run in hand *)

RunSound == run \in RunState /\ StateKnown /\ PacketsAreCurrent /\ Matches(run)

LEMMA InspectedSound ==
  ASSUME RunSound, run.at = "inspect", Inspected
  PROVE  RunSound'
BY DEF RunSound, Inspected, StateKnown, PacketsAreCurrent, Matches

LEMMA FailingSound ==
  ASSUME RunSound, NEW items, run' = Failing(run, items)
  PROVE  RunSound'
<1>1. run \in RunState
  BY DEF RunSound
<1> QED BY <1>1, FailingType DEF RunSound, StateKnown, PacketsAreCurrent, Matches

LEMMA DecideStep ==
  ASSUME RunSound, Decide
  PROVE  RunSound'
<1> DEFINE Chosen(f) == [i \in Item |-> IF i \in DecisionChunk THEN f[i] ELSE None]
<1>1. PICK proposals \in [DecisionChunk -> Proposal] :
        run' = [run EXCEPT !.at = "commit", !.proposals = Chosen(proposals)]
  BY DEF Decide
<1> DEFINE chosen == Chosen(proposals)
<1>2. chosen \in [Item -> Proposal \cup {None}]
  OBVIOUS
<1>3. run' = [run EXCEPT !.at = "commit", !.proposals = chosen]
  BY <1>1
<1> HIDE DEF chosen
<1>4. run \in RunState /\ run.at = "decide"
  BY DEF RunSound, Decide
<1>5. run' \in RunState
  BY <1>2, <1>3, <1>4 DEF RunState
<1>6. /\ run'.state = run.state /\ run'.packets = run.packets
      /\ run'.decisions = run.decisions /\ run'.receipts = run.receipts
  BY <1>3, <1>4 DEF RunState
<1> QED BY <1>4, <1>5, <1>6, SMTT(30) DEF RunSound, StateKnown, PacketsAreCurrent, Matches

LEMMA ProposedType ==
  ASSUME RunSound, NEW i \in Item, Committing(i)
  PROVE  /\ Proposed(i) \in Digest /\ Proposed(i) # None
         /\ Proposed(i).proposal \in Proposal
         /\ ReceiptFor(Proposed(i)) \in Receipt
<1>1. run.state[i] \in State /\ run.proposals[i] \in Proposal
  BY DEF RunSound, StateKnown, Committing, RunState
<1>2. Proposed(i) \in Digest /\ Proposed(i).proposal \in Proposal
  BY <1>1 DEF Proposed, Digest
<1>3. OutcomeOf[Proposed(i).proposal] \in Outcome
  BY <1>2, KernelAssumption
<1> QED BY <1>2, <1>3, NoneIsNone DEF ReceiptFor, Receipt

\* A decision is recorded with a receipt that matches it.
LEMMA RecordedSound ==
  ASSUME RunSound, NEW i \in Item, Committing(i), NEW receipt \in Receipt,
         Replayable(receipt, Proposed(i)), run' = Recorded(i, receipt)
  PROVE  RunSound'
<1> DEFINE p == Proposed(i)
           d == [run.decisions EXCEPT ![i] = p]
           q == [run.receipts EXCEPT ![i] = receipt]
           s == [run EXCEPT !.decisions = d, !.receipts = q]
<1>1. run \in RunState /\ run.at = "commit" /\ p \in Digest /\ p # None
  BY ProposedType DEF RunSound, Committing
<1>2. run' = Dealt(s, i)
  BY DEF Recorded
<1>3. receipt.digest \in {None, p} /\ receipt.result = OutcomeOf[p.proposal]
  BY DEF Replayable
<1> HIDE DEF p
<1>4. d \in [Item -> Digest \cup {None}] /\ q \in [Item -> Receipt \cup {None}]
  BY <1>1 DEF RunState
<1>5. Matches([decisions |-> d, receipts |-> q])
  <2>1. \A j \in Item : d[j] = (IF j = i THEN p ELSE run.decisions[j])
                       /\ q[j] = (IF j = i THEN receipt ELSE run.receipts[j])
    BY <1>1 DEF RunState
  <2> HIDE DEF d, q
  <2> QED BY <1>1, <1>3, <2>1 DEF RunSound, Matches
<1> HIDE DEF d, q
<1>6. s \in RunState /\ s.at = "commit"
  BY <1>1, <1>4 DEF RunState
<1>7. /\ s.state = run.state /\ s.packets = run.packets
      /\ s.decisions = d /\ s.receipts = q
  BY <1>1 DEF RunState
<1> HIDE DEF s
<1>8. /\ run' \in RunState /\ run'.state = run.state /\ run'.packets = run.packets
      /\ run'.decisions = d /\ run'.receipts = q
  BY <1>2, <1>6, <1>7, DealtType
<1>9. run.state \in [Item -> State]
  BY <1>1 DEF RunSound, StateKnown
<1> QED BY <1>5, <1>8, <1>9 DEF RunSound, StateKnown, PacketsAreCurrent, Matches

LEMMA RefusedSound ==
  ASSUME RunSound, NEW i \in Item, Committing(i), run' = Refused(i)
  PROVE  RunSound'
<1> DEFINE f == Failing(run, {i})
<1>1. run \in RunState /\ run.at = "commit" /\ run.state \in [Item -> State]
  BY DEF RunSound, StateKnown, Committing
<1>2. /\ f \in RunState /\ f.at = run.at /\ f.state = run.state /\ f.packets = run.packets
      /\ f.decisions = run.decisions /\ f.receipts = run.receipts
  BY <1>1, FailingType
<1>3. run' = Dealt(f, i)
  BY DEF Refused
<1> HIDE DEF f
<1> QED BY <1>1, <1>2, <1>3, DealtType
        DEF RunSound, StateKnown, PacketsAreCurrent, Matches

LEMMA IdleSound ==
  ASSUME run' = Idle
  PROVE  RunSound'
BY IdleType DEF RunSound, StateKnown, PacketsAreCurrent, Matches, Idle, Nothing

LEMMA DiscoverStep ==
  ASSUME TypeOK, Discover
  PROVE  RunSound'
<1>1. PICK items \in Scopes, world \in Worlds :
        run' = Cut([Discovered(items, world) EXCEPT !.at = "inspect", !.rest = items])
  BY DEF Discover
<1> DEFINE r == Discovered(items, world)
           s == [r EXCEPT !.at = "inspect", !.rest = items]
<1>2. /\ r \in RunState /\ r.state = world /\ r.packets = Nothing
      /\ r.decisions = Nothing /\ r.receipts = Nothing
  BY KernelAssumption, DiscoveredType DEF TypeOK
<1>3. items \in SUBSET Item /\ world \in [Item -> State]
  BY KernelAssumption
<1>4. run' = Cut(s)
  BY <1>1
<1> HIDE DEF r
<1>5. s \in RunState /\ s.state = world
  BY <1>2, <1>3 DEF RunState
<1>6. s.packets = Nothing /\ s.decisions = Nothing /\ s.receipts = Nothing
  BY <1>2 DEF RunState
<1> HIDE DEF s
<1> QED BY <1>3, <1>4, <1>5, <1>6, CutType
        DEF RunSound, StateKnown, PacketsAreCurrent, Matches, SameResults, Nothing

LEMMA DiscoveryFailsStep ==
  ASSUME DiscoveryFails
  PROVE  RunSound'
<1> DEFINE r == [Idle EXCEPT !.at = "close", !.forced = "failed"]
<1>1. run' = r
  BY DEF DiscoveryFails
<1>2. Idle.packets = Nothing /\ Idle.receipts = Nothing
  BY DEF Idle
<1>3. r \in RunState /\ r.at = "close"
  BY IdleType DEF RunState
<1>4. r.packets = Nothing /\ r.receipts = Nothing
  BY <1>2, IdleType DEF RunState
<1> HIDE DEF r
<1> QED BY <1>1, <1>3, <1>4 DEF RunSound, StateKnown, PacketsAreCurrent, Matches, Nothing

LEMMA BlockedStep ==
  ASSUME TypeOK, Blocked
  PROVE  RunSound'
<1> DEFINE Failed(items) == [i \in Item |-> IF i \in items THEN 1 ELSE 0]
<1>1. PICK items \in Scopes, world \in Worlds, status \in {"failed", "completed"} :
        run' = [Discovered(items, world) EXCEPT
                  !.at = "close", !.forced = status, !.failures = Failed(items)]
  BY ZenonT(60) DEF Blocked
<1> DEFINE r == Discovered(items, world)
           f == Failed(items)
           s == [r EXCEPT !.at = "close", !.forced = status, !.failures = f]
<1>2. r \in RunState /\ r.packets = Nothing /\ r.receipts = Nothing
  BY KernelAssumption, DiscoveredType DEF TypeOK
<1>3. f \in [Item -> Nat]
  OBVIOUS
<1>4. run' = s
  BY <1>1
<1> HIDE DEF r, f
<1>5. s \in RunState /\ s.at = "close"
  BY <1>2, <1>3 DEF RunState
<1>6. s.packets = Nothing /\ s.receipts = Nothing
  BY <1>2 DEF RunState
<1> HIDE DEF s
<1> QED BY <1>4, <1>5, <1>6 DEF RunSound, StateKnown, PacketsAreCurrent, Matches, Nothing

LEMMA CapabilityMissingStep ==
  ASSUME TypeOK, CapabilityMissing
  PROVE  RunSound'
<1> DEFINE Review(items, world) ==
             [i \in Item |-> IF i \in items THEN [state |-> world[i], proposal |-> Unable]
                             ELSE None]
<1>1. PICK items \in Scopes, world \in Worlds :
        run' = [Discovered(items, world) EXCEPT
                  !.at = "close",
                  !.forced = IF items = {} THEN "completed" ELSE "partial",
                  !.decisions = Review(items, world)]
  BY DEF CapabilityMissing
<1> DEFINE r == Discovered(items, world)
           d == Review(items, world)
           status == IF items = {} THEN "completed" ELSE "partial"
           s == [r EXCEPT !.at = "close", !.forced = status, !.decisions = d]
<1>2. r \in RunState /\ r.packets = Nothing /\ r.receipts = Nothing
  BY KernelAssumption, DiscoveredType DEF TypeOK
<1>3. d \in [Item -> Digest \cup {None}]
  BY KernelAssumption DEF Digest
<1>4. status \in {"completed", "partial"}
  OBVIOUS
<1>5. run' = s
  BY <1>1
<1> HIDE DEF r, d, status
<1>6. s \in RunState /\ s.at = "close"
  BY <1>2, <1>3, <1>4 DEF RunState
<1>7. s.packets = Nothing /\ s.receipts = Nothing
  BY <1>2 DEF RunState
<1> HIDE DEF s
<1> QED BY <1>5, <1>6, <1>7 DEF RunSound, StateKnown, PacketsAreCurrent, Matches, Nothing

LEMMA RunSoundStep ==
  ASSUME IInv, [Next]_vars
  PROVE  RunSound'
<1>1. RunSound /\ TypeOK /\ StateKnown /\ CacheSound /\ PacketsAreCurrent
  BY DEF IInv, TypeOK, RunSound
<1>2. CASE Discover \/ DiscoveryFails \/ Blocked \/ CapabilityMissing
  BY <1>1, <1>2, DiscoverStep, DiscoveryFailsStep, BlockedStep, CapabilityMissingStep
<1>3. CASE Reuse \/ InspectSucceeds \/ InspectFails
  <2>1. run.at = "inspect"
    BY <1>3 DEF Reuse, InspectSucceeds, InspectFails, Inspecting
  <2> QED BY <1>1, <1>3, <2>1, ReuseStep, InspectSucceedsStep, InspectFailsStep, InspectedSound
<1>4. CASE NothingToDecide
  <2> DEFINE s == [run EXCEPT !.at = "close"]
  <2>1. run' = s /\ run \in RunState
    BY <1>1, <1>4 DEF NothingToDecide, RunSound
  <2>2. /\ s \in RunState /\ s.at = "close" /\ s.packets = run.packets
        /\ s.state = run.state /\ s.decisions = run.decisions /\ s.receipts = run.receipts
    BY <2>1 DEF RunState
  <2> HIDE DEF s
  <2> QED BY <1>1, <2>1, <2>2 DEF RunSound, StateKnown, PacketsAreCurrent, Matches
<1>5. CASE Decide
  BY <1>1, <1>5, DecideStep
<1>6. CASE DecideFails
  BY <1>1, <1>6, FailingSound DEF DecideFails
<1>7. CASE \E i \in Item : Replay(i) \/ Conflict(i) \/ Commit(i) \/ CommitFails(i)
  <2>1. PICK i \in Item : Replay(i) \/ Conflict(i) \/ Commit(i) \/ CommitFails(i)
    BY <1>7
  <2>2. CASE Replay(i)
    <3>1. Committing(i) /\ committed[i] \in Receipt
      BY <1>1, <2>2 DEF Replay, TypeOK
    <3> QED BY <1>1, <2>2, <3>1, RecordedSound DEF Replay
  <2>3. CASE Conflict(i)
    BY <1>1, <2>3, RefusedSound DEF Conflict
  <2>4. CASE Commit(i)
    <3> DEFINE receipt == ReceiptFor(Proposed(i))
    <3>1. Committing(i) /\ run' = Recorded(i, receipt)
      BY <2>4 DEF Commit
    <3>2. receipt \in Receipt
      BY <1>1, <3>1, ProposedType
    <3>3. Replayable(receipt, Proposed(i))
      BY DEF Replayable, ReceiptFor
    <3> HIDE DEF receipt
    <3> QED BY <1>1, <3>1, <3>2, <3>3, RecordedSound
  <2>5. CASE CommitFails(i)
    BY <1>1, <2>5, RefusedSound DEF CommitFails
  <2> QED BY <2>1, <2>2, <2>3, <2>4, <2>5
<1>8. CASE InspectRaises \/ Close \/ CloseFails \/ Restart
  BY <1>8, IdleSound DEF InspectRaises, Close, CloseFails, Restart
<1>9. CASE Publish \/ UNCHANGED vars
  BY <1>1, <1>9 DEF Publish, vars, RunSound, StateKnown, PacketsAreCurrent, Matches
<1> QED BY <1>2, <1>3, <1>4, <1>5, <1>6, <1>7, <1>8, <1>9 DEF Next, Step

-----------------------------------------------------------------------------
(* What each step makes of the rest *)

LEMMA CacheStep ==
  ASSUME IInv, [Next]_vars
  PROVE  cache' \subseteq [key : Item \X State, packet : State] /\ CacheSound'
<1>1. TypeOK /\ StateKnown /\ CacheSound /\ PacketsAreCurrent
  BY DEF IInv
<1>2. CASE InspectSucceeds
  BY <1>1, <1>2, InspectSucceedsStep
<1>3. CASE Restart
  BY <1>3 DEF Restart, CacheSound
<1>4. CASE UNCHANGED cache
  BY <1>1, <1>4 DEF TypeOK, CacheSound
<1> QED BY <1>2, <1>3, <1>4
        DEF Next, Step, vars, Discover, DiscoveryFails, Blocked, CapabilityMissing, Begin,
            Reuse, InspectFails, InspectRaises, NothingToDecide, Decide, DecideFails, Replay, Conflict,
            Commit, CommitFails, Close, CloseFails, Publish

\* The steps that touch neither what is stored nor what is known of the commits.
Local ==
  UNCHANGED <<deployment, ledger, committed, held, acked, life, runs>>

\* Every step is of one of these kinds.
LEMMA Kinds ==
  ASSUME [Next]_vars
  PROVE  \/ Local /\ (run'.at # "idle" => run.at # "idle")
         \/ Begin
         \/ \E i \in Item : Commit(i)
         \/ Close \/ CloseFails \/ Publish \/ Restart
<1>1. CASE Discover \/ DiscoveryFails \/ Blocked \/ CapabilityMissing
  BY <1>1 DEF Discover, DiscoveryFails, Blocked, CapabilityMissing
<1>2. CASE Reuse \/ InspectSucceeds \/ InspectFails \/ InspectRaises
  BY <1>2 DEF Reuse, InspectSucceeds, InspectFails, InspectRaises, Inspecting, Local
<1>3. CASE NothingToDecide \/ Decide \/ DecideFails
  BY <1>3 DEF NothingToDecide, Decide, DecideFails, Local
<1>4. CASE \E i \in Item : Replay(i) \/ Conflict(i) \/ CommitFails(i)
  BY <1>4 DEF Replay, Conflict, CommitFails, Committing, Local
<1>5. CASE UNCHANGED vars
  BY <1>5 DEF vars, Local
<1> QED BY <1>1, <1>2, <1>3, <1>4, <1>5 DEF Next, Step

LEMMA Appended ==
  ASSUME NEW A, NEW q \in Seq(A), NEW a \in A
  PROVE  /\ Append(q, a) \in Seq(A)
         /\ Len(q) \in Nat /\ DOMAIN q = 1..Len(q)
         /\ DOMAIN Append(q, a) = 1..(Len(q) + 1)
         /\ \A m \in 1..Len(q) : q[m] \in A /\ Append(q, a)[m] = q[m]
         /\ Append(q, a)[Len(q) + 1] = a
OBVIOUS

LEMMA LifeType ==
  ASSUME TypeOK
  PROVE  life \in Nat
<1>1. MaxLives \in Nat
  BY KernelAssumption
<1>2. life \in 1..MaxLives
  BY DEF TypeOK
<1> QED BY <1>1, <1>2

LEMMA AckedType ==
  ASSUME TypeOK
  PROVE  \A i \in Item : /\ Len(acked[i]) \in Nat /\ DOMAIN acked[i] = 1..Len(acked[i])
                         /\ \A m \in DOMAIN acked[i] : acked[i][m].life \in Nat
<1> DEFINE A == [digest : Digest, life : Nat]
<1>1. \A i \in Item : acked[i] \in Seq(A)
  BY DEF TypeOK
<1>2. \A a \in A : a.life \in Nat
  OBVIOUS
<1> HIDE DEF A
<1> QED BY <1>1, <1>2

\* What is acknowledged is the decision that was proposed, to this kernel.
LEMMA CommitAcked ==
  ASSUME IInv, NEW i \in Item, Commit(i)
  PROVE  /\ acked' \in [Item -> Seq([digest : Digest, life : Nat])]
         /\ committed' \in [Item -> Receipt \cup {None}]
         /\ committed[i] = None /\ committed'[i] # None
         /\ \A j \in Item \ {i} : acked'[j] = acked[j] /\ committed'[j] = committed[j]
         /\ DOMAIN acked'[i] = 1..(Len(acked[i]) + 1)
         /\ \A m \in 1..Len(acked[i]) : acked'[i][m] = acked[i][m]
         /\ acked'[i][Len(acked[i]) + 1].life = life
<1> DEFINE new == [digest |-> Proposed(i), life |-> life]
           receipt == ReceiptFor(Proposed(i))
           A == [digest : Digest, life : Nat]
<1>1. /\ RunSound /\ acked \in [Item -> Seq(A)]
      /\ committed \in [Item -> Receipt \cup {None}] /\ life \in Nat
  BY LifeType DEF IInv, TypeOK, RunSound
<1>2. /\ Committing(i) /\ committed[i] = None
      /\ committed' = [committed EXCEPT ![i] = receipt]
      /\ acked' = [acked EXCEPT ![i] = Append(acked[i], new)]
  BY DEF Commit, Kept
<1>3. new \in A /\ new.life = life /\ receipt \in Receipt
  BY <1>1, <1>2, ProposedType
<1>4. receipt # None
  BY <1>3, NoneIsNone
<1> DEFINE q == Append(acked[i], new)
<1> HIDE DEF A
<1>5. /\ q \in Seq(A) /\ DOMAIN q = 1..(Len(acked[i]) + 1)
      /\ \A m \in 1..Len(acked[i]) : q[m] = acked[i][m]
      /\ q[Len(acked[i]) + 1] = new
  BY <1>1, <1>3, Appended
<1> HIDE DEF new, receipt, q
<1>6. acked' = [acked EXCEPT ![i] = q]
  BY <1>2 DEF q
<1>7. acked' \in [Item -> Seq(A)] /\ acked'[i] = q
      /\ \A j \in Item \ {i} : acked'[j] = acked[j]
  BY <1>1, <1>5, <1>6
<1>8. committed' \in [Item -> Receipt \cup {None}] /\ committed'[i] # None
      /\ \A j \in Item \ {i} : committed'[j] = committed[j]
  BY <1>1, <1>2, <1>3, <1>4
<1> QED BY <1>2, <1>3, <1>5, <1>7, <1>8 DEF A

LEMMA TypeStep ==
  ASSUME IInv, [Next]_vars
  PROVE  TypeOK'
<1>1. run' \in RunState /\ cache' \subseteq [key : Item \X State, packet : State]
  BY RunSoundStep, CacheStep DEF RunSound
<1>2. TypeOK
  BY DEF IInv
<1>3. CASE Local
  BY <1>1, <1>2, <1>3 DEF TypeOK, Local
<1>4. CASE Begin
  <2>1. committed' \in [Item -> Receipt \cup {None}]
    BY <1>2, <1>4 DEF Begin, Hydrated, TypeOK, Ledger
  <2>2. runs' \in 0..MaxRuns
    BY <1>2, <1>4, KernelAssumption DEF Begin, TypeOK
  <2> QED BY <1>1, <1>2, <1>4, <2>1, <2>2 DEF Begin, TypeOK
<1>5. CASE \E i \in Item : Commit(i)
  <2>1. PICK i \in Item : Commit(i)
    BY <1>5
  <2>2. /\ acked' \in [Item -> Seq([digest : Digest, life : Nat])]
        /\ committed' \in [Item -> Receipt \cup {None}]
    BY <2>1, CommitAcked
  <2> QED BY <1>1, <1>2, <2>1, <2>2 DEF Commit, TypeOK
<1>6. CASE Close \/ CloseFails
  <2>1. Result \in Ledger
    BY <1>2, ResultType DEF TypeOK
  <2> QED BY <1>1, <1>2, <1>6, <2>1 DEF Close, CloseFails, TypeOK
<1>7. CASE Publish
  BY <1>1, <1>2, <1>7 DEF Publish, TypeOK
<1>8. CASE Restart
  <2>1. committed' \in [Item -> Receipt \cup {None}]
    BY <1>8 DEF Restart, Nothing
  <2>2. life' \in 1..MaxLives
    BY <1>2, <1>8, KernelAssumption DEF Restart, TypeOK
  <2> QED BY <1>1, <1>2, <1>8, <2>1, <2>2 DEF Restart, TypeOK
<1> QED BY <1>3, <1>4, <1>5, <1>6, <1>7, <1>8, Kinds

LEMMA ReceiptsMatchStep ==
  ASSUME IInv, [Next]_vars
  PROVE  ReceiptsMatch'
<1>1. ReceiptsMatch /\ Matches(run) /\ run \in RunState
  BY DEF IInv, TypeOK
<1>2. Matches(Result)
  BY <1>1, ResultType DEF Matches
<1>3. ledger' \in {ledger, held, Result} /\ held' \in {held, Result, None}
      /\ (Publish => held # None)
  BY Kinds DEF Local, Begin, Commit, Close, CloseFails, Publish, Restart
<1>4. \A l \in {ledger, held, Result} \ {None} : Matches(l)
  BY <1>1, <1>2 DEF ReceiptsMatch
<1> QED BY <1>3, <1>4 DEF ReceiptsMatch, Matches

LEMMA LedgerKnownStep ==
  ASSUME IInv, [Next]_vars
  PROVE  LedgerKnown'
<1>1. LedgerKnown /\ TypeOK
  BY DEF IInv
<1>2. CASE Local /\ (run'.at # "idle" => run.at # "idle")
  BY <1>1, <1>2 DEF Local, LedgerKnown
<1>3. CASE Begin
  BY <1>1, <1>3 DEF Begin, Hydrated, LedgerKnown, TypeOK
<1>4. CASE \E i \in Item : Commit(i)
  <2>1. PICK i \in Item : Commit(i)
    BY <1>4
  <2>2. \A j \in Item : committed'[j] = None => committed[j] = None
    BY <2>1, CommitAcked
  <2>3. ledger' = ledger /\ run.at # "idle"
    BY <2>1 DEF Commit, Committing
  <2> QED BY <1>1, <2>2, <2>3 DEF LedgerKnown
<1>5. CASE Close \/ CloseFails \/ Publish \/ Restart
  <2>1. run'.at = "idle"
    BY <1>5 DEF Close, CloseFails, Publish, Restart, Idle
  <2> QED BY <2>1 DEF LedgerKnown
<1> QED BY <1>2, <1>3, <1>4, <1>5, Kinds

\* A commit is new to its kernel: what was acknowledged of the item before, was so
\* to another.
LEMMA AckedStep ==
  ASSUME IInv, [Next]_vars
  PROVE  AckedKnown'
<1>1. AckedKnown /\ TypeOK /\ life \in Nat
  BY LifeType DEF IInv
<1>2. CASE acked' = acked /\ life' = life
           /\ \A i \in Item : committed[i] # None => committed'[i] # None
  BY <1>1, <1>2 DEF AckedKnown
<1>3. CASE Begin
  <2>1. \A i \in Item : committed[i] # None => committed'[i] # None
    BY <1>3 DEF Begin, Hydrated
  <2> QED BY <1>2, <1>3, <2>1 DEF Begin
<1>4. CASE \E i \in Item : Commit(i)
  <2>1. PICK i \in Item : Commit(i)
    BY <1>4
  <2> DEFINE n == Len(acked[i])
  <2>2. /\ committed[i] = None /\ committed'[i] # None /\ life' = life
        /\ \A j \in Item \ {i} : acked'[j] = acked[j] /\ committed'[j] = committed[j]
        /\ DOMAIN acked'[i] = 1..(n + 1)
        /\ \A m \in 1..n : acked'[i][m] = acked[i][m]
        /\ acked'[i][n + 1].life = life
    BY <2>1, CommitAcked DEF Commit
  <2>3. /\ n \in Nat /\ DOMAIN acked[i] = 1..n
        /\ \A m \in 1..n : acked[i][m].life \in Nat
    BY <1>1, AckedType
  <2>4. \A m \in 1..n : acked[i][m].life < life
    BY <1>1, <2>2, <2>3 DEF AckedKnown
  <2> HIDE DEF n
  <2>5. \A m \in 1..(n + 1) : m \in 1..n \/ m = n + 1
    BY <2>3
  <2>6. AckedKnown'
    BY <1>1, <2>2, <2>3, <2>5 DEF AckedKnown
  <2> QED BY <2>6
<1>5. CASE Restart
  <2>1. life' = life + 1 /\ acked' = acked
    BY <1>5 DEF Restart
  <2>2. \A i \in Item : \A m \in DOMAIN acked[i] : acked[i][m].life \in Nat
    BY <1>1, AckedType
  <2> QED BY <1>1, <2>1, <2>2 DEF AckedKnown
<1>6. CASE Local \/ Close \/ CloseFails \/ Publish
  BY <1>2, <1>6 DEF Local, Close, CloseFails, Publish
<1> QED BY <1>3, <1>4, <1>5, <1>6, Kinds

-----------------------------------------------------------------------------
(* The invariant, and what follows from it *)

LEMMA Begins == Init => IInv
<1> SUFFICES ASSUME Init PROVE IInv
  OBVIOUS
<1>1. Idle \in RunState
  BY IdleType
<1>2. life \in 1..MaxLives /\ runs \in 0..MaxRuns
  BY KernelAssumption DEF Init
<1>3. acked \in [Item -> Seq([digest : Digest, life : Nat])]
      /\ \A i \in Item : DOMAIN acked[i] = {}
  BY DEF Init
<1>4. TypeOK
  BY <1>1, <1>2, <1>3, FirstLedgersAssumption DEF Init, TypeOK, Nothing
<1>5. run.at = "idle" /\ run.packets = Nothing /\ run.receipts = Nothing
  BY DEF Init, Idle
<1>6. StateKnown /\ CacheSound /\ PacketsAreCurrent /\ Matches(run) /\ LedgerKnown
  BY <1>5 DEF Init, StateKnown, CacheSound, PacketsAreCurrent, Matches, LedgerKnown, Nothing
<1>7. ReceiptsMatch
  BY FirstLedgersAssumption DEF Init, ReceiptsMatch
<1>8. AckedKnown
  BY <1>3 DEF AckedKnown
<1> QED BY <1>4, <1>6, <1>7, <1>8 DEF IInv

LEMMA Preserved == IInv /\ [Next]_vars => IInv'
<1> SUFFICES ASSUME IInv, [Next]_vars PROVE IInv'
  OBVIOUS
<1>1. TypeOK'
  BY TypeStep
<1>2. StateKnown' /\ PacketsAreCurrent' /\ Matches(run)'
  BY RunSoundStep DEF RunSound
<1>3. CacheSound'
  BY CacheStep
<1>4. ReceiptsMatch'
  BY ReceiptsMatchStep
<1>5. LedgerKnown'
  BY LedgerKnownStep
<1>6. AckedKnown'
  BY AckedStep
<1> QED BY <1>1, <1>2, <1>3, <1>4, <1>5, <1>6 DEF IInv

LEMMA Invariant == Spec => []IInv
BY Begins, Preserved, PTL DEF Spec

-----------------------------------------------------------------------------
(* The queue of chunks, and what becomes of every WorkItem.  A second inductive *)
(* invariant, for which the first one is known.                              *)

\* A WorkItem that is still to be inspected: in a chunk, or not cut yet ...
Waiting(r, i) == i \in r.rest \/ \E k \in DOMAIN r.work : i \in r.work[k]

\* ... and in one place only.
WaitOnce(r) ==
  /\ \A k \in DOMAIN r.work : r.work[k] \cap r.rest = {}
  /\ \A k, m \in DOMAIN r.work : k # m => r.work[k] \cap r.work[m] = {}

\* The plugin raises on bad WorkItems only, and their chunks are split.
Isolating(d) == d.split /\ "plugin" \notin d.faults

Blamed(d, r, i) == Isolating(d) => (r.packets[i] = None <=> i \in d.poison)

\* An inspected WorkItem has a packet or has failed, once.
Examined(d, r, i) ==
  /\ r.decisions[i] = None
  /\ r.failures[i] = IF r.packets[i] = None THEN 1 ELSE 0
  /\ Blamed(d, r, i)

Unseen(r, i) == r.decisions[i] = None /\ r.packets[i] = None /\ r.failures[i] = 0

\* While the decisions are made: it failed, or is decided, or will be.
Underway(d, r, i) ==
  /\ r.failures[i] \in {0, 1}
  /\ r.failures[i] = 1 => r.decisions[i] = None
  /\ r.packets[i] = None => r.failures[i] = 1
  /\ Blamed(d, r, i)

\* What is proposed about a WorkItem is neither decided nor refused yet.
Open(r, i) == r.proposals[i] # None => r.failures[i] = 0 /\ r.decisions[i] = None

Settled(r, i) == r.failures[i] = IF r.decisions[i] # None THEN 0 ELSE 1

Orderly(d, r) ==
  /\ r.at = "inspect" =>
       /\ WaitOnce(r)
       /\ \A i \in r.items : IF Waiting(r, i) THEN Unseen(r, i) ELSE Examined(d, r, i)
  /\ r.at \in {"decide", "commit"} => \A i \in r.items : Underway(d, r, i)
  /\ r.at = "commit" => \A i \in r.items : Open(r, i)
  /\ r.at = "close" => \A i \in r.items : Settled(r, i)

\* Only a WorkItem that was inspected without an error is in the cache.
CacheClean == \A c \in cache : c.key[1] \notin deployment.poison

Tidy == Orderly(deployment, run) /\ CacheClean

\* Cutting a chunk keeps what waits.
LEMMA CutQueue ==
  ASSUME NEW r \in RunState, r.at = "inspect", r.work = <<>>
  PROVE  LET s == Cut(r) IN
         /\ s.at \in {"inspect", "decide"}
         /\ s.at = "decide" => r.rest = {}
         /\ s.at = "inspect" => WaitOnce(s) /\ \A i : Waiting(s, i) <=> i \in r.rest
<1> DEFINE s == Cut(r)
           c == First(r.rest, CutSize(r))
<1>1. CASE r.rest = {}
  <2>1. s = [r EXCEPT !.at = "decide"]
    BY <1>1 DEF Cut
  <2>2. s.at = "decide"
    BY <2>1 DEF RunState
  <2> QED BY <1>1, <2>2
<1>2. CASE r.rest # {}
  <2>1. c \subseteq r.rest
    BY DEF First
  <2>2. s = [r EXCEPT !.work = <<c>>, !.rest = r.rest \ c, !.learned = 0, !.splitting = FALSE]
    BY <1>2 DEF Cut
  <2> HIDE DEF c
  <2>3. s.at = r.at /\ s.work = <<c>> /\ s.rest = r.rest \ c
    BY <2>2 DEF RunState
  <2>4. DOMAIN s.work = {1} /\ s.work[1] = c
    BY <2>3
  <2> HIDE DEF s
  <2>5. WaitOnce(s) /\ \A i : Waiting(s, i) <=> i \in r.rest
    BY <2>1, <2>3, <2>4 DEF WaitOnce, Waiting
  <2> QED BY <2>3, <2>5 DEF s
<1> QED BY <1>1, <1>2

\* The chunks of a queue without the first.
LEMMA Behind ==
  ASSUME NEW w \in Seq(SUBSET Item), w # <<>>
  PROVE  /\ 1 \in DOMAIN w /\ Head(w) = w[1]
         /\ \A k \in DOMAIN Tail(w) : k + 1 \in DOMAIN w /\ k + 1 # 1 /\ Tail(w)[k] = w[k + 1]
         /\ \A k \in DOMAIN w : k # 1 => k - 1 \in DOMAIN Tail(w) /\ Tail(w)[k - 1] = w[k]
         /\ \A k, m \in DOMAIN Tail(w) : k # m => k + 1 # m + 1
         /\ Tail(w) = <<>> => DOMAIN w = {1}
<1>1. Len(w) \in Nat \ {0} /\ DOMAIN w = 1..Len(w) /\ Tail(w) \in Seq(SUBSET Item)
  OBVIOUS
<1>2. /\ Len(Tail(w)) = Len(w) - 1 /\ DOMAIN Tail(w) = 1..(Len(w) - 1)
      /\ \A k \in 1..(Len(w) - 1) : Tail(w)[k] = w[k + 1]
  BY <1>1
<1>3. \A k \in 1..(Len(w) - 1) : k \in Int /\ k + 1 \in 1..Len(w) /\ k + 1 # 1
  BY <1>1
<1>4. \A k \in 1..Len(w) : k # 1 => k - 1 \in 1..(Len(w) - 1) /\ (k - 1) + 1 = k
  BY <1>1
<1>5. ASSUME Tail(w) = <<>> PROVE Len(w) = 1
  <2>1. DOMAIN <<>> = {}
    OBVIOUS
  <2>2. 1..(Len(w) - 1) = {}
    BY <1>2, <1>5, <2>1
  <2>3. ASSUME 1 <= Len(w) - 1 PROVE FALSE
    <3>1. 1 \in 1..(Len(w) - 1)
      BY <1>1, <2>3
    <3> QED BY <2>2, <3>1
  <2> QED BY <1>1, <2>3
<1>6. \A k \in DOMAIN w : k # 1 => k - 1 \in DOMAIN Tail(w) /\ Tail(w)[k - 1] = w[k]
  BY <1>1, <1>2, <1>4
<1> QED BY <1>1, <1>2, <1>3, <1>5, <1>6

\* When a call of inspect_chunk returns, its chunk waits no longer, and all others do.
LEMMA ReturnedQueue ==
  ASSUME NEW r \in RunState, r.at = "inspect", r.work # <<>>, NEW n \in Nat, WaitOnce(r)
  PROVE  LET s == Returned(r, n) IN
         /\ s.at \in {"inspect", "decide"}
         /\ s.at = "decide" => \A i : Waiting(r, i) => i \in Head(r.work)
         /\ s.at = "inspect" =>
              /\ WaitOnce(s)
              /\ \A i : Waiting(s, i) <=> Waiting(r, i) /\ i \notin Head(r.work)
<1> DEFINE t == [r EXCEPT !.work = Tail(@), !.learned = Larger(@, n)]
<1>1. Tail(r.work) \in Seq(SUBSET Item) /\ Larger(r.learned, n) \in Nat
  BY DEF RunState, Larger
<1>2. /\ t \in RunState /\ t.at = r.at /\ t.rest = r.rest /\ t.work = Tail(r.work)
  BY <1>1 DEF RunState
<1>3. Returned(r, n) = IF t.work = <<>> THEN Cut(Adapted(t)) ELSE t
  BY DEF Returned
<1> HIDE DEF t
<1> DEFINE w == r.work
<1>4. r.work \in Seq(SUBSET Item)
  BY DEF RunState
<1>5. /\ 1 \in DOMAIN w /\ Head(w) = w[1]
      /\ \A k \in DOMAIN Tail(w) : k + 1 \in DOMAIN w /\ k + 1 # 1 /\ Tail(w)[k] = w[k + 1]
      /\ \A k \in DOMAIN w : k # 1 => k - 1 \in DOMAIN Tail(w) /\ Tail(w)[k - 1] = w[k]
      /\ \A k, m \in DOMAIN Tail(w) : k # m => k + 1 # m + 1
      /\ Tail(w) = <<>> => DOMAIN w = {1}
  BY <1>4, Behind
<1>6. WaitOnce(t)
  BY <1>2, <1>5 DEF WaitOnce
<1>7. \A i : Waiting(t, i) <=> Waiting(r, i) /\ i \notin Head(r.work)
  <2> TAKE i
  <2>1. ASSUME Waiting(t, i) PROVE Waiting(r, i) /\ i \notin Head(r.work)
    BY <1>2, <1>5, <2>1 DEF Waiting, WaitOnce
  <2>2. ASSUME Waiting(r, i), i \notin Head(r.work) PROVE Waiting(t, i)
    BY <1>2, <1>5, <2>2 DEF Waiting
  <2> QED BY <2>1, <2>2
<1>8. CASE t.work # <<>>
  BY <1>2, <1>3, <1>6, <1>7, <1>8
<1>9. CASE t.work = <<>>
  <2> DEFINE a == Adapted(t)
  <2>1. a \in RunState /\ a.at = "inspect" /\ a.work = <<>> /\ a.rest = t.rest
    <3>1. a \in RunState /\ a.at = t.at
      BY <1>2, AdaptedType
    <3>2. a.work = t.work /\ a.rest = t.rest
      BY <1>2 DEF Adapted, RunState
    <3> QED BY <1>2, <1>9, <3>1, <3>2
  <2>2. Returned(r, n) = Cut(a)
    BY <1>3, <1>9
  <2> HIDE DEF a
  <2>3. \A i : Waiting(t, i) <=> i \in a.rest
    BY <1>9, <2>1 DEF Waiting
  <2>4. DOMAIN w = {1}
    BY <1>2, <1>5, <1>9
  <2>5. a.rest = {} => \A i : Waiting(r, i) => i \in Head(r.work)
    BY <1>7, <2>3
  <2>6. LET s == Cut(a) IN
        /\ s.at \in {"inspect", "decide"}
        /\ s.at = "decide" => a.rest = {}
        /\ s.at = "inspect" => WaitOnce(s) /\ \A i : Waiting(s, i) <=> i \in a.rest
    BY <2>1, CutQueue
  <2> QED BY <1>7, <2>2, <2>3, <2>5, <2>6
<1> QED BY <1>8, <1>9

\* A chunk that is split waits on, in two parts; what was found of it does not.
LEMMA HalvedQueue ==
  ASSUME NEW r \in RunState, r.work # <<>>, WaitOnce(r),
         NEW chunk \in SUBSET Head(r.work)
  PROVE  LET s == Halved(r, chunk) IN
         /\ WaitOnce(s)
         /\ \A i : Waiting(s, i) <=> i \in chunk \/ (Waiting(r, i) /\ i \notin Head(r.work))
<1> DEFINE half == First(chunk, Cardinality(chunk) \div 2)
           other == chunk \ half
           w == r.work
           q == <<half, other>> \o Tail(w)
           s == Halved(r, chunk)
<1>1. half \subseteq chunk
  BY DEF First
<1>2. s = [r EXCEPT !.work = q, !.splitting = TRUE]
  BY DEF Halved
<1>3. r.work \in Seq(SUBSET Item)
  BY DEF RunState
<1>4. /\ 1 \in DOMAIN w /\ Head(w) = w[1]
      /\ \A k \in DOMAIN Tail(w) : k + 1 \in DOMAIN w /\ k + 1 # 1 /\ Tail(w)[k] = w[k + 1]
      /\ \A k \in DOMAIN w : k # 1 => k - 1 \in DOMAIN Tail(w) /\ Tail(w)[k - 1] = w[k]
      /\ \A k, m \in DOMAIN Tail(w) : k # m => k + 1 # m + 1
  BY <1>3, Behind
<1> HIDE DEF half
<1>5. chunk = half \cup other /\ half \cap other = {} /\ half \in SUBSET Item /\ other \in SUBSET Item
  BY <1>1, <1>3, <1>4
<1> HIDE DEF other
<1>6. s.work = q /\ s.rest = r.rest
  BY <1>2 DEF RunState
<1> HIDE DEF s
<1>7. /\ Tail(w) \in Seq(SUBSET Item) /\ <<half, other>> \in Seq(SUBSET Item)
      /\ Len(Tail(w)) \in Nat /\ DOMAIN Tail(w) = 1..Len(Tail(w))
  BY <1>3, <1>5
<1> DEFINE n == Len(Tail(w))
<1>8. /\ Len(q) = n + 2 /\ DOMAIN q = 1..(n + 2) /\ q[1] = half /\ q[2] = other
      /\ \A k \in 3..(n + 2) : q[k] = Tail(w)[k - 2]
  BY <1>7
<1>n. n \in Nat /\ DOMAIN Tail(w) = 1..n
  BY <1>7
<1> HIDE DEF n
<1>9. \A k \in 1..(n + 2) : k = 1 \/ k = 2 \/ (k - 2 \in 1..n /\ k \in 3..(n + 2))
  BY <1>n
<1>10. \A k \in DOMAIN Tail(w) : k + 2 \in DOMAIN q /\ q[k + 2] = Tail(w)[k]
  <2>1. \A k \in 1..n : k + 2 \in 3..(n + 2) /\ (k + 2) - 2 = k
    BY <1>n
  <2>2. \A k \in 3..(n + 2) : k \in 1..(n + 2)
    BY <1>n
  <2> QED BY <1>n, <1>8, <2>1, <2>2
<1>11. 1 \in DOMAIN q /\ 2 \in DOMAIN q
  BY <1>n, <1>8
<1>12. \A k, m \in 1..(n + 2) : k # m => k - 2 # m - 2
  BY <1>n
<1>13. \A k \in DOMAIN q : k = 1 \/ k = 2 \/ (k - 2 \in DOMAIN Tail(w) /\ q[k] = Tail(w)[k - 2])
  BY <1>n, <1>8, <1>9
<1> HIDE DEF q
<1>14. \A i : Waiting(s, i) <=> i \in chunk \/ (Waiting(r, i) /\ i \notin Head(r.work))
  <2> TAKE i
  <2>1. ASSUME Waiting(s, i)
        PROVE  i \in chunk \/ (Waiting(r, i) /\ i \notin Head(r.work))
    <3>1. CASE i \in r.rest
      BY <1>4, <3>1 DEF Waiting, WaitOnce
    <3>2. ASSUME NEW k \in DOMAIN q, i \in q[k]
          PROVE  i \in chunk \/ (Waiting(r, i) /\ i \notin Head(r.work))
      <4>1. CASE k = 1 \/ k = 2
        <5>1. i \in half \/ i \in other
          BY <1>8, <3>2, <4>1
        <5> QED BY <1>5, <5>1
      <4>2. CASE k - 2 \in DOMAIN Tail(w) /\ q[k] = Tail(w)[k - 2]
        <5> DEFINE m == k - 2
        <5>1. m \in DOMAIN Tail(w) /\ i \in Tail(w)[m]
          BY <3>2, <4>2
        <5> HIDE DEF m
        <5>2. m + 1 \in DOMAIN w /\ m + 1 # 1 /\ i \in w[m + 1]
          BY <1>4, <5>1
        <5> QED BY <1>4, <5>2 DEF Waiting, WaitOnce
      <4> QED BY <1>13, <3>2, <4>1, <4>2
    <3> QED BY <1>6, <2>1, <3>1, <3>2 DEF Waiting
  <2>2. ASSUME i \in chunk PROVE Waiting(s, i)
    BY <1>5, <1>6, <1>8, <1>11, <2>2 DEF Waiting
  <2>3. ASSUME Waiting(r, i), i \notin Head(r.work) PROVE Waiting(s, i)
    <3>1. CASE i \in r.rest
      BY <1>6, <3>1 DEF Waiting
    <3>2. ASSUME NEW k \in DOMAIN w, i \in w[k] PROVE Waiting(s, i)
      <4>1. k - 1 \in DOMAIN Tail(w) /\ i \in Tail(w)[k - 1]
        BY <1>4, <2>3, <3>2
      <4> QED BY <1>6, <1>10, <4>1 DEF Waiting
    <3> QED BY <2>3, <3>1, <3>2 DEF Waiting
  <2> QED BY <2>1, <2>2, <2>3
<1>15. WaitOnce(s)
  <2>1. \A m \in DOMAIN Tail(w) : /\ Tail(w)[m] \cap r.rest = {}
                                 /\ Tail(w)[m] \cap Head(w) = {}
    BY <1>4 DEF WaitOnce
  <2>2. \A k, m \in DOMAIN Tail(w) : k # m => Tail(w)[k] \cap Tail(w)[m] = {}
    BY <1>4 DEF WaitOnce
  <2>3. half \subseteq Head(w) /\ other \subseteq Head(w) /\ Head(w) \cap r.rest = {}
    BY <1>4, <1>5 DEF WaitOnce
  <2>4. ASSUME NEW k \in DOMAIN q PROVE q[k] \cap r.rest = {}
    BY <1>8, <1>13, <2>1, <2>3
  <2>5. ASSUME NEW k \in DOMAIN q, NEW m \in DOMAIN q, k # m PROVE q[k] \cap q[m] = {}
    <3>1. k \in 1..(n + 2) /\ m \in 1..(n + 2)
      BY <1>8
    <3>2. k - 2 # m - 2
      BY <1>12, <2>5, <3>1
    <3> QED BY <1>5, <1>8, <1>13, <2>1, <2>2, <2>3, <2>5, <3>2, ZenonT(60)
  <2> QED BY <1>6, <2>4, <2>5 DEF WaitOnce
<1> QED BY <1>14, <1>15 DEF s

\* A chunk is dealt with.
LEMMA ReturnedOrderly ==
  ASSUME NEW d, NEW r \in RunState, r.at = "inspect", r.work # <<>>, NEW n \in Nat, WaitOnce(r),
         \A i \in r.items : IF Waiting(r, i) /\ i \notin Head(r.work)
                            THEN Unseen(r, i) ELSE Examined(d, r, i)
  PROVE  Orderly(d, Returned(r, n))
<1> DEFINE s == Returned(r, n)
<1>1. /\ s.items = r.items /\ s.packets = r.packets
      /\ s.decisions = r.decisions /\ s.failures = r.failures
  BY ReturnedType DEF SameResults
<1>2. /\ s.at \in {"inspect", "decide"}
      /\ s.at = "decide" => \A i : Waiting(r, i) => i \in Head(r.work)
      /\ s.at = "inspect" =>
           /\ WaitOnce(s)
           /\ \A i : Waiting(s, i) <=> Waiting(r, i) /\ i \notin Head(r.work)
  BY ReturnedQueue
<1> HIDE DEF s
<1>3. \A i \in r.items : /\ Unseen(r, i) => Unseen(s, i)
                         /\ Examined(d, r, i) => Examined(d, s, i) /\ Underway(d, s, i)
  BY <1>1 DEF Unseen, Examined, Underway, Blamed
<1> QED BY <1>1, <1>2, <1>3 DEF Orderly, s

\* A chunk is split.
LEMMA HalvedOrderly ==
  ASSUME NEW d, NEW r \in RunState, r.at = "inspect", r.work # <<>>, WaitOnce(r),
         NEW chunk \in SUBSET Head(r.work), chunk \in SUBSET Item,
         \A i \in r.items : IF i \in chunk \/ (Waiting(r, i) /\ i \notin Head(r.work))
                            THEN Unseen(r, i) ELSE Examined(d, r, i)
  PROVE  Orderly(d, Halved(r, chunk))
<1> DEFINE s == Halved(r, chunk)
<1>1. /\ s.items = r.items /\ s.packets = r.packets /\ s.at = "inspect"
      /\ s.decisions = r.decisions /\ s.failures = r.failures
  BY HalvedType DEF SameResults
<1>2. /\ WaitOnce(s)
      /\ \A i : Waiting(s, i) <=> i \in chunk \/ (Waiting(r, i) /\ i \notin Head(r.work))
  BY HalvedQueue
<1> HIDE DEF s
<1>3. \A i \in r.items : /\ Unseen(r, i) => Unseen(s, i)
                         /\ Examined(d, r, i) => Examined(d, s, i)
  BY <1>1 DEF Unseen, Examined, Blamed
<1> QED BY <1>1, <1>2, <1>3 DEF Orderly, s

\* What the cache is asked for: a WorkItem of the chunk that it has is good and gets its
\* packet, all others keep what they have.
LEMMA FoundClean ==
  ASSUME TypeOK, CacheClean, NEW chunk \in SUBSET Item
  PROVE  /\ \A i \in Hits(chunk) : Found(chunk)[i] # None /\ i \notin deployment.poison
         /\ \A i \in Item \ Hits(chunk) : Found(chunk)[i] = run.packets[i]
<1>1. ASSUME NEW i \in Hits(chunk)
      PROVE  Found(chunk)[i] # None /\ i \notin deployment.poison
  <2>1. PICK c \in Cached(i) : c = (CHOOSE d \in Cached(i) : TRUE)
    BY <1>1 DEF Hits
  <2>2. c \in cache /\ c.key = <<i, run.state[i]>>
    BY <2>1 DEF Cached, Key
  <2>3. c.packet \in State /\ c.key[1] \notin deployment.poison
    BY <2>2 DEF TypeOK, CacheClean
  <2>4. Found(chunk)[i] = c.packet
    BY <1>1, <2>1 DEF Found, Hits
  <2> QED BY <2>2, <2>3, <2>4, NoneIsNone
<1> QED BY <1>1 DEF Found

\* The inspection of a chunk starts from an orderly Run and has the cache's packets first.
LEMMA ChunkInHand ==
  ASSUME TypeOK, Tidy, Inspecting
  PROVE  LET s == [run EXCEPT !.packets = Found(Chunk)] IN
         /\ s \in RunState /\ s.at = "inspect" /\ s.work = run.work /\ s.work # <<>>
         /\ s.items = run.items /\ WaitOnce(s)
         /\ \A i : Waiting(s, i) <=> Waiting(run, i)
         /\ Head(s.work) = Chunk /\ Asked \subseteq Chunk /\ Chunk \subseteq Item
         /\ \A i \in Chunk : Waiting(s, i)
         /\ \A i \in s.items :
              /\ i \in Asked => Unseen(s, i)
              /\ Waiting(s, i) /\ i \notin Chunk => Unseen(s, i)
              /\ ~Waiting(s, i) => Examined(deployment, s, i)
              /\ i \in Chunk \ Asked => Examined(deployment, s, i)
<1> DEFINE s == [run EXCEPT !.packets = Found(Chunk)]
<1>1. /\ run \in RunState /\ run.work # <<>> /\ Chunk \in SUBSET Item /\ Asked \in SUBSET Chunk
      /\ run.at = "inspect" /\ run.items \in SUBSET Item
  BY ChunkType DEF Inspecting, RunState
<1>2. Found(Chunk) \in [Item -> State \cup {None}]
  <2>1. \A i \in Hits(Chunk) : Found(Chunk)[i] \in State
    <3> TAKE i \in Hits(Chunk)
    <3>1. PICK c \in Cached(i) : c = (CHOOSE d \in Cached(i) : TRUE)
      BY DEF Hits
    <3>2. c.packet \in State /\ Found(Chunk)[i] = c.packet
      BY <1>1, <3>1 DEF Cached, TypeOK, Found, Hits
    <3> QED BY <3>2
  <2>2. run.packets \in [Item -> State \cup {None}]
    BY <1>1 DEF RunState
  <2>3. \A i \in Item \ Hits(Chunk) : Found(Chunk)[i] = run.packets[i]
    BY DEF Found
  <2>4. \A i \in Item : Found(Chunk)[i] \in State \cup {None}
    BY <2>1, <2>2, <2>3
  <2>5. Found(Chunk) = [i \in Item |-> Found(Chunk)[i]]
    BY DEF Found
  <2> QED BY <2>4, <2>5
<1>3. /\ s \in RunState /\ s.at = run.at /\ s.work = run.work /\ s.packets = Found(Chunk)
      /\ s.items = run.items /\ s.rest = run.rest
      /\ s.decisions = run.decisions /\ s.failures = run.failures
  BY <1>1, <1>2, PacketsType
<1> HIDE DEF s
<1>4. /\ WaitOnce(run)
      /\ \A i \in run.items : IF Waiting(run, i) THEN Unseen(run, i)
                              ELSE Examined(deployment, run, i)
  BY <1>1 DEF Tidy, Orderly
<1>5. WaitOnce(s) /\ \A i : Waiting(s, i) <=> Waiting(run, i)
  BY <1>3, <1>4 DEF WaitOnce, Waiting
<1>6. 1 \in DOMAIN run.work /\ Head(run.work) = run.work[1]
  BY <1>1, Behind DEF RunState
<1>7. Head(s.work) = Chunk /\ \A i \in Chunk : Waiting(run, i)
  BY <1>3, <1>6 DEF Chunk, Waiting
<1>8. /\ \A i \in Hits(Chunk) : s.packets[i] # None /\ i \notin deployment.poison
      /\ \A i \in Item \ Hits(Chunk) : s.packets[i] = run.packets[i]
  BY <1>1, <1>3, FoundClean DEF Tidy
<1>9. Hits(Chunk) \subseteq Chunk /\ Asked = Chunk \ Hits(Chunk)
  BY DEF Hits, Asked, Pending
<1>10. \A i \in run.items \ Hits(Chunk) :
         /\ Unseen(run, i) => Unseen(s, i)
         /\ Examined(deployment, run, i) => Examined(deployment, s, i)
  BY <1>1, <1>3, <1>8 DEF Unseen, Examined, Blamed
<1>11. \A i \in run.items \cap Hits(Chunk) : Examined(deployment, s, i)
  BY <1>3, <1>4, <1>7, <1>8, <1>9 DEF Unseen, Examined, Blamed
<1> QED BY <1>1, <1>3, <1>4, <1>5, <1>7, <1>9, <1>10, <1>11 DEF s

-----------------------------------------------------------------------------
(* Every step leaves an orderly Run *)

LEMMA ReuseOrderly ==
  ASSUME TypeOK, Tidy, Reuse
  PROVE  Orderly(deployment, run')
<1> DEFINE s == [run EXCEPT !.packets = Found(Chunk)]
<1>1. run' = Returned(s, 0) /\ Asked = {} /\ Inspecting
  BY DEF Reuse
<1>2. /\ s \in RunState /\ s.at = "inspect" /\ s.work # <<>> /\ WaitOnce(s)
      /\ Head(s.work) = Chunk
      /\ \A i \in s.items : /\ Waiting(s, i) /\ i \notin Chunk => Unseen(s, i)
                            /\ ~Waiting(s, i) => Examined(deployment, s, i)
                            /\ i \in Chunk \ Asked => Examined(deployment, s, i)
  BY <1>1, ChunkInHand
<1> HIDE DEF s
<1> QED BY <1>1, <1>2, ReturnedOrderly

LEMMA InspectSucceedsOrderly ==
  ASSUME TypeOK, StateKnown, Tidy, InspectSucceeds
  PROVE  Orderly(deployment, run')
<1> DEFINE s == [run EXCEPT !.packets = Found(Chunk)]
           Filled(f) == [i \in Item |-> IF i \in Asked THEN f[i] ELSE Found(Chunk)[i]]
<1>1. PICK packets \in [Asked -> State] :
        run' = Returned([run EXCEPT !.packets = Filled(packets)], Cardinality(Asked))
  BY DEF InspectSucceeds
<1>2. Inspecting /\ Asked \cap deployment.poison = {}
  BY DEF InspectSucceeds
<1>3. /\ run \in RunState /\ Asked \in SUBSET Item /\ Cardinality(Asked) \in Nat
  BY <1>2, ChunkType
<1>4. /\ s \in RunState /\ s.at = "inspect" /\ s.work # <<>> /\ WaitOnce(s)
      /\ Head(s.work) = Chunk /\ Asked \subseteq Chunk /\ s.work = run.work
      /\ s.items = run.items /\ \A i \in Chunk : Waiting(s, i)
      /\ \A i \in s.items : /\ i \in Asked => Unseen(s, i)
                            /\ Waiting(s, i) /\ i \notin Chunk => Unseen(s, i)
                            /\ ~Waiting(s, i) => Examined(deployment, s, i)
                            /\ i \in Chunk \ Asked => Examined(deployment, s, i)
  BY <1>2, ChunkInHand
<1> DEFINE filled == Filled(packets)
           t == [s EXCEPT !.packets = filled]
<1>5. s.packets = Found(Chunk)
  BY <1>3 DEF RunState
<1>6. filled \in [Item -> State \cup {None}]
  <2>1. \A i \in Item : s.packets[i] \in State \cup {None}
    BY <1>4 DEF RunState
  <2> HIDE DEF s
  <2> QED BY <1>3, <1>5, <2>1
<1>7. /\ \A i \in Asked : filled[i] # None
      /\ \A i \in Item \ Asked : filled[i] = s.packets[i]
  <2> HIDE DEF s
  <2> QED BY <1>3, <1>5, NoneIsNone
<1>8. [run EXCEPT !.packets = filled] = t
  BY <1>3 DEF RunState
<1>9. run' = Returned(t, Cardinality(Asked))
  BY <1>1, <1>8
<1> HIDE DEF s, filled
<1>10. /\ t \in RunState /\ t.at = s.at /\ t.work = s.work /\ t.rest = s.rest
       /\ t.packets = filled /\ t.items = s.items
       /\ t.decisions = s.decisions /\ t.failures = s.failures
  BY <1>4, <1>6, PacketsType
<1> HIDE DEF t
<1>11. WaitOnce(t) /\ \A i : Waiting(t, i) <=> Waiting(s, i)
  BY <1>4, <1>10 DEF WaitOnce, Waiting
<1>12. s.items \subseteq Item
  BY <1>4 DEF RunState
<1>13. \A i \in s.items \cap Asked : Examined(deployment, t, i)
  BY <1>2, <1>4, <1>7, <1>10, <1>12 DEF Unseen, Examined, Blamed
<1>14. \A i \in s.items \ Asked : /\ Unseen(s, i) => Unseen(t, i)
                                  /\ Examined(deployment, s, i) => Examined(deployment, t, i)
  BY <1>7, <1>10, <1>12 DEF Unseen, Examined, Blamed
<1>15. \A i \in t.items : IF Waiting(t, i) /\ i \notin Head(t.work)
                          THEN Unseen(t, i) ELSE Examined(deployment, t, i)
  BY <1>4, <1>10, <1>11, <1>13, <1>14
<1> QED BY <1>3, <1>4, <1>9, <1>10, <1>11, <1>15, ReturnedOrderly

\* A chunk that is not split and is not empty is one WorkItem.
LEMMA OneInChunk ==
  ASSUME NEW S, IsFiniteSet(S), ~(Cardinality(S) > 1), NEW i \in S, NEW j \in S
  PROVE  i = j
<1> SUFFICES ASSUME i # j PROVE FALSE
  OBVIOUS
<1>1. IsFiniteSet({i}) /\ Cardinality({i}) = 1
  BY FS_Singleton
<1> DEFINE one == {i}
<1>2. IsFiniteSet({i} \cup {j}) /\ Cardinality({i} \cup {j}) = 2
  <2>1. IsFiniteSet(one) /\ Cardinality(one) = 1 /\ j \notin one
    BY <1>1
  <2> HIDE DEF one
  <2>2. IsFiniteSet(one \cup {j}) /\ Cardinality(one \cup {j}) = Cardinality(one) + 1
    BY <2>1, FS_AddElement
  <2> QED BY <2>1, <2>2 DEF one
<1>3. {i} \cup {j} \in SUBSET S
  OBVIOUS
<1>4. Cardinality({i} \cup {j}) <= Cardinality(S) /\ Cardinality(S) \in Nat
  BY <1>3, FS_Subset, FS_CardinalityType
<1> QED BY <1>2, <1>4

LEMMA InspectFailsOrderly ==
  ASSUME TypeOK, Tidy, InspectFails
  PROVE  Orderly(deployment, run')
<1> DEFINE s == [run EXCEPT !.packets = Found(Chunk)]
<1>1. /\ Inspecting
      /\ run' = IF Splits(Asked) THEN Halved(s, Asked) ELSE Returned(Failing(s, Asked), 0)
      /\ Asked \cap deployment.poison = {} => Occurs("plugin")
  BY DEF InspectFails
<1>2. /\ s \in RunState /\ s.at = "inspect" /\ s.work # <<>> /\ WaitOnce(s)
      /\ Head(s.work) = Chunk /\ Asked \subseteq Chunk /\ Chunk \subseteq Item
      /\ \A i \in Chunk : Waiting(s, i)
      /\ \A i \in s.items : /\ i \in Asked => Unseen(s, i)
                            /\ Waiting(s, i) /\ i \notin Chunk => Unseen(s, i)
                            /\ ~Waiting(s, i) => Examined(deployment, s, i)
                            /\ i \in Chunk \ Asked => Examined(deployment, s, i)
  BY <1>1, ChunkInHand
<1> HIDE DEF s
<1>3. CASE Splits(Asked)
  <2>1. \A i \in s.items : IF i \in Asked \/ (Waiting(s, i) /\ i \notin Head(s.work))
                           THEN Unseen(s, i) ELSE Examined(deployment, s, i)
    BY <1>2
  <2>2. Asked \in SUBSET Head(s.work) /\ Asked \in SUBSET Item
    BY <1>2
  <2>3. Orderly(deployment, Halved(s, Asked))
    BY <1>2, <2>1, <2>2, HalvedOrderly
  <2> QED BY <1>1, <1>3, <2>3
<1>4. CASE ~Splits(Asked)
  <2> DEFINE f == Failing(s, Asked)
  <2>1. /\ f \in RunState /\ f.at = s.at /\ f.work = s.work
        /\ f.packets = s.packets /\ f.decisions = s.decisions
    BY <1>2, FailingType
  <2>2. /\ f.items = s.items /\ f.rest = s.rest
        /\ \A i \in Item : f.failures[i] = IF i \in Asked THEN s.failures[i] + 1
                                           ELSE s.failures[i]
    BY <1>2, FailingCounts
  <2>3. run' = Returned(f, 0)
    BY <1>1, <1>4
  <2> HIDE DEF f
  <2>4. s.items \subseteq Item
    BY <1>2 DEF RunState
  <2>5. WaitOnce(f) /\ \A i : Waiting(f, i) <=> Waiting(s, i)
    BY <1>2, <2>1, <2>2 DEF WaitOnce, Waiting
  <2>6. ASSUME NEW i \in Asked, Isolating(deployment) PROVE i \in deployment.poison
    <3>1. PICK j \in Asked : j \in deployment.poison
      BY <1>1, <2>6 DEF Isolating, Occurs
    <3>2. ~(Cardinality(Asked) > 1)
      BY <1>4, <2>6 DEF Splits, Isolating
    <3>3. IsFiniteSet(Asked)
      BY <1>2, KernelAssumption, FS_Subset
    <3> QED BY <3>1, <3>2, <3>3, OneInChunk
  <2>7. \A i \in s.items \cap Asked : Examined(deployment, f, i)
    <3> TAKE i \in s.items \cap Asked
    <3>1. s.decisions[i] = None /\ s.packets[i] = None /\ s.failures[i] = 0
      BY <1>2 DEF Unseen
    <3>2. f.decisions[i] = None /\ f.packets[i] = None /\ f.failures[i] = 1
      BY <2>1, <2>2, <2>4, <3>1
    <3>3. Blamed(deployment, f, i)
      BY <2>6, <3>2 DEF Blamed
    <3> QED BY <3>2, <3>3 DEF Examined
  <2>8. \A i \in s.items \ Asked : /\ Unseen(s, i) => Unseen(f, i)
                                   /\ Examined(deployment, s, i) => Examined(deployment, f, i)
    BY <2>1, <2>2, <2>4 DEF Unseen, Examined, Blamed
  <2>9. \A i \in f.items : IF Waiting(f, i) /\ i \notin Head(f.work)
                           THEN Unseen(f, i) ELSE Examined(deployment, f, i)
    BY <1>2, <2>1, <2>2, <2>5, <2>7, <2>8
  <2>10. 0 \in Nat /\ f.at = "inspect" /\ f.work # <<>>
    BY <1>2, <2>1
  <2> QED BY <2>1, <2>3, <2>5, <2>9, <2>10, ReturnedOrderly
<1> QED BY <1>3, <1>4

LEMMA DiscoverOrderly ==
  ASSUME TypeOK, Discover
  PROVE  Orderly(deployment, run')
<1>1. PICK items \in Scopes, world \in Worlds :
        run' = Cut([Discovered(items, world) EXCEPT !.at = "inspect", !.rest = items])
  BY DEF Discover
<1> DEFINE r == Discovered(items, world)
           s == [r EXCEPT !.at = "inspect", !.rest = items]
<1>2. /\ r \in RunState /\ r.items = items /\ r.work = <<>>
      /\ r.packets = Nothing /\ r.decisions = Nothing /\ r.failures = [i \in Item |-> 0]
  BY KernelAssumption, DiscoveredType DEF TypeOK
<1>3. items \in SUBSET Item
  BY KernelAssumption
<1>4. run' = Cut(s)
  BY <1>1
<1> HIDE DEF r
<1>5. s \in RunState /\ s.at = "inspect" /\ s.rest = items
  BY <1>2, <1>3 DEF RunState
<1>6. /\ s.items = items /\ s.work = <<>> /\ s.packets = Nothing
      /\ s.decisions = Nothing /\ s.failures = [i \in Item |-> 0]
  BY <1>2 DEF RunState
<1> HIDE DEF s
<1>7. SameResults(s, Cut(s))
  BY <1>5, CutType
<1>8. /\ Cut(s).at \in {"inspect", "decide"}
      /\ Cut(s).at = "decide" => s.rest = {}
      /\ Cut(s).at = "inspect" => /\ WaitOnce(Cut(s))
                                  /\ \A i : Waiting(Cut(s), i) <=> i \in s.rest
  BY <1>5, <1>6, CutQueue
<1>9. \A i \in items : Unseen(Cut(s), i)
  BY <1>3, <1>6, <1>7 DEF SameResults, Unseen, Nothing
<1> QED BY <1>4, <1>5, <1>6, <1>7, <1>8, <1>9 DEF Orderly, SameResults

LEMMA DiscoveryFailsOrderly ==
  ASSUME DiscoveryFails
  PROVE  Orderly(deployment, run')
<1> DEFINE r == [Idle EXCEPT !.at = "close", !.forced = "failed"]
<1>1. run' = r
  BY DEF DiscoveryFails
<1>2. Idle.items = {}
  BY DEF Idle
<1>3. r.at = "close" /\ r.items = Idle.items
  BY IdleType DEF RunState
<1> HIDE DEF r
<1> QED BY <1>1, <1>2, <1>3 DEF Orderly

LEMMA BlockedOrderly ==
  ASSUME TypeOK, Blocked
  PROVE  Orderly(deployment, run')
<1> DEFINE Failed(items) == [i \in Item |-> IF i \in items THEN 1 ELSE 0]
<1>1. PICK items \in Scopes, world \in Worlds, status \in {"failed", "completed"} :
        run' = [Discovered(items, world) EXCEPT
                  !.at = "close", !.forced = status, !.failures = Failed(items)]
  BY DEF Blocked
<1> DEFINE r == Discovered(items, world)
           f == Failed(items)
           s == [r EXCEPT !.at = "close", !.forced = status, !.failures = f]
<1>2. r \in RunState /\ r.items = items /\ r.decisions = Nothing
  BY KernelAssumption, DiscoveredType DEF TypeOK
<1>3. items \in SUBSET Item /\ \A i \in items : f[i] = 1
  BY KernelAssumption
<1>4. run' = s
  BY <1>1
<1> HIDE DEF r, f
<1>5. s.at = "close" /\ s.items = items /\ s.decisions = Nothing /\ s.failures = f
  BY <1>2 DEF RunState
<1> HIDE DEF s
<1> QED BY <1>3, <1>4, <1>5 DEF Orderly, Settled, Nothing

LEMMA CapabilityMissingOrderly ==
  ASSUME TypeOK, CapabilityMissing
  PROVE  Orderly(deployment, run')
<1> DEFINE Review(items, world) ==
             [i \in Item |-> IF i \in items THEN [state |-> world[i], proposal |-> Unable]
                             ELSE None]
<1>1. PICK items \in Scopes, world \in Worlds :
        run' = [Discovered(items, world) EXCEPT
                  !.at = "close",
                  !.forced = IF items = {} THEN "completed" ELSE "partial",
                  !.decisions = Review(items, world)]
  BY DEF CapabilityMissing
<1> DEFINE r == Discovered(items, world)
           d == Review(items, world)
           status == IF items = {} THEN "completed" ELSE "partial"
           s == [r EXCEPT !.at = "close", !.forced = status, !.decisions = d]
<1>2. r \in RunState /\ r.items = items /\ r.failures = [i \in Item |-> 0]
  BY KernelAssumption, DiscoveredType, ZenonT(60) DEF TypeOK
<1>3. items \in SUBSET Item /\ world \in [Item -> State]
  BY KernelAssumption
<1>4. \A i \in items : d[i] # None
  <2> TAKE i \in items
  <2>1. d[i] = [state |-> world[i], proposal |-> Unable]
    BY <1>3
  <2>2. d[i] \in Digest
    BY <1>3, <2>1, KernelAssumption DEF Digest
  <2> QED BY <2>2, NoneIsNone
<1>5. run' = s
  BY <1>1
<1> HIDE DEF r, d, status
<1>6. s.at = "close" /\ s.items = items /\ s.decisions = d /\ s.failures = [i \in Item |-> 0]
  BY <1>2 DEF RunState
<1> HIDE DEF s
<1> QED BY <1>3, <1>4, <1>5, <1>6 DEF Orderly, Settled

\* When nothing is left to decide, what has a packet is decided or has failed.
LEMMA NothingToDecideOrderly ==
  ASSUME TypeOK, Tidy, NothingToDecide
  PROVE  Orderly(deployment, run')
<1> DEFINE s == [run EXCEPT !.at = "close"]
<1>1. run' = s /\ run \in RunState /\ run.at = "decide" /\ Undecided = {}
  BY DEF NothingToDecide, TypeOK
<1>2. /\ s.at = "close" /\ s.items = run.items
      /\ s.decisions = run.decisions /\ s.failures = run.failures
  BY <1>1 DEF RunState
<1> HIDE DEF s
<1>3. \A i \in run.items : Underway(deployment, run, i)
  BY <1>1 DEF Tidy, Orderly
<1>4. \A i \in run.items : Settled(run, i)
  BY <1>1, <1>3 DEF Underway, Undecided, Settled
<1> QED BY <1>1, <1>2, <1>4 DEF Orderly, Settled

LEMMA DecideOrderly ==
  ASSUME TypeOK, Tidy, Decide
  PROVE  Orderly(deployment, run')
<1> DEFINE Chosen(f) == [i \in Item |-> IF i \in DecisionChunk THEN f[i] ELSE None]
<1>1. PICK proposals \in [DecisionChunk -> Proposal] :
        run' = [run EXCEPT !.at = "commit", !.proposals = Chosen(proposals)]
  BY DEF Decide
<1> DEFINE chosen == Chosen(proposals)
<1>2. \A i \in Item : chosen[i] # None => i \in Undecided
  BY DEF DecisionChunk, First
<1>3. run' = [run EXCEPT !.at = "commit", !.proposals = chosen]
  BY <1>1
<1> HIDE DEF chosen
<1>4. run \in RunState /\ run.at = "decide" /\ run.items \subseteq Item
  BY DEF TypeOK, Decide, RunState
<1>5. /\ run'.at = "commit" /\ run'.items = run.items /\ run'.packets = run.packets
      /\ run'.decisions = run.decisions /\ run'.failures = run.failures
      /\ run'.proposals = chosen
  BY <1>3, <1>4 DEF RunState
<1>6. \A i \in run.items : Underway(deployment, run, i)
  BY <1>4 DEF Tidy, Orderly
<1>7. \A i \in run.items : Underway(deployment, run', i)
  BY <1>5, <1>6 DEF Underway, Blamed
<1>8. \A i \in run.items : Open(run', i)
  BY <1>2, <1>4, <1>5 DEF Open, Undecided
<1> QED BY <1>5, <1>7, <1>8 DEF Orderly

LEMMA DecideFailsOrderly ==
  ASSUME TypeOK, Tidy, DecideFails
  PROVE  Orderly(deployment, run')
<1> DEFINE f == Failing(run, DecisionChunk)
<1>1. run' = f /\ run \in RunState /\ run.at = "decide" /\ run.items \subseteq Item
  BY DEF DecideFails, TypeOK, RunState
<1>2. f.at = "decide" /\ f.packets = run.packets /\ f.decisions = run.decisions
  BY <1>1, FailingType
<1>3. /\ f.items = run.items
      /\ \A i \in Item : f.failures[i] = IF i \in DecisionChunk THEN run.failures[i] + 1
                                         ELSE run.failures[i]
  BY <1>1, FailingCounts
<1> HIDE DEF f
<1>4. \A i \in run.items : Underway(deployment, run, i)
  BY <1>1 DEF Tidy, Orderly
<1>5. \A i \in DecisionChunk : /\ run.packets[i] # None /\ run.decisions[i] = None
                               /\ run.failures[i] = 0
  BY DEF DecisionChunk, First, Undecided
<1>6. \A i \in run.items : Underway(deployment, f, i)
  BY <1>1, <1>2, <1>3, <1>4, <1>5 DEF Underway, Blamed
<1> QED BY <1>1, <1>2, <1>3, <1>6 DEF Orderly

\* What is committed or replayed was open, and is decided.
LEMMA RecordedOrderly ==
  ASSUME RunSound, Tidy, NEW i \in Item, Committing(i), NEW receipt \in Receipt,
         run' = Recorded(i, receipt)
  PROVE  Orderly(deployment, run')
<1> DEFINE p == Proposed(i)
           d == [run.decisions EXCEPT ![i] = p]
           q == [run.receipts EXCEPT ![i] = receipt]
           s == [run EXCEPT !.decisions = d, !.receipts = q]
<1>1. /\ run \in RunState /\ run.at = "commit" /\ p \in Digest
      /\ run.proposals[i] # None /\ run.items \subseteq Item
  BY ProposedType DEF RunSound, Committing, RunState
<1>2. run' = Dealt(s, i)
  BY DEF Recorded
<1> HIDE DEF p
<1>3. /\ d \in [Item -> Digest \cup {None}] /\ q \in [Item -> Receipt \cup {None}]
      /\ \A j \in Item \ {i} : d[j] = run.decisions[j]
  BY <1>1 DEF RunState
<1> HIDE DEF d, q
<1>4. s \in RunState /\ s.at = "commit"
  BY <1>1, <1>3 DEF RunState
<1>5. /\ s.items = run.items /\ s.packets = run.packets /\ s.failures = run.failures
      /\ s.proposals = run.proposals /\ s.decisions = d
  BY <1>1 DEF RunState
<1> HIDE DEF s
<1>6. /\ run'.at \in {"commit", "decide"}
      /\ run'.packets = s.packets /\ run'.decisions = s.decisions
  BY <1>2, <1>4, DealtType
<1>7. /\ run'.items = s.items /\ run'.failures = s.failures
      /\ \A j \in Item : run'.proposals[j] = IF j = i THEN None ELSE s.proposals[j]
  BY <1>2, <1>4, DealtKeeps
<1>8. \A j \in run.items : Underway(deployment, run, j) /\ Open(run, j)
  BY <1>1 DEF Tidy, Orderly
<1>9. i \in run.items => run.failures[i] = 0
  BY <1>1, <1>8 DEF Open
<1>10. \A j \in run.items : Underway(deployment, run', j)
  BY <1>1, <1>3, <1>5, <1>6, <1>7, <1>8, <1>9 DEF Underway, Blamed
<1>11. \A j \in run.items : Open(run', j)
  BY <1>1, <1>3, <1>5, <1>6, <1>7, <1>8 DEF Open
<1> QED BY <1>5, <1>6, <1>7, <1>10, <1>11 DEF Orderly

\* What is refused was open, and has failed.
LEMMA RefusedOrderly ==
  ASSUME RunSound, Tidy, NEW i \in Item, Committing(i), run' = Refused(i)
  PROVE  Orderly(deployment, run')
<1> DEFINE f == Failing(run, {i})
<1>1. /\ run \in RunState /\ run.at = "commit"
      /\ run.proposals[i] # None /\ run.items \subseteq Item
  BY DEF RunSound, Committing, RunState
<1>2. /\ f \in RunState /\ f.at = "commit"
      /\ f.packets = run.packets /\ f.decisions = run.decisions
  BY <1>1, FailingType
<1>3. /\ f.items = run.items /\ f.proposals = run.proposals
      /\ \A j \in Item : f.failures[j] = IF j \in {i} THEN run.failures[j] + 1
                                         ELSE run.failures[j]
  BY <1>1, FailingCounts
<1>4. run' = Dealt(f, i)
  BY DEF Refused
<1> HIDE DEF f
<1>5. /\ run'.at \in {"commit", "decide"}
      /\ run'.packets = f.packets /\ run'.decisions = f.decisions
  BY <1>2, <1>4, DealtType
<1>6. /\ run'.items = f.items /\ run'.failures = f.failures
      /\ \A j \in Item : run'.proposals[j] = IF j = i THEN None ELSE f.proposals[j]
  BY <1>2, <1>4, DealtKeeps
<1>7. \A j \in run.items : Underway(deployment, run, j) /\ Open(run, j)
  BY <1>1 DEF Tidy, Orderly
<1>8. \A j \in run.items : Underway(deployment, run', j)
  BY <1>1, <1>2, <1>3, <1>5, <1>6, <1>7 DEF Underway, Open, Blamed
<1>9. \A j \in run.items : Open(run', j)
  BY <1>1, <1>2, <1>3, <1>5, <1>6, <1>7 DEF Open
<1> QED BY <1>3, <1>5, <1>6, <1>8, <1>9 DEF Orderly

LEMMA IdleOrderly ==
  ASSUME run' = Idle
  PROVE  Orderly(deployment, run')
BY DEF Orderly, Idle

LEMMA OrderlyStep ==
  ASSUME IInv, Tidy, [Next]_vars
  PROVE  Orderly(deployment, run')
<1>1. RunSound /\ TypeOK /\ StateKnown
  BY DEF IInv, TypeOK, RunSound
<1>2. CASE Discover \/ DiscoveryFails \/ Blocked \/ CapabilityMissing
  BY <1>1, <1>2, DiscoverOrderly, DiscoveryFailsOrderly, BlockedOrderly,
     CapabilityMissingOrderly
<1>3. CASE Reuse \/ InspectSucceeds \/ InspectFails
  BY <1>1, <1>3, ReuseOrderly, InspectSucceedsOrderly, InspectFailsOrderly
<1>4. CASE NothingToDecide \/ Decide \/ DecideFails
  BY <1>1, <1>4, NothingToDecideOrderly, DecideOrderly, DecideFailsOrderly
<1>5. CASE \E i \in Item : Replay(i) \/ Conflict(i) \/ Commit(i) \/ CommitFails(i)
  <2>1. PICK i \in Item : Replay(i) \/ Conflict(i) \/ Commit(i) \/ CommitFails(i)
    BY <1>5
  <2>2. CASE Replay(i)
    <3>1. Committing(i) /\ committed[i] \in Receipt
      BY <1>1, <2>2 DEF Replay, TypeOK
    <3> QED BY <1>1, <2>2, <3>1, RecordedOrderly DEF Replay
  <2>3. CASE Commit(i)
    <3> DEFINE receipt == ReceiptFor(Proposed(i))
    <3>1. Committing(i) /\ run' = Recorded(i, receipt)
      BY <2>3 DEF Commit
    <3>2. receipt \in Receipt
      BY <1>1, <3>1, ProposedType
    <3> HIDE DEF receipt
    <3> QED BY <1>1, <3>1, <3>2, RecordedOrderly
  <2>4. CASE Conflict(i) \/ CommitFails(i)
    BY <1>1, <2>4, RefusedOrderly DEF Conflict, CommitFails
  <2> QED BY <2>1, <2>2, <2>3, <2>4
<1>6. CASE InspectRaises \/ Close \/ CloseFails \/ Restart
  BY <1>6, IdleOrderly DEF InspectRaises, Close, CloseFails, Restart
<1>7. CASE Publish \/ UNCHANGED vars
  BY <1>7 DEF Publish, vars, Tidy
<1> QED BY <1>2, <1>3, <1>4, <1>5, <1>6, <1>7 DEF Next, Step

LEMMA CacheCleanStep ==
  ASSUME IInv, Tidy, [Next]_vars
  PROVE  CacheClean'
<1>1. deployment' = deployment
  BY Kinds DEF Local, Begin, Commit, Close, CloseFails, Publish, Restart
<1>2. CASE InspectSucceeds
  <2> DEFINE New(f) == {[key |-> Key(i, run.state[i]), packet |-> f[i]] : i \in Asked}
  <2>1. PICK packets \in [Asked -> State] :
          cache' = IF deployment.cache THEN cache \cup New(packets) ELSE cache
    BY <1>2 DEF InspectSucceeds
  <2>2. \A c \in New(packets) : c.key[1] \in Asked
    BY DEF Key
  <2>3. Asked \cap deployment.poison = {}
    BY <1>2 DEF InspectSucceeds
  <2> QED BY <1>1, <2>1, <2>2, <2>3 DEF CacheClean, Tidy
<1>3. CASE Restart
  BY <1>3 DEF Restart, CacheClean
<1>4. CASE UNCHANGED cache
  BY <1>1, <1>4 DEF CacheClean, Tidy
<1> QED BY <1>2, <1>3, <1>4
        DEF Next, Step, vars, Discover, DiscoveryFails, Blocked, CapabilityMissing, Begin,
            Reuse, InspectFails, InspectRaises, NothingToDecide, Decide, DecideFails, Replay, Conflict,
            Commit, CommitFails, Close, CloseFails, Publish

LEMMA StaysTidy == Spec => []Tidy
<1>1. Init => Tidy
  BY DEF Init, Idle, Tidy, Orderly, CacheClean
<1>2. IInv /\ Tidy /\ [Next]_vars => Tidy'
  <2> SUFFICES ASSUME IInv, Tidy, [Next]_vars PROVE Tidy'
    OBVIOUS
  <2>1. deployment' = deployment
    BY Kinds DEF Local, Begin, Commit, Close, CloseFails, Publish, Restart
  <2>2. Orderly(deployment, run') /\ CacheClean'
    BY OrderlyStep, CacheCleanStep
  <2> QED BY <2>1, <2>2 DEF Tidy
<1> QED BY <1>1, <1>2, Invariant, PTL DEF Spec

-----------------------------------------------------------------------------
(* What the invariants mean *)

\* Every variable keeps its type.
THEOREM TypeCorrect == Spec => []TypeOK
<1>1. IInv => TypeOK
  BY DEF IInv
<1> QED BY <1>1, Invariant, PTL

\* A decision rests on a packet of the state that its Run discovered, whichever Run
\* filled the cache (_cache_key, inspect_chunk).
THEOREM CurrentPackets == Spec => []PacketsAreCurrent
<1>1. IInv => PacketsAreCurrent
  BY DEF IInv
<1> QED BY <1>1, Invariant, PTL

\* What is stored or returned as a receipt is the receipt of the decision next to it,
\* whether it was committed or replayed, by this kernel or one before it.
THEOREM MatchingReceipts == Spec => []ReceiptsMatch
<1>1. IInv => ReceiptsMatch
  BY DEF IInv
<1> QED BY <1>1, Invariant, PTL

\* A kernel has a receipt of all it had acknowledged, and hydrates those of the store
\* before it commits anything: what either has is not committed again.
THEOREM CommittedOnce == Spec => NeverCommittedAgain
<1> DEFINE Fresh == \A i \in Item : acked'[i] # acked[i] =>
                      /\ \A m \in DOMAIN acked[i] : acked[i][m].life # life
                      /\ ledger = None \/ ledger.receipts[i] = None
<1>1. IInv /\ [Next]_vars => [Fresh]_vars
  <2> SUFFICES ASSUME IInv, [Next]_vars, NEW i \in Item, acked'[i] # acked[i]
               PROVE  /\ \A m \in DOMAIN acked[i] : acked[i][m].life # life
                      /\ ledger = None \/ ledger.receipts[i] = None
    OBVIOUS
  <2>1. PICK j \in Item : Commit(j)
    BY Kinds DEF Local, Begin, Close, CloseFails, Publish, Restart
  <2>2. i = j /\ committed[j] = None /\ run.at # "idle"
    BY <2>1, CommitAcked DEF Commit, Committing
  <2> QED BY <2>2 DEF IInv, LedgerKnown, AckedKnown
<1> QED BY <1>1, Invariant, PTL DEF Spec, NeverCommittedAgain

\* However its chunk was split, reused, refused or replayed, a WorkItem of a Run that
\* closes is decided or has failed, once (the end of run).
THEOREM SettledExactlyOnce == Spec => []SettledOnce
<1>1. Tidy => SettledOnce
  BY DEF Tidy, Orderly, Settled, SettledOnce
<1> QED BY <1>1, StaysTidy, PTL

\* Where the plugin raises on bad WorkItems only and chunks are split, none fails with
\* them: what is without a packet when the decisions begin is what is bad (inspect_chunk).
THEOREM IsolatedFailures == Spec => []FailuresAreIsolated
<1>1. Tidy => FailuresAreIsolated
  BY DEF Tidy, Orderly, Underway, Blamed, Isolating, Occurs, FailuresAreIsolated
<1> QED BY <1>1, StaysTidy, PTL
=============================================================================
