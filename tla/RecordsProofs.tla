---------------------------- MODULE RecordsProofs ---------------------------
(***************************************************************************)
(* What holds of the records of a Run, of any length: of the journal and the *)
(* ledger that HostStore keeps in the database, whatever its threads do and *)
(* wherever they are closed or stopped; and of the canonical result and the *)
(* report that TerminalResult derives from a Run, for any set of WorkItems, *)
(* dimensions, atoms and findings.                                         *)
(***************************************************************************)
EXTENDS HostStore, TerminalResult, FiniteSetTheorems, TLAPS

(* The journal of a database *)

Name == {"scan", "operation", "tool", "browser_action", "recovery", "gate", "decision",
         "model", "assessment", "issue", "component", "integrity"}
        \X {"start", "finish", "instant"}
EventOutcome == {"started", "succeeded", "rejected", "failed", "unknown"}

Numbered(d) == \A i \in 1 .. Len(d.events) : d.events[i].sequence = i

About(d, name, o) == {e \in ToSet(d.events) : e.name = name /\ e.of = o}

One(S) == \E e : S = {e}

Beside(n, d) ==
  /\ n.scan = d.scan /\ n.operations = d.operations /\ n.bootstrap = d.bootstrap
  /\ n.cases = d.cases /\ n.rows = d.rows /\ n.ledger = d.ledger

\* The events between two databases of the same rows
Longer(d, n, E) ==
  /\ d \in Database /\ n \in Database
  /\ Beside(n, d)
  /\ Numbered(n)
  /\ ToSet(n.events) = ToSet(d.events) \cup E
  /\ \A e \in E : e.sequence > Len(d.events)
  /\ Len(n.events) >= Len(d.events)
  /\ \A e \in ToSet(d.events) : e.sequence <= Len(d.events)

LEMMA InDatabase ==
  ASSUME NEW d \in Database
  PROVE  /\ d.events \in Seq(Event)
         /\ Len(d.events) \in Nat
         /\ DOMAIN d.events = 1 .. Len(d.events)
         /\ \A x \in Seq(Event) : [d EXCEPT !.events = x] \in Database
<1>1. d.events \in Seq(Event)
  BY DEF Database, Event
<1>2. \A x \in Seq(Event) : [d EXCEPT !.events = x] \in Database
  BY DEF Database, Event
<1> QED BY <1>1, <1>2

LEMMA EventsAre ==
  ASSUME NEW d \in Database, NEW e
  PROVE  e \in ToSet(d.events) <=> \E i \in 1 .. Len(d.events) : d.events[i] = e
BY InDatabase DEF ToSet

LEMMA NoneLater ==
  ASSUME NEW d \in Database, Numbered(d), NEW e \in ToSet(d.events)
  PROVE  e.sequence \in Nat /\ e.sequence <= Len(d.events)
<1>1. PICK i \in 1 .. Len(d.events) : d.events[i] = e
  BY EventsAre
<1>2. e.sequence = i /\ i \in Nat /\ i <= Len(d.events)
  BY <1>1, InDatabase DEF Numbered
<1> QED BY <1>2

\* The next sequence number is one more than there are events.
LEMMA NextIs ==
  ASSUME NEW d \in Database, Numbered(d)
  PROVE  NextSequence(d) = Len(d.events) + 1
<1> DEFINE n == Len(d.events)
           S == {0} \cup {e.sequence : e \in ToSet(d.events)}
<1>1. n \in Nat
  BY InDatabase
<1>2. \A x \in S : x \in Nat /\ x <= n
  <2>1. \A e \in ToSet(d.events) : e.sequence \in 1..n
    BY EventsAre DEF Numbered
  <2> QED BY <2>1, <1>1
<1>3. n \in S
  <2>1. CASE n = 0
    BY <2>1
  <2>2. CASE n # 0
    <3>1. n \in 1 .. n
      BY <1>1, <2>2
    <3>2. d.events[n] \in ToSet(d.events) /\ d.events[n].sequence = n
      BY <3>1, EventsAre DEF Numbered
    <3> QED BY <3>2
  <2> QED BY <2>1, <2>2
<1> HIDE DEF n, S
<1>4. Max(S) = n
  <2>1. \A x \in S : n >= x
    BY <1>1, <1>2
  <2>2. \A x \in S : (\A y \in S : x >= y) => x = n
    BY <1>1, <1>2, <1>3
  <2> QED BY <1>3, <2>1, <2>2, Zenon DEF Max
<1> QED BY <1>1, <1>4 DEF NextSequence, S, n

LEMMA AppendedSays ==
  ASSUME NEW d \in Database, Numbered(d), NEW name \in Name,
         NEW of \in Operations \cup {None}, NEW outcome \in EventOutcome
  PROVE  LET n == Appended(d, name, of, outcome)
             e == [sequence |-> Len(d.events) + 1, name |-> name, of |-> of, outcome |-> outcome]
         IN Longer(d, n, {e})
<1> DEFINE e == [sequence |-> Len(d.events) + 1, name |-> name, of |-> of, outcome |-> outcome]
           s == Append(d.events, e)
           n == [d EXCEPT !.events = s]
<1>1. Appended(d, name, of, outcome) = n
  BY NextIs DEF Appended
<1>2. d.events \in Seq(Event) /\ Len(d.events) \in Nat
  BY InDatabase
<1>3. e \in Event /\ e.sequence = Len(d.events) + 1
  BY <1>2 DEF Event, Name, EventOutcome
<1> HIDE DEF e
<1>4. /\ s \in Seq(Event) /\ Len(s) = Len(d.events) + 1 /\ s[Len(s)] = e
      /\ \A i \in 1..Len(d.events) : s[i] = d.events[i]
  BY <1>2, <1>3
<1> HIDE DEF s
<1>5. n \in Database /\ n.events = s
  BY <1>4, InDatabase DEF Database
<1> HIDE DEF n
<1>6. \A i \in 1 .. Len(s) : i \in 1 .. Len(d.events) \/ i = Len(s)
  BY <1>2, <1>4
<1>7. Numbered(n)
  BY <1>2, <1>3, <1>4, <1>5, <1>6 DEF Numbered
<1>8. ToSet(n.events) = ToSet(d.events) \cup {e}
  <2>1. Len(s) \in 1 .. Len(s) /\ 1 .. Len(d.events) \subseteq 1 .. Len(s)
    BY <1>2, <1>4
  <2>2. e \in ToSet(n.events)
    BY <1>4, <1>5, <2>1, EventsAre
  <2>3. ASSUME NEW x \in ToSet(d.events) PROVE x \in ToSet(n.events)
    <3>1. PICK i \in 1 .. Len(d.events) : d.events[i] = x
      BY EventsAre
    <3> QED BY <1>4, <1>5, <2>1, <3>1, EventsAre
  <2>4. ASSUME NEW x \in ToSet(n.events) PROVE x \in ToSet(d.events) \/ x = e
    <3>1. PICK i \in 1 .. Len(s) : s[i] = x
      BY <1>5, EventsAre
    <3>2. CASE i = Len(s)
      BY <1>4, <3>1, <3>2
    <3>3. CASE i \in 1 .. Len(d.events)
      BY <1>4, <3>1, <3>3, EventsAre
    <3> QED BY <1>6, <3>2, <3>3
  <2> QED BY <2>2, <2>3, <2>4
<1>9. \A x \in ToSet(d.events) : x.sequence <= Len(d.events)
  BY NoneLater
<1>10. Beside(n, d)
  BY DEF n, Beside, Database
<1> QED BY <1>1, <1>2, <1>3, <1>4, <1>5, <1>7, <1>8, <1>9, <1>10 DEF Longer, e

LEMMA LongerTwice ==
  ASSUME NEW a, NEW b, NEW c, NEW E, NEW F, Longer(a, b, E), Longer(b, c, F)
  PROVE  Longer(a, c, E \cup F)
<1>1. Len(a.events) \in Nat /\ Len(b.events) \in Nat /\ Len(c.events) \in Nat
  BY InDatabase DEF Longer
<1>2. Beside(c, a)
  BY DEF Longer, Beside
<1>3. \A e \in F : e.sequence > Len(a.events)
  <2> SUFFICES ASSUME NEW e \in F PROVE e.sequence > Len(a.events)
    OBVIOUS
  <2>1. e \in ToSet(c.events)
    BY DEF Longer
  <2>2. e.sequence \in Nat
    <3>1. PICK i \in 1 .. Len(c.events) : c.events[i] = e
      BY <2>1, EventsAre DEF Longer
    <3>2. e.sequence = i
      BY <3>1 DEF Longer, Numbered
    <3> QED BY <3>2
  <2> QED BY <1>1, <2>2 DEF Longer
<1>4. Len(c.events) >= Len(a.events)
  BY <1>1 DEF Longer
<1> QED BY <1>2, <1>3, <1>4 DEF Longer

LEMMA LongerNot ==
  ASSUME NEW d \in Database, Numbered(d)
  PROVE  Longer(d, d, {})
<1>1. Beside(d, d)
  BY DEF Beside
<1>2. \A e \in ToSet(d.events) : e.sequence <= Len(d.events)
  BY NoneLater
<1>3. Len(d.events) \in Nat
  BY InDatabase
<1>4. ToSet(d.events) = ToSet(d.events) \cup {} /\ \A e \in {} : e.sequence > Len(d.events)
  OBVIOUS
<1> HIDE DEF Numbered
<1> QED BY <1>1, <1>2, <1>3, <1>4 DEF Longer

LEMMA AboutLonger ==
  ASSUME NEW d, NEW n, NEW E, Longer(d, n, E), NEW name, NEW o
  PROVE  About(n, name, o) = About(d, name, o) \cup {e \in E : e.name = name /\ e.of = o}
BY DEF Longer, About

-----------------------------------------------------------------------------
(* What an operation's events say *)

Kind == {"tool", "browser_action", "recovery"}
Phase == {"start", "finish"}

Spoken(kind, phase) == {<<"operation", phase>>, <<kind, phase>>, <<"gate", "instant">>}

Named(E, name) == {e \in E : e.name = name}

\* The events OperationEvent records
Says(E, o, kind, phase, outcome) ==
  /\ \A e \in E : e.of = o /\ e.name \in Spoken(kind, phase)
  /\ \E e : Named(E, <<"operation", phase>>) = {e} /\ e.outcome = outcome
  /\ kind # "tool" => One(Named(E, <<kind, phase>>))
  /\ IF phase = "finish" /\ outcome # "succeeded"
     THEN One(Named(E, <<"gate", "instant">>)) ELSE Named(E, <<"gate", "instant">>) = {}

OutcomeAt(phase, status) == IF phase = "start" THEN "started" ELSE Outcome(status)

LEMMA OutcomeIsOne ==
  ASSUME NEW status, NEW phase
  PROVE  OutcomeAt(phase, status) \in EventOutcome
BY DEF OutcomeAt, Outcome, EventOutcome

LEMMA NamesAre ==
  /\ \A phase \in Phase : <<"operation", phase>> \in Name
  /\ \A phase \in Phase, kind \in Kind : <<kind, phase>> \in Name
  /\ <<"gate", "instant">> \in Name
  /\ <<"decision", "instant">> \in Name /\ <<"model", "finish">> \in Name
  /\ <<"scan", "start">> \in Name /\ <<"scan", "finish">> \in Name
  /\ <<"assessment", "finish">> \in Name /\ <<"issue", "instant">> \in Name
  /\ <<"component", "instant">> \in Name /\ <<"integrity", "instant">> \in Name
BY DEF Phase, Kind, Name

LEMMA OperationEventSays ==
  ASSUME NEW d \in Database, Numbered(d), NEW o \in Operations, NEW kind \in Kind,
         NEW phase \in Phase, NEW status
  PROVE  \E E : /\ Longer(d, OperationEvent(d, o, kind, phase, status), E)
                /\ Says(E, o, kind, phase, OutcomeAt(phase, status))
<1> DEFINE out == OutcomeAt(phase, status)
           a == Appended(d, <<"operation", phase>>, o, out)
           b == IF kind = "tool" THEN a ELSE Appended(a, <<kind, phase>>, o, out)
           gated == phase = "finish" /\ out # "succeeded"
           n == IF gated THEN Appended(b, <<"gate", "instant">>, o, out) ELSE b
<1>0. out \in EventOutcome
  BY OutcomeIsOne
<1>1. OperationEvent(d, o, kind, phase, status) = n
  BY DEF OperationEvent, OutcomeAt
<1>2. /\ <<"operation", phase>> \in Name /\ <<kind, phase>> \in Name
      /\ <<"gate", "instant">> \in Name
  BY NamesAre
<1>3. /\ <<"operation", phase>> # <<kind, phase>> /\ <<"operation", phase>> # <<"gate", "instant">>
      /\ <<kind, phase>> # <<"gate", "instant">>
  BY DEF Kind, Phase
<1> HIDE DEF out
<1>4. PICK x : /\ Longer(d, a, {x})
               /\ x.name = <<"operation", phase>> /\ x.of = o /\ x.outcome = out
  <2> DEFINE e == [sequence |-> Len(d.events) + 1, name |-> <<"operation", phase>>, of |-> o,
                   outcome |-> out]
  <2>1. Longer(d, a, {e})
    BY <1>0, <1>2, AppendedSays
  <2>2. e.name = <<"operation", phase>> /\ e.of = o /\ e.outcome = out
    OBVIOUS
  <2> QED BY <2>1, <2>2
<1> HIDE DEF a
<1>5. a \in Database /\ Numbered(a)
  BY <1>4 DEF Longer
<1>6. \E F : /\ Longer(d, b, {x} \cup F)
             /\ \A e \in F : e.name = <<kind, phase>> /\ e.of = o
             /\ kind # "tool" => One(F)
  <2>1. CASE kind = "tool"
    <3>1. {x} \cup {} = {x} /\ b = a /\ kind = "tool"
      BY <2>1
    <3> HIDE DEF b
    <3>2. Longer(d, b, {x} \cup {})
      BY <1>4, <3>1
    <3> WITNESS {}
    <3> QED BY <3>1, <3>2
  <2>2. CASE kind # "tool"
    <3> DEFINE e == [sequence |-> Len(a.events) + 1, name |-> <<kind, phase>>, of |-> o,
                     outcome |-> out]
    <3>1. Longer(a, Appended(a, <<kind, phase>>, o, out), {e})
      BY <1>0, <1>2, <1>5, AppendedSays
    <3>2. e.name = <<kind, phase>> /\ e.of = o
      OBVIOUS
    <3> HIDE DEF e
    <3>3. Longer(d, b, {x} \cup {e})
      BY <1>4, <2>2, <3>1, LongerTwice
    <3> QED BY <3>2, <3>3 DEF One
  <2> QED BY <2>1, <2>2
<1>7. PICK F : /\ Longer(d, b, {x} \cup F)
               /\ \A e \in F : e.name = <<kind, phase>> /\ e.of = o
               /\ kind # "tool" => One(F)
  BY <1>6
<1> HIDE DEF b
<1>8. b \in Database /\ Numbered(b)
  BY <1>7 DEF Longer
<1>9. \E G : /\ Longer(d, n, {x} \cup F \cup G)
             /\ \A e \in G : e.name = <<"gate", "instant">> /\ e.of = o
             /\ IF gated THEN One(G) ELSE G = {}
  <2>1. CASE gated
    <3> DEFINE e == [sequence |-> Len(b.events) + 1, name |-> <<"gate", "instant">>, of |-> o,
                     outcome |-> out]
    <3>1. Longer(b, Appended(b, <<"gate", "instant">>, o, out), {e})
      BY <1>0, <1>2, <1>8, AppendedSays
    <3>2. e.name = <<"gate", "instant">> /\ e.of = o
      OBVIOUS
    <3> HIDE DEF e
    <3>3. Longer(d, n, {x} \cup F \cup {e})
      BY <1>7, <2>1, <3>1, LongerTwice
    <3> QED BY <2>1, <3>2, <3>3 DEF One
  <2>2. CASE ~gated
    <3>1. {x} \cup F \cup {} = {x} \cup F
      OBVIOUS
    <3> QED BY <1>7, <2>2, <3>1
  <2> QED BY <2>1, <2>2
<1>10. PICK G : /\ Longer(d, n, {x} \cup F \cup G)
                /\ \A e \in G : e.name = <<"gate", "instant">> /\ e.of = o
                /\ IF gated THEN One(G) ELSE G = {}
  BY <1>9
<1> DEFINE E == {x} \cup F \cup G
<1>11. /\ Named(E, <<"operation", phase>>) = {x}
       /\ Named(E, <<kind, phase>>) = F
       /\ Named(E, <<"gate", "instant">>) = G
  BY <1>3, <1>4, <1>7, <1>10 DEF Named
<1>12. \A e \in E : e.of = o /\ e.name \in Spoken(kind, phase)
  BY <1>4, <1>7, <1>10 DEF Spoken
<1> HIDE DEF E, n
<1>13. Says(E, o, kind, phase, out)
  BY <1>4, <1>7, <1>10, <1>11, <1>12 DEF Says
<1> QED BY <1>1, <1>10, <1>13 DEF E, out

LEMMA DecisionEventsSay ==
  ASSUME NEW d \in Database, Numbered(d), NEW o \in Operations, NEW said
  PROVE  \E E : /\ Longer(d, DecisionEvents(d, o, said), E)
                /\ \A e \in E : /\ e.of = o
                                /\ e.name \in {<<"decision", "instant">>, <<"model", "finish">>}
<1> DEFINE a == Appended(d, <<"decision", "instant">>, o, "succeeded")
           b == Appended(a, <<"model", "finish">>, o, "succeeded")
           x == [sequence |-> Len(d.events) + 1, name |-> <<"decision", "instant">>, of |-> o,
                 outcome |-> "succeeded"]
           y == [sequence |-> Len(a.events) + 1, name |-> <<"model", "finish">>, of |-> o,
                 outcome |-> "succeeded"]
<1>0. <<"decision", "instant">> \in Name /\ <<"model", "finish">> \in Name
  BY NamesAre
<1>1. Longer(d, a, {x})
  BY <1>0, AppendedSays DEF EventOutcome
<1>2. x.name = <<"decision", "instant">> /\ x.of = o /\ y.name = <<"model", "finish">> /\ y.of = o
  OBVIOUS
<1> HIDE DEF a, x
<1>3. a \in Database /\ Numbered(a)
  BY <1>1 DEF Longer
<1>4. Longer(a, b, {y})
  BY <1>0, <1>3, AppendedSays DEF EventOutcome
<1> HIDE DEF b, y
<1>5. Longer(d, b, {x} \cup {y})
  BY <1>1, <1>4, LongerTwice
<1>6. Longer(d, d, {})
  BY LongerNot
<1>7. DecisionEvents(d, o, said) = IF said = "nothing" THEN d ELSE IF said = "reason" THEN a ELSE b
  BY DEF DecisionEvents, a, b
<1> QED BY <1>1, <1>2, <1>5, <1>6, <1>7

-----------------------------------------------------------------------------
(* The story the events of a database tell *)

Silent(d, o) == \A e \in ToSet(d.events) : e.of # o

Begun(d, o, kind) ==
  /\ One(About(d, <<"operation", "start">>, o))
  /\ kind # "tool" => One(About(d, <<kind, "start">>, o))

Unfinished(d, o, kind) ==
  /\ About(d, <<"operation", "finish">>, o) = {}
  /\ kind # "tool" => About(d, <<kind, "finish">>, o) = {}
  /\ About(d, <<"gate", "instant">>, o) = {}

Over(d, o, kind) ==
  /\ \E f : /\ About(d, <<"operation", "finish">>, o) = {f}
            /\ \A s \in About(d, <<"operation", "start">>, o) : s.sequence < f.sequence
            /\ IF f.outcome # "succeeded" THEN One(About(d, <<"gate", "instant">>, o))
               ELSE About(d, <<"gate", "instant">>, o) = {}
  /\ kind # "tool" => One(About(d, <<kind, "finish">>, o))

Story(d, o, op) ==
  IF op = None THEN Silent(d, o)
  ELSE /\ op \in Operation
       /\ Begun(d, o, op.kind)
       /\ IF op.ended THEN Over(d, o, op.kind) ELSE Unfinished(d, o, op.kind)

Announcement == {<<"assessment", "finish">>, <<"issue", "instant">>}

TableOf(name) == IF name = <<"assessment", "finish">> THEN "assessments" ELSE "issues"

Announces(d, name) ==
  IF TableOf(name) \in d.rows THEN One(About(d, name, None)) ELSE About(d, name, None) = {}

Consistent(d) ==
  /\ d \in Database
  /\ Numbered(d)
  /\ \A o \in Operations : Story(d, o, d.operations[o])
  /\ \A name \in Announcement : Announces(d, name)

\* The names of a story
Told == {<<"operation", "start">>, <<"operation", "finish">>, <<"gate", "instant">>,
         <<"browser_action", "start">>, <<"browser_action", "finish">>,
         <<"recovery", "start">>, <<"recovery", "finish">>}

Unchanged(d, n, o) == \A name \in Told : About(n, name, o) = About(d, name, o)

LEMMA NothingAbout ==
  ASSUME NEW d, NEW n, NEW E, Longer(d, n, E), NEW o, NEW name,
         \A e \in E : e.name = name => e.of # o
  PROVE  About(n, name, o) = About(d, name, o)
<1>1. ASSUME NEW e PROVE e \in About(n, name, o) <=> e \in About(d, name, o)
  BY DEF About, Longer
<1> QED BY <1>1

LEMMA StoryIsKept ==
  ASSUME NEW d, NEW n, NEW E, Longer(d, n, E), NEW o \in Operations, NEW op,
         \A e \in E : e.name \in Told => e.of # o,
         op = None => \A e \in E : e.of # o,
         Story(d, o, op)
  PROVE  Story(n, o, op)
<1>1. \A name \in Told : About(n, name, o) = About(d, name, o)
  BY NothingAbout
<1>2. CASE op = None
  BY <1>2 DEF Story, Silent, Longer
<1>3. CASE op # None
  <2>1. op \in Operation
    BY <1>3 DEF Story
  <2>2. /\ About(n, <<"operation", "start">>, o) = About(d, <<"operation", "start">>, o)
        /\ About(n, <<"operation", "finish">>, o) = About(d, <<"operation", "finish">>, o)
        /\ About(n, <<"gate", "instant">>, o) = About(d, <<"gate", "instant">>, o)
        /\ op.kind # "tool" =>
             /\ About(n, <<op.kind, "start">>, o) = About(d, <<op.kind, "start">>, o)
             /\ About(n, <<op.kind, "finish">>, o) = About(d, <<op.kind, "finish">>, o)
    <3>1. op.kind # "tool" => <<op.kind, "start">> \in Told /\ <<op.kind, "finish">> \in Told
      BY <2>1 DEF Operation, Told
    <3> QED BY <1>1, <3>1 DEF Told
  <2>3. Begun(d, o, op.kind) => Begun(n, o, op.kind)
    BY <2>2 DEF Begun
  <2>4. Unfinished(d, o, op.kind) => Unfinished(n, o, op.kind)
    BY <2>2 DEF Unfinished
  <2>5. Over(d, o, op.kind) => Over(n, o, op.kind)
    BY <2>2 DEF Over
  <2> QED BY <1>3, <2>1, <2>3, <2>4, <2>5 DEF Story
<1> QED BY <1>2, <1>3

\* What Says leaves of an operation nobody had heard of
LEMMA StoryBegins ==
  ASSUME NEW d, NEW n, NEW E, Longer(d, n, E), NEW o \in Operations, Silent(d, o),
         NEW op \in Operation, ~op.ended, Says(E, o, op.kind, "start", "started")
  PROVE  Story(n, o, op)
<1>1. \A name : About(n, name, o) = Named(E, name)
  BY AboutLonger DEF Silent, About, Says, Named
<1>2. Begun(n, o, op.kind)
  BY <1>1 DEF Begun, Says, One
<1>3. Unfinished(n, o, op.kind)
  <2>1. \A e \in E : e.name # <<"operation", "finish">> /\ e.name # <<op.kind, "finish">>
    BY DEF Says, Spoken
  <2>2. Named(E, <<"operation", "finish">>) = {} /\ Named(E, <<op.kind, "finish">>) = {}
    BY <2>1 DEF Named
  <2>3. Named(E, <<"gate", "instant">>) = {}
    BY DEF Says
  <2> QED BY <1>1, <2>2, <2>3 DEF Unfinished
<1>4. op # None
  BY OperationAssumption
<1> QED BY <1>2, <1>3, <1>4 DEF Story

\* The finish, recorded once, ends the story.
LEMMA StoryEnds ==
  ASSUME NEW d, NEW n, NEW E, Longer(d, n, E), NEW o \in Operations,
         NEW was \in Operation, ~was.ended, Story(d, o, was),
         NEW op \in Operation, op.ended, op.kind = was.kind, NEW outcome,
         Says(E, o, op.kind, "finish", outcome)
  PROVE  Story(n, o, op)
<1> DEFINE kind == op.kind
<1>1. was # None /\ op # None
  BY OperationAssumption
<1>2. Begun(d, o, kind) /\ Unfinished(d, o, kind)
  BY <1>1 DEF Story
<1>3. \A name : About(n, name, o) = About(d, name, o) \cup Named(E, name)
  BY AboutLonger DEF Says, Named
<1>4. \A e \in E : e.name # <<"operation", "start">> /\ e.name # <<kind, "start">>
  BY DEF Says, Spoken
<1>5. Named(E, <<"operation", "start">>) = {} /\ Named(E, <<kind, "start">>) = {}
  BY <1>4 DEF Named
<1>6. PICK f : Named(E, <<"operation", "finish">>) = {f} /\ f.outcome = outcome
  BY DEF Says
<1>7. /\ About(n, <<"operation", "start">>, o) = About(d, <<"operation", "start">>, o)
      /\ kind # "tool" => About(n, <<kind, "start">>, o) = About(d, <<kind, "start">>, o)
      /\ About(n, <<"operation", "finish">>, o) = {f}
      /\ About(n, <<"gate", "instant">>, o) = Named(E, <<"gate", "instant">>)
      /\ kind # "tool" => About(n, <<kind, "finish">>, o) = Named(E, <<kind, "finish">>)
  <2>1. kind # "tool" => About(n, <<kind, "start">>, o) = About(d, <<kind, "start">>, o)
    BY <1>3, <1>5
  <2>2. kind # "tool" => About(n, <<kind, "finish">>, o) = Named(E, <<kind, "finish">>)
    BY <1>2, <1>3 DEF Unfinished
  <2>3. About(n, <<"operation", "start">>, o) = About(d, <<"operation", "start">>, o)
    BY <1>3, <1>5
  <2>4. About(n, <<"operation", "finish">>, o) = {f}
    BY <1>2, <1>3, <1>6 DEF Unfinished
  <2>5. About(n, <<"gate", "instant">>, o) = Named(E, <<"gate", "instant">>)
    BY <1>2, <1>3 DEF Unfinished
  <2> HIDE DEF kind
  <2> QED BY <2>1, <2>2, <2>3, <2>4, <2>5
<1>8. Begun(n, o, kind)
  BY <1>2, <1>7 DEF Begun
<1>9. \A s \in About(n, <<"operation", "start">>, o) : s.sequence < f.sequence
  <2>1. d \in Database /\ Numbered(n) /\ n \in Database
    BY DEF Longer
  <2>2. f \in E
    BY <1>6 DEF Named
  <2>3. f \in ToSet(n.events) /\ f.sequence > Len(d.events)
    BY <2>2 DEF Longer
  <2>4. f.sequence \in Nat /\ Len(d.events) \in Nat
    BY <2>1, <2>3, NoneLater, InDatabase
  <2>5. ASSUME NEW s \in About(d, <<"operation", "start">>, o) PROVE s.sequence < f.sequence
    <3>1. s \in ToSet(n.events) /\ s.sequence <= Len(d.events)
      BY DEF About, Longer
    <3>2. s.sequence \in Nat
      BY <2>1, <3>1, NoneLater
    <3> QED BY <2>3, <2>4, <3>1, <3>2
  <2> QED BY <1>7, <2>5
<1>10. Over(n, o, kind)
  <2>1. IF f.outcome # "succeeded" THEN One(About(n, <<"gate", "instant">>, o))
        ELSE About(n, <<"gate", "instant">>, o) = {}
    BY <1>6, <1>7 DEF Says
  <2>2. kind # "tool" => One(About(n, <<kind, "finish">>, o))
    BY <1>7 DEF Says
  <2> QED BY <1>7, <1>9, <2>1, <2>2 DEF Over
<1> QED BY <1>1, <1>8, <1>10 DEF Story

LEMMA AnnouncesIsKept ==
  ASSUME NEW d, NEW n, NEW E, Longer(d, n, E), NEW name, Announces(d, name),
         \A e \in E : e.name = name => e.of # None
  PROVE  Announces(n, name)
<1>1. About(n, name, None) = About(d, name, None)
  BY NothingAbout
<1> QED BY <1>1 DEF Announces, Longer, Beside

\* Events nobody asks about leave the journal complete.
LEMMA OthersEvents ==
  ASSUME NEW d, NEW n, NEW E, Longer(d, n, E), Consistent(d),
         \A e \in E : e.of = None /\ e.name \notin Announcement
  PROVE  Consistent(n)
<1>1. \A e \in E : e.of \notin Operations
  BY HostAssumption
<1>2. ASSUME NEW o \in Operations PROVE Story(n, o, n.operations[o])
  <2>1. Story(d, o, d.operations[o]) /\ n.operations = d.operations
    BY DEF Consistent, Longer, Beside
  <2> QED BY <1>1, <2>1, StoryIsKept
<1>3. ASSUME NEW name \in Announcement PROVE Announces(n, name)
  BY AnnouncesIsKept DEF Consistent
<1> QED BY <1>2, <1>3 DEF Consistent, Longer

\* What is not the journal's, the operations' or the rows' may change.
LEMMA OtherFields ==
  ASSUME NEW d, NEW n \in Database, Consistent(d), n.events = d.events,
         n.operations = d.operations, n.rows = d.rows
  PROVE  Consistent(n)
<1>1. Numbered(n) /\ \A name, o : About(n, name, o) = About(d, name, o)
  BY DEF Consistent, Numbered, About
<1>2. ASSUME NEW o \in Operations PROVE Story(n, o, n.operations[o])
  <2>1. Story(d, o, n.operations[o])
    BY DEF Consistent
  <2> QED BY <1>1, <2>1 DEF Story, Silent, Begun, Unfinished, Over
<1>3. ASSUME NEW name \in Announcement PROVE Announces(n, name)
  BY <1>1 DEF Consistent, Announces
<1> QED BY <1>1, <1>2, <1>3 DEF Consistent

LEMMA OneEvent ==
  ASSUME NEW d, Consistent(d), NEW name \in Name \ Announcement, NEW outcome \in EventOutcome
  PROVE  Consistent(Appended(d, name, None, outcome))
<1> DEFINE n == Appended(d, name, None, outcome)
           e == [sequence |-> Len(d.events) + 1, name |-> name, of |-> None, outcome |-> outcome]
<1>1. Longer(d, n, {e})
  BY AppendedSays DEF Consistent
<1>2. e.of = None /\ e.name = name
  OBVIOUS
<1> HIDE DEF n, e
<1>3. Consistent(n)
  BY <1>1, <1>2, OthersEvents
<1> QED BY <1>3 DEF n
-----------------------------------------------------------------------------
(* The calls *)

Fair(d, n) == Consistent(n) /\ n.ledger = d.ledger

LEMMA AppendedIsBeside ==
  ASSUME NEW d \in Database, Numbered(d), NEW name \in Name, NEW of \in Operations \cup {None},
         NEW outcome \in EventOutcome
  PROVE  Beside(Appended(d, name, of, outcome), d)
BY AppendedSays DEF Longer

LEMMA ScanIsFair ==
  ASSUME Consistent(work), InsertScan \/ UpdateScan
  PROVE  Fair(work, work')
<1>1. ASSUME NEW s \in {"running"} \cup TerminalScan
      PROVE  LET n == [work EXCEPT !.scan = s]
             IN  Consistent(n) /\ n.ledger = work.ledger /\ Numbered(n) /\ n \in Database
  <2> DEFINE n == [work EXCEPT !.scan = s]
  <2>1. n \in Database
    BY DEF Consistent, Database
  <2>2. /\ n.events = work.events /\ n.operations = work.operations /\ n.rows = work.rows
        /\ n.ledger = work.ledger
    BY DEF Consistent, Database
  <2> HIDE DEF n
  <2>3. Consistent(n)
    BY <2>1, <2>2, OtherFields
  <2> QED BY <2>1, <2>2, <2>3 DEF n, Consistent
<1>2. <<"scan", "start">> \in Name \ Announcement /\ <<"scan", "finish">> \in Name \ Announcement
  BY DEF Name, Announcement
<1>3. {"started", "failed", "succeeded"} \subseteq EventOutcome
  BY DEF EventOutcome
<1>4. ASSUME NEW s \in {"running"} \cup TerminalScan, NEW name \in {"start", "finish"},
             NEW outcome \in {"started", "failed", "succeeded"}
      PROVE  Fair(work, Appended([work EXCEPT !.scan = s], <<"scan", name>>, None, outcome))
  <2> DEFINE n == [work EXCEPT !.scan = s]
  <2>1. Consistent(n) /\ n.ledger = work.ledger /\ Numbered(n) /\ n \in Database
    BY <1>1
  <2> HIDE DEF n
  <2>2. <<"scan", name>> \in Name \ Announcement
    BY <1>2
  <2>3. Consistent(Appended(n, <<"scan", name>>, None, outcome))
    BY <1>3, <2>1, <2>2, OneEvent
  <2>4. Beside(Appended(n, <<"scan", name>>, None, outcome), n)
    BY <1>3, <2>1, <2>2, AppendedIsBeside
  <2>5. Fair(work, Appended(n, <<"scan", name>>, None, outcome))
    BY <2>1, <2>3, <2>4 DEF Fair, Beside
  <2> QED BY <2>5 DEF n
<1>5. CASE InsertScan
  BY <1>4, <1>5 DEF InsertScan
<1>6. CASE UpdateScan
  <2>1. PICK s \in {"running"} \cup TerminalScan :
          LET updated == [work EXCEPT !.scan = s] IN
          work' = IF work.scan \notin TerminalScan /\ s \in TerminalScan
                  THEN Appended(updated, <<"scan", "finish">>, None,
                                IF s = "failed" THEN "failed" ELSE "succeeded")
                  ELSE updated
    BY <1>6 DEF UpdateScan
  <2>2. CASE work.scan \notin TerminalScan /\ s \in TerminalScan
    BY <1>4, <2>1, <2>2
  <2>3. CASE ~(work.scan \notin TerminalScan /\ s \in TerminalScan)
    BY <1>1, <2>1, <2>3 DEF Fair
  <2> QED BY <2>2, <2>3
<1> QED BY <1>5, <1>6

\* Storing a new operation's row, and its events with it
LEMMA InsertIsFair ==
  ASSUME Consistent(work), InsertOperation
  PROVE  Fair(work, work')
<1>1. PICK o \in Operations, k \in Keys, kind \in {"tool", "browser_action", "recovery"},
           status \in {"running"} \cup Ended, said \in {"nothing", "reason", "timing"} :
             Free(work, o, k) /\ work' = Inserted(work, o, k, kind, status, said)
  BY DEF InsertOperation
<1> DEFINE op == [key |-> k, kind |-> kind, status |-> status, ended |-> status \in Ended]
           was == [key |-> k, kind |-> kind, status |-> status, ended |-> FALSE]
           a == Stored(work, o, k, kind, status)
           b == OperationEvent(a, o, kind, "start", status)
           c == DecisionEvents(b, o, said)
           n == IF status \in Ended THEN OperationEvent(c, o, kind, "finish", status) ELSE c
<1>2. work' = n
  BY <1>1 DEF Inserted
<1>3. work \in Database /\ Numbered(work)
  BY DEF Consistent
<1>4. op \in Operation /\ was \in Operation /\ op.kind = kind /\ was.kind = kind /\ ~was.ended
      /\ (op.ended <=> status \in Ended) /\ (status \notin Ended => was = op)
  <2>1. status \notin Ended => (status \in Ended) = FALSE
    OBVIOUS
  <2>2. (status \in Ended) \in BOOLEAN
    OBVIOUS
  <2>3. kind \in {"tool", "browser_action", "recovery"} /\ status \in {"running"} \cup Ended
    BY DEF Ended
  <2>4. was \in Operation /\ was.kind = kind /\ ~was.ended
    BY <2>3 DEF Operation
  <2>5. status \notin Ended => was = op
    BY <2>1
  <2>6. op \in Operation
    BY <2>2, <2>3 DEF Operation
  <2>7. op.kind = kind /\ op.ended = (status \in Ended)
    OBVIOUS
  <2> QED BY <2>4, <2>5, <2>6, <2>7
<1>5. /\ a \in Database /\ a.operations = [work.operations EXCEPT ![o] = op]
      /\ a.events = work.events /\ a.rows = work.rows /\ a.ledger = work.ledger
  <2>1. a = [work EXCEPT !.operations[o] = op]
    BY DEF Stored
  <2> HIDE DEF a, op
  <2>2. [work.operations EXCEPT ![o] = op] \in [Operations -> Operation \cup {None}]
    BY <1>3, <1>4 DEF Database
  <2> QED BY <1>3, <2>1, <2>2 DEF Database
<1> HIDE DEF op, was, a
<1>6. Numbered(a) /\ \A name, p : About(a, name, p) = About(work, name, p)
  BY <1>3, <1>5 DEF Numbered, About
<1>7. kind \in Kind /\ {"start", "finish"} \subseteq Phase /\ OutcomeAt("start", status) = "started"
  BY DEF Kind, Phase, OutcomeAt
<1>8. PICK E : Longer(a, b, E) /\ Says(E, o, kind, "start", "started")
  BY <1>5, <1>6, <1>7, OperationEventSays
<1> HIDE DEF b
<1>9. b \in Database /\ Numbered(b)
  BY <1>8 DEF Longer
<1>10. PICK F : /\ Longer(b, c, F)
                /\ \A e \in F : /\ e.of = o
                                /\ e.name \in {<<"decision", "instant">>, <<"model", "finish">>}
  BY <1>9, DecisionEventsSay
<1> HIDE DEF c
<1>11. c \in Database /\ Numbered(c)
  BY <1>10 DEF Longer
<1>12. \A e \in F : e.name \notin Told /\ e.name \notin Announcement
  BY <1>10 DEF Told, Announcement
<1>13. Story(c, o, was)
  <2>1. Silent(a, o)
    <3>1. Story(work, o, None)
      BY <1>1 DEF Consistent, Free
    <3> QED BY <1>5, <3>1 DEF Story, Silent
  <2>2. Story(b, o, was)
    BY <1>4, <1>8, <2>1, StoryBegins
  <2>3. was # None
    BY <1>4, OperationAssumption
  <2> QED BY <1>10, <1>12, <2>2, <2>3, StoryIsKept
<1>14. \E G : /\ Longer(c, n, G)
              /\ \A e \in G : e.of = o
              /\ Story(n, o, op)
  <2>1. CASE status \in Ended
    <3>1. PICK G : /\ Longer(c, n, G)
                   /\ Says(G, o, kind, "finish", OutcomeAt("finish", status))
      BY <1>7, <1>11, <2>1, OperationEventSays
    <3> HIDE DEF n
    <3>2. Story(n, o, op)
      BY <1>4, <1>13, <2>1, <3>1, StoryEnds
    <3> QED BY <3>1, <3>2 DEF Says
  <2>2. CASE status \notin Ended
    <3>1. n = c /\ was = op
      BY <1>4, <2>2
    <3> HIDE DEF n
    <3>2. Longer(c, n, {}) /\ Story(n, o, op)
      BY <1>11, <1>13, <3>1, LongerNot
    <3> WITNESS {}
    <3> QED BY <3>2
  <2> QED BY <2>1, <2>2
<1>15. PICK G : /\ Longer(c, n, G)
                /\ \A e \in G : e.of = o
                /\ Story(n, o, op)
  BY <1>14
<1> HIDE DEF n
<1> DEFINE H == E \cup F \cup G
<1>16. Longer(a, n, H)
  BY <1>8, <1>10, <1>15, LongerTwice
<1>17. \A e \in H : e.of = o
  BY <1>8, <1>10, <1>15 DEF Says
<1> HIDE DEF H
<1>18. \A p \in Operations : Story(n, p, n.operations[p])
  <2> SUFFICES ASSUME NEW p \in Operations PROVE Story(n, p, n.operations[p])
    OBVIOUS
  <2>1. n.operations = a.operations
    BY <1>16 DEF Longer, Beside
  <2>2. work.operations \in [Operations -> Operation \cup {None}]
    BY <1>3 DEF Database
  <2>3. CASE p = o
    BY <1>5, <1>15, <2>1, <2>2, <2>3
  <2>4. CASE p # o
    <3>1. n.operations[p] = work.operations[p]
      BY <1>5, <2>1, <2>2, <2>4
    <3>2. Story(a, p, work.operations[p])
      <4>1. Story(work, p, work.operations[p])
        BY DEF Consistent
      <4> QED BY <1>5, <1>6, <4>1 DEF Story, Silent, Begun, Unfinished, Over
    <3> QED BY <1>16, <1>17, <2>4, <3>1, <3>2, StoryIsKept
  <2> QED BY <2>3, <2>4
<1>19. \A name \in Announcement : Announces(n, name)
  <2> SUFFICES ASSUME NEW name \in Announcement PROVE Announces(n, name)
    OBVIOUS
  <2>1. Announces(a, name)
    BY <1>5, <1>6 DEF Consistent, Announces
  <2>2. o # None
    BY HostAssumption
  <2> QED BY <1>16, <1>17, <2>1, <2>2, AnnouncesIsKept
<1>20. n \in Database /\ Numbered(n) /\ n.ledger = work.ledger
  BY <1>5, <1>16 DEF Longer, Beside
<1> QED BY <1>2, <1>18, <1>19, <1>20 DEF Fair, Consistent

LEMMA UpdateIsFair ==
  ASSUME Consistent(work), UpdateOperation
  PROVE  Fair(work, work')
<1>1. PICK o \in Operations, status \in {"running"} \cup Ended :
             work.operations[o] # None /\ work' = Updated(work, o, status)
  BY DEF UpdateOperation
<1> DEFINE was == work.operations[o]
           op == [was EXCEPT !.status = status, !.ended = @ \/ status \in Ended]
           a == [work EXCEPT !.operations[o] = op]
           first == ~was.ended /\ status \in Ended
           n == IF first THEN OperationEvent(a, o, was.kind, "finish", status) ELSE a
<1>2. work' = n
  BY <1>1 DEF Updated
<1>3. work \in Database /\ Numbered(work)
  BY DEF Consistent
<1>4. Story(work, o, was) /\ was \in Operation
  BY <1>1 DEF Consistent, Story
<1>5. /\ op \in Operation /\ op.kind = was.kind
      /\ op.ended <=> was.ended \/ status \in Ended
  <2>1. status \in {"running"} \cup Ended
    BY DEF Ended
  <2>2. /\ op.key = was.key /\ op.kind = was.kind /\ op.status = status
        /\ op.ended = (was.ended \/ status \in Ended)
    BY <1>4 DEF Operation
  <2>3. (was.ended \/ status \in Ended) \in BOOLEAN
    OBVIOUS
  <2>4. \A x \in BOOLEAN : [was EXCEPT !.status = status, !.ended = x] \in Operation
    BY <1>4, <2>1 DEF Operation
  <2>5. op \in Operation
    BY <2>3, <2>4
  <2> QED BY <2>2, <2>5
<1> HIDE DEF op, was
<1>6. /\ a \in Database /\ a.operations = [work.operations EXCEPT ![o] = op]
      /\ a.events = work.events /\ a.rows = work.rows /\ a.ledger = work.ledger
  <2>1. [work.operations EXCEPT ![o] = op] \in [Operations -> Operation \cup {None}]
    BY <1>3, <1>5 DEF Database
  <2> QED BY <1>3, <2>1 DEF Database
<1> HIDE DEF a
<1>7. Numbered(a) /\ \A name, p : About(a, name, p) = About(work, name, p)
  BY <1>3, <1>6 DEF Numbered, About
<1>8. was.kind \in Kind /\ "finish" \in Phase
  BY <1>4 DEF Kind, Phase, Operation
<1>9. was # None /\ op # None
  BY <1>4, <1>5, OperationAssumption
<1>10. Story(a, o, was)
  BY <1>4, <1>6, <1>7 DEF Story, Silent, Begun, Unfinished, Over
<1>11. \E G : Longer(a, n, G) /\ (\A e \in G : e.of = o) /\ Story(n, o, op)
  <2>1. CASE first
    <3>1. PICK G : /\ Longer(a, n, G)
                   /\ Says(G, o, was.kind, "finish", OutcomeAt("finish", status))
      BY <1>6, <1>7, <1>8, <2>1, OperationEventSays
    <3> HIDE DEF n
    <3>2. Story(n, o, op)
      BY <1>4, <1>5, <1>10, <2>1, <3>1, StoryEnds
    <3> QED BY <3>1, <3>2 DEF Says
  <2>2. CASE ~first
    <3>1. n = a /\ (op.ended <=> was.ended)
      BY <1>5, <2>2
    <3> HIDE DEF n
    <3>2. Longer(a, n, {})
      BY <1>6, <1>7, <3>1, LongerNot
    <3>3. Story(n, o, op)
      BY <1>5, <1>9, <1>10, <3>1 DEF Story
    <3> WITNESS {}
    <3> QED BY <3>2, <3>3
  <2> QED BY <2>1, <2>2
<1>12. PICK G : Longer(a, n, G) /\ (\A e \in G : e.of = o) /\ Story(n, o, op)
  BY <1>11
<1> HIDE DEF n
<1>13. \A p \in Operations : Story(n, p, n.operations[p])
  <2> SUFFICES ASSUME NEW p \in Operations PROVE Story(n, p, n.operations[p])
    OBVIOUS
  <2>1. n.operations = a.operations
    BY <1>12 DEF Longer, Beside
  <2>2. work.operations \in [Operations -> Operation \cup {None}]
    BY <1>3 DEF Database
  <2>3. CASE p = o
    BY <1>6, <1>12, <2>1, <2>2, <2>3
  <2>4. CASE p # o
    <3>1. n.operations[p] = work.operations[p]
      BY <1>6, <2>1, <2>2, <2>4
    <3>2. Story(a, p, work.operations[p])
      <4>1. Story(work, p, work.operations[p])
        BY DEF Consistent
      <4> QED BY <1>6, <1>7, <4>1 DEF Story, Silent, Begun, Unfinished, Over
    <3> QED BY <1>12, <2>4, <3>1, <3>2, StoryIsKept
  <2> QED BY <2>3, <2>4
<1>14. \A name \in Announcement : Announces(n, name)
  <2> SUFFICES ASSUME NEW name \in Announcement PROVE Announces(n, name)
    OBVIOUS
  <2>1. Announces(a, name)
    BY <1>6, <1>7 DEF Consistent, Announces
  <2>2. o # None
    BY HostAssumption
  <2> QED BY <1>12, <2>1, <2>2, AnnouncesIsKept
<1>15. n \in Database /\ Numbered(n) /\ n.ledger = work.ledger
  BY <1>6, <1>12 DEF Longer, Beside
<1> QED BY <1>2, <1>13, <1>14, <1>15 DEF Fair, Consistent

LEMMA RowsAreFair ==
  ASSUME Consistent(work), InsertEntity \/ InsertOutcome
  PROVE  Fair(work, work')
<1>1. ASSUME NEW table \in Tables
      PROVE  LET a == Written(work, table)
             IN /\ a \in Database /\ a.rows = work.rows \cup {table} /\ a.ledger = work.ledger
                /\ a.events = work.events /\ a.operations = work.operations
  <2>1. work \in Database
    BY DEF Consistent
  <2> QED BY <2>1 DEF Written, Database
<1>2. CASE InsertEntity
  <2>1. PICK table \in Tables \ {"assessments", "issues"} :
               Writable(work, table) /\ work' = Written(work, table)
    BY <1>2 DEF InsertEntity
  <2> DEFINE n == Written(work, table)
  <2>2. /\ n \in Database /\ n.rows = work.rows \cup {table} /\ n.ledger = work.ledger
        /\ n.events = work.events /\ n.operations = work.operations
    BY <1>1
  <2> HIDE DEF n
  <2>3. Numbered(n) /\ \A name, o : About(n, name, o) = About(work, name, o)
    BY <2>2 DEF Consistent, Numbered, About
  <2>4. \A o \in Operations : Story(n, o, n.operations[o])
    BY <2>2, <2>3 DEF Consistent, Story, Silent, Begun, Unfinished, Over
  <2>5. \A name \in Announcement : TableOf(name) # table
    BY DEF TableOf
  <2>6. \A name \in Announcement : Announces(n, name)
    BY <2>2, <2>3, <2>5 DEF Consistent, Announces
  <2> QED BY <2>1, <2>2, <2>3, <2>4, <2>6 DEF Fair, Consistent, n
<1>3. CASE InsertOutcome
  <2>1. PICK table \in Tables \cap {"assessments", "issues"} :
               Writable(work, table) /\ work' = Announced(work, table)
    BY <1>3 DEF InsertOutcome
  <2>2. PICK said \in Announcement : TableOf(said) = table /\ said = (IF table = "assessments"
                THEN <<"assessment", "finish">> ELSE <<"issue", "instant">>)
    BY DEF TableOf, Announcement
  <2> DEFINE a == Written(work, table)
             n == Appended(a, said, None, "succeeded")
             e == [sequence |-> Len(a.events) + 1, name |-> said, of |-> None,
                   outcome |-> "succeeded"]
  <2>3. work' = n
    BY <2>1, <2>2 DEF Announced
  <2>4. /\ a \in Database /\ a.rows = work.rows \cup {table} /\ a.ledger = work.ledger
        /\ a.events = work.events /\ a.operations = work.operations
    BY <1>1
  <2> HIDE DEF a
  <2>5. Numbered(a) /\ \A name, o : About(a, name, o) = About(work, name, o)
    BY <2>4 DEF Consistent, Numbered, About
  <2>6. said \in Name /\ "succeeded" \in EventOutcome
    BY DEF Announcement, Name, EventOutcome
  <2>7. Longer(a, n, {e})
    BY <2>4, <2>5, <2>6, AppendedSays
  <2>8. e.name = said /\ e.of = None
    OBVIOUS
  <2> HIDE DEF n, e
  <2>9. \A o \in Operations : Story(n, o, n.operations[o])
    <3> SUFFICES ASSUME NEW o \in Operations PROVE Story(n, o, n.operations[o])
      OBVIOUS
    <3>1. Story(a, o, a.operations[o])
      BY <2>4, <2>5 DEF Consistent, Story, Silent, Begun, Unfinished, Over
    <3>2. e.of # o
      BY <2>8, HostAssumption
    <3>3. n.operations = a.operations
      BY <2>7 DEF Longer, Beside
    <3> QED BY <2>7, <3>1, <3>2, <3>3, StoryIsKept
  <2>10. n.rows = work.rows \cup {table} /\ n.ledger = work.ledger
    BY <2>4, <2>7 DEF Longer, Beside
  <2>11. Announces(n, said)
    <3>1. About(work, said, None) = {}
      <4>1. table \notin work.rows
        BY <2>1 DEF Writable, Repeatable
      <4> QED BY <2>2, <4>1 DEF Consistent, Announces
    <3>2. About(n, said, None) = {e}
      <4>1. ASSUME NEW x PROVE x \in About(n, said, None) <=> x = e
        <5>1. x \notin About(a, said, None)
          BY <2>5, <3>1
        <5> QED BY <2>7, <2>8, <5>1 DEF About, Longer
      <4> QED BY <4>1
    <3> QED BY <2>2, <2>10, <3>2 DEF Announces, One
  <2>12. ASSUME NEW name \in Announcement, name # said PROVE Announces(n, name)
    <3>1. TableOf(name) # table
      BY <2>2, <2>12 DEF TableOf, Announcement
    <3>2. About(n, name, None) = About(a, name, None)
      BY <2>7, <2>8, <2>12, NothingAbout
    <3> QED BY <2>5, <2>10, <3>1, <3>2 DEF Announces, Consistent
  <2>13. n \in Database /\ Numbered(n)
    BY <2>7 DEF Longer
  <2> QED BY <2>3, <2>9, <2>10, <2>11, <2>12, <2>13 DEF Fair, Consistent
<1> QED BY <1>2, <1>3

\* Keys of the bootstrap, cases and components' own events
LEMMA OthersAreFair ==
  ASSUME Consistent(work), InsertBootstrapKey \/ InsertCase \/ UpdateCase \/ RecordEvent
  PROVE  Fair(work, work')
<1>1. work \in Database /\ Numbered(work)
  BY DEF Consistent
<1>2. ASSUME NEW n \in Database, n.events = work.events, n.operations = work.operations,
             n.rows = work.rows, n.ledger = work.ledger
      PROVE  Fair(work, n)
  BY <1>2, OtherFields DEF Fair
<1>3. CASE InsertBootstrapKey
  BY <1>1, <1>2, <1>3 DEF InsertBootstrapKey, Database
<1>4. ASSUME NEW c \in Cases, NEW s \in ActiveCase \cup {"closed"}
      PROVE  Fair(work, [work EXCEPT !.cases[c] = s])
  <2> DEFINE n == [work EXCEPT !.cases[c] = s]
  <2>1. /\ n \in Database /\ n.events = work.events /\ n.operations = work.operations
        /\ n.rows = work.rows /\ n.ledger = work.ledger
    BY <1>1 DEF Database
  <2> HIDE DEF n
  <2>2. Fair(work, n)
    BY <1>2, <2>1
  <2> QED BY <2>2 DEF n
<1>5. Fair(work, work)
  BY DEF Fair
<1>6. CASE InsertCase
  <2>1. "planned" \in ActiveCase
    BY DEF ActiveCase
  <2> QED BY <1>4, <1>5, <1>6, <2>1 DEF InsertCase
<1>7. CASE UpdateCase
  <2>1. {"executing", "closed"} \subseteq ActiveCase \cup {"closed"}
    BY DEF ActiveCase
  <2> QED BY <1>4, <1>7, <2>1 DEF UpdateCase
<1>8. CASE RecordEvent
  <2>1. ASSUME NEW name \in {"component", "integrity"}
        PROVE  Fair(work, Appended(work, <<name, "instant">>, None, "succeeded"))
    <3>1. <<name, "instant">> \in Name \ Announcement /\ "succeeded" \in EventOutcome
      BY DEF Name, Announcement, EventOutcome
    <3>2. Beside(Appended(work, <<name, "instant">>, None, "succeeded"), work)
      BY <1>1, <3>1, AppendedIsBeside
    <3> QED BY <3>1, <3>2, OneEvent DEF Fair, Beside
  <2> QED BY <1>5, <1>8, <2>1 DEF RecordEvent
<1> QED BY <1>3, <1>6, <1>7, <1>8

LEMMA CallsAreFair ==
  ASSUME Consistent(work), Calls
  PROVE  Fair(work, work')
BY ScanIsFair, InsertIsFair, UpdateIsFair, RowsAreFair, OthersAreFair DEF Calls

-----------------------------------------------------------------------------
(* The transactions *)

\* What an open transaction will leave behind
Promised ==
  /\ writer \in [thread : Threads, connection : {"shared", "reopened"}, payload : Payloads \cup {None}]
  /\ Consistent(work)
  /\ work.ledger = IF writer.payload # None THEN writer.payload ELSE db.ledger

Durable ==
  /\ Consistent(db)
  /\ writer # None => Promised
  /\ retry \in [Threads -> Payloads \cup {None}]
  /\ saved \subseteq {db.ledger}

LEMMA LedgerIsNotRead ==
  ASSUME NEW d, Consistent(d), NEW p \in Payloads \cup {None}
  PROVE  Consistent([d EXCEPT !.ledger = p]) /\ [d EXCEPT !.ledger = p].ledger = p
<1> DEFINE n == [d EXCEPT !.ledger = p]
<1>1. /\ n \in Database /\ n.events = d.events /\ n.operations = d.operations
      /\ n.rows = d.rows /\ n.ledger = p
  BY DEF Consistent, Database
<1> HIDE DEF n
<1>2. Consistent(n)
  BY <1>1, OtherFields
<1> QED BY <1>1, <1>2 DEF n

\* A database nothing has been done in
LEMMA EmptyIsConsistent == Consistent(Empty) /\ Empty.ledger = None /\ Empty.events = <<>>
<1>1. Empty \in Database
  <2>1. <<>> \in Seq(Event)
    OBVIOUS
  <2> QED BY <2>1 DEF Empty, Database
<1>2. /\ Empty.events = <<>> /\ Empty.operations = [o \in Operations |-> None]
      /\ Empty.rows = {} /\ Empty.ledger = None
  BY DEF Empty
<1>3. Numbered(Empty) /\ ToSet(Empty.events) = {}
  <2>1. Len(Empty.events) = 0
    BY <1>2
  <2>2. \A e : e \notin ToSet(Empty.events)
    BY <1>1, <2>1, EventsAre
  <2>3. ToSet(Empty.events) = {}
    BY <2>2
  <2> QED BY <2>1, <2>3 DEF Numbered
<1>4. \A name, o : About(Empty, name, o) = {}
  BY <1>3 DEF About
<1> QED BY <1>1, <1>2, <1>3, <1>4 DEF Consistent, Story, Silent, Announces

LEMMA InspectedIsConsistent == Consistent(Inspected)
<1> DEFINE d == [Empty EXCEPT !.scan = "running", !.rows = Tables \cap {"page_states", "audit_objects"}]
<1>1. /\ d \in Database /\ d.events = Empty.events /\ d.operations = Empty.operations
      /\ d.rows = Tables \cap {"page_states", "audit_objects"}
  BY EmptyIsConsistent DEF Consistent, Database
<1> HIDE DEF d
<1>2. Numbered(d) /\ \A name, o : About(d, name, o) = About(Empty, name, o)
  BY <1>1, EmptyIsConsistent DEF Consistent, Numbered, About
<1>3. ASSUME NEW o \in Operations PROVE Story(d, o, d.operations[o])
  <2>1. d.operations[o] = None /\ Empty.operations[o] = None
    BY <1>1 DEF Empty
  <2>2. Silent(Empty, o)
    BY <2>1, EmptyIsConsistent DEF Consistent, Story
  <2> QED BY <1>1, <2>1, <2>2 DEF Story, Silent
<1>4. ASSUME NEW name \in Announcement PROVE Announces(d, name)
  <2>1. TableOf(name) \notin d.rows /\ TableOf(name) \notin Empty.rows
    BY <1>1 DEF TableOf, Empty
  <2> QED BY <1>2, <2>1, EmptyIsConsistent DEF Consistent, Announces
<1>5. Consistent(d)
  BY <1>1, <1>2, <1>3, <1>4 DEF Consistent
<1>6. <<"scan", "start">> \in Name \ Announcement /\ "started" \in EventOutcome
  BY DEF Name, Announcement, EventOutcome
<1>7. Consistent(Appended(d, <<"scan", "start">>, None, "started"))
  BY <1>5, <1>6, OneEvent
<1> QED BY <1>7 DEF Inspected, d

LEMMA DurableAtFirst ==
  ASSUME StoreInit
  PROVE  Durable
BY EmptyIsConsistent, InspectedIsConsistent DEF StoreInit, Durable

LEMMA DurableNext ==
  ASSUME Durable, [StoreNext]_storeVars
  PROVE  Durable'
<1>1. ASSUME NEW t \in Threads, Begin(t) PROVE Durable'
  BY <1>1 DEF Begin, Durable, Promised, Opened, Consistent
<1>2. ASSUME NEW t \in Threads, Call(t) PROVE Durable'
  <2>1. writer # None /\ Promised
    BY <1>2 DEF Call, Durable
  <2>2. Fair(work, work')
    BY <1>2, <2>1, CallsAreFair DEF Call, Promised
  <2>3. UNCHANGED <<db, writer, retry, saved>>
    BY <1>2 DEF Call
  <2> QED BY <2>1, <2>2, <2>3 DEF Durable, Promised, Fair
<1>3. ASSUME NEW t \in Threads, NEW p \in Payloads, NEW connection \in {"shared", "reopened"},
             writer' = Opened(t, connection, p), work' = [db EXCEPT !.ledger = p],
             retry' \in [Threads -> Payloads \cup {None}], UNCHANGED <<db, saved>>
      PROVE  Durable'
  <2>1. Consistent(work') /\ work'.ledger = p
    BY <1>3, LedgerIsNotRead DEF Durable
  <2>2. /\ writer' \in [thread : Threads, connection : {"shared", "reopened"},
                        payload : Payloads \cup {None}]
        /\ writer'.payload = p /\ p # None
    BY <1>3, HostAssumption DEF Opened
  <2>3. Promised'
    BY <2>1, <2>2 DEF Promised
  <2> QED BY <1>3, <2>3 DEF Durable
<1>4. ASSUME NEW t \in Threads, NEW p \in Payloads, Save(t, p) PROVE Durable'
  <2>1. (IF open THEN "shared" ELSE "reopened") \in {"shared", "reopened"}
    OBVIOUS
  <2>2. retry' \in [Threads -> Payloads \cup {None}] /\ UNCHANGED <<db, saved>>
    BY <1>4 DEF Save, Durable
  <2> QED BY <1>3, <1>4, <2>1, <2>2 DEF Save
<1>5. ASSUME NEW t \in Threads, Resave(t) PROVE Durable'
  <2>1. retry[t] \in Payloads
    BY <1>5 DEF Resave, Durable
  <2>2. retry' \in [Threads -> Payloads \cup {None}] /\ UNCHANGED <<db, saved>>
    BY <1>5 DEF Resave, Durable
  <2> QED BY <1>3, <1>5, <2>1, <2>2 DEF Resave
<1>6. ASSUME CommitTransaction PROVE Durable'
  <2>1. Promised /\ db' = work /\ writer' = None /\ retry' = retry
    BY <1>6 DEF CommitTransaction, End, Durable
  <2>2. saved' \subseteq {db'.ledger}
    BY <1>6, <2>1 DEF CommitTransaction, Durable, Promised
  <2> QED BY <2>1, <2>2 DEF Durable, Promised
<1>7. ASSUME Raise PROVE Durable'
  BY <1>7 DEF Raise, End, Durable
<1>8. ASSUME Close PROVE Durable'
  <2>1. CASE writer # None /\ writer.connection = "shared"
    <3>1. writer.thread \in Threads /\ writer.payload \in Payloads \cup {None}
      BY <2>1 DEF Durable, Promised
    <3>2. retry' \in [Threads -> Payloads \cup {None}] /\ UNCHANGED <<db, saved>> /\ writer' = None
      BY <1>8, <2>1, <3>1 DEF Close, Reopens, End, Durable
    <3> QED BY <3>2 DEF Durable
  <2>2. CASE ~(writer # None /\ writer.connection = "shared")
    BY <1>8, <2>2 DEF Close, Durable, Promised
  <2> QED BY <2>1, <2>2
<1>9. ASSUME Restart PROVE Durable'
  BY <1>9 DEF Restart, End, Durable
<1>10. CASE UNCHANGED storeVars
  BY <1>10 DEF storeVars, Durable, Promised
<1> QED BY <1>1, <1>2, <1>4, <1>5, <1>6, <1>7, <1>8, <1>9, <1>10 DEF StoreNext

\* A save that returned stays what the database holds until another is committed over
\* it, whichever thread closes the connection under it (SQLitePlatformLedgerStore.save).
THEOREM SavesAreDurable == StoreSpec => []SavedIsDurable
<1>1. Durable => SavedIsDurable
  BY DEF Durable, Consistent, SavedIsDurable
<1> QED BY <1>1, DurableAtFirst, DurableNext, PTL DEF StoreSpec

\* Counting what a consistent database says
LEMMA OneIsOne ==
  ASSUME NEW S
  PROVE  /\ One(S) => Cardinality(S) = 1
         /\ S = {} => Cardinality(S) = 0
BY FS_Singleton, FS_EmptySet DEF One

LEMMA ConsistentIsComplete ==
  ASSUME Consistent(db)
  PROVE  JournalIsComplete
<1>1. \A name, o : Of(name, o) = About(db, name, o)
  BY DEF Of, About
<1>2. \A i \in 1 .. Len(db.events) : db.events[i].sequence = i
  BY DEF Consistent, Numbered
<1>3. ASSUME NEW o \in Operations
      PROVE  LET starts == Of(<<"operation", "start">>, o)
                 finishes == Of(<<"operation", "finish">>, o)
                 op == db.operations[o]
             IN IF op = None THEN \A e \in ToSet(db.events) : e.of # o
                ELSE /\ Cardinality(starts) = 1
                     /\ Cardinality(finishes) = IF op.ended THEN 1 ELSE 0
                     /\ \A s \in starts, f \in finishes : s.sequence < f.sequence
                     /\ op.kind # "tool" =>
                          /\ Cardinality(Of(<<op.kind, "start">>, o)) = 1
                          /\ Cardinality(Of(<<op.kind, "finish">>, o)) = Cardinality(finishes)
                     /\ Cardinality(Of(<<"gate", "instant">>, o))
                          = Cardinality({f \in finishes : f.outcome # "succeeded"})
  <2> DEFINE starts == Of(<<"operation", "start">>, o)
             finishes == Of(<<"operation", "finish">>, o)
             op == db.operations[o]
             gates == Of(<<"gate", "instant">>, o)
             failures == {f \in finishes : f.outcome # "succeeded"}
  <2>1. Story(db, o, op)
    BY DEF Consistent
  <2>2. CASE op = None
    BY <2>1, <2>2 DEF Story, Silent
  <2>3. CASE op # None
    <3>1. Begun(db, o, op.kind)
      BY <2>1, <2>3 DEF Story
    <3>2. Cardinality(starts) = 1
      BY <1>1, <3>1, OneIsOne DEF Begun
    <3>3. op.kind # "tool" => Cardinality(Of(<<op.kind, "start">>, o)) = 1
      BY <1>1, <3>1, OneIsOne DEF Begun
    <3>4. CASE ~op.ended
      <4>1. Unfinished(db, o, op.kind)
        BY <2>1, <2>3, <3>4 DEF Story
      <4>2. finishes = {} /\ gates = {}
            /\ (op.kind # "tool" => Of(<<op.kind, "finish">>, o) = {})
        BY <1>1, <4>1 DEF Unfinished
      <4>3. failures = {}
        BY <4>2
      <4> HIDE DEF starts, finishes, gates, failures, op
      <4>4. /\ Cardinality(finishes) = 0 /\ Cardinality(gates) = 0 /\ Cardinality(failures) = 0
            /\ op.kind # "tool" => Cardinality(Of(<<op.kind, "finish">>, o)) = 0
        BY <4>2, <4>3, OneIsOne
      <4> QED BY <2>3, <3>2, <3>3, <3>4, <4>2, <4>4 DEF starts, finishes, gates, failures, op
    <3>5. CASE op.ended
      <4>1. Over(db, o, op.kind)
        BY <2>1, <2>3, <3>5 DEF Story
      <4>2. PICK f : /\ finishes = {f}
                     /\ \A s \in starts : s.sequence < f.sequence
                     /\ IF f.outcome # "succeeded" THEN One(gates) ELSE gates = {}
        BY <1>1, <4>1 DEF Over
      <4>3. op.kind # "tool" => One(Of(<<op.kind, "finish">>, o))
        BY <1>1, <4>1 DEF Over
      <4>4. failures = IF f.outcome # "succeeded" THEN {f} ELSE {}
        BY <4>2
      <4> HIDE DEF starts, finishes, gates, failures, op
      <4>5. /\ Cardinality(finishes) = 1
            /\ op.kind # "tool" => Cardinality(Of(<<op.kind, "finish">>, o)) = 1
            /\ Cardinality(gates) = Cardinality(failures)
        BY <4>2, <4>3, <4>4, OneIsOne DEF One
      <4>6. \A s \in starts, e \in finishes : s.sequence < e.sequence
        BY <4>2
      <4> QED BY <2>3, <3>2, <3>3, <3>5, <4>5, <4>6 DEF starts, finishes, gates, failures, op
    <3> QED BY <3>4, <3>5
  <2> QED BY <2>2, <2>3
<1>4. ASSUME NEW x \in {<<"assessments", <<"assessment", "finish">>>>, <<"issues", <<"issue", "instant">>>>}
      PROVE  Cardinality(Of(x[2], None)) = IF x[1] \in db.rows THEN 1 ELSE 0
  <2>1. x[2] \in Announcement /\ TableOf(x[2]) = x[1]
    BY DEF Announcement, TableOf
  <2>2. Announces(db, x[2])
    BY <2>1 DEF Consistent
  <2> QED BY <1>1, <2>1, <2>2, OneIsOne DEF Announces
<1> QED BY <1>2, <1>3, <1>4 DEF JournalIsComplete

\* The committed journal tells the whole story of every operation, assessment and issue,
\* also across rollbacks, refused calls and stops (insert_operation, update_operation).
THEOREM JournalStaysComplete == StoreSpec => []JournalIsComplete
<1>1. Durable => JournalIsComplete
  BY ConsistentIsComplete DEF Durable
<1> QED BY <1>1, DurableAtFirst, DurableNext, PTL DEF StoreSpec

-----------------------------------------------------------------------------
(* The result of a Run *)

\* What a plugin decided, from accepted answers or by itself
Decision ==
  [result : Result, findings : [Dimension -> FindingState],
   common : [Atom -> RawValue] \cup {None},
   delivery : UNION {Deliveries(findings) : findings \in [Dimension -> FindingState]}]

\* Where a decision comes from
Founded(d) ==
  /\ Gate(d.result, d.findings)
  /\ \/ d.delivery = None /\ Accepted(d.common) /\ d.findings = FindingsFrom(d.common)
     \/ d.common = None /\ d.delivery \in Deliveries(d.findings)

RunType ==
  [status : {"running"} \cup Terminal, items : Discoverable, packets : SUBSET Item,
   failures : SUBSET Item, decisions : [Item -> Decision \cup {None}]]

Recorded(r) ==
  /\ r \in RunType
  /\ r.packets \subseteq Applicable(r) /\ r.failures \subseteq Applicable(r)
  /\ Decided(r) \subseteq r.packets
  /\ \A i \in Decided(r) : r.decisions[i] \in Decision /\ Founded(r.decisions[i])

ResultInv ==
  /\ Recorded(run)
  /\ published # None =>
       /\ published = [canonical |-> Canonical(run), report |-> Report(run)]
       /\ run.status \in Terminal
       /\ Renders(run)

-----------------------------------------------------------------------------
LEMMA FindingsFromType ==
  ASSUME NEW answers \in [Atom -> RawValue]
  PROVE  FindingsFrom(answers) \in [Dimension -> FindingState]
<1> DEFINE told(d) == {a \in Atom : DimensionOf[a] = d /\ KindOf[a] = "dimension"}
           of(v) == IF v.kind # "dimension" THEN "unresolved"
                    ELSE IF v.verdict = "not_applicable" THEN "satisfied" ELSE v.verdict
           f == [d \in Dimension |->
                  IF told(d) = {} THEN "satisfied" ELSE of(answers[CHOOSE a \in told(d) : TRUE])]
<1>1. FindingsFrom(answers) = f
  BY DEF FindingsFrom
<1>2. \A v \in RawValue : of(v) \in FindingState
  <2> SUFFICES ASSUME NEW v \in RawValue PROVE of(v) \in FindingState
    OBVIOUS
  <2>1. v \in Value
    BY ResultAssumption
  <2>2. v.kind = "dimension" => v.verdict \in DimensionVerdicts
    BY <2>1 DEF Value, Dimensions, Candidates, Relationships
  <2> QED BY <2>2 DEF FindingState, DimensionVerdicts
<1>3. ASSUME NEW d \in Dimension, told(d) # {} PROVE (CHOOSE a \in told(d) : TRUE) \in Atom
  BY <1>3
<1>4. "satisfied" \in FindingState
  BY DEF FindingState
<1> HIDE DEF of
<1>5. \A d \in Dimension :
        (IF told(d) = {} THEN "satisfied" ELSE of(answers[CHOOSE a \in told(d) : TRUE])) \in FindingState
  BY <1>2, <1>3, <1>4
<1> HIDE DEF told
<1> QED BY <1>1, <1>5

LEMMA BeginsRecorded ==
  ASSUME Init
  PROVE  ResultInv
<1>1. PICK items \in Discoverable :
        run = [status |-> "running", items |-> items, packets |-> {}, failures |-> {},
               decisions |-> [i \in Item |-> None]]
  BY DEF Init
<1>2. run \in RunType /\ run.packets = {} /\ run.failures = {} /\ Decided(run) = {}
  BY <1>1 DEF RunType, Decided
<1> QED BY <1>2 DEF ResultInv, Recorded, Init

LEMMA DecisionIsRecorded ==
  ASSUME NEW i \in Item, Recorded(run), i \in run.packets, NEW d \in Decision, Founded(d),
         NEW r, r = [run EXCEPT !.decisions[i] = d]
  PROVE  Recorded(r)
<1>1. /\ r \in RunType /\ r.decisions = [run.decisions EXCEPT ![i] = d]
      /\ r.items = run.items /\ r.packets = run.packets /\ r.failures = run.failures
  <2>1. [run.decisions EXCEPT ![i] = d] \in [Item -> Decision \cup {None}]
    BY DEF Recorded, RunType
  <2> QED BY <2>1 DEF Recorded, RunType
<1>2. Applicable(r) = Applicable(run)
  BY <1>1 DEF Applicable
<1>3. \A j \in Item : r.decisions[j] = IF j = i THEN d ELSE run.decisions[j]
  BY <1>1 DEF Recorded, RunType
<1>4. Decided(r) \subseteq Decided(run) \cup {i}
  BY <1>3 DEF Decided
<1>5. \A j \in Decided(r) : r.decisions[j] \in Decision /\ Founded(r.decisions[j])
  BY <1>3, <1>4 DEF Recorded, Decided
<1> QED BY <1>1, <1>2, <1>4, <1>5 DEF Recorded

LEMMA StaysRecorded ==
  ASSUME ResultInv, [Next]_vars
  PROVE  ResultInv'
<1>1. ASSUME NEW i \in Item, Inspect(i) PROVE ResultInv'
  <2>1. /\ run.status = "running" /\ run' = [run EXCEPT !.packets = @ \cup {i}, !.failures = @ \ {i}]
        /\ published' = published /\ published = None /\ i \in Applicable(run)
    BY <1>1 DEF Inspect, Records, Running, ResultInv, Terminal
  <2>2. /\ run' \in RunType /\ run'.packets = run.packets \cup {i}
        /\ run'.failures = run.failures \ {i} /\ run'.items = run.items
        /\ run'.decisions = run.decisions
    BY <2>1 DEF ResultInv, Recorded, RunType
  <2>3. Recorded(run')
    BY <2>1, <2>2 DEF ResultInv, Recorded, Applicable, Decided
  <2> QED BY <2>1, <2>3 DEF ResultInv
<1>2. ASSUME NEW i \in Item, InspectionFails(i) PROVE ResultInv'
  <2>1. /\ run.status = "running" /\ run' = [run EXCEPT !.failures = @ \cup {i}]
        /\ published' = published /\ published = None /\ i \in Applicable(run)
    BY <1>2 DEF InspectionFails, Records, Running, ResultInv, Terminal
  <2>2. /\ run' \in RunType /\ run'.packets = run.packets
        /\ run'.failures = run.failures \cup {i} /\ run'.items = run.items
        /\ run'.decisions = run.decisions
    BY <2>1 DEF ResultInv, Recorded, RunType
  <2>3. Recorded(run')
    BY <2>1, <2>2 DEF ResultInv, Recorded, Applicable, Decided
  <2> QED BY <2>1, <2>3 DEF ResultInv
<1>3. ASSUME NEW i \in Item, Decide(i) PROVE ResultInv'
  <2>1. PICK result \in Result, findings \in [Dimension -> FindingState],
             common \in [Atom -> RawValue] \cup {None},
             delivery \in UNION {Deliveries(f) : f \in [Dimension -> FindingState]} :
          /\ Commit(i, result, findings, common, delivery)
          /\ delivery \in Deliveries(findings)
          /\ \/ delivery = None /\ Accepted(common) /\ findings = FindingsFrom(common)
             \/ common = None
    <3>1. \A findings : None \in Deliveries(findings)
      BY DEF Deliveries
    <3>2. CASE i \in Reviewed
      <4>1. PICK result \in Result, answers \in Acceptable :
              Commit(i, result, FindingsFrom(answers), answers, None)
        BY <1>3, <3>2 DEF Decide
      <4>2. answers \in [Atom -> RawValue] /\ Accepted(answers)
        BY DEF Acceptable
      <4> QED BY <3>1, <4>1, <4>2, FindingsFromType
    <3>3. CASE i \notin Reviewed
      <4>1. PICK result \in Result, findings \in Findings :
              \E delivery \in Deliveries(findings) :
                Commit(i, result, findings, None, delivery)
        BY <1>3, <3>3 DEF Decide
      <4>2. findings \in [Dimension -> FindingState]
        BY ResultAssumption
      <4> QED BY <4>1, <4>2
    <3> QED BY <3>2, <3>3
  <2> DEFINE d == Proposal(result, findings, common, delivery)
  <2>2. /\ d.result = result /\ d.findings = findings /\ d.common = common /\ d.delivery = delivery
        /\ d \in Decision
    BY DEF Proposal, Decision
  <2> HIDE DEF d
  <2>3. Founded(d)
    BY <2>1, <2>2 DEF Founded, Commit
  <2>4. /\ run.status = "running" /\ i \in run.packets /\ run' = [run EXCEPT !.decisions[i] = d]
        /\ published' = published /\ published = None
    BY <1>3, <2>1 DEF Decide, Commit, Records, Running, ResultInv, Terminal, d
  <2>5. Recorded(run')
    BY <2>2, <2>3, <2>4, DecisionIsRecorded DEF ResultInv
  <2> QED BY <2>4, <2>5 DEF ResultInv
<1>4. ASSUME NEW status \in Terminal, Finish(status) PROVE ResultInv'
  <2>1. /\ run' = [run EXCEPT !.status = status] /\ Renders(run')
        /\ published' = [canonical |-> Canonical(run'), report |-> Report(run')]
    BY <1>4 DEF Finish
  <2>2. /\ run' \in RunType /\ run'.packets = run.packets /\ run'.status = status
        /\ run'.failures = run.failures /\ run'.items = run.items
        /\ run'.decisions = run.decisions
    BY <2>1 DEF ResultInv, Recorded, RunType
  <2>3. Recorded(run')
    BY <2>2 DEF ResultInv, Recorded, Applicable, Decided
  <2> QED BY <2>1, <2>2, <2>3 DEF ResultInv
<1>5. CASE UNCHANGED vars
  BY <1>5 DEF vars, ResultInv
<1>6. CASE Next
  BY <1>1, <1>2, <1>3, <1>4, <1>6 DEF Next
<1> QED BY <1>5, <1>6 DEF vars

-----------------------------------------------------------------------------
(* The counts *)

LEMMA SplitCounts ==
  ASSUME NEW S, NEW T, IsFiniteSet(S)
  PROVE  /\ Cardinality(S) \in Nat /\ Cardinality(S \ T) \in Nat /\ Cardinality(S \cap T) \in Nat
         /\ Cardinality(S) = Cardinality(S \ T) + Cardinality(S \cap T)
         /\ IsFiniteSet(S \ T)
<1>1. IsFiniteSet(S \ T) /\ IsFiniteSet(S \cap T)
  BY FS_Difference, FS_Intersection
<1>2. Cardinality(S) \in Nat /\ Cardinality(S \ T) \in Nat /\ Cardinality(S \cap T) \in Nat
  BY <1>1, FS_CardinalityType
<1>3. Cardinality(S \ T) = Cardinality(S) - Cardinality(S \cap T)
  BY FS_Difference
<1> QED BY <1>1, <1>2, <1>3

LEMMA CountsAddUp ==
  ASSUME NEW r, Recorded(r)
  PROVE  Cardinality(r.items) = Cardinality(Processed(r)) + Cardinality(r.items \ Applicable(r))
                                  + Cardinality(Unprocessed(r))
<1> DEFINE A == Applicable(r)
<1>1. IsFiniteSet(r.items)
  BY ResultAssumption DEF Recorded, RunType
<1>2. A = r.items \ Skipped
  BY DEF Applicable
<1>3. r.items \ A = r.items \cap Skipped
  BY <1>2
<1>4. A \cap (Decided(r) \cup r.failures) = Processed(r)
  BY DEF Processed
<1>5. A \ (Decided(r) \cup r.failures) = Unprocessed(r)
  BY <1>4 DEF Unprocessed
<1>6. /\ Cardinality(r.items) = Cardinality(A) + Cardinality(r.items \ A)
      /\ Cardinality(A) \in Nat /\ Cardinality(r.items \ A) \in Nat /\ IsFiniteSet(A)
  <2>1. /\ Cardinality(r.items) = Cardinality(r.items \ Skipped) + Cardinality(r.items \cap Skipped)
        /\ Cardinality(r.items \ Skipped) \in Nat /\ Cardinality(r.items \cap Skipped) \in Nat
        /\ IsFiniteSet(r.items \ Skipped)
    BY <1>1, SplitCounts
  <2> HIDE DEF A
  <2> QED BY <1>2, <1>3, <2>1
<1> HIDE DEF A
<1>7. /\ Cardinality(A) = Cardinality(Unprocessed(r)) + Cardinality(Processed(r))
      /\ Cardinality(Unprocessed(r)) \in Nat /\ Cardinality(Processed(r)) \in Nat
  <2> DEFINE D == Decided(r) \cup r.failures
  <2> HIDE DEF D
  <2>1. /\ Cardinality(A) = Cardinality(A \ D) + Cardinality(A \cap D)
        /\ Cardinality(A \ D) \in Nat /\ Cardinality(A \cap D) \in Nat
    BY <1>6, SplitCounts
  <2> QED BY <1>4, <1>5, <2>1 DEF D
<1> QED BY <1>6, <1>7 DEF A

\* What the fields of the result are
LEMMA CanonicalSays ==
  ASSUME NEW r
  PROVE  /\ Canonical(r).status = r.status
         /\ Canonical(r).discovered = Cardinality(r.items)
         /\ Canonical(r).processed = Cardinality(Processed(r))
         /\ Canonical(r).skipped = Cardinality(r.items \ Applicable(r))
         /\ Canonical(r).unprocessed = Cardinality(Unprocessed(r))
         /\ Canonical(r).complete = (r.status = "completed" /\ Unprocessed(r) = {})
         /\ Canonical(r).outcomes = {[item |-> i, result |-> r.decisions[i].result] : i \in Formal(r)}
         /\ Canonical(r).findings = CanonicalFindings(r)
         /\ Canonical(r).actionability = Actionability(r)
         /\ Canonical(r).remediations = CanonicalRemediations(r)
         /\ Canonical(r).claims = CanonicalClaims(r)
         /\ Canonical(r).needsReview = NeedsReview(r)
         /\ Canonical(r).unverified = Unverified(r)
         /\ Canonical(r).failures = r.failures
BY DEF Canonical

LEMMA ReportSays ==
  ASSUME NEW r
  PROVE  /\ Report(r).conclusion = Conclusion(r) /\ Report(r).issues = Issues(r)
         /\ Report(r).pending = Pending(r) /\ Report(r).unchecked = Unchecked(r)
BY DEF Report

\* However a Run ended, its canonical result accounts for every WorkItem, and calls its
\* coverage complete only when all of them have an outcome (the terminal result).
THEOREM EveryItemIsAccounted == Spec => []EveryItemAccounted
<1>1. ResultInv => EveryItemAccounted
  <2> SUFFICES ASSUME ResultInv, Finished PROVE
        LET c == published.canonical
            outcome(i)    == \E o \in c.outcomes : o.item = i
            unverified(i) == \E u \in c.unverified : u.item = i
        IN  /\ c.discovered = c.processed + c.skipped + c.unprocessed
            /\ \A i \in run.items \ Skipped :
                 /\ outcome(i) \/ unverified(i) \/ i \in c.failures
                 /\ ~(outcome(i) /\ unverified(i))
                 /\ c.complete => outcome(i) /\ i \notin c.failures
                 /\ c.status = "failed" => unverified(i)
            /\ c.status = "failed" => c.outcomes = {} /\ c.findings = {} /\ c.remediations = {}
            /\ \A o \in c.outcomes : run.decisions[o.item].result = o.result
    BY DEF EveryItemAccounted
  <2> DEFINE c == published.canonical
             outcome(i)    == \E o \in c.outcomes : o.item = i
             unverified(i) == \E u \in c.unverified : u.item = i
  <2>1. c = Canonical(run) /\ run.status \in Terminal /\ Renders(run) /\ Recorded(run)
    BY DEF ResultInv, Finished
  <2> HIDE DEF c
  <2>2. c.discovered = c.processed + c.skipped + c.unprocessed
    <3>1. /\ Cardinality(Processed(run)) \in Nat /\ Cardinality(Unprocessed(run)) \in Nat
          /\ Cardinality(run.items \ Applicable(run)) \in Nat
      <4>1. IsFiniteSet(run.items)
        BY <2>1, ResultAssumption DEF Recorded, RunType
      <4> QED BY <4>1, FS_Subset, FS_CardinalityType DEF Processed, Unprocessed, Applicable
    <3> QED BY <2>1, <3>1, CanonicalSays, CountsAddUp
  <2>3. ASSUME NEW i PROVE outcome(i) <=> i \in Formal(run)
    <3>1. c.outcomes = {[item |-> j, result |-> run.decisions[j].result] : j \in Formal(run)}
      BY <2>1, CanonicalSays
    <3>2. ASSUME NEW o \in c.outcomes, o.item = i PROVE i \in Formal(run)
      BY <3>1, <3>2
    <3>3. ASSUME i \in Formal(run) PROVE \E o \in c.outcomes : o.item = i
      <4> DEFINE o == [item |-> i, result |-> run.decisions[i].result]
      <4>1. o \in c.outcomes /\ o.item = i
        BY <3>1, <3>3
      <4> QED BY <4>1
    <3> QED BY <3>2, <3>3
  <2>4. ASSUME NEW i
        PROVE  unverified(i) <=> IF run.status = "failed" THEN i \in Applicable(run)
                                 ELSE i \in Unprocessed(run)
    <3> DEFINE missing(j) == IF run.status = "failed" THEN "valid_terminal_conclusion"
                             ELSE IF j \in run.packets THEN "authoritative_decision"
                                                       ELSE "investigation_packet"
               S == IF run.status = "failed" THEN Applicable(run) ELSE Unprocessed(run)
    <3>1. c.unverified = {[item |-> j, missing |-> missing(j)] : j \in S}
      <4>1. c.unverified = Unverified(run)
        BY <2>1, CanonicalSays
      <4> QED BY <4>1 DEF Unverified
    <3> HIDE DEF missing, S
    <3>2. ASSUME NEW u \in c.unverified, u.item = i PROVE i \in S
      BY <3>1, <3>2
    <3>3. ASSUME i \in S PROVE \E u \in c.unverified : u.item = i
      <4> DEFINE u == [item |-> i, missing |-> missing(i)]
      <4>1. u \in c.unverified /\ u.item = i
        BY <3>1, <3>3
      <4> QED BY <4>1
    <3> QED BY <3>2, <3>3 DEF S
  <2>5. \A o \in c.outcomes : run.decisions[o.item].result = o.result
    <3>1. c.outcomes = {[item |-> j, result |-> run.decisions[j].result] : j \in Formal(run)}
      BY <2>1, CanonicalSays
    <3> QED BY <3>1
  <2>6. c.status = "failed" => c.outcomes = {} /\ c.findings = {} /\ c.remediations = {}
    <3> SUFFICES ASSUME c.status = "failed"
                 PROVE  c.outcomes = {} /\ c.findings = {} /\ c.remediations = {}
      OBVIOUS
    <3>1. Formal(run) = {} /\ Delivered(run) = {}
      BY <2>1, CanonicalSays DEF Formal, Delivered
    <3>2. CanonicalFindings(run) = {} /\ CanonicalRemediations(run) = {}
      BY <3>1 DEF CanonicalFindings, CanonicalRemediations
    <3>3. c.outcomes = {[item |-> j, result |-> run.decisions[j].result] : j \in Formal(run)}
          /\ c.findings = CanonicalFindings(run) /\ c.remediations = CanonicalRemediations(run)
      BY <2>1, CanonicalSays
    <3>4. c.outcomes = {}
      BY <3>1, <3>3
    <3> QED BY <3>2, <3>3, <3>4
  <2>7. c.status = run.status /\ c.failures = run.failures
        /\ c.complete = (run.status = "completed" /\ Unprocessed(run) = {})
    BY <2>1, CanonicalSays
  <2>8. ASSUME NEW i \in run.items \ Skipped
        PROVE  /\ outcome(i) \/ unverified(i) \/ i \in c.failures
               /\ ~(outcome(i) /\ unverified(i))
               /\ c.complete => outcome(i) /\ i \notin c.failures
               /\ c.status = "failed" => unverified(i)
    <3>1. i \in Applicable(run)
      BY DEF Applicable
    <3>2. run.status = "completed" => run.failures = {}
      BY <2>1 DEF Renders, Conforms
    <3> HIDE DEF outcome, unverified
    <3> QED BY <2>3, <2>4, <2>7, <3>1, <3>2 DEF Formal, Processed, Unprocessed
  <2> QED BY <2>2, <2>5, <2>6, <2>8 DEF c
<1>2. Init => ResultInv
  BY BeginsRecorded
<1>3. ResultInv /\ [Next]_vars => ResultInv'
  BY StaysRecorded
<1> QED BY <1>1, <1>2, <1>3, PTL DEF Spec

-----------------------------------------------------------------------------
(* The report *)

\* An answer of a decision is a value.
LEMMA AnswersAre ==
  ASSUME NEW d \in Decision, d.common # None, Founded(d), NEW a \in Atom
  PROVE  /\ d.common[a] \in Value
         /\ d.common[a].kind \in {KindOf[a], "unknown", "escalation"}
         /\ d.delivery = None
         /\ d.findings = FindingsFrom(d.common)
<1>1. d.common \in [Atom -> RawValue]
  BY DEF Decision
<1>2. d.common[a] \in Value
  BY <1>1, ResultAssumption
<1>3. d.delivery = None /\ Accepted(d.common) /\ d.findings = FindingsFrom(d.common)
  BY DEF Founded
<1> QED BY <1>2, <1>3 DEF Accepted

\* What a dimension is found to be is what its atom was answered.
LEMMA FindingsAreAnswers ==
  ASSUME NEW d \in Decision, d.common # None, Founded(d), NEW x \in Dimension
  PROVE  \/ d.findings[x] = "satisfied"
         \/ \E a \in Atom :
              \/ d.common[a].kind \in {"unknown", "escalation"} /\ d.findings[x] = "unresolved"
              \/ d.common[a].kind = "dimension" /\ d.findings[x] = d.common[a].verdict
<1> DEFINE told == {a \in Atom : DimensionOf[a] = x /\ KindOf[a] = "dimension"}
           of(v) == IF v.kind # "dimension" THEN "unresolved"
                    ELSE IF v.verdict = "not_applicable" THEN "satisfied" ELSE v.verdict
           a == CHOOSE a \in told : TRUE
<1>1. d.findings[x] = IF told = {} THEN "satisfied" ELSE of(d.common[a])
  <2>1. d.findings = FindingsFrom(d.common)
    <3>1. CASE Atom = {}
      BY <3>1 DEF Founded
    <3> QED BY AnswersAre DEF Founded
  <2> QED BY <2>1 DEF FindingsFrom
<1>2. CASE told = {}
  BY <1>1, <1>2
<1>3. CASE told # {}
  <2>1. a \in told
    BY <1>3
  <2> HIDE DEF a
  <2>2. d.common[a].kind \in {"dimension", "unknown", "escalation"} /\ a \in Atom
    BY <2>1, AnswersAre
  <2> QED BY <1>1, <1>3, <2>2
<1> QED BY <1>2, <1>3

\* Nothing in the rows of a reviewed decision: nobody objected.
LEMMA CommonRowsTell ==
  ASSUME NEW i, NEW common, CommonRows(i, common) = {}
  PROVE  \A a \in Atom :
           /\ ConfirmedIn(common[a]) = {}
           /\ ~(common[a].kind = "relationship" /\ common[a].verdict = "rejected")
           /\ ~(common[a].kind = "dimension" /\ common[a].verdict = "violated")
<1> DEFINE problems == PrimaryRows(i, common) \cup RelationshipRows(i, common)
           others == {Row(i, "dimension", a, {common[a].dimension}, common[a].refs)
                        : a \in {b \in Atom : /\ common[b].kind = "dimension"
                                              /\ common[b].verdict = "violated"}}
<1>1. CommonRows(i, common) = IF problems # {} THEN problems ELSE others
  BY DEF CommonRows
<1>2. problems = {} /\ others = {}
  <2> HIDE DEF problems, others
  <2> QED BY <1>1
<1>3. \A a \in Atom : ~(common[a].kind = "dimension" /\ common[a].verdict = "violated")
  BY <1>2
<1>4. PrimaryRows(i, common) = {} /\ RelationshipRows(i, common) = {}
  BY <1>2
<1>5. \A a \in Atom : ~(common[a].kind = "relationship" /\ common[a].verdict = "rejected")
  BY <1>4 DEF RelationshipRows
<1>6. ASSUME NEW a \in Atom, NEW f \in ConfirmedIn(common[a]) PROVE FALSE
  <2> DEFINE stated == UNION {{<<common[b], g>> : g \in ConfirmedIn(common[b])} : b \in Atom}
             titles == {p[2].title : p \in stated}
             row(t) == LET same == {p \in stated : p[2].title = t}
                       IN  Row(i, "finding", t, UNION {DimensionsOf(p[2], p[1]) : p \in same},
                               UNION {p[1].refs \cup p[2].refs : p \in same})
  <2>1. <<common[a], f>> \in stated
    BY <1>6
  <2>3. PrimaryRows(i, common) = {row(t) : t \in titles}
    BY DEF PrimaryRows
  <2> HIDE DEF stated
  <2>2. f.title \in titles
    <3> DEFINE p == <<common[a], f>>
    <3>1. p \in stated /\ p[2] = f
      BY <2>1
    <3> HIDE DEF p
    <3> QED BY <3>1
  <2> HIDE DEF row, titles
  <2> QED BY <1>4, <2>2, <2>3
<1> QED BY <1>3, <1>5, <1>6

LEMMA RowsOfSome ==
  ASSUME NEW i, NEW S, NEW a \in S
  PROVE  {[item |-> i, subject |-> b] : b \in S} # {}
<1>1. [item |-> i, subject |-> a] \in {[item |-> i, subject |-> b] : b \in S}
  OBVIOUS
<1> QED BY <1>1

LEMMA NoRowsNoProblem ==
  ASSUME NEW i, NEW d \in Decision, Founded(d), DecisionRows(i, d) = {}, PendingRows(i, d) = {}
  PROVE  /\ d.result \notin {"issue_found", "needs_review"}
         /\ d.common # None => \A a \in Atom : ~Objects(d.common[a])
<1>1. CASE d.common # None
  <2>1. \A a \in Atom :
          /\ d.common[a] \in Value /\ d.common[a].kind \in {KindOf[a], "unknown", "escalation"}
          /\ d.delivery = None
    BY <1>1, AnswersAre
  <2>2. d.delivery = None
    BY <1>1 DEF Founded
  <2>3. CommonRows(i, d.common) = {}
    <3>1. DecisionRows(i, d) = CommonRows(i, d.common)
      BY <1>1, <2>2 DEF DecisionRows
    <3> QED BY <3>1
  <2>4. \A a \in Atom : ~IsPending(d.common[a])
    <3>1. PendingRows(i, d) = {[item |-> i, subject |-> a] : a \in {b \in Atom : IsPending(d.common[b])}}
      BY <1>1 DEF PendingRows
    <3>2. ASSUME NEW a \in Atom, IsPending(d.common[a]) PROVE FALSE
      <4> DEFINE left == {b \in Atom : IsPending(d.common[b])}
      <4>1. a \in left
        BY <3>2
      <4> HIDE DEF left
      <4>2. {[item |-> i, subject |-> b] : b \in left} # {}
        BY <4>1, RowsOfSome
      <4> QED BY <3>1, <4>2 DEF left
    <3> QED BY <3>2
  <2>5. \A a \in Atom : ~Objects(d.common[a])
    <3> SUFFICES ASSUME NEW a \in Atom PROVE ~Objects(d.common[a])
      OBVIOUS
    <3>1. /\ d.common[a].kind = "dimension" => d.common[a].verdict \in DimensionVerdicts
          /\ d.common[a].kind = "relationship" => d.common[a].verdict \in RelationshipVerdicts
      BY <2>1 DEF Value, Dimensions, Candidates, Relationships
    <3>2. /\ ConfirmedIn(d.common[a]) = {}
          /\ ~(d.common[a].kind = "relationship" /\ d.common[a].verdict = "rejected")
          /\ ~(d.common[a].kind = "dimension" /\ d.common[a].verdict = "violated")
      BY <2>3, CommonRowsTell
    <3> QED BY <2>4, <3>1, <3>2 DEF Objects, DimensionVerdicts, RelationshipVerdicts
  <2>6. \A x \in Dimension : d.findings[x] # "violated" /\ d.findings[x] \notin Open
    <3> SUFFICES ASSUME NEW x \in Dimension PROVE d.findings[x] # "violated" /\ d.findings[x] \notin Open
      OBVIOUS
    <3>1. CASE d.findings[x] = "satisfied"
      BY <3>1 DEF Open
    <3>2. ASSUME NEW a \in Atom,
                 d.common[a].kind \in {"unknown", "escalation"} /\ d.findings[x] = "unresolved"
          PROVE  FALSE
      BY <2>4, <3>2 DEF IsPending
    <3>3. ASSUME NEW a \in Atom,
                 d.common[a].kind = "dimension" /\ d.findings[x] = d.common[a].verdict
          PROVE  d.findings[x] # "violated" /\ d.findings[x] \notin Open
      <4>1. ~(d.common[a].kind = "dimension" /\ d.common[a].verdict = "violated")
        BY <2>3, CommonRowsTell
      <4>2. d.common[a].verdict \notin Open
        BY <2>4, <3>3 DEF IsPending
      <4> QED BY <3>3, <4>1, <4>2
    <3> QED BY <1>1, <3>1, <3>2, <3>3, FindingsAreAnswers
  <2>7. d.result \notin {"issue_found", "needs_review"}
    BY <2>6 DEF Founded, Gate
  <2> QED BY <2>5, <2>7
<1>2. CASE d.common = None
  <2>1. ASSUME d.result = "issue_found" PROVE FALSE
    <3>1. PICK x \in Dimension : d.findings[x] = "violated"
      BY <2>1 DEF Founded, Gate
    <3>2. x \in ActionableOf(d.findings)
      BY <3>1 DEF ActionableOf, Negative
    <3>3. CASE d.delivery # None /\ d.delivery.remediations # {}
      <4>1. DeliveryRows(i, d) = {}
        BY <3>3 DEF DecisionRows
      <4> QED BY <3>3, <4>1 DEF DeliveryRows
    <3>4. CASE ~(d.delivery # None /\ d.delivery.remediations # {})
      BY <1>2, <2>1, <3>2, <3>4 DEF DecisionRows
    <3> QED BY <3>3, <3>4
  <2>2. ASSUME d.result = "needs_review" PROVE FALSE
    <3>1. PICK x \in Dimension : d.findings[x] \in Open
      BY <2>2 DEF Founded, Gate
    <3>2. PendingRows(i, d) = {[item |-> i, subject |-> y] : y \in {z \in Dimension : d.findings[z] \in Open}}
      BY <1>2, <2>2 DEF PendingRows
    <3> DEFINE left == {z \in Dimension : d.findings[z] \in Open}
    <3>3. x \in left
      BY <3>1
    <3> HIDE DEF left
    <3>4. {[item |-> i, subject |-> y] : y \in left} # {}
      BY <3>3, RowsOfSome
    <3> QED BY <3>2, <3>4 DEF left
  <2> QED BY <1>2, <2>1, <2>2
<1> QED BY <1>1, <1>2

\* A row of findings is the only one of its title.
LEMMA OneRowPerTitle ==
  ASSUME NEW i, NEW d, NEW x \in DecisionRows(i, d), x.kind = "finding",
         NEW y \in DecisionRows(i, d), y.kind = "finding", x.title = y.title
  PROVE  x = y
<1> DEFINE common == d.common
           stated == UNION {{<<common[a], f>> : f \in ConfirmedIn(common[a])} : a \in Atom}
           titles == {p[2].title : p \in stated}
           dims(t) == UNION {DimensionsOf(p[2], p[1]) : p \in {q \in stated : q[2].title = t}}
           refs(t) == UNION {p[1].refs \cup p[2].refs : p \in {q \in stated : q[2].title = t}}
<1>1. \A z \in DecisionRows(i, d) : z.kind = "finding" => z \in PrimaryRows(i, common)
  <2>1. \A z \in DeliveryRows(i, d) : z.kind # "finding"
    BY DEF DeliveryRows, Row, Fallback
  <2>2. \A z \in RelationshipRows(i, common) : z.kind # "finding"
    BY DEF RelationshipRows, Row
  <2>3. \A z \in CommonRows(i, common) : z.kind = "finding" => z \in PrimaryRows(i, common)
    BY <2>2 DEF CommonRows, Row
  <2>4. \A z \in {Fallback(i, e) : e \in ActionableOf(d.findings)} : z.kind # "finding"
    BY DEF Fallback, Row
  <2> QED BY <2>1, <2>3, <2>4 DEF DecisionRows
<1>2. PrimaryRows(i, common) = {Row(i, "finding", t, dims(t), refs(t)) : t \in titles}
  BY DEF PrimaryRows
<1> HIDE DEF dims, refs, titles, stated
<1>3. \A z \in PrimaryRows(i, common) :
        z = Row(i, "finding", z.title, dims(z.title), refs(z.title))
  BY <1>2 DEF Row
<1> QED BY <1>1, <1>3

LEMMA RowsAreOf ==
  ASSUME NEW i, NEW d, NEW x \in DecisionRows(i, d)
  PROVE  x.item = i
<1>1. \A z \in DeliveryRows(i, d) : z.item = i
  BY DEF DeliveryRows, Row, Fallback
<1>2. \A z \in PrimaryRows(i, d.common) : z.item = i
  BY DEF PrimaryRows, Row
<1>3. \A z \in RelationshipRows(i, d.common) : z.item = i
  BY DEF RelationshipRows, Row
<1>4. \A z \in CommonRows(i, d.common) : z.item = i
  BY <1>2, <1>3 DEF CommonRows, Row
<1>5. \A z \in {Fallback(i, e) : e \in ActionableOf(d.findings)} : z.item = i
  BY DEF Fallback, Row
<1> QED BY <1>1, <1>4, <1>5 DEF DecisionRows

\* The report of a Run that ended passes only on what was decided without an issue, and
\* has one row for findings of one content, whatever the decisions say.
THEOREM NothingPassesSilently == Spec => []NeverPassesSilently
<1>1. ResultInv => NeverPassesSilently
  <2> SUFFICES ASSUME ResultInv, Finished PROVE
        LET p == published.report
        IN  /\ p.conclusion \in {"pass", "not_applicable"} =>
                 /\ run.status = "completed" /\ p.unchecked = {}
                 /\ published.canonical.complete /\ published.canonical.needsReview = {}
                 /\ \A i \in run.items :
                      LET d == run.decisions[i]
                      IN  /\ d # None /\ d.result \notin {"issue_found", "needs_review"}
                          /\ d.common # None => \A a \in Atom : ~Objects(d.common[a])
            /\ \A x, y \in p.issues :
                 (x.item = y.item /\ x.kind = "finding" /\ y.kind = "finding" /\ x.title = y.title)
                   => x = y
    BY DEF NeverPassesSilently
  <2>1. /\ published.report = Report(run) /\ published.canonical = Canonical(run)
        /\ run.status \in Terminal /\ Renders(run) /\ Recorded(run)
    BY DEF ResultInv, Finished
  <2>2. ASSUME published.report.conclusion \in {"pass", "not_applicable"}
        PROVE  /\ run.status = "completed" /\ published.report.unchecked = {}
               /\ published.canonical.complete /\ published.canonical.needsReview = {}
               /\ \A i \in run.items :
                    LET d == run.decisions[i]
                    IN  /\ d # None /\ d.result \notin {"issue_found", "needs_review"}
                        /\ d.common # None => \A a \in Atom : ~Objects(d.common[a])
    <3>1. Conclusion(run) \in {"pass", "not_applicable"}
      BY <2>1, <2>2, ReportSays
    <3>2. ReportComplete(run) /\ Issues(run) = {} /\ Pending(run) = {}
      BY <3>1 DEF Conclusion
    <3>3. run.status = "completed" /\ Unchecked(run) = {} /\ run.failures = {}
      BY <3>2 DEF ReportComplete
    <3>4. Formal(run) = Decided(run) /\ run.items \subseteq Decided(run)
      BY <3>3 DEF Formal, Unchecked
    <3>5. Unprocessed(run) = {}
      BY <3>4 DEF Unprocessed, Processed, Applicable
    <3>6. ASSUME NEW i \in Formal(run)
          PROVE  LET d == run.decisions[i]
                 IN  /\ d # None /\ d.result \notin {"issue_found", "needs_review"}
                     /\ d.common # None => \A a \in Atom : ~Objects(d.common[a])
      <4>1. DecisionRows(i, run.decisions[i]) = {} /\ PendingRows(i, run.decisions[i]) = {}
        BY <3>2 DEF Issues, Pending
      <4>2. run.decisions[i] \in Decision /\ Founded(run.decisions[i]) /\ run.decisions[i] # None
        BY <2>1, <3>4 DEF Recorded, Decided
      <4> QED BY <4>1, <4>2, NoRowsNoProblem
    <3>7. NeedsReview(run) = {}
      BY <3>6 DEF NeedsReview
    <3>8. \A i \in run.items : i \in Formal(run)
      BY <3>4
    <3>9. /\ published.report.unchecked = {} /\ published.canonical.complete
          /\ published.canonical.needsReview = {}
      BY <2>1, <3>3, <3>5, <3>7, CanonicalSays, ReportSays
    <3> QED BY <3>3, <3>6, <3>8, <3>9
  <2>3. ASSUME NEW x \in published.report.issues, NEW y \in published.report.issues,
               x.item = y.item, x.kind = "finding", y.kind = "finding", x.title = y.title
        PROVE  x = y
    <3>1. published.report.issues = Issues(run)
      BY <2>1, ReportSays
    <3>2. PICK i \in Formal(run) : x \in DecisionRows(i, run.decisions[i])
      BY <3>1 DEF Issues
    <3>3. PICK j \in Formal(run) : y \in DecisionRows(j, run.decisions[j])
      BY <3>1 DEF Issues
    <3>4. i = j
      BY <2>3, <3>2, <3>3, RowsAreOf
    <3> QED BY <2>3, <3>2, <3>3, <3>4, OneRowPerTitle
  <2> QED BY <2>2, <2>3
<1>2. Init => ResultInv
  BY BeginsRecorded
<1>3. ResultInv /\ [Next]_vars => ResultInv'
  BY StaysRecorded
<1> QED BY <1>1, <1>2, <1>3, PTL DEF Spec

-----------------------------------------------------------------------------
(* Deliveries *)

\* A delivery was built from the dimensions it speaks of.
LEMMA DeliveriesAre ==
  ASSUME NEW findings, NEW v \in Deliveries(findings), v # None
  PROVE  \A m \in v.remediations : m.refs = UNION {EvidenceOf[x] : x \in m.dims}
<1> DEFINE rest(confirmed, linked) == Deliver(findings, confirmed, linked)
<1>1. ASSUME NEW confirmed, NEW linked, NEW m \in Deliver(findings, confirmed, linked).remediations
      PROVE  m.refs = UNION {EvidenceOf[x] : x \in m.dims}
  <2> DEFINE dims(d) == {d} \cup {l \in ActionableOf(findings) : d \in linked[l]}
             subjects == confirmed \cap ActionableOf(findings)
  <2>1. Deliver(findings, confirmed, linked).remediations =
          {[id |-> d, dims |-> dims(d), claims |-> {d},
            refs |-> UNION {EvidenceOf[x] : x \in dims(d)}] : d \in subjects}
    BY DEF Deliver
  <2> HIDE DEF dims, subjects
  <2>2. PICK d \in subjects :
          m = [id |-> d, dims |-> dims(d), claims |-> {d},
               refs |-> UNION {EvidenceOf[x] : x \in dims(d)}]
    BY <1>1, <2>1
  <2> QED BY <2>2
<1>2. ASSUME NEW built, built.remediations = v.remediations,
             NEW confirmed, NEW linked, built = Deliver(findings, confirmed, linked)
      PROVE  \A m \in v.remediations : m.refs = UNION {EvidenceOf[x] : x \in m.dims}
  BY <1>1, <1>2
<1>3. \E confirmed, linked :
        v.remediations = Deliver(findings, confirmed, linked).remediations
  <2> DEFINE built == {Deliver(findings, confirmed, linked) :
                         confirmed \in SUBSET Dimension, linked \in [Dimension -> SUBSET Dimension]}
  <2>1. v \in built \/ v \in {[b EXCEPT !.status = "complete"] : b \in built}
    BY DEF Deliveries
  <2>2. \A b \in built : [b EXCEPT !.status = "complete"].remediations = b.remediations
    BY DEF Deliver
  <2>3. \A b \in built : \E confirmed, linked : b = Deliver(findings, confirmed, linked)
    OBVIOUS
  <2> HIDE DEF built
  <2>4. PICK b \in built : v.remediations = b.remediations
    BY <2>1, <2>2
  <2> QED BY <2>3, <2>4
<1> QED BY <1>2, <1>3

\* Where the result is actionable, every decision it stands for has a complete
\* and valid delivery.
LEMMA ActionableDeliveries ==
  ASSUME Recorded(run), Renders(run), Actionability(run) = "complete", NEW i \in Formal(run)
  PROVE  LET d == run.decisions[i]
         IN  /\ d \in Decision /\ d.delivery # None /\ d.delivery.status = "complete"
             /\ ValidDelivery(d.delivery, d.result, d.findings)
             /\ d.delivery \in Deliveries(d.findings)
             /\ i \in Delivered(run)
<1> DEFINE d == run.decisions[i]
           status(j) == IF run.decisions[j].delivery = None THEN "not_declared"
                        ELSE run.decisions[j].delivery.status
<1>1. status(i) # "not_declared" /\ status(i) # "partial"
  <2> DEFINE statuses == {status(j) : j \in Formal(run)}
  <2>1. status(i) \in statuses
    OBVIOUS
  <2> HIDE DEF statuses, status
  <2>2. Actionability(run) = IF statuses = {} \/ "not_declared" \in statuses THEN "not_declared"
                             ELSE IF "partial" \in statuses THEN "partial" ELSE "complete"
    BY DEF Actionability, statuses, status
  <2> QED BY <2>1, <2>2
<1>2. d.delivery # None
  BY <1>1
<1>3. d \in Decision /\ Founded(d)
  BY DEF Recorded, Formal
<1>4. d.delivery \in Deliveries(d.findings)
  BY <1>2, <1>3 DEF Founded
<1>5. d.delivery.status \in {"complete", "partial"}
  BY <1>2, <1>4 DEF Deliveries, Deliver
<1>6. ValidDelivery(d.delivery, d.result, d.findings)
  BY <1>2 DEF Renders, Extractable
<1> QED BY <1>1, <1>2, <1>3, <1>4, <1>5, <1>6 DEF Delivered

LEMMA RemediationsAre ==
  ASSUME NEW r, NEW i \in Delivered(r), NEW m \in r.decisions[i].delivery.remediations
  PROVE  [item |-> i, id |-> m.id, dims |-> m.dims, refs |-> m.refs,
          claims |-> {<<i, k>> : k \in m.claims}] \in CanonicalRemediations(r)
<1> DEFINE of(j) == {[item |-> j, id |-> n.id, dims |-> n.dims, refs |-> n.refs,
                      claims |-> {<<j, k>> : k \in n.claims}]
                       : n \in r.decisions[j].delivery.remediations}
<1>1. CanonicalRemediations(r) = UNION {of(j) : j \in Delivered(r)}
  BY DEF CanonicalRemediations
<1>2. [item |-> i, id |-> m.id, dims |-> m.dims, refs |-> m.refs,
       claims |-> {<<i, k>> : k \in m.claims}] \in of(i)
  OBVIOUS
<1> HIDE DEF of
<1> QED BY <1>1, <1>2

LEMMA RemediationsComeFrom ==
  ASSUME NEW r, NEW n \in CanonicalRemediations(r)
  PROVE  \E i \in Delivered(r) : \E m \in r.decisions[i].delivery.remediations :
           /\ n.item = i /\ n.dims = m.dims /\ n.refs = m.refs
           /\ n.claims = {<<i, k>> : k \in m.claims}
<1> DEFINE of(j) == {[item |-> j, id |-> m.id, dims |-> m.dims, refs |-> m.refs,
                      claims |-> {<<j, k>> : k \in m.claims}]
                       : m \in r.decisions[j].delivery.remediations}
<1>1. CanonicalRemediations(r) = UNION {of(j) : j \in Delivered(r)}
  BY DEF CanonicalRemediations
<1> HIDE DEF of
<1>2. PICK i \in Delivered(r) : n \in of(i)
  BY <1>1
<1>3. PICK m \in r.decisions[i].delivery.remediations :
        n = [item |-> i, id |-> m.id, dims |-> m.dims, refs |-> m.refs,
             claims |-> {<<i, k>> : k \in m.claims}]
  BY <1>2 DEF of
<1> QED BY <1>3

LEMMA FindingsAre ==
  ASSUME NEW r
  PROVE  /\ \A f \in CanonicalFindings(r) :
              /\ f.item \in Formal(r) /\ f.dim \in Dimension
              /\ f.status = r.decisions[f.item].findings[f.dim]
         /\ \A i \in Formal(r), d \in Dimension :
              [item |-> i, dim |-> d, status |-> r.decisions[i].findings[d],
               refs |-> EvidenceOf[d]] \in CanonicalFindings(r)
BY DEF CanonicalFindings

\* A result that calls itself actionable has a founded remediation, and a row of the
\* report, for every dimension that is violated or conflicted.
THEOREM ActionableIsComplete == Spec => []CompleteIsActionable
<1>1. ResultInv => CompleteIsActionable
  <2> SUFFICES ASSUME ResultInv, Finished, published.canonical.actionability = "complete" PROVE
        LET c == published.canonical
        IN  /\ \A f \in c.findings : f.status \in Negative =>
                 /\ \E m \in c.remediations : m.item = f.item /\ f.dim \in m.dims
                 /\ \E x \in published.report.issues : x.item = f.item /\ f.dim \in x.dims
            /\ \A m \in c.remediations :
                 /\ \A d \in m.dims : \E f \in c.findings :
                      f.item = m.item /\ f.dim = d /\ f.status \in Negative
                 /\ m.refs \subseteq UNION {f.refs : f \in {g \in c.findings : g.item = m.item}}
                 /\ \A k \in m.claims : \E q \in c.claims : q.id = k /\ q.refs \subseteq m.refs
    BY DEF CompleteIsActionable
  <2> DEFINE c == published.canonical
             d(i) == run.decisions[i]
  <2>1. /\ published.report = Report(run) /\ published.canonical = Canonical(run)
        /\ run.status \in Terminal /\ Renders(run) /\ Recorded(run)
    BY DEF ResultInv, Finished
  <2>2. /\ c.findings = CanonicalFindings(run) /\ c.remediations = CanonicalRemediations(run)
        /\ c.claims = CanonicalClaims(run) /\ Actionability(run) = "complete"
        /\ published.report.issues = Issues(run)
    BY <2>1, CanonicalSays, ReportSays
  <2>3. \A i \in Formal(run) :
          /\ d(i) \in Decision /\ d(i).delivery # None /\ d(i).delivery.status = "complete"
          /\ ValidDelivery(d(i).delivery, d(i).result, d(i).findings)
          /\ d(i).delivery \in Deliveries(d(i).findings)
          /\ i \in Delivered(run)
    BY <2>1, <2>2, ActionableDeliveries
  <2> HIDE DEF c
  <2>4. ASSUME NEW f \in c.findings, f.status \in Negative
        PROVE  /\ \E m \in c.remediations : m.item = f.item /\ f.dim \in m.dims
               /\ \E x \in published.report.issues : x.item = f.item /\ f.dim \in x.dims
    <3>1. f.item \in Formal(run) /\ f.dim \in ActionableOf(d(f.item).findings)
      BY <2>2, <2>4, FindingsAre DEF ActionableOf
    <3>2. PICK m \in d(f.item).delivery.remediations : f.dim \in m.dims
      BY <2>3, <3>1 DEF ValidDelivery
    <3> DEFINE i == f.item
               n == [item |-> i, id |-> m.id, dims |-> m.dims, refs |-> m.refs,
                     claims |-> {<<i, k>> : k \in m.claims}]
               x == Row(i, "remediation", m.id, m.dims, m.refs)
    <3>3. n \in c.remediations
      BY <2>2, <2>3, <3>1, RemediationsAre
    <3>4. n.item = f.item /\ f.dim \in n.dims
      BY <3>2
    <3>5. x \in DeliveryRows(i, d(i))
      BY DEF DeliveryRows
    <3>6. x \in DecisionRows(i, d(i))
      BY <2>3, <3>1, <3>5 DEF DecisionRows
    <3>7. x \in published.report.issues
      BY <2>2, <3>1, <3>6 DEF Issues
    <3>8. x.item = f.item /\ f.dim \in x.dims
      BY <3>2 DEF Row
    <3> QED BY <3>3, <3>4, <3>7, <3>8
  <2>5. ASSUME NEW n \in c.remediations
        PROVE  /\ \A e \in n.dims : \E f \in c.findings :
                    f.item = n.item /\ f.dim = e /\ f.status \in Negative
               /\ n.refs \subseteq UNION {f.refs : f \in {g \in c.findings : g.item = n.item}}
               /\ \A k \in n.claims : \E q \in c.claims : q.id = k /\ q.refs \subseteq n.refs
    <3>1. PICK i \in Delivered(run) : \E m \in d(i).delivery.remediations :
             /\ n.item = i /\ n.dims = m.dims /\ n.refs = m.refs
             /\ n.claims = {<<i, k>> : k \in m.claims}
      BY <2>2, RemediationsComeFrom
    <3>2. PICK m \in d(i).delivery.remediations :
             /\ n.item = i /\ n.dims = m.dims /\ n.refs = m.refs
             /\ n.claims = {<<i, k>> : k \in m.claims}
      BY <3>1
    <3>3. i \in Formal(run)
      BY DEF Delivered
    <3>4. m.dims \subseteq ActionableOf(d(i).findings)
      BY <2>3, <3>3 DEF ValidDelivery
    <3>5. m.refs = UNION {EvidenceOf[x] : x \in m.dims}
      BY <2>3, <3>3, DeliveriesAre
    <3>6. ASSUME NEW e \in m.dims
          PROVE  \E f \in c.findings : /\ f.item = i /\ f.dim = e /\ f.status \in Negative
                                       /\ f.refs = EvidenceOf[e]
      <4> DEFINE f == [item |-> i, dim |-> e, status |-> d(i).findings[e], refs |-> EvidenceOf[e]]
      <4>1. e \in Dimension /\ d(i).findings[e] \in Negative
        BY <3>4 DEF ActionableOf
      <4>2. f \in c.findings
        BY <2>2, <3>3, <4>1, FindingsAre
      <4> QED BY <4>1, <4>2
    <3>7. n.refs \subseteq UNION {f.refs : f \in {g \in c.findings : g.item = n.item}}
      <4> SUFFICES ASSUME NEW ref \in n.refs
                   PROVE  \E f \in c.findings : f.item = n.item /\ ref \in f.refs
        OBVIOUS
      <4>1. PICK e \in m.dims : ref \in EvidenceOf[e]
        BY <3>2, <3>5
      <4> QED BY <3>2, <3>6, <4>1
    <3>8. ASSUME NEW k \in n.claims PROVE \E q \in c.claims : q.id = k /\ q.refs \subseteq n.refs
      <4>1. PICK j \in m.claims : k = <<i, j>>
        BY <3>2
      <4>2. PICK e \in d(i).delivery.claims : e.id = j /\ e.refs \subseteq m.refs
        BY <2>3, <3>3 DEF ValidDelivery
      <4>3. [id |-> <<i, e.id>>, refs |-> e.refs] \in CanonicalClaims(run)
        <5> DEFINE of(x) == {[id |-> <<x, q.id>>, refs |-> q.refs]
                               : q \in run.decisions[x].delivery.claims}
        <5>1. CanonicalClaims(run) = UNION {of(x) : x \in Delivered(run)}
          BY DEF CanonicalClaims
        <5>2. [id |-> <<i, e.id>>, refs |-> e.refs] \in of(i)
          OBVIOUS
        <5> HIDE DEF of
        <5> QED BY <5>1, <5>2
      <4> QED BY <2>2, <3>2, <4>1, <4>2, <4>3
    <3> QED BY <3>2, <3>6, <3>7, <3>8
  <2> QED BY <2>4, <2>5 DEF c
<1>2. Init => ResultInv
  BY BeginsRecorded
<1>3. ResultInv /\ [Next]_vars => ResultInv'
  BY StaysRecorded
<1> QED BY <1>1, <1>2, <1>3, PTL DEF Spec
=============================================================================
