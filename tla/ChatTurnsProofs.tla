--------------------------- MODULE ChatTurnsProofs ---------------------------
(***************************************************************************)
(* The turns of a chat are safe, for any connections, starts, processes    *)
(* and events.                                                             *)
(***************************************************************************)
EXTENDS ChatTurns, WellFoundedInduction, FiniteSetTheorems, TLAPS

-----------------------------------------------------------------------------
(***************************************************************************)
(* Sequences with some of their elements left out.                         *)
(***************************************************************************)

\* A set of naturals that is not empty has a least one.
LEMMA Least ==
  ASSUME NEW T \in SUBSET Nat, T # {}
  PROVE  \E n \in T : \A m \in T : n <= m
<1> DEFINE R == OpToRel(<, Nat)
<1>1. IsWellFoundedOn(R, Nat)
  BY NatLessThanWellFounded
<1>2. \A x, y \in Nat : y < x => <<y, x>> \in R
  BY DEF OpToRel
<1> HIDE DEF R
<1>3. PICK x \in T : \A y \in T : ~ (<<y, x>> \in R)
  BY <1>1, WFMin
<1>4. \A y \in T : ~(y < x)
  BY <1>2, <1>3
<1>5. \A y \in T : x <= y
  BY <1>4
<1> QED
  BY <1>5

\* f is what Only computes, up to n.
IsOnly(f, s, P, n) ==
  f = [i \in 0..n |-> IF i = 0 THEN <<>> ELSE IF i \in P THEN Append(f[i - 1], s[i]) ELSE f[i - 1]]

\* There is such a function: the least n without one would have one.
LEMMA OnlyExists ==
  ASSUME NEW S, NEW s \in Seq(S), NEW P, NEW n \in Nat
  PROVE  \E f : IsOnly(f, s, P, n)
<1> DEFINE T == {k \in Nat : ~ \E f : IsOnly(f, s, P, k)}
<1>1. SUFFICES T = {}
  OBVIOUS
<1>2. SUFFICES ASSUME T # {} PROVE FALSE
  OBVIOUS
<1>3. PICK k \in T : \A m \in T : k <= m
  BY <1>2, Least
<1>4. CASE k = 0
  <2> DEFINE f == [i \in 0..0 |-> <<>>]
  <2>1. IsOnly(f, s, P, 0)
    BY DEF IsOnly
  <2> QED
    BY <1>4, <2>1
<1>5. CASE k # 0
  <2>1. k - 1 \in Nat /\ k - 1 \notin T
    BY <1>3, <1>5
  <2>2. PICK g : IsOnly(g, s, P, k - 1)
    BY <2>1
  <2> DEFINE e == IF k \in P THEN Append(g[k - 1], s[k]) ELSE g[k - 1]
             f == [i \in 0..k |-> IF i = k THEN e ELSE g[i]]
  <2>3. IsOnly(f, s, P, k)
    <3> DEFINE h == [i \in 0..k |-> IF i = 0 THEN <<>> ELSE IF i \in P THEN Append(f[i - 1], s[i]) ELSE f[i - 1]]
    <3>1. ASSUME NEW i \in 0..k PROVE f[i] = h[i]
      <4>1. CASE i = 0
        BY <1>5, <2>1, <2>2, <4>1 DEF IsOnly
      <4>2. CASE i = k
        BY <1>5, <4>2
      <4>3. CASE i # 0 /\ i # k
        <5>1. i \in 0..(k-1) /\ i - 1 \in 0..(k-1) /\ i - 1 # k
          BY <2>1, <4>3
        <5>2. f[i] = g[i] /\ f[i-1] = g[i-1]
          BY <5>1, <4>3
        <5>3. g[i] = IF i = 0 THEN <<>> ELSE IF i \in P THEN Append(g[i - 1], s[i]) ELSE g[i - 1]
          BY <2>2, <5>1 DEF IsOnly
        <5>4. h[i] = IF i = 0 THEN <<>> ELSE IF i \in P THEN Append(f[i - 1], s[i]) ELSE f[i - 1]
          OBVIOUS
        <5> HIDE DEF f, h
        <5> QED
          BY <5>2, <5>3, <5>4
      <4> QED
        BY <4>1, <4>2, <4>3
    <3>2. f = h
      <4>1. f = [i \in 0..k |-> f[i]] /\ h = [i \in 0..k |-> h[i]]
        OBVIOUS
      <4> HIDE DEF f, h
      <4> QED
        BY <3>1, <4>1
    <3> QED
      BY <3>2 DEF IsOnly
  <2> QED
    BY <2>3
<1> QED
  BY <1>4, <1>5

\* What Only answers is the last value of such a function.
LEMMA OnlyUnfolds ==
  ASSUME NEW S, NEW s \in Seq(S), NEW P
  PROVE  \E f : IsOnly(f, s, P, Len(s)) /\ Only(s, P) = f[Len(s)]
<1> DEFINE D == CHOOSE f : f = [i \in 0..Len(s) |-> IF i = 0 THEN <<>> ELSE IF i \in P THEN Append(f[i - 1], s[i]) ELSE f[i - 1]]
<1>1. Only(s, P) = D[Len(s)]
  BY DEF Only
<1>2. \E f : IsOnly(f, s, P, Len(s))
  BY OnlyExists
<1>3. IsOnly(D, s, P, Len(s))
  BY <1>2 DEF IsOnly
<1> QED
  BY <1>1, <1>3

\* r is s at the positions of P up to n, in order.
Picks(r, s, P, n, e) ==
  /\ e \in [1..Len(r) -> 1..n]
  /\ \A i \in 1..Len(r) : e[i] \in P /\ r[i] = s[e[i]]
  /\ \A i, j \in 1..Len(r) : i < j => e[i] < e[j]
  /\ \A p \in 1..n : p \in P => \E i \in 1..Len(r) : e[i] = p

\* Only answers a sequence of what was at the positions given, in order and all of it.
LEMMA OnlyPicks ==
  ASSUME NEW S, NEW s \in Seq(S), NEW P
  PROVE  /\ Only(s, P) \in Seq(S)
         /\ \E e : Picks(Only(s, P), s, P, Len(s), e)
<1>1. PICK f : IsOnly(f, s, P, Len(s)) /\ Only(s, P) = f[Len(s)]
  BY OnlyUnfolds
<1>2. PICK L \in Nat : L = Len(s)
  OBVIOUS
<1> DEFINE T == {k \in 0..L : ~(f[k] \in Seq(S) /\ \E e : Picks(f[k], s, P, k, e))}
<1>3. SUFFICES ASSUME T # {} PROVE FALSE
  BY <1>1, <1>2
<1>a. T \in SUBSET Nat
  BY <1>2
<1>4. PICK k \in T : \A m \in T : k <= m
  <2> HIDE DEF T
  <2> QED
    BY <1>3, <1>a, Least
<1>5. \A i \in 0..L : f[i] = IF i = 0 THEN <<>> ELSE IF i \in P THEN Append(f[i - 1], s[i]) ELSE f[i - 1]
  BY <1>1, <1>2 DEF IsOnly
<1>6. k # 0
  <2>1. f[0] = <<>>
    BY <1>5, <1>2
  <2>2. Picks(<<>>, s, P, 0, <<>>)
    <3>1. <<>> \in [1..0 -> 1..0] /\ Len(<<>>) = 0
      OBVIOUS
    <3> QED
      BY <3>1 DEF Picks
  <2>3. f[0] \in Seq(S) /\ \E e : Picks(f[0], s, P, 0, e)
    <3>1. <<>> \in Seq(S) /\ \E e : Picks(<<>>, s, P, 0, e)
      BY <2>2
    <3> QED
      BY <3>1, <2>1
  <2>4. 0 \notin T
    BY <2>3
  <2> QED
    BY <2>4
<1>7. k - 1 \in 0..L /\ k \in 1..L
  BY <1>4, <1>6, <1>2
<1>8. f[k - 1] \in Seq(S) /\ \E e : Picks(f[k - 1], s, P, k - 1, e)
  BY <1>4, <1>7, <1>2
<1>9. PICK e : Picks(f[k - 1], s, P, k - 1, e)
  BY <1>8
<1>10. f[k] = IF k \in P THEN Append(f[k - 1], s[k]) ELSE f[k - 1]
  BY <1>5, <1>7, <1>6, <1>2
<1>11. PICK r : r = f[k - 1]
  OBVIOUS
<1>12. PICK n \in Nat : n = Len(r)
  BY <1>8, <1>11
<1>13. /\ r \in Seq(S)
       /\ e \in [1..n -> 1..(k - 1)]
       /\ \A i \in 1..n : e[i] \in P /\ r[i] = s[e[i]]
       /\ \A i, j \in 1..n : i < j => e[i] < e[j]
       /\ \A p \in 1..(k - 1) : p \in P => \E i \in 1..n : e[i] = p
  BY <1>8, <1>9, <1>11, <1>12 DEF Picks
<1>14. s[k] \in S
  BY <1>7, <1>2
<1>15. CASE k \in P
  <2> DEFINE g == [i \in 1..(n + 1) |-> IF i = n + 1 THEN k ELSE e[i]]
             q == Append(r, s[k])
  <2>1. q \in Seq(S) /\ Len(q) = n + 1 /\ q[n + 1] = s[k] /\ \A i \in 1..n : q[i] = r[i]
    BY <1>13, <1>14, <1>12
  <2>2. g \in [1..(n + 1) -> 1..k] /\ g[n + 1] = k /\ \A i \in 1..n : g[i] = e[i]
    BY <1>13, <1>7
  <2> HIDE DEF g, q
  <2>3. \A i \in 1..(n + 1) : g[i] \in P /\ q[i] = s[g[i]]
    BY <2>1, <2>2, <1>13, <1>15
  <2>4. \A i, j \in 1..(n + 1) : i < j => g[i] < g[j]
    <3> SUFFICES ASSUME NEW i \in 1..(n + 1), NEW j \in 1..(n + 1), i < j PROVE g[i] < g[j]
      OBVIOUS
    <3>1. i \in 1..n /\ e[i] \in 1..(k - 1) /\ g[i] = e[i]
      BY <1>13, <2>2
    <3>2. CASE j = n + 1
      BY <3>1, <3>2, <2>2, <1>7
    <3>3. CASE j \in 1..n
      BY <3>1, <3>3, <2>2, <1>13
    <3> QED
      BY <3>2, <3>3
  <2>5. \A p \in 1..k : p \in P => \E i \in 1..(n + 1) : g[i] = p
    <3> SUFFICES ASSUME NEW p \in 1..k, p \in P PROVE \E i \in 1..(n + 1) : g[i] = p
      OBVIOUS
    <3>1. CASE p = k
      BY <3>1, <2>2
    <3>2. CASE p # k
      <4>1. p \in 1..(k - 1)
        BY <3>2, <1>7
      <4>2. PICK i \in 1..n : e[i] = p
        BY <4>1, <1>13
      <4> QED
        BY <4>2, <2>2
    <3> QED
      BY <3>1, <3>2
  <2>6. Picks(q, s, P, k, g)
    BY <2>1, <2>2, <2>3, <2>4, <2>5 DEF Picks
  <2>7. f[k] = q
    BY <1>10, <1>11, <1>15 DEF q
  <2> QED
    BY <2>1, <2>6, <2>7, <1>4
<1>16. CASE k \notin P
  <2>1. f[k] = r
    BY <1>10, <1>11, <1>16
  <2>2. e \in [1..n -> 1..k] /\ \A p \in 1..k : p \in P => p \in 1..(k - 1)
    BY <1>13, <1>7, <1>16
  <2>3. Picks(r, s, P, k, e)
    BY <2>2, <1>13, <1>12 DEF Picks
  <2> QED
    BY <2>1, <2>3, <1>13, <1>4
<1> QED
  BY <1>15, <1>16

\* The turns of a process lose some, and those that are left may be marked.
ThinsBy(e, old, new) ==
  /\ e \in [DOMAIN new -> DOMAIN old]
  /\ \A i, j \in DOMAIN new : i < j => e[i] < e[j]
  /\ \A i \in DOMAIN new : new[i].id = old[e[i]].id /\ (old[e[i]].cancelled => new[i].cancelled)
Thins(old, new)   == \E e : ThinsBy(e, old, new)
Beheads(old, new) == \E e : ThinsBy(e, old, new) /\ \A i \in DOMAIN new : e[i] # 1

LEMMA ThinsFields ==
  ASSUME NEW s \in Seq(Pended), NEW q \in Seq(Pended), Len(q) = Len(s),
         \A i \in DOMAIN s : q[i].id = s[i].id /\ (s[i].cancelled => q[i].cancelled)
  PROVE  Thins(s, q)
<1> DEFINE e == [i \in DOMAIN s |-> i]
<1>1. DOMAIN q = DOMAIN s /\ DOMAIN s \subseteq Nat
  OBVIOUS
<1>2. e \in [DOMAIN q -> DOMAIN s] /\ \A i \in DOMAIN q : e[i] = i
  BY <1>1
<1> HIDE DEF e
<1>3. ThinsBy(e, s, q)
  BY <1>1, <1>2 DEF ThinsBy
<1> QED
  BY <1>3 DEF Thins

LEMMA ThinsSelf ==
  ASSUME NEW s \in Seq(Pended)
  PROVE  Thins(s, s)
BY ThinsFields

LEMMA ThinsTail ==
  ASSUME NEW s \in Seq(Pended), s # <<>>
  PROVE  /\ Tail(s) \in Seq(Pended)
         /\ Thins(s, Tail(s)) /\ Beheads(s, Tail(s))
<1>1. PICK n \in Nat : n = Len(s)
  OBVIOUS
<1>2. /\ Tail(s) \in Seq(Pended) /\ n # 0
      /\ DOMAIN s = 1..n /\ DOMAIN Tail(s) = 1..(n - 1)
      /\ \A i \in 1..(n - 1) : Tail(s)[i] = s[i + 1]
  BY <1>1
<1> DEFINE e == [i \in 1..(n - 1) |-> i + 1]
<1>3. e \in [1..(n - 1) -> 1..n] /\ \A i \in 1..(n - 1) : e[i] = i + 1 /\ e[i] # 1
  BY <1>2
<1> HIDE DEF e
<1>4. ThinsBy(e, s, Tail(s))
  BY <1>2, <1>3 DEF ThinsBy
<1> QED
  BY <1>2, <1>3, <1>4 DEF Thins, Beheads

LEMMA ThinsOnly ==
  ASSUME NEW s \in Seq(Pended), NEW P
  PROVE  /\ Only(s, P) \in Seq(Pended)
         /\ Thins(s, Only(s, P))
         /\ \A i \in DOMAIN Only(s, P) : \E j \in DOMAIN s : j \in P /\ Only(s, P)[i] = s[j]
<1>1. PICK q : q = Only(s, P)
  OBVIOUS
<1>2. q \in Seq(Pended) /\ \E e : Picks(q, s, P, Len(s), e)
  BY <1>1, OnlyPicks
<1>3. PICK e : Picks(q, s, P, Len(s), e)
  BY <1>2
<1>4. DOMAIN q = 1..Len(q) /\ DOMAIN s = 1..Len(s)
  BY <1>2
<1>5. ThinsBy(e, s, q)
  BY <1>2, <1>3, <1>4 DEF ThinsBy, Picks
<1>6. \A i \in DOMAIN q : \E j \in DOMAIN s : j \in P /\ q[i] = s[j]
  BY <1>3, <1>4 DEF Picks
<1> QED
  BY <1>1, <1>2, <1>5, <1>6 DEF Thins

LEMMA ThinsNone ==
  ASSUME NEW s
  PROVE  Thins(s, <<>>) /\ Beheads(s, <<>>)
<1>1. ThinsBy(<<>>, s, <<>>) /\ DOMAIN <<>> = {}
  BY DEF ThinsBy
<1> QED
  BY <1>1 DEF Thins, Beheads

\* The same of a queue.
LEMMA QueueOnly ==
  ASSUME NEW s \in Seq(Sent), NEW P
  PROVE  /\ Only(s, P) \in Seq(Sent)
         /\ \A i \in DOMAIN Only(s, P) : \E j \in DOMAIN s : j \in P /\ Only(s, P)[i] = s[j]
         /\ \A j \in DOMAIN s : j \in P => \E i \in DOMAIN Only(s, P) : Only(s, P)[i] = s[j]
<1>1. PICK q : q = Only(s, P)
  OBVIOUS
<1>2. q \in Seq(Sent) /\ \E e : Picks(q, s, P, Len(s), e)
  BY <1>1, OnlyPicks
<1>3. PICK e : Picks(q, s, P, Len(s), e)
  BY <1>2
<1>4. DOMAIN q = 1..Len(q) /\ DOMAIN s = 1..Len(s)
  BY <1>2
<1>5. \A i \in DOMAIN q : \E j \in DOMAIN s : j \in P /\ q[i] = s[j]
  BY <1>3, <1>4 DEF Picks
<1>6. \A j \in DOMAIN s : j \in P => \E i \in DOMAIN q : q[i] = s[j]
  BY <1>3, <1>4 DEF Picks
<1> QED
  BY <1>1, <1>2, <1>5, <1>6

-----------------------------------------------------------------------------
(***************************************************************************)
(* The types.                                                              *)
(***************************************************************************)

\* Ids of different kinds differ, and each kind is what it says.
LEMMA Ids ==
  ASSUME TurnsAssumption
  PROVE  /\ NoTurn \notin Turn /\ Sent \subseteq Turn
         /\ \A n \in 1..MaxStarts : Given(n) \in Sent /\ Given(n)[1] = n
         /\ \A m \in Sent : \A a \in 1..MaxAgents : Drained(m, a) \in Turn /\ Drained(m, a)[1] = m[1]
         /\ \A a \in 1..MaxAgents : Woken(a) \in Turn /\ Woken(a)[1] = 0
         /\ \A m \in Sent : m[1] \in 1..MaxStarts /\ m[2] = 0
         /\ \A t \in Turn \cup {NoTurn} : t[1] \in 0..MaxStarts
BY DEF TurnsAssumption, Turn, NoTurn, Sent, Given, Drained, Woken

LEMMA DrainsDiffer ==
  ASSUME TurnsAssumption, NEW m \in Sent, NEW k \in Sent, NEW a \in 1..MaxAgents, NEW b \in 1..MaxAgents,
         Drained(m, a) = Drained(k, b)
  PROVE  m = k /\ a = b
BY DEF TurnsAssumption, Sent, Given, Drained

\* One process changes.
LEMMA ChangesOne ==
  ASSUME agents \in Seq(Process), NEW a \in DOMAIN agents, NEW n \in Process,
         agents' = [agents EXCEPT ![a] = n]
  PROVE  /\ agents' \in Seq(Process) /\ Len(agents') = Len(agents) /\ DOMAIN agents' = DOMAIN agents
         /\ agents'[a] = n /\ \A b \in DOMAIN agents : b # a => agents'[b] = agents[b]
OBVIOUS

\* What a step that takes turns out, marks them, starts or ends one does to a process.
Quietly(p, q) ==
  /\ q.of = p.of /\ q.with = p.with /\ (p.over => q.over)
  /\ Thins(p.turns, q.turns)
  /\ q.pump.pc \in Closing =>
       \/ p.pump.pc \in Closing /\ q.pump.turn = p.pump.turn
       \/ p.turns # <<>> /\ q.pump.turn = p.turns[1].id
  /\ q.pump.pc = "apply" =>
       (p.pump.pc = "apply" /\ q.pump.turn = p.pump.turn) \/ Beheads(p.turns, q.turns)
  /\ q.pump.pc = "drain" =>
       \/ p.pump.pc = "drain" /\ q.pump.turn = p.pump.turn
       \/ chat.queue # <<>> /\ q.pump.turn = chat.queue[1]

LEMMA QuietSelf ==
  ASSUME NEW p \in Process
  PROVE  Quietly(p, p)
BY ThinsSelf DEF Quietly, Process, Pumping

\* All of them.
QuietStep ==
  /\ DOMAIN agents' = DOMAIN agents
  /\ \A b \in DOMAIN agents : Quietly(agents[b], agents'[b])

LEMMA QuietOne ==
  ASSUME TurnsTypeOK, NEW a \in DOMAIN agents, NEW n \in Process, agents' = [agents EXCEPT ![a] = n],
         Quietly(agents[a], n)
  PROVE  QuietStep
BY ChangesOne, QuietSelf DEF QuietStep, TurnsTypeOK

LEMMA QuietNone ==
  ASSUME TurnsTypeOK, agents' = agents
  PROVE  QuietStep
BY QuietSelf DEF QuietStep, TurnsTypeOK

\* The processes have their types when the one that changed has.
LEMMA TypedOne ==
  ASSUME TurnsTypeOK, NEW a \in DOMAIN agents, NEW n \in Process, agents' = [agents EXCEPT ![a] = n],
         PumpAtWork(n)
  PROVE  /\ agents' \in Seq(Process) /\ Len(agents') = Len(agents)
         /\ \A b \in DOMAIN agents' : PumpAtWork(agents'[b])
BY ChangesOne DEF TurnsTypeOK

\* A step of a process or a pump alone.
LEMMA TypeOfAgentStep ==
  ASSUME TurnsTypeOK, NEW a \in DOMAIN agents, NEW n \in Process, agents' = [agents EXCEPT ![a] = n],
         PumpAtWork(n), UNCHANGED <<settings, provider, task, began>>,
         chat' \in Chat, chat'.agent = chat.agent,
         spent' \in [starts : 0..MaxStarts, events : 0..MaxEvents], spent'.events >= spent.events,
         raced' \subseteq Cause, misfiled' \subseteq Turn
  PROVE  TurnsTypeOK'
<1>1. /\ agents' \in Seq(Process) /\ Len(agents') = Len(agents)
      /\ \A b \in DOMAIN agents' : PumpAtWork(agents'[b])
  BY TypedOne
<1>2. LanesAreAtWork'
  BY <1>1 DEF TurnsTypeOK, LanesAreAtWork
<1>3. settings' \in 0..spent'.events
  BY DEF TurnsTypeOK
<1>4. chat'.agent <= Len(agents') /\ Len(agents') <= MaxAgents
  BY <1>1 DEF TurnsTypeOK
<1> QED
  BY <1>1, <1>2, <1>3, <1>4 DEF TurnsTypeOK, PumpAtWork

\* Spending one of the events.
LEMMA EventType ==
  ASSUME TurnsTypeOK, TurnsAssumption, Event
  PROVE  /\ spent' \in [starts : 0..MaxStarts, events : 0..MaxEvents]
         /\ spent'.events = spent.events + 1 /\ spent'.starts = spent.starts
<1>1. /\ spent \in [starts : 0..MaxStarts, events : 0..MaxEvents] /\ MaxEvents \in Nat
      /\ spent.events < MaxEvents /\ spent' = [spent EXCEPT !.events = @ + 1]
  BY DEF TurnsTypeOK, TurnsAssumption, Event
<1>2. /\ spent.starts \in 0..MaxStarts /\ spent.events + 1 \in 0..MaxEvents
      /\ spent' = [starts |-> spent.starts, events |-> spent.events + 1]
  BY <1>1
<1> QED
  BY <1>2

-----------------------------------------------------------------------------
(***************************************************************************)
(* What the processes do.                                                  *)
(***************************************************************************)

LEMMA AppendHas ==
  ASSUME NEW S, NEW s \in Seq(S), NEW e \in S
  PROVE  /\ Append(s, e) \in Seq(S) /\ Append(s, e) # <<>>
         /\ \A i \in DOMAIN Append(s, e) : Append(s, e)[i] = e \/ (i \in DOMAIN s /\ Append(s, e)[i] = s[i])
         /\ \A i \in DOMAIN s : i \in DOMAIN Append(s, e) /\ Append(s, e)[i] = s[i]
         /\ Len(Append(s, e)) = Len(s) + 1 /\ Append(s, e)[Len(s) + 1] = e
OBVIOUS

LEMMA TailHas ==
  ASSUME NEW S, NEW s \in Seq(S), s # <<>>
  PROVE  /\ Tail(s) \in Seq(S) /\ Head(s) = s[1] /\ 1 \in DOMAIN s /\ Head(s) \in S
         /\ \A i \in DOMAIN Tail(s) : i + 1 \in DOMAIN s /\ Tail(s)[i] = s[i + 1]
OBVIOUS

\* What a process is.
LEMMA TypedProcess ==
  ASSUME TurnsTypeOK, NEW a \in DOMAIN agents
  PROVE  /\ agents[a] \in Process /\ PumpAtWork(agents[a])
         /\ agents[a].inbox \in Seq(Line) /\ agents[a].out \in Seq(Answer) /\ agents[a].turns \in Seq(Pended)
         /\ agents[a].run \subseteq Turn \cup {NoTurn} /\ agents[a].pump \in Pumping
         /\ agents[a].of \in Providers /\ agents[a].over \in BOOLEAN /\ agents[a].with \in 0..MaxEvents
<1>1. agents[a] \in Process /\ PumpAtWork(agents[a])
  BY DEF TurnsTypeOK
<1> QED
  BY <1>1 DEF Process

\* A process that changes but for its turns and its pump.
LEMMA QuietFields ==
  ASSUME NEW p \in Process, NEW q \in Process, q.of = p.of, q.with = p.with, p.over => q.over,
         q.turns = p.turns, q.pump = p.pump
  PROVE  Quietly(p, q)
BY ThinsSelf DEF Quietly, Process, Pumping

\* What a process says is added to what it said.
LEMMA EndedFields ==
  ASSUME NEW p \in Process, PumpAtWork(p), p.run # {}, NEW how \in {"done", "error", "interrupted"}
  PROVE  /\ Ended(p, how) \in Process /\ PumpAtWork(Ended(p, how))
         /\ Ended(p, how) = [p EXCEPT !.run = {}, !.out = Append(p.out, Heard("result", p.run, how))]
<1> DEFINE x == Heard("result", p.run, how)
           n == [p EXCEPT !.run = {}, !.out = Append(p.out, x)]
<1>1. x \in Answer /\ x.turns = p.run
  BY DEF Heard, Answer, Process
<1> HIDE DEF x
<1>2. p.out \in Seq(Answer)
  BY DEF Process
<1>3. /\ Append(p.out, x) \in Seq(Answer)
      /\ \A i \in DOMAIN Append(p.out, x) :
           Append(p.out, x)[i] = x \/ (i \in DOMAIN p.out /\ Append(p.out, x)[i] = p.out[i])
  BY <1>1, <1>2, AppendHas
<1>4. n \in Process /\ n.out = Append(p.out, x) /\ n.run = {} /\ n.of = p.of /\ n.pump = p.pump
  BY <1>3 DEF Process
<1>5. n = Ended(p, how)
  BY DEF Ended, x
<1> HIDE DEF n
<1>6. PumpAtWork(n)
  BY <1>1, <1>3, <1>4 DEF PumpAtWork
<1> QED
  BY <1>4, <1>5, <1>6 DEF n, x

LEMMA SameBudget ==
  ASSUME TurnsTypeOK, UNCHANGED spent
  PROVE  spent' \in [starts : 0..MaxStarts, events : 0..MaxEvents] /\ spent'.events >= spent.events
BY TurnsAssumption DEF TurnsTypeOK, TurnsAssumption

LEMMA ReadsFields ==
  ASSUME TurnsAssumption, NEW p \in Process, PumpAtWork(p), NEW w \in Line
  PROVE  /\ Reads(p, w) \in Process /\ PumpAtWork(Reads(p, w))
         /\ Reads(p, w).of = p.of /\ Reads(p, w).with = p.with /\ Reads(p, w).over = p.over
         /\ Reads(p, w).turns = p.turns /\ Reads(p, w).pump = p.pump
<1>1. CASE w.word = "prompt"
  <2> DEFINE x == Heard("start", {w.turn}, "")
             o == IF p.run = {} THEN Append(p.out, x) ELSE p.out
             u == IF p.of = "claude" THEN p.run \cup {w.turn} ELSE {w.turn}
             n == [p EXCEPT !.run = u, !.out = o]
  <2>1. x \in Answer /\ x.turns = {w.turn} /\ w.turn \in Turn /\ w.turn # NoTurn
    BY Ids DEF Heard, Answer, Line
  <2> HIDE DEF x
  <2>2. p.out \in Seq(Answer) /\ p.run \subseteq Turn \cup {NoTurn} /\ p.of \in Providers
    BY DEF Process
  <2>3. o \in Seq(Answer) /\ \A i \in DOMAIN o : o[i] = x \/ (i \in DOMAIN p.out /\ o[i] = p.out[i])
    BY <2>1, <2>2, AppendHas
  <2>4. u \subseteq Turn \cup {NoTurn} /\ (p.of = "codex" => NoTurn \notin u)
    BY <2>1, <2>2
  <2> HIDE DEF o, u
  <2>5. /\ n \in Process /\ n.out = o /\ n.run = u /\ n.of = p.of /\ n.pump = p.pump
        /\ n.with = p.with /\ n.over = p.over /\ n.turns = p.turns
    BY <2>3, <2>4 DEF Process
  <2>6. n = Reads(p, w)
    BY <1>1 DEF Reads, x, o, u
  <2> HIDE DEF n
  <2>7. PumpAtWork(n)
    BY <2>1, <2>3, <2>4, <2>5 DEF PumpAtWork
  <2> QED
    BY <2>5, <2>6, <2>7
<1>2. CASE w.word # "prompt" /\ p.run # {} /\ (p.of = "claude" \/ w.turn \in p.run)
  <2> DEFINE o == Append(p.out, Heard("result", p.run, "interrupted"))
             n == [p EXCEPT !.run = {}, !.out = o]
  <2>1. Reads(p, w) = Ended(p, "interrupted")
    BY <1>2 DEF Reads
  <2>2. Ended(p, "interrupted") \in Process /\ PumpAtWork(Ended(p, "interrupted")) /\ Ended(p, "interrupted") = n
    BY <1>2, EndedFields
  <2> HIDE DEF o
  <2>3. n.of = p.of /\ n.with = p.with /\ n.over = p.over /\ n.turns = p.turns /\ n.pump = p.pump
    BY DEF Process
  <2> HIDE DEF n
  <2> QED
    BY <2>1, <2>2, <2>3
<1>3. CASE w.word # "prompt" /\ ~(p.run # {} /\ (p.of = "claude" \/ w.turn \in p.run))
  BY <1>3 DEF Reads
<1> QED
  BY <1>1, <1>2, <1>3

LEMMA ProcessReadsDoes ==
  ASSUME TurnsAssumption, TurnsTypeOK, NEW a \in DOMAIN agents, ProcessReads(a)
  PROVE  TurnsTypeOK' /\ QuietStep
<1> DEFINE p == agents[a]
           w == Head(p.inbox)
           m == [p EXCEPT !.inbox = Tail(@)]
           n == Reads(m, w)
<1>1. p \in Process /\ PumpAtWork(p) /\ p.inbox \in Seq(Line) /\ p.inbox # <<>>
  BY TypedProcess DEF ProcessReads
<1>2. w \in Line /\ Tail(p.inbox) \in Seq(Line)
  BY <1>1, TailHas
<1>3. m \in Process /\ PumpAtWork(m) /\ m.of = p.of /\ m.with = p.with /\ m.over = p.over /\ m.turns = p.turns /\ m.pump = p.pump
  BY <1>1, <1>2 DEF Process, PumpAtWork
<1>4. agents' = [agents EXCEPT ![a] = n]
  BY DEF ProcessReads
<1> HIDE DEF m, w
<1>5. /\ n \in Process /\ PumpAtWork(n) /\ n.of = p.of /\ n.with = p.with /\ n.over = p.over
      /\ n.turns = p.turns /\ n.pump = p.pump
  BY <1>2, <1>3, ReadsFields
<1> HIDE DEF n
<1>6. Quietly(p, n)
  BY <1>1, <1>5, QuietFields
<1>7. QuietStep
  BY <1>4, <1>5, <1>6, QuietOne
<1> HIDE DEF p
<1>8. UNCHANGED <<chat, settings, provider, task, spent, raced, misfiled, began>>
  BY DEF ProcessReads
<1>9. TurnsTypeOK'
  BY <1>4, <1>5, <1>8, SameBudget, TypeOfAgentStep DEF TurnsTypeOK
<1> QED
  BY <1>7, <1>9

LEMMA ProcessEndsDoes ==
  ASSUME TurnsAssumption, TurnsTypeOK, NEW a \in DOMAIN agents, ProcessAnswers(a) \/ ProcessErrs(a)
  PROVE  TurnsTypeOK' /\ QuietStep
<1>1. PICK how \in {"done", "error"} : agents' = [agents EXCEPT ![a] = Ended(@, how)]
  BY DEF ProcessAnswers, ProcessErrs
<1> DEFINE p == agents[a]
           n == Ended(p, how)
<1>2. p \in Process /\ PumpAtWork(p) /\ p.run # {}
  BY DEF TurnsTypeOK, ProcessAnswers, ProcessErrs
<1>3. /\ n \in Process /\ PumpAtWork(n)
      /\ n = [p EXCEPT !.run = {}, !.out = Append(p.out, Heard("result", p.run, how))]
  BY <1>2, EndedFields
<1>4. n.of = p.of /\ n.with = p.with /\ n.over = p.over /\ n.turns = p.turns /\ n.pump = p.pump
  BY <1>2, <1>3 DEF Process
<1>5. agents' = [agents EXCEPT ![a] = n]
  BY <1>1
<1> HIDE DEF n
<1>6. QuietStep
  BY <1>2, <1>3, <1>4, <1>5, QuietFields, QuietOne
<1>7. /\ spent' \in [starts : 0..MaxStarts, events : 0..MaxEvents] /\ spent'.events >= spent.events
      /\ UNCHANGED <<chat, settings, provider, task, raced, misfiled, began>>
  BY EventType DEF ProcessAnswers, ProcessErrs, TurnsTypeOK, TurnsAssumption
<1>8. TurnsTypeOK'
  BY <1>3, <1>5, <1>7, TypeOfAgentStep DEF TurnsTypeOK
<1> QED
  BY <1>6, <1>8

LEMMA ProcessRejectsDoes ==
  ASSUME TurnsAssumption, TurnsTypeOK, NEW a \in DOMAIN agents, ProcessRejects(a)
  PROVE  TurnsTypeOK' /\ QuietStep
<1> DEFINE p == agents[a]
           x == Heard("rejected", {Head(p.inbox).turn}, "error")
           n == [p EXCEPT !.inbox = Tail(@), !.out = Append(@, x)]
<1>1. p \in Process /\ PumpAtWork(p) /\ p.inbox \in Seq(Line) /\ p.inbox # <<>> /\ p.out \in Seq(Answer)
  BY TypedProcess DEF ProcessRejects
<1>2. Head(p.inbox) \in Line /\ Tail(p.inbox) \in Seq(Line)
  BY <1>1, TailHas
<1>3. x \in Answer /\ NoTurn \notin x.turns
  BY <1>2, Ids DEF Heard, Answer, Line
<1>4. agents' = [agents EXCEPT ![a] = n]
  BY DEF ProcessRejects
<1> HIDE DEF x
<1>5. /\ Append(p.out, x) \in Seq(Answer)
      /\ \A i \in DOMAIN Append(p.out, x) :
           Append(p.out, x)[i] = x \/ (i \in DOMAIN p.out /\ Append(p.out, x)[i] = p.out[i])
  BY <1>1, <1>3, AppendHas
<1>6. /\ n \in Process /\ n.of = p.of /\ n.with = p.with /\ n.over = p.over /\ n.run = p.run
      /\ n.turns = p.turns /\ n.pump = p.pump /\ n.out = Append(p.out, x)
  BY <1>1, <1>2, <1>5 DEF Process
<1> HIDE DEF n
<1>7. PumpAtWork(n)
  BY <1>1, <1>3, <1>5, <1>6 DEF PumpAtWork
<1>8. QuietStep
  BY <1>1, <1>4, <1>6, QuietFields, QuietOne
<1>9. /\ spent' \in [starts : 0..MaxStarts, events : 0..MaxEvents] /\ spent'.events >= spent.events
      /\ UNCHANGED <<chat, settings, provider, task, raced, misfiled, began>>
  BY EventType DEF ProcessRejects, TurnsTypeOK, TurnsAssumption
<1> HIDE DEF p
<1>10. TurnsTypeOK'
  BY <1>4, <1>6, <1>7, <1>9, TypeOfAgentStep DEF TurnsTypeOK
<1> QED
  BY <1>8, <1>10

LEMMA ProcessWakesDoes ==
  ASSUME TurnsAssumption, TurnsTypeOK, NEW a \in DOMAIN agents, ProcessWakes(a)
  PROVE  TurnsTypeOK' /\ QuietStep
<1> DEFINE p == agents[a]
           x == Heard("start", {NoTurn}, "")
           n == [p EXCEPT !.run = {NoTurn}, !.out = Append(@, x)]
<1>1. p \in Process /\ PumpAtWork(p) /\ p.of = "claude" /\ p.out \in Seq(Answer)
  BY TypedProcess DEF ProcessWakes
<1>2. x \in Answer
  BY DEF Heard, Answer
<1>3. agents' = [agents EXCEPT ![a] = n]
  BY DEF ProcessWakes
<1> HIDE DEF x
<1>4. Append(p.out, x) \in Seq(Answer)
  BY <1>1, <1>2, AppendHas
<1>5. /\ n \in Process /\ n.of = p.of /\ n.with = p.with /\ n.over = p.over
      /\ n.turns = p.turns /\ n.pump = p.pump
  BY <1>1, <1>4 DEF Process
<1> HIDE DEF n
<1>6. PumpAtWork(n)
  BY <1>1, <1>5 DEF PumpAtWork
<1>7. QuietStep
  BY <1>1, <1>3, <1>5, QuietFields, QuietOne
<1>8. /\ spent' \in [starts : 0..MaxStarts, events : 0..MaxEvents] /\ spent'.events >= spent.events
      /\ UNCHANGED <<chat, settings, provider, task, raced, misfiled, began>>
  BY EventType DEF ProcessWakes, TurnsTypeOK, TurnsAssumption
<1> HIDE DEF p
<1>9. TurnsTypeOK'
  BY <1>3, <1>5, <1>6, <1>8, TypeOfAgentStep DEF TurnsTypeOK
<1> QED
  BY <1>7, <1>9

LEMMA ProcessDiesDoes ==
  ASSUME TurnsAssumption, TurnsTypeOK, NEW a \in DOMAIN agents, ProcessDies(a)
  PROVE  TurnsTypeOK' /\ QuietStep
<1> DEFINE p == agents[a]
           n == [p EXCEPT !.over = TRUE, !.inbox = <<>>, !.run = {}]
<1>1. p \in Process /\ PumpAtWork(p)
  BY DEF TurnsTypeOK
<1>2. agents' = [agents EXCEPT ![a] = n]
  BY DEF ProcessDies
<1>3. /\ n \in Process /\ n.of = p.of /\ n.with = p.with /\ n.over /\ n.run = {} /\ n.out = p.out
      /\ n.turns = p.turns /\ n.pump = p.pump
  <2>1. <<>> \in Seq(Line) /\ {} \subseteq Turn \cup {NoTurn}
    OBVIOUS
  <2> QED
    BY <1>1, <2>1 DEF Process
<1> HIDE DEF n
<1>4. PumpAtWork(n)
  BY <1>1, <1>3 DEF PumpAtWork
<1>5. QuietStep
  BY <1>1, <1>2, <1>3, QuietFields, QuietOne
<1>6. /\ spent' \in [starts : 0..MaxStarts, events : 0..MaxEvents] /\ spent'.events >= spent.events
      /\ UNCHANGED <<chat, settings, provider, task, raced, misfiled, began>>
  BY EventType DEF ProcessDies, TurnsTypeOK, TurnsAssumption
<1> HIDE DEF p
<1>7. TurnsTypeOK'
  BY <1>2, <1>3, <1>4, <1>6, TypeOfAgentStep DEF TurnsTypeOK
<1> QED
  BY <1>5, <1>7

-----------------------------------------------------------------------------
(***************************************************************************)
(* What the host makes of it: the chat, and the pumps.                     *)
(***************************************************************************)

LEMMA TypeOfStep ==
  ASSUME TurnsTypeOK, agents' \in Seq(Process), Len(agents') = Len(agents),
         \A b \in DOMAIN agents' : PumpAtWork(agents'[b]),
         chat' \in Chat, chat'.agent \in {chat.agent, 0},
         task' = task \/ (task' \in [Lanes -> Doing] /\ LanesAreAtWork'),
         provider' \in Providers,
         spent' \in [starts : 0..MaxStarts, events : 0..MaxEvents], settings' \in 0..spent'.events,
         raced' \subseteq Cause, misfiled' \subseteq Turn, began' \in [Turn -> 0..MaxEvents]
  PROVE  TurnsTypeOK'
<1>1. LanesAreAtWork'
  BY DEF TurnsTypeOK, LanesAreAtWork
<1>2. task' \in [Lanes -> Doing]
  BY DEF TurnsTypeOK
<1>3. chat'.agent <= Len(agents') /\ Len(agents') <= MaxAgents
  BY DEF TurnsTypeOK
<1> QED
  BY <1>1, <1>2, <1>3 DEF TurnsTypeOK, PumpAtWork

LEMMA StartsFields ==
  ASSUME NEW c \in Chat, NEW t \in Turn
  PROVE  /\ Starts(c, t) \in Chat
         /\ Starts(c, t).open = c.open /\ Starts(c, t).queue = c.queue /\ Starts(c, t).prompts = c.prompts
         /\ Starts(c, t).agent = c.agent /\ Starts(c, t).retire = c.retire
         /\ Starts(c, t).active = IF c.open THEN t ELSE c.active
BY DEF Starts, Chat

LEMMA EndsFields ==
  ASSUME NEW c \in Chat, NEW t
  PROVE  /\ Ends(c, t) \in Chat
         /\ Ends(c, t).open = c.open /\ Ends(c, t).queue = c.queue /\ Ends(c, t).prompts = c.prompts
         /\ Ends(c, t).agent = c.agent /\ Ends(c, t).retire = c.retire
         /\ Ends(c, t).active = IF c.active = t THEN NoTurn ELSE c.active
BY DEF Ends, Chat

LEMMA WithoutFields ==
  ASSUME NEW c \in Chat, NEW ids
  PROVE  /\ Without(c, ids) \in Chat
         /\ Without(c, ids).open = c.open /\ Without(c, ids).active = c.active
         /\ Without(c, ids).agent = c.agent /\ Without(c, ids).retire = c.retire
         /\ Without(c, ids).prompts = c.prompts \ ids
         /\ Without(c, ids).queue \in Seq(Sent)
         /\ \A i \in DOMAIN Without(c, ids).queue :
              \E j \in DOMAIN c.queue : c.queue[j] \notin ids /\ Without(c, ids).queue[i] = c.queue[j]
         /\ \A j \in DOMAIN c.queue : c.queue[j] \notin ids =>
              \E i \in DOMAIN Without(c, ids).queue : Without(c, ids).queue[i] = c.queue[j]
<1> DEFINE P == {i \in DOMAIN c.queue : c.queue[i] \notin ids}
           q == Only(c.queue, P)
<1>1. c.queue \in Seq(Sent)
  BY DEF Chat
<1>2. /\ q \in Seq(Sent)
      /\ \A i \in DOMAIN q : \E j \in DOMAIN c.queue : j \in P /\ q[i] = c.queue[j]
      /\ \A j \in DOMAIN c.queue : j \in P => \E i \in DOMAIN q : q[i] = c.queue[j]
  <2> HIDE DEF P
  <2> QED
    BY <1>1, QueueOnly
<1>3. Without(c, ids) = [c EXCEPT !.queue = q, !.prompts = @ \ ids]
  BY DEF Without
<1> HIDE DEF q
<1>4. Without(c, ids) \in Chat /\ Without(c, ids).queue = q
  BY <1>2, <1>3 DEF Chat
<1>5. /\ Without(c, ids).open = c.open /\ Without(c, ids).active = c.active
      /\ Without(c, ids).agent = c.agent /\ Without(c, ids).retire = c.retire
      /\ Without(c, ids).prompts = c.prompts \ ids
  BY <1>3 DEF Chat
<1> QED
  BY <1>2, <1>4, <1>5

LEMMA ShutFields ==
  ASSUME NEW p \in Process, PumpAtWork(p)
  PROVE  /\ Shut(p) \in Process /\ PumpAtWork(Shut(p)) /\ Shut(p).over
         /\ Shut(p).of = p.of /\ Shut(p).with = p.with /\ Shut(p).turns = p.turns
         /\ Shut(p).pump = p.pump /\ Shut(p).out = p.out /\ Shut(p).inbox = <<>> /\ Shut(p).run = {}
<1>1. <<>> \in Seq(Line) /\ {} \subseteq Turn \cup {NoTurn}
  OBVIOUS
<1>2. /\ Shut(p) \in Process /\ Shut(p).over /\ Shut(p).run = {} /\ Shut(p).out = p.out
      /\ Shut(p).of = p.of /\ Shut(p).with = p.with /\ Shut(p).turns = p.turns /\ Shut(p).pump = p.pump
      /\ Shut(p).inbox = <<>>
  BY <1>1 DEF Shut, Process
<1> QED
  BY <1>2 DEF PumpAtWork

\* What retiring does to the chat and to the processes.
LEMMA RetiredFields ==
  ASSUME TurnsTypeOK, NEW c \in Chat, c.agent = chat.agent
  PROVE  /\ RetiredAgents(c) \in Seq(Process) /\ Len(RetiredAgents(c)) = Len(agents)
         /\ DOMAIN RetiredAgents(c) = DOMAIN agents
         /\ \A b \in DOMAIN agents :
              /\ RetiredAgents(c)[b] \in Process /\ PumpAtWork(RetiredAgents(c)[b])
              /\ RetiredAgents(c)[b] = agents[b] \/ RetiredAgents(c)[b] = Shut(agents[b])
              /\ Quietly(agents[b], RetiredAgents(c)[b])
         /\ RetiredChat(c) \in Chat
         /\ RetiredChat(c).open = c.open /\ RetiredChat(c).active = c.active
         /\ RetiredChat(c).queue = c.queue /\ RetiredChat(c).prompts = c.prompts
         /\ \/ RetiredChat(c).agent = c.agent /\ (c.agent # 0 => RetiredChat(c).retire)
            \/ RetiredChat(c).agent = 0 /\ c.agent \in DOMAIN agents /\ RetiredAgents(c)[c.agent].over
<1>1. CASE c.agent = 0 \/ ~RetiresNow(c.agent)
  <2>1. RetiredAgents(c) = agents
    BY <1>1 DEF RetiredAgents
  <2>2. /\ RetiredChat(c) \in Chat /\ RetiredChat(c).open = c.open /\ RetiredChat(c).active = c.active
        /\ RetiredChat(c).queue = c.queue /\ RetiredChat(c).prompts = c.prompts
        /\ RetiredChat(c).agent = c.agent /\ (c.agent # 0 => RetiredChat(c).retire)
    BY <1>1 DEF RetiredChat, Chat
  <2>3. agents \in Seq(Process) /\ \A b \in DOMAIN agents : agents[b] \in Process /\ PumpAtWork(agents[b])
    BY DEF TurnsTypeOK
  <2> QED
    BY <2>1, <2>2, <2>3, QuietSelf
<1>2. CASE c.agent # 0 /\ RetiresNow(c.agent)
  <2> DEFINE a == c.agent
             n == Shut(agents[a])
  <2>1. a \in DOMAIN agents
    BY <1>2 DEF TurnsTypeOK, Chat
  <2>2. agents[a] \in Process /\ PumpAtWork(agents[a])
    BY <2>1, TypedProcess
  <2>3. /\ n \in Process /\ PumpAtWork(n) /\ n.over /\ n.of = agents[a].of /\ n.with = agents[a].with
        /\ n.turns = agents[a].turns /\ n.pump = agents[a].pump
    BY <2>2, ShutFields
  <2>4. RetiredAgents(c) = [agents EXCEPT ![a] = n]
    BY <1>2 DEF RetiredAgents
  <2>5. Quietly(agents[a], n)
    BY <2>2, <2>3, QuietFields
  <2>6. /\ RetiredChat(c) \in Chat /\ RetiredChat(c).open = c.open /\ RetiredChat(c).active = c.active
        /\ RetiredChat(c).queue = c.queue /\ RetiredChat(c).prompts = c.prompts
        /\ RetiredChat(c).agent = 0
    <3>1. RetiredChat(c) = [c EXCEPT !.agent = 0, !.retire = FALSE]
      BY <1>2 DEF RetiredChat
    <3>2. 0 \in 0..MaxAgents
      BY TurnsAssumption DEF TurnsAssumption
    <3> QED
      BY <3>1, <3>2 DEF Chat
  <2>7. agents \in Seq(Process) /\ \A b \in DOMAIN agents : agents[b] \in Process /\ PumpAtWork(agents[b])
    BY DEF TurnsTypeOK
  <2> HIDE DEF n, a
  <2>8. PICK R : R = RetiredAgents(c)
    OBVIOUS
  <2>9. /\ R \in Seq(Process) /\ Len(R) = Len(agents) /\ DOMAIN R = DOMAIN agents
        /\ R[a] = n /\ \A b \in DOMAIN agents : b # a => R[b] = agents[b]
    BY <2>1, <2>3, <2>4, <2>7, <2>8
  <2>10. \A b \in DOMAIN agents :
           /\ R[b] \in Process /\ PumpAtWork(R[b])
           /\ R[b] = agents[b] \/ R[b] = Shut(agents[b])
           /\ Quietly(agents[b], R[b])
    <3> SUFFICES ASSUME NEW b \in DOMAIN agents
                 PROVE  /\ R[b] \in Process /\ PumpAtWork(R[b])
                        /\ R[b] = agents[b] \/ R[b] = Shut(agents[b])
                        /\ Quietly(agents[b], R[b])
      OBVIOUS
    <3>1. CASE b = a
      BY <3>1, <2>3, <2>5, <2>9 DEF n
    <3>2. CASE b # a
      BY <3>2, <2>7, <2>9, QuietSelf
    <3> QED
      BY <3>1, <3>2
  <2>11. c.agent \in DOMAIN agents /\ R[c.agent].over
    BY <2>1, <2>3, <2>9 DEF a
  <2> QED
    BY <2>6, <2>8, <2>9, <2>10, <2>11
<1> QED
  BY <1>1, <1>2

\* The front of the turns changes and stays what it is.
LEMMA FrontChanged ==
  ASSUME NEW s \in Seq(Pended), s # <<>>, NEW x \in Pended, x.id = s[1].id, s[1].cancelled => x.cancelled
  PROVE  /\ [s EXCEPT ![1] = x] \in Seq(Pended) /\ Thins(s, [s EXCEPT ![1] = x])
         /\ [s EXCEPT ![1] = x] # <<>> /\ [s EXCEPT ![1] = x][1] = x
         /\ Len([s EXCEPT ![1] = x]) = Len(s) /\ \A i \in DOMAIN s : i # 1 => [s EXCEPT ![1] = x][i] = s[i]
<1> DEFINE q == [s EXCEPT ![1] = x]
<1>1. 1 \in DOMAIN s
  OBVIOUS
<1>2. /\ q \in Seq(Pended) /\ Len(q) = Len(s) /\ q[1] = x /\ q # <<>>
      /\ \A i \in DOMAIN s : i # 1 => q[i] = s[i]
  BY <1>1
<1> HIDE DEF q
<1>3. Thins(s, q)
  BY <1>2, ThinsFields
<1> QED
  BY <1>2, <1>3 DEF q

LEMMA BindTurnDoes ==
  ASSUME TurnsAssumption, TurnsTypeOK, NEW a \in DOMAIN agents, BindTurn(a)
  PROVE  TurnsTypeOK' /\ QuietStep
<1> DEFINE p == agents[a]
           turns == p.turns
           waits == turns # <<>> /\ turns[1].cancelled /\ ~turns[1].told
           named == CHOOSE t \in Head(p.out).turns : TRUE
           x == [turns[1] EXCEPT !.bound = IF @ = NoTurn THEN named ELSE @, !.told = @ \/ waits]
           s == IF turns = <<>> THEN turns ELSE [turns EXCEPT ![1] = x]
           u == IF waits THEN Pumps("tell", named, "", {}) ELSE Rest
           n == [p EXCEPT !.out = Tail(@), !.turns = s, !.pump = u]
<1>1. /\ p \in Process /\ PumpAtWork(p) /\ p.out \in Seq(Answer) /\ turns \in Seq(Pended) /\ p.out # <<>>
      /\ p.of = "codex" /\ p.pump.pc = "rest"
  BY TypedProcess DEF BindTurn, Hears
<1>2. Head(p.out) \in Answer /\ Tail(p.out) \in Seq(Answer) /\ NoTurn \notin Head(p.out).turns
      /\ \A i \in DOMAIN Tail(p.out) : i + 1 \in DOMAIN p.out /\ Tail(p.out)[i] = p.out[i + 1]
  BY <1>1, TailHas DEF PumpAtWork
<1>3. named \in Turn /\ named # NoTurn
  BY <1>2 DEF Answer
<1> HIDE DEF named
<1>5. s \in Seq(Pended) /\ Thins(turns, s)
  <2>1. CASE turns # <<>>
    <3>1. turns[1] \in Pended
      BY <2>1, <1>1
    <3>2. waits \in BOOLEAN
      BY <3>1, <2>1 DEF Pended
    <3> HIDE DEF waits
    <3>3. x \in Pended /\ x.id = turns[1].id /\ x.cancelled = turns[1].cancelled
      BY <3>1, <3>2, <1>3 DEF Pended
    <3> HIDE DEF x
    <3> QED
      BY <2>1, <1>1, <3>3, FrontChanged
  <2>2. CASE turns = <<>>
    BY <2>2, <1>1, ThinsSelf
  <2> QED
    BY <2>1, <2>2
<1>6. u \in Pumping /\ u.pc \in {"tell", "rest"} /\ (u.pc = "tell" => u.turn # NoTurn)
  BY <1>3 DEF Pumps, Rest, Pumping
<1>7. agents' = [agents EXCEPT ![a] = n]
  <2>1. s = IF turns = <<>> THEN turns ELSE [turns EXCEPT ![1].bound = IF @ = NoTurn THEN named ELSE @, ![1].told = @ \/ waits]
    BY <1>1
  <2> QED
    BY <2>1 DEF BindTurn, Taken, named
<1> HIDE DEF s, u
<1>8. /\ n \in Process /\ n.of = p.of /\ n.with = p.with /\ n.over = p.over /\ n.turns = s /\ n.pump = u
      /\ n.out = Tail(p.out) /\ n.run = p.run
  BY <1>1, <1>2, <1>5, <1>6 DEF Process
<1> HIDE DEF n
<1>9. PumpAtWork(n)
  BY <1>1, <1>2, <1>6, <1>8 DEF PumpAtWork
<1>10. Quietly(p, n)
  BY <1>5, <1>6, <1>8 DEF Quietly, Closing
<1>11. QuietStep
  BY <1>7, <1>8, <1>10, QuietOne
<1>12. UNCHANGED <<chat, settings, provider, task, spent, raced, misfiled, began>>
  BY DEF BindTurn
<1> HIDE DEF p
<1>13. TurnsTypeOK'
  BY <1>7, <1>8, <1>9, <1>12, SameBudget, TypeOfAgentStep DEF TurnsTypeOK
<1> QED
  BY <1>11, <1>13

LEMMA TakeResultDoes ==
  ASSUME TurnsAssumption, TurnsTypeOK, NEW a \in DOMAIN agents, TakeResult(a)
  PROVE  TurnsTypeOK' /\ QuietStep
<1> DEFINE p == agents[a]
           heard == Head(p.out)
           turns == p.turns
           front == IF turns = <<>> THEN Pending(NoTurn, FALSE) ELSE turns[1]
           m == [p EXCEPT !.out = Tail(@)]
           u == IF front.id = NoTurn \/ front.cancelled THEN Pumps("after", NoTurn, "", {})
                ELSE Pumps("apply", front.id, heard.how, {})
           k == [p EXCEPT !.out = Tail(@), !.turns = Popped(@), !.pump = u]
<1>1. /\ p \in Process /\ PumpAtWork(p) /\ p.out \in Seq(Answer) /\ turns \in Seq(Pended) /\ p.out # <<>>
  BY TypedProcess DEF TakeResult, Hears
<1>2. heard \in Answer /\ Tail(p.out) \in Seq(Answer)
      /\ \A i \in DOMAIN Tail(p.out) : i + 1 \in DOMAIN p.out /\ Tail(p.out)[i] = p.out[i + 1]
  BY <1>1, TailHas
<1>3. turns # <<>> => turns[1] \in Pended /\ front = turns[1] /\ front.id \in Turn /\ front.id # NoTurn
  <2>1. turns # <<>> => turns[1] \in Pended
    BY <1>1
  <2> QED
    BY <2>1, Ids DEF Pended
<1>4. turns = <<>> => front.id = NoTurn
  BY DEF Pending
<1>5. UNCHANGED <<chat, settings, provider, task, spent, began>>
  BY DEF TakeResult
<1>6. CASE Fits(p, heard)
  <2>1. agents' = [agents EXCEPT ![a] = k]
    BY <1>6 DEF TakeResult, Taken
  <2>2. /\ Popped(turns) \in Seq(Pended) /\ Thins(turns, Popped(turns))
        /\ turns # <<>> => Beheads(turns, Popped(turns))
    BY <1>1, ThinsTail, ThinsSelf DEF Popped
  <2>3. /\ u \in Pumping /\ u.pc \in {"after", "apply"}
        /\ u.pc = "apply" => u.turn # NoTurn /\ turns # <<>> /\ u.turn = turns[1].id
    BY <1>2, <1>3, <1>4 DEF Pumps, Pumping, Answer
  <2>4. misfiled' \subseteq Turn
    BY <1>6, <1>3, <1>4 DEF TakeResult, TurnsTypeOK
  <2>5. raced' \subseteq Cause
    BY <1>6 DEF TakeResult, TurnsTypeOK, Note, When, Cause
  <2> HIDE DEF u
  <2>6. /\ k \in Process /\ k.of = p.of /\ k.with = p.with /\ k.over = p.over /\ k.turns = Popped(turns) /\ k.pump = u
        /\ k.out = Tail(p.out) /\ k.run = p.run
    BY <1>1, <1>2, <2>2, <2>3 DEF Process
  <2> HIDE DEF k
  <2>7. PumpAtWork(k)
    BY <1>1, <1>2, <2>3, <2>6 DEF PumpAtWork
  <2>8. Quietly(p, k)
    BY <2>2, <2>3, <2>6 DEF Quietly, Closing
  <2>9. QuietStep
    BY <2>1, <2>6, <2>8, QuietOne
  <2> HIDE DEF p
  <2>10. TurnsTypeOK'
    BY <1>5, <2>1, <2>4, <2>5, <2>6, <2>7, SameBudget, TypeOfAgentStep DEF TurnsTypeOK
  <2> QED
    BY <2>9, <2>10
<1>7. CASE ~Fits(p, heard)
  <2>1. agents' = [agents EXCEPT ![a] = m] /\ UNCHANGED <<misfiled, raced>>
    BY <1>7 DEF TakeResult, Taken
  <2>2. /\ m \in Process /\ m.of = p.of /\ m.with = p.with /\ m.over = p.over /\ m.turns = turns /\ m.pump = p.pump
        /\ m.out = Tail(p.out) /\ m.run = p.run
    BY <1>1, <1>2 DEF Process
  <2> HIDE DEF m
  <2>3. PumpAtWork(m)
    BY <1>1, <1>2, <2>2 DEF PumpAtWork
  <2>4. QuietStep
    BY <1>1, <2>1, <2>2, QuietFields, QuietOne
  <2> HIDE DEF p
  <2>5. TurnsTypeOK'
    BY <1>5, <2>1, <2>2, <2>3, SameBudget, TypeOfAgentStep DEF TurnsTypeOK
  <2> QED
    BY <2>4, <2>5
<1> QED
  BY <1>6, <1>7

LEMMA ApplyEndDoes ==
  ASSUME TurnsAssumption, TurnsTypeOK, NEW a \in DOMAIN agents, ApplyEnd(a)
  PROVE  TurnsTypeOK' /\ QuietStep
<1> DEFINE p == agents[a]
           ended == Ends(chat, p.pump.turn)
           head == IF chat.queue = <<>> THEN NoTurn ELSE Head(chat.queue)
           next == Pumps(Follows(p.pump.how, chat.queue), head, "", Range(chat.queue))
           R == IF chat.retire THEN RetiredAgents(chat) ELSE agents
           n == [R[a] EXCEPT !.pump = next]
<1>1. /\ chat \in Chat /\ chat.queue \in Seq(Sent)
      /\ p \in Process /\ PumpAtWork(p) /\ p.pump.pc = "apply"
  BY TypedProcess DEF TurnsTypeOK, Chat, ApplyEnd, At
<1>2. Range(chat.queue) \subseteq Sent /\ (chat.queue # <<>> => Head(chat.queue) = chat.queue[1] /\ chat.queue[1] \in Sent)
  BY <1>1 DEF Range
<1>3. /\ next \in Pumping /\ next.pc \in {"after", "drain", "purge"}
      /\ next.pc = "drain" => chat.queue # <<>> /\ next.turn = chat.queue[1]
  BY <1>2, Ids DEF Pumps, Pumping, Follows
<1>4. /\ R \in Seq(Process) /\ Len(R) = Len(agents) /\ DOMAIN R = DOMAIN agents
      /\ \A b \in DOMAIN agents : R[b] \in Process /\ PumpAtWork(R[b]) /\ Quietly(agents[b], R[b])
  BY <1>1, RetiredFields, TypedProcess, QuietSelf DEF TurnsTypeOK
<1>5. agents' = [R EXCEPT ![a] = n]
  <2>1. agents' = [R EXCEPT ![a].pump = next]
    BY DEF ApplyEnd
  <2> QED
    BY <2>1
<1>6. /\ ended \in Chat /\ ended.agent = chat.agent
      /\ chat' = IF chat.retire THEN RetiredChat(ended) ELSE ended
  BY <1>1, EndsFields DEF ApplyEnd
<1> HIDE DEF R, next, ended
<1>7. /\ n \in Process /\ n.of = R[a].of /\ n.with = R[a].with /\ n.over = R[a].over /\ n.turns = R[a].turns
      /\ n.out = R[a].out /\ n.run = R[a].run /\ n.pump = next
  BY <1>3, <1>4 DEF Process
<1> HIDE DEF n
<1>8. PumpAtWork(n)
  <2>1. next.pc = "drain" => next.turn \in Sent
    BY <1>2, <1>3
  <2> QED
    BY <1>3, <1>4, <1>7, <2>1 DEF PumpAtWork
<1>9. Quietly(p, n)
  <2>1. Quietly(p, R[a])
    BY <1>4
  <2>2. next.pc \notin Closing /\ next.pc # "apply"
    BY <1>3 DEF Closing
  <2>3. Thins(p.turns, n.turns) /\ n.of = p.of /\ n.with = p.with /\ (p.over => n.over) /\ n.pump = next
    BY <1>7, <2>1 DEF Quietly
  <2> QED
    BY <1>3, <2>2, <2>3 DEF Quietly
<1>10. /\ agents' \in Seq(Process) /\ Len(agents') = Len(agents) /\ DOMAIN agents' = DOMAIN agents
       /\ agents'[a] = n /\ \A b \in DOMAIN agents : b # a => agents'[b] = R[b]
  BY <1>4, <1>5, <1>7
<1>11. QuietStep
  BY <1>4, <1>9, <1>10 DEF QuietStep
<1>12. \A b \in DOMAIN agents' : PumpAtWork(agents'[b])
  BY <1>4, <1>8, <1>10
<1>13. chat' \in Chat /\ chat'.agent \in {chat.agent, 0}
  BY <1>6, RetiredFields
<1>14. UNCHANGED <<settings, provider, task, spent, raced, misfiled, began>>
  BY DEF ApplyEnd
<1>15. TurnsTypeOK'
  BY <1>10, <1>12, <1>13, <1>14, SameBudget, TypeOfStep DEF TurnsTypeOK
<1> QED
  BY <1>11, <1>15

LEMMA PurgeQueueDoes ==
  ASSUME TurnsAssumption, TurnsTypeOK, NEW a \in DOMAIN agents, PurgeQueue(a)
  PROVE  TurnsTypeOK' /\ QuietStep
<1> DEFINE p == agents[a]
           u == Pumps("after", NoTurn, "", {})
           n == [p EXCEPT !.pump = u]
           w == Without(chat, p.pump.ids)
<1>1. chat \in Chat /\ p \in Process /\ PumpAtWork(p)
  BY TypedProcess DEF TurnsTypeOK
<1>2. u \in Pumping /\ u.pc = "after"
  BY DEF Pumps, Pumping
<1>3. agents' = [agents EXCEPT ![a] = n]
  BY DEF PurgeQueue
<1> HIDE DEF u
<1>4. /\ n \in Process /\ n.of = p.of /\ n.with = p.with /\ n.over = p.over /\ n.turns = p.turns
      /\ n.out = p.out /\ n.run = p.run /\ n.pump = u
  BY <1>1, <1>2 DEF Process
<1>5. w \in Chat /\ w.agent = chat.agent
  BY <1>1, WithoutFields
<1>6. chat' \in Chat /\ chat'.agent = chat.agent
  <2>1. chat' = [w EXCEPT !.prompts = {}]
    BY DEF PurgeQueue
  <2> HIDE DEF w
  <2> QED
    BY <1>5, <2>1 DEF Chat
<1> HIDE DEF n, w
<1>7. PumpAtWork(n)
  BY <1>1, <1>2, <1>4 DEF PumpAtWork
<1>8. Quietly(p, n)
  BY <1>1, <1>2, <1>4, QuietSelf DEF Quietly, Closing
<1>9. QuietStep
  BY <1>3, <1>4, <1>8, QuietOne
<1>10. UNCHANGED <<settings, provider, task, spent, misfiled, began>>
  BY DEF PurgeQueue
<1>11. raced' \subseteq Cause
  BY DEF PurgeQueue, TurnsTypeOK, Note, When, Cause
<1> HIDE DEF p
<1>12. TurnsTypeOK'
  BY <1>3, <1>4, <1>6, <1>7, <1>10, <1>11, SameBudget, TypeOfAgentStep DEF TurnsTypeOK
<1> QED
  BY <1>9, <1>12

LEMMA AfterResultDoes ==
  ASSUME TurnsAssumption, TurnsTypeOK, NEW a \in DOMAIN agents, AfterResult(a)
  PROVE  TurnsTypeOK' /\ QuietStep
<1> DEFINE p == agents[a]
           turns == p.turns
           tells == p.of = "claude" /\ turns[1].cancelled
           x == [turns[1] EXCEPT !.held = FALSE, !.told = turns[1].told \/ tells]
           u == IF tells THEN Pumps("tell", turns[1].id, "", {})
                ELSE IF turns[1].held THEN Pumps("start", turns[1].id, "", {}) ELSE Rest
           s == [turns EXCEPT ![1] = x]
           n == IF turns = <<>> THEN [p EXCEPT !.pump = Rest] ELSE [p EXCEPT !.pump = u, !.turns = s]
<1>1. p \in Process /\ PumpAtWork(p) /\ turns \in Seq(Pended)
  BY TypedProcess
<1>2. agents' = [agents EXCEPT ![a] = n]
  BY DEF AfterResult
<1>3. n \in Process /\ PumpAtWork(n) /\ Quietly(p, n)
  <2>1. CASE turns = <<>>
    <3>1. n = [p EXCEPT !.pump = Rest] /\ Rest \in Pumping /\ Rest.pc = "rest"
      BY <2>1 DEF Rest, Pumping
    <3> HIDE DEF n
    <3>2. /\ n \in Process /\ n.of = p.of /\ n.with = p.with /\ n.over = p.over /\ n.turns = turns
          /\ n.out = p.out /\ n.run = p.run /\ n.pump = Rest
      BY <1>1, <3>1 DEF Process
    <3>3. PumpAtWork(n)
      BY <1>1, <3>1, <3>2 DEF PumpAtWork
    <3>4. Quietly(p, n)
      BY <1>1, <3>1, <3>2, ThinsSelf DEF Quietly, Closing
    <3> QED
      BY <3>2, <3>3, <3>4
  <2>2. CASE turns # <<>>
    <3>1. turns[1] \in Pended /\ turns[1].id # NoTurn
      <4>1. turns[1] \in Pended
        BY <1>1, <2>2
      <4> QED
        BY <4>1, Ids DEF Pended
    <3>2. x \in Pended /\ x.id = turns[1].id /\ x.cancelled = turns[1].cancelled
      BY <3>1 DEF Pended
    <3>3. /\ u \in Pumping /\ u.pc \in {"rest", "tell", "start"}
          /\ u.pc # "rest" => u.turn = turns[1].id
      BY <3>1 DEF Pumps, Pumping, Rest, Pended
    <3> HIDE DEF x
    <3>4. s \in Seq(Pended) /\ Thins(turns, s)
      BY <2>2, <1>1, <3>2, FrontChanged
    <3>5. n = [p EXCEPT !.pump = u, !.turns = s]
      BY <2>2
    <3> HIDE DEF u, s, n
    <3>6. /\ n \in Process /\ n.of = p.of /\ n.with = p.with /\ n.over = p.over /\ n.turns = s
          /\ n.out = p.out /\ n.run = p.run /\ n.pump = u
      BY <1>1, <3>3, <3>4, <3>5 DEF Process
    <3>7. PumpAtWork(n)
      BY <1>1, <3>1, <3>3, <3>6 DEF PumpAtWork
    <3>8. Quietly(p, n)
      BY <2>2, <3>3, <3>4, <3>6 DEF Quietly, Closing
    <3> QED
      BY <3>6, <3>7, <3>8
  <2> QED
    BY <2>1, <2>2
<1> HIDE DEF n
<1>4. QuietStep
  BY <1>2, <1>3, QuietOne
<1>5. UNCHANGED <<chat, settings, provider, task, spent, raced, misfiled, began>>
  BY DEF AfterResult
<1> HIDE DEF p
<1>6. TurnsTypeOK'
  BY <1>2, <1>3, <1>5, SameBudget, TypeOfAgentStep DEF TurnsTypeOK
<1> QED
  BY <1>4, <1>6

LEMMA PoppedFields ==
  ASSUME NEW s \in Seq(Pended)
  PROVE  Popped(s) \in Seq(Pended) /\ Thins(s, Popped(s)) /\ Beheads(s, Popped(s))
BY ThinsTail, ThinsSelf, ThinsNone DEF Popped

\* A process whose turns are thinned and whose pump moves on.
LEMMA PumpedFields ==
  ASSUME NEW p \in Process, PumpAtWork(p), NEW n \in Process,
         n.of = p.of, n.with = p.with, p.over => n.over, n.run = p.run, n.out = p.out,
         Thins(p.turns, n.turns), n.pump.pc \in {"rest", "tell", "telling", "write", "apply"},
         n.pump.pc # "rest" => n.pump.turn # NoTurn,
         n.pump.pc \in {"write", "apply"} => p.pump.pc \in Closing /\ n.pump.turn = p.pump.turn,
         n.pump.pc = "apply" => Beheads(p.turns, n.turns)
  PROVE  PumpAtWork(n) /\ Quietly(p, n)
<1>1. PumpAtWork(n)
  BY DEF PumpAtWork
<1>2. Quietly(p, n)
  BY DEF Quietly, Closing
<1> QED
  BY <1>1, <1>2

LEMMA PumpTakesInputDoes ==
  ASSUME TurnsAssumption, TurnsTypeOK, NEW a \in DOMAIN agents, PumpTakesInput(a)
  PROVE  TurnsTypeOK' /\ QuietStep
<1> DEFINE p == agents[a]
           v == [p.pump EXCEPT !.pc = IF p.pump.pc = "start" THEN "write" ELSE "telling"]
           u == Pumps("apply", p.pump.turn, "error", {})
           n == IF p.stdin = "free" THEN [p EXCEPT !.stdin = "taken", !.pump = v]
                ELSE IF p.pump.pc = "start" THEN [p EXCEPT !.turns = Popped(p.turns), !.pump = u]
                ELSE [p EXCEPT !.pump = Rest]
<1>1. /\ p \in Process /\ PumpAtWork(p) /\ p.turns \in Seq(Pended) /\ p.pump \in Pumping
      /\ p.pump.pc \in {"tell", "start"} /\ p.pump.turn # NoTurn
  BY TypedProcess DEF PumpTakesInput, At, PumpAtWork
<1>2. agents' = [agents EXCEPT ![a] = n]
  BY DEF PumpTakesInput, At
<1>3. "start" \in Closing
  BY DEF Closing
<1>4. n \in Process /\ PumpAtWork(n) /\ Quietly(p, n)
  <2>1. CASE p.stdin = "free"
    <3>1. v \in Pumping /\ v.turn = p.pump.turn /\ v.pc = IF p.pump.pc = "start" THEN "write" ELSE "telling"
      BY <1>1 DEF Pumping
    <3>2. n = [p EXCEPT !.stdin = "taken", !.pump = v]
      BY <2>1
    <3> HIDE DEF v, n
    <3>3. /\ n \in Process /\ n.of = p.of /\ n.with = p.with /\ n.over = p.over /\ n.turns = p.turns
          /\ n.out = p.out /\ n.run = p.run /\ n.pump = v
      BY <1>1, <3>1, <3>2 DEF Process
    <3>4. Thins(p.turns, n.turns)
      BY <1>1, <3>3, ThinsSelf
    <3> QED
      BY <1>1, <1>3, <3>1, <3>3, <3>4, PumpedFields
  <2>2. CASE p.stdin # "free" /\ p.pump.pc = "start"
    <3>1. u \in Pumping /\ u.turn = p.pump.turn /\ u.pc = "apply"
      BY <1>1 DEF Pumping, Pumps
    <3>2. n = [p EXCEPT !.turns = Popped(p.turns), !.pump = u]
      BY <2>2
    <3>3. Popped(p.turns) \in Seq(Pended) /\ Thins(p.turns, Popped(p.turns)) /\ Beheads(p.turns, Popped(p.turns))
      BY <1>1, PoppedFields
    <3> HIDE DEF u, n
    <3>4. /\ n \in Process /\ n.of = p.of /\ n.with = p.with /\ n.over = p.over /\ n.turns = Popped(p.turns)
          /\ n.out = p.out /\ n.run = p.run /\ n.pump = u
      BY <1>1, <3>1, <3>2, <3>3 DEF Process
    <3> QED
      BY <1>1, <1>3, <2>2, <3>1, <3>3, <3>4, PumpedFields
  <2>3. CASE p.stdin # "free" /\ p.pump.pc # "start"
    <3>1. n = [p EXCEPT !.pump = Rest] /\ Rest \in Pumping /\ Rest.pc = "rest"
      BY <2>3 DEF Rest, Pumping
    <3> HIDE DEF n
    <3>2. /\ n \in Process /\ n.of = p.of /\ n.with = p.with /\ n.over = p.over /\ n.turns = p.turns
          /\ n.out = p.out /\ n.run = p.run /\ n.pump = Rest
      BY <1>1, <3>1 DEF Process
    <3>3. Thins(p.turns, n.turns)
      BY <1>1, <3>2, ThinsSelf
    <3> QED
      BY <1>1, <3>1, <3>2, <3>3, PumpedFields
  <2> QED
    BY <2>1, <2>2, <2>3
<1> HIDE DEF n
<1>5. QuietStep
  BY <1>2, <1>4, QuietOne
<1>6. raced' \subseteq Cause
  BY DEF PumpTakesInput, TurnsTypeOK, Note, When, Cause
<1>7. UNCHANGED <<chat, settings, provider, task, spent, misfiled, began>>
  BY DEF PumpTakesInput
<1> HIDE DEF p
<1>8. TurnsTypeOK'
  BY <1>2, <1>4, <1>6, <1>7, SameBudget, TypeOfAgentStep DEF TurnsTypeOK
<1> QED
  BY <1>5, <1>8

LEMMA SaysFields ==
  ASSUME NEW p \in Process, NEW w \in Line
  PROVE  /\ (IF p.over THEN p.inbox ELSE Append(p.inbox, w)) \in Seq(Line)
         /\ Says(p, w) = [p EXCEPT !.inbox = IF p.over THEN @ ELSE Append(@, w)]
<1>1. p.inbox \in Seq(Line)
  BY DEF Process
<1>2. Append(p.inbox, w) \in Seq(Line)
  BY <1>1, AppendHas
<1>3. Says(p, w) = [p EXCEPT !.inbox = IF p.over THEN @ ELSE Append(@, w)]
  BY DEF Says, Process
<1> QED
  BY <1>1, <1>2, <1>3

LEMMA PumpWritesDoes ==
  ASSUME TurnsAssumption, TurnsTypeOK, NEW a \in DOMAIN agents, PumpWrites(a)
  PROVE  TurnsTypeOK' /\ QuietStep
<1> DEFINE p == agents[a]
           t == p.pump.turn
           freed == [p EXCEPT !.stdin = "free", !.pump = Rest]
           fails == p.pump.pc = "write" /\ p.over
           w == IF p.pump.pc = "telling" THEN Interrupt(t) ELSE Prompt(t)
           s == IF fails THEN Popped(p.turns) ELSE p.turns
           u == IF fails THEN Pumps("apply", t, "error", {}) ELSE Rest
           i == IF p.over THEN p.inbox ELSE Append(p.inbox, w)
           n == [p EXCEPT !.turns = s, !.pump = u, !.stdin = "free", !.inbox = i]
<1>1. /\ p \in Process /\ PumpAtWork(p) /\ p.turns \in Seq(Pended) /\ p.pump \in Pumping
      /\ p.pump.pc \in {"telling", "write"} /\ t # NoTurn /\ t \in Turn /\ p.over \in BOOLEAN
  <2>1. p \in Process /\ PumpAtWork(p) /\ p.pump.pc \in {"telling", "write"}
    BY TypedProcess DEF PumpWrites, At
  <2> QED
    BY <2>1 DEF Process, PumpAtWork, Pumping
<1>2. w \in Line
  BY <1>1 DEF Interrupt, Prompt, Line
<1>3. freed \in Process /\ freed.over = p.over /\ freed.inbox = p.inbox /\ freed.turns = p.turns
  BY <1>1 DEF Process, Rest, Pumping
<1>4. i \in Seq(Line) /\ Says(freed, w) = [freed EXCEPT !.inbox = i]
  <2> HIDE DEF w, freed
  <2>1. p.inbox \in Seq(Line)
    BY <1>1 DEF Process
  <2> QED
    BY <1>1, <1>2, <1>3, SaysFields
<1>5. agents' = [agents EXCEPT ![a] = n]
  <2>1. CASE p.pump.pc = "telling"
    <3>1. agents' = [agents EXCEPT ![a] = Says(freed, w)]
      BY <2>1 DEF PumpWrites, At
    <3>2. [freed EXCEPT !.inbox = i] = n
      BY <2>1, <1>1 DEF Process
    <3> QED
      BY <3>1, <3>2, <1>4
  <2>2. CASE fails
    <3>1. agents' = [agents EXCEPT ![a] = [freed EXCEPT !.turns = Popped(@), !.pump = Pumps("apply", t, "error", {})]]
      BY <2>2, <1>3 DEF PumpWrites, At
    <3>2. [freed EXCEPT !.turns = Popped(@), !.pump = Pumps("apply", t, "error", {})] = n
      BY <2>2, <1>1 DEF Process
    <3> QED
      BY <3>1, <3>2
  <2>3. CASE p.pump.pc = "write" /\ ~p.over
    <3>1. agents' = [agents EXCEPT ![a] = Says(freed, w)]
      BY <2>3, <1>3 DEF PumpWrites, At
    <3>2. [freed EXCEPT !.inbox = i] = n
      BY <2>3, <1>1 DEF Process
    <3> QED
      BY <3>1, <3>2, <1>4
  <2> QED
    BY <1>1, <2>1, <2>2, <2>3
<1>6. u \in Pumping /\ u.pc \in {"apply", "rest"} /\ (u.pc = "apply" => fails /\ u.turn = t)
  BY <1>1 DEF Pumping, Pumps, Rest
<1>7. s \in Seq(Pended) /\ Thins(p.turns, s) /\ (fails => Beheads(p.turns, s))
  BY <1>1, PoppedFields, ThinsSelf
<1> HIDE DEF u, s, i, freed
<1>8. n \in Process /\ PumpAtWork(n) /\ Quietly(p, n)
  <2>1. "write" \in Closing
    BY DEF Closing
  <2>2. /\ n \in Process /\ n.of = p.of /\ n.with = p.with /\ n.over = p.over /\ n.turns = s
        /\ n.out = p.out /\ n.run = p.run /\ n.pump = u
    BY <1>1, <1>4, <1>6, <1>7 DEF Process
  <2> HIDE DEF n
  <2> QED
    BY <1>1, <1>6, <1>7, <2>1, <2>2, PumpedFields
<1> HIDE DEF n
<1>9. QuietStep
  BY <1>5, <1>8, QuietOne
<1>10. raced' \subseteq Cause
  BY DEF PumpWrites, TurnsTypeOK, Note, When, Cause
<1>11. UNCHANGED <<chat, settings, provider, task, spent, misfiled, began>>
  BY DEF PumpWrites
<1> HIDE DEF p
<1>12. TurnsTypeOK'
  BY <1>5, <1>8, <1>10, <1>11, SameBudget, TypeOfAgentStep DEF TurnsTypeOK
<1> QED
  BY <1>9, <1>12

LEMMA StreamEndsDoes ==
  ASSUME TurnsAssumption, TurnsTypeOK, NEW a \in DOMAIN agents, StreamEnds(a)
  PROVE  TurnsTypeOK' /\ QuietStep
<1> DEFINE p == agents[a]
           failed == Fails(p)
           closed == IF chat.active \in failed THEN Ends(chat, chat.active) ELSE chat
           m == [p EXCEPT !.dead = TRUE, !.turns = <<>>]
           gone == [agents EXCEPT ![a] = m]
           retires == chat.retire /\ chat.agent # 0 /\ (chat.agent = a \/ RetiresNow(chat.agent))
           u == Pumps(IF chat.queue = <<>> THEN "rest" ELSE "purge", NoTurn, "", Range(chat.queue))
           R == IF retires THEN [gone EXCEPT ![chat.agent] = Shut(@)] ELSE gone
<1>1. p \in Process /\ PumpAtWork(p) /\ p.pump.pc = "rest" /\ agents \in Seq(Process) /\ chat \in Chat
  BY TypedProcess DEF StreamEnds, At, TurnsTypeOK
<1>2. /\ m \in Process /\ PumpAtWork(m) /\ m.of = p.of /\ m.with = p.with /\ m.over = p.over /\ m.turns = <<>> /\ m.pump = p.pump
  <2>1. <<>> \in Seq(Pended)
    OBVIOUS
  <2>2. /\ m \in Process /\ m.of = p.of /\ m.with = p.with /\ m.over = p.over /\ m.turns = <<>> /\ m.pump = p.pump
        /\ m.run = p.run /\ m.out = p.out
    BY <1>1, <2>1 DEF Process
  <2> HIDE DEF m
  <2> QED
    BY <1>1, <2>2 DEF PumpAtWork
<1>3. Quietly(p, m)
  BY <1>1, <1>2, ThinsNone DEF Quietly, Closing
<1>4. /\ gone \in Seq(Process) /\ Len(gone) = Len(agents) /\ DOMAIN gone = DOMAIN agents
      /\ gone[a] = m /\ \A b \in DOMAIN agents : b # a => gone[b] = agents[b]
  <2> HIDE DEF m
  <2> QED
    BY <1>1, <1>2
<1>5. \A b \in DOMAIN agents : gone[b] \in Process /\ PumpAtWork(gone[b]) /\ Quietly(agents[b], gone[b])
  <2> HIDE DEF gone, m
  <2>1. \A b \in DOMAIN agents : agents[b] \in Process /\ PumpAtWork(agents[b])
    BY DEF TurnsTypeOK
  <2> QED
    BY <1>2, <1>3, <1>4, <2>1, QuietSelf
<1>6. closed \in Chat /\ closed.agent = chat.agent
  BY <1>1, EndsFields
<1>7. UNCHANGED <<settings, provider, task, spent, raced, misfiled, began>>
  BY DEF StreamEnds
<1>8. CASE failed = {}
  <2>1. agents' = gone /\ chat' = chat
    BY <1>8 DEF StreamEnds
  <2> HIDE DEF gone, p
  <2>2. QuietStep
    BY <1>4, <1>5, <2>1 DEF QuietStep
  <2>3. TurnsTypeOK'
    BY <1>1, <1>4, <1>5, <1>7, <2>1, SameBudget, TypeOfStep DEF TurnsTypeOK
  <2> QED
    BY <2>2, <2>3
<1>9. CASE failed # {}
  <2>1. /\ chat' = IF retires THEN [closed EXCEPT !.agent = 0, !.retire = FALSE] ELSE closed
        /\ agents' = [R EXCEPT ![a].pump = u]
    BY <1>9 DEF StreamEnds
  <2>2. u \in Pumping /\ u.pc \in {"rest", "purge"}
    <3>1. Range(chat.queue) \subseteq Sent
      BY <1>1 DEF Chat, Range
    <3> QED
      BY <3>1 DEF Pumps, Pumping
  <2>3. chat' \in Chat /\ chat'.agent \in {chat.agent, 0}
    <3>1. 0 \in 0..MaxAgents
      BY TurnsAssumption DEF TurnsAssumption
    <3> HIDE DEF closed, retires
    <3> QED
      BY <2>1, <1>6, <3>1 DEF Chat
  <2>4. /\ R \in Seq(Process) /\ Len(R) = Len(agents) /\ DOMAIN R = DOMAIN agents
        /\ \A b \in DOMAIN agents : R[b] = gone[b] \/ R[b] = Shut(gone[b])
    <3>1. retires => chat.agent \in DOMAIN agents
      BY DEF TurnsTypeOK, Chat
    <3> HIDE DEF gone, retires
    <3>2. \A b \in DOMAIN agents : Shut(gone[b]) \in Process
      BY <1>5, ShutFields
    <3> QED
      BY <1>4, <3>1, <3>2
  <2>5. \A b \in DOMAIN agents : R[b] \in Process /\ PumpAtWork(R[b]) /\ Quietly(agents[b], R[b]) /\ R[b].pump = gone[b].pump
    <3> HIDE DEF R, gone
    <3> SUFFICES ASSUME NEW b \in DOMAIN agents
                 PROVE  R[b] \in Process /\ PumpAtWork(R[b]) /\ Quietly(agents[b], R[b]) /\ R[b].pump = gone[b].pump
      OBVIOUS
    <3>1. CASE R[b] = gone[b]
      BY <3>1, <1>5
    <3>2. CASE R[b] = Shut(gone[b])
      <4>1. gone[b] \in Process /\ PumpAtWork(gone[b]) /\ Quietly(agents[b], gone[b])
        BY <1>5
      <4>2. /\ R[b] \in Process /\ PumpAtWork(R[b]) /\ R[b].over /\ R[b].of = gone[b].of /\ R[b].with = gone[b].with
            /\ R[b].turns = gone[b].turns /\ R[b].pump = gone[b].pump
        BY <3>2, <4>1, ShutFields
      <4>3. Quietly(agents[b], R[b])
        BY <4>1, <4>2 DEF Quietly
      <4> QED
        BY <4>2, <4>3
    <3> QED
      BY <2>4, <3>1, <3>2
  <2> DEFINE n == [R[a] EXCEPT !.pump = u]
  <2>6. agents' = [R EXCEPT ![a] = n]
    BY <2>1
  <2> HIDE DEF R, u
  <2>7. /\ n \in Process /\ n.of = R[a].of /\ n.with = R[a].with /\ n.over = R[a].over /\ n.turns = R[a].turns
        /\ n.pump = u /\ n.run = R[a].run /\ n.out = R[a].out
    <3>1. R[a] \in Process
      BY <2>5
    <3> QED
      BY <2>2, <3>1 DEF Process
  <2> HIDE DEF n
  <2>8. PumpAtWork(n)
    BY <2>2, <2>5, <2>7 DEF PumpAtWork
  <2>9. Quietly(p, n)
    <3>1. Quietly(p, R[a])
      BY <2>5
    <3>2. u.pc \notin Closing /\ u.pc # "apply" /\ u.pc # "drain"
      BY <2>2 DEF Closing
    <3> QED
      BY <3>1, <3>2, <2>7 DEF Quietly
  <2>10. /\ agents' \in Seq(Process) /\ Len(agents') = Len(agents) /\ DOMAIN agents' = DOMAIN agents
         /\ agents'[a] = n /\ \A b \in DOMAIN agents : b # a => agents'[b] = R[b]
    BY <2>4, <2>6, <2>7
  <2>11. QuietStep
    BY <2>5, <2>9, <2>10 DEF QuietStep
  <2>12. \A b \in DOMAIN agents' : PumpAtWork(agents'[b])
    BY <2>5, <2>8, <2>10
  <2>13. TurnsTypeOK'
    BY <1>7, <2>3, <2>10, <2>12, SameBudget, TypeOfStep DEF TurnsTypeOK
  <2> QED
    BY <2>11, <2>13
<1> QED
  BY <1>8, <1>9

-----------------------------------------------------------------------------
(***************************************************************************)
(* What the lanes do.                                                      *)
(***************************************************************************)

\* A lane is under way with what it works on.
AtWork(d, n) ==
  /\ d \in Doing /\ d.agent <= n
  /\ d.pc \in AtItsAgent => d.agent # 0
  /\ d.pc # "idle" => d.turn # NoTurn
  /\ d.pc \in {"queue", "unqueue"} => d.turn \in Sent
  /\ d.pc = "spawn" => d.of \in Providers

LEMMA TypedLane ==
  ASSUME TurnsTypeOK, NEW l \in Lanes
  PROVE  AtWork(task[l], Len(agents)) /\ Len(agents) \in 0..MaxAgents
BY DEF TurnsTypeOK, LanesAreAtWork, AtWork

LEMMA LaneMoves ==
  ASSUME TurnsAssumption, TurnsTypeOK, NEW l \in Lanes, NEW d, task' = [task EXCEPT ![l] = d],
         agents' \in Seq(Process), Len(agents') >= Len(agents), AtWork(d, Len(agents'))
  PROVE  /\ task' \in [Lanes -> Doing] /\ LanesAreAtWork'
         /\ task'[l] = d /\ \A k \in Lanes : k # l => task'[k] = task[k]
<1>1. /\ task' \in [Lanes -> Doing]
      /\ task'[l] = d /\ \A k \in Lanes : k # l => task'[k] = task[k]
  BY DEF TurnsTypeOK, AtWork
<1>2. PICK n \in Nat : n = Len(agents)
  BY DEF TurnsTypeOK
<1>3. PICK m \in Nat : m = Len(agents')
  OBVIOUS
<1>4. \A k \in Lanes : AtWork(task'[k], m)
  <2> SUFFICES ASSUME NEW k \in Lanes PROVE AtWork(task'[k], m)
    OBVIOUS
  <2>1. CASE k = l
    BY <1>1, <1>3, <2>1
  <2>2. CASE k # l
    <3>1. AtWork(task[k], n) /\ task[k].agent \in 0..MaxAgents /\ MaxAgents \in Nat
      <4>1. AtWork(task[k], n)
        BY <1>2, TypedLane
      <4>2. MaxAgents \in Nat
        BY DEF TurnsAssumption
      <4> QED
        BY <4>1, <4>2 DEF AtWork, Doing
    <3> QED
      BY <1>1, <1>2, <1>3, <2>2, <3>1 DEF AtWork
  <2> QED
    BY <2>1, <2>2
<1>5. LanesAreAtWork'
  BY <1>3, <1>4 DEF LanesAreAtWork, AtWork
<1> QED
  BY <1>1, <1>5

\* A lane that is done.
LEMMA IdleFields ==
  ASSUME TurnsAssumption, NEW n \in Nat
  PROVE  AtWork(Idle, n) /\ Idle.pc = "idle"
BY DEF TurnsAssumption, AtWork, Idle, Doing, AtItsAgent

\* A lane that goes on.
LEMMA GoesFields ==
  ASSUME NEW d, NEW n \in Nat, AtWork(d, n), d.pc # "idle",
         NEW pc \in {"begin", "ensure", "mark", "send", "write", "telling"},
         pc \in AtItsAgent => d.agent # 0
  PROVE  AtWork([d EXCEPT !.pc = pc], n) /\ [d EXCEPT !.pc = pc].turn = d.turn /\ [d EXCEPT !.pc = pc].agent = d.agent
         /\ [d EXCEPT !.pc = pc].pc = pc
BY DEF AtWork, Doing

\* The race that is noted.
LEMMA NotedRaces ==
  ASSUME TurnsTypeOK, NEW c \in SUBSET Cause, Note(c)
  PROVE  raced' \subseteq Cause /\ raced \subseteq raced'
BY DEF TurnsTypeOK, Note

\* What a lane does that starts nothing.
LanesQuiet ==
  \A k \in Lanes :
    /\ task'[k].pc \in Starting => /\ task[k].pc \in Starting /\ task'[k].turn = task[k].turn
                                   /\ task'[k].pc = "queue" => task[k].pc = "queue"
    /\ task'[k].pc \in Sending => task[k].pc \in Sending /\ task'[k].turn = task[k].turn /\ task'[k].agent = task[k].agent

\* What waits had waited.
QueueShrinks ==
  \A i \in DOMAIN chat'.queue : \E j \in DOMAIN chat.queue : chat'.queue[i] = chat.queue[j]

LEMMA LaneMovesQuietly ==
  ASSUME TurnsAssumption, TurnsTypeOK, NEW l \in Lanes, NEW d, task' = [task EXCEPT ![l] = d],
         d.pc \notin Starting \cup Sending \/
           (d.turn = task[l].turn /\ d.pc # "queue" /\
             \/ d.pc \in Starting /\ task[l].pc \in Starting
             \/ d.pc \in Sending /\ task[l].pc \in Sending /\ d.agent = task[l].agent)
  PROVE  LanesQuiet
BY DEF LanesQuiet, TurnsTypeOK, Starting, Sending

\* The processes, the budget and what is remembered, when they stay.
LEMMA SameProcesses ==
  ASSUME TurnsTypeOK, agents' = agents
  PROVE  /\ agents' \in Seq(Process) /\ Len(agents') = Len(agents) /\ Len(agents') >= Len(agents)
         /\ \A b \in DOMAIN agents' : PumpAtWork(agents'[b])
         /\ QuietStep
<1>1. /\ agents \in Seq(Process) /\ \A b \in DOMAIN agents : PumpAtWork(agents[b])
  BY DEF TurnsTypeOK
<1>2. agents' \in Seq(Process) /\ Len(agents') = Len(agents) /\ \A b \in DOMAIN agents' : PumpAtWork(agents'[b])
  BY <1>1
<1>3. Len(agents') >= Len(agents)
  BY <1>2
<1> QED
  BY <1>2, <1>3, QuietNone

LEMMA OneProcess ==
  ASSUME TurnsTypeOK, NEW a \in DOMAIN agents, NEW n \in Process, agents' = [agents EXCEPT ![a] = n],
         PumpAtWork(n), Quietly(agents[a], n)
  PROVE  /\ agents' \in Seq(Process) /\ Len(agents') = Len(agents) /\ Len(agents') >= Len(agents)
         /\ \A b \in DOMAIN agents' : PumpAtWork(agents'[b])
         /\ QuietStep
<1>1. agents' \in Seq(Process) /\ Len(agents') = Len(agents) /\ \A b \in DOMAIN agents' : PumpAtWork(agents'[b])
  BY TypedOne
<1>2. Len(agents') >= Len(agents)
  BY <1>1
<1> QED
  BY <1>1, <1>2, QuietOne

\* The types after a step of a lane.
LEMMA TypeOfLaneStep ==
  ASSUME TurnsAssumption, TurnsTypeOK, NEW l \in Lanes, NEW d, task' = [task EXCEPT ![l] = d], AtWork(d, Len(agents)),
         agents' \in Seq(Process), Len(agents') = Len(agents), \A b \in DOMAIN agents' : PumpAtWork(agents'[b]),
         chat' \in Chat, chat'.agent \in {chat.agent, 0}, provider' = provider,
         spent' \in [starts : 0..MaxStarts, events : 0..MaxEvents], settings' \in 0..spent'.events,
         raced' \subseteq Cause, misfiled' = misfiled, began' \in [Turn -> 0..MaxEvents]
  PROVE  TurnsTypeOK'
<1>1. Len(agents') >= Len(agents) /\ AtWork(d, Len(agents'))
  BY DEF TurnsTypeOK
<1>2. task' \in [Lanes -> Doing] /\ LanesAreAtWork'
  BY <1>1, LaneMoves
<1>3. provider' \in Providers /\ misfiled' \subseteq Turn
  BY DEF TurnsTypeOK
<1> QED
  BY <1>2, <1>3, TypeOfStep

LEMMA Begun ==
  ASSUME TurnsAssumption, TurnsTypeOK, NEW t, Begins(t), spent' \in [starts : 0..MaxStarts, events : 0..MaxEvents],
         settings' \in 0..spent'.events
  PROVE  began' \in [Turn -> 0..MaxEvents]
<1>1. spent'.events \in 0..MaxEvents /\ MaxEvents \in Nat
  BY DEF TurnsAssumption
<1>2. settings' \in 0..MaxEvents
  BY <1>1
<1> QED
  BY <1>2 DEF TurnsTypeOK, Begins

LEMMA StartTurnDoes ==
  ASSUME TurnsAssumption, TurnsTypeOK, NEW l \in Conn, StartTurn(l)
  PROVE  /\ TurnsTypeOK' /\ QuietStep
         /\ spent'.starts = spent.starts + 1 /\ task[l].pc = "idle"
         /\ task'[l].turn = Given(spent.starts + 1) /\ task'[l].pc \in {"queue", "begin"}
         /\ \A k \in Lanes : k # l => task'[k] = task[k]
         /\ UNCHANGED <<chat, settings, provider, agents, raced, misfiled, began>>
<1> DEFINE d == [Idle EXCEPT !.turn = Given(spent.starts + 1),
                   !.pc = IF \E a \in LiveAgent : Busy(agents[a]) THEN "queue" ELSE "begin"]
<1>1. /\ spent' \in [starts : 0..MaxStarts, events : 0..MaxEvents] /\ spent'.starts = spent.starts + 1
      /\ spent'.events = spent.events /\ spent.starts + 1 \in 1..MaxStarts
  BY DEF StartTurn, TurnsTypeOK, TurnsAssumption
<1>2. Given(spent.starts + 1) \in Sent /\ Given(spent.starts + 1) \in Turn /\ Given(spent.starts + 1) # NoTurn
  BY <1>1, Ids
<1>3. task' = [task EXCEPT ![l] = d]
  BY <1>1 DEF StartTurn
<1>4. PICK n \in Nat : n = Len(agents)
  BY DEF TurnsTypeOK
<1>5. d.turn = Given(spent.starts + 1) /\ d.pc \in {"queue", "begin"} /\ AtWork(d, n)
  BY <1>2, <1>4, IdleFields DEF AtWork, Idle, Doing, AtItsAgent
<1> HIDE DEF d
<1>6. UNCHANGED <<chat, settings, provider, agents, raced, misfiled, began>> /\ task[l].pc = "idle" /\ l \in Lanes
  BY DEF StartTurn, Lanes
<1>7. /\ agents' \in Seq(Process) /\ Len(agents') = Len(agents) /\ \A b \in DOMAIN agents' : PumpAtWork(agents'[b])
      /\ QuietStep
  BY <1>6, SameProcesses
<1>8. TurnsTypeOK'
  BY <1>1, <1>3, <1>4, <1>5, <1>6, <1>7, TypeOfLaneStep DEF TurnsTypeOK
<1>9. task'[l] = d /\ \A k \in Lanes : k # l => task'[k] = task[k]
  BY <1>3, <1>6 DEF TurnsTypeOK
<1> QED
  BY <1>1, <1>5, <1>6, <1>7, <1>8, <1>9

LEMMA QueueTurnDoes ==
  ASSUME TurnsAssumption, TurnsTypeOK, NEW l \in Lanes, QueueTurn(l)
  PROVE  /\ TurnsTypeOK' /\ QuietStep /\ LanesQuiet
         /\ task'[l] = Idle /\ \A k \in Lanes : k # l => task'[k] = task[k]
         /\ \A i \in DOMAIN chat'.queue : \/ chat'.queue[i] = task[l].turn
                                          \/ i \in DOMAIN chat.queue /\ chat'.queue[i] = chat.queue[i]
<1>1. task[l].turn \in Sent /\ chat \in Chat /\ chat.queue \in Seq(Sent) /\ chat.prompts \subseteq Sent
  BY DEF QueueTurn, TurnsTypeOK, LanesAreAtWork, Chat
<1>2. /\ chat' \in Chat /\ chat'.agent = chat.agent
      /\ \A i \in DOMAIN chat'.queue : \/ chat'.queue[i] = task[l].turn
                                       \/ i \in DOMAIN chat.queue /\ chat'.queue[i] = chat.queue[i]
  <2>1. CASE chat.open
    <3> DEFINE q == Append(chat.queue, task[l].turn)
               s == chat.prompts \cup {task[l].turn}
    <3>1. q \in Seq(Sent) /\ \A i \in DOMAIN q : q[i] = task[l].turn \/ (i \in DOMAIN chat.queue /\ q[i] = chat.queue[i])
      BY <1>1, AppendHas
    <3>2. s \subseteq Sent
      BY <1>1
    <3>3. chat' = [chat EXCEPT !.queue = q, !.prompts = s]
      BY <2>1 DEF QueueTurn, Waits
    <3> HIDE DEF q, s
    <3>4. chat' \in Chat /\ chat'.agent = chat.agent /\ chat'.queue = q
      BY <1>1, <3>1, <3>2, <3>3 DEF Chat
    <3> QED
      BY <3>1, <3>4
  <2>2. CASE ~chat.open
    BY <1>1, <2>2 DEF QueueTurn
  <2> QED
    BY <2>1, <2>2
<1>3. /\ UNCHANGED <<settings, provider, agents, spent, misfiled, began>> /\ task' = [task EXCEPT ![l] = Idle]
  BY DEF QueueTurn, Done
<1>4. PICK n \in Nat : n = Len(agents)
  BY DEF TurnsTypeOK
<1>5. AtWork(Idle, n) /\ Idle.pc = "idle"
  BY <1>4, IdleFields
<1>6. /\ agents' \in Seq(Process) /\ Len(agents') = Len(agents) /\ \A b \in DOMAIN agents' : PumpAtWork(agents'[b])
      /\ QuietStep
  BY <1>3, SameProcesses
<1>7. raced' \subseteq Cause
  BY DEF QueueTurn, TurnsTypeOK, Note, When, Cause
<1>8. TurnsTypeOK'
  BY <1>2, <1>3, <1>4, <1>5, <1>6, <1>7, SameBudget, TypeOfLaneStep DEF TurnsTypeOK
<1>9. task'[l] = Idle /\ \A k \in Lanes : k # l => task'[k] = task[k]
  BY <1>3 DEF TurnsTypeOK
<1>10. LanesQuiet
  BY <1>3, <1>5, LaneMovesQuietly DEF Starting, Sending
<1> QED
  BY <1>2, <1>6, <1>8, <1>9, <1>10

\* The settings change: the chat's agent is retired.
LEMMA Resettled ==
  ASSUME TurnsAssumption, TurnsTypeOK, NEW c \in Chat, c.agent = chat.agent, Event, Resettle(c)
  PROVE  /\ agents' \in Seq(Process) /\ Len(agents') = Len(agents) /\ Len(agents') >= Len(agents)
         /\ \A b \in DOMAIN agents' : PumpAtWork(agents'[b])
         /\ QuietStep
         /\ chat' \in Chat /\ chat'.agent \in {chat.agent, 0}
         /\ spent' \in [starts : 0..MaxStarts, events : 0..MaxEvents] /\ spent'.starts = spent.starts
         /\ settings' \in 0..spent'.events
<1> DEFINE R == RetiredAgents(c)
<1>1. agents' = R /\ chat' = RetiredChat(c) /\ settings' = settings + 1
  BY DEF Resettle
<1>2. /\ R \in Seq(Process) /\ Len(R) = Len(agents) /\ DOMAIN R = DOMAIN agents
      /\ \A b \in DOMAIN agents : PumpAtWork(R[b]) /\ Quietly(agents[b], R[b])
      /\ RetiredChat(c) \in Chat /\ RetiredChat(c).agent \in {c.agent, 0}
  BY RetiredFields
<1> HIDE DEF R
<1>3. /\ agents' \in Seq(Process) /\ Len(agents') = Len(agents) /\ DOMAIN agents' = DOMAIN agents
      /\ \A b \in DOMAIN agents' : PumpAtWork(agents'[b])
  BY <1>1, <1>2
<1>4. QuietStep
  BY <1>1, <1>2 DEF QuietStep
<1>5. settings \in 0..spent.events /\ spent.events \in Nat
  BY DEF TurnsTypeOK, TurnsAssumption
<1> QED
  BY <1>1, <1>2, <1>3, <1>4, <1>5, EventType

LEMMA BeginTurnDoes ==
  ASSUME TurnsAssumption, TurnsTypeOK, NEW l \in Lanes, BeginTurn(l)
  PROVE  /\ TurnsTypeOK' /\ QuietStep /\ LanesQuiet
         /\ task'[l] = [task[l] EXCEPT !.pc = "ensure"] /\ \A k \in Lanes : k # l => task'[k] = task[k]
         /\ chat'.queue = chat.queue /\ spent'.starts = spent.starts
<1> DEFINE t == task[l].turn
           c == Starts(chat, t)
           d == [task[l] EXCEPT !.pc = "ensure"]
<1>1. /\ AtWork(task[l], Len(agents)) /\ Len(agents) \in Nat /\ task[l].pc = "begin" /\ chat \in Chat
  BY TypedLane DEF BeginTurn, TurnsTypeOK
<1>2. t \in Turn
  BY <1>1 DEF AtWork, Doing
<1>3. c \in Chat /\ c.agent = chat.agent /\ c.queue = chat.queue
  BY <1>1, <1>2, StartsFields
<1>4. AtWork(d, Len(agents)) /\ d.pc = "ensure" /\ d.turn = t
  BY <1>1, GoesFields DEF AtItsAgent
<1>5. task' = [task EXCEPT ![l] = d]
  BY DEF BeginTurn, Goes, TurnsTypeOK
<1>6. Begins(t) /\ UNCHANGED <<provider, misfiled>>
  BY DEF BeginTurn
<1>7. raced' \subseteq Cause
  BY DEF BeginTurn, TurnsTypeOK, Note, When, Cause
<1> HIDE DEF c, t, d
<1>8. /\ agents' \in Seq(Process) /\ Len(agents') = Len(agents)
      /\ \A b \in DOMAIN agents' : PumpAtWork(agents'[b])
      /\ QuietStep
      /\ chat' \in Chat /\ chat'.agent \in {chat.agent, 0} /\ chat'.queue = c.queue
      /\ spent' \in [starts : 0..MaxStarts, events : 0..MaxEvents] /\ spent'.starts = spent.starts
      /\ settings' \in 0..spent'.events
  <2>1. CASE chat' = c /\ UNCHANGED <<settings, agents, spent>>
    BY <1>3, <2>1, SameProcesses, SameBudget DEF TurnsTypeOK
  <2>2. CASE Event /\ Resettle(c)
    <3>1. chat'.queue = c.queue
      BY <2>2, <1>3, RetiredFields DEF Resettle
    <3> QED
      BY <1>3, <2>2, <3>1, Resettled
  <2> QED
    BY <2>1, <2>2 DEF BeginTurn, c, t
<1>9. began' \in [Turn -> 0..MaxEvents]
  BY <1>6, <1>8, Begun
<1>10. TurnsTypeOK'
  BY <1>4, <1>5, <1>6, <1>7, <1>8, <1>9, TypeOfLaneStep
<1>11. task'[l] = d /\ \A k \in Lanes : k # l => task'[k] = task[k]
  BY <1>5 DEF TurnsTypeOK
<1>12. LanesQuiet
  BY <1>1, <1>4, <1>5, LaneMovesQuietly DEF Starting, t
<1> QED
  BY <1>3, <1>8, <1>10, <1>11, <1>12 DEF d

\* A turn that failed, and the lane that goes idle.
LEMMA TurnFailedDoes ==
  ASSUME TurnsAssumption, TurnsTypeOK, NEW l \in Lanes, TurnFailed(l)
  PROVE  /\ task' = [task EXCEPT ![l] = Idle] /\ raced' \subseteq Cause
         /\ chat' \in Chat /\ chat'.agent = chat.agent /\ chat'.queue = chat.queue /\ chat'.open = chat.open
         /\ chat'.prompts = chat.prompts
         /\ chat'.active = IF chat.active = task[l].turn THEN NoTurn ELSE chat.active
         /\ LanesQuiet
<1>1. chat \in Chat /\ chat' = Ends(chat, task[l].turn) /\ task' = [task EXCEPT ![l] = Idle]
  BY DEF TurnFailed, TurnsTypeOK, Done
<1>2. LanesQuiet
  BY <1>1, LaneMovesQuietly DEF Idle, Starting, Sending
<1>3. raced' \subseteq Cause
  BY DEF TurnFailed, TurnsTypeOK, Note, When, Cause
<1> QED
  BY <1>1, <1>2, <1>3, EndsFields

\* A lane that does not change a process.
LEMMA TypeOfLaneAlone ==
  ASSUME TurnsAssumption, TurnsTypeOK, NEW l \in Lanes, NEW d, task' = [task EXCEPT ![l] = d], AtWork(d, Len(agents)),
         agents' = agents, chat' \in Chat, chat'.agent \in {chat.agent, 0},
         spent' \in [starts : 0..MaxStarts, events : 0..MaxEvents], spent'.events >= spent.events,
         raced' \subseteq Cause, UNCHANGED <<settings, provider, misfiled, began>>
  PROVE  TurnsTypeOK' /\ QuietStep /\ task'[l] = d /\ \A k \in Lanes : k # l => task'[k] = task[k]
<1>1. settings' \in 0..spent'.events
  BY DEF TurnsTypeOK
<1>2. began' \in [Turn -> 0..MaxEvents]
  BY DEF TurnsTypeOK
<1>3. task'[l] = d /\ \A k \in Lanes : k # l => task'[k] = task[k]
  BY DEF TurnsTypeOK
<1>4. /\ agents' \in Seq(Process) /\ Len(agents') = Len(agents) /\ \A b \in DOMAIN agents' : PumpAtWork(agents'[b])
      /\ QuietStep
  BY SameProcesses
<1> QED
  BY <1>1, <1>2, <1>3, <1>4, TypeOfLaneStep

LEMMA EnsureAgentDoes ==
  ASSUME TurnsAssumption, TurnsTypeOK, NEW l \in Lanes, EnsureAgent(l)
  PROVE  /\ TurnsTypeOK' /\ QuietStep /\ LanesQuiet
         /\ \A k \in Lanes : k # l => task'[k] = task[k]
         /\ \/ ~chat.open /\ TurnFailed(l)
            \/ /\ chat' = chat /\ raced' = raced /\ task'[l].turn = task[l].turn
               /\ \/ task'[l].pc = "push" /\ chat.agent # 0
                  \/ task'[l].pc = "spawn" /\ chat.open
<1>1. /\ AtWork(task[l], Len(agents)) /\ Len(agents) \in 0..MaxAgents /\ task[l].pc = "ensure" /\ task[l] \in Doing
      /\ chat \in Chat /\ chat.agent <= Len(agents) /\ task[l].turn # NoTurn
  BY TypedLane DEF EnsureAgent, TurnsTypeOK, AtWork
<1>2. UNCHANGED <<settings, provider, agents, spent, misfiled, began>> /\ raced \subseteq Cause
  BY DEF EnsureAgent, TurnsTypeOK
<1>3. Len(agents) \in Nat
  BY <1>1
<1>4. CASE ~chat.open /\ TurnFailed(l)
  <2>1. AtWork(Idle, Len(agents))
    BY <1>3, IdleFields
  <2>2. TurnsTypeOK' /\ QuietStep /\ \A k \in Lanes : k # l => task'[k] = task[k]
    BY <1>2, <1>4, <2>1, TurnFailedDoes, SameBudget, TypeOfLaneAlone
  <2> QED
    BY <1>4, <2>2, TurnFailedDoes
<1>5. CASE /\ chat.agent # 0
           /\ task' = [task EXCEPT ![l] = [task[l] EXCEPT !.pc = "push", !.agent = chat.agent]] /\ UNCHANGED <<chat, raced>>
  <2> DEFINE d == [task[l] EXCEPT !.pc = "push", !.agent = chat.agent]
  <2>1. d \in Doing /\ d.pc = "push" /\ d.agent = chat.agent /\ d.turn = task[l].turn
    BY <1>1 DEF Doing, Chat
  <2>2. task' = [task EXCEPT ![l] = d]
    BY <1>5
  <2> HIDE DEF d
  <2>3. AtWork(d, Len(agents))
    BY <1>1, <1>5, <2>1 DEF AtWork
  <2>4. TurnsTypeOK' /\ QuietStep /\ task'[l] = d /\ \A k \in Lanes : k # l => task'[k] = task[k]
    BY <1>1, <1>2, <1>5, <2>2, <2>3, SameBudget, TypeOfLaneAlone
  <2>5. LanesQuiet
    BY <1>1, <2>1, <2>2, LaneMovesQuietly DEF Starting
  <2> QED
    BY <1>5, <2>1, <2>4, <2>5
<1>6. CASE /\ chat.open
           /\ task' = [task EXCEPT ![l] = [task[l] EXCEPT !.pc = "spawn", !.with = settings, !.of = provider]] /\ UNCHANGED <<chat, raced>>
  <2> DEFINE d == [task[l] EXCEPT !.pc = "spawn", !.with = settings, !.of = provider]
  <2>0. settings \in 0..MaxEvents /\ provider \in Providers
    <3>1. settings \in 0..spent.events /\ spent.events \in 0..MaxEvents /\ provider \in Providers
      BY DEF TurnsTypeOK
    <3>2. MaxEvents \in Nat
      BY DEF TurnsAssumption
    <3> QED
      BY <3>1, <3>2
  <2>1. d \in Doing /\ d.pc = "spawn" /\ d.agent = task[l].agent /\ d.turn = task[l].turn /\ d.of = provider
    BY <1>1, <2>0 DEF Doing
  <2>2. task' = [task EXCEPT ![l] = d]
    BY <1>6
  <2> HIDE DEF d
  <2>3. AtWork(d, Len(agents))
    BY <1>1, <2>0, <2>1 DEF AtWork, AtItsAgent
  <2>4. TurnsTypeOK' /\ QuietStep /\ task'[l] = d /\ \A k \in Lanes : k # l => task'[k] = task[k]
    BY <1>1, <1>2, <1>6, <2>2, <2>3, SameBudget, TypeOfLaneAlone
  <2>5. LanesQuiet
    BY <1>1, <2>1, <2>2, LaneMovesQuietly DEF Starting
  <2> QED
    BY <1>6, <2>1, <2>4, <2>5
<1>7. (\E a \in LiveAgent : ~agents[a].dead) => chat.agent # 0
  BY DEF LiveAgent
<1> QED
  BY <1>4, <1>5, <1>6, <1>7 DEF EnsureAgent

LEMMA SpawnFailsDoes ==
  ASSUME TurnsAssumption, TurnsTypeOK, NEW l \in Lanes, SpawnFails(l)
  PROVE  /\ TurnsTypeOK' /\ QuietStep /\ LanesQuiet
         /\ \A k \in Lanes : k # l => task'[k] = task[k]
<1>1. TurnFailed(l) /\ UNCHANGED <<settings, provider, agents, misfiled, began>> /\ Event
  BY DEF SpawnFails
<1>2. AtWork(Idle, Len(agents))
  BY IdleFields DEF TurnsTypeOK
<1>3. spent' \in [starts : 0..MaxStarts, events : 0..MaxEvents] /\ spent'.events >= spent.events
  <2>1. spent.events \in Nat
    BY DEF TurnsTypeOK, TurnsAssumption
  <2> QED
    BY <1>1, <2>1, EventType
<1> QED
  BY <1>1, <1>2, <1>3, TurnFailedDoes, TypeOfLaneAlone

LEMMA CancelTurnDoes ==
  ASSUME TurnsAssumption, TurnsTypeOK, NEW l \in Conn, NEW t \in Turn, CancelTurn(l, t)
  PROVE  /\ TurnsTypeOK' /\ QuietStep /\ LanesQuiet
         /\ task'[l].turn = t /\ \A k \in Lanes : k # l => task'[k] = task[k]
         /\ \/ task'[l].pc = "unqueue" /\ chat' = chat
            \/ task'[l].pc = "mark" /\ chat' = Ends(chat, t)
<1> DEFINE d == [Idle EXCEPT !.turn = t, !.pc = IF t \in Range(chat.queue) THEN "unqueue" ELSE "mark"]
<1>1. /\ Event /\ chat \in Chat /\ l \in Lanes /\ chat.queue \in Seq(Sent)
      /\ UNCHANGED <<settings, provider, agents, misfiled, began>>
  BY DEF CancelTurn, TurnsTypeOK, Chat, Lanes
<1>2. \/ t \in Range(chat.queue) /\ chat' = chat
      \/ t \notin Range(chat.queue) /\ chat' = Ends(chat, t)
  BY DEF CancelTurn
<1>3. task' = [task EXCEPT ![l] = d]
  BY DEF CancelTurn
<1>4. t \in Range(chat.queue) => t \in Sent
  BY <1>1 DEF Range
<1>5. d.turn = t /\ d.pc = (IF t \in Range(chat.queue) THEN "unqueue" ELSE "mark") /\ AtWork(d, Len(agents))
  <2>1. PICK n \in Nat : n = Len(agents)
    BY DEF TurnsTypeOK
  <2> QED
    BY <1>4, <2>1, IdleFields, Ids DEF AtWork, Idle, Doing, AtItsAgent
<1>6. spent' \in [starts : 0..MaxStarts, events : 0..MaxEvents] /\ spent'.events >= spent.events
  <2>1. spent.events \in Nat
    BY DEF TurnsTypeOK, TurnsAssumption
  <2> QED
    BY <1>1, <2>1, EventType
<1>7. raced' \subseteq Cause
  BY DEF CancelTurn, TurnsTypeOK, Note, Cause
<1> HIDE DEF d
<1>8. chat' \in Chat /\ chat'.agent \in {chat.agent, 0}
  BY <1>1, <1>2, EndsFields
<1>9. TurnsTypeOK' /\ QuietStep /\ task'[l] = d /\ \A k \in Lanes : k # l => task'[k] = task[k]
  BY <1>1, <1>3, <1>5, <1>6, <1>7, <1>8, TypeOfLaneAlone
<1>10. LanesQuiet
  BY <1>1, <1>3, <1>5, LaneMovesQuietly DEF Starting, Sending
<1> QED
  BY <1>2, <1>5, <1>9, <1>10

LEMMA UnqueueDoes ==
  ASSUME TurnsAssumption, TurnsTypeOK, NEW l \in Lanes, Unqueue(l)
  PROVE  /\ TurnsTypeOK' /\ QuietStep /\ LanesQuiet
         /\ task'[l] = Idle /\ \A k \in Lanes : k # l => task'[k] = task[k]
<1>1. /\ chat \in Chat /\ chat' = Without(chat, {task[l].turn}) /\ task' = [task EXCEPT ![l] = Idle]
      /\ UNCHANGED <<settings, provider, agents, spent, misfiled, began>>
  BY DEF Unqueue, Done, TurnsTypeOK
<1>2. AtWork(Idle, Len(agents)) /\ Idle.pc = "idle"
  BY IdleFields DEF TurnsTypeOK
<1>3. raced' \subseteq Cause
  BY DEF Unqueue, TurnsTypeOK, Note, When, Cause
<1>4. chat' \in Chat /\ chat'.agent = chat.agent
  BY <1>1, WithoutFields
<1>5. TurnsTypeOK' /\ QuietStep /\ task'[l] = Idle /\ \A k \in Lanes : k # l => task'[k] = task[k]
  BY <1>1, <1>2, <1>3, <1>4, SameBudget, TypeOfLaneAlone
<1>6. LanesQuiet
  BY <1>1, <1>2, LaneMovesQuietly DEF Starting, Sending
<1> QED
  BY <1>5, <1>6

LEMMA QueueMessageDoes ==
  ASSUME TurnsAssumption, TurnsTypeOK, QueueMessage
  PROVE  /\ TurnsTypeOK' /\ QuietStep /\ UNCHANGED <<agents, task, settings>>
         /\ spent'.starts = spent.starts + 1
         /\ \A i \in DOMAIN chat'.queue : \/ chat'.queue[i] = Given(spent.starts + 1)
                                          \/ i \in DOMAIN chat.queue /\ chat'.queue[i] = chat.queue[i]
         /\ chat'.agent = chat.agent /\ chat'.open = chat.open /\ chat'.active = chat.active /\ chat'.retire = chat.retire
<1> DEFINE q == Append(chat.queue, Given(spent.starts + 1))
<1>1. /\ spent' \in [starts : 0..MaxStarts, events : 0..MaxEvents] /\ spent'.starts = spent.starts + 1
      /\ spent'.events = spent.events /\ spent.starts + 1 \in 1..MaxStarts
  BY DEF QueueMessage, TurnsTypeOK, TurnsAssumption
<1>2. Given(spent.starts + 1) \in Sent /\ chat \in Chat /\ chat.queue \in Seq(Sent)
  BY <1>1, Ids DEF TurnsTypeOK, Chat
<1>3. /\ q \in Seq(Sent)
      /\ \A i \in DOMAIN q : q[i] = Given(spent.starts + 1) \/ (i \in DOMAIN chat.queue /\ q[i] = chat.queue[i])
  BY <1>2, AppendHas
<1>4. chat' = [chat EXCEPT !.queue = q]
  BY <1>1 DEF QueueMessage
<1> HIDE DEF q
<1>5. /\ chat' \in Chat /\ chat'.agent = chat.agent /\ chat'.open = chat.open /\ chat'.active = chat.active
      /\ chat'.retire = chat.retire /\ chat'.queue = q
  BY <1>2, <1>3, <1>4 DEF Chat
<1>6. /\ UNCHANGED <<settings, provider, agents, task, misfiled, began>> /\ raced' \subseteq Cause
  BY DEF QueueMessage, TurnsTypeOK, Note, Cause
<1>7. /\ agents' \in Seq(Process) /\ Len(agents') = Len(agents) /\ \A b \in DOMAIN agents' : PumpAtWork(agents'[b])
      /\ QuietStep
  BY <1>6, SameProcesses
<1>8. settings' \in 0..spent'.events /\ provider' \in Providers /\ misfiled' \subseteq Turn /\ began' \in [Turn -> 0..MaxEvents]
  BY <1>1, <1>6 DEF TurnsTypeOK
<1>9. TurnsTypeOK'
  BY <1>1, <1>5, <1>6, <1>7, <1>8, TypeOfStep
<1> QED
  BY <1>1, <1>3, <1>5, <1>6, <1>7, <1>9

LEMMA ChangeSettingsDoes ==
  ASSUME TurnsAssumption, TurnsTypeOK, ChangeSettings
  PROVE  TurnsTypeOK' /\ QuietStep /\ chat'.queue = chat.queue /\ spent'.starts = spent.starts
<1>1. chat \in Chat /\ Event /\ Resettle(chat) /\ provider' \in Providers /\ UNCHANGED <<task, raced, misfiled, began>>
  BY DEF ChangeSettings, TurnsTypeOK
<1>2. raced' \subseteq Cause /\ misfiled' \subseteq Turn /\ began' \in [Turn -> 0..MaxEvents]
  BY <1>1 DEF TurnsTypeOK
<1>3. chat'.queue = chat.queue
  BY <1>1, RetiredFields DEF Resettle
<1>4. TurnsTypeOK'
  BY <1>1, <1>2, Resettled, TypeOfStep
<1> QED
  BY <1>1, <1>3, <1>4, Resettled

LEMMA DisposeSessionDoes ==
  ASSUME TurnsAssumption, TurnsTypeOK, DisposeSession
  PROVE  /\ TurnsTypeOK' /\ QuietStep /\ UNCHANGED <<settings, task, raced>> /\ spent'.starts = spent.starts
         /\ chat' = Closed
         /\ \A b \in DOMAIN agents : agents'[b] = IF b \in LiveAgent THEN Shut(agents[b]) ELSE agents[b]
<1>1. /\ Event /\ chat' = Closed /\ UNCHANGED <<settings, provider, task, raced, misfiled, began>>
      /\ agents' = [b \in DOMAIN agents |-> IF b \in LiveAgent THEN Shut(agents[b]) ELSE agents[b]]
  BY DEF DisposeSession
<1>2. \A b \in DOMAIN agents : agents[b] \in Process /\ PumpAtWork(agents[b])
  BY TypedProcess
<1>3. \A b \in DOMAIN agents :
        LET n == IF b \in LiveAgent THEN Shut(agents[b]) ELSE agents[b]
        IN  n \in Process /\ PumpAtWork(n) /\ Quietly(agents[b], n)
  BY <1>2, ShutFields, QuietSelf, QuietFields
<1>4. PICK n \in Nat : n = Len(agents) /\ DOMAIN agents = 1..n
  BY DEF TurnsTypeOK
<1>5. agents' \in Seq(Process) /\ Len(agents') = n /\ DOMAIN agents' = 1..n
  BY <1>1, <1>3, <1>4
<1>6. (\A b \in DOMAIN agents' : PumpAtWork(agents'[b])) /\ QuietStep
  BY <1>1, <1>3, <1>4, <1>5 DEF QuietStep
<1>7. chat' \in Chat /\ chat'.agent = 0
  <2>1. Closed \in Chat /\ Closed.agent = 0
    BY DEF Closed, Chat, TurnsAssumption
  <2> QED
    BY <1>1, <2>1
<1>8. /\ spent' \in [starts : 0..MaxStarts, events : 0..MaxEvents] /\ spent'.starts = spent.starts
      /\ settings' \in 0..spent'.events
  <2>1. settings \in 0..spent.events /\ spent.events \in Nat
    BY DEF TurnsTypeOK, TurnsAssumption
  <2> QED
    BY <1>1, <2>1, EventType
<1>9. raced' \subseteq Cause /\ misfiled' \subseteq Turn /\ began' \in [Turn -> 0..MaxEvents] /\ provider' \in Providers
  BY <1>1 DEF TurnsTypeOK
<1>10. TurnsTypeOK'
  BY <1>1, <1>4, <1>5, <1>6, <1>7, <1>8, <1>9, TypeOfStep
<1> QED
  BY <1>1, <1>6, <1>8, <1>10

\* The input of a process is taken or put back, a word is written to it.
LEMMA StdinFields ==
  ASSUME NEW p \in Process, PumpAtWork(p), NEW x \in {"free", "taken"}
  PROVE  LET n == [p EXCEPT !.stdin = x]
         IN  /\ n \in Process /\ PumpAtWork(n) /\ Quietly(p, n)
             /\ n.of = p.of /\ n.with = p.with /\ n.over = p.over /\ n.turns = p.turns /\ n.pump = p.pump
             /\ n.inbox = p.inbox /\ n.out = p.out /\ n.run = p.run
<1> DEFINE n == [p EXCEPT !.stdin = x]
<1>1. /\ n \in Process /\ n.of = p.of /\ n.with = p.with /\ n.over = p.over /\ n.turns = p.turns /\ n.pump = p.pump
      /\ n.inbox = p.inbox /\ n.out = p.out /\ n.run = p.run
  BY DEF Process
<1> HIDE DEF n
<1>2. PumpAtWork(n)
  BY <1>1 DEF PumpAtWork
<1>3. Quietly(p, n)
  BY <1>1, QuietFields
<1> QED
  BY <1>1, <1>2, <1>3 DEF n

LEMMA SaysKeeps ==
  ASSUME NEW p \in Process, PumpAtWork(p), NEW w \in Line
  PROVE  /\ Says(p, w) \in Process /\ PumpAtWork(Says(p, w)) /\ Quietly(p, Says(p, w))
         /\ Says(p, w).of = p.of /\ Says(p, w).with = p.with /\ Says(p, w).over = p.over /\ Says(p, w).turns = p.turns
         /\ Says(p, w).pump = p.pump /\ Says(p, w).out = p.out /\ Says(p, w).run = p.run
         /\ Says(p, w).inbox = IF p.over THEN p.inbox ELSE Append(p.inbox, w)
<1> DEFINE i == IF p.over THEN p.inbox ELSE Append(p.inbox, w)
           n == Says(p, w)
<1>1. i \in Seq(Line) /\ n = [p EXCEPT !.inbox = i]
  BY SaysFields
<1> HIDE DEF n, i
<1>2. /\ n \in Process /\ n.of = p.of /\ n.with = p.with /\ n.over = p.over /\ n.turns = p.turns /\ n.pump = p.pump
      /\ n.inbox = i /\ n.out = p.out /\ n.run = p.run
  BY <1>1 DEF Process
<1>3. PumpAtWork(n)
  BY <1>2 DEF PumpAtWork
<1>4. Quietly(p, n)
  BY <1>2, QuietFields
<1> QED
  BY <1>2, <1>3, <1>4 DEF n, i

\* The turns of a process are replaced.
LEMMA TurnsReplaced ==
  ASSUME NEW p \in Process, PumpAtWork(p), NEW s \in Seq(Pended), Thins(p.turns, s)
  PROVE  LET n == [p EXCEPT !.turns = s]
         IN  /\ n \in Process /\ PumpAtWork(n) /\ Quietly(p, n)
             /\ n.of = p.of /\ n.with = p.with /\ n.over = p.over /\ n.turns = s /\ n.pump = p.pump
             /\ n.inbox = p.inbox /\ n.out = p.out /\ n.run = p.run
<1> DEFINE n == [p EXCEPT !.turns = s]
<1>1. /\ n \in Process /\ n.of = p.of /\ n.with = p.with /\ n.over = p.over /\ n.turns = s /\ n.pump = p.pump
      /\ n.inbox = p.inbox /\ n.out = p.out /\ n.run = p.run
  BY DEF Process
<1> HIDE DEF n
<1>2. PumpAtWork(n)
  BY <1>1 DEF PumpAtWork
<1>3. n.pump.pc = "apply" => p.pump.pc = "apply" /\ n.pump.turn = p.pump.turn
  BY <1>1
<1>4. Quietly(p, n)
  BY <1>1, <1>3 DEF Quietly
<1> QED
  BY <1>1, <1>2, <1>4 DEF n

\* What is taken back: the turn, wherever it is, or codex's front.
LEMMA TakenBackFields ==
  ASSUME NEW p \in Process, NEW t
  PROVE  LET s == TakenBack(p, t)
         IN  /\ s \in Seq(Pended) /\ Thins(p.turns, s)
             /\ p.of = "codex" => Beheads(p.turns, s)
             /\ p.of # "codex" => \A i \in DOMAIN s : s[i].id # t
<1>1. p.turns \in Seq(Pended)
  BY DEF Process
<1>2. CASE p.of = "codex"
  <2>1. TakenBack(p, t) = Popped(p.turns)
    BY <1>2 DEF TakenBack, Popped
  <2> QED
    BY <1>1, <1>2, <2>1, PoppedFields
<1>3. CASE p.of # "codex"
  <2> DEFINE P == {i \in DOMAIN p.turns : p.turns[i].id # t}
             s == Only(p.turns, P)
  <2>1. TakenBack(p, t) = s
    BY <1>3 DEF TakenBack
  <2>2. \A j \in P : p.turns[j].id # t
    OBVIOUS
  <2>3. s \in Seq(Pended) /\ Thins(p.turns, s) /\ \A i \in DOMAIN s : \E j \in DOMAIN p.turns : j \in P /\ s[i] = p.turns[j]
    <3> HIDE DEF P
    <3> QED
      BY <1>1, ThinsOnly
  <2> HIDE DEF P, s
  <2> QED
    BY <1>3, <2>1, <2>2, <2>3
<1> QED
  BY <1>2, <1>3

\* A lane that is at a process has it.
LEMMA LaneHasAgent ==
  ASSUME TurnsAssumption, TurnsTypeOK, NEW l \in Lanes, task[l].pc \in AtItsAgent
  PROVE  /\ AtWork(task[l], Len(agents)) /\ Len(agents) \in 0..MaxAgents /\ MaxAgents \in Nat
         /\ task[l].agent \in DOMAIN agents /\ chat \in Chat /\ task[l].turn \in Turn /\ task[l].turn # NoTurn
<1>1. AtWork(task[l], Len(agents)) /\ Len(agents) \in 0..MaxAgents /\ chat \in Chat /\ agents \in Seq(Process)
  BY TypedLane DEF TurnsTypeOK
<1>2. MaxAgents \in Nat
  BY DEF TurnsAssumption
<1>3. task[l].agent \in 0..MaxAgents /\ task[l].agent <= Len(agents) /\ task[l].agent # 0 /\ task[l].pc # "idle"
  BY <1>1 DEF AtWork, Doing, AtItsAgent
<1>4. task[l].agent \in DOMAIN agents
  BY <1>1, <1>2, <1>3
<1>5. task[l].turn \in Turn /\ task[l].turn # NoTurn
  BY <1>1, <1>3, Ids DEF AtWork, Doing
<1> QED
  BY <1>1, <1>2, <1>4, <1>5

LEMMA SendPromptDoes ==
  ASSUME TurnsAssumption, TurnsTypeOK, NEW l \in Lanes, SendPrompt(l)
  PROVE  /\ TurnsTypeOK' /\ QuietStep /\ LanesQuiet
         /\ \A k \in Lanes : k # l => task'[k] = task[k]
         /\ task[l].agent \in DOMAIN agents
<1> DEFINE a == task[l].agent
           p == agents[a]
           t == task[l].turn
           d == [task[l] EXCEPT !.pc = "write"]
<1>1. /\ AtWork(task[l], Len(agents)) /\ Len(agents) \in 0..MaxAgents /\ task[l].pc = "send" /\ a \in DOMAIN agents
      /\ chat \in Chat /\ MaxAgents \in Nat
  BY LaneHasAgent DEF SendPrompt, AtItsAgent
<1>2. UNCHANGED <<settings, provider, spent, misfiled, began>> /\ raced' \subseteq Cause
  BY DEF SendPrompt, TurnsTypeOK, Note, Cause
<1>3. p \in Process /\ PumpAtWork(p) /\ Len(agents) \in Nat
  BY <1>1, TypedProcess
<1>4. settings' \in 0..spent'.events /\ began' \in [Turn -> 0..MaxEvents]
  BY <1>2 DEF TurnsTypeOK
<1>5. CASE p.stdin = "free"
  <2> DEFINE n == [p EXCEPT !.stdin = "taken"]
  <2>1. agents' = [agents EXCEPT ![a] = n] /\ task' = [task EXCEPT ![l] = d] /\ chat' = chat
    BY <1>5 DEF SendPrompt, Goes
  <2>2. n \in Process /\ PumpAtWork(n) /\ Quietly(p, n)
    BY <1>3, StdinFields
  <2>3. AtWork(d, Len(agents)) /\ d.turn = task[l].turn /\ d.agent = task[l].agent /\ d.pc = "write"
    BY <1>1, <1>3, GoesFields DEF AtWork, AtItsAgent
  <2> HIDE DEF n, d
  <2>4. /\ agents' \in Seq(Process) /\ Len(agents') = Len(agents) /\ \A b \in DOMAIN agents' : PumpAtWork(agents'[b])
        /\ QuietStep
    BY <1>1, <2>1, <2>2, OneProcess
  <2>5. TurnsTypeOK'
    BY <1>1, <1>2, <1>4, <2>1, <2>3, <2>4, SameBudget, TypeOfLaneStep
  <2>6. LanesQuiet
    BY <1>1, <2>1, <2>3, LaneMovesQuietly DEF Sending
  <2>7. \A k \in Lanes : k # l => task'[k] = task[k]
    BY <2>1 DEF TurnsTypeOK
  <2> QED
    BY <1>1, <2>4, <2>5, <2>6, <2>7
<1>6. CASE p.stdin # "free"
  <2> DEFINE s == TakenBack(p, t)
             n == [p EXCEPT !.turns = s]
  <2>1. agents' = [agents EXCEPT ![a] = n] /\ task' = [task EXCEPT ![l] = Idle] /\ chat' = Ends(chat, t)
    BY <1>6 DEF SendPrompt, Done
  <2>2. s \in Seq(Pended) /\ Thins(p.turns, s)
    BY <1>3, TakenBackFields
  <2> HIDE DEF s
  <2>3. n \in Process /\ PumpAtWork(n) /\ Quietly(p, n)
    BY <1>3, <2>2, TurnsReplaced
  <2> HIDE DEF n
  <2>4. /\ agents' \in Seq(Process) /\ Len(agents') = Len(agents) /\ \A b \in DOMAIN agents' : PumpAtWork(agents'[b])
        /\ QuietStep
    BY <1>1, <2>1, <2>3, OneProcess
  <2>5. AtWork(Idle, Len(agents)) /\ Idle.pc = "idle"
    BY <1>3, IdleFields
  <2>6. chat' \in Chat /\ chat'.agent = chat.agent
    BY <1>1, <2>1, EndsFields
  <2>7. TurnsTypeOK'
    BY <1>1, <1>2, <1>4, <2>1, <2>4, <2>5, <2>6, SameBudget, TypeOfLaneStep
  <2>8. LanesQuiet
    BY <2>1, <2>5, LaneMovesQuietly DEF Starting, Sending
  <2>9. \A k \in Lanes : k # l => task'[k] = task[k]
    BY <2>1 DEF TurnsTypeOK
  <2> QED
    BY <1>1, <2>4, <2>7, <2>8, <2>9
<1> QED
  BY <1>5, <1>6

LEMMA PromptWrittenDoes ==
  ASSUME TurnsAssumption, TurnsTypeOK, NEW l \in Lanes, PromptWritten(l)
  PROVE  /\ TurnsTypeOK' /\ QuietStep /\ LanesQuiet
         /\ \A k \in Lanes : k # l => task'[k] = task[k]
         /\ task[l].agent \in DOMAIN agents
<1> DEFINE a == task[l].agent
           p == agents[a]
           t == task[l].turn
           m == [p EXCEPT !.stdin = "free"]
           s == TakenBack(m, t)
           n == IF p.over THEN [m EXCEPT !.turns = s] ELSE Says(m, Prompt(t))
<1>1. /\ AtWork(task[l], Len(agents)) /\ Len(agents) \in 0..MaxAgents /\ task[l].pc = "write" /\ a \in DOMAIN agents
      /\ chat \in Chat /\ MaxAgents \in Nat /\ t \in Turn
  BY LaneHasAgent DEF PromptWritten, AtItsAgent
<1>2. UNCHANGED <<settings, provider, spent, misfiled, began>> /\ raced' \subseteq Cause
  BY DEF PromptWritten, TurnFailed, TurnsTypeOK, Note, When, Cause
<1>3. p \in Process /\ PumpAtWork(p) /\ Len(agents) \in Nat
  BY <1>1, TypedProcess
<1>4. settings' \in 0..spent'.events /\ began' \in [Turn -> 0..MaxEvents]
  BY <1>2 DEF TurnsTypeOK
<1>5. m \in Process /\ PumpAtWork(m) /\ Quietly(p, m) /\ m.over = p.over /\ m.turns = p.turns /\ m.pump = p.pump /\ m.of = p.of /\ m.with = p.with
  BY <1>3, StdinFields
<1>6. /\ agents' = [agents EXCEPT ![a] = n] /\ task' = [task EXCEPT ![l] = Idle]
      /\ chat' = IF p.over THEN Ends(chat, t) ELSE chat
  BY <1>5 DEF PromptWritten, TurnFailed, Done
<1> HIDE DEF m
<1>7. n \in Process /\ PumpAtWork(n) /\ Quietly(m, n)
  <2>1. CASE p.over
    <3>1. s \in Seq(Pended) /\ Thins(m.turns, s)
      BY <1>5, TakenBackFields
    <3> HIDE DEF s
    <3> QED
      BY <1>5, <2>1, <3>1, TurnsReplaced
  <2>2. CASE ~p.over
    <3>1. Prompt(t) \in Line
      BY <1>1 DEF Prompt, Line
    <3> QED
      BY <1>5, <2>2, <3>1, SaysKeeps
  <2> QED
    BY <2>1, <2>2
<1> HIDE DEF n
<1>8. Quietly(p, n)
  BY <1>5, <1>7 DEF Quietly
<1>9. /\ agents' \in Seq(Process) /\ Len(agents') = Len(agents) /\ \A b \in DOMAIN agents' : PumpAtWork(agents'[b])
      /\ QuietStep
  BY <1>1, <1>6, <1>7, <1>8, OneProcess
<1>10. AtWork(Idle, Len(agents)) /\ Idle.pc = "idle"
  BY <1>3, IdleFields
<1>11. chat' \in Chat /\ chat'.agent = chat.agent
  BY <1>1, <1>6, EndsFields
<1>12. TurnsTypeOK'
  BY <1>1, <1>2, <1>4, <1>6, <1>9, <1>10, <1>11, SameBudget, TypeOfLaneStep
<1>13. LanesQuiet
  BY <1>6, <1>10, LaneMovesQuietly DEF Starting, Sending
<1>14. \A k \in Lanes : k # l => task'[k] = task[k]
  BY <1>6 DEF TurnsTypeOK
<1> QED
  BY <1>1, <1>9, <1>12, <1>13, <1>14

\* A turn is marked, or a held one leaves.
Unmarks(i, old, new) == \E e : ThinsBy(e, old, new) /\ \A j \in BusyTurns(new) : e[j] # i

LEMMA MarkedFields ==
  ASSUME NEW p \in Process, PumpAtWork(p), NEW i \in DOMAIN p.turns
  PROVE  LET n == Marked(p, i)
         IN  /\ n \in Process /\ PumpAtWork(n) /\ Quietly(p, n) /\ Unmarks(i, p.turns, n.turns)
             /\ n.of = p.of /\ n.with = p.with /\ n.over = p.over /\ n.pump = p.pump
<1>1. p.turns \in Seq(Pended) /\ p.turns[i] \in Pended /\ i \in Nat
  <2>1. p.turns \in Seq(Pended)
    BY DEF Process
  <2> QED
    BY <2>1
<1>2. PICK s \in Seq(Pended) : Marked(p, i) = [p EXCEPT !.turns = s] /\ Thins(p.turns, s) /\ Unmarks(i, p.turns, s)
  <2>1. CASE p.of = "codex" /\ i # 1
    <3> DEFINE P == DOMAIN p.turns \ {i}
               s == Only(p.turns, P)
    <3>1. Marked(p, i) = [p EXCEPT !.turns = s]
      BY <2>1 DEF Marked
    <3>2. PICK q : q = s
      OBVIOUS
    <3>3. q \in Seq(Pended) /\ \E e : Picks(q, p.turns, P, Len(p.turns), e)
      <4> HIDE DEF P
      <4> QED
        BY <1>1, <3>2, OnlyPicks
    <3>4. PICK e : Picks(q, p.turns, P, Len(p.turns), e)
      BY <3>3
    <3>5. DOMAIN q = 1..Len(q) /\ DOMAIN p.turns = 1..Len(p.turns)
      BY <1>1, <3>3
    <3>6. ThinsBy(e, p.turns, q) /\ \A j \in DOMAIN q : e[j] # i
      BY <1>1, <3>4, <3>5 DEF ThinsBy, Picks
    <3>7. Thins(p.turns, q) /\ Unmarks(i, p.turns, q)
      BY <3>6 DEF Thins, Unmarks, BusyTurns
    <3> QED
      BY <3>1, <3>2, <3>3, <3>7
  <2>2. CASE ~(p.of = "codex" /\ i # 1)
    <3> DEFINE x == [p.turns[i] EXCEPT !.cancelled = TRUE,
                       !.told = p.turns[i].told \/ (p.of = "claude" /\ i = 1) \/ p.turns[i].bound # NoTurn]
               s == [p.turns EXCEPT ![i] = x]
               e == [j \in DOMAIN p.turns |-> j]
    <3>1. Marked(p, i) = [p EXCEPT !.turns = s]
      BY <2>2 DEF Marked
    <3>2. x \in Pended /\ x.id = p.turns[i].id /\ x.cancelled
      BY <1>1 DEF Pended
    <3> HIDE DEF x
    <3>3. /\ s \in Seq(Pended) /\ DOMAIN s = DOMAIN p.turns /\ s[i] = x
          /\ \A j \in DOMAIN p.turns : j # i => s[j] = p.turns[j]
      BY <1>1, <3>2
    <3>4. e \in [DOMAIN s -> DOMAIN p.turns] /\ \A j \in DOMAIN s : e[j] = j
      BY <3>3
    <3> HIDE DEF s, e
    <3>5. DOMAIN s \subseteq Nat
      BY <3>3
    <3>6. ThinsBy(e, p.turns, s)
      BY <3>2, <3>3, <3>4, <3>5 DEF ThinsBy
    <3>7. \A j \in BusyTurns(s) : e[j] # i
      BY <3>2, <3>3, <3>4 DEF BusyTurns
    <3> QED
      BY <3>1, <3>3, <3>6, <3>7 DEF Thins, Unmarks
  <2> QED
    BY <2>1, <2>2
<1> DEFINE n == [p EXCEPT !.turns = s]
<1>3. /\ n \in Process /\ PumpAtWork(n) /\ Quietly(p, n) /\ n.turns = s
      /\ n.of = p.of /\ n.with = p.with /\ n.over = p.over /\ n.pump = p.pump
  BY <1>2, TurnsReplaced
<1> HIDE DEF n
<1> QED
  BY <1>2, <1>3 DEF n

\* The turn is found at the chat's agent, or it is not.
LEMMA MarkTurnDoes ==
  ASSUME TurnsAssumption, TurnsTypeOK, NEW l \in Lanes, MarkTurn(l)
  PROVE  /\ TurnsTypeOK' /\ QuietStep /\ LanesQuiet
         /\ \A k \in Lanes : k # l => task'[k] = task[k]
         /\ task'[l].pc \notin {"ensure", "spawn", "push", "mark"}
         /\ UNCHANGED <<chat, spent, settings>>
         /\ \/ /\ chat.agent \in DOMAIN agents
               /\ \E i \in Position(agents[chat.agent].turns, task[l].turn) :
                    Unmarks(i, agents[chat.agent].turns, agents'[chat.agent].turns)
            \/ /\ agents' = agents /\ \A a \in LiveAgent : Position(agents[a].turns, task[l].turn) = {}
               /\ Note(When(\E k \in Lanes : k # l /\ task[k].turn = task[l].turn, "early"))
<1> DEFINE t == task[l].turn
           found == \E a \in LiveAgent : Position(agents[a].turns, t) # {}
<1>1. /\ AtWork(task[l], Len(agents)) /\ Len(agents) \in Nat /\ task[l].pc = "mark" /\ chat \in Chat
      /\ UNCHANGED <<chat, settings, provider, spent, misfiled, began>>
  BY TypedLane DEF MarkTurn, TurnsTypeOK
<1>2. settings' \in 0..spent'.events /\ began' \in [Turn -> 0..MaxEvents]
  BY <1>1 DEF TurnsTypeOK
<1>3. AtWork(Idle, Len(agents)) /\ Idle.pc = "idle"
  BY <1>1, IdleFields
<1>4. chat' \in Chat /\ chat'.agent \in {chat.agent, 0}
  BY <1>1
<1>5. CASE found
  <2> DEFINE a == chat.agent
             p == agents[a]
             i == CHOOSE i \in Position(p.turns, t) : TRUE
             n == Marked(p, i)
             d == IF TellsNow(p, i) THEN [task[l] EXCEPT !.pc = "tell", !.agent = a] ELSE Idle
  <2>1. a \in DOMAIN agents /\ Position(p.turns, t) # {} /\ a # 0
    <3>1. a # 0 /\ Position(p.turns, t) # {}
      BY <1>5 DEF LiveAgent
    <3>2. a \in 0..MaxAgents /\ a <= Len(agents) /\ agents \in Seq(Process) /\ MaxAgents \in Nat
      BY DEF TurnsTypeOK, Chat, TurnsAssumption
    <3> QED
      BY <3>1, <3>2
  <2>2. i \in Position(p.turns, t)
    BY <2>1
  <2>3. i \in DOMAIN p.turns
    BY <2>2 DEF Position
  <2>4. agents' = [agents EXCEPT ![a] = n] /\ task' = [task EXCEPT ![l] = d] /\ raced' = raced
    BY <1>5 DEF MarkTurn
  <2> HIDE DEF i
  <2>5. p \in Process /\ PumpAtWork(p)
    BY <2>1, TypedProcess
  <2>6. n \in Process /\ PumpAtWork(n) /\ Quietly(p, n) /\ Unmarks(i, p.turns, n.turns)
    BY <2>3, <2>5, MarkedFields
  <2>7. AtWork(d, Len(agents)) /\ d.pc \in {"idle", "tell"}
    <3>1. CASE TellsNow(p, i)
      <4> DEFINE e == [task[l] EXCEPT !.pc = "tell", !.agent = a]
      <4>1. d = e
        BY <3>1
      <4>2. e \in Doing /\ e.pc = "tell" /\ e.agent = a /\ e.turn = task[l].turn
        BY <1>1 DEF AtWork, Doing, Chat
      <4> HIDE DEF d, e
      <4>3. a <= Len(agents)
        BY DEF TurnsTypeOK
      <4> QED
        BY <1>1, <2>1, <4>1, <4>2, <4>3 DEF AtWork
    <3>2. CASE ~TellsNow(p, i)
      BY <1>3, <3>2
    <3> QED
      BY <3>1, <3>2
  <2> HIDE DEF n, d
  <2>8. /\ agents' \in Seq(Process) /\ Len(agents') = Len(agents) /\ \A b \in DOMAIN agents' : PumpAtWork(agents'[b])
        /\ QuietStep /\ agents'[a] = n
    BY <2>1, <2>4, <2>6, OneProcess, ChangesOne DEF TurnsTypeOK
  <2>9. raced' \subseteq Cause
    BY <2>4 DEF TurnsTypeOK
  <2>10. TurnsTypeOK'
    BY <1>1, <1>2, <1>4, <2>4, <2>7, <2>8, <2>9, SameBudget, TypeOfLaneStep
  <2>11. LanesQuiet
    BY <2>4, <2>7, LaneMovesQuietly DEF Starting, Sending
  <2>12. task'[l] = d /\ \A k \in Lanes : k # l => task'[k] = task[k]
    BY <2>4 DEF TurnsTypeOK
  <2> QED
    BY <1>1, <2>1, <2>2, <2>6, <2>7, <2>8, <2>10, <2>11, <2>12
<1>6. CASE ~found
  <2>1. /\ agents' = agents /\ task' = [task EXCEPT ![l] = Idle]
        /\ Note(When(\E k \in Lanes : k # l /\ task[k].turn = t, "early"))
    BY <1>6 DEF MarkTurn, Done
  <2>2. raced' \subseteq Cause
    BY <2>1 DEF TurnsTypeOK, Note, When, Cause
  <2>3. TurnsTypeOK' /\ QuietStep /\ task'[l] = Idle /\ \A k \in Lanes : k # l => task'[k] = task[k]
    BY <1>1, <1>3, <1>4, <2>1, <2>2, SameBudget, TypeOfLaneAlone
  <2>4. LanesQuiet
    BY <1>3, <2>1, LaneMovesQuietly DEF Starting, Sending
  <2> QED
    BY <1>1, <1>3, <1>6, <2>1, <2>3, <2>4
<1> QED
  BY <1>5, <1>6

LEMMA TellInterruptDoes ==
  ASSUME TurnsAssumption, TurnsTypeOK, NEW l \in Lanes, TellInterrupt(l)
  PROVE  TurnsTypeOK' /\ QuietStep /\ LanesQuiet /\ \A k \in Lanes : k # l => task'[k] = task[k]
<1> DEFINE a == task[l].agent
           p == agents[a]
           d == [task[l] EXCEPT !.pc = "telling"]
           n == [p EXCEPT !.stdin = "taken"]
<1>1. /\ AtWork(task[l], Len(agents)) /\ Len(agents) \in 0..MaxAgents /\ task[l].pc = "tell" /\ a \in DOMAIN agents
      /\ chat \in Chat /\ a # 0
  BY LaneHasAgent DEF TellInterrupt, AtItsAgent, AtWork
<1>2. UNCHANGED <<chat, settings, provider, spent, misfiled, began>> /\ raced' \subseteq Cause
  BY DEF TellInterrupt, TurnsTypeOK, Note, When, Cause
<1>3. p \in Process /\ PumpAtWork(p) /\ Len(agents) \in Nat
  BY <1>1, TypedProcess
<1>4. settings' \in 0..spent'.events /\ began' \in [Turn -> 0..MaxEvents]
  BY <1>2 DEF TurnsTypeOK
<1>5. AtWork(Idle, Len(agents)) /\ Idle.pc = "idle"
  BY <1>3, IdleFields
<1>6. AtWork(d, Len(agents)) /\ d.pc = "telling"
  BY <1>1, <1>3, GoesFields
<1>7. chat' \in Chat /\ chat'.agent \in {chat.agent, 0}
  BY <1>1, <1>2
<1> HIDE DEF d
<1>8. CASE agents' = [agents EXCEPT ![a] = n] /\ task' = [task EXCEPT ![l] = d]
  <2>1. n \in Process /\ PumpAtWork(n) /\ Quietly(p, n)
    BY <1>3, StdinFields
  <2> HIDE DEF n
  <2>2. /\ agents' \in Seq(Process) /\ Len(agents') = Len(agents) /\ \A b \in DOMAIN agents' : PumpAtWork(agents'[b])
        /\ QuietStep
    BY <1>1, <1>8, <2>1, OneProcess
  <2>3. TurnsTypeOK'
    BY <1>2, <1>4, <1>6, <1>7, <1>8, <2>2, SameBudget, TypeOfLaneStep
  <2>4. LanesQuiet
    BY <1>6, <1>8, LaneMovesQuietly DEF Starting, Sending
  <2>5. \A k \in Lanes : k # l => task'[k] = task[k]
    BY <1>8 DEF TurnsTypeOK
  <2> QED
    BY <2>2, <2>3, <2>4, <2>5
<1>9. CASE agents' = agents /\ task' = [task EXCEPT ![l] = Idle]
  <2>1. TurnsTypeOK' /\ QuietStep /\ \A k \in Lanes : k # l => task'[k] = task[k]
    BY <1>2, <1>5, <1>7, <1>9, SameBudget, TypeOfLaneAlone
  <2>2. LanesQuiet
    BY <1>5, <1>9, LaneMovesQuietly DEF Starting, Sending
  <2> QED
    BY <2>1, <2>2
<1> QED
  BY <1>8, <1>9 DEF TellInterrupt, Goes, Done, d

LEMMA InterruptToldDoes ==
  ASSUME TurnsAssumption, TurnsTypeOK, NEW l \in Lanes, InterruptTold(l)
  PROVE  TurnsTypeOK' /\ QuietStep /\ LanesQuiet /\ \A k \in Lanes : k # l => task'[k] = task[k]
<1> DEFINE a == task[l].agent
           t == task[l].turn
           p == agents[a]
           m == [p EXCEPT !.stdin = "free"]
           n == Says(m, Interrupt(t))
<1>1. /\ AtWork(task[l], Len(agents)) /\ Len(agents) \in 0..MaxAgents /\ task[l].pc = "telling" /\ a \in DOMAIN agents
      /\ chat \in Chat /\ t \in Turn
  BY LaneHasAgent DEF InterruptTold, AtItsAgent
<1>2. UNCHANGED <<chat, settings, provider, spent, misfiled, began>> /\ raced' \subseteq Cause
  BY DEF InterruptTold, TurnsTypeOK, Note, When, Cause
<1>3. p \in Process /\ PumpAtWork(p) /\ Len(agents) \in Nat
  BY <1>1, TypedProcess
<1>4. settings' \in 0..spent'.events /\ began' \in [Turn -> 0..MaxEvents]
  BY <1>2 DEF TurnsTypeOK
<1>5. AtWork(Idle, Len(agents)) /\ Idle.pc = "idle"
  BY <1>3, IdleFields
<1>6. chat' \in Chat /\ chat'.agent \in {chat.agent, 0}
  BY <1>1, <1>2
<1>7. agents' = [agents EXCEPT ![a] = n] /\ task' = [task EXCEPT ![l] = Idle]
  BY DEF InterruptTold, Done
<1>8. m \in Process /\ PumpAtWork(m) /\ Quietly(p, m) /\ m.over = p.over /\ m.turns = p.turns /\ m.pump = p.pump /\ m.of = p.of /\ m.with = p.with
  BY <1>3, StdinFields
<1>9. Interrupt(t) \in Line
  BY <1>1 DEF Interrupt, Line
<1> HIDE DEF m
<1>10. n \in Process /\ PumpAtWork(n) /\ Quietly(m, n)
  BY <1>8, <1>9, SaysKeeps
<1> HIDE DEF n
<1>11. Quietly(p, n)
  BY <1>8, <1>10 DEF Quietly
<1>12. /\ agents' \in Seq(Process) /\ Len(agents') = Len(agents) /\ \A b \in DOMAIN agents' : PumpAtWork(agents'[b])
       /\ QuietStep
  BY <1>1, <1>7, <1>10, <1>11, OneProcess
<1>13. TurnsTypeOK'
  BY <1>2, <1>4, <1>5, <1>6, <1>7, <1>12, SameBudget, TypeOfLaneStep
<1>14. LanesQuiet
  BY <1>5, <1>7, LaneMovesQuietly DEF Starting, Sending
<1>15. \A k \in Lanes : k # l => task'[k] = task[k]
  BY <1>7 DEF TurnsTypeOK
<1> QED
  BY <1>12, <1>13, <1>14, <1>15

\* A lane's step that changes one process's turns by adding to them.
LEMMA PushTurnDoes ==
  ASSUME TurnsAssumption, TurnsTypeOK, NEW l \in Lanes, PushTurn(l)
  PROVE  /\ TurnsTypeOK' /\ task[l].pc = "push" /\ UNCHANGED <<settings, spent>>
         /\ \A k \in Lanes : k # l => task'[k] = task[k]
         /\ \/ /\ agents' = agents /\ TurnFailed(l) /\ QuietStep
            \/ \E a \in DOMAIN agents, held \in BOOLEAN :
                 /\ a = task[l].agent /\ chat' = chat /\ raced \subseteq raced' /\ DOMAIN agents' = DOMAIN agents
                 /\ ~Refuses(agents[a])
                 /\ held <=> agents[a].of = "codex" /\ agents[a].turns # <<>>
                 /\ agents'[a] = [agents[a] EXCEPT !.turns = Append(agents[a].turns, Pending(task[l].turn, held))]
                 /\ \A b \in DOMAIN agents : b # a => agents'[b] = agents[b]
                 /\ IF held THEN task'[l] = Idle
                    ELSE /\ task'[l].pc = "send" /\ task'[l].turn = task[l].turn /\ task'[l].agent = task[l].agent
<1> DEFINE a == task[l].agent
           t == task[l].turn
           p == agents[a]
           held == p.of = "codex" /\ p.turns # <<>>
           x == Pending(t, held)
           s == Append(p.turns, x)
           n == [p EXCEPT !.turns = s]
           d == IF held THEN Idle ELSE [task[l] EXCEPT !.pc = "send"]
<1>1. /\ AtWork(task[l], Len(agents)) /\ Len(agents) \in 0..MaxAgents /\ task[l].pc = "push" /\ a \in DOMAIN agents
      /\ chat \in Chat /\ t \in Turn /\ a # 0
  BY LaneHasAgent DEF PushTurn, AtItsAgent, AtWork
<1>2. UNCHANGED <<settings, provider, spent, misfiled, began>> /\ raced' \subseteq Cause
  BY DEF PushTurn, TurnFailed, TurnsTypeOK, Note, When, Cause
<1>3. p \in Process /\ PumpAtWork(p) /\ Len(agents) \in Nat /\ p.turns \in Seq(Pended) /\ agents \in Seq(Process)
  BY <1>1, TypedProcess DEF TurnsTypeOK
<1>4. settings' \in 0..spent'.events /\ began' \in [Turn -> 0..MaxEvents]
  BY <1>2 DEF TurnsTypeOK
<1>5. AtWork(Idle, Len(agents)) /\ Idle.pc = "idle"
  BY <1>3, IdleFields
<1>6. CASE Refuses(p)
  <2>1. agents' = agents /\ TurnFailed(l)
    BY <1>6 DEF PushTurn
  <2>2. TurnsTypeOK' /\ QuietStep /\ \A k \in Lanes : k # l => task'[k] = task[k]
    BY <1>2, <1>5, <2>1, TurnFailedDoes, SameBudget, TypeOfLaneAlone
  <2> QED
    BY <1>1, <1>2, <2>1, <2>2
<1>7. CASE ~Refuses(p)
  <2>1. agents' = [agents EXCEPT ![a] = n]
    BY <1>7 DEF PushTurn
  <2>2. task' = [task EXCEPT ![l] = d] /\ chat' = chat /\ raced \subseteq raced'
    BY <1>7 DEF PushTurn, Done, Goes, Note
  <2>3. x \in Pended
    BY <1>1, Ids DEF Pending, Pended
  <2> HIDE DEF x
  <2>4. s \in Seq(Pended)
    BY <1>3, <2>3, AppendHas
  <2> HIDE DEF s
  <2>5. /\ n \in Process /\ n.of = p.of /\ n.pump = p.pump /\ n.run = p.run /\ n.out = p.out
    BY <1>3, <2>4 DEF Process
  <2>6. PumpAtWork(n)
    BY <1>3, <2>5 DEF PumpAtWork
  <2>7. AtWork(d, Len(agents)) /\ IF held THEN d = Idle ELSE d.pc = "send" /\ d.turn = t /\ d.agent = a
    <3>1. CASE held
      BY <1>5, <3>1
    <3>2. CASE ~held
      BY <1>1, <1>3, <3>2, GoesFields
    <3> QED
      BY <3>1, <3>2
  <2> HIDE DEF n, d
  <2>8. /\ agents' \in Seq(Process) /\ Len(agents') = Len(agents) /\ \A b \in DOMAIN agents' : PumpAtWork(agents'[b])
        /\ DOMAIN agents' = DOMAIN agents /\ agents'[a] = n /\ \A b \in DOMAIN agents : b # a => agents'[b] = agents[b]
    BY <1>1, <1>3, <2>1, <2>5, <2>6, TypedOne, ChangesOne
  <2>9. TurnsTypeOK'
    BY <1>1, <1>2, <1>4, <2>2, <2>7, <2>8, SameBudget, TypeOfLaneStep
  <2>10. task'[l] = d /\ \A k \in Lanes : k # l => task'[k] = task[k]
    BY <2>2 DEF TurnsTypeOK
  <2>11. n = [agents[a] EXCEPT !.turns = Append(agents[a].turns, Pending(task[l].turn, held))]
    BY DEF n, s, x
  <2>12. held \in BOOLEAN
    OBVIOUS
  <2> QED
    BY <1>1, <1>2, <1>7, <2>2, <2>7, <2>8, <2>9, <2>10, <2>11, <2>12
<1> QED
  BY <1>6, <1>7

\* What a process is when it comes up.
LEMMA SpawnedFields ==
  ASSUME TurnsAssumption, NEW with \in 0..MaxEvents, NEW of \in Providers
  PROVE  LET n == Spawned(with, of)
         IN  /\ n \in Process /\ PumpAtWork(n) /\ n.turns = <<>> /\ n.pump = Rest /\ Rest.pc = "rest"
             /\ n.with = with /\ ~n.over /\ n.of = of /\ n.inbox = <<>> /\ n.out = <<>> /\ n.run = {}
<1>1. Rest \in Pumping /\ Rest.pc = "rest"
  BY DEF Rest, Pumping
<1>2. <<>> \in Seq(Pended) /\ <<>> \in Seq(Line) /\ <<>> \in Seq(Answer) /\ DOMAIN <<>> = {}
  OBVIOUS
<1> DEFINE n == Spawned(with, of)
<1>3. /\ n \in Process /\ n.turns = <<>> /\ n.pump = Rest /\ n.with = with /\ ~n.over /\ n.of = of
      /\ n.inbox = <<>> /\ n.out = <<>> /\ n.run = {}
  BY <1>1, <1>2 DEF Spawned, Process
<1> HIDE DEF n
<1>4. PumpAtWork(n)
  BY <1>1, <1>2, <1>3 DEF PumpAtWork
<1> QED
  BY <1>1, <1>3, <1>4 DEF n

LEMMA SpawnAgentDoes ==
  ASSUME TurnsAssumption, TurnsTypeOK, NEW l \in Lanes, SpawnAgent(l)
  PROVE  /\ TurnsTypeOK' /\ LanesQuiet /\ UNCHANGED <<settings, spent>>
         /\ \A k \in Lanes : k # l => task'[k] = task[k]
         /\ \E m \in Nat : /\ m = Len(agents) + 1 /\ DOMAIN agents' = DOMAIN agents \cup {m} /\ m \notin DOMAIN agents
                           /\ agents'[m] = Spawned(task[l].with, task[l].of)
                           /\ \A b \in DOMAIN agents : agents'[b] = agents[b]
                           /\ IF chat.open THEN /\ chat' = [chat EXCEPT !.agent = m]
                                                /\ task'[l].pc = "push" /\ task'[l].turn = task[l].turn
                              ELSE chat' = chat /\ task'[l] = Idle /\ "disposed" \in raced'
<1> DEFINE n == Spawned(task[l].with, task[l].of)
<1>1. /\ AtWork(task[l], Len(agents)) /\ task[l] \in Doing /\ task[l].pc = "spawn" /\ chat \in Chat
      /\ agents \in Seq(Process) /\ task[l].of \in Providers /\ task[l].with \in 0..MaxEvents
  BY TypedLane DEF SpawnAgent, TurnsTypeOK, AtWork, Doing
<1>2. PICK k \in Nat : k = Len(agents) /\ DOMAIN agents = 1..k
  BY <1>1
<1>3. MaxAgents \in Nat /\ k < MaxAgents /\ k + 1 \in 0..MaxAgents /\ chat.agent \in 0..MaxAgents /\ chat.agent <= k
  <2>1. MaxAgents \in Nat /\ k < MaxAgents
    BY <1>2 DEF TurnsAssumption, SpawnAgent
  <2>2. chat.agent \in 0..MaxAgents /\ chat.agent <= k
    BY <1>1, <1>2 DEF Chat, TurnsTypeOK
  <2> QED
    BY <2>1, <2>2
<1>4. n \in Process /\ PumpAtWork(n) /\ n.turns = <<>> /\ n.pump = Rest
  <2>1. PICK with \in 0..MaxEvents, of \in Providers : with = task[l].with /\ of = task[l].of
    BY <1>1
  <2>2. Spawned(with, of) \in Process /\ PumpAtWork(Spawned(with, of)) /\ Spawned(with, of).turns = <<>> /\ Spawned(with, of).pump = Rest
    BY SpawnedFields
  <2> QED
    BY <2>1, <2>2
<1>5. agents' = Append(agents, n) /\ UNCHANGED <<settings, provider, spent, misfiled, began>>
  BY DEF SpawnAgent
<1>6. raced' \subseteq Cause
  BY DEF SpawnAgent, TurnsTypeOK, Note, When, Cause
<1> HIDE DEF n
<1>7. /\ agents' \in Seq(Process) /\ Len(agents') = k + 1 /\ DOMAIN agents' = 1..(k + 1)
      /\ agents'[k + 1] = n /\ \A b \in 1..k : agents'[b] = agents[b]
  BY <1>1, <1>2, <1>4, <1>5
<1>8. \A b \in DOMAIN agents' : PumpAtWork(agents'[b])
  <2>1. \A b \in 1..k : PumpAtWork(agents[b])
    BY <1>2 DEF TurnsTypeOK
  <2>2. \A b \in 1..(k + 1) : b = k + 1 \/ b \in 1..k
    OBVIOUS
  <2> QED
    BY <1>4, <1>7, <2>1, <2>2
<1> DEFINE d == IF chat.open THEN [task[l] EXCEPT !.pc = "push", !.agent = k + 1] ELSE Idle
<1>9. task' = [task EXCEPT ![l] = d] /\ chat' = IF chat.open THEN [chat EXCEPT !.agent = k + 1] ELSE chat
  BY <1>7 DEF SpawnAgent, Done
<1>10. ~chat.open => "disposed" \in raced'
  BY DEF SpawnAgent, Note
<1>11. /\ AtWork(d, k + 1)
       /\ IF chat.open THEN d.pc = "push" /\ d.turn = task[l].turn ELSE d = Idle
  <2>1. CASE chat.open
    <3> DEFINE e == [task[l] EXCEPT !.pc = "push", !.agent = k + 1]
    <3>1. d = e
      BY <2>1
    <3>2. e \in Doing /\ e.pc = "push" /\ e.turn = task[l].turn /\ e.agent = k + 1
      BY <1>1, <1>3 DEF Doing
    <3> HIDE DEF d, e
    <3> QED
      BY <1>1, <2>1, <3>1, <3>2 DEF AtWork
  <2>2. CASE ~chat.open
    BY <2>2, IdleFields
  <2> QED
    BY <2>1, <2>2
<1> HIDE DEF d
<1>12. /\ task' \in [Lanes -> Doing] /\ LanesAreAtWork'
       /\ task'[l] = d /\ \A j \in Lanes : j # l => task'[j] = task[j]
  <2>1. Len(agents') >= Len(agents) /\ AtWork(d, Len(agents'))
    BY <1>2, <1>7, <1>11
  <2> QED
    BY <1>7, <1>9, <2>1, LaneMoves
<1>13. LanesQuiet
  BY <1>1, <1>9, <1>11, LaneMovesQuietly DEF Starting, Sending, Idle
<1>14. chat' \in Chat /\ chat'.agent <= Len(agents') /\ Len(agents') <= MaxAgents
  <2>1. chat' \in Chat /\ chat'.agent \in {chat.agent, k + 1}
    BY <1>1, <1>3, <1>9 DEF Chat
  <2> QED
    BY <1>3, <1>7, <2>1
<1>15. TurnsTypeOK'
  BY <1>5, <1>6, <1>7, <1>8, <1>12, <1>14 DEF TurnsTypeOK, PumpAtWork
<1>16. DOMAIN agents' = DOMAIN agents \cup {k + 1} /\ k + 1 \notin DOMAIN agents
  BY <1>2, <1>7
<1> QED
  BY <1>2, <1>5, <1>7, <1>9, <1>10, <1>11, <1>12, <1>13, <1>15, <1>16 DEF n

\* A run of the process's own is adopted, or passed over.
LEMMA AdoptWakeTurnDoes ==
  ASSUME TurnsAssumption, TurnsTypeOK, NEW a \in DOMAIN agents, AdoptWakeTurn(a)
  PROVE  /\ TurnsTypeOK' /\ UNCHANGED <<settings, task, spent>> /\ DOMAIN agents' = DOMAIN agents
         /\ \A b \in DOMAIN agents : b # a => agents'[b] = agents[b]
         /\ agents[a].pump.pc = "rest" /\ agents[a].of = "claude"
         /\ \/ /\ QuietStep /\ chat' = chat /\ raced' = raced /\ agents'[a].turns = agents[a].turns
            \/ /\ agents[a].turns = <<>>
               /\ agents'[a] = [agents[a] EXCEPT !.out = Tail(@), !.turns = <<Pending(Woken(a), FALSE)>>]
               /\ chat' = Starts(chat, Woken(a)) /\ Note(When(chat.active # NoTurn, "orphaned"))
<1> DEFINE p == agents[a]
<1>1. /\ p \in Process /\ PumpAtWork(p) /\ p.out \in Seq(Answer) /\ p.out # <<>> /\ p.of = "claude" /\ p.pump.pc = "rest"
      /\ chat \in Chat
  BY TypedProcess DEF AdoptWakeTurn, Hears, TurnsTypeOK
<1>2. Tail(p.out) \in Seq(Answer) /\ \A i \in DOMAIN Tail(p.out) : i + 1 \in DOMAIN p.out /\ Tail(p.out)[i] = p.out[i + 1]
  BY <1>1, TailHas
<1>3. UNCHANGED <<settings, provider, task, spent, misfiled, began>>
  BY DEF AdoptWakeTurn
<1>4. CASE p.turns # <<>>
  <2> DEFINE n == [p EXCEPT !.out = Tail(@)]
  <2>1. agents' = [agents EXCEPT ![a] = n] /\ UNCHANGED <<chat, raced>>
    BY <1>4 DEF AdoptWakeTurn, Taken
  <2>2. /\ n \in Process /\ n.of = p.of /\ n.with = p.with /\ n.over = p.over /\ n.turns = p.turns /\ n.pump = p.pump
        /\ n.out = Tail(p.out) /\ n.run = p.run
    BY <1>1, <1>2 DEF Process
  <2> HIDE DEF n
  <2>3. PumpAtWork(n)
    BY <1>1, <2>2 DEF PumpAtWork
  <2>4. QuietStep
    BY <1>1, <2>1, <2>2, QuietFields, QuietOne
  <2>5. DOMAIN agents' = DOMAIN agents /\ agents'[a] = n /\ \A b \in DOMAIN agents : b # a => agents'[b] = agents[b]
    BY <2>1, <2>2, ChangesOne DEF TurnsTypeOK
  <2>6. agents'[a].turns = agents[a].turns
    BY <2>2, <2>5
  <2> HIDE DEF p
  <2>7. TurnsTypeOK'
    BY <1>3, <2>1, <2>2, <2>3, SameBudget, TypeOfAgentStep DEF TurnsTypeOK
  <2> QED
    BY <1>1, <1>3, <2>1, <2>4, <2>5, <2>6, <2>7 DEF p
<1>5. CASE p.turns = <<>>
  <2> DEFINE s == <<Pending(Woken(a), FALSE)>>
             n == [p EXCEPT !.out = Tail(@), !.turns = s]
  <2>1. /\ agents' = [agents EXCEPT ![a] = n] /\ chat' = Starts(chat, Woken(a)) /\ Note(When(chat.active # NoTurn, "orphaned"))
    BY <1>5 DEF AdoptWakeTurn, Taken
  <2>2. a \in 1..MaxAgents
    BY DEF TurnsTypeOK, TurnsAssumption
  <2>3. Woken(a) \in Turn
    BY <2>2, Ids
  <2>4. s \in Seq(Pended)
    BY <2>3 DEF Pending, Pended
  <2> HIDE DEF s
  <2>5. /\ n \in Process /\ n.of = p.of /\ n.with = p.with /\ n.over = p.over /\ n.turns = s /\ n.pump = p.pump
        /\ n.out = Tail(p.out) /\ n.run = p.run
    BY <1>1, <1>2, <2>4 DEF Process
  <2>6. n = [agents[a] EXCEPT !.out = Tail(@), !.turns = <<Pending(Woken(a), FALSE)>>]
    BY DEF s
  <2> HIDE DEF n
  <2>7. PumpAtWork(n)
    BY <1>1, <2>5 DEF PumpAtWork
  <2>8. DOMAIN agents' = DOMAIN agents /\ agents'[a] = n /\ \A b \in DOMAIN agents : b # a => agents'[b] = agents[b]
    BY <2>1, <2>5, ChangesOne DEF TurnsTypeOK
  <2>9. chat' \in Chat /\ chat'.agent = chat.agent
    BY <1>1, <2>1, <2>3, StartsFields
  <2>10. raced' \subseteq Cause
    BY <2>1 DEF TurnsTypeOK, Note, When, Cause
  <2> HIDE DEF p
  <2>11. TurnsTypeOK'
    BY <1>3, <2>1, <2>5, <2>7, <2>9, <2>10, SameBudget, TypeOfAgentStep DEF TurnsTypeOK
  <2> QED
    BY <1>1, <1>3, <1>5, <2>1, <2>6, <2>8, <2>11 DEF p
<1> QED
  BY <1>4, <1>5

\* The head that was read becomes the next turn.
LEMMA DrainQueueDoes ==
  ASSUME TurnsAssumption, TurnsTypeOK, NEW a \in DOMAIN agents, DrainQueue(a)
  PROVE  LET m == agents[a].pump.turn
             t == Drained(m, a)
             w == Without(chat, {m})
         IN  /\ TurnsTypeOK' /\ QuietStep /\ spent'.starts = spent.starts
             /\ agents[a].pump.pc = "drain" /\ m \in Sent /\ t \in Turn /\ a \in 1..MaxAgents
             /\ agents'[a].pump.pc = "after" /\ task[Drainer].pc = "idle"
             /\ task'[Drainer].pc = "ensure" /\ task'[Drainer].turn = t
             /\ \A k \in Lanes : k # Drainer => task'[k] = task[k]
             /\ Note(When(m \notin Range(chat.queue), "unqueued") \cup When(chat.active # NoTurn, "orphaned"))
             /\ w \in Chat /\ chat'.queue = w.queue /\ chat'.open = chat.open /\ chat'.prompts = w.prompts
             /\ chat'.active = IF chat.open THEN t ELSE chat.active
             /\ \A b \in DOMAIN agents : agents'[b].turns = agents[b].turns /\ (b # a => agents'[b].pump = agents[b].pump)
             /\ chat'.agent \in {chat.agent, 0}
<1> DEFINE m == agents[a].pump.turn
           t == Drained(m, a)
           w == Without(chat, {m})
           c == Starts(w, t)
           u == Pumps("after", NoTurn, "", {})
           d == [Idle EXCEPT !.pc = "ensure", !.turn = t]
           moved(now) == [now EXCEPT ![a].pump = u]
<1>1. /\ agents[a] \in Process /\ PumpAtWork(agents[a]) /\ agents[a].pump.pc = "drain" /\ chat \in Chat
      /\ agents \in Seq(Process) /\ a \in 1..MaxAgents /\ Drainer \in Lanes
  <2>1. agents \in Seq(Process) /\ a \in 1..MaxAgents
    BY DEF TurnsTypeOK, TurnsAssumption
  <2> QED
    BY <2>1, TypedProcess DEF DrainQueue, At, TurnsTypeOK, Lanes
<1>2. m \in Sent /\ t \in Turn /\ t # NoTurn
  <2>1. m \in Sent
    BY <1>1 DEF PumpAtWork
  <2> QED
    BY <1>1, <2>1, Ids
<1>3. w \in Chat /\ w.open = chat.open /\ w.active = chat.active /\ w.agent = chat.agent
  BY <1>1, WithoutFields
<1> HIDE DEF w
<1>4. /\ c \in Chat /\ c.open = chat.open /\ c.agent = chat.agent /\ c.queue = w.queue /\ c.prompts = w.prompts
      /\ c.active = IF chat.open THEN t ELSE chat.active
  BY <1>2, <1>3, StartsFields
<1>5. /\ task' = [task EXCEPT ![Drainer] = d] /\ task[Drainer].pc = "idle"
      /\ Begins(t) /\ UNCHANGED <<provider, misfiled>>
      /\ Note(When(m \notin Range(chat.queue), "unqueued") \cup When(chat.active # NoTurn, "orphaned"))
  BY DEF DrainQueue
<1>6. raced' \subseteq Cause
  BY <1>5 DEF TurnsTypeOK, Note, When, Cause
<1>7. /\ \/ chat' = c /\ agents' = moved(agents) /\ UNCHANGED <<settings, spent>>
         \/ /\ chat.open /\ Event /\ settings' = settings + 1 /\ chat' = RetiredChat(c)
            /\ agents' = moved(RetiredAgents(c))
  BY DEF DrainQueue, c, w
<1> HIDE DEF c, m, t
<1>8. AtWork(d, Len(agents)) /\ d.pc = "ensure" /\ d.turn = t
  <2>1. PICK n \in Nat : n = Len(agents)
    BY <1>1
  <2> QED
    BY <1>2, <2>1, IdleFields DEF AtWork, Idle, Doing, AtItsAgent
<1>9. u \in Pumping /\ u.pc = "after" /\ u.pc \notin Closing
  BY DEF Pumps, Pumping, Closing
<1>10. PICK R \in Seq(Process) :
         /\ Len(R) = Len(agents) /\ DOMAIN R = DOMAIN agents
         /\ \A b \in DOMAIN agents : PumpAtWork(R[b]) /\ Quietly(agents[b], R[b]) /\ R[b].turns = agents[b].turns /\ R[b].pump = agents[b].pump
         /\ agents' = moved(R)
         /\ chat' \in Chat /\ chat'.open = c.open /\ chat'.active = c.active /\ chat'.queue = c.queue /\ chat'.prompts = c.prompts
         /\ chat'.agent \in {chat.agent, 0}
         /\ spent' \in [starts : 0..MaxStarts, events : 0..MaxEvents] /\ spent'.starts = spent.starts
         /\ settings' \in 0..spent'.events
  <2> HIDE DEF moved
  <2>0. \A b \in DOMAIN agents : agents[b] \in Process /\ PumpAtWork(agents[b])
    BY DEF TurnsTypeOK
  <2>1. CASE chat' = c /\ agents' = moved(agents) /\ UNCHANGED <<settings, spent>>
    BY <1>1, <1>4, <2>0, <2>1, QuietSelf, SameBudget DEF TurnsTypeOK
  <2>2. CASE Event /\ settings' = settings + 1 /\ chat' = RetiredChat(c) /\ agents' = moved(RetiredAgents(c))
    <3>1. settings \in 0..spent.events /\ spent.events \in Nat
      BY DEF TurnsTypeOK, TurnsAssumption
    <3>2. \A b \in DOMAIN agents : Shut(agents[b]).turns = agents[b].turns /\ Shut(agents[b]).pump = agents[b].pump
      BY <2>0, ShutFields
    <3>3. /\ RetiredAgents(c) \in Seq(Process) /\ Len(RetiredAgents(c)) = Len(agents) /\ DOMAIN RetiredAgents(c) = DOMAIN agents
          /\ \A b \in DOMAIN agents :
               /\ PumpAtWork(RetiredAgents(c)[b]) /\ Quietly(agents[b], RetiredAgents(c)[b])
               /\ RetiredAgents(c)[b] = agents[b] \/ RetiredAgents(c)[b] = Shut(agents[b])
          /\ chat' \in Chat /\ chat'.open = c.open /\ chat'.active = c.active /\ chat'.queue = c.queue /\ chat'.prompts = c.prompts
          /\ chat'.agent \in {chat.agent, 0}
      BY <1>4, <2>2, RetiredFields
    <3>4. \A b \in DOMAIN agents : RetiredAgents(c)[b].turns = agents[b].turns /\ RetiredAgents(c)[b].pump = agents[b].pump
      BY <3>2, <3>3
    <3>5. /\ spent' \in [starts : 0..MaxStarts, events : 0..MaxEvents] /\ spent'.starts = spent.starts
          /\ settings' \in 0..spent'.events
      BY <2>2, <3>1, EventType
    <3> QED
      BY <2>2, <3>3, <3>4, <3>5
  <2> QED
    BY <1>7, <2>1, <2>2
<1> DEFINE n == [R[a] EXCEPT !.pump = u]
<1>11. agents' = [R EXCEPT ![a] = n]
  BY <1>10
<1>12. R[a] \in Process
  <2>1. a \in DOMAIN R
    BY <1>10
  <2> QED
    BY <2>1
<1> HIDE DEF u
<1>13. /\ n \in Process /\ n.of = R[a].of /\ n.with = R[a].with /\ n.over = R[a].over /\ n.turns = R[a].turns
       /\ n.pump = u /\ n.run = R[a].run /\ n.out = R[a].out
  BY <1>9, <1>12 DEF Process
<1> HIDE DEF n
<1>14. PumpAtWork(n)
  BY <1>9, <1>10, <1>13 DEF PumpAtWork
<1>15. Quietly(agents[a], n)
  <2>1. Quietly(agents[a], R[a])
    BY <1>10
  <2> QED
    BY <1>9, <1>13, <2>1 DEF Quietly
<1>16. /\ agents' \in Seq(Process) /\ Len(agents') = Len(agents) /\ DOMAIN agents' = DOMAIN agents
       /\ agents'[a] = n /\ \A b \in DOMAIN agents : b # a => agents'[b] = R[b]
  <2>1. Len(R) = Len(agents) /\ DOMAIN R = DOMAIN agents
    BY <1>10
  <2> QED
    BY <1>11, <1>13, <2>1
<1>17. QuietStep
  BY <1>10, <1>15, <1>16 DEF QuietStep
<1>18. \A b \in DOMAIN agents' : PumpAtWork(agents'[b])
  BY <1>10, <1>14, <1>16
<1>19. began' \in [Turn -> 0..MaxEvents]
  BY <1>5, <1>10, Begun
<1> HIDE DEF d
<1>20. TurnsTypeOK'
  BY <1>1, <1>5, <1>6, <1>8, <1>10, <1>16, <1>18, <1>19, TypeOfLaneStep
<1>21. task'[Drainer] = d /\ \A k \in Lanes : k # Drainer => task'[k] = task[k]
  BY <1>1, <1>5 DEF TurnsTypeOK
<1>22. \A b \in DOMAIN agents : agents'[b].turns = agents[b].turns /\ (b # a => agents'[b].pump = agents[b].pump)
  BY <1>10, <1>13, <1>16
<1>23. agents'[a].pump.pc = "after"
  BY <1>9, <1>13, <1>16
<1> QED
  BY <1>1, <1>2, <1>3, <1>4, <1>5, <1>8, <1>10, <1>17, <1>20, <1>21, <1>22, <1>23 DEF m, t, w

-----------------------------------------------------------------------------
(***************************************************************************)
(* The types are kept, and the processes serve the chat.                   *)
(***************************************************************************)

\* A step of a process, or of a pump that leaves the chat alone.
ProcessStep(a) ==
  \/ ProcessReads(a) \/ ProcessAnswers(a) \/ ProcessErrs(a) \/ ProcessRejects(a) \/ ProcessWakes(a) \/ ProcessDies(a)
  \/ BindTurn(a) \/ TakeResult(a) \/ AfterResult(a) \/ PumpTakesInput(a) \/ PumpWrites(a)

LEMMA ProcessStepDoes ==
  ASSUME TurnsAssumption, TurnsTypeOK, NEW a \in DOMAIN agents, ProcessStep(a)
  PROVE  /\ TurnsTypeOK' /\ QuietStep /\ UNCHANGED <<chat, settings, task>> /\ spent'.starts = spent.starts
         /\ raced \subseteq raced' /\ \A b \in DOMAIN agents : b # a => agents'[b] = agents[b]
<1>1. CASE ProcessReads(a)
  <2>1. UNCHANGED <<chat, settings, task, spent, raced>> /\ \A b \in DOMAIN agents : b # a => agents'[b] = agents[b]
    BY <1>1 DEF ProcessReads, TurnsTypeOK
  <2> QED
    BY <1>1, <2>1, ProcessReadsDoes
<1>2. CASE ProcessAnswers(a) \/ ProcessErrs(a)
  <2>1. UNCHANGED <<chat, settings, task, raced>> /\ spent'.starts = spent.starts /\ \A b \in DOMAIN agents : b # a => agents'[b] = agents[b]
    BY <1>2 DEF ProcessAnswers, ProcessErrs, Event, TurnsTypeOK
  <2> QED
    BY <1>2, <2>1, ProcessEndsDoes
<1>3. CASE ProcessRejects(a)
  <2>1. UNCHANGED <<chat, settings, task, raced>> /\ spent'.starts = spent.starts /\ \A b \in DOMAIN agents : b # a => agents'[b] = agents[b]
    BY <1>3 DEF ProcessRejects, Event, TurnsTypeOK
  <2> QED
    BY <1>3, <2>1, ProcessRejectsDoes
<1>4. CASE ProcessWakes(a)
  <2>1. UNCHANGED <<chat, settings, task, raced>> /\ spent'.starts = spent.starts /\ \A b \in DOMAIN agents : b # a => agents'[b] = agents[b]
    BY <1>4 DEF ProcessWakes, Event, TurnsTypeOK
  <2> QED
    BY <1>4, <2>1, ProcessWakesDoes
<1>5. CASE ProcessDies(a)
  <2>1. UNCHANGED <<chat, settings, task, raced>> /\ spent'.starts = spent.starts /\ \A b \in DOMAIN agents : b # a => agents'[b] = agents[b]
    BY <1>5 DEF ProcessDies, Event, TurnsTypeOK
  <2> QED
    BY <1>5, <2>1, ProcessDiesDoes
<1>6. CASE BindTurn(a)
  <2>1. UNCHANGED <<chat, settings, task, spent, raced>> /\ \A b \in DOMAIN agents : b # a => agents'[b] = agents[b]
    BY <1>6 DEF BindTurn, TurnsTypeOK
  <2> QED
    BY <1>6, <2>1, BindTurnDoes
<1>7. CASE TakeResult(a)
  <2>1. UNCHANGED <<chat, settings, task, spent>> /\ raced \subseteq raced' /\ \A b \in DOMAIN agents : b # a => agents'[b] = agents[b]
    BY <1>7 DEF TakeResult, TurnsTypeOK, Note
  <2> QED
    BY <1>7, <2>1, TakeResultDoes
<1>8. CASE AfterResult(a)
  <2>1. UNCHANGED <<chat, settings, task, spent, raced>> /\ \A b \in DOMAIN agents : b # a => agents'[b] = agents[b]
    BY <1>8 DEF AfterResult, TurnsTypeOK
  <2> QED
    BY <1>8, <2>1, AfterResultDoes
<1>9. CASE PumpTakesInput(a)
  <2>1. UNCHANGED <<chat, settings, task, spent>> /\ raced \subseteq raced' /\ \A b \in DOMAIN agents : b # a => agents'[b] = agents[b]
    BY <1>9 DEF PumpTakesInput, TurnsTypeOK, Note
  <2> QED
    BY <1>9, <2>1, PumpTakesInputDoes
<1>10. CASE PumpWrites(a)
  <2>1. UNCHANGED <<chat, settings, task, spent>> /\ raced \subseteq raced' /\ \A b \in DOMAIN agents : b # a => agents'[b] = agents[b]
    BY <1>10 DEF PumpWrites, TurnsTypeOK, Note
  <2> QED
    BY <1>10, <2>1, PumpWritesDoes
<1> QED
  BY <1>1, <1>2, <1>3, <1>4, <1>5, <1>6, <1>7, <1>8, <1>9, <1>10 DEF ProcessStep

\* A step of a lane that leaves the processes' turns to a frame.
LaneStep(l) ==
  \/ QueueTurn(l) \/ BeginTurn(l) \/ EnsureAgent(l) \/ SpawnFails(l) \/ SendPrompt(l) \/ PromptWritten(l)
  \/ Unqueue(l) \/ MarkTurn(l) \/ TellInterrupt(l) \/ InterruptTold(l)

LEMMA LaneStepDoes ==
  ASSUME TurnsAssumption, TurnsTypeOK, NEW l \in Lanes, LaneStep(l)
  PROVE  TurnsTypeOK' /\ QuietStep /\ LanesQuiet /\ \A k \in Lanes : k # l => task'[k] = task[k]
BY QueueTurnDoes, BeginTurnDoes, EnsureAgentDoes, SpawnFailsDoes, SendPromptDoes, PromptWrittenDoes,
   UnqueueDoes, MarkTurnDoes, TellInterruptDoes, InterruptToldDoes DEF LaneStep

\* What a step may be.
LEMMA NextSteps ==
  ASSUME TurnsNext
  PROVE  \/ \E l \in Conn : StartTurn(l) \/ \E t \in Turn : CancelTurn(l, t)
         \/ \E l \in Lanes : LaneStep(l) \/ PushTurn(l) \/ SpawnAgent(l)
         \/ \E a \in DOMAIN agents : \/ ProcessStep(a) \/ AdoptWakeTurn(a) \/ ApplyEnd(a) \/ DrainQueue(a)
                                     \/ PurgeQueue(a) \/ StreamEnds(a)
         \/ ChangeSettings \/ QueueMessage \/ DisposeSession
BY DEF TurnsNext, LaneNext, PumpNext, ProcessNext, LaneStep, ProcessStep

LEMMA TypeOfNext ==
  ASSUME TurnsAssumption, TurnsTypeOK, TurnsNext
  PROVE  TurnsTypeOK'
<1>1. CASE \E l \in Conn : StartTurn(l) \/ \E t \in Turn : CancelTurn(l, t)
  BY <1>1, StartTurnDoes, CancelTurnDoes
<1>2. CASE \E l \in Lanes : LaneStep(l) \/ PushTurn(l) \/ SpawnAgent(l)
  BY <1>2, LaneStepDoes, PushTurnDoes, SpawnAgentDoes
<1>3. CASE \E a \in DOMAIN agents : ProcessStep(a) \/ AdoptWakeTurn(a) \/ ApplyEnd(a)
  BY <1>3, ProcessStepDoes, AdoptWakeTurnDoes, ApplyEndDoes
<1>4. CASE \E a \in DOMAIN agents : DrainQueue(a) \/ PurgeQueue(a) \/ StreamEnds(a)
  BY <1>4, DrainQueueDoes, PurgeQueueDoes, StreamEndsDoes
<1>5. CASE ChangeSettings \/ QueueMessage \/ DisposeSession
  BY <1>5, ChangeSettingsDoes, QueueMessageDoes, DisposeSessionDoes
<1> QED
  BY <1>1, <1>2, <1>3, <1>4, <1>5, NextSteps

LEMMA TypeOfStutter ==
  ASSUME TurnsTypeOK, UNCHANGED turnVars
  PROVE  TurnsTypeOK'
BY DEF TurnsTypeOK, LanesAreAtWork, PumpAtWork, turnVars

LEMMA TypeInit ==
  ASSUME TurnsAssumption, TurnsInit
  PROVE  TurnsTypeOK
<1>1. 0 \in 0..MaxAgents /\ 0 \in 0..MaxEvents /\ 0 \in 0..MaxStarts /\ MaxAgents \in Nat
  BY DEF TurnsAssumption
<1>2. Closed \in Chat /\ chat = [Closed EXCEPT !.open = TRUE] /\ Closed.agent = 0
  BY <1>1 DEF TurnsInit, Closed, Chat
<1>3. chat \in Chat /\ chat.agent = 0
  BY <1>2 DEF Chat
<1>4. agents = <<>> /\ agents \in Seq(Process) /\ Len(agents) = 0 /\ DOMAIN agents = {}
  BY DEF TurnsInit
<1>5. task = [l \in Lanes |-> Idle] /\ AtWork(Idle, 0) /\ Idle.pc = "idle"
  BY IdleFields DEF TurnsInit
<1>6. task \in [Lanes -> Doing] /\ LanesAreAtWork
  BY <1>4, <1>5 DEF AtWork, LanesAreAtWork
<1>7. /\ provider \in Providers /\ spent = [starts |-> 0, events |-> 0] /\ settings = 0
      /\ raced = {} /\ misfiled = {} /\ began = [t \in Turn |-> 0]
  BY DEF TurnsInit
<1> QED
  BY <1>1, <1>3, <1>4, <1>6, <1>7 DEF TurnsTypeOK

\* The processes may end, and keep the settings that they were spawned with.
ProcessesStay ==
  /\ DOMAIN agents' = DOMAIN agents
  /\ \A b \in DOMAIN agents : agents'[b].with = agents[b].with /\ (agents[b].over => agents'[b].over)

LEMMA QuietStays ==
  ASSUME QuietStep
  PROVE  ProcessesStay
BY DEF QuietStep, Quietly, ProcessesStay

\* A step that leaves the chat its agent, and both their settings.
LEMMA ServesOn ==
  ASSUME ProcessesServeTheChat, TurnsTypeOK, ProcessesStay, chat'.agent = chat.agent, chat'.retire = chat.retire,
         settings' = settings, raced \subseteq raced'
  PROVE  ProcessesServeTheChat'
<1>1. chat.agent # 0 => chat.agent \in DOMAIN agents
  BY DEF TurnsTypeOK, Chat
<1>2. EveryProcessHasAnOwner'
  BY DEF ProcessesServeTheChat, EveryProcessHasAnOwner, ProcessesStay, Raced
<1>3. SettingsReachTheAgent'
  BY <1>1 DEF ProcessesServeTheChat, SettingsReachTheAgent, ProcessesStay, Raced, LiveAgent
<1> QED
  BY <1>2, <1>3 DEF ProcessesServeTheChat

\* A step that retires the chat's agent, or will after its turn.
LEMMA ServesRetired ==
  ASSUME ProcessesServeTheChat, TurnsTypeOK, ProcessesStay, raced \subseteq raced',
         \/ chat'.agent = chat.agent /\ (chat.agent # 0 => chat'.retire)
         \/ chat'.agent = 0 /\ (chat.agent \in DOMAIN agents => agents'[chat.agent].over)
  PROVE  ProcessesServeTheChat'
<1>1. EveryProcessHasAnOwner'
  BY DEF ProcessesServeTheChat, EveryProcessHasAnOwner, ProcessesStay, Raced
<1>2. SettingsReachTheAgent'
  BY DEF SettingsReachTheAgent, LiveAgent
<1> QED
  BY <1>1, <1>2 DEF ProcessesServeTheChat

LEMMA ServesResettled ==
  ASSUME TurnsAssumption, ProcessesServeTheChat, TurnsTypeOK, NEW c \in Chat, c.agent = chat.agent, raced \subseteq raced',
         ProcessesStay, chat' = RetiredChat(c),
         \A b \in DOMAIN agents : RetiredAgents(c)[b].over => agents'[b].over
  PROVE  ProcessesServeTheChat'
<1>1. \/ RetiredChat(c).agent = c.agent /\ (c.agent # 0 => RetiredChat(c).retire)
      \/ RetiredChat(c).agent = 0 /\ c.agent \in DOMAIN agents /\ RetiredAgents(c)[c.agent].over
  BY RetiredFields
<1>2. \/ chat'.agent = chat.agent /\ (chat.agent # 0 => chat'.retire)
      \/ chat'.agent = 0 /\ (chat.agent \in DOMAIN agents => agents'[chat.agent].over)
  BY <1>1
<1> QED
  BY <1>2, ServesRetired

LEMMA ServesSpawn ==
  ASSUME TurnsAssumption, ProcessesServeTheChat, TurnsTypeOK, NEW l \in Lanes, SpawnAgent(l)
  PROVE  ProcessesServeTheChat'
<1>1. PICK m \in Nat :
         /\ m = Len(agents) + 1 /\ DOMAIN agents' = DOMAIN agents \cup {m} /\ m \notin DOMAIN agents
         /\ agents'[m] = Spawned(task[l].with, task[l].of)
         /\ \A b \in DOMAIN agents : agents'[b] = agents[b]
         /\ IF chat.open THEN /\ chat' = [chat EXCEPT !.agent = m]
                              /\ task'[l].pc = "push" /\ task'[l].turn = task[l].turn
            ELSE chat' = chat /\ task'[l] = Idle /\ "disposed" \in raced'
  BY SpawnAgentDoes
<1>2. agents'[m].with = task[l].with /\ ~agents'[m].over /\ settings' = settings /\ chat \in Chat
  BY <1>1, SpawnAgentDoes DEF Spawned, TurnsTypeOK
<1>3. chat.open => Note(When(\E a \in LiveAgent : ~agents[a].over, "twice") \cup When(task[l].with # settings, "stale"))
  BY DEF SpawnAgent
<1>4. raced \subseteq raced'
  BY DEF SpawnAgent, Note
<1>5. chat.agent # 0 => chat.agent \in DOMAIN agents
  BY DEF TurnsTypeOK, Chat
<1>6. CASE chat.open
  <2>1. chat'.agent = m
    BY <1>1, <1>2, <1>6 DEF Chat
  <2>2. EveryProcessHasAnOwner'
    <3> SUFFICES ASSUME NEW b \in DOMAIN agents', ~(agents'[b].over \/ chat'.agent = b)
                 PROVE  Raced({"twice", "disposed"})'
      BY DEF EveryProcessHasAnOwner
    <3>1. b \in DOMAIN agents /\ ~agents[b].over
      BY <1>1, <2>1
    <3>2. chat.agent = b \/ Raced({"twice", "disposed"})
      BY <3>1 DEF ProcessesServeTheChat, EveryProcessHasAnOwner
    <3>3. CASE chat.agent = b
      <4>1. b # 0
        BY <3>1 DEF TurnsTypeOK
      <4>2. "twice" \in raced'
        BY <1>3, <1>6, <3>1, <3>3, <4>1 DEF LiveAgent, Note, When
      <4> QED
        BY <4>2 DEF Raced
    <3>4. CASE Raced({"twice", "disposed"})
      BY <3>4, <1>4 DEF Raced
    <3> QED
      BY <3>2, <3>3, <3>4
  <2>3. SettingsReachTheAgent'
    <3>1. task[l].with # settings => "stale" \in raced'
      BY <1>3, <1>6 DEF Note, When
    <3> QED
      BY <1>2, <2>1, <3>1 DEF SettingsReachTheAgent, LiveAgent, Raced
  <2> QED
    BY <2>2, <2>3 DEF ProcessesServeTheChat
<1>7. CASE ~chat.open
  <2>1. EveryProcessHasAnOwner'
    BY <1>1, <1>7 DEF EveryProcessHasAnOwner, Raced
  <2>2. SettingsReachTheAgent'
    BY <1>1, <1>2, <1>4, <1>5, <1>7 DEF ProcessesServeTheChat, SettingsReachTheAgent, LiveAgent, Raced
  <2> QED
    BY <2>1, <2>2 DEF ProcessesServeTheChat
<1> QED
  BY <1>6, <1>7

\* A lane that starts, sends, cancels: the chat keeps its agent.
LEMMA ServesLane ==
  ASSUME TurnsAssumption, ProcessesServeTheChat, TurnsTypeOK, NEW l \in Lanes, LaneStep(l)
  PROVE  ProcessesServeTheChat'
<1>1. ProcessesStay
  BY LaneStepDoes, QuietStays
<1>2. chat \in Chat
  BY DEF TurnsTypeOK
<1>3. CASE BeginTurn(l)
  <2> DEFINE c == Starts(chat, task[l].turn)
  <2>1. task[l].turn \in Turn
    <3>1. AtWork(task[l], Len(agents)) /\ task[l].pc = "begin"
      BY <1>3, TypedLane DEF BeginTurn
    <3> QED
      BY <3>1 DEF AtWork, Doing
  <2>2. c \in Chat /\ c.agent = chat.agent /\ c.retire = chat.retire
    BY <1>2, <2>1, StartsFields
  <2>3. raced \subseteq raced' /\ ((chat' = c /\ settings' = settings) \/ Resettle(c))
    BY <1>3 DEF BeginTurn, Note
  <2> HIDE DEF c
  <2>4. CASE chat' = c /\ settings' = settings
    BY <1>1, <2>2, <2>3, <2>4, ServesOn
  <2>5. CASE Resettle(c)
    <3>1. chat' = RetiredChat(c) /\ agents' = RetiredAgents(c)
      BY <2>5 DEF Resettle
    <3>2. \A b \in DOMAIN agents : RetiredAgents(c)[b].over => agents'[b].over
      BY <3>1
    <3> QED
      BY <1>1, <2>2, <2>3, <3>1, <3>2, ServesResettled
  <2> QED
    BY <2>3, <2>4, <2>5
<1>4. CASE ~BeginTurn(l)
  <2>1. /\ settings' = settings /\ raced \subseteq raced'
        /\ \/ chat' = chat \/ chat' = Ends(chat, task[l].turn) \/ chat' = Without(chat, {task[l].turn})
           \/ chat' = Waits(chat, task[l].turn)
    BY <1>4 DEF LaneStep, QueueTurn, EnsureAgent, SpawnFails, SendPrompt, PromptWritten, Unqueue, MarkTurn,
                TellInterrupt, InterruptTold, TurnFailed, Note
  <2>2. chat'.agent = chat.agent /\ chat'.retire = chat.retire
    <3>1. CASE chat' = Waits(chat, task[l].turn)
      BY <1>2, <3>1 DEF Waits, Chat
    <3> QED
      BY <1>2, <2>1, <3>1, EndsFields, WithoutFields
  <2> QED
    BY <1>1, <2>1, <2>2, ServesOn
<1> QED
  BY <1>3, <1>4

LEMMA ServesPush ==
  ASSUME TurnsAssumption, ProcessesServeTheChat, TurnsTypeOK, NEW l \in Lanes, PushTurn(l)
  PROVE  ProcessesServeTheChat'
<1>1. /\ settings' = settings /\ raced \subseteq raced' /\ chat' \in {chat, Ends(chat, task[l].turn)} /\ chat \in Chat
  BY DEF PushTurn, TurnFailed, Note, TurnsTypeOK
<1>2. chat'.agent = chat.agent /\ chat'.retire = chat.retire
  BY <1>1, EndsFields
<1>3. ProcessesStay
  <2> DEFINE a == task[l].agent
             s == Append(agents[a].turns, Pending(task[l].turn, agents[a].of = "codex" /\ agents[a].turns # <<>>))
  <2>1. agents' = agents \/ agents' = [agents EXCEPT ![a] = [agents[a] EXCEPT !.turns = s]]
    BY DEF PushTurn
  <2>2. agents \in Seq(Process) /\ a \in DOMAIN agents /\ agents[a] \in Process
    BY LaneHasAgent, TypedProcess DEF PushTurn, AtItsAgent, TurnsTypeOK
  <2> HIDE DEF s
  <2>3. [agents[a] EXCEPT !.turns = s].with = agents[a].with /\ [agents[a] EXCEPT !.turns = s].over = agents[a].over
    BY <2>2 DEF Process
  <2> QED
    BY <2>1, <2>2, <2>3 DEF ProcessesStay
<1> QED
  BY <1>1, <1>2, <1>3, ServesOn

LEMMA ServesPump ==
  ASSUME TurnsAssumption, ProcessesServeTheChat, TurnsTypeOK, NEW a \in DOMAIN agents,
         ApplyEnd(a) \/ DrainQueue(a) \/ PurgeQueue(a)
  PROVE  ProcessesServeTheChat'
<1>1. ProcessesStay
  BY ApplyEndDoes, DrainQueueDoes, PurgeQueueDoes, QuietStays
<1>2. chat \in Chat /\ agents \in Seq(Process)
  BY DEF TurnsTypeOK
<1>3. CASE ApplyEnd(a)
  <2> DEFINE ended == Ends(chat, agents[a].pump.turn)
  <2>1. ended \in Chat /\ ended.agent = chat.agent /\ ended.retire = chat.retire
    BY <1>2, EndsFields
  <2>2. /\ settings' = settings /\ raced' = raced
        /\ chat' = IF chat.retire THEN RetiredChat(ended) ELSE ended
    BY <1>3 DEF ApplyEnd
  <2> HIDE DEF ended
  <2>3. CASE ~chat.retire
    BY <1>1, <2>1, <2>2, <2>3, ServesOn
  <2>4. CASE chat.retire
    <3>1. PICK next : agents' = [RetiredAgents(chat) EXCEPT ![a].pump = next]
      BY <1>3, <2>4 DEF ApplyEnd
    <3>2. RetiredAgents(ended) = RetiredAgents(chat)
      BY <2>1 DEF RetiredAgents
    <3> DEFINE R == RetiredAgents(chat)
    <3>3. R \in Seq(Process) /\ DOMAIN R = DOMAIN agents /\ R[a] \in Process
      BY <1>2, RetiredFields
    <3> HIDE DEF R
    <3>4. \A b \in DOMAIN agents : R[b].over => agents'[b].over
      <4>1. agents' = [R EXCEPT ![a].pump = next]
        BY <3>1 DEF R
      <4>2. agents' = [R EXCEPT ![a] = [R[a] EXCEPT !.pump = next]]
        BY <4>1
      <4>3. [R[a] EXCEPT !.pump = next].over = R[a].over
        BY <3>3 DEF Process
      <4> QED
        BY <3>3, <4>2, <4>3
    <3>5. chat' = RetiredChat(ended) /\ raced \subseteq raced' /\ \A b \in DOMAIN agents : RetiredAgents(ended)[b].over => agents'[b].over
      BY <2>2, <2>4, <3>2, <3>4 DEF R
    <3> QED
      BY <1>1, <2>1, <3>5, ServesResettled
  <2> QED
    BY <2>3, <2>4
<1>4. CASE DrainQueue(a)
  <2> DEFINE m == agents[a].pump.turn
             w == Without(chat, {m})
             c == Starts(w, Drained(m, a))
             u == Pumps("after", NoTurn, "", {})
  <2>1. Drained(m, a) \in Turn /\ w \in Chat /\ w.agent = chat.agent /\ w.retire = chat.retire
    <3>1. Drained(m, a) \in Turn
      BY <1>4, DrainQueueDoes
    <3>2. w \in Chat /\ w.agent = chat.agent /\ w.retire = chat.retire
      BY <1>2, WithoutFields
    <3> QED
      BY <3>1, <3>2
  <2>2. c \in Chat /\ c.agent = chat.agent /\ c.retire = chat.retire
    BY <2>1, StartsFields
  <2>3. /\ raced \subseteq raced'
        /\ \/ chat' = c /\ settings' = settings
           \/ chat' = RetiredChat(c) /\ agents' = [RetiredAgents(c) EXCEPT ![a].pump = u]
    BY <1>4 DEF DrainQueue, Note
  <2> HIDE DEF c, u
  <2>4. CASE chat' = c /\ settings' = settings
    BY <1>1, <2>2, <2>3, <2>4, ServesOn
  <2>5. CASE chat' = RetiredChat(c) /\ agents' = [RetiredAgents(c) EXCEPT ![a].pump = u]
    <3> DEFINE R == RetiredAgents(c)
    <3>1. R \in Seq(Process) /\ DOMAIN R = DOMAIN agents /\ R[a] \in Process
      BY <2>2, RetiredFields
    <3> HIDE DEF R
    <3>2. \A b \in DOMAIN agents : R[b].over => agents'[b].over
      <4>1. agents' = [R EXCEPT ![a] = [R[a] EXCEPT !.pump = u]]
        BY <2>5 DEF R
      <4>2. [R[a] EXCEPT !.pump = u].over = R[a].over
        BY <3>1 DEF Process
      <4> QED
        BY <3>1, <4>1, <4>2
    <3> QED
      BY <1>1, <2>2, <2>3, <2>5, <3>2, ServesResettled DEF R
  <2> QED
    BY <2>3, <2>4, <2>5
<1>5. CASE PurgeQueue(a)
  <2> DEFINE w == Without(chat, agents[a].pump.ids)
  <2>1. w \in Chat /\ w.agent = chat.agent /\ w.retire = chat.retire
    BY <1>2, WithoutFields
  <2>2. settings' = settings /\ raced \subseteq raced' /\ chat' = [w EXCEPT !.prompts = {}]
    BY <1>5 DEF PurgeQueue, Note
  <2> HIDE DEF w
  <2>3. chat'.agent = chat.agent /\ chat'.retire = chat.retire
    BY <2>1, <2>2 DEF Chat
  <2> QED
    BY <1>1, <2>2, <2>3, ServesOn
<1> QED
  BY <1>3, <1>4, <1>5

LEMMA ServesStreamEnd ==
  ASSUME TurnsAssumption, ProcessesServeTheChat, TurnsTypeOK, NEW a \in DOMAIN agents, StreamEnds(a)
  PROVE  ProcessesServeTheChat'
<1> DEFINE p == agents[a]
           failed == Fails(p)
           closed == IF chat.active \in failed THEN Ends(chat, chat.active) ELSE chat
           m == [p EXCEPT !.dead = TRUE, !.turns = <<>>]
           gone == [agents EXCEPT ![a] = m]
           retires == chat.retire /\ chat.agent # 0 /\ (chat.agent = a \/ RetiresNow(chat.agent))
           u == Pumps(IF chat.queue = <<>> THEN "rest" ELSE "purge", NoTurn, "", Range(chat.queue))
           S == Shut(gone[chat.agent])
<1>1. ProcessesStay
  BY StreamEndsDoes, QuietStays
<1>2. chat \in Chat /\ agents \in Seq(Process) /\ p \in Process
  BY TypedProcess DEF TurnsTypeOK
<1>3. closed \in Chat /\ closed.agent = chat.agent /\ closed.retire = chat.retire
  BY <1>2, EndsFields
<1>4. settings' = settings /\ raced' = raced
  BY DEF StreamEnds
<1>5. CASE failed = {} \/ ~retires
  <2>1. chat' \in {chat, closed}
    BY <1>5 DEF StreamEnds
  <2> HIDE DEF closed
  <2> QED
    BY <1>1, <1>3, <1>4, <2>1, ServesOn
<1>6. CASE failed # {} /\ retires
  <2>1. /\ chat' = [closed EXCEPT !.agent = 0, !.retire = FALSE]
        /\ agents' = [[gone EXCEPT ![chat.agent] = S] EXCEPT ![a].pump = u]
    BY <1>6 DEF StreamEnds
  <2>2. chat.agent \in DOMAIN agents
    BY <1>6 DEF TurnsTypeOK, Chat
  <2>3. m \in Process
    <3>1. <<>> \in Seq(Pended)
      OBVIOUS
    <3> QED
      BY <1>2, <3>1 DEF Process
  <2> HIDE DEF m
  <2>4. gone \in Seq(Process) /\ DOMAIN gone = DOMAIN agents /\ gone[chat.agent] \in Process
    BY <1>2, <2>2, <2>3
  <2>5. S.over
    BY <2>4 DEF Shut, Process
  <2>6. S \in Process
    <3>1. <<>> \in Seq(Line) /\ {} \subseteq Turn \cup {NoTurn}
      OBVIOUS
    <3> QED
      BY <2>4, <3>1 DEF Shut, Process
  <2> HIDE DEF gone, S, u, closed
  <2> DEFINE R == [gone EXCEPT ![chat.agent] = S]
  <2>7. R \in Seq(Process) /\ DOMAIN R = DOMAIN agents /\ R[chat.agent] = S /\ R[a] \in Process
    BY <2>2, <2>4, <2>6
  <2> HIDE DEF R
  <2>8. agents'[chat.agent].over
    <3>1. agents' = [R EXCEPT ![a] = [R[a] EXCEPT !.pump = u]]
      BY <2>1 DEF R
    <3>2. [R[a] EXCEPT !.pump = u].over = R[a].over
      BY <2>7 DEF Process
    <3> QED
      BY <2>2, <2>5, <2>7, <3>1, <3>2
  <2>9. chat'.agent = 0
    BY <1>3, <2>1 DEF Chat
  <2> QED
    BY <1>1, <1>4, <2>8, <2>9, ServesRetired
<1> QED
  BY <1>5, <1>6

LEMMA ServesNext ==
  ASSUME TurnsAssumption, ProcessesServeTheChat, TurnsTypeOK, TurnsNext
  PROVE  ProcessesServeTheChat'
<1>1. ASSUME NEW l \in Conn, StartTurn(l) PROVE ProcessesServeTheChat'
  <2>1. ProcessesStay /\ UNCHANGED <<chat, settings, raced>>
    BY <1>1, StartTurnDoes, QuietStays
  <2> QED
    BY <2>1, ServesOn
<1>2. ASSUME NEW l \in Conn, NEW t \in Turn, CancelTurn(l, t) PROVE ProcessesServeTheChat'
  <2>1. ProcessesStay /\ chat' \in {chat, Ends(chat, t)} /\ settings' = settings /\ raced \subseteq raced' /\ chat \in Chat
    BY <1>2, CancelTurnDoes, QuietStays DEF CancelTurn, Note, TurnsTypeOK
  <2>2. chat'.agent = chat.agent /\ chat'.retire = chat.retire
    BY <2>1, EndsFields
  <2> QED
    BY <2>1, <2>2, ServesOn
<1>3. CASE \E l \in Lanes : LaneStep(l) \/ PushTurn(l) \/ SpawnAgent(l)
  BY <1>3, ServesLane, ServesPush, ServesSpawn
<1>4. ASSUME NEW a \in DOMAIN agents, ProcessStep(a) PROVE ProcessesServeTheChat'
  <2>1. ProcessesStay /\ UNCHANGED <<chat, settings>> /\ raced \subseteq raced'
    BY <1>4, ProcessStepDoes, QuietStays
  <2> QED
    BY <2>1, ServesOn
<1>5. ASSUME NEW a \in DOMAIN agents, AdoptWakeTurn(a) PROVE ProcessesServeTheChat'
  <2>1. agents[a] \in Process /\ chat \in Chat /\ a \in 1..MaxAgents
    BY TypedProcess DEF TurnsTypeOK, TurnsAssumption
  <2>2. /\ DOMAIN agents' = DOMAIN agents /\ \A b \in DOMAIN agents : b # a => agents'[b] = agents[b]
        /\ settings' = settings /\ chat' \in {chat, Starts(chat, Woken(a))}
    BY <1>5, AdoptWakeTurnDoes
  <2>3. raced \subseteq raced'
    BY <1>5 DEF AdoptWakeTurn, Note
  <2>4. agents'[a].with = agents[a].with /\ (agents[a].over => agents'[a].over)
    <3>1. QuietStep \/ agents'[a] = [agents[a] EXCEPT !.out = Tail(@), !.turns = <<Pending(Woken(a), FALSE)>>]
      BY <1>5, AdoptWakeTurnDoes
    <3>2. CASE QuietStep
      <4>1. agents'[a].with = agents[a].with /\ (agents[a].over => agents'[a].over)
        BY <3>2 DEF QuietStep, Quietly
      <4> QED
        BY <4>1
    <3>3. CASE agents'[a] = [agents[a] EXCEPT !.out = Tail(@), !.turns = <<Pending(Woken(a), FALSE)>>]
      BY <2>1, <3>3 DEF Process
    <3> QED
      BY <3>1, <3>2, <3>3
  <2>5. Woken(a) \in Turn
    BY <2>1, Ids
  <2>6. chat'.agent = chat.agent /\ chat'.retire = chat.retire
    BY <2>1, <2>2, <2>5, StartsFields
  <2>7. ProcessesStay
    BY <2>2, <2>4 DEF ProcessesStay
  <2> QED
    BY <2>2, <2>3, <2>6, <2>7, ServesOn
<1>6. CASE \E a \in DOMAIN agents : ApplyEnd(a) \/ DrainQueue(a) \/ PurgeQueue(a) \/ StreamEnds(a)
  BY <1>6, ServesPump, ServesStreamEnd
<1>7. CASE ChangeSettings
  <2>1. ProcessesStay /\ chat \in Chat /\ Resettle(chat) /\ raced' = raced
    BY <1>7, ChangeSettingsDoes, QuietStays DEF ChangeSettings, TurnsTypeOK
  <2> QED
    BY <2>1, ServesResettled DEF Resettle
<1>8. CASE QueueMessage
  <2>1. ProcessesStay /\ settings' = settings /\ raced \subseteq raced' /\ chat'.agent = chat.agent /\ chat'.retire = chat.retire
    BY <1>8, QueueMessageDoes, QuietStays DEF QueueMessage, Note
  <2> QED
    BY <2>1, ServesOn
<1>9. CASE DisposeSession
  <2>1. /\ ProcessesStay /\ raced' = raced /\ chat'.agent = 0
        /\ \A b \in DOMAIN agents : agents'[b] = IF b \in LiveAgent THEN Shut(agents[b]) ELSE agents[b]
    BY <1>9, DisposeSessionDoes, QuietStays DEF Closed
  <2>2. chat.agent \in DOMAIN agents => agents'[chat.agent].over
    <3>1. chat.agent \in DOMAIN agents => chat.agent # 0 /\ agents[chat.agent] \in Process /\ PumpAtWork(agents[chat.agent])
      BY TypedProcess DEF TurnsTypeOK
    <3> QED
      BY <2>1, <3>1, ShutFields DEF LiveAgent
  <2> QED
    BY <2>1, <2>2, ServesRetired
<1> QED
  BY <1>1, <1>2, <1>3, <1>4, <1>5, <1>6, <1>7, <1>8, <1>9, NextSteps

LEMMA ServesStutter ==
  ASSUME ProcessesServeTheChat, UNCHANGED turnVars
  PROVE  ProcessesServeTheChat'
BY DEF ProcessesServeTheChat, EveryProcessHasAnOwner, SettingsReachTheAgent, LiveAgent, Raced, turnVars

\* Every process that runs is the chat's, and runs under its settings or is
\* to be retired, but for the races that are named (server.rs, ensure_agent,
\* retire_locked, mutate_session).
THEOREM ProcessesAlwaysServe == TurnsSpec => []ProcessesServeTheChat
<1> DEFINE Inv == TurnsTypeOK /\ ProcessesServeTheChat
<1>1. TurnsInit => Inv
  <2> SUFFICES ASSUME TurnsInit PROVE Inv
    OBVIOUS
  <2>1. TurnsTypeOK
    BY TurnsAssumption, TypeInit
  <2>2. agents = <<>> /\ chat.agent = 0
    BY DEF TurnsInit, Closed
  <2>3. ProcessesServeTheChat
    BY <2>2 DEF ProcessesServeTheChat, EveryProcessHasAnOwner, SettingsReachTheAgent, LiveAgent
  <2> QED
    BY <2>1, <2>3
<1>2. Inv /\ [TurnsNext]_turnVars => Inv'
  BY TurnsAssumption, TypeOfNext, TypeOfStutter, ServesNext, ServesStutter
<1>3. Inv => ProcessesServeTheChat
  OBVIOUS
<1> QED
  BY <1>1, <1>2, <1>3, PTL DEF TurnsSpec

-----------------------------------------------------------------------------
(***************************************************************************)
(* Turns are known apart: each is in one place, under an id of its own.    *)
(***************************************************************************)

\* The processes there are change quietly, and one may come up.
QuietMore ==
  /\ DOMAIN agents \subseteq DOMAIN agents'
  /\ \A b \in DOMAIN agents : Quietly(agents[b], agents'[b])
  /\ \A b \in DOMAIN agents' \ DOMAIN agents : agents'[b].turns = <<>> /\ agents'[b].pump = Rest

LEMMA QuietIsMore ==
  ASSUME QuietStep
  PROVE  QuietMore
BY DEF QuietStep, QuietMore

LEMMA SpawnIsQuiet ==
  ASSUME TurnsAssumption, TurnsTypeOK, NEW l \in Lanes, SpawnAgent(l)
  PROVE  QuietMore
<1>1. PICK m \in Nat :
         /\ DOMAIN agents' = DOMAIN agents \cup {m} /\ m \notin DOMAIN agents
         /\ agents'[m] = Spawned(task[l].with, task[l].of)
         /\ \A b \in DOMAIN agents : agents'[b] = agents[b]
  BY SpawnAgentDoes
<1>2. agents'[m].turns = <<>> /\ agents'[m].pump = Rest
  BY <1>1 DEF Spawned
<1>3. \A b \in DOMAIN agents : Quietly(agents[b], agents'[b])
  BY <1>1, TypedProcess, QuietSelf
<1> QED
  BY <1>1, <1>2, <1>3 DEF QuietMore

\* The turns and the pump of a process that was there, or that came up.
LEMMA TurnsBefore ==
  ASSUME TurnsTypeOK, QuietMore, NEW b \in DOMAIN agents'
  PROVE  /\ \A i \in DOMAIN agents'[b].turns :
              /\ b \in DOMAIN agents
              /\ \E j \in DOMAIN agents[b].turns : agents[b].turns[j].id = agents'[b].turns[i].id
         /\ agents'[b].pump.pc \in Closing =>
              /\ b \in DOMAIN agents
              /\ \/ agents[b].pump.pc \in Closing /\ agents'[b].pump.turn = agents[b].pump.turn
                 \/ 1 \in DOMAIN agents[b].turns /\ agents'[b].pump.turn = agents[b].turns[1].id
         /\ agents'[b].pump.pc = "drain" =>
              /\ b \in DOMAIN agents
              /\ \/ agents[b].pump.pc = "drain" /\ agents'[b].pump.turn = agents[b].pump.turn
                 \/ 1 \in DOMAIN chat.queue /\ agents'[b].pump.turn = chat.queue[1]
<1>1. CASE b \in DOMAIN agents
  <2>1. Quietly(agents[b], agents'[b])
    BY <1>1 DEF QuietMore
  <2>2. PICK e : ThinsBy(e, agents[b].turns, agents'[b].turns)
    BY <2>1 DEF Quietly, Thins
  <2>3. agents[b].turns \in Seq(Pended) /\ chat.queue \in Seq(Sent)
    BY <1>1, TypedProcess DEF TurnsTypeOK, Chat
  <2>4. \A i \in DOMAIN agents'[b].turns : \E j \in DOMAIN agents[b].turns : agents[b].turns[j].id = agents'[b].turns[i].id
    BY <2>2 DEF ThinsBy
  <2>5. (agents[b].turns # <<>> => 1 \in DOMAIN agents[b].turns) /\ (chat.queue # <<>> => 1 \in DOMAIN chat.queue)
    BY <2>3
  <2> QED
    BY <1>1, <2>1, <2>4, <2>5 DEF Quietly
<1>2. CASE b \notin DOMAIN agents
  <2>1. agents'[b].turns = <<>> /\ agents'[b].pump = Rest
    BY <1>2 DEF QuietMore
  <2>2. agents'[b].pump.pc = "rest"
    <3>1. Rest.pc = "rest"
      BY DEF Rest
    <3> QED
      BY <2>1, <3>1
  <2>3. DOMAIN agents'[b].turns = {}
    BY <2>1
  <2> QED
    BY <2>2, <2>3 DEF Closing
<1> QED
  BY <1>1, <1>2

\* Nothing is used that was not.
LEMMA UsedBefore ==
  ASSUME TurnsTypeOK, QuietMore, LanesQuiet
  PROVE  Used' \subseteq Used
<1> SUFFICES ASSUME NEW t \in Turn, t \in Used' PROVE t \in Used
  BY DEF Used
<1>1. CASE \E l \in Lanes : task'[l].pc \in Starting \cup Sending /\ task'[l].turn = t
  BY <1>1 DEF LanesQuiet, Used
<1>2. CASE \E a \in DOMAIN agents' : \E i \in DOMAIN agents'[a].turns : agents'[a].turns[i].id = t
  BY <1>2, TurnsBefore DEF Used
<1>3. CASE \E a \in DOMAIN agents' : agents'[a].pump.pc \in Closing /\ agents'[a].pump.turn = t
  <2>1. PICK a \in DOMAIN agents' : agents'[a].pump.pc \in Closing /\ agents'[a].pump.turn = t
    BY <1>3
  <2>2. /\ a \in DOMAIN agents
        /\ \/ agents[a].pump.pc \in Closing /\ agents[a].pump.turn = t
           \/ 1 \in DOMAIN agents[a].turns /\ agents[a].turns[1].id = t
    BY <2>1, TurnsBefore
  <2> QED
    BY <2>2 DEF Used
<1> QED
  BY <1>1, <1>2, <1>3 DEF Used

\* Every turn there is has a number.
LEMMA Numbers ==
  ASSUME TurnsAssumption, TurnsTypeOK
  PROVE  /\ \A l \in Lanes : task[l].turn[1] \in 0..MaxStarts
         /\ \A a \in DOMAIN agents : agents[a].pump.turn[1] \in 0..MaxStarts
                                     /\ \A i \in DOMAIN agents[a].turns : agents[a].turns[i].id \in Turn /\ agents[a].turns[i].id[1] \in 0..MaxStarts
         /\ \A i \in DOMAIN chat.queue : chat.queue[i] \in Sent /\ chat.queue[i][1] \in 1..MaxStarts
         /\ spent.starts \in 0..MaxStarts /\ MaxStarts \in Nat
<1>1. \A l \in Lanes : task[l].turn \in Turn \cup {NoTurn}
  BY TypedLane DEF AtWork, Doing
<1>2. \A a \in DOMAIN agents : agents[a].pump.turn \in Turn \cup {NoTurn} /\ \A i \in DOMAIN agents[a].turns : agents[a].turns[i].id \in Turn
  <2> SUFFICES ASSUME NEW a \in DOMAIN agents
               PROVE  agents[a].pump.turn \in Turn \cup {NoTurn} /\ \A i \in DOMAIN agents[a].turns : agents[a].turns[i].id \in Turn
    OBVIOUS
  <2>1. agents[a].pump \in Pumping /\ agents[a].turns \in Seq(Pended)
    BY TypedProcess
  <2>2. \A i \in DOMAIN agents[a].turns : agents[a].turns[i] \in Pended
    BY <2>1
  <2> QED
    BY <2>1, <2>2 DEF Pumping, Pended
<1>3. \A i \in DOMAIN chat.queue : chat.queue[i] \in Sent
  <2>1. chat.queue \in Seq(Sent)
    BY DEF TurnsTypeOK, Chat
  <2> QED
    BY <2>1
<1>4. spent.starts \in 0..MaxStarts /\ MaxStarts \in Nat
  BY DEF TurnsTypeOK, TurnsAssumption
<1> QED
  BY <1>1, <1>2, <1>3, <1>4, Ids

LEMMA MintedOn ==
  ASSUME TurnsAssumption, TurnsTypeOK, TurnsTypeOK', spent'.starts >= spent.starts
  PROVE  /\ \A a : Minted(a) \subseteq Minted(a)'
         /\ \A n \in Nat : n <= spent.starts => n <= spent'.starts
         /\ 1..spent.starts \subseteq 1..spent'.starts
<1>1. spent'.starts \in Nat /\ spent.starts \in Nat
  BY DEF TurnsTypeOK, TurnsAssumption
<1>2. ASSUME NEW a, NEW t \in Turn, t \in Minted(a) PROVE t \in Minted(a)'
  <2>1. t[1] \in 0..MaxStarts /\ t[1] <= spent.starts /\ (t[1] = 0 => t = Woken(a)) /\ MaxStarts \in Nat
    BY <1>2, Ids DEF Minted, TurnsAssumption
  <2>2. t[1] <= spent'.starts
    BY <1>1, <2>1
  <2> QED
    BY <2>1, <2>2 DEF Minted
<1>3. \A a : Minted(a) \subseteq Turn
  BY DEF Minted
<1> QED
  BY <1>1, <1>2, <1>3

LEMMA MintedFrame ==
  ASSUME TurnsAssumption, TurnsTypeOK, TurnsTypeOK', IdsAreMinted, QuietMore, LanesQuiet, QueueShrinks,
         spent'.starts >= spent.starts
  PROVE  IdsAreMinted'
<1>1. \A l \in Lanes : task'[l].pc \in Starting \cup Sending => task'[l].turn[1] \in 1..spent'.starts
  BY MintedOn DEF LanesQuiet, IdsAreMinted
<1>2. \A i \in DOMAIN chat'.queue : chat'.queue[i][1] <= spent'.starts
  <2>1. \A i \in DOMAIN chat'.queue : chat'.queue[i][1] <= spent.starts /\ chat'.queue[i][1] \in Nat
    BY Numbers DEF QueueShrinks, IdsAreMinted
  <2> QED
    BY <2>1, MintedOn
<1>3. ASSUME NEW a \in DOMAIN agents'
      PROVE  /\ \A i \in DOMAIN agents'[a].turns : agents'[a].turns[i].id \in Minted(a)'
             /\ agents'[a].pump.pc \in Closing => agents'[a].pump.turn \in Minted(a)'
             /\ agents'[a].pump.pc = "drain" => agents'[a].pump.turn[1] <= spent'.starts
  <2>1. \A i \in DOMAIN agents'[a].turns : agents'[a].turns[i].id \in Minted(a)
    BY TurnsBefore DEF IdsAreMinted
  <2>2. agents'[a].pump.pc \in Closing => agents'[a].pump.turn \in Minted(a)
    BY TurnsBefore DEF IdsAreMinted
  <2>3. agents'[a].pump.pc = "drain" => agents'[a].pump.turn[1] <= spent.starts /\ agents'[a].pump.turn[1] \in Nat
    BY TurnsBefore, Numbers DEF IdsAreMinted
  <2> QED
    BY <2>1, <2>2, <2>3, MintedOn
<1> QED
  BY <1>1, <1>2, <1>3 DEF IdsAreMinted

LEMMA WaitFrame ==
  ASSUME TurnsAssumption, TurnsTypeOK, UndrainedWait, QuietMore, LanesQuiet, QueueShrinks
  PROVE  UndrainedWait'
<1>1. Used' \subseteq Used
  BY UsedBefore
<1>2. DOMAIN agents \subseteq 1..MaxAgents
  BY DEF TurnsTypeOK, TurnsAssumption
<1>3. ASSUME NEW a \in DOMAIN agents', agents'[a].pump.pc = "drain"
      PROVE  /\ a \in DOMAIN agents /\ a \in 1..MaxAgents
             /\ \/ agents[a].pump.pc = "drain" /\ agents'[a].pump.turn = agents[a].pump.turn
                \/ 1 \in DOMAIN chat.queue /\ agents'[a].pump.turn = chat.queue[1]
  BY <1>2, <1>3, TurnsBefore
<1>4. ASSUME NEW l \in Lanes, task'[l].pc = "queue"
      PROVE  /\ \A a \in 1..MaxAgents : Drained(task'[l].turn, a) \notin Used'
             /\ \A i \in DOMAIN chat'.queue : chat'.queue[i] # task'[l].turn
             /\ \A a \in DOMAIN agents' : agents'[a].pump.pc = "drain" => agents'[a].pump.turn # task'[l].turn
  <2>1. task[l].pc = "queue" /\ task'[l].turn = task[l].turn
    BY <1>4 DEF LanesQuiet, Starting
  <2>2. \A a \in 1..MaxAgents : Drained(task'[l].turn, a) \notin Used'
    BY <1>1, <2>1 DEF UndrainedWait
  <2>3. \A i \in DOMAIN chat'.queue : chat'.queue[i] # task'[l].turn
    BY <2>1 DEF UndrainedWait, QueueShrinks
  <2>4. \A a \in DOMAIN agents' : agents'[a].pump.pc = "drain" => agents'[a].pump.turn # task'[l].turn
    BY <1>3, <2>1 DEF UndrainedWait
  <2> QED
    BY <2>2, <2>3, <2>4
<1>5. \A i \in DOMAIN chat'.queue : \A a \in 1..MaxAgents : Drained(chat'.queue[i], a) \notin Used'
  BY <1>1 DEF UndrainedWait, QueueShrinks
<1>6. \A a \in DOMAIN agents' : agents'[a].pump.pc = "drain" => Drained(agents'[a].pump.turn, a) \notin Used'
  BY <1>1, <1>3 DEF UndrainedWait
<1> QED
  BY <1>4, <1>5, <1>6 DEF UndrainedWait

\* The turns of a process after a step.
LEMMA TypedProcesses ==
  ASSUME TurnsTypeOK', NEW a \in DOMAIN agents'
  PROVE  agents'[a].turns \in Seq(Pended)
<1>1. agents'[a] \in Process
  BY DEF TurnsTypeOK
<1> QED
  BY <1>1 DEF Process

\* A turn of a process that was there is one of it, further back or in front.
LEMMA TurnThatStays ==
  ASSUME TurnsTypeOK, QuietMore, NEW b \in DOMAIN agents', NEW i \in DOMAIN agents'[b].turns
  PROVE  /\ b \in DOMAIN agents
         /\ \E e : /\ ThinsBy(e, agents[b].turns, agents'[b].turns)
                   /\ e[i] \in DOMAIN agents[b].turns /\ e[i] \in Nat
                   /\ agents[b].turns[e[i]].id = agents'[b].turns[i].id
<1>1. b \in DOMAIN agents
  BY TurnsBefore
<1>2. PICK e : ThinsBy(e, agents[b].turns, agents'[b].turns)
  BY <1>1 DEF QuietMore, Quietly, Thins
<1>3. agents[b].turns \in Seq(Pended)
  BY <1>1, TypedProcess
<1>4. DOMAIN agents[b].turns \subseteq Nat
  BY <1>3
<1>5. e[i] \in DOMAIN agents[b].turns /\ agents[b].turns[e[i]].id = agents'[b].turns[i].id
  BY <1>2 DEF ThinsBy
<1> QED
  BY <1>1, <1>2, <1>4, <1>5

\* What is thinned to the front was in front.
LEMMA FrontWasFront ==
  ASSUME NEW s \in Seq(Pended), NEW q \in Seq(Pended), NEW e, ThinsBy(e, s, q), NEW i \in DOMAIN q, e[i] = 1
  PROVE  i = 1
<1>1. PICK n \in Nat : DOMAIN q = 1..n
  BY Z3
<1>2. PICK m \in Nat : DOMAIN s = 1..m
  BY Z3
<1>3. i \in 1..n /\ 1 \in 1..n
  BY <1>1
<1>4. e[1] \in 1..m
  BY <1>1, <1>2, <1>3 DEF ThinsBy
<1>5. i # 1 => e[1] < e[i]
  BY <1>1, <1>3 DEF ThinsBy
<1> QED
  BY <1>4, <1>5

\* Where the turns of the processes are, as the processes change quietly.
ProcessPlaces ==
  \A a, b \in DOMAIN agents : \A i \in DOMAIN agents[a].turns :
    /\ \A j \in DOMAIN agents[b].turns : agents[a].turns[i].id = agents[b].turns[j].id => a = b /\ i = j
    /\ agents[b].pump.pc \in Closing /\ agents[a].turns[i].id = agents[b].pump.turn =>
         a = b /\ i = 1 /\ agents[b].pump.pc # "apply"

LEMMA ProcessPlacesFrame ==
  ASSUME TurnsAssumption, TurnsTypeOK, TurnsTypeOK', TurnsHaveOnePlace, QuietMore
  PROVE  ProcessPlaces'
<1>1. ASSUME NEW a \in DOMAIN agents', NEW b \in DOMAIN agents', NEW i \in DOMAIN agents'[a].turns,
             NEW j \in DOMAIN agents'[b].turns, agents'[a].turns[i].id = agents'[b].turns[j].id
      PROVE  a = b /\ i = j
  <2>1. PICK e : /\ ThinsBy(e, agents[a].turns, agents'[a].turns)
                 /\ e[i] \in DOMAIN agents[a].turns /\ e[i] \in Nat
                 /\ agents[a].turns[e[i]].id = agents'[a].turns[i].id
    BY TurnThatStays
  <2>2. PICK f \in DOMAIN agents[b].turns : agents[b].turns[f].id = agents'[b].turns[j].id
    BY TurnsBefore
  <2>3. a \in DOMAIN agents /\ b \in DOMAIN agents
    BY TurnsBefore
  <2>4. a = b
    BY <1>1, <2>1, <2>2, <2>3 DEF TurnsHaveOnePlace
  <2>5. j \in DOMAIN agents'[a].turns /\ e[j] \in DOMAIN agents[a].turns /\ agents[a].turns[e[j]].id = agents'[a].turns[j].id
    BY <2>1, <2>4 DEF ThinsBy
  <2>6. e[i] = e[j]
    BY <1>1, <2>1, <2>3, <2>4, <2>5 DEF TurnsHaveOnePlace
  <2>7. agents[a].turns \in Seq(Pended) /\ agents'[a].turns \in Seq(Pended)
    BY <2>3, TypedProcess, TypedProcesses
  <2>8. i \in Nat /\ j \in Nat
    BY <2>5, <2>7
  <2>9. (i < j => e[i] < e[j]) /\ (j < i => e[j] < e[i])
    BY <2>1, <2>5 DEF ThinsBy
  <2> QED
    BY <2>1, <2>4, <2>6, <2>8, <2>9
<1>2. ASSUME NEW a \in DOMAIN agents', NEW b \in DOMAIN agents', NEW i \in DOMAIN agents'[a].turns,
             agents'[b].pump.pc \in Closing, agents'[a].turns[i].id = agents'[b].pump.turn
      PROVE  a = b /\ i = 1 /\ agents'[b].pump.pc # "apply"
  <2>1. a \in DOMAIN agents /\ b \in DOMAIN agents
    BY <1>2, TurnsBefore
  <2>2. ASSUME NEW e, ThinsBy(e, agents[a].turns, agents'[a].turns) PROVE a = b /\ e[i] = 1
    <3>1. e[i] \in DOMAIN agents[a].turns /\ agents[a].turns[e[i]].id = agents'[a].turns[i].id
      BY <2>2 DEF ThinsBy
    <3>2. CASE agents[b].pump.pc \in Closing /\ agents'[b].pump.turn = agents[b].pump.turn
      BY <1>2, <2>1, <3>1, <3>2 DEF TurnsHaveOnePlace
    <3>3. CASE 1 \in DOMAIN agents[b].turns /\ agents'[b].pump.turn = agents[b].turns[1].id
      BY <1>2, <2>1, <3>1, <3>3 DEF TurnsHaveOnePlace
    <3> QED
      BY <1>2, <3>2, <3>3, TurnsBefore
  <2>3. PICK e : ThinsBy(e, agents[a].turns, agents'[a].turns)
    BY TurnThatStays
  <2>4. agents[a].turns \in Seq(Pended) /\ agents'[a].turns \in Seq(Pended)
    BY <2>1, TypedProcess, TypedProcesses
  <2>5. a = b /\ i = 1
    BY <2>2, <2>3, <2>4, FrontWasFront
  <2>6. agents'[b].pump.pc # "apply"
    <3> SUFFICES ASSUME agents'[b].pump.pc = "apply" PROVE FALSE
      OBVIOUS
    <3>1. CASE agents[b].pump.pc = "apply" /\ agents'[b].pump.turn = agents[b].pump.turn
      <4>1. e[i] \in DOMAIN agents[a].turns /\ agents[a].turns[e[i]].id = agents'[a].turns[i].id
        BY <2>3 DEF ThinsBy
      <4> QED
        BY <1>2, <2>1, <3>1, <4>1 DEF TurnsHaveOnePlace, Closing
    <3>2. CASE Beheads(agents[b].turns, agents'[b].turns)
      <4>1. PICK f : ThinsBy(f, agents[a].turns, agents'[a].turns) /\ \A k \in DOMAIN agents'[a].turns : f[k] # 1
        BY <2>5, <3>2 DEF Beheads
      <4> QED
        BY <2>2, <4>1
    <3> QED
      BY <2>1, <3>1, <3>2 DEF QuietMore, Quietly
  <2> QED
    BY <2>5, <2>6
<1> QED
  BY <1>1, <1>2 DEF ProcessPlaces

LEMMA PlacesFrame ==
  ASSUME TurnsAssumption, TurnsTypeOK, TurnsTypeOK', TurnsHaveOnePlace, QuietMore, LanesQuiet
  PROVE  TurnsHaveOnePlace'
<1>1. \A l, k \in Lanes :
       {task'[l].pc, task'[k].pc} \subseteq Starting \cup Sending /\ task'[l].turn = task'[k].turn => l = k
  BY DEF TurnsHaveOnePlace, LanesQuiet
<1>2. ASSUME NEW l \in Lanes, NEW a \in DOMAIN agents', task'[l].pc \in Starting, agents'[a].pump.pc \in Closing
      PROVE  agents'[a].pump.turn # task'[l].turn
  BY <1>2, TurnsBefore DEF TurnsHaveOnePlace, LanesQuiet
<1>3. ASSUME NEW l \in Lanes, NEW a \in DOMAIN agents', NEW i \in DOMAIN agents'[a].turns,
             agents'[a].turns[i].id = task'[l].turn
      PROVE  /\ task'[l].pc \notin Starting
             /\ task'[l].pc \in Sending => a = task'[l].agent /\ (agents'[a].of = "codex" => i = 1)
  <2>1. PICK e : /\ ThinsBy(e, agents[a].turns, agents'[a].turns)
                 /\ e[i] \in DOMAIN agents[a].turns
                 /\ agents[a].turns[e[i]].id = agents'[a].turns[i].id
    BY TurnThatStays
  <2>2. a \in DOMAIN agents /\ agents'[a].of = agents[a].of
    BY TurnThatStays DEF QuietMore, Quietly
  <2>3. task'[l].pc \notin Starting
    BY <1>3, <2>1, <2>2 DEF TurnsHaveOnePlace, LanesQuiet
  <2>4. ASSUME task'[l].pc \in Sending
        PROVE  a = task'[l].agent /\ (agents'[a].of = "codex" => e[i] = 1)
    BY <1>3, <2>1, <2>2, <2>4 DEF TurnsHaveOnePlace, LanesQuiet
  <2>5. agents[a].turns \in Seq(Pended) /\ agents'[a].turns \in Seq(Pended)
    BY <2>2, TypedProcess, TypedProcesses
  <2>6. e[i] = 1 => i = 1
    BY <2>1, <2>5, FrontWasFront
  <2> QED
    BY <2>3, <2>4, <2>6
<1> QED
  BY <1>1, <1>2, <1>3, ProcessPlacesFrame DEF TurnsHaveOnePlace, ProcessPlaces

\* A lane starts a turn that was nowhere.
LEMMA PlacesFresh ==
  ASSUME TurnsAssumption, TurnsTypeOK, TurnsTypeOK', TurnsHaveOnePlace, QuietMore,
         NEW l \in Lanes, task'[l].pc \in Starting, task'[l].turn \in Turn, task'[l].turn \notin Used,
         \A k \in Lanes : k # l => task'[k] = task[k]
  PROVE  /\ TurnsHaveOnePlace'
         /\ Used' \subseteq Used \cup {task'[l].turn}
<1>1. \A k \in Lanes : k # l /\ task'[k].pc \in Starting \cup Sending => task'[k].turn \in Used
  <2>1. \A k \in Lanes : task[k].pc \in Starting \cup Sending => task[k].turn \in Turn
    BY TypedLane DEF AtWork, Doing, Starting, Sending
  <2> QED
    BY <2>1 DEF Used
<1>2. \A a \in DOMAIN agents' : \A i \in DOMAIN agents'[a].turns : agents'[a].turns[i].id \in Used
  <2>1. \A a \in DOMAIN agents : \A i \in DOMAIN agents[a].turns : agents[a].turns[i].id \in Used
    BY Numbers DEF Used
  <2> QED
    BY <2>1, TurnsBefore
<1>3. \A a \in DOMAIN agents' : agents'[a].pump.pc \in Closing => agents'[a].pump.turn \in Used
  <2>1. \A a \in DOMAIN agents : \A i \in DOMAIN agents[a].turns : agents[a].turns[i].id \in Used
    BY Numbers DEF Used
  <2>2. \A a \in DOMAIN agents : agents[a].pump.pc \in Closing => agents[a].pump.turn \in Used
    <3>1. \A a \in DOMAIN agents : agents[a].pump.pc \in Closing => agents[a].pump.turn \in Turn
      BY TypedProcess DEF PumpAtWork, Pumping, Closing
    <3> QED
      BY <3>1 DEF Used
  <2> QED
    BY <2>1, <2>2, TurnsBefore
<1>4. \A k, j \in Lanes :
       {task'[k].pc, task'[j].pc} \subseteq Starting \cup Sending /\ task'[k].turn = task'[j].turn => k = j
  BY <1>1 DEF TurnsHaveOnePlace
<1>5. \A k \in Lanes, a \in DOMAIN agents' :
        task'[k].pc \in Starting /\ agents'[a].pump.pc \in Closing => agents'[a].pump.turn # task'[k].turn
  <2> SUFFICES ASSUME NEW k \in Lanes, NEW a \in DOMAIN agents', task'[k].pc \in Starting, agents'[a].pump.pc \in Closing
               PROVE  agents'[a].pump.turn # task'[k].turn
    OBVIOUS
  <2>1. CASE k = l
    BY <1>3, <2>1
  <2>2. CASE k # l
    BY <2>2, TurnsBefore DEF TurnsHaveOnePlace
  <2> QED
    BY <2>1, <2>2
<1>6. ASSUME NEW k \in Lanes, NEW a \in DOMAIN agents', NEW i \in DOMAIN agents'[a].turns,
             agents'[a].turns[i].id = task'[k].turn
      PROVE  /\ task'[k].pc \notin Starting
             /\ task'[k].pc \in Sending => a = task'[k].agent /\ (agents'[a].of = "codex" => i = 1)
  <2>1. k # l /\ task'[k] = task[k]
    BY <1>2, <1>6
  <2>2. PICK e : /\ ThinsBy(e, agents[a].turns, agents'[a].turns)
                 /\ e[i] \in DOMAIN agents[a].turns
                 /\ agents[a].turns[e[i]].id = agents'[a].turns[i].id
    BY TurnThatStays
  <2>3. a \in DOMAIN agents /\ agents'[a].of = agents[a].of
    BY TurnThatStays DEF QuietMore, Quietly
  <2>4. task'[k].pc \notin Starting /\ (task'[k].pc \in Sending => a = task'[k].agent /\ (agents'[a].of = "codex" => e[i] = 1))
    BY <1>6, <2>1, <2>2, <2>3 DEF TurnsHaveOnePlace
  <2>5. agents[a].turns \in Seq(Pended) /\ agents'[a].turns \in Seq(Pended)
    BY <2>3, TypedProcess, TypedProcesses
  <2>6. e[i] = 1 => i = 1
    BY <2>2, <2>5, FrontWasFront
  <2> QED
    BY <2>4, <2>6
<1>7. TurnsHaveOnePlace'
  BY <1>4, <1>5, <1>6, ProcessPlacesFrame DEF TurnsHaveOnePlace, ProcessPlaces
<1>8. Used' \subseteq Used \cup {task'[l].turn}
  <2> SUFFICES ASSUME NEW t \in Turn, t \in Used' PROVE t \in Used \/ t = task'[l].turn
    BY DEF Used
  <2>1. CASE \E k \in Lanes : task'[k].pc \in Starting \cup Sending /\ task'[k].turn = t
    BY <1>1, <2>1
  <2>2. CASE \E a \in DOMAIN agents' : \E i \in DOMAIN agents'[a].turns : agents'[a].turns[i].id = t
    BY <1>2, <2>2
  <2>3. CASE \E a \in DOMAIN agents' : agents'[a].pump.pc \in Closing /\ agents'[a].pump.turn = t
    BY <1>3, <2>3
  <2> QED
    BY <2>1, <2>2, <2>3 DEF Used
<1> QED
  BY <1>7, <1>8

\* What is used was minted, and no process wakes but as itself.
LEMMA UsedIsMinted ==
  ASSUME TurnsAssumption, TurnsTypeOK, IdsAreMinted, NEW t \in Used
  PROVE  /\ t \in Turn /\ t[1] \in 0..spent.starts
         /\ t[1] = 0 => \E a \in DOMAIN agents : t = Woken(a)
<1>1. t \in Turn /\ t[1] \in 0..MaxStarts
  BY Ids DEF Used
<1>2. spent.starts \in 0..MaxStarts /\ MaxStarts \in Nat
  BY Numbers
<1>3. CASE \E l \in Lanes : task[l].pc \in Starting \cup Sending /\ task[l].turn = t
  BY <1>1, <1>2, <1>3 DEF IdsAreMinted
<1>4. CASE \E a \in DOMAIN agents : t \in Minted(a)
  BY <1>1, <1>2, <1>4 DEF Minted
<1> QED
  BY <1>3, <1>4 DEF Used, IdsAreMinted

LEMMA ApartFrame ==
  ASSUME TurnsAssumption, TurnsTypeOK, TurnsTypeOK', TurnsAreKnownApart, QuietMore, LanesQuiet, QueueShrinks,
         spent'.starts = spent.starts
  PROVE  TurnsAreKnownApart'
<1>1. spent'.starts >= spent.starts
  BY Numbers
<1> QED
  BY <1>1, MintedFrame, WaitFrame, PlacesFrame DEF TurnsAreKnownApart

LEMMA ApartStart ==
  ASSUME TurnsAssumption, TurnsTypeOK, TurnsAreKnownApart, NEW l \in Conn, StartTurn(l)
  PROVE  TurnsAreKnownApart'
<1> DEFINE n == spent.starts + 1
           g == Given(n)
<1>1. /\ TurnsTypeOK' /\ QuietMore /\ l \in Lanes /\ spent'.starts = n
      /\ task'[l].turn = g /\ task'[l].pc \in {"queue", "begin"} /\ \A k \in Lanes : k # l => task'[k] = task[k]
      /\ UNCHANGED <<chat, agents>>
  BY StartTurnDoes, QuietIsMore DEF Lanes
<1>2. spent.starts \in Nat /\ n \in 1..MaxStarts /\ MaxStarts \in Nat /\ n > spent.starts
  <2>1. spent.starts < MaxStarts
    BY DEF StartTurn
  <2> QED
    BY <2>1, Numbers
<1>3. g \in Sent /\ g[1] = n /\ g \in Turn
  BY <1>2, Ids
<1> HIDE DEF g
<1>4. \A t \in Used : t[1] # n
  BY <1>2, UsedIsMinted DEF TurnsAreKnownApart
<1> HIDE DEF n
<1>5. TurnsHaveOnePlace' /\ Used' \subseteq Used \cup {g}
  BY <1>1, <1>3, <1>4, PlacesFresh DEF TurnsAreKnownApart, Starting
<1>6. \A m \in Sent, a \in 1..MaxAgents : m # g /\ Drained(m, a) \notin Used => Drained(m, a) \notin Used'
  <2>1. \A m \in Sent, a \in 1..MaxAgents : Drained(m, a) # g
    <3>1. 0 \notin 1..MaxAgents
      BY DEF TurnsAssumption
    <3>2. \A m \in Sent, a \in 1..MaxAgents : Drained(m, a)[2] = a
      BY DEF Drained
    <3> QED
      BY <1>3, <3>1, <3>2, Ids
  <2> QED
    BY <1>5, <2>1
<1>7. \A a \in 1..MaxAgents : Drained(g, a) \notin Used'
  <2>1. \A a \in 1..MaxAgents : Drained(g, a)[1] = n /\ Drained(g, a) # g
    <3>1. 0 \notin 1..MaxAgents
      BY DEF TurnsAssumption
    <3>2. \A a \in 1..MaxAgents : Drained(g, a)[2] = a
      BY DEF Drained
    <3> QED
      BY <1>3, <3>1, <3>2, Ids
  <2> QED
    BY <1>4, <1>5, <2>1
<1>8. DOMAIN agents \subseteq 1..MaxAgents
  BY DEF TurnsTypeOK, TurnsAssumption
<1>9. \A a \in DOMAIN agents : agents[a].pump.pc = "drain" => agents[a].pump.turn # g /\ agents[a].pump.turn \in Sent
  BY <1>2, <1>3, TypedProcess DEF TurnsAreKnownApart, IdsAreMinted, PumpAtWork
<1>10. \A i \in DOMAIN chat.queue : chat.queue[i] # g /\ chat.queue[i] \in Sent
  BY <1>2, <1>3, Numbers DEF TurnsAreKnownApart, IdsAreMinted
<1>11. UndrainedWait'
  <2>1. ASSUME NEW k \in Lanes, task'[k].pc = "queue"
        PROVE  /\ \A a \in 1..MaxAgents : Drained(task'[k].turn, a) \notin Used'
               /\ \A i \in DOMAIN chat.queue : chat.queue[i] # task'[k].turn
               /\ \A a \in DOMAIN agents : agents[a].pump.pc = "drain" => agents[a].pump.turn # task'[k].turn
    <3>1. CASE k = l
      BY <1>1, <1>7, <1>9, <1>10, <3>1
    <3>2. CASE k # l
      <4>1. task'[k] = task[k] /\ task[k].pc = "queue" /\ task[k].turn \in Sent
        BY <1>1, <2>1, <3>2, TypedLane DEF AtWork
      <4>2. task[k].turn # g
        BY <1>2, <1>3, <4>1 DEF TurnsAreKnownApart, IdsAreMinted, Starting
      <4> QED
        BY <1>6, <4>1, <4>2 DEF TurnsAreKnownApart, UndrainedWait
    <3> QED
      BY <3>1, <3>2
  <2>2. \A i \in DOMAIN chat.queue : \A a \in 1..MaxAgents : Drained(chat.queue[i], a) \notin Used'
    BY <1>6, <1>10 DEF TurnsAreKnownApart, UndrainedWait
  <2>3. \A a \in DOMAIN agents : agents[a].pump.pc = "drain" => Drained(agents[a].pump.turn, a) \notin Used'
    BY <1>6, <1>8, <1>9 DEF TurnsAreKnownApart, UndrainedWait
  <2> QED
    BY <1>1, <2>1, <2>2, <2>3 DEF UndrainedWait
<1>12. IdsAreMinted'
  <2>1. spent'.starts >= spent.starts
    BY <1>1, <1>2
  <2>2. \A k \in Lanes : task'[k].pc \in Starting \cup Sending => task'[k].turn[1] \in 1..spent'.starts
    <3>1. n \in 1..n
      BY <1>2
    <3> QED
      BY <1>1, <1>3, <2>1, <3>1, MintedOn DEF TurnsAreKnownApart, IdsAreMinted
  <2>3. ASSUME NEW a \in DOMAIN agents
        PROVE  /\ \A i \in DOMAIN agents[a].turns : agents[a].turns[i].id \in Minted(a)'
               /\ agents[a].pump.pc \in Closing => agents[a].pump.turn \in Minted(a)'
               /\ agents[a].pump.pc = "drain" => agents[a].pump.turn[1] <= spent'.starts
    BY <1>1, <2>1, MintedOn, Numbers DEF TurnsAreKnownApart, IdsAreMinted
  <2>4. \A i \in DOMAIN chat.queue : chat.queue[i][1] <= spent'.starts
    BY <1>1, <2>1, MintedOn, Numbers DEF TurnsAreKnownApart, IdsAreMinted
  <2> QED
    BY <1>1, <2>2, <2>3, <2>4 DEF IdsAreMinted
<1> QED
  BY <1>5, <1>11, <1>12 DEF TurnsAreKnownApart

LEMMA LanesSame ==
  ASSUME task' = task
  PROVE  LanesQuiet
BY DEF LanesQuiet

LEMMA QueueSame ==
  ASSUME chat'.queue = chat.queue
  PROVE  QueueShrinks
BY DEF QueueShrinks

\* A turn that finds the chat busy joins the queue.
LEMMA ApartQueue ==
  ASSUME TurnsAssumption, TurnsTypeOK, TurnsAreKnownApart, NEW l \in Lanes, QueueTurn(l)
  PROVE  TurnsAreKnownApart'
<1> DEFINE t == task[l].turn
<1>1. /\ TurnsTypeOK' /\ QuietMore /\ LanesQuiet
      /\ \A k \in Lanes : k # l => task'[k] = task[k]
      /\ \A i \in DOMAIN chat'.queue : chat'.queue[i] = t \/ \E j \in DOMAIN chat.queue : chat'.queue[i] = chat.queue[j]
  BY QueueTurnDoes, QuietIsMore
<1>2. task'[l].pc = "idle" /\ task[l].pc = "queue" /\ agents' = agents /\ spent' = spent
  <2>1. task'[l] = Idle /\ Idle.pc = "idle"
    BY QueueTurnDoes DEF Idle
  <2> QED
    BY <2>1 DEF QueueTurn
<1>3. t[1] \in 1..spent.starts /\ spent.starts \in Nat
  BY <1>2, Numbers DEF TurnsAreKnownApart, IdsAreMinted, Starting
<1>4. Used' \subseteq Used
  BY <1>1, UsedBefore
<1>5. \A a \in 1..MaxAgents : Drained(t, a) \notin Used
  BY <1>2 DEF TurnsAreKnownApart, UndrainedWait
<1>6. \A a \in DOMAIN agents : agents[a].pump.pc = "drain" => agents[a].pump.turn # t
  BY <1>2 DEF TurnsAreKnownApart, UndrainedWait
<1>7. \A k \in Lanes : k # l /\ task[k].pc = "queue" => task[k].turn # t
  BY <1>2 DEF TurnsAreKnownApart, TurnsHaveOnePlace, Starting
<1> HIDE DEF t
<1>8. TurnsHaveOnePlace'
  BY <1>1, PlacesFrame DEF TurnsAreKnownApart
<1>9. UndrainedWait'
  <2>1. ASSUME NEW k \in Lanes, task'[k].pc = "queue"
        PROVE  /\ \A a \in 1..MaxAgents : Drained(task'[k].turn, a) \notin Used'
               /\ \A i \in DOMAIN chat'.queue : chat'.queue[i] # task'[k].turn
               /\ \A a \in DOMAIN agents : agents[a].pump.pc = "drain" => agents[a].pump.turn # task'[k].turn
    <3>1. k # l /\ task'[k] = task[k]
      BY <1>1, <1>2, <2>1
    <3> QED
      BY <1>1, <1>4, <1>7, <2>1, <3>1 DEF TurnsAreKnownApart, UndrainedWait
  <2>2. \A i \in DOMAIN chat'.queue : \A a \in 1..MaxAgents : Drained(chat'.queue[i], a) \notin Used'
    BY <1>1, <1>4, <1>5 DEF TurnsAreKnownApart, UndrainedWait
  <2>3. \A a \in DOMAIN agents : agents[a].pump.pc = "drain" => Drained(agents[a].pump.turn, a) \notin Used'
    BY <1>4 DEF TurnsAreKnownApart, UndrainedWait
  <2> QED
    BY <1>2, <2>1, <2>2, <2>3 DEF UndrainedWait
<1>10. IdsAreMinted'
  <2>1. \A k \in Lanes : task'[k].pc \in Starting \cup Sending => task'[k].turn[1] \in 1..spent.starts
    BY <1>1 DEF TurnsAreKnownApart, IdsAreMinted, LanesQuiet
  <2>2. \A i \in DOMAIN chat'.queue : chat'.queue[i][1] <= spent.starts
    BY <1>1, <1>3 DEF TurnsAreKnownApart, IdsAreMinted
  <2> QED
    BY <1>2, <2>1, <2>2 DEF TurnsAreKnownApart, IdsAreMinted, Minted
<1> QED
  BY <1>8, <1>9, <1>10 DEF TurnsAreKnownApart

LEMMA ApartMessage ==
  ASSUME TurnsAssumption, TurnsTypeOK, TurnsAreKnownApart, QueueMessage
  PROVE  TurnsAreKnownApart'
<1> DEFINE n == spent.starts + 1
           g == Given(n)
<1>1. /\ TurnsTypeOK' /\ QuietMore /\ LanesQuiet /\ UNCHANGED <<agents, task>> /\ spent'.starts = n
      /\ \A i \in DOMAIN chat'.queue : chat'.queue[i] = g \/ \E j \in DOMAIN chat.queue : chat'.queue[i] = chat.queue[j]
  BY QueueMessageDoes, QuietIsMore, LanesSame
<1>2. spent.starts \in Nat /\ n \in 1..MaxStarts /\ n > spent.starts
  <2>1. spent.starts < MaxStarts
    BY DEF QueueMessage
  <2> QED
    BY <2>1, Numbers
<1>3. g \in Sent /\ g[1] = n
  BY <1>2, Ids
<1> HIDE DEF g
<1>4. \A a \in 1..MaxAgents : Drained(g, a) \notin Used
  <2>1. \A a \in 1..MaxAgents : Drained(g, a)[1] = n
    BY <1>3, Ids
  <2> QED
    BY <1>2, <2>1, UsedIsMinted DEF TurnsAreKnownApart
<1> HIDE DEF n
<1>5. Used' \subseteq Used
  BY <1>1, UsedBefore
<1>6. TurnsHaveOnePlace'
  BY <1>1, PlacesFrame DEF TurnsAreKnownApart
<1>7. UndrainedWait'
  <2>1. \A k \in Lanes : task[k].pc = "queue" => task[k].turn # g
    BY <1>2, <1>3 DEF TurnsAreKnownApart, IdsAreMinted, Starting
  <2>2. \A k \in Lanes : task[k].pc = "queue" =>
          /\ \A a \in 1..MaxAgents : Drained(task[k].turn, a) \notin Used'
          /\ \A i \in DOMAIN chat'.queue : chat'.queue[i] # task[k].turn
          /\ \A a \in DOMAIN agents : agents[a].pump.pc = "drain" => agents[a].pump.turn # task[k].turn
    BY <1>1, <1>5, <2>1 DEF TurnsAreKnownApart, UndrainedWait
  <2>3. \A i \in DOMAIN chat'.queue : \A a \in 1..MaxAgents : Drained(chat'.queue[i], a) \notin Used'
    BY <1>1, <1>4, <1>5 DEF TurnsAreKnownApart, UndrainedWait
  <2>4. \A a \in DOMAIN agents : agents[a].pump.pc = "drain" => Drained(agents[a].pump.turn, a) \notin Used'
    BY <1>5 DEF TurnsAreKnownApart, UndrainedWait
  <2> QED
    BY <1>1, <2>2, <2>3, <2>4 DEF UndrainedWait
<1>8. IdsAreMinted'
  <2>1. spent'.starts >= spent.starts
    BY <1>1, <1>2
  <2>2. \A k \in Lanes : task[k].pc \in Starting \cup Sending => task[k].turn[1] \in 1..spent'.starts
    BY <1>1, <2>1, MintedOn DEF TurnsAreKnownApart, IdsAreMinted
  <2>3. ASSUME NEW a \in DOMAIN agents
        PROVE  /\ \A i \in DOMAIN agents[a].turns : agents[a].turns[i].id \in Minted(a)'
               /\ agents[a].pump.pc \in Closing => agents[a].pump.turn \in Minted(a)'
               /\ agents[a].pump.pc = "drain" => agents[a].pump.turn[1] <= spent'.starts
    BY <1>1, <2>1, MintedOn, Numbers DEF TurnsAreKnownApart, IdsAreMinted
  <2>4. \A i \in DOMAIN chat'.queue : chat'.queue[i][1] <= spent'.starts
    <3>1. n <= n /\ \A j \in DOMAIN chat.queue : chat.queue[j][1] <= spent'.starts
      BY <1>1, <1>2, <2>1, MintedOn, Numbers DEF TurnsAreKnownApart, IdsAreMinted
    <3> QED
      BY <1>1, <1>3, <3>1
  <2> QED
    BY <1>1, <2>2, <2>3, <2>4 DEF IdsAreMinted
<1> QED
  BY <1>6, <1>7, <1>8 DEF TurnsAreKnownApart

\* The head of the queue becomes a turn.
LEMMA ApartDrain ==
  ASSUME TurnsAssumption, TurnsTypeOK, TurnsAreKnownApart, NEW a \in DOMAIN agents, DrainQueue(a)
  PROVE  TurnsAreKnownApart'
<1> DEFINE m == agents[a].pump.turn
           t == Drained(m, a)
<1>1. /\ TurnsTypeOK' /\ QuietMore /\ spent'.starts = spent.starts
      /\ agents[a].pump.pc = "drain" /\ m \in Sent /\ t \in Turn /\ a \in 1..MaxAgents
      /\ agents'[a].pump.pc = "after" /\ Drainer \in Lanes
      /\ task'[Drainer].pc = "ensure" /\ task'[Drainer].turn = t
      /\ \A k \in Lanes : k # Drainer => task'[k] = task[k]
      /\ \A b \in DOMAIN agents : b # a => agents'[b].pump = agents[b].pump
  BY DrainQueueDoes, QuietIsMore DEF Lanes
<1>2. \A i \in DOMAIN chat'.queue : chat'.queue[i] # m /\ \E j \in DOMAIN chat.queue : chat'.queue[i] = chat.queue[j]
  <2>1. chat \in Chat /\ chat'.queue = Without(chat, {m}).queue
    BY DrainQueueDoes DEF TurnsTypeOK
  <2> HIDE DEF m
  <2>2. \A i \in DOMAIN Without(chat, {m}).queue :
          \E j \in DOMAIN chat.queue : chat.queue[j] \notin {m} /\ Without(chat, {m}).queue[i] = chat.queue[j]
    BY <2>1, WithoutFields
  <2> QED
    BY <2>1, <2>2
<1>3. t \notin Used /\ m[1] \in 1..spent.starts
  BY <1>1, Ids, Numbers DEF TurnsAreKnownApart, UndrainedWait, IdsAreMinted
<1>4. t[1] = m[1]
  BY <1>1, Ids
<1>5. \A k \in Sent, b \in 1..MaxAgents : k # m \/ b # a => Drained(k, b) # t
  BY <1>1, DrainsDiffer
<1> HIDE DEF m, t
<1>6. TurnsHaveOnePlace' /\ Used' \subseteq Used \cup {t}
  BY <1>1, <1>3, PlacesFresh DEF TurnsAreKnownApart, Starting
<1>7. DOMAIN agents \subseteq 1..MaxAgents /\ DOMAIN agents' = DOMAIN agents
  <2>1. QuietStep
    BY DrainQueueDoes
  <2> QED
    BY <2>1 DEF TurnsTypeOK, TurnsAssumption, QuietStep
<1>8. ASSUME NEW b \in DOMAIN agents', agents'[b].pump.pc = "drain"
      PROVE  b # a /\ agents'[b].pump = agents[b].pump /\ agents[b].pump.turn \in Sent /\ b \in 1..MaxAgents
  BY <1>1, <1>7, <1>8, TypedProcess DEF PumpAtWork
<1>9. UndrainedWait'
  <2>1. ASSUME NEW k \in Lanes, task'[k].pc = "queue"
        PROVE  /\ \A b \in 1..MaxAgents : Drained(task'[k].turn, b) \notin Used'
               /\ \A i \in DOMAIN chat'.queue : chat'.queue[i] # task'[k].turn
               /\ \A b \in DOMAIN agents' : agents'[b].pump.pc = "drain" => agents'[b].pump.turn # task'[k].turn
    <3>1. task'[k] = task[k] /\ task[k].pc = "queue" /\ task[k].turn \in Sent
      BY <1>1, <2>1, TypedLane DEF AtWork
    <3>2. task[k].turn # m
      BY <1>1, <3>1 DEF TurnsAreKnownApart, UndrainedWait, m
    <3>3. \A b \in 1..MaxAgents : Drained(task'[k].turn, b) \notin Used'
      BY <1>5, <1>6, <3>1, <3>2 DEF TurnsAreKnownApart, UndrainedWait
    <3>4. \A i \in DOMAIN chat'.queue : chat'.queue[i] # task'[k].turn
      BY <1>2, <3>1 DEF TurnsAreKnownApart, UndrainedWait
    <3>5. \A b \in DOMAIN agents' : agents'[b].pump.pc = "drain" => agents'[b].pump.turn # task'[k].turn
      BY <1>7, <1>8, <3>1 DEF TurnsAreKnownApart, UndrainedWait
    <3> QED
      BY <3>3, <3>4, <3>5
  <2>2. \A i \in DOMAIN chat'.queue : \A b \in 1..MaxAgents : Drained(chat'.queue[i], b) \notin Used'
    <3>1. \A j \in DOMAIN chat.queue : chat.queue[j] \in Sent
      BY Numbers
    <3> QED
      BY <1>2, <1>5, <1>6, <3>1 DEF TurnsAreKnownApart, UndrainedWait
  <2>3. \A b \in DOMAIN agents' : agents'[b].pump.pc = "drain" => Drained(agents'[b].pump.turn, b) \notin Used'
    BY <1>5, <1>6, <1>7, <1>8 DEF TurnsAreKnownApart, UndrainedWait
  <2> QED
    BY <2>1, <2>2, <2>3 DEF UndrainedWait
<1>10. IdsAreMinted'
  <2>1. \A k \in Lanes : task'[k].pc \in Starting \cup Sending => task'[k].turn[1] \in 1..spent.starts
    BY <1>1, <1>3, <1>4 DEF TurnsAreKnownApart, IdsAreMinted
  <2>2. \A i \in DOMAIN chat'.queue : chat'.queue[i][1] <= spent.starts
    BY <1>2 DEF TurnsAreKnownApart, IdsAreMinted
  <2>3. ASSUME NEW b \in DOMAIN agents'
        PROVE  /\ \A i \in DOMAIN agents'[b].turns : agents'[b].turns[i].id \in Minted(b)
               /\ agents'[b].pump.pc \in Closing => agents'[b].pump.turn \in Minted(b)
               /\ agents'[b].pump.pc = "drain" => agents'[b].pump.turn[1] <= spent.starts
    <3>1. \A i \in DOMAIN agents'[b].turns : agents'[b].turns[i].id \in Minted(b)
      BY <1>1, TurnsBefore DEF TurnsAreKnownApart, IdsAreMinted
    <3>2. agents'[b].pump.pc \in Closing => agents'[b].pump.turn \in Minted(b)
      BY <1>1, TurnsBefore DEF TurnsAreKnownApart, IdsAreMinted
    <3>3. agents'[b].pump.pc = "drain" => agents'[b].pump.turn[1] <= spent.starts
      BY <1>7, <1>8 DEF TurnsAreKnownApart, IdsAreMinted
    <3> QED
      BY <3>1, <3>2, <3>3
  <2> QED
    BY <1>1, <2>1, <2>2, <2>3 DEF IdsAreMinted, Minted
<1> QED
  BY <1>6, <1>9, <1>10 DEF TurnsAreKnownApart

\* A prompt is given to its agent: what was a lane's turn is the process's.
LEMMA ApartPush ==
  ASSUME TurnsAssumption, TurnsTypeOK, TurnsAreKnownApart, NEW l \in Lanes, PushTurn(l)
  PROVE  TurnsAreKnownApart'
<1>1. /\ TurnsTypeOK' /\ task[l].pc = "push" /\ UNCHANGED spent
      /\ \A k \in Lanes : k # l => task'[k] = task[k]
  BY PushTurnDoes
<1>2. CASE agents' = agents /\ TurnFailed(l) /\ QuietStep
  <2>1. LanesQuiet /\ chat'.queue = chat.queue
    BY <1>2, TurnFailedDoes
  <2> QED
    BY <1>1, <1>2, <2>1, QuietIsMore, QueueSame, ApartFrame
<1>3. ASSUME NEW a \in DOMAIN agents, NEW held \in BOOLEAN,
             a = task[l].agent, chat' = chat, DOMAIN agents' = DOMAIN agents,
             held <=> agents[a].of = "codex" /\ agents[a].turns # <<>>,
             agents'[a] = [agents[a] EXCEPT !.turns = Append(agents[a].turns, Pending(task[l].turn, held))],
             \A b \in DOMAIN agents : b # a => agents'[b] = agents[b],
             IF held THEN task'[l] = Idle
             ELSE task'[l].pc = "send" /\ task'[l].turn = task[l].turn /\ task'[l].agent = task[l].agent
      PROVE  TurnsAreKnownApart'
  <2> DEFINE t == task[l].turn
             x == Pending(t, held)
  <2>1. t \in Turn /\ agents[a].turns \in Seq(Pended) /\ agents[a] \in Process
    BY <1>1, LaneHasAgent, TypedProcess DEF AtItsAgent
  <2>2. x \in Pended /\ x.id = t
    BY <2>1 DEF Pending, Pended
  <2>3. t \in Used /\ t[1] \in 1..spent.starts
    BY <1>1, <2>1 DEF Used, Starting, TurnsAreKnownApart, IdsAreMinted
  <2> HIDE DEF t, x
  <2>4. PICK n \in Nat : Len(agents[a].turns) = n /\ DOMAIN agents[a].turns = 1..n
    BY <2>1
  <2>5. /\ agents'[a].turns = Append(agents[a].turns, x)
        /\ agents'[a].pump = agents[a].pump /\ agents'[a].of = agents[a].of
    BY <1>3, <2>1 DEF Process, t, x
  <2>6. /\ DOMAIN agents'[a].turns = 1..(n + 1) /\ agents'[a].turns[n + 1].id = t
        /\ \A i \in 1..n : agents'[a].turns[i].id = agents[a].turns[i].id
    BY <2>1, <2>2, <2>4, <2>5, AppendHas
  <2>7. \A b \in DOMAIN agents' : \A i \in DOMAIN agents'[b].turns :
          \/ b = a /\ i = n + 1 /\ agents'[b].turns[i].id = t
          \/ i \in DOMAIN agents[b].turns /\ agents'[b].turns[i].id = agents[b].turns[i].id
    <3>1. \A i \in DOMAIN agents'[a].turns :
            \/ i = n + 1 /\ agents'[a].turns[i].id = t
            \/ i \in DOMAIN agents[a].turns /\ agents'[a].turns[i].id = agents[a].turns[i].id
      BY <2>4, <2>6
    <3>2. \A b \in DOMAIN agents' : b # a => agents'[b] = agents[b]
      BY <1>3
    <3> QED
      BY <3>1, <3>2
  <2>8. \A b \in DOMAIN agents' : b \in DOMAIN agents /\ agents'[b].pump = agents[b].pump /\ agents'[b].of = agents[b].of
    BY <1>3, <2>5
  <2>9. \A k \in Lanes :
          /\ task'[k].pc \in Starting => k # l /\ task'[k] = task[k]
          /\ task'[k].pc \in Sending => \/ k # l /\ task'[k] = task[k]
                                        \/ k = l /\ ~held /\ task'[k].turn = t /\ task'[k].agent = a
    <3>1. task'[l].pc \notin Starting /\ (task'[l].pc \in Sending => ~held /\ task'[l].turn = t /\ task'[l].agent = a)
      <4>1. Idle.pc = "idle"
        BY DEF Idle
      <4> QED
        BY <1>3, <4>1 DEF Starting, Sending, t
    <3> QED
      BY <1>1, <3>1
  <2>10. Used' \subseteq Used
    <3> SUFFICES ASSUME NEW u \in Turn, u \in Used' PROVE u \in Used
      BY DEF Used
    <3>1. CASE \E k \in Lanes : task'[k].pc \in Starting \cup Sending /\ task'[k].turn = u
      BY <2>3, <2>9, <3>1 DEF Used
    <3>2. CASE \E b \in DOMAIN agents' : \E i \in DOMAIN agents'[b].turns : agents'[b].turns[i].id = u
      BY <2>3, <2>7, <2>8, <3>2 DEF Used
    <3>3. CASE \E b \in DOMAIN agents' : agents'[b].pump.pc \in Closing /\ agents'[b].pump.turn = u
      BY <2>8, <3>3 DEF Used
    <3> QED
      BY <3>1, <3>2, <3>3 DEF Used
  <2>11. UndrainedWait'
    <3>1. ASSUME NEW k \in Lanes, task'[k].pc = "queue" PROVE task'[k] = task[k]
      BY <2>9, <3>1 DEF Starting
    <3> QED
      BY <1>3, <2>8, <2>10, <3>1 DEF TurnsAreKnownApart, UndrainedWait
  <2>12. IdsAreMinted'
    <3>1. \A k \in Lanes : task'[k].pc \in Starting \cup Sending => task'[k].turn[1] \in 1..spent.starts
      BY <2>3, <2>9 DEF TurnsAreKnownApart, IdsAreMinted
    <3>2. t \in Minted(a)
      <4>1. t[1] <= spent.starts /\ t[1] # 0
        BY <2>3, Numbers
      <4> QED
        BY <2>1, <4>1 DEF Minted
    <3>3. \A b \in DOMAIN agents' : \A i \in DOMAIN agents'[b].turns : agents'[b].turns[i].id \in Minted(b)
      BY <2>7, <2>8, <3>2 DEF TurnsAreKnownApart, IdsAreMinted
    <3>4. \A b \in DOMAIN agents' : /\ agents'[b].pump.pc \in Closing => agents'[b].pump.turn \in Minted(b)
                                    /\ agents'[b].pump.pc = "drain" => agents'[b].pump.turn[1] <= spent.starts
      BY <2>8 DEF TurnsAreKnownApart, IdsAreMinted
    <3> QED
      BY <1>1, <1>3, <3>1, <3>3, <3>4 DEF TurnsAreKnownApart, IdsAreMinted, Minted
  <2>13. /\ \A k \in Lanes : k # l /\ task[k].pc \in Starting \cup Sending => task[k].turn # t
         /\ \A b \in DOMAIN agents : agents[b].pump.pc \in Closing => agents[b].pump.turn # t
         /\ \A b \in DOMAIN agents : \A i \in DOMAIN agents[b].turns : agents[b].turns[i].id # t
    BY <1>1 DEF TurnsAreKnownApart, TurnsHaveOnePlace, Starting, t
  <2>14. \A k, j \in Lanes :
           {task'[k].pc, task'[j].pc} \subseteq Starting \cup Sending /\ task'[k].turn = task'[j].turn => k = j
    BY <2>9, <2>13 DEF TurnsAreKnownApart, TurnsHaveOnePlace
  <2>15. ASSUME NEW k \in Lanes, NEW b \in DOMAIN agents'
         PROVE  /\ task'[k].pc \in Starting /\ agents'[b].pump.pc \in Closing => agents'[b].pump.turn # task'[k].turn
                /\ \A i \in DOMAIN agents'[b].turns : agents'[b].turns[i].id = task'[k].turn =>
                     /\ task'[k].pc \notin Starting
                     /\ task'[k].pc \in Sending => b = task'[k].agent /\ (agents'[b].of = "codex" => i = 1)
    <3>1. task'[k].pc \in Starting /\ agents'[b].pump.pc \in Closing => agents'[b].pump.turn # task'[k].turn
      BY <2>8, <2>9 DEF TurnsAreKnownApart, TurnsHaveOnePlace
    <3>2. ASSUME NEW i \in DOMAIN agents'[b].turns, agents'[b].turns[i].id = task'[k].turn
          PROVE  /\ task'[k].pc \notin Starting
                 /\ task'[k].pc \in Sending => b = task'[k].agent /\ (agents'[b].of = "codex" => i = 1)
      <4>1. CASE b = a /\ i = n + 1 /\ agents'[b].turns[i].id = t
        <5>1. task'[k].pc \notin Starting /\ (task'[k].pc \in Sending => k = l /\ ~held /\ task'[k].agent = a)
          BY <2>9, <2>13, <3>2, <4>1
        <5>2. ~held /\ agents'[b].of = "codex" => i = 1
          BY <1>3, <2>1, <2>4, <2>5, <4>1
        <5> QED
          BY <4>1, <5>1, <5>2
      <4>2. CASE i \in DOMAIN agents[b].turns /\ agents'[b].turns[i].id = agents[b].turns[i].id
        <5>1. b \in DOMAIN agents /\ agents'[b].of = agents[b].of /\ agents[b].turns[i].id = task'[k].turn
          BY <2>8, <3>2, <4>2
        <5>2. task'[k].turn # t
          BY <2>13, <4>2, <5>1
        <5>3. CASE task'[k] = task[k]
          BY <4>2, <5>1, <5>3 DEF TurnsAreKnownApart, TurnsHaveOnePlace
        <5>4. CASE task'[k] # task[k]
          BY <2>9, <5>2, <5>4
        <5> QED
          BY <5>3, <5>4
      <4> QED
        BY <2>7, <4>1, <4>2
    <3> QED
      BY <3>1, <3>2
  <2>16. ASSUME NEW b \in DOMAIN agents', NEW c \in DOMAIN agents', NEW i \in DOMAIN agents'[b].turns
         PROVE  /\ \A j \in DOMAIN agents'[c].turns : agents'[b].turns[i].id = agents'[c].turns[j].id => b = c /\ i = j
                /\ agents'[c].pump.pc \in Closing /\ agents'[b].turns[i].id = agents'[c].pump.turn =>
                     b = c /\ i = 1 /\ agents'[c].pump.pc # "apply"
    <3>1. CASE b = a /\ i = n + 1 /\ agents'[b].turns[i].id = t
      BY <2>7, <2>8, <2>13, <3>1
    <3>2. CASE i \in DOMAIN agents[b].turns /\ agents'[b].turns[i].id = agents[b].turns[i].id
      BY <2>7, <2>8, <2>13, <3>2 DEF TurnsAreKnownApart, TurnsHaveOnePlace
    <3> QED
      BY <2>7, <3>1, <3>2
  <2>17. TurnsHaveOnePlace'
    BY <2>14, <2>15, <2>16 DEF TurnsHaveOnePlace
  <2> QED
    BY <2>11, <2>12, <2>17 DEF TurnsAreKnownApart
<1>4. CASE ~(agents' = agents /\ TurnFailed(l) /\ QuietStep)
  <2>1. PICK a \in DOMAIN agents, held \in BOOLEAN :
          /\ a = task[l].agent /\ chat' = chat /\ DOMAIN agents' = DOMAIN agents
          /\ held <=> agents[a].of = "codex" /\ agents[a].turns # <<>>
          /\ agents'[a] = [agents[a] EXCEPT !.turns = Append(agents[a].turns, Pending(task[l].turn, held))]
          /\ \A b \in DOMAIN agents : b # a => agents'[b] = agents[b]
          /\ IF held THEN task'[l] = Idle
             ELSE task'[l].pc = "send" /\ task'[l].turn = task[l].turn /\ task'[l].agent = task[l].agent
    <3>1. \/ agents' = agents /\ TurnFailed(l) /\ QuietStep
          \/ \E a \in DOMAIN agents, held \in BOOLEAN :
               /\ a = task[l].agent /\ chat' = chat /\ raced \subseteq raced' /\ DOMAIN agents' = DOMAIN agents
               /\ ~Refuses(agents[a])
               /\ held <=> agents[a].of = "codex" /\ agents[a].turns # <<>>
               /\ agents'[a] = [agents[a] EXCEPT !.turns = Append(agents[a].turns, Pending(task[l].turn, held))]
               /\ \A b \in DOMAIN agents : b # a => agents'[b] = agents[b]
               /\ IF held THEN task'[l] = Idle
                  ELSE /\ task'[l].pc = "send" /\ task'[l].turn = task[l].turn /\ task'[l].agent = task[l].agent
      BY PushTurnDoes
    <3> QED
      BY <1>4, <3>1
  <2> QED
    BY <1>3, <2>1
<1> QED
  BY <1>2, <1>4

\* A run that a process starts itself is a turn that was nowhere.
LEMMA ApartWake ==
  ASSUME TurnsAssumption, TurnsTypeOK, TurnsAreKnownApart, NEW a \in DOMAIN agents, AdoptWakeTurn(a)
  PROVE  TurnsAreKnownApart'
<1> DEFINE t == Woken(a)
<1>1. /\ TurnsTypeOK' /\ UNCHANGED <<task, spent>> /\ DOMAIN agents' = DOMAIN agents
      /\ \A b \in DOMAIN agents : b # a => agents'[b] = agents[b]
      /\ agents[a].pump.pc = "rest" /\ chat \in Chat /\ a \in 1..MaxAgents /\ t \in Turn /\ t[1] = 0
  <2>1. a \in 1..MaxAgents /\ chat \in Chat
    BY DEF TurnsTypeOK, TurnsAssumption
  <2> QED
    BY <2>1, AdoptWakeTurnDoes, Ids
<1>2. CASE QuietStep /\ chat' = chat
  BY <1>1, <1>2, QuietIsMore, LanesSame, QueueSame, ApartFrame
<1>3. CASE /\ agents[a].turns = <<>>
           /\ agents'[a] = [agents[a] EXCEPT !.out = Tail(@), !.turns = <<Pending(t, FALSE)>>]
           /\ chat' = Starts(chat, t)
  <2>1. chat'.queue = chat.queue
    BY <1>1, <1>3, StartsFields
  <2>2. /\ agents'[a].pump = agents[a].pump /\ agents'[a].of = agents[a].of
        /\ agents'[a].turns = <<Pending(t, FALSE)>>
    BY <1>3, TypedProcess DEF Process
  <2>3. DOMAIN agents'[a].turns = {1} /\ agents'[a].turns[1].id = t
    BY <2>2 DEF Pending
  <2>4. t \in Minted(a)
    BY <1>1, Numbers DEF Minted
  <2> HIDE DEF t
  <2>5. \A b \in DOMAIN agents' : b \in DOMAIN agents /\ agents'[b].pump = agents[b].pump /\ agents'[b].of = agents[b].of
    BY <1>1, <2>2
  <2>6. \A b \in DOMAIN agents' : \A i \in DOMAIN agents'[b].turns :
          \/ b = a /\ i = 1 /\ agents'[b].turns[i].id = t
          \/ i \in DOMAIN agents[b].turns /\ agents'[b].turns[i].id = agents[b].turns[i].id
    BY <1>1, <2>3
  <2>7. /\ \A k \in Lanes : task[k].pc \in Starting \cup Sending => task[k].turn # t
        /\ \A b \in DOMAIN agents : agents[b].pump.pc \in Closing => agents[b].pump.turn # t
        /\ \A b \in DOMAIN agents : \A i \in DOMAIN agents[b].turns : agents[b].turns[i].id # t
    <3>1. \A k \in Lanes : task[k].pc \in Starting \cup Sending => task[k].turn # t
      <4>1. 0 \notin 1..spent.starts
        BY Numbers
      <4> QED
        BY <1>1, <4>1 DEF TurnsAreKnownApart, IdsAreMinted
    <3>2. \A b \in DOMAIN agents : b # a => t \notin Minted(b)
      <4>1. \A b : b # a => Woken(b) # Woken(a)
        <5>1. \A b : Woken(b)[2] = b
          BY DEF Woken
        <5> QED
          BY <5>1
      <4> QED
        BY <1>1, <4>1 DEF Minted, t
    <3>3. \A b \in DOMAIN agents : agents[b].pump.pc \in Closing => agents[b].pump.turn # t
      BY <1>1, <3>2 DEF TurnsAreKnownApart, IdsAreMinted, Closing
    <3>4. DOMAIN agents[a].turns = {}
      BY <1>3
    <3>5. \A b \in DOMAIN agents : \A i \in DOMAIN agents[b].turns : agents[b].turns[i].id # t
      BY <3>2, <3>4 DEF TurnsAreKnownApart, IdsAreMinted
    <3> QED
      BY <3>1, <3>3, <3>5
  <2>8. Used' \subseteq Used \cup {t}
    <3> SUFFICES ASSUME NEW u \in Turn, u \in Used' PROVE u \in Used \/ u = t
      BY DEF Used
    <3>1. CASE \E k \in Lanes : task'[k].pc \in Starting \cup Sending /\ task'[k].turn = u
      BY <1>1, <3>1 DEF Used
    <3>2. CASE \E b \in DOMAIN agents' : \E i \in DOMAIN agents'[b].turns : agents'[b].turns[i].id = u
      BY <2>5, <2>6, <3>2 DEF Used
    <3>3. CASE \E b \in DOMAIN agents' : agents'[b].pump.pc \in Closing /\ agents'[b].pump.turn = u
      BY <2>5, <3>3 DEF Used
    <3> QED
      BY <3>1, <3>2, <3>3 DEF Used
  <2>9. UndrainedWait'
    <3>1. \A m \in Sent, b \in 1..MaxAgents : Drained(m, b) # t
      <4>1. 0 \notin 1..MaxStarts
        BY DEF TurnsAssumption
      <4> QED
        BY <1>1, <4>1, Ids
    <3>2. DOMAIN agents \subseteq 1..MaxAgents
      BY DEF TurnsTypeOK, TurnsAssumption
    <3>3. \A k \in Lanes : task[k].pc = "queue" => task[k].turn \in Sent
      BY TypedLane DEF AtWork
    <3>4. \A b \in DOMAIN agents : agents[b].pump.pc = "drain" => agents[b].pump.turn \in Sent
      BY TypedProcess DEF PumpAtWork
    <3>5. \A k \in Lanes : task[k].pc = "queue" => \A b \in 1..MaxAgents : Drained(task[k].turn, b) \notin Used'
      BY <2>8, <3>1, <3>3 DEF TurnsAreKnownApart, UndrainedWait
    <3>6. \A i \in DOMAIN chat.queue : \A b \in 1..MaxAgents : Drained(chat.queue[i], b) \notin Used'
      BY <2>8, <3>1, Numbers DEF TurnsAreKnownApart, UndrainedWait
    <3>7. \A b \in DOMAIN agents : agents[b].pump.pc = "drain" => Drained(agents[b].pump.turn, b) \notin Used'
      BY <2>8, <3>1, <3>2, <3>4 DEF TurnsAreKnownApart, UndrainedWait
    <3> QED
      BY <1>1, <2>1, <2>5, <3>5, <3>6, <3>7 DEF TurnsAreKnownApart, UndrainedWait
  <2>10. IdsAreMinted'
    <3>1. \A b \in DOMAIN agents' : \A i \in DOMAIN agents'[b].turns : agents'[b].turns[i].id \in Minted(b)
      BY <2>4, <2>5, <2>6 DEF TurnsAreKnownApart, IdsAreMinted
    <3> QED
      BY <1>1, <2>1, <2>5, <3>1 DEF TurnsAreKnownApart, IdsAreMinted, Minted
  <2>11. TurnsHaveOnePlace'
    <3>1. ASSUME NEW k \in Lanes, NEW b \in DOMAIN agents', NEW i \in DOMAIN agents'[b].turns,
                 agents'[b].turns[i].id = task[k].turn
          PROVE  /\ task[k].pc \notin Starting
                 /\ task[k].pc \in Sending => b = task[k].agent /\ (agents'[b].of = "codex" => i = 1)
      BY <2>5, <2>6, <2>7, <3>1 DEF TurnsAreKnownApart, TurnsHaveOnePlace
    <3>2. ASSUME NEW b \in DOMAIN agents', NEW c \in DOMAIN agents', NEW i \in DOMAIN agents'[b].turns
          PROVE  /\ \A j \in DOMAIN agents'[c].turns : agents'[b].turns[i].id = agents'[c].turns[j].id => b = c /\ i = j
                 /\ agents'[c].pump.pc \in Closing /\ agents'[b].turns[i].id = agents'[c].pump.turn =>
                      b = c /\ i = 1 /\ agents'[c].pump.pc # "apply"
      <4>1. CASE b = a /\ i = 1 /\ agents'[b].turns[i].id = t
        BY <2>5, <2>6, <2>7, <4>1
      <4>2. CASE i \in DOMAIN agents[b].turns /\ agents'[b].turns[i].id = agents[b].turns[i].id
        BY <2>5, <2>6, <2>7, <4>2 DEF TurnsAreKnownApart, TurnsHaveOnePlace
      <4> QED
        BY <2>6, <4>1, <4>2
    <3> QED
      BY <1>1, <2>5, <3>1, <3>2 DEF TurnsAreKnownApart, TurnsHaveOnePlace
  <2> QED
    BY <2>9, <2>10, <2>11 DEF TurnsAreKnownApart
<1> QED
  BY <1>2, <1>3, AdoptWakeTurnDoes

LEMMA ApartLane ==
  ASSUME TurnsAssumption, TurnsTypeOK, TurnsAreKnownApart, NEW l \in Lanes, LaneStep(l)
  PROVE  TurnsAreKnownApart'
<1>1. TurnsTypeOK' /\ QuietMore /\ LanesQuiet /\ chat \in Chat
  BY LaneStepDoes, QuietIsMore DEF TurnsTypeOK
<1>2. CASE QueueTurn(l)
  BY <1>2, ApartQueue
<1>3. CASE BeginTurn(l)
  <2>1. spent'.starts = spent.starts /\ chat'.queue = chat.queue
    BY <1>3, BeginTurnDoes
  <2> QED
    BY <1>1, <2>1, QueueSame, ApartFrame
<1>4. CASE EnsureAgent(l) \/ SpawnFails(l)
  <2>1. spent'.starts = spent.starts
    BY <1>4, EventType DEF EnsureAgent, SpawnFails
  <2>2. chat' = chat \/ TurnFailed(l)
    BY <1>4 DEF EnsureAgent, SpawnFails
  <2>3. chat'.queue = chat.queue
    BY <2>2, TurnFailedDoes
  <2> QED
    BY <1>1, <2>1, <2>3, QueueSame, ApartFrame
<1>5. CASE SendPrompt(l) \/ PromptWritten(l)
  <2>1. spent' = spent /\ (chat' = chat \/ chat' = Ends(chat, task[l].turn))
    BY <1>5 DEF SendPrompt, PromptWritten, TurnFailed
  <2>2. chat'.queue = chat.queue
    BY <1>1, <2>1, EndsFields
  <2> QED
    BY <1>1, <2>1, <2>2, QueueSame, ApartFrame
<1>6. CASE Unqueue(l)
  <2>1. spent' = spent /\ chat' = Without(chat, {task[l].turn})
    BY <1>6 DEF Unqueue
  <2>2. QueueShrinks
    BY <1>1, <2>1, WithoutFields DEF QueueShrinks
  <2> QED
    BY <1>1, <2>1, <2>2, ApartFrame
<1>7. CASE MarkTurn(l) \/ TellInterrupt(l) \/ InterruptTold(l)
  <2>1. spent' = spent /\ chat' = chat
    BY <1>7 DEF MarkTurn, TellInterrupt, InterruptTold
  <2> QED
    BY <1>1, <2>1, QueueSame, ApartFrame
<1> QED
  BY <1>2, <1>3, <1>4, <1>5, <1>6, <1>7 DEF LaneStep

LEMMA ApartNext ==
  ASSUME TurnsAssumption, TurnsTypeOK, TurnsAreKnownApart, TurnsNext
  PROVE  TurnsAreKnownApart'
<1>1. chat \in Chat /\ DOMAIN <<>> = {}
  BY DEF TurnsTypeOK
<1>2. CASE \E l \in Conn : StartTurn(l)
  BY <1>2, ApartStart
<1>3. ASSUME NEW l \in Conn, NEW t \in Turn, CancelTurn(l, t) PROVE TurnsAreKnownApart'
  <2>1. TurnsTypeOK' /\ QuietMore /\ LanesQuiet /\ (chat' = chat \/ chat' = Ends(chat, t))
    BY <1>3, CancelTurnDoes, QuietIsMore
  <2>2. spent'.starts = spent.starts
    BY <1>3, EventType DEF CancelTurn
  <2>3. chat'.queue = chat.queue
    BY <1>1, <2>1, EndsFields
  <2> QED
    BY <2>1, <2>2, <2>3, QueueSame, ApartFrame
<1>4. ASSUME NEW l \in Lanes, SpawnAgent(l) PROVE TurnsAreKnownApart'
  <2>1. TurnsTypeOK' /\ QuietMore /\ LanesQuiet /\ spent' = spent
    BY <1>4, SpawnAgentDoes, SpawnIsQuiet
  <2>2. chat'.queue = chat.queue
    BY <1>1, <1>4 DEF SpawnAgent, Chat
  <2> QED
    BY <2>1, <2>2, QueueSame, ApartFrame
<1>5. CASE \E l \in Lanes : LaneStep(l) \/ PushTurn(l)
  BY <1>5, ApartLane, ApartPush
<1>6. ASSUME NEW a \in DOMAIN agents, ProcessStep(a) PROVE TurnsAreKnownApart'
  <2>1. TurnsTypeOK' /\ QuietMore /\ LanesQuiet /\ chat' = chat /\ spent'.starts = spent.starts
    BY <1>6, ProcessStepDoes, QuietIsMore, LanesSame
  <2> QED
    BY <2>1, QueueSame, ApartFrame
<1>7. CASE \E a \in DOMAIN agents : AdoptWakeTurn(a) \/ DrainQueue(a)
  BY <1>7, ApartWake, ApartDrain
<1>8. ASSUME NEW a \in DOMAIN agents, ApplyEnd(a) \/ PurgeQueue(a) \/ StreamEnds(a) PROVE TurnsAreKnownApart'
  <2>1. TurnsTypeOK' /\ QuietMore /\ LanesQuiet /\ spent' = spent
    BY <1>8, ApplyEndDoes, PurgeQueueDoes, StreamEndsDoes, QuietIsMore, LanesSame DEF ApplyEnd, PurgeQueue, StreamEnds
  <2>2. QueueShrinks
    <3>1. CASE ApplyEnd(a)
      <4> DEFINE c == Ends(chat, agents[a].pump.turn)
      <4>1. c \in Chat /\ c.queue = chat.queue /\ c.agent = chat.agent
        BY <1>1, EndsFields
      <4>2. chat' = c \/ chat' = RetiredChat(c)
        BY <3>1 DEF ApplyEnd
      <4> HIDE DEF c
      <4>3. chat'.queue = chat.queue
        BY <4>1, <4>2, RetiredFields
      <4> QED
        BY <4>3, QueueSame
    <3>2. CASE PurgeQueue(a)
      <4> DEFINE ids == agents[a].pump.ids
      <4>1. chat' = [Without(chat, ids) EXCEPT !.prompts = {}]
        BY <3>2 DEF PurgeQueue
      <4> HIDE DEF ids
      <4>2. Without(chat, ids) \in Chat /\ \A i \in DOMAIN Without(chat, ids).queue :
               \E j \in DOMAIN chat.queue : Without(chat, ids).queue[i] = chat.queue[j]
        BY <1>1, WithoutFields
      <4>3. chat'.queue = Without(chat, ids).queue
        BY <4>1, <4>2 DEF Chat
      <4> QED
        BY <4>2, <4>3 DEF QueueShrinks
    <3>3. CASE StreamEnds(a)
      <4>1. PICK c \in Chat : c.queue = chat.queue /\ (chat' = c \/ chat' = [c EXCEPT !.agent = 0, !.retire = FALSE])
        BY <1>1, <3>3, EndsFields DEF StreamEnds
      <4>2. chat'.queue = chat.queue
        BY <4>1 DEF Chat
      <4> QED
        BY <4>2, QueueSame
    <3> QED
      BY <1>8, <3>1, <3>2, <3>3
  <2> QED
    BY <2>1, <2>2, ApartFrame
<1>9. CASE ChangeSettings
  BY <1>9, ChangeSettingsDoes, QuietIsMore, LanesSame, QueueSame, ApartFrame DEF ChangeSettings
<1>10. CASE QueueMessage
  BY <1>10, ApartMessage
<1>11. CASE DisposeSession
  <2>1. TurnsTypeOK' /\ QuietMore /\ LanesQuiet /\ spent'.starts = spent.starts /\ chat' = Closed
    BY <1>11, DisposeSessionDoes, QuietIsMore, LanesSame
  <2>2. QueueShrinks
    BY <1>1, <2>1 DEF QueueShrinks, Closed
  <2> QED
    BY <2>1, <2>2, ApartFrame
<1> QED
  BY <1>2, <1>3, <1>4, <1>5, <1>6, <1>7, <1>8, <1>9, <1>10, <1>11, NextSteps

LEMMA ApartStutter ==
  ASSUME TurnsAreKnownApart, UNCHANGED turnVars
  PROVE  TurnsAreKnownApart'
BY DEF TurnsAreKnownApart, IdsAreMinted, UndrainedWait, TurnsHaveOnePlace, Used, Minted, turnVars

LEMMA ApartInit ==
  ASSUME TurnsInit
  PROVE  TurnsAreKnownApart
<1>1. DOMAIN agents = {} /\ \A l \in Lanes : task[l].pc = "idle"
  <2>1. agents = <<>> /\ task = [l \in Lanes |-> Idle] /\ Idle.pc = "idle"
    BY DEF TurnsInit, Idle
  <2>2. DOMAIN agents = {}
    BY <2>1
  <2>3. \A l \in Lanes : task[l].pc = "idle"
    BY <2>1
  <2> QED
    BY <2>2, <2>3
<1>2. DOMAIN chat.queue = {}
  BY DEF TurnsInit, Closed
<1>3. \A l \in Lanes : task[l].pc \notin Starting \cup Sending
  BY <1>1 DEF Starting, Sending
<1> QED
  BY <1>1, <1>2, <1>3 DEF TurnsAreKnownApart, IdsAreMinted, UndrainedWait, TurnsHaveOnePlace, Starting, Sending

-----------------------------------------------------------------------------
(***************************************************************************)
(* What the chat's agent holds is the active turn, or is being cancelled.  *)
(***************************************************************************)

\* A turn that is on its way to the chat's agent, or that the agent works on.
Starters == {"ensure", "spawn", "push"}
Held ==
  {t \in Turn :
     \/ \E a \in LiveAgent : \E i \in BusyTurns(agents[a].turns) : agents[a].turns[i].id = t
     \/ chat.open /\ \E l \in Lanes : task[l].pc \in Starters /\ task[l].turn = t}

HeldIsActive == Raced({"orphaned", "early"}) \/ Held \subseteq Marking \cup {chat.active}
AgentIsOpen  == chat.agent # 0 => chat.open
OneIsBusy ==
  \A a \in DOMAIN agents : agents[a].of = "claude" =>
    \A i, j \in BusyTurns(agents[a].turns) : i = j

Working == HeldIsActive /\ AgentIsOpen /\ OneIsBusy

LEMMA LiveIsThere ==
  ASSUME TurnsTypeOK, NEW a \in LiveAgent
  PROVE  a \in DOMAIN agents /\ a = chat.agent /\ chat.agent # 0 /\ agents[a].turns \in Seq(Pended)
<1>1. a \in DOMAIN agents /\ a = chat.agent /\ chat.agent # 0
  BY DEF LiveAgent, TurnsTypeOK, Chat
<1> QED
  BY <1>1, TypedProcess

LEMMA WorkingIsActive ==
  ASSUME TurnsAssumption, TurnsTypeOK, Working, TurnsAreKnownApart
  PROVE  WorksOnTheActiveTurn
<1>1. LiveTurnIsActive
  <2> SUFFICES ASSUME NEW a \in LiveAgent, NEW i \in BusyTurns(agents[a].turns)
               PROVE  agents[a].turns[i].id \in Marking \/ chat.active = agents[a].turns[i].id \/ Raced({"orphaned", "early"})
    BY DEF LiveTurnIsActive
  <2>1. agents[a].turns[i].id \in Turn
    BY LiveIsThere, Numbers DEF BusyTurns
  <2> QED
    BY <2>1 DEF Working, HeldIsActive, Held
<1>2. StartedIsActive
  <2>1. ASSUME NEW l \in Lanes, task[l].pc \in Starters, chat.open
        PROVE  task[l].turn \in Marking \/ chat.active = task[l].turn \/ Raced({"orphaned", "early"})
    <3>1. task[l].turn \in Turn
      BY <2>1, TypedLane DEF AtWork, Doing, Starters
    <3> QED
      BY <2>1, <3>1 DEF Working, HeldIsActive, Held
  <2> QED
    BY <2>1 DEF StartedIsActive, Starters, Working, AgentIsOpen
<1>3. OneLiveTurnAProcess
  <2> SUFFICES ASSUME NEW a \in DOMAIN agents, agents[a].of = "claude"
               PROVE  Cardinality(BusyTurns(agents[a].turns)) <= 1
    BY DEF OneLiveTurnAProcess
  <2>1. CASE BusyTurns(agents[a].turns) = {}
    BY <2>1, FS_EmptySet
  <2>2. CASE BusyTurns(agents[a].turns) # {}
    <3>1. PICK i : i \in BusyTurns(agents[a].turns)
      BY <2>2
    <3>2. BusyTurns(agents[a].turns) = {i}
      BY <3>1 DEF Working, OneIsBusy
    <3>3. Cardinality({i}) = 1
      BY FS_Singleton
    <3> QED
      BY <3>2, <3>3
  <2> QED
    BY <2>1, <2>2
<1> QED
  BY <1>1, <1>2, <1>3 DEF WorksOnTheActiveTurn

\* A turn of a process that is live was live.
LEMMA BusyBefore ==
  ASSUME TurnsTypeOK, QuietMore, NEW b \in DOMAIN agents', NEW i \in BusyTurns(agents'[b].turns)
  PROVE  /\ b \in DOMAIN agents
         /\ \E e : /\ ThinsBy(e, agents[b].turns, agents'[b].turns)
                   /\ e[i] \in BusyTurns(agents[b].turns)
                   /\ agents[b].turns[e[i]].id = agents'[b].turns[i].id
<1>1. i \in DOMAIN agents'[b].turns /\ ~agents'[b].turns[i].cancelled
  BY DEF BusyTurns
<1>2. /\ b \in DOMAIN agents
      /\ \E e : /\ ThinsBy(e, agents[b].turns, agents'[b].turns)
                /\ e[i] \in DOMAIN agents[b].turns /\ e[i] \in Nat
                /\ agents[b].turns[e[i]].id = agents'[b].turns[i].id
  BY <1>1, TurnThatStays
<1> QED
  BY <1>1, <1>2 DEF ThinsBy, BusyTurns

LEMMA OneIsBusyFrame ==
  ASSUME TurnsTypeOK, TurnsTypeOK', OneIsBusy, QuietMore
  PROVE  OneIsBusy'
<1> SUFFICES ASSUME NEW b \in DOMAIN agents', agents'[b].of = "claude",
                    NEW i \in BusyTurns(agents'[b].turns), NEW j \in BusyTurns(agents'[b].turns)
             PROVE  i = j
  BY DEF OneIsBusy
<1>1. b \in DOMAIN agents /\ agents[b].of = "claude"
  BY BusyBefore DEF QuietMore, Quietly
<1>2. PICK e : /\ ThinsBy(e, agents[b].turns, agents'[b].turns) /\ e[i] \in BusyTurns(agents[b].turns)
  BY BusyBefore
<1>3. i \in DOMAIN agents'[b].turns /\ j \in DOMAIN agents'[b].turns /\ ~agents'[b].turns[j].cancelled
  BY DEF BusyTurns
<1>4. e[j] \in BusyTurns(agents[b].turns)
  BY <1>2, <1>3 DEF ThinsBy, BusyTurns
<1>5. e[i] = e[j]
  BY <1>1, <1>2, <1>4 DEF OneIsBusy
<1>6. agents[b].turns \in Seq(Pended) /\ agents'[b].turns \in Seq(Pended)
  BY <1>1, TypedProcess, TypedProcesses
<1>7. i \in Nat /\ j \in Nat /\ e[i] \in Nat
  <2>1. i \in Nat /\ j \in Nat
    BY <1>3, <1>6
  <2>2. e[i] \in DOMAIN agents[b].turns
    BY <1>2 DEF BusyTurns
  <2>3. e[i] \in Nat
    BY <1>6, <2>2
  <2> QED
    BY <2>1, <2>3
<1>8. (i < j => e[i] < e[j]) /\ (j < i => e[j] < e[i])
  BY <1>2, <1>3 DEF ThinsBy
<1> QED
  BY <1>5, <1>7, <1>8

\* What is held was held, or is of a lane that now starts it.
LEMMA HeldFrame ==
  ASSUME TurnsTypeOK, TurnsTypeOK', QuietMore, chat'.agent \in {chat.agent, 0}, chat'.open => chat.open, NEW T,
         \A k \in Lanes : task'[k].pc \in Starters =>
           task'[k].turn \in T \/ (task[k].pc \in Starters /\ task'[k].turn = task[k].turn)
  PROVE  Held' \subseteq Held \cup T
<1> SUFFICES ASSUME NEW t \in Turn, t \in Held' PROVE t \in Held \/ t \in T
  BY DEF Held
<1>1. CASE \E a \in LiveAgent' : \E i \in BusyTurns(agents'[a].turns) : agents'[a].turns[i].id = t
  <2>1. PICK a \in LiveAgent' : \E i \in BusyTurns(agents'[a].turns) : agents'[a].turns[i].id = t
    BY <1>1
  <2>2. PICK i \in BusyTurns(agents'[a].turns) : agents'[a].turns[i].id = t
    BY <2>1
  <2>3. a \in DOMAIN agents' /\ a \in LiveAgent
    <3>1. a = chat'.agent /\ chat'.agent # 0
      BY DEF LiveAgent
    <3>2. a \in DOMAIN agents'
      BY <3>1 DEF TurnsTypeOK, Chat
    <3> QED
      BY <3>1, <3>2 DEF LiveAgent
  <2>4. \E j \in BusyTurns(agents[a].turns) : agents[a].turns[j].id = t
    BY <2>2, <2>3, BusyBefore
  <2> QED
    BY <2>3, <2>4 DEF Held
<1>2. CASE chat'.open /\ \E l \in Lanes : task'[l].pc \in Starters /\ task'[l].turn = t
  BY <1>2 DEF Held
<1> QED
  BY <1>1, <1>2 DEF Held

LEMMA ActiveKept ==
  ASSUME HeldIsActive, raced \subseteq raced', NEW t, t \notin Held', Held' \subseteq Held, Marking \ {t} \subseteq Marking',
         chat'.active = chat.active \/ chat.active = t
  PROVE  HeldIsActive'
BY DEF HeldIsActive, Raced

LEMMA ActiveNew ==
  ASSUME TurnsAssumption, HeldIsActive, raced \subseteq raced', chat.active # NoTurn => "orphaned" \in raced',
         NEW t, Held' \subseteq Held \cup {t}, t \in Held' => chat'.active = t, Marking \subseteq Marking'
  PROVE  HeldIsActive'
<1>1. NoTurn \notin Held
  BY Ids DEF Held
<1> QED
  BY <1>1 DEF HeldIsActive, Raced

\* A step that ends no turn, starts none and stops no marking.
LEMMA WorkingFrame ==
  ASSUME TurnsAssumption, TurnsTypeOK, TurnsTypeOK', Working, QuietMore, raced \subseteq raced',
         chat'.agent \in {chat.agent, 0}, chat'.open = chat.open, chat'.active = chat.active, Marking \subseteq Marking',
         \A k \in Lanes : task'[k].pc \in Starters => task[k].pc \in Starters /\ task'[k].turn = task[k].turn
  PROVE  Working'
<1>1. Held' \subseteq Held \cup {}
  BY HeldFrame
<1>2. NoTurn \notin Held'
  <2>1. \A t \in Held' : t \in Turn
    BY DEF Held
  <2> QED
    BY <2>1, Ids
<1>3. HeldIsActive'
  BY <1>1, <1>2, ActiveKept DEF Working
<1>4. AgentIsOpen'
  BY DEF Working, AgentIsOpen
<1> QED
  BY <1>3, <1>4, OneIsBusyFrame DEF Working

\* A step that ends a turn, or leaves off marking it, when nobody holds it any more.
LEMMA WorkingEnds ==
  ASSUME TurnsAssumption, TurnsTypeOK, TurnsTypeOK', Working, QuietMore, raced \subseteq raced',
         chat'.agent \in {chat.agent, 0}, chat'.open = chat.open, NEW t, chat'.active = chat.active \/ chat.active = t,
         Marking \ {t} \subseteq Marking', t \notin Held',
         \A k \in Lanes : task'[k].pc \in Starters => task[k].pc \in Starters /\ task'[k].turn = task[k].turn
  PROVE  Working'
<1>1. Held' \subseteq Held \cup {}
  BY HeldFrame
<1>2. HeldIsActive'
  BY <1>1, ActiveKept DEF Working
<1>3. AgentIsOpen'
  BY DEF Working, AgentIsOpen
<1> QED
  BY <1>2, <1>3, OneIsBusyFrame DEF Working

LEMMA NotHeld ==
  ASSUME TurnsTypeOK', NEW t,
         \A a \in DOMAIN agents' : \A i \in BusyTurns(agents'[a].turns) : agents'[a].turns[i].id # t,
         \A k \in Lanes : task'[k].pc \in Starters => task'[k].turn # t
  PROVE  t \notin Held'
<1>1. \A a \in LiveAgent' : a \in DOMAIN agents'
  BY DEF LiveAgent, TurnsTypeOK, Chat
<1> QED
  BY <1>1 DEF Held

LEMMA Races ==
  ASSUME TurnsTypeOK, NEW l \in Lanes, LaneStep(l) \/ PushTurn(l) \/ SpawnAgent(l)
  PROVE  raced \subseteq raced'
<1>1. CASE LaneStep(l)
  BY <1>1 DEF LaneStep, QueueTurn, BeginTurn, EnsureAgent, SpawnFails, TurnFailed, SendPrompt, PromptWritten, Unqueue,
              MarkTurn, TellInterrupt, InterruptTold, Note
<1>2. CASE PushTurn(l) \/ SpawnAgent(l)
  BY <1>2 DEF PushTurn, TurnFailed, SpawnAgent, Note
<1> QED
  BY <1>1, <1>2

\* A turn that fails before a process has it.
LEMMA WorkingFails ==
  ASSUME TurnsAssumption, TurnsTypeOK, TurnsTypeOK', Working, TurnsHaveOnePlace, NEW l \in Lanes, task[l].pc \in Starting,
         TurnFailed(l), agents' = agents
  PROVE  Working'
<1> DEFINE t == task[l].turn
<1>1. /\ task' = [task EXCEPT ![l] = Idle] /\ chat'.agent = chat.agent /\ chat'.open = chat.open
      /\ chat'.active = IF chat.active = t THEN NoTurn ELSE chat.active
  BY TurnFailedDoes
<1>2. Idle.pc = "idle" /\ raced \subseteq raced' /\ QuietMore
  BY QuietNone, QuietIsMore DEF Idle, TurnFailed, Note
<1>3. \A k \in Lanes : task'[k] = IF k = l THEN Idle ELSE task[k]
  BY <1>1 DEF TurnsTypeOK
<1>4. \A k \in Lanes : task'[k].pc \in Starters \cup {"mark"} => k # l /\ task'[k] = task[k]
  BY <1>2, <1>3 DEF Starters
<1>5. t \notin Held'
  <2>1. \A a \in DOMAIN agents' : \A i \in BusyTurns(agents'[a].turns) : agents'[a].turns[i].id # t
    BY DEF TurnsHaveOnePlace, BusyTurns
  <2>2. \A k \in Lanes : task'[k].pc \in Starters => task'[k].turn # t
    BY <1>4 DEF TurnsHaveOnePlace, Starters, Starting
  <2> QED
    BY <2>1, <2>2, NotHeld
<1>6. Marking \ {t} \subseteq Marking'
  <2>1. \A k \in Lanes : task[k].pc = "mark" => task'[k] = task[k]
    BY <1>3 DEF Starting
  <2> QED
    BY <2>1 DEF Marking
<1> QED
  BY <1>1, <1>2, <1>4, <1>5, <1>6, WorkingEnds

\* A lane leaves its mark only when it has looked for the turn.
LEMMA MarksStay ==
  ASSUME NEW l \in Lanes, task[l].pc # "mark", \A k \in Lanes : k # l => task'[k] = task[k]
  PROVE  Marking \subseteq Marking'
BY DEF Marking

LEMMA WorkingMark ==
  ASSUME TurnsAssumption, TurnsTypeOK, Working, TurnsHaveOnePlace, NEW l \in Lanes, MarkTurn(l)
  PROVE  Working'
<1> DEFINE t == task[l].turn
<1>1. /\ TurnsTypeOK' /\ QuietMore /\ UNCHANGED chat /\ raced \subseteq raced'
      /\ \A k \in Lanes : k # l => task'[k] = task[k]
      /\ task'[l].pc \notin Starters \cup {"mark"}
  BY MarkTurnDoes, QuietIsMore, Races DEF LaneStep, Starters
<1>2. Marking \ {t} \subseteq Marking'
  BY <1>1 DEF Marking
<1>3. \A k \in Lanes : task'[k].pc \in Starters => k # l /\ task[k].pc \in Starters /\ task'[k].turn = task[k].turn
  BY <1>1
<1>4. CASE \E i \in Position(agents[chat.agent].turns, t) :
             chat.agent \in DOMAIN agents /\ Unmarks(i, agents[chat.agent].turns, agents'[chat.agent].turns)
  <2> DEFINE a == chat.agent
  <2>1. PICK i : i \in Position(agents[a].turns, t) /\ a \in DOMAIN agents /\ Unmarks(i, agents[a].turns, agents'[a].turns)
    BY <1>4
  <2>2. i \in DOMAIN agents[a].turns /\ agents[a].turns[i].id = t
    BY <2>1 DEF Position
  <2>3. \A b \in DOMAIN agents' : \A j \in BusyTurns(agents'[b].turns) : agents'[b].turns[j].id # t
    <3> SUFFICES ASSUME NEW b \in DOMAIN agents', NEW j \in BusyTurns(agents'[b].turns), agents'[b].turns[j].id = t
                 PROVE  FALSE
      OBVIOUS
    <3>1. b = a
      BY <1>1, <2>1, <2>2, BusyBefore DEF TurnsHaveOnePlace, BusyTurns
    <3>2. PICK e : ThinsBy(e, agents[a].turns, agents'[a].turns) /\ \A k \in BusyTurns(agents'[a].turns) : e[k] # i
      BY <2>1 DEF Unmarks
    <3>3. j \in BusyTurns(agents'[a].turns) /\ j \in DOMAIN agents'[a].turns
      BY <3>1 DEF BusyTurns
    <3>4. e[j] \in DOMAIN agents[a].turns /\ agents[a].turns[e[j]].id = t
      BY <3>1, <3>2, <3>3 DEF ThinsBy
    <3> QED
      BY <2>1, <2>2, <3>2, <3>3, <3>4 DEF TurnsHaveOnePlace
  <2>4. \A k \in Lanes : task'[k].pc \in Starters => task'[k].turn # t
    BY <1>3, <2>1, <2>2 DEF TurnsHaveOnePlace, Starting, Starters
  <2>5. t \notin Held'
    BY <1>1, <2>3, <2>4, NotHeld
  <2> QED
    BY <1>1, <1>2, <1>3, <2>5, WorkingEnds
<1>5. CASE /\ agents' = agents /\ \A a \in LiveAgent : Position(agents[a].turns, t) = {}
           /\ Note(When(\E k \in Lanes : k # l /\ task[k].turn = t, "early"))
  <2>1. CASE \E k \in Lanes : k # l /\ task[k].turn = t
    <3>1. "early" \in raced'
      BY <1>5, <2>1 DEF Note, When
    <3>2. HeldIsActive'
      BY <3>1 DEF HeldIsActive, Raced
    <3> QED
      BY <1>1, <3>2, OneIsBusyFrame DEF Working, AgentIsOpen
  <2>2. CASE ~\E k \in Lanes : k # l /\ task[k].turn = t
    <3>1. t \notin Held'
      <4>1. LiveAgent' = LiveAgent /\ \A a \in LiveAgent : \A i \in BusyTurns(agents'[a].turns) : agents'[a].turns[i].id # t
        BY <1>1, <1>5 DEF LiveAgent, Position, BusyTurns
      <4>2. \A k \in Lanes : task'[k].pc \in Starters => task'[k].turn # t
        BY <1>3, <2>2
      <4> QED
        BY <4>1, <4>2 DEF Held
    <3> QED
      BY <1>1, <1>2, <1>3, <3>1, WorkingEnds
  <2> QED
    BY <2>1, <2>2
<1> QED
  BY <1>4, <1>5, MarkTurnDoes

\* A send fails, and takes back its own turn.
LEMMA WorkingTakesBack ==
  ASSUME TurnsAssumption, TurnsTypeOK, TurnsTypeOK', Working, TurnsHaveOnePlace, QuietMore, raced \subseteq raced',
         NEW l \in Lanes, task[l].pc \in Sending, task' = [task EXCEPT ![l] = Idle],
         chat' = Ends(chat, task[l].turn),
         agents'[task[l].agent].turns = TakenBack(agents[task[l].agent], task[l].turn),
         task[l].agent \in DOMAIN agents
  PROVE  Working'
<1> DEFINE t == task[l].turn
           a == task[l].agent
<1>1. chat'.agent = chat.agent /\ chat'.open = chat.open /\ (chat'.active = chat.active \/ chat.active = t)
  <2>1. chat \in Chat
    BY DEF TurnsTypeOK
  <2> QED
    BY <2>1, EndsFields
<1>2. Idle.pc = "idle"
  BY DEF Idle
<1>3. \A k \in Lanes : task'[k] = IF k = l THEN Idle ELSE task[k]
  BY DEF TurnsTypeOK
<1>4. \A k \in Lanes : task'[k].pc \in Starters => k # l /\ task'[k] = task[k]
  BY <1>2, <1>3 DEF Starters
<1>5. Marking \ {t} \subseteq Marking'
  <2>1. \A k \in Lanes : task[k].pc = "mark" => task'[k] = task[k]
    BY <1>3 DEF Sending
  <2> QED
    BY <2>1 DEF Marking
<1>6. \A b \in DOMAIN agents' : \A j \in BusyTurns(agents'[b].turns) : agents'[b].turns[j].id # t
  <2> SUFFICES ASSUME NEW b \in DOMAIN agents', NEW j \in BusyTurns(agents'[b].turns), agents'[b].turns[j].id = t
               PROVE  FALSE
    OBVIOUS
  <2>1. b = a
    BY BusyBefore DEF TurnsHaveOnePlace, BusyTurns
  <2>2. agents[a] \in Process /\ j \in DOMAIN agents'[a].turns /\ agents'[a].turns = TakenBack(agents[a], t)
    BY <2>1, TypedProcess DEF BusyTurns
  <2> HIDE DEF a, t
  <2>3. agents[a].of = "codex"
    BY <2>1, <2>2, TakenBackFields
  <2>4. PICK e : ThinsBy(e, agents[a].turns, agents'[a].turns) /\ \A k \in DOMAIN agents'[a].turns : e[k] # 1
    BY <2>2, <2>3, TakenBackFields DEF Beheads
  <2>5. e[j] \in DOMAIN agents[a].turns /\ agents[a].turns[e[j]].id = t
    BY <2>1, <2>2, <2>4 DEF ThinsBy
  <2> QED
    BY <2>2, <2>3, <2>4, <2>5 DEF TurnsHaveOnePlace, a, t
<1>7. \A k \in Lanes : task'[k].pc \in Starters => task'[k].turn # t
  BY <1>4 DEF TurnsHaveOnePlace, Starting, Starters
<1>8. t \notin Held'
  BY <1>6, <1>7, NotHeld
<1> QED
  BY <1>1, <1>4, <1>5, <1>8, WorkingEnds

\* A turn is made the active one.
LEMMA WorkingStarts ==
  ASSUME TurnsAssumption, TurnsTypeOK, TurnsTypeOK', Working, QuietMore, raced \subseteq raced',
         chat'.agent \in {chat.agent, 0}, chat'.open = chat.open, chat.active # NoTurn => "orphaned" \in raced',
         NEW l \in Lanes, task[l].pc # "mark", \A k \in Lanes : k # l => task'[k] = task[k],
         NEW t, task'[l].turn = t, chat'.active = IF chat.open THEN t ELSE chat.active
  PROVE  Working'
<1>1. Held' \subseteq Held \cup {t}
  BY HeldFrame
<1>2. t \in Held' => chat'.open
  <2>1. AgentIsOpen'
    BY DEF Working, AgentIsOpen
  <2> QED
    BY <2>1 DEF Held, AgentIsOpen, LiveAgent
<1>3. Marking \subseteq Marking'
  BY MarksStay
<1>4. HeldIsActive'
  BY <1>1, <1>2, <1>3, ActiveNew DEF Working
<1> QED
  BY <1>4, OneIsBusyFrame DEF Working, AgentIsOpen

LEMMA WorkingBegin ==
  ASSUME TurnsAssumption, TurnsTypeOK, Working, NEW l \in Lanes, BeginTurn(l)
  PROVE  Working'
<1> DEFINE t == task[l].turn
           c == Starts(chat, t)
<1>1. /\ TurnsTypeOK' /\ QuietMore /\ raced \subseteq raced' /\ \A k \in Lanes : k # l => task'[k] = task[k]
      /\ chat.active # NoTurn => "orphaned" \in raced'
      /\ task[l].pc = "begin"
  BY BeginTurnDoes, QuietIsMore DEF BeginTurn, Note, When
<1>2. task'[l].turn = t /\ t \in Turn
  <2>1. task[l] \in Doing /\ t # NoTurn
    BY <1>1, TypedLane DEF AtWork
  <2> QED
    BY <2>1, BeginTurnDoes DEF Doing
<1>3. c \in Chat /\ c.open = chat.open /\ c.agent = chat.agent /\ c.active = IF chat.open THEN t ELSE chat.active
  <2>1. chat \in Chat
    BY DEF TurnsTypeOK
  <2> QED
    BY <1>2, <2>1, StartsFields
<1>4. chat' = c \/ chat' = RetiredChat(c)
  BY DEF BeginTurn, Resettle
<1> HIDE DEF c, t
<1>5. chat'.agent \in {chat.agent, 0} /\ chat'.open = chat.open /\ chat'.active = IF chat.open THEN t ELSE chat.active
  BY <1>3, <1>4, RetiredFields
<1> QED
  BY <1>1, <1>2, <1>5, WorkingStarts

LEMMA WorkingLane ==
  ASSUME TurnsAssumption, TurnsTypeOK, Working, TurnsHaveOnePlace, NEW l \in Lanes, LaneStep(l)
  PROVE  Working'
<1>1. /\ TurnsTypeOK' /\ QuietMore /\ raced \subseteq raced' /\ chat \in Chat /\ Idle.pc = "idle"
      /\ \A k \in Lanes : k # l => task'[k] = task[k]
  BY LaneStepDoes, QuietIsMore, Races DEF TurnsTypeOK, Idle
<1>2. CASE task[l].pc # "mark" /\ task'[l].pc \notin Starters
           /\ chat'.agent = chat.agent /\ chat'.open = chat.open /\ chat'.active = chat.active
  <2>1. Marking \subseteq Marking'
    BY <1>1, <1>2, MarksStay
  <2>2. \A k \in Lanes : task'[k].pc \in Starters => task[k].pc \in Starters /\ task'[k].turn = task[k].turn
    BY <1>1, <1>2
  <2> QED
    BY <1>1, <1>2, <2>1, <2>2, WorkingFrame
<1>3. CASE QueueTurn(l)
  <2>1. task[l].pc = "queue" /\ task'[l].pc = "idle"
    BY <1>1, <1>3, QueueTurnDoes DEF QueueTurn
  <2>2. chat'.agent = chat.agent /\ chat'.open = chat.open /\ chat'.active = chat.active
    BY <1>1, <1>3 DEF QueueTurn, Waits, Chat
  <2> QED
    BY <1>2, <2>1, <2>2 DEF Starters
<1>4. CASE BeginTurn(l)
  BY <1>4, WorkingBegin
<1>5. CASE EnsureAgent(l)
  <2>1. task[l].pc = "ensure" /\ agents' = agents
    BY <1>5 DEF EnsureAgent
  <2>2. CASE TurnFailed(l)
    BY <1>1, <2>1, <2>2, WorkingFails DEF Starting
  <2>3. CASE chat' = chat /\ task'[l].turn = task[l].turn
    <3>1. \A k \in Lanes : task'[k].pc \in Starters => task[k].pc \in Starters /\ task'[k].turn = task[k].turn
      BY <1>1, <2>1, <2>3 DEF Starters
    <3>2. Marking \subseteq Marking'
      BY <1>1, <2>1, MarksStay
    <3> QED
      BY <1>1, <2>3, <3>1, <3>2, WorkingFrame
  <2> QED
    BY <1>5, <2>2, <2>3, EnsureAgentDoes
<1>6. CASE SpawnFails(l)
  <2>1. task[l].pc \in Starting /\ agents' = agents /\ TurnFailed(l)
    BY <1>6 DEF SpawnFails, Starting
  <2> QED
    BY <1>1, <2>1, WorkingFails
<1>7. CASE SendPrompt(l)
  <2> DEFINE a == task[l].agent
  <2>1. task[l].pc = "send" /\ task[l].pc \in Sending /\ a \in DOMAIN agents
    BY <1>7, SendPromptDoes DEF SendPrompt, Sending
  <2>2. CASE agents[a].stdin = "free"
    <3>1. chat' = chat /\ Goes(l, "write")
      BY <1>7, <2>2 DEF SendPrompt
    <3>2. task'[l].pc = "write"
      BY <3>1 DEF Goes, TurnsTypeOK, Doing
    <3> QED
      BY <1>2, <2>1, <3>1, <3>2 DEF Starters
  <2>3. CASE agents[a].stdin # "free"
    <3>1. /\ agents' = [agents EXCEPT ![a].turns = TakenBack(agents[a], task[l].turn)]
          /\ chat' = Ends(chat, task[l].turn) /\ task' = [task EXCEPT ![l] = Idle]
      BY <1>7, <2>3 DEF SendPrompt, Done
    <3>2. agents'[a].turns = TakenBack(agents[a], task[l].turn)
      <4> HIDE DEF a
      <4>1. agents[a] \in Process /\ agents' = [agents EXCEPT ![a] = [agents[a] EXCEPT !.turns = TakenBack(agents[a], task[l].turn)]]
        BY <2>1, <3>1, TypedProcess
      <4>2. agents'[a] = [agents[a] EXCEPT !.turns = TakenBack(agents[a], task[l].turn)]
        BY <2>1, <4>1 DEF TurnsTypeOK
      <4> QED
        BY <4>1, <4>2 DEF Process
    <3> QED
      BY <1>1, <2>1, <3>1, <3>2, WorkingTakesBack
  <2> QED
    BY <2>2, <2>3
<1>8. CASE PromptWritten(l)
  <2> DEFINE a == task[l].agent
             freed == [agents[a] EXCEPT !.stdin = "free"]
  <2>1. task[l].pc = "write" /\ task[l].pc \in Sending /\ a \in DOMAIN agents
    BY <1>8, PromptWrittenDoes DEF PromptWritten, Sending
  <2>2. agents[a] \in Process /\ PumpAtWork(agents[a])
    BY <2>1, TypedProcess
  <2>3. freed.of = agents[a].of /\ freed.turns = agents[a].turns /\ freed \in Process
    BY <2>2 DEF Process
  <2>4. TakenBack(freed, task[l].turn) = TakenBack(agents[a], task[l].turn)
    BY <2>3 DEF TakenBack
  <2>5. CASE freed.over
    <3>1. /\ agents' = [agents EXCEPT ![a] = [freed EXCEPT !.turns = TakenBack(freed, task[l].turn)]]
          /\ chat' = Ends(chat, task[l].turn) /\ task' = [task EXCEPT ![l] = Idle]
      BY <1>8, <2>5 DEF PromptWritten, TurnFailed, Done
    <3> HIDE DEF freed
    <3>2. agents'[a].turns = TakenBack(freed, task[l].turn)
      BY <2>1, <2>3, <3>1 DEF TurnsTypeOK, Process
    <3> QED
      BY <1>1, <2>1, <2>4, <3>1, <3>2, WorkingTakesBack
  <2>6. CASE ~freed.over
    <3>1. chat' = chat /\ task' = [task EXCEPT ![l] = Idle]
      BY <1>8, <2>6 DEF PromptWritten, Done
    <3>2. task'[l].pc = "idle"
      BY <1>1, <3>1 DEF TurnsTypeOK
    <3> QED
      BY <1>2, <2>1, <3>1, <3>2 DEF Starters
  <2> QED
    BY <2>5, <2>6
<1>9. CASE Unqueue(l)
  <2>1. task[l].pc = "unqueue" /\ task'[l].pc = "idle" /\ chat' = Without(chat, {task[l].turn})
    BY <1>1, <1>9, UnqueueDoes DEF Unqueue
  <2>2. chat'.agent = chat.agent /\ chat'.open = chat.open /\ chat'.active = chat.active
    BY <1>1, <2>1, WithoutFields
  <2> QED
    BY <1>2, <2>1, <2>2 DEF Starters
<1>10. CASE MarkTurn(l)
  BY <1>10, WorkingMark
<1>11. CASE TellInterrupt(l) \/ InterruptTold(l)
  <2>1. task[l].pc # "mark" /\ chat' = chat /\ (Done(l) \/ Goes(l, "telling"))
    BY <1>11 DEF TellInterrupt, InterruptTold
  <2>2. task'[l].pc \in {"idle", "telling"}
    <3>1. task' = [task EXCEPT ![l] = Idle] \/ task' = [task EXCEPT ![l] = [task[l] EXCEPT !.pc = "telling"]]
      BY <2>1 DEF Done, Goes
    <3>2. task[l] \in Doing
      BY TypedLane DEF AtWork
    <3>3. [task[l] EXCEPT !.pc = "telling"].pc = "telling"
      BY <3>2 DEF Doing
    <3> QED
      BY <1>1, <3>1, <3>3 DEF TurnsTypeOK
  <2> QED
    BY <1>2, <2>1, <2>2 DEF Starters
<1> QED
  BY <1>3, <1>4, <1>5, <1>6, <1>7, <1>8, <1>9, <1>10, <1>11 DEF LaneStep

\* A prompt that is given to the chat's agent is that of its active turn.
LEMMA WorkingPush ==
  ASSUME TurnsAssumption, TurnsTypeOK, Working, TurnsHaveOnePlace, NEW l \in Lanes, PushTurn(l)
  PROVE  Working'
<1>1. /\ TurnsTypeOK' /\ task[l].pc = "push" /\ raced \subseteq raced'
      /\ \A k \in Lanes : k # l => task'[k] = task[k]
  BY PushTurnDoes, Races
<1>2. CASE agents' = agents /\ TurnFailed(l)
  BY <1>1, <1>2, WorkingFails DEF Starting
<1>3. CASE ~(agents' = agents /\ TurnFailed(l) /\ QuietStep)
  <2>1. PICK a \in DOMAIN agents, held \in BOOLEAN :
          /\ chat' = chat /\ DOMAIN agents' = DOMAIN agents /\ ~Refuses(agents[a]) /\ a = task[l].agent
          /\ agents'[a] = [agents[a] EXCEPT !.turns = Append(agents[a].turns, Pending(task[l].turn, held))]
          /\ \A b \in DOMAIN agents : b # a => agents'[b] = agents[b]
          /\ task'[l] = Idle \/ task'[l].pc = "send"
    <3>1. \/ agents' = agents /\ TurnFailed(l) /\ QuietStep
          \/ \E a \in DOMAIN agents, held \in BOOLEAN :
               /\ a = task[l].agent /\ chat' = chat /\ raced \subseteq raced' /\ DOMAIN agents' = DOMAIN agents
               /\ ~Refuses(agents[a])
               /\ held <=> agents[a].of = "codex" /\ agents[a].turns # <<>>
               /\ agents'[a] = [agents[a] EXCEPT !.turns = Append(agents[a].turns, Pending(task[l].turn, held))]
               /\ \A b \in DOMAIN agents : b # a => agents'[b] = agents[b]
               /\ IF held THEN task'[l] = Idle
                  ELSE /\ task'[l].pc = "send" /\ task'[l].turn = task[l].turn /\ task'[l].agent = task[l].agent
      BY PushTurnDoes
    <3> QED
      BY <1>3, <3>1
  <2> DEFINE t == task[l].turn
             x == Pending(t, held)
             n == Len(agents[a].turns) + 1
  <2>2. t \in Turn /\ agents[a].turns \in Seq(Pended) /\ agents[a] \in Process
    BY <1>1, LaneHasAgent, TypedProcess DEF AtItsAgent
  <2>3. x \in Pended /\ x.id = t /\ ~x.cancelled
    BY <2>2 DEF Pending, Pended
  <2>4. agents'[a].turns = Append(agents[a].turns, x) /\ agents'[a].of = agents[a].of
    BY <2>1, <2>2 DEF Process
  <2> HIDE DEF t, x
  <2>5. \A i \in DOMAIN agents'[a].turns :
          \/ i = n /\ agents'[a].turns[i] = x
          \/ i \in DOMAIN agents[a].turns /\ agents'[a].turns[i] = agents[a].turns[i]
    <3>1. PICK m \in Nat : Len(agents[a].turns) = m /\ DOMAIN agents[a].turns = 1..m
      BY <2>2
    <3>2. DOMAIN agents'[a].turns = 1..(m + 1) /\ agents'[a].turns[m + 1] = x /\ \A i \in 1..m : agents'[a].turns[i] = agents[a].turns[i]
      BY <2>2, <2>3, <2>4, <3>1, AppendHas
    <3> QED
      BY <3>1, <3>2
  <2> HIDE DEF n
  <2>6. \A b \in DOMAIN agents : \A i \in BusyTurns(agents'[b].turns) :
          \/ b = a /\ i = n /\ agents'[b].turns[i].id = t
          \/ i \in BusyTurns(agents[b].turns) /\ agents'[b].turns[i].id = agents[b].turns[i].id
    <3>1. \A i \in BusyTurns(agents'[a].turns) :
            \/ i = n /\ agents'[a].turns[i].id = t
            \/ i \in BusyTurns(agents[a].turns) /\ agents'[a].turns[i].id = agents[a].turns[i].id
      BY <2>3, <2>5 DEF BusyTurns
    <3>2. \A b \in DOMAIN agents : b # a => agents'[b].turns = agents[b].turns
      BY <2>1
    <3> QED
      BY <3>1, <3>2
  <2>7. OneIsBusy'
    <3> SUFFICES ASSUME NEW b \in DOMAIN agents', agents'[b].of = "claude",
                        NEW i \in BusyTurns(agents'[b].turns), NEW j \in BusyTurns(agents'[b].turns)
                 PROVE  i = j
      BY DEF OneIsBusy
    <3>1. CASE b = a
      <4>1. BusyTurns(agents[a].turns) = {}
        BY <2>1, <2>4, <3>1 DEF Refuses, Busy
      <4>2. i = n /\ j = n
        BY <2>1, <2>6, <3>1, <4>1
      <4> QED
        BY <4>2
    <3>2. CASE b # a
      <4>1. b \in DOMAIN agents /\ agents'[b] = agents[b]
        BY <2>1, <3>2
      <4> QED
        BY <4>1 DEF Working, OneIsBusy
    <3> QED
      BY <3>1, <3>2
  <2>8. AgentIsOpen'
    BY <2>1 DEF Working, AgentIsOpen
  <2>9. \A k \in Lanes : task'[k].pc \in Starters => k # l /\ task'[k] = task[k]
    <3>1. Idle.pc = "idle"
      BY DEF Idle
    <3> QED
      BY <1>1, <2>1, <3>1 DEF Starters
  <2>10. Held' \subseteq Held
    <3> SUFFICES ASSUME NEW u \in Turn, u \in Held' PROVE u \in Held
      BY DEF Held
    <3>1. CASE \E b \in LiveAgent' : \E i \in BusyTurns(agents'[b].turns) : agents'[b].turns[i].id = u
      <4>1. PICK b \in LiveAgent : \E i \in BusyTurns(agents'[b].turns) : agents'[b].turns[i].id = u
        BY <2>1, <3>1 DEF LiveAgent
      <4>2. PICK i \in BusyTurns(agents'[b].turns) : agents'[b].turns[i].id = u
        BY <4>1
      <4>3. b \in DOMAIN agents /\ chat.agent # 0
        BY <4>1, LiveIsThere
      <4>4. CASE u = t
        <5>1. chat.open
          BY <4>3 DEF Working, AgentIsOpen
        <5> QED
          BY <1>1, <4>4, <5>1 DEF Held, Starters, t
      <4>5. CASE i \in BusyTurns(agents[b].turns) /\ agents'[b].turns[i].id = agents[b].turns[i].id
        BY <4>1, <4>2, <4>5 DEF Held
      <4> QED
        BY <2>6, <4>2, <4>3, <4>4, <4>5
    <3>2. CASE chat'.open /\ \E k \in Lanes : task'[k].pc \in Starters /\ task'[k].turn = u
      BY <2>1, <2>9, <3>2 DEF Held
    <3> QED
      BY <3>1, <3>2 DEF Held
  <2>11. NoTurn \notin Held'
    <3>1. \A u \in Held' : u \in Turn
      BY DEF Held
    <3> QED
      BY <3>1, Ids
  <2>12. Marking \subseteq Marking'
    BY <1>1, MarksStay
  <2>13. HeldIsActive'
    BY <1>1, <2>1, <2>10, <2>11, <2>12, ActiveKept DEF Working
  <2> QED
    BY <2>7, <2>8, <2>13 DEF Working
<1> QED
  BY <1>2, <1>3

LEMMA WorkingSpawn ==
  ASSUME TurnsAssumption, TurnsTypeOK, Working, NEW l \in Lanes, SpawnAgent(l)
  PROVE  Working'
<1>1. /\ TurnsTypeOK' /\ QuietMore /\ raced \subseteq raced' /\ \A k \in Lanes : k # l => task'[k] = task[k]
      /\ task[l].pc = "spawn" /\ chat \in Chat
  BY SpawnAgentDoes, SpawnIsQuiet, Races DEF SpawnAgent, TurnsTypeOK
<1>2. Marking \subseteq Marking'
  BY <1>1, MarksStay
<1>3. PICK m \in Nat :
         /\ m \notin DOMAIN agents /\ m \in DOMAIN agents'
         /\ agents'[m] = Spawned(task[l].with, task[l].of)
         /\ IF chat.open THEN /\ chat' = [chat EXCEPT !.agent = m]
                              /\ task'[l].pc = "push" /\ task'[l].turn = task[l].turn
            ELSE chat' = chat /\ task'[l] = Idle
  BY SpawnAgentDoes
<1>4. CASE chat.open
  <2>1. chat'.open /\ chat'.active = chat.active /\ chat'.agent = m
    BY <1>1, <1>3, <1>4 DEF Chat
  <2>2. BusyTurns(agents'[m].turns) = {}
    <3>1. agents'[m].turns = <<>>
      BY <1>3 DEF Spawned
    <3> QED
      BY <3>1 DEF BusyTurns
  <2>3. \A k \in Lanes : task'[k].pc \in Starters => task[k].pc \in Starters /\ task'[k].turn = task[k].turn
    BY <1>1, <1>3, <1>4 DEF Starters
  <2>4. Held' \subseteq Held
    <3> SUFFICES ASSUME NEW u \in Turn, u \in Held' PROVE u \in Held
      BY DEF Held
    <3>1. \E k \in Lanes : task'[k].pc \in Starters /\ task'[k].turn = u
      BY <2>1, <2>2 DEF Held, LiveAgent
    <3> QED
      BY <1>4, <2>3, <3>1 DEF Held
  <2>5. NoTurn \notin Held'
    <3>1. \A u \in Held' : u \in Turn
      BY DEF Held
    <3> QED
      BY <3>1, Ids
  <2>6. HeldIsActive'
    BY <1>1, <1>2, <2>1, <2>4, <2>5, ActiveKept DEF Working
  <2> QED
    BY <1>1, <2>1, <2>6, OneIsBusyFrame DEF Working, AgentIsOpen
<1>5. CASE ~chat.open
  <2>1. chat' = chat /\ task'[l].pc = "idle"
    <3>1. Idle.pc = "idle"
      BY DEF Idle
    <3> QED
      BY <1>3, <1>5, <3>1
  <2>2. \A k \in Lanes : task'[k].pc \in Starters => task[k].pc \in Starters /\ task'[k].turn = task[k].turn
    BY <1>1, <2>1 DEF Starters
  <2> QED
    BY <1>1, <1>2, <2>1, <2>2, WorkingFrame
<1> QED
  BY <1>4, <1>5

\* A process's own run becomes the chat's active turn.
LEMMA WorkingWake ==
  ASSUME TurnsAssumption, TurnsTypeOK, Working, NEW a \in DOMAIN agents, AdoptWakeTurn(a)
  PROVE  Working'
<1> DEFINE t == Woken(a)
<1>1. /\ TurnsTypeOK' /\ UNCHANGED task /\ DOMAIN agents' = DOMAIN agents
      /\ \A b \in DOMAIN agents : b # a => agents'[b] = agents[b]
      /\ chat \in Chat /\ t \in Turn /\ Marking' = Marking
  <2>1. a \in 1..MaxAgents /\ chat \in Chat
    BY DEF TurnsTypeOK, TurnsAssumption
  <2>2. t \in Turn
    BY <2>1, Ids
  <2> HIDE DEF t
  <2>3. /\ TurnsTypeOK' /\ UNCHANGED task /\ DOMAIN agents' = DOMAIN agents
        /\ \A b \in DOMAIN agents : b # a => agents'[b] = agents[b]
    BY AdoptWakeTurnDoes
  <2> QED
    BY <2>1, <2>2, <2>3 DEF Marking
<1>2. \A k \in Lanes : task'[k].pc \in Starters => task[k].pc \in Starters /\ task'[k].turn = task[k].turn
  BY <1>1
<1>3. CASE QuietStep /\ chat' = chat /\ raced' = raced
  BY <1>1, <1>2, <1>3, QuietIsMore, WorkingFrame
<1>4. CASE /\ agents[a].turns = <<>>
           /\ agents'[a] = [agents[a] EXCEPT !.out = Tail(@), !.turns = <<Pending(t, FALSE)>>]
           /\ chat' = Starts(chat, t) /\ Note(When(chat.active # NoTurn, "orphaned"))
  <2>1. chat'.agent = chat.agent /\ chat'.open = chat.open /\ chat'.active = IF chat.open THEN t ELSE chat.active
    BY <1>1, <1>4, StartsFields
  <2>2. raced \subseteq raced' /\ (chat.active # NoTurn => "orphaned" \in raced')
    BY <1>4 DEF Note, When
  <2>3. agents'[a].turns = <<Pending(t, FALSE)>> /\ agents'[a].of = agents[a].of
    BY <1>4, TypedProcess DEF Process
  <2>4. DOMAIN agents'[a].turns = {1} /\ agents'[a].turns[1].id = t
    BY <2>3 DEF Pending
  <2> HIDE DEF t
  <2>5. BusyTurns(agents'[a].turns) \subseteq {1}
    BY <2>4 DEF BusyTurns
  <2>6. Held' \subseteq Held \cup {t}
    <3> SUFFICES ASSUME NEW u \in Turn, u \in Held', u # t PROVE u \in Held
      BY DEF Held
    <3>1. CASE \E b \in LiveAgent' : \E i \in BusyTurns(agents'[b].turns) : agents'[b].turns[i].id = u
      <4>1. PICK b \in LiveAgent : \E i \in BusyTurns(agents'[b].turns) : agents'[b].turns[i].id = u
        BY <2>1, <3>1 DEF LiveAgent
      <4>2. b # a /\ b \in DOMAIN agents
        BY <2>4, <2>5, <4>1, LiveIsThere
      <4> QED
        BY <1>1, <4>1, <4>2 DEF Held
    <3>2. CASE chat'.open /\ \E k \in Lanes : task'[k].pc \in Starters /\ task'[k].turn = u
      BY <1>1, <2>1, <3>2 DEF Held
    <3> QED
      BY <3>1, <3>2 DEF Held
  <2>7. AgentIsOpen'
    BY <2>1 DEF Working, AgentIsOpen
  <2>8. t \in Held' => chat'.active = t
    BY <2>1, <2>7 DEF Held, AgentIsOpen, LiveAgent
  <2>9. HeldIsActive'
    BY <1>1, <2>2, <2>6, <2>8, ActiveNew DEF Working
  <2>10. OneIsBusy'
    <3> SUFFICES ASSUME NEW b \in DOMAIN agents', agents'[b].of = "claude",
                        NEW i \in BusyTurns(agents'[b].turns), NEW j \in BusyTurns(agents'[b].turns)
                 PROVE  i = j
      BY DEF OneIsBusy
    <3>1. CASE b = a
      BY <2>5, <3>1
    <3>2. CASE b # a
      BY <1>1, <3>2 DEF Working, OneIsBusy
    <3> QED
      BY <3>1, <3>2
  <2> QED
    BY <2>7, <2>9, <2>10 DEF Working
<1> QED
  BY <1>3, <1>4, AdoptWakeTurnDoes

\* A turn that ends is with its pump alone.
LEMMA WorkingApply ==
  ASSUME TurnsAssumption, TurnsTypeOK, Working, TurnsHaveOnePlace, NEW a \in DOMAIN agents, ApplyEnd(a)
  PROVE  Working'
<1> DEFINE t == agents[a].pump.turn
           c == Ends(chat, t)
<1>1. /\ TurnsTypeOK' /\ QuietStep /\ QuietMore /\ task' = task /\ raced' = raced /\ agents[a].pump.pc = "apply"
      /\ chat' = c \/ chat' = RetiredChat(c)
  BY ApplyEndDoes, QuietIsMore DEF ApplyEnd, At
<1>2. c \in Chat /\ c.agent = chat.agent /\ c.open = chat.open /\ (c.active = chat.active \/ chat.active = t)
  <2>1. chat \in Chat
    BY DEF TurnsTypeOK
  <2> QED
    BY <2>1, EndsFields
<1> HIDE DEF c
<1>3. chat'.agent \in {chat.agent, 0} /\ chat'.open = chat.open /\ (chat'.active = chat.active \/ chat.active = t)
  BY <1>1, <1>2, RetiredFields
<1>4. \A b \in DOMAIN agents : \A i \in DOMAIN agents[b].turns : agents[b].turns[i].id # t
  BY <1>1 DEF TurnsHaveOnePlace, Closing
<1>5. \A b \in DOMAIN agents' : \A i \in BusyTurns(agents'[b].turns) : agents'[b].turns[i].id # t
  BY <1>1, <1>4, BusyBefore DEF BusyTurns
<1>6. \A k \in Lanes : task'[k].pc \in Starters => task'[k].turn # t
  BY <1>1 DEF TurnsHaveOnePlace, Closing, Starting, Starters
<1>7. t \notin Held'
  BY <1>1, <1>5, <1>6, NotHeld
<1>8. Marking' = Marking
  BY <1>1 DEF Marking
<1> QED
  BY <1>1, <1>3, <1>7, <1>8, WorkingEnds

LEMMA WorkingDrain ==
  ASSUME TurnsAssumption, TurnsTypeOK, Working, NEW a \in DOMAIN agents, DrainQueue(a)
  PROVE  Working'
<1> DEFINE m == agents[a].pump.turn
           t == Drained(m, a)
<1>1. /\ TurnsTypeOK' /\ QuietMore
      /\ Drainer \in Lanes /\ task[Drainer].pc = "idle"
      /\ task'[Drainer].turn = t
      /\ \A k \in Lanes : k # Drainer => task'[k] = task[k]
      /\ Note(When(m \notin Range(chat.queue), "unqueued") \cup When(chat.active # NoTurn, "orphaned"))
      /\ chat'.open = chat.open /\ chat'.active = IF chat.open THEN t ELSE chat.active
      /\ chat'.agent \in {chat.agent, 0}
  BY DrainQueueDoes, QuietIsMore DEF Lanes
<1>2. raced \subseteq raced' /\ (chat.active # NoTurn => "orphaned" \in raced')
  BY <1>1 DEF Note, When
<1> QED
  BY <1>1, <1>2, WorkingStarts

\* The process that ends drops its turns; another may be shut down by it.
LEMMA StreamEndsDrops ==
  ASSUME TurnsAssumption, TurnsTypeOK, NEW a \in DOMAIN agents, StreamEnds(a)
  PROVE  /\ \A b \in DOMAIN agents : b # a => agents'[b] \in {agents[b], Shut(agents[b])}
         /\ agents'[a].turns = <<>> /\ agents'[a].out = agents[a].out
         /\ agents'[a].inbox \in {agents[a].inbox, <<>>}
         /\ agents'[a].pump =
              IF Fails(agents[a]) = {} THEN agents[a].pump
              ELSE Pumps(IF chat.queue = <<>> THEN "rest" ELSE "purge", NoTurn, "", Range(chat.queue))
<1> DEFINE p == agents[a]
           failed == Fails(p)
           m == [p EXCEPT !.dead = TRUE, !.turns = <<>>]
           gone == [agents EXCEPT ![a] = m]
           retires == chat.retire /\ chat.agent # 0 /\ (chat.agent = a \/ RetiresNow(chat.agent))
           u == Pumps(IF chat.queue = <<>> THEN "rest" ELSE "purge", NoTurn, "", Range(chat.queue))
           S == Shut(gone[chat.agent])
           R == IF retires THEN [gone EXCEPT ![chat.agent] = S] ELSE gone
<1>1. p \in Process /\ agents \in Seq(Process) /\ chat.agent \in Nat
  <2>1. 0..MaxAgents \subseteq Nat
    BY DEF TurnsAssumption
  <2> QED
    BY <2>1, TypedProcess DEF TurnsTypeOK, Chat
<1>2. m \in Process /\ m.turns = <<>> /\ m.out = p.out /\ m.inbox = p.inbox /\ m.pump = p.pump
  <2>1. <<>> \in Seq(Pended)
    OBVIOUS
  <2> QED
    BY <1>1, <2>1 DEF Process
<1> HIDE DEF m
<1>3. gone \in Seq(Process) /\ DOMAIN gone = DOMAIN agents /\ gone[a] = m /\ \A b \in DOMAIN agents : b # a => gone[b] = agents[b]
  BY <1>1, <1>2
<1>4. CASE failed = {}
  <2>1. agents' = gone
    BY <1>4 DEF StreamEnds, m
  <2> HIDE DEF gone
  <2> QED
    BY <1>2, <1>3, <1>4, <2>1
<1>5. CASE failed # {}
  <2>1. agents' = [R EXCEPT ![a].pump = u]
    BY <1>5 DEF StreamEnds, m
  <2>2. retires => chat.agent \in DOMAIN agents
    BY <1>1 DEF TurnsTypeOK
  <2>3. m.pump = p.pump /\ Shut(m).turns = <<>> /\ Shut(m).out = p.out /\ Shut(m).inbox = <<>> /\ Shut(m) \in Process
    <3>1. <<>> \in Seq(Line) /\ {} \subseteq Turn \cup {NoTurn}
      OBVIOUS
    <3> QED
      BY <1>2, <3>1 DEF Shut, Process
  <2> HIDE DEF gone, u, retires
  <2>4. /\ DOMAIN R = DOMAIN agents /\ R[a] \in {m, Shut(m)}
        /\ \A b \in DOMAIN agents : b # a => R[b] \in {agents[b], Shut(agents[b])}
    BY <1>3, <2>2
  <2> HIDE DEF R
  <2>5. /\ \A b \in DOMAIN agents : b # a => agents'[b] = R[b]
        /\ agents'[a] = [R[a] EXCEPT !.pump = u]
    BY <2>1, <2>4
  <2>6. R[a] \in Process /\ R[a].turns = <<>> /\ R[a].out = p.out /\ R[a].inbox \in {p.inbox, <<>>}
    BY <1>2, <2>3, <2>4
  <2>7. agents'[a].turns = <<>> /\ agents'[a].out = p.out /\ agents'[a].inbox \in {p.inbox, <<>>} /\ agents'[a].pump = u
    BY <2>5, <2>6 DEF Process
  <2> QED
    BY <1>5, <2>4, <2>5, <2>7 DEF u
<1> QED
  BY <1>4, <1>5

LEMMA WorkingStreamEnds ==
  ASSUME TurnsAssumption, TurnsTypeOK, Working, TurnsHaveOnePlace, NEW a \in DOMAIN agents, StreamEnds(a)
  PROVE  Working'
<1> DEFINE t == chat.active
           failed == Fails(agents[a])
<1>1. TurnsTypeOK' /\ QuietStep /\ QuietMore /\ task' = task /\ raced' = raced /\ chat \in Chat
  BY StreamEndsDoes, QuietIsMore DEF StreamEnds, TurnsTypeOK
<1>2. Marking' = Marking /\ \A k \in Lanes : task'[k] = task[k]
  BY <1>1 DEF Marking
<1>3. CASE failed = {} \/ t \notin failed
  <2>1. chat' = chat \/ chat' = [chat EXCEPT !.agent = 0, !.retire = FALSE]
    BY <1>3 DEF StreamEnds
  <2>2. chat'.agent \in {chat.agent, 0} /\ chat'.open = chat.open /\ chat'.active = chat.active
    BY <1>1, <2>1 DEF Chat
  <2> QED
    BY <1>1, <1>2, <2>2, WorkingFrame
<1>4. CASE failed # {} /\ t \in failed
  <2> DEFINE c == Ends(chat, t)
  <2>1. chat' = c \/ chat' = [c EXCEPT !.agent = 0, !.retire = FALSE]
    BY <1>4 DEF StreamEnds
  <2>2. c \in Chat /\ c.agent = chat.agent /\ c.open = chat.open
    BY <1>1, EndsFields
  <2> HIDE DEF c
  <2>3. chat'.agent \in {chat.agent, 0} /\ chat'.open = chat.open
    BY <2>1, <2>2 DEF Chat
  <2>4. PICK i \in DOMAIN agents[a].turns : agents[a].turns[i].id = t
    BY <1>4 DEF Fails
  <2>5. agents'[a].turns = <<>>
    BY StreamEndsDrops
  <2>6. \A b \in DOMAIN agents' : \A j \in BusyTurns(agents'[b].turns) : agents'[b].turns[j].id # t
    <3> SUFFICES ASSUME NEW b \in DOMAIN agents', NEW j \in BusyTurns(agents'[b].turns), agents'[b].turns[j].id = t
                 PROVE  FALSE
      OBVIOUS
    <3>1. b = a
      BY <1>1, <2>4, BusyBefore DEF TurnsHaveOnePlace, BusyTurns
    <3>2. DOMAIN agents'[a].turns = {}
      BY <2>5
    <3> QED
      BY <3>1, <3>2 DEF BusyTurns
  <2>7. \A k \in Lanes : task'[k].pc \in Starters => task'[k].turn # t
    BY <1>2, <2>4 DEF TurnsHaveOnePlace, Starting, Starters
  <2>8. t \notin Held'
    BY <1>1, <2>6, <2>7, NotHeld
  <2> QED
    BY <1>1, <1>2, <2>3, <2>8, WorkingEnds
<1> QED
  BY <1>3, <1>4

LEMMA WorkingNext ==
  ASSUME TurnsAssumption, TurnsTypeOK, Working, TurnsHaveOnePlace, TurnsNext
  PROVE  Working'
<1>1. chat \in Chat
  BY DEF TurnsTypeOK
<1>2. ASSUME TurnsTypeOK', QuietMore, task' = task, raced \subseteq raced',
             chat'.agent \in {chat.agent, 0}, chat'.open = chat.open, chat'.active = chat.active
      PROVE  Working'
  <2>1. Marking' = Marking
    BY <1>2 DEF Marking
  <2> QED
    BY <1>2, <2>1, WorkingFrame
<1>3. ASSUME NEW l \in Conn, StartTurn(l) PROVE Working'
  <2>1. /\ TurnsTypeOK' /\ QuietMore /\ l \in Lanes /\ task[l].pc = "idle" /\ UNCHANGED <<chat, raced>>
        /\ task'[l].pc \in {"queue", "begin"} /\ \A k \in Lanes : k # l => task'[k] = task[k]
    BY <1>3, StartTurnDoes, QuietIsMore DEF Lanes
  <2>2. Marking \subseteq Marking'
    BY <2>1, MarksStay
  <2>3. \A k \in Lanes : task'[k].pc \in Starters => task[k].pc \in Starters /\ task'[k].turn = task[k].turn
    BY <2>1 DEF Starters
  <2> QED
    BY <2>1, <2>2, <2>3, WorkingFrame
<1>4. ASSUME NEW l \in Conn, NEW t \in Turn, CancelTurn(l, t) PROVE Working'
  <2>1. /\ TurnsTypeOK' /\ QuietMore /\ task'[l].turn = t /\ \A k \in Lanes : k # l => task'[k] = task[k]
        /\ \/ task'[l].pc = "unqueue" /\ chat' = chat
           \/ task'[l].pc = "mark" /\ chat' = Ends(chat, t)
    BY <1>4, CancelTurnDoes, QuietIsMore
  <2>2. l \in Lanes /\ task[l].pc = "idle" /\ raced \subseteq raced'
    BY <1>4 DEF CancelTurn, Note, Lanes
  <2>3. Marking \subseteq Marking'
    BY <2>1, <2>2, MarksStay
  <2>4. \A k \in Lanes : task'[k].pc \in Starters => task[k].pc \in Starters /\ task'[k].turn = task[k].turn
    BY <2>1 DEF Starters
  <2>5. CASE chat' = chat
    BY <2>1, <2>2, <2>3, <2>4, <2>5, WorkingFrame
  <2>6. CASE task'[l].pc = "mark" /\ chat' = Ends(chat, t)
    <3>1. /\ chat'.agent = chat.agent /\ chat'.open = chat.open
          /\ chat'.active = chat.active \/ (chat'.active = NoTurn /\ chat.active = t)
      BY <1>1, <2>6, EndsFields
    <3>2. t \in Marking'
      BY <2>1, <2>2, <2>6 DEF Marking
    <3>3. Held' \subseteq Held \cup {}
      BY <2>1, <2>4, <3>1, HeldFrame
    <3>4. HeldIsActive'
      BY <2>2, <2>3, <3>1, <3>2, <3>3 DEF Working, HeldIsActive, Raced
    <3> QED
      BY <2>1, <3>1, <3>4, OneIsBusyFrame DEF Working, AgentIsOpen
  <2> QED
    BY <2>1, <2>5, <2>6
<1>5. CASE \E l \in Lanes : LaneStep(l) \/ PushTurn(l) \/ SpawnAgent(l)
  BY <1>5, WorkingLane, WorkingPush, WorkingSpawn
<1>6. ASSUME NEW a \in DOMAIN agents, ProcessStep(a) PROVE Working'
  <2>1. TurnsTypeOK' /\ QuietMore /\ task' = task /\ raced \subseteq raced' /\ chat' = chat
    BY <1>6, ProcessStepDoes, QuietIsMore
  <2> QED
    BY <1>2, <2>1
<1>7. CASE \E a \in DOMAIN agents : AdoptWakeTurn(a) \/ ApplyEnd(a) \/ DrainQueue(a) \/ StreamEnds(a)
  BY <1>7, WorkingWake, WorkingApply, WorkingDrain, WorkingStreamEnds
<1>8. ASSUME NEW a \in DOMAIN agents, PurgeQueue(a) PROVE Working'
  <2> DEFINE w == Without(chat, agents[a].pump.ids)
  <2>1. TurnsTypeOK' /\ QuietMore
    BY <1>8, PurgeQueueDoes, QuietIsMore
  <2>2. task' = task /\ raced \subseteq raced' /\ chat' = [w EXCEPT !.prompts = {}]
    BY <1>8 DEF PurgeQueue, Note
  <2>3. w \in Chat /\ w.agent = chat.agent /\ w.open = chat.open /\ w.active = chat.active
    BY <1>1, WithoutFields
  <2> HIDE DEF w
  <2>4. chat'.agent = chat.agent /\ chat'.open = chat.open /\ chat'.active = chat.active
    BY <2>2, <2>3 DEF Chat
  <2> QED
    BY <1>2, <2>1, <2>2, <2>4
<1>9. CASE ChangeSettings
  <2>1. TurnsTypeOK' /\ QuietMore
    BY <1>9, ChangeSettingsDoes, QuietIsMore
  <2>2. task' = task /\ raced' = raced /\ chat' = RetiredChat(chat)
    BY <1>9 DEF ChangeSettings, Resettle
  <2>3. chat'.agent \in {chat.agent, 0} /\ chat'.open = chat.open /\ chat'.active = chat.active
    BY <1>1, <2>2, RetiredFields
  <2> QED
    BY <1>2, <2>1, <2>2, <2>3
<1>10. CASE QueueMessage
  <2>1. /\ TurnsTypeOK' /\ QuietMore /\ task' = task
        /\ chat'.agent = chat.agent /\ chat'.open = chat.open /\ chat'.active = chat.active
    BY <1>10, QueueMessageDoes, QuietIsMore
  <2>2. raced \subseteq raced'
    BY <1>10 DEF QueueMessage, Note
  <2> QED
    BY <1>2, <2>1, <2>2
<1>11. CASE DisposeSession
  <2>1. TurnsTypeOK' /\ QuietMore /\ chat' = Closed
    BY <1>11, DisposeSessionDoes, QuietIsMore
  <2>2. chat'.agent = 0 /\ ~chat'.open
    BY <2>1 DEF Closed
  <2>3. Held' = {} /\ AgentIsOpen'
    BY <2>2 DEF Held, LiveAgent, AgentIsOpen
  <2>4. HeldIsActive'
    BY <2>3 DEF HeldIsActive
  <2> QED
    BY <2>1, <2>3, <2>4, OneIsBusyFrame DEF Working
<1> QED
  BY <1>3, <1>4, <1>5, <1>6, <1>7, <1>8, <1>9, <1>10, <1>11, NextSteps

LEMMA WorkingStutter ==
  ASSUME Working, UNCHANGED turnVars
  PROVE  Working'
BY DEF Working, HeldIsActive, AgentIsOpen, OneIsBusy, Held, LiveAgent, Marking, Raced, BusyTurns, turnVars

\* An agent works on one turn, and it is the chat's active one or a cancel is
\* on its way to it, but for the races that are named (claude.rs, prompt and
\* busy; server.rs, dispatch, prompt and agent_action).  No id is in two
\* places: that is what makes "the turn that ends is held by nobody" inductive.
THEOREM OnTheActiveTurn == TurnsSpec => []WorksOnTheActiveTurn
<1> DEFINE Inv == TurnsTypeOK /\ TurnsAreKnownApart /\ Working
<1>1. TurnsInit => Inv
  <2> SUFFICES ASSUME TurnsInit PROVE Inv
    OBVIOUS
  <2>1. TurnsTypeOK /\ TurnsAreKnownApart
    BY TurnsAssumption, TypeInit, ApartInit
  <2>2. DOMAIN agents = {} /\ chat.agent = 0 /\ (\A l \in Lanes : task[l].pc = "idle")
    <3>1. agents = <<>> /\ task = [l \in Lanes |-> Idle] /\ Idle.pc = "idle" /\ chat.agent = 0
      BY DEF TurnsInit, Idle, Closed
    <3> QED
      BY <3>1
  <2>3. Held = {}
    BY <2>2 DEF Held, LiveAgent, Starters
  <2>4. Working
    BY <2>2, <2>3 DEF Working, HeldIsActive, AgentIsOpen, OneIsBusy
  <2> QED
    BY <2>1, <2>4
<1>2. Inv /\ [TurnsNext]_turnVars => Inv'
  <2>1. ASSUME Inv, TurnsNext PROVE Inv'
    BY <2>1, TurnsAssumption, TypeOfNext, ApartNext, WorkingNext DEF TurnsAreKnownApart
  <2>2. ASSUME Inv, UNCHANGED turnVars PROVE Inv'
    BY <2>2, TypeOfStutter, ApartStutter, WorkingStutter
  <2> QED
    BY <2>1, <2>2
<1>3. Inv => WorksOnTheActiveTurn
  BY TurnsAssumption, WorkingIsActive
<1> QED
  BY <1>1, <1>2, <1>3, PTL DEF TurnsSpec

-----------------------------------------------------------------------------
(***************************************************************************)
(* The queue keeps its prompts, and is looked at.                          *)
(***************************************************************************)

\* Nothing of the process was cancelled.
Plain(out) == \A i \in DOMAIN out : out[i].word # "start" => out[i].how \in {"done", "error"}
Prompts(inbox) == \A i \in DOMAIN inbox : inbox[i].word = "prompt"
Kept(turns) == \A i \in DOMAIN turns : ~turns[i].cancelled
Uncancelled(p) ==
  /\ p.pump.pc \notin {"tell", "telling"}
  /\ p.pump.pc = "apply" => p.pump.how \in {"done", "error"}
  /\ Kept(p.turns) /\ Prompts(p.inbox) /\ Plain(p.out)

\* An end is to come, and a purge goes on, after as before.
Enders == {"begin", "ensure", "spawn", "push"}
EndsLater(p) == Busy(p) \/ p.pump.pc \in {"apply", "drain"}
LooksOn(p, q) ==
  /\ EndsLater(p) => EndsLater(q)
  /\ p.pump.pc = "purge" => q.pump = p.pump

\* What a step of a process that was not cancelled leaves of it.
GoesOn(p, q) == Uncancelled(p) => Uncancelled(q) /\ LooksOn(p, q)

LEMMA PlainAppend ==
  ASSUME NEW s \in Seq(Answer), Plain(s), NEW h \in Answer, h.word = "start" \/ h.how \in {"done", "error"}
  PROVE  Plain(Append(s, h))
<1>1. \A i \in DOMAIN Append(s, h) : Append(s, h)[i] = h \/ (i \in DOMAIN s /\ Append(s, h)[i] = s[i])
  BY AppendHas
<1> QED
  BY <1>1 DEF Plain

LEMMA PlainTail ==
  ASSUME NEW s \in Seq(Answer), Plain(s), s # <<>>
  PROVE  Plain(Tail(s)) /\ (Head(s).word # "start" => Head(s).how \in {"done", "error"})
<1>1. \A i \in DOMAIN Tail(s) : i + 1 \in DOMAIN s /\ Tail(s)[i] = s[i + 1]
  BY TailHas
<1>2. Head(s) = s[1] /\ 1 \in DOMAIN s
  BY TailHas
<1> QED
  BY <1>1, <1>2 DEF Plain

LEMMA PromptsAppend ==
  ASSUME NEW s \in Seq(Line), Prompts(s), NEW w \in Line, w.word = "prompt"
  PROVE  Prompts(Append(s, w))
<1>1. \A i \in DOMAIN Append(s, w) : Append(s, w)[i] = w \/ (i \in DOMAIN s /\ Append(s, w)[i] = s[i])
  BY AppendHas
<1> QED
  BY <1>1 DEF Prompts

LEMMA PromptsTail ==
  ASSUME NEW s \in Seq(Line), Prompts(s), s # <<>>
  PROVE  Prompts(Tail(s)) /\ Head(s).word = "prompt"
<1>1. \A i \in DOMAIN Tail(s) : i + 1 \in DOMAIN s /\ Tail(s)[i] = s[i + 1]
  BY TailHas
<1>2. Head(s) = s[1] /\ 1 \in DOMAIN s
  BY TailHas
<1> QED
  BY <1>1, <1>2 DEF Prompts

LEMMA NothingIsPlain == Plain(<<>>) /\ Prompts(<<>>) /\ Kept(<<>>)
<1>1. DOMAIN <<>> = {}
  OBVIOUS
<1> QED
  BY <1>1 DEF Plain, Prompts, Kept

\* A process nothing of which was cancelled is busy while it has a turn.
LEMMA KeptIsBusy ==
  ASSUME NEW p, Kept(p.turns), p.turns \in Seq(Pended)
  PROVE  Busy(p) <=> p.turns # <<>>
<1>1. p.turns # <<>> => 1 \in DOMAIN p.turns
  OBVIOUS
<1>2. p.turns = <<>> => DOMAIN p.turns = {}
  OBVIOUS
<1> QED
  BY <1>1, <1>2 DEF Kept, Busy, BusyTurns

LEMMA GoesOnFields ==
  ASSUME NEW p, NEW q, q.turns = p.turns, q.pump = p.pump,
         Prompts(p.inbox) => Prompts(q.inbox), Plain(p.out) => Plain(q.out)
  PROVE  GoesOn(p, q)
BY DEF GoesOn, Uncancelled, LooksOn, EndsLater, Busy

LEMMA GoesOnShut ==
  ASSUME NEW p \in Process
  PROVE  GoesOn(p, Shut(p))
<1>1. Shut(p).turns = p.turns /\ Shut(p).pump = p.pump /\ Shut(p).inbox = <<>> /\ Shut(p).out = p.out
  BY DEF Shut, Process
<1> QED
  BY <1>1, GoesOnFields, NothingIsPlain

LEMMA EndedGoesOn ==
  ASSUME NEW p \in Process, NEW how \in {"done", "error"}, p.run # {}
  PROVE  GoesOn(p, Ended(p, how))
<1> DEFINE h == Heard("result", p.run, how)
           q == Ended(p, how)
<1>1. p.out \in Seq(Answer) /\ p.run \subseteq Turn \cup {NoTurn}
  BY DEF Process
<1>2. h \in Answer /\ h.word = "result" /\ h.how = how
  BY <1>1 DEF Heard, Answer
<1>3. q.turns = p.turns /\ q.pump = p.pump /\ q.inbox = p.inbox /\ q.out = Append(p.out, h)
  BY DEF Ended, Process
<1> HIDE DEF h, q
<1>4. Plain(p.out) => Plain(q.out)
  BY <1>1, <1>2, <1>3, PlainAppend
<1> QED
  BY <1>3, <1>4, GoesOnFields DEF q

LEMMA ReadsGoesOn ==
  ASSUME TurnsAssumption, NEW p \in Process, p.inbox # <<>>
  PROVE  GoesOn(p, Reads([p EXCEPT !.inbox = Tail(@)], Head(p.inbox)))
<1> DEFINE w == Head(p.inbox)
           q == [p EXCEPT !.inbox = Tail(@)]
           h == Heard("start", {w.turn}, "")
           r == Reads(q, w)
<1>1. p.inbox \in Seq(Line) /\ p.out \in Seq(Answer)
  BY DEF Process
<1>2. w \in Line /\ Tail(p.inbox) \in Seq(Line)
  BY <1>1, TailHas
<1>3. q \in Process /\ q.inbox = Tail(p.inbox) /\ q.turns = p.turns /\ q.pump = p.pump /\ q.out = p.out
  BY <1>2 DEF Process
<1>4. Prompts(p.inbox) => Prompts(Tail(p.inbox)) /\ w.word = "prompt"
  BY <1>1, PromptsTail
<1>5. h \in Answer /\ h.word = "start"
  BY <1>2 DEF Heard, Answer, Line
<1> HIDE DEF w, q, h
<1>6. ASSUME w.word = "prompt" PROVE GoesOn(p, r)
  <2>1. r.turns = q.turns /\ r.pump = q.pump /\ r.inbox = q.inbox /\ r.out \in {q.out, Append(q.out, h)}
    BY <1>3, <1>6 DEF Reads, Process, h
  <2> HIDE DEF r
  <2>2. Plain(p.out) => Plain(r.out)
    <3>1. Plain(p.out) => Plain(Append(p.out, h))
      BY <1>1, <1>5, PlainAppend
    <3> QED
      BY <1>3, <2>1, <3>1
  <2> QED
    BY <1>3, <1>4, <2>1, <2>2, GoesOnFields
<1>7. ASSUME w.word # "prompt" PROVE GoesOn(p, r)
  BY <1>4, <1>7 DEF GoesOn, Uncancelled
<1> QED
  BY <1>6, <1>7 DEF r, q, w

\* The processes' own steps.
LEMMA ItsOwnGoesOn ==
  ASSUME TurnsAssumption, TurnsTypeOK, NEW a \in DOMAIN agents,
         \/ ProcessReads(a) \/ ProcessAnswers(a) \/ ProcessErrs(a) \/ ProcessRejects(a)
         \/ ProcessWakes(a) \/ ProcessDies(a)
  PROVE  GoesOn(agents[a], agents'[a])
<1> DEFINE p == agents[a]
<1>1. p \in Process /\ p.inbox \in Seq(Line) /\ agents \in Seq(Process) /\ p.out \in Seq(Answer)
  BY TypedProcess DEF TurnsTypeOK
<1>2. CASE ProcessReads(a)
  BY <1>1, <1>2, ReadsGoesOn DEF ProcessReads
<1>3. CASE ProcessAnswers(a)
  BY <1>1, <1>3, EndedGoesOn DEF ProcessAnswers
<1>4. CASE ProcessErrs(a)
  BY <1>1, <1>4, EndedGoesOn DEF ProcessErrs
<1>5. CASE ProcessRejects(a)
  <2> DEFINE w == Head(p.inbox)
             h == Heard("rejected", {w.turn}, "error")
  <2>1. p.inbox # <<>>
    BY <1>5 DEF ProcessRejects
  <2>2. w \in Line
    BY <1>1, <2>1, TailHas
  <2>3. h \in Answer /\ h.how = "error"
    BY <2>2 DEF Heard, Answer, Line
  <2>4. agents' = [agents EXCEPT ![a] = [[p EXCEPT !.inbox = Tail(p.inbox)] EXCEPT !.out = Append(p.out, h)]]
    BY <1>1, <1>5 DEF ProcessRejects
  <2> HIDE DEF h
  <2>5. agents'[a] = [[p EXCEPT !.inbox = Tail(p.inbox)] EXCEPT !.out = Append(p.out, h)]
    BY <1>1, <2>4
  <2>6. /\ agents'[a].turns = p.turns /\ agents'[a].pump = p.pump
        /\ agents'[a].inbox = Tail(p.inbox) /\ agents'[a].out = Append(p.out, h)
    BY <1>1, <2>5 DEF Process
  <2>7. Prompts(p.inbox) => Prompts(Tail(p.inbox))
    BY <1>1, <2>1, PromptsTail
  <2>8. Plain(p.out) => Plain(Append(p.out, h))
    BY <1>1, <2>3, PlainAppend
  <2> HIDE DEF p
  <2> QED
    BY <2>6, <2>7, <2>8, GoesOnFields DEF p
<1>6. CASE ProcessWakes(a)
  <2> DEFINE h == Heard("start", {NoTurn}, "")
  <2>1. h \in Answer /\ h.word = "start"
    BY DEF Heard, Answer
  <2>2. agents' = [agents EXCEPT ![a] = [[p EXCEPT !.run = {NoTurn}] EXCEPT !.out = Append(p.out, h)]]
    BY <1>1, <1>6 DEF ProcessWakes
  <2> HIDE DEF h
  <2>3. agents'[a] = [[p EXCEPT !.run = {NoTurn}] EXCEPT !.out = Append(p.out, h)]
    BY <1>1, <2>2
  <2>4. /\ agents'[a].turns = p.turns /\ agents'[a].pump = p.pump
        /\ agents'[a].inbox = p.inbox /\ agents'[a].out = Append(p.out, h)
    BY <1>1, <2>3 DEF Process
  <2>5. Plain(p.out) => Plain(Append(p.out, h))
    BY <1>1, <2>1, PlainAppend
  <2> HIDE DEF p
  <2> QED
    BY <2>4, <2>5, GoesOnFields DEF p
<1>7. CASE ProcessDies(a)
  <2>1. agents' = [agents EXCEPT ![a] = [[[p EXCEPT !.over = TRUE] EXCEPT !.inbox = <<>>] EXCEPT !.run = {}]]
    BY <1>1, <1>7 DEF ProcessDies
  <2>2. agents'[a] = [[[p EXCEPT !.over = TRUE] EXCEPT !.inbox = <<>>] EXCEPT !.run = {}]
    BY <1>1, <2>1
  <2>3. /\ agents'[a].turns = p.turns /\ agents'[a].pump = p.pump
        /\ agents'[a].inbox = <<>> /\ agents'[a].out = p.out
    BY <1>1, <2>2 DEF Process
  <2> HIDE DEF p
  <2> QED
    BY <2>3, GoesOnFields, NothingIsPlain DEF p
<1> QED
  BY <1>2, <1>3, <1>4, <1>5, <1>6, <1>7

\* The pump's steps: a turn that leaves the process is one that it ends.
LEMMA PumpedGoesOn ==
  ASSUME NEW p \in Process, NEW q \in Process, p.pump.pc # "purge",
         Uncancelled(p) =>
           /\ Kept(q.turns) /\ Prompts(q.inbox) /\ Plain(q.out)
           /\ q.pump.pc \notin {"tell", "telling"}
           /\ q.pump.pc = "apply" => q.pump.how \in {"done", "error"}
           /\ p.turns # <<>> \/ p.pump.pc \in {"apply", "drain"} =>
                q.turns # <<>> \/ q.pump.pc \in {"apply", "drain"}
  PROVE  GoesOn(p, q)
<1>1. p.turns \in Seq(Pended) /\ q.turns \in Seq(Pended)
  BY DEF Process
<1>2. Kept(p.turns) => (Busy(p) <=> p.turns # <<>>)
  BY <1>1, KeptIsBusy
<1>3. Kept(q.turns) => (Busy(q) <=> q.turns # <<>>)
  BY <1>1, KeptIsBusy
<1> QED
  BY <1>2, <1>3 DEF GoesOn, Uncancelled, LooksOn, EndsLater

LEMMA KeptFront ==
  ASSUME NEW s \in Seq(Pended), Kept(s), s # <<>>, NEW x \in Pended, ~x.cancelled
  PROVE  Kept([s EXCEPT ![1] = x]) /\ [s EXCEPT ![1] = x] # <<>> /\ ~s[1].cancelled
<1>1. 1 \in DOMAIN s /\ DOMAIN [s EXCEPT ![1] = x] = DOMAIN s /\ [s EXCEPT ![1] = x] # <<>>
      /\ \A i \in DOMAIN s : [s EXCEPT ![1] = x][i] = IF i = 1 THEN x ELSE s[i]
  OBVIOUS
<1> HIDE DEF Kept
<1> QED
  BY <1>1 DEF Kept

LEMMA KeptPopped ==
  ASSUME TurnsAssumption, NEW s \in Seq(Pended), Kept(s)
  PROVE  Kept(Popped(s)) /\ (s # <<>> => s[1] \in Pended /\ ~s[1].cancelled /\ s[1].id # NoTurn)
<1>1. CASE s = <<>>
  BY <1>1 DEF Popped
<1>2. CASE s # <<>>
  <2>1. \A i \in DOMAIN Tail(s) : i + 1 \in DOMAIN s /\ Tail(s)[i] = s[i + 1]
    BY <1>2, TailHas
  <2>2. 1 \in DOMAIN s /\ s[1] \in Pended
    BY <1>2
  <2>3. s[1].id # NoTurn
    <3>1. s[1].id \in Turn
      BY <2>2 DEF Pended
    <3> QED
      BY <3>1, Ids
  <2> QED
    BY <1>2, <2>1, <2>2, <2>3 DEF Kept, Popped
<1> QED
  BY <1>1, <1>2

LEMMA BindGoesOn ==
  ASSUME TurnsAssumption, TurnsTypeOK, NEW a \in DOMAIN agents, BindTurn(a)
  PROVE  GoesOn(agents[a], agents'[a])
<1> DEFINE p == agents[a]
           turns == p.turns
           waits == turns # <<>> /\ turns[1].cancelled /\ ~turns[1].told
           named == CHOOSE t \in Head(p.out).turns : TRUE
           x == [turns[1] EXCEPT !.bound = IF @ = NoTurn THEN named ELSE @, !.told = @ \/ waits]
           s == IF turns = <<>> THEN turns ELSE [turns EXCEPT ![1] = x]
           u == IF waits THEN Pumps("tell", named, "", {}) ELSE Rest
           n == [p EXCEPT !.out = Tail(@), !.turns = s, !.pump = u]
<1>1. /\ p \in Process /\ p.out \in Seq(Answer) /\ turns \in Seq(Pended) /\ p.out # <<>>
      /\ p.pump.pc = "rest" /\ PumpAtWork(p) /\ p.of = "codex" /\ agents \in Seq(Process)
  BY TypedProcess DEF BindTurn, Hears, TurnsTypeOK
<1>2. Plain(p.out) => Plain(Tail(p.out))
  BY <1>1, PlainTail
<1>3. Head(p.out) \in Answer /\ NoTurn \notin Head(p.out).turns
  BY <1>1, TailHas DEF PumpAtWork
<1>4. named \in Turn
  BY <1>3 DEF Answer
<1> HIDE DEF named
<1>5. Kept(turns) => ~waits /\ Kept(s) /\ (s = <<>> <=> turns = <<>>)
  <2>1. CASE turns # <<>>
    <3>1. turns[1] \in Pended /\ 1 \in DOMAIN turns
      BY <2>1, <1>1
    <3>2. Kept(turns) => ~turns[1].cancelled
      BY <3>1 DEF Kept
    <3>3. waits \in BOOLEAN
      BY <3>1, <2>1 DEF Pended
    <3> HIDE DEF waits
    <3>4. x \in Pended /\ x.cancelled = turns[1].cancelled
      BY <3>1, <3>3, <1>4 DEF Pended
    <3> HIDE DEF x
    <3> QED
      BY <2>1, <1>1, <3>2, <3>4, KeptFront DEF waits
  <2>2. CASE turns = <<>>
    BY <2>2
  <2> QED
    BY <2>1, <2>2
<1>6. agents' = [agents EXCEPT ![a] = n]
  <2>1. s = IF turns = <<>> THEN turns ELSE [turns EXCEPT ![1].bound = IF @ = NoTurn THEN named ELSE @, ![1].told = @ \/ waits]
    BY <1>1
  <2> QED
    BY <2>1 DEF BindTurn, Taken, named
<1>7. agents'[a] = n
  BY <1>1, <1>6
<1>8. Kept(turns) => u.pc = "rest"
  BY <1>5 DEF Rest
<1> HIDE DEF u, s
<1>9. n.turns = s /\ n.pump = u /\ n.inbox = p.inbox /\ n.out = Tail(p.out)
  BY <1>1 DEF Process
<1>10. n \in Process
  <2>1. TurnsTypeOK' /\ DOMAIN agents' = DOMAIN agents
    BY BindTurnDoes DEF QuietStep
  <2> QED
    BY <1>7, <2>1 DEF TurnsTypeOK
<1> HIDE DEF n
<1> QED
  BY <1>1, <1>2, <1>5, <1>7, <1>8, <1>9, <1>10, PumpedGoesOn DEF Uncancelled

LEMMA TakeGoesOn ==
  ASSUME TurnsAssumption, TurnsTypeOK, NEW a \in DOMAIN agents, TakeResult(a)
  PROVE  GoesOn(agents[a], agents'[a])
<1> DEFINE p == agents[a]
           heard == Head(p.out)
           turns == p.turns
           front == IF turns = <<>> THEN Pending(NoTurn, FALSE) ELSE turns[1]
           m == [p EXCEPT !.out = Tail(@)]
           u == IF front.id = NoTurn \/ front.cancelled THEN Pumps("after", NoTurn, "", {})
                ELSE Pumps("apply", front.id, heard.how, {})
           k == [p EXCEPT !.out = Tail(@), !.turns = Popped(@), !.pump = u]
<1>1. /\ p \in Process /\ p.out \in Seq(Answer) /\ turns \in Seq(Pended) /\ p.out # <<>>
      /\ p.pump.pc = "rest" /\ agents \in Seq(Process) /\ heard.word \in {"result", "rejected"}
  BY TypedProcess DEF TakeResult, Hears, TurnsTypeOK
<1>2. Plain(p.out) => Plain(Tail(p.out)) /\ heard.how \in {"done", "error"}
  <2>1. Plain(p.out) => Plain(Tail(p.out)) /\ (heard.word # "start" => heard.how \in {"done", "error"})
    BY <1>1, PlainTail
  <2> QED
    BY <1>1, <2>1
<1>3. agents'[a] \in Process
  BY TakeResultDoes DEF TurnsTypeOK, QuietStep
<1>4. CASE Fits(p, heard)
  <2>1. agents' = [agents EXCEPT ![a] = k]
    BY <1>4 DEF TakeResult, Taken
  <2>2. agents'[a] = k
    BY <1>1, <2>1
  <2>3. Kept(turns) => Kept(Popped(turns)) /\ (turns # <<>> => u.pc = "apply")
    <3>1. Kept(turns) => Kept(Popped(turns)) /\ (turns # <<>> => ~turns[1].cancelled /\ turns[1].id # NoTurn)
      BY <1>1, KeptPopped
    <3> QED
      BY <3>1 DEF Pumps
  <2>4. u.pc \in {"after", "apply"} /\ (u.pc = "apply" => u.how = heard.how)
    BY DEF Pumps
  <2> HIDE DEF u, heard
  <2>5. k.turns = Popped(turns) /\ k.pump = u /\ k.inbox = p.inbox /\ k.out = Tail(p.out)
    BY <1>1 DEF Process
  <2> HIDE DEF k
  <2> QED
    BY <1>1, <1>2, <1>3, <2>2, <2>3, <2>4, <2>5, PumpedGoesOn DEF Uncancelled
<1>5. CASE ~Fits(p, heard)
  <2>1. agents' = [agents EXCEPT ![a] = m]
    BY <1>5 DEF TakeResult, Taken
  <2>2. agents'[a] = m
    BY <1>1, <2>1
  <2>3. m.turns = turns /\ m.pump = p.pump /\ m.inbox = p.inbox /\ m.out = Tail(p.out)
    BY <1>1 DEF Process
  <2> HIDE DEF m
  <2> QED
    BY <1>2, <2>2, <2>3, GoesOnFields
<1> QED
  BY <1>4, <1>5

LEMMA AfterGoesOn ==
  ASSUME TurnsAssumption, TurnsTypeOK, NEW a \in DOMAIN agents, AfterResult(a)
  PROVE  GoesOn(agents[a], agents'[a])
<1> DEFINE p == agents[a]
           turns == p.turns
           tells == p.of = "claude" /\ turns[1].cancelled
           x == [turns[1] EXCEPT !.held = FALSE, !.told = turns[1].told \/ tells]
           s == [turns EXCEPT ![1] = x]
           u == IF tells THEN Pumps("tell", turns[1].id, "", {})
                ELSE IF turns[1].held THEN Pumps("start", turns[1].id, "", {}) ELSE Rest
           n == IF turns = <<>> THEN [p EXCEPT !.pump = Rest] ELSE [p EXCEPT !.pump = u, !.turns = s]
<1>1. /\ p \in Process /\ turns \in Seq(Pended) /\ p.pump.pc = "after" /\ agents \in Seq(Process)
  BY TypedProcess DEF AfterResult, At, TurnsTypeOK
<1>2. agents' = [agents EXCEPT ![a] = n]
  BY DEF AfterResult
<1>3. agents'[a] = n
  BY <1>1, <1>2
<1>4. n \in Process
  BY <1>3, AfterResultDoes DEF TurnsTypeOK, QuietStep
<1>5. Rest.pc = "rest"
  BY DEF Rest
<1>6. CASE turns = <<>>
  <2>1. n.turns = <<>> /\ n.pump = Rest /\ n.inbox = p.inbox /\ n.out = p.out
    BY <1>1, <1>6 DEF Process
  <2> HIDE DEF n
  <2> QED
    BY <1>1, <1>3, <1>4, <1>5, <1>6, <2>1, PumpedGoesOn DEF Uncancelled
<1>7. CASE turns # <<>>
  <2>1. turns[1] \in Pended /\ 1 \in DOMAIN turns
    BY <1>1, <1>7
  <2>2. tells \in BOOLEAN /\ (Kept(turns) => ~tells)
    BY <2>1 DEF Kept, Pended
  <2>3. u.pc \in {"tell", "start", "rest"} /\ (Kept(turns) => u.pc # "tell")
    BY <2>2 DEF Pumps, Rest
  <2> HIDE DEF tells
  <2>4. x \in Pended /\ x.cancelled = turns[1].cancelled
    BY <2>1, <2>2 DEF Pended
  <2> HIDE DEF x
  <2>5. Kept(turns) => Kept(s) /\ s # <<>>
    <3>1. Kept(turns) => ~turns[1].cancelled
      BY <2>1 DEF Kept
    <3> QED
      BY <1>1, <1>7, <2>4, <3>1, KeptFront
  <2> HIDE DEF u, s
  <2>6. n.turns = s /\ n.pump = u /\ n.inbox = p.inbox /\ n.out = p.out
    BY <1>1, <1>7 DEF Process
  <2> HIDE DEF n
  <2> QED
    BY <1>1, <1>3, <1>4, <2>3, <2>5, <2>6, PumpedGoesOn DEF Uncancelled
<1> QED
  BY <1>6, <1>7

LEMMA InputGoesOn ==
  ASSUME TurnsAssumption, TurnsTypeOK, NEW a \in DOMAIN agents, PumpTakesInput(a)
  PROVE  GoesOn(agents[a], agents'[a])
<1> DEFINE p == agents[a]
           v == [p.pump EXCEPT !.pc = "write"]
           u == Pumps("apply", p.pump.turn, "error", {})
           n == IF p.stdin = "free" THEN [p EXCEPT !.stdin = "taken", !.pump = v]
                ELSE [p EXCEPT !.turns = Popped(p.turns), !.pump = u]
<1>1. p \in Process /\ p.turns \in Seq(Pended) /\ p.pump \in Pumping /\ agents \in Seq(Process)
  BY TypedProcess DEF TurnsTypeOK
<1>2. p.pump.pc \in {"tell", "start"}
  BY DEF PumpTakesInput, At
<1>3. CASE p.pump.pc = "tell"
  BY <1>3 DEF GoesOn, Uncancelled
<1>4. CASE p.pump.pc = "start"
  <2>1. agents' = [agents EXCEPT ![a] = n]
    BY <1>4 DEF PumpTakesInput, At
  <2>2. agents'[a] = n
    BY <1>1, <2>1
  <2>3. n \in Process
    BY <2>2, PumpTakesInputDoes DEF TurnsTypeOK, QuietStep
  <2>4. v.pc = "write" /\ u.pc = "apply" /\ u.how = "error"
    BY <1>1 DEF Pumping, Pumps
  <2>5. Kept(p.turns) => Kept(Popped(p.turns))
    BY <1>1, KeptPopped
  <2>6. CASE p.stdin = "free"
    <3> HIDE DEF v
    <3>1. n.turns = p.turns /\ n.pump = v /\ n.inbox = p.inbox /\ n.out = p.out
      BY <1>1, <2>6 DEF Process
    <3> HIDE DEF n
    <3> QED
      BY <1>1, <1>4, <2>2, <2>3, <2>4, <3>1, PumpedGoesOn DEF Uncancelled
  <2>7. CASE p.stdin # "free"
    <3> HIDE DEF u
    <3>1. n.turns = Popped(p.turns) /\ n.pump = u /\ n.inbox = p.inbox /\ n.out = p.out
      BY <1>1, <2>7 DEF Process
    <3> HIDE DEF n
    <3> QED
      BY <1>1, <1>4, <2>2, <2>3, <2>4, <2>5, <3>1, PumpedGoesOn DEF Uncancelled
  <2> QED
    BY <2>6, <2>7
<1> QED
  BY <1>2, <1>3, <1>4

LEMMA WriteGoesOn ==
  ASSUME TurnsAssumption, TurnsTypeOK, NEW a \in DOMAIN agents, PumpWrites(a)
  PROVE  GoesOn(agents[a], agents'[a])
<1> DEFINE p == agents[a]
           freed == [p EXCEPT !.stdin = "free", !.pump = Rest]
           w == Prompt(p.pump.turn)
           u == Pumps("apply", p.pump.turn, "error", {})
           n == IF p.over THEN [freed EXCEPT !.turns = Popped(@), !.pump = u] ELSE Says(freed, w)
<1>1. /\ p \in Process /\ p.turns \in Seq(Pended) /\ p.inbox \in Seq(Line) /\ p.pump \in Pumping /\ PumpAtWork(p)
      /\ agents \in Seq(Process) /\ p.over \in BOOLEAN
  BY TypedProcess DEF TurnsTypeOK
<1>2. p.pump.pc \in {"telling", "write"}
  BY DEF PumpWrites, At
<1>3. CASE p.pump.pc = "telling"
  BY <1>3 DEF GoesOn, Uncancelled
<1>4. CASE p.pump.pc = "write"
  <2>1. Rest \in Pumping /\ Rest.pc = "rest"
    BY DEF Rest, Pumping
  <2>2. /\ freed \in Process /\ freed.over = p.over /\ freed.inbox = p.inbox /\ freed.turns = p.turns
        /\ freed.pump = Rest /\ freed.out = p.out
    BY <1>1, <2>1 DEF Process
  <2>3. agents' = [agents EXCEPT ![a] = n]
    BY <1>4, <2>2 DEF PumpWrites, At
  <2>4. agents'[a] = n
    BY <1>1, <2>3
  <2>5. n \in Process
    BY <2>4, PumpWritesDoes DEF TurnsTypeOK, QuietStep
  <2>6. w \in Line /\ w.word = "prompt"
    BY <1>1, <1>4 DEF Prompt, Line, PumpAtWork, Pumping
  <2>7. u.pc = "apply" /\ u.how = "error"
    BY DEF Pumps
  <2>8. Kept(p.turns) => Kept(Popped(p.turns))
    BY <1>1, KeptPopped
  <2>9. Prompts(p.inbox) => Prompts(Append(p.inbox, w))
    BY <1>1, <2>6, PromptsAppend
  <2> HIDE DEF u, w, freed
  <2>10. CASE p.over
    <3>1. n.turns = Popped(p.turns) /\ n.pump = u /\ n.inbox = p.inbox /\ n.out = p.out
      BY <2>2, <2>10 DEF Process
    <3> HIDE DEF n
    <3> QED
      BY <1>1, <1>4, <2>4, <2>5, <2>7, <2>8, <3>1, PumpedGoesOn DEF Uncancelled
  <2>11. CASE ~p.over
    <3>1. n = [freed EXCEPT !.inbox = Append(p.inbox, w)]
      BY <2>2, <2>11 DEF Says
    <3>2. n.turns = p.turns /\ n.pump = Rest /\ n.inbox = Append(p.inbox, w) /\ n.out = p.out
      BY <2>2, <3>1 DEF Process
    <3> HIDE DEF n
    <3>3. p.pump.pc \notin {"apply", "drain", "purge"}
      BY <1>4
    <3>4. Uncancelled(p) => Kept(n.turns) /\ Prompts(n.inbox) /\ Plain(n.out)
      BY <2>9, <3>2 DEF Uncancelled
    <3>5. n.pump.pc = "rest" /\ n.turns = p.turns
      BY <2>1, <3>2
    <3>6. GoesOn(p, n)
      <4> HIDE DEF p
      <4> QED
        BY <1>1, <2>5, <3>3, <3>4, <3>5, PumpedGoesOn
    <3> QED
      BY <2>4, <3>6
  <2> QED
    BY <1>1, <2>10, <2>11
<1> QED
  BY <1>2, <1>3, <1>4

LEMMA ProcessGoesOn ==
  ASSUME TurnsAssumption, TurnsTypeOK, NEW a \in DOMAIN agents, ProcessStep(a)
  PROVE  GoesOn(agents[a], agents'[a])
BY ItsOwnGoesOn, BindGoesOn, TakeGoesOn, AfterGoesOn, InputGoesOn, WriteGoesOn DEF ProcessStep

-----------------------------------------------------------------------------
\* The parts of the invariant, and what carries each over a step.
Overlooked == Raced({"paused", "late", "bare", "failed", "collided"})
Cancels    == {"unqueue", "mark", "tell", "telling"}
Queued     == QueuedPromptsKept /\ NothingIsCancelled /\ QueueIsLookedAt
Purging(x) == \E a \in DOMAIN agents : agents[a].pump.pc = "purge" /\ x \in agents[a].pump.ids
Nobody     == (\A l \in Lanes : task[l].pc \notin Cancels) /\ \A a \in DOMAIN agents : Uncancelled(agents[a])

LEMMA CalmSays ==
  /\ NothingIsCancelled <=> ("paused" \notin raced => Nobody)
  /\ NothingIsCancelled' <=> ("paused" \notin raced' => Nobody')
<1>1. NothingIsCancelled <=> ("paused" \notin raced => Nobody)
  BY DEF NothingIsCancelled, Nobody, Cancels, Uncancelled, Kept, Prompts, Plain
<1>2. NothingIsCancelled' <=> ("paused" \notin raced' => Nobody')
  BY DEF NothingIsCancelled, Nobody, Cancels, Uncancelled, Kept, Prompts, Plain
<1> QED
  BY <1>1, <1>2

AllPurging == \A i \in DOMAIN chat.queue : Purging(chat.queue[i])
Looking    == Overlooked \/ EndIsToCome \/ AllPurging
LEMMA LookedSays ==
  /\ QueueIsLookedAt <=> (~chat.open => chat.queue = <<>>) /\ Looking
  /\ QueueIsLookedAt' <=> (~chat'.open => chat'.queue = <<>>) /\ Looking'
<1>1. QueueIsLookedAt <=> (~chat.open => chat.queue = <<>>) /\ Looking
  BY DEF QueueIsLookedAt, Overlooked, Purging, AllPurging, Looking
<1>2. QueueIsLookedAt' <=> (~chat'.open => chat'.queue = <<>>) /\ Looking'
  BY DEF QueueIsLookedAt, Overlooked, Purging, AllPurging, Looking
<1> QED
  BY <1>1, <1>2

SomeEnder == (\E l \in Lanes : task[l].pc \in Enders) \/ \E a \in DOMAIN agents : EndsLater(agents[a])
LEMMA EndSays == (EndIsToCome <=> SomeEnder) /\ (EndIsToCome' <=> SomeEnder')
BY DEF EndIsToCome, Enders, EndsLater, SomeEnder

LEMMA CalmOn ==
  ASSUME NothingIsCancelled, raced \subseteq raced',
         \A l \in Lanes : task'[l] = task[l] \/ task'[l].pc \notin Cancels,
         \A a \in DOMAIN agents : Uncancelled(agents[a]) => Uncancelled(agents'[a]),
         \A a \in DOMAIN agents' : a \in DOMAIN agents \/ Uncancelled(agents'[a])
  PROVE  NothingIsCancelled'
<1>1. "paused" \notin raced' => Nobody
  BY CalmSays
<1>2. "paused" \notin raced' => Nobody'
  BY <1>1 DEF Nobody
<1> QED
  BY <1>2, CalmSays

\* What waits does so with its prompt.
LEMMA PromptsOn ==
  ASSUME QueuedPromptsKept, raced \subseteq raced',
         \A i \in DOMAIN chat'.queue : \E j \in DOMAIN chat.queue :
           chat'.queue[i] = chat.queue[j] /\ (chat.queue[j] \in chat.prompts => chat.queue[j] \in chat'.prompts)
  PROVE  QueuedPromptsKept'
<1>1. Raced({"bare", "purged"}) => Raced({"bare", "purged"})'
  BY DEF Raced
<1>2. Range(chat.queue) \subseteq chat.prompts => Range(chat'.queue) \subseteq chat'.prompts
  BY DEF Range
<1> QED
  BY <1>1, <1>2 DEF QueuedPromptsKept

LEMMA NoQueue ==
  ASSUME TurnsTypeOK', \A i \in DOMAIN chat'.queue : \E j \in DOMAIN chat.queue : chat'.queue[i] = chat.queue[j],
         chat.queue = <<>>
  PROVE  chat'.queue = <<>>
<1>1. PICK q : q = chat'.queue
  OBVIOUS
<1>2. q \in Seq(Sent)
  BY <1>1 DEF TurnsTypeOK, Chat
<1>3. DOMAIN <<>> = {} /\ DOMAIN chat'.queue = {}
  OBVIOUS
<1>4. q # <<>> => 1 \in DOMAIN q
  BY <1>2
<1> QED
  BY <1>1, <1>3, <1>4

LEMMA LooksFrame ==
  ASSUME TurnsTypeOK', NothingIsCancelled, QueueIsLookedAt, raced \subseteq raced', chat'.open = chat.open,
         \A i \in DOMAIN chat'.queue : \E j \in DOMAIN chat.queue : chat'.queue[i] = chat.queue[j],
         DOMAIN agents \subseteq DOMAIN agents',
         \A l \in Lanes : task[l].pc \in Enders => task'[l].pc \in Enders,
         \A a \in DOMAIN agents : Uncancelled(agents[a]) => LooksOn(agents[a], agents'[a])
  PROVE  QueueIsLookedAt'
<1>1. chat.queue = <<>> => chat'.queue = <<>>
  BY NoQueue
<1>2. Overlooked => Overlooked'
  BY DEF Overlooked, Raced
<1>3. CASE Overlooked
  BY <1>1, <1>2, <1>3, LookedSays DEF Looking
<1>4. CASE ~Overlooked
  <2>1. \A a \in DOMAIN agents : LooksOn(agents[a], agents'[a])
    BY <1>4, CalmSays DEF Overlooked, Raced, Nobody
  <2>2. SomeEnder => SomeEnder'
    BY <2>1 DEF LooksOn, SomeEnder
  <2>3. AllPurging => AllPurging'
    BY <2>1 DEF Purging, LooksOn, AllPurging
  <2> QED
    BY <1>1, <1>4, <2>2, <2>3, LookedSays, EndSays DEF Looking
<1> QED
  BY <1>3, <1>4

\* A step that leaves the queue alone, and after which an end is to come as before.
LEMMA Onward ==
  ASSUME TurnsTypeOK', Queued, raced \subseteq raced', chat'.open = chat.open,
         chat'.queue = chat.queue, chat'.prompts = chat.prompts,
         DOMAIN agents \subseteq DOMAIN agents',
         \A l \in Lanes : task'[l] = task[l] \/ (task'[l].pc \notin Cancels /\ (task[l].pc \in Enders => task'[l].pc \in Enders)),
         \A a \in DOMAIN agents : GoesOn(agents[a], agents'[a]),
         \A a \in DOMAIN agents' : a \in DOMAIN agents \/ Uncancelled(agents'[a])
  PROVE  Queued'
<1>1. NothingIsCancelled'
  BY CalmOn DEF Queued, GoesOn
<1>2. QueuedPromptsKept'
  BY PromptsOn DEF Queued
<1>3. QueueIsLookedAt'
  BY LooksFrame DEF Queued, GoesOn
<1> QED
  BY <1>1, <1>2, <1>3 DEF Queued

\* A step after which the queue is empty, an end is to come, or a race is named.
LEMMA Settled ==
  ASSUME Queued, raced \subseteq raced',
         ~chat'.open => chat'.queue = <<>>,
         chat'.queue = <<>> \/ Overlooked' \/ SomeEnder' \/ AllPurging',
         QueuedPromptsKept', NothingIsCancelled'
  PROVE  Queued'
<1>1. chat'.queue = <<>> => AllPurging'
  <2>1. DOMAIN <<>> = {}
    OBVIOUS
  <2> QED
    BY <2>1 DEF AllPurging
<1>2. QueueIsLookedAt'
  BY <1>1, LookedSays, EndSays DEF Looking
<1> QED
  BY <1>2 DEF Queued

\* A cancel has paused the queue.
LEMMA AfterCancel ==
  ASSUME TurnsTypeOK', Queued, raced \subseteq raced', "paused" \in raced', chat'.open = chat.open,
         \A i \in DOMAIN chat'.queue : \E j \in DOMAIN chat.queue :
           chat'.queue[i] = chat.queue[j] /\ (chat.queue[j] \in chat.prompts => chat.queue[j] \in chat'.prompts)
  PROVE  Queued'
<1>1. NothingIsCancelled'
  BY CalmSays
<1>2. QueuedPromptsKept'
  BY PromptsOn DEF Queued
<1>3. chat.queue = <<>> => chat'.queue = <<>>
  BY NoQueue
<1>4. Overlooked'
  BY DEF Overlooked, Raced
<1> QED
  BY <1>1, <1>2, <1>3, <1>4, LookedSays, Settled DEF Queued

\* A turn fails: what waits stays, by name.
LEMMA FailsOn ==
  ASSUME TurnsAssumption, TurnsTypeOK, TurnsTypeOK', Queued, NEW l \in Lanes, TurnFailed(l),
         DOMAIN agents' = DOMAIN agents,
         \A a \in DOMAIN agents : Uncancelled(agents[a]) => Uncancelled(agents'[a])
  PROVE  Queued'
<1>1. /\ task' = [task EXCEPT ![l] = Idle] /\ chat'.queue = chat.queue /\ chat'.open = chat.open
      /\ chat'.prompts = chat.prompts /\ Idle.pc = "idle"
  BY TurnFailedDoes DEF Idle
<1>2. \A k \in Lanes : task'[k] = task[k] \/ task'[k].pc \notin Cancels
  BY <1>1 DEF TurnsTypeOK, Cancels
<1>3. raced \subseteq raced' /\ (chat.queue # <<>> => "failed" \in raced')
  BY DEF TurnFailed, Note, When
<1>4. chat'.queue = <<>> \/ Overlooked'
  BY <1>1, <1>3 DEF Overlooked, Raced
<1>5. NothingIsCancelled'
  BY <1>2, <1>3, CalmOn DEF Queued
<1>6. QueuedPromptsKept'
  BY <1>1, <1>3, PromptsOn DEF Queued
<1> QED
  BY <1>1, <1>3, <1>4, <1>5, <1>6, LookedSays, Settled DEF Queued

LEMMA GoesOnSelf ==
  ASSUME NEW p
  PROVE  GoesOn(p, p)
BY DEF GoesOn, LooksOn

LEMMA GoesOnRetired ==
  ASSUME TurnsTypeOK, NEW a \in DOMAIN agents, NEW n, n = agents[a] \/ n = Shut(agents[a])
  PROVE  GoesOn(agents[a], n)
BY TypedProcess, GoesOnSelf, GoesOnShut

\* What is taken back was there.
LEMMA KeptTakenBack ==
  ASSUME NEW p \in Process, NEW t, Kept(p.turns)
  PROVE  Kept(TakenBack(p, t))
<1>1. p.turns \in Seq(Pended)
  BY DEF Process
<1>2. CASE p.of = "codex" /\ p.turns = <<>>
  BY <1>2, NothingIsPlain DEF TakenBack
<1>3. CASE p.of = "codex" /\ p.turns # <<>>
  <2>1. \A i \in DOMAIN Tail(p.turns) : i + 1 \in DOMAIN p.turns /\ Tail(p.turns)[i] = p.turns[i + 1]
    BY <1>1, <1>3, TailHas
  <2> QED
    BY <1>3, <2>1 DEF TakenBack, Kept
<1>4. CASE p.of # "codex"
  <2> DEFINE P == {i \in DOMAIN p.turns : p.turns[i].id # t}
  <2>1. TakenBack(p, t) = Only(p.turns, P)
    BY <1>4 DEF TakenBack
  <2> HIDE DEF P
  <2>2. \A i \in DOMAIN Only(p.turns, P) : \E j \in DOMAIN p.turns : Only(p.turns, P)[i] = p.turns[j]
    BY <1>1, ThinsOnly
  <2> QED
    BY <2>1, <2>2 DEF Kept
<1> QED
  BY <1>2, <1>3, <1>4

LEMMA SameAgents ==
  ASSUME agents' = agents
  PROVE  /\ DOMAIN agents' = DOMAIN agents
         /\ \A a \in DOMAIN agents : GoesOn(agents[a], agents'[a])
         /\ \A a \in DOMAIN agents : Uncancelled(agents[a]) => Uncancelled(agents'[a])
BY GoesOnSelf

\* One process is changed.
LEMMA OneCalm ==
  ASSUME TurnsTypeOK, NEW a \in DOMAIN agents, NEW n, agents' = [agents EXCEPT ![a] = n],
         Uncancelled(agents[a]) => Uncancelled(n)
  PROVE  /\ DOMAIN agents' = DOMAIN agents /\ agents'[a] = n
         /\ \A b \in DOMAIN agents : Uncancelled(agents[b]) => Uncancelled(agents'[b])
<1>1. agents \in Seq(Process)
  BY DEF TurnsTypeOK
<1>2. DOMAIN agents' = DOMAIN agents /\ agents'[a] = n /\ \A b \in DOMAIN agents : b # a => agents'[b] = agents[b]
  BY <1>1
<1> HIDE DEF Uncancelled
<1> QED
  BY <1>2

-----------------------------------------------------------------------------
\* The lanes.
LEMMA QueuedSend ==
  ASSUME TurnsAssumption, TurnsTypeOK, Queued, NEW l \in Lanes, SendPrompt(l)
  PROVE  Queued'
<1> DEFINE a == task[l].agent
           p == agents[a]
           n == [p EXCEPT !.stdin = "taken"]
           m == [p EXCEPT !.turns = TakenBack(p, task[l].turn)]
<1>1. /\ TurnsTypeOK' /\ a \in DOMAIN agents /\ task[l].pc = "send"
      /\ \A k \in Lanes : k # l => task'[k] = task[k]
  BY SendPromptDoes DEF SendPrompt
<1>2. p \in Process /\ PumpAtWork(p) /\ chat \in Chat /\ raced \subseteq raced'
  BY <1>1, TypedProcess, Races DEF TurnsTypeOK, LaneStep
<1>3. CASE p.stdin = "free"
  <2>1. agents' = [agents EXCEPT ![a] = n] /\ chat' = chat /\ Goes(l, "write")
    BY <1>3 DEF SendPrompt
  <2>2. task'[l].pc = "write"
    BY <2>1 DEF Goes, TurnsTypeOK, Doing
  <2>3. n.turns = p.turns /\ n.pump = p.pump /\ n.inbox = p.inbox /\ n.out = p.out
    BY <1>2, StdinFields
  <2>4. GoesOn(p, n)
    BY <2>3, GoesOnFields
  <2> HIDE DEF n, p
  <2>5. /\ DOMAIN agents' = DOMAIN agents /\ agents'[a] = n
        /\ \A b \in DOMAIN agents : b # a => agents'[b] = agents[b]
    BY <1>1, <2>1 DEF TurnsTypeOK
  <2>6. \A b \in DOMAIN agents : GoesOn(agents[b], agents'[b])
    BY <2>4, <2>5, GoesOnSelf DEF p
  <2>7. \A k \in Lanes : task'[k] = task[k] \/ (task'[k].pc \notin Cancels /\ (task[k].pc \in Enders => task'[k].pc \in Enders))
    BY <1>1, <2>2 DEF Cancels, Enders
  <2> QED
    BY <1>1, <1>2, <2>1, <2>5, <2>6, <2>7, Onward
<1>4. CASE p.stdin # "free"
  <2>1. agents' = [agents EXCEPT ![a] = m] /\ chat' = Ends(chat, task[l].turn) /\ "collided" \in raced' /\ Done(l)
    BY <1>4 DEF SendPrompt, Note
  <2>2. chat'.open = chat.open /\ chat'.queue = chat.queue /\ chat'.prompts = chat.prompts
    BY <1>2, <2>1, EndsFields
  <2>3. m.turns = TakenBack(p, task[l].turn) /\ m.pump = p.pump /\ m.inbox = p.inbox /\ m.out = p.out
    <3>1. TakenBack(p, task[l].turn) \in Seq(Pended)
      BY <1>2, TakenBackFields
    <3> QED
      BY <1>2, <3>1 DEF Process
  <2>4. Uncancelled(p) => Uncancelled(m)
    BY <1>2, <2>3, KeptTakenBack DEF Uncancelled
  <2> HIDE DEF m, p
  <2>5. \A b \in DOMAIN agents : Uncancelled(agents[b]) => Uncancelled(agents'[b])
    BY <1>1, <2>1, <2>4, OneCalm DEF p
  <2>6. DOMAIN agents' = DOMAIN agents
    BY <2>1
  <2>7. \A k \in Lanes : task'[k] = task[k] \/ task'[k].pc \notin Cancels
    BY <2>1 DEF Done, Idle, Cancels, TurnsTypeOK
  <2>8. NothingIsCancelled'
    BY <1>2, <2>5, <2>6, <2>7, CalmOn DEF Queued
  <2>9. QueuedPromptsKept'
    BY <1>2, <2>2, PromptsOn DEF Queued
  <2>10. Overlooked'
    BY <2>1 DEF Overlooked, Raced
  <2> QED
    BY <1>2, <2>2, <2>8, <2>9, <2>10, LookedSays, Settled DEF Queued
<1> QED
  BY <1>3, <1>4

LEMMA QueuedWritten ==
  ASSUME TurnsAssumption, TurnsTypeOK, Queued, NEW l \in Lanes, PromptWritten(l)
  PROVE  Queued'
<1> DEFINE a == task[l].agent
           t == task[l].turn
           p == agents[a]
           freed == [p EXCEPT !.stdin = "free"]
           n == Says(freed, Prompt(t))
           m == [freed EXCEPT !.turns = TakenBack(freed, t)]
<1>1. TurnsTypeOK' /\ task[l].pc = "write" /\ a \in DOMAIN agents /\ t \in Turn
  <2>1. task[l].pc \in AtItsAgent
    BY DEF PromptWritten, AtItsAgent
  <2> QED
    BY <2>1, PromptWrittenDoes, LaneHasAgent DEF PromptWritten
<1>2. p \in Process /\ PumpAtWork(p) /\ chat \in Chat /\ raced \subseteq raced' /\ p.over \in BOOLEAN
  BY <1>1, TypedProcess, Races DEF TurnsTypeOK, LaneStep
<1>3. /\ freed \in Process /\ PumpAtWork(freed) /\ freed.turns = p.turns /\ freed.pump = p.pump
      /\ freed.inbox = p.inbox /\ freed.out = p.out /\ freed.over = p.over
  BY <1>2, StdinFields
<1>4. CASE ~freed.over
  <2>1. agents' = [agents EXCEPT ![a] = n] /\ chat' = chat /\ Done(l)
    BY <1>4 DEF PromptWritten
  <2>2. Prompt(t) \in Line /\ Prompt(t).word = "prompt"
    BY <1>1 DEF Prompt, Line
  <2>3. n.turns = p.turns /\ n.pump = p.pump /\ n.inbox = Append(p.inbox, Prompt(t)) /\ n.out = p.out
    <3> HIDE DEF freed
    <3>1. /\ n.turns = freed.turns /\ n.pump = freed.pump /\ n.out = freed.out
          /\ n.inbox = IF freed.over THEN freed.inbox ELSE Append(freed.inbox, Prompt(t))
      BY <1>3, <2>2, SaysKeeps
    <3> HIDE DEF n
    <3> QED
      BY <1>3, <1>4, <3>1
  <2>4. GoesOn(p, n)
    <3>1. p.inbox \in Seq(Line)
      BY <1>2 DEF Process
    <3>2. Prompts(p.inbox) => Prompts(Append(p.inbox, Prompt(t)))
      BY <2>2, <3>1, PromptsAppend
    <3> QED
      BY <2>3, <3>2, GoesOnFields
  <2> HIDE DEF n, p
  <2>5. /\ DOMAIN agents' = DOMAIN agents /\ agents'[a] = n
        /\ \A b \in DOMAIN agents : b # a => agents'[b] = agents[b]
    BY <1>1, <2>1 DEF TurnsTypeOK
  <2>6. \A b \in DOMAIN agents : GoesOn(agents[b], agents'[b])
    BY <2>4, <2>5, GoesOnSelf DEF p
  <2>7. task'[l].pc = "idle" /\ \A k \in Lanes : k # l => task'[k] = task[k]
    BY <2>1 DEF Done, Idle, TurnsTypeOK
  <2>8. \A k \in Lanes : task'[k] = task[k] \/ (task'[k].pc \notin Cancels /\ (task[k].pc \in Enders => task'[k].pc \in Enders))
    BY <1>1, <2>7 DEF Cancels, Enders
  <2> QED
    BY <1>1, <1>2, <2>1, <2>5, <2>6, <2>8, Onward
<1>5. CASE freed.over
  <2>1. agents' = [agents EXCEPT ![a] = m] /\ TurnFailed(l)
    BY <1>5 DEF PromptWritten
  <2> HIDE DEF freed
  <2>2. m.turns = TakenBack(freed, t) /\ m.pump = p.pump /\ m.inbox = p.inbox /\ m.out = p.out
    <3>1. TakenBack(freed, t) \in Seq(Pended)
      BY <1>3, TakenBackFields
    <3> QED
      BY <1>3, <3>1 DEF Process
  <2>3. Uncancelled(p) => Uncancelled(m)
    BY <1>3, <2>2, KeptTakenBack DEF Uncancelled
  <2> HIDE DEF m, p
  <2>4. DOMAIN agents' = DOMAIN agents /\ \A b \in DOMAIN agents : Uncancelled(agents[b]) => Uncancelled(agents'[b])
    BY <1>1, <2>1, <2>3, OneCalm DEF p
  <2> QED
    BY <1>1, <2>1, <2>4, FailsOn
<1> QED
  BY <1>2, <1>3, <1>4, <1>5

LEMMA QueuedPush ==
  ASSUME TurnsAssumption, TurnsTypeOK, Queued, NEW l \in Lanes, PushTurn(l)
  PROVE  Queued'
<1>1. TurnsTypeOK' /\ task[l].pc = "push" /\ raced \subseteq raced' /\ \A k \in Lanes : k # l => task'[k] = task[k]
  BY PushTurnDoes, Races
<1>2. CASE agents' = agents /\ TurnFailed(l)
  BY <1>1, <1>2, SameAgents, FailsOn
<1>3. ASSUME NEW a \in DOMAIN agents, NEW held \in BOOLEAN,
             chat' = chat, DOMAIN agents' = DOMAIN agents,
             agents'[a] = [agents[a] EXCEPT !.turns = Append(agents[a].turns, Pending(task[l].turn, held))],
             \A b \in DOMAIN agents : b # a => agents'[b] = agents[b],
             task'[l] = Idle \/ task'[l].pc = "send"
      PROVE  Queued'
  <2> DEFINE p == agents[a]
             x == Pending(task[l].turn, held)
             s == Append(p.turns, x)
             q == agents'[a]
  <2>1. p \in Process /\ p.turns \in Seq(Pended) /\ task[l].turn \in Turn
    <3>1. task[l].pc \in AtItsAgent
      BY <1>1 DEF AtItsAgent
    <3> QED
      BY <3>1, LaneHasAgent, TypedProcess
  <2>2. x \in Pended /\ ~x.cancelled
    BY <2>1 DEF Pending, Pended
  <2> HIDE DEF x
  <2>3. /\ s \in Seq(Pended) /\ s # <<>>
        /\ \A i \in DOMAIN s : s[i] = x \/ (i \in DOMAIN p.turns /\ s[i] = p.turns[i])
    BY <2>1, <2>2, AppendHas
  <2> HIDE DEF s
  <2>4. q.turns = s /\ q.pump = p.pump /\ q.inbox = p.inbox /\ q.out = p.out
    <3>1. q = [p EXCEPT !.turns = s]
      BY <1>3 DEF s, x
    <3> HIDE DEF q
    <3> QED
      BY <2>1, <2>3, <3>1 DEF Process
  <2>5. Kept(p.turns) => Kept(q.turns) /\ Busy(q)
    <3>1. Kept(p.turns) => Kept(s)
      BY <2>2, <2>3 DEF Kept
    <3> QED
      BY <2>3, <2>4, <3>1, KeptIsBusy
  <2>6. Uncancelled(p) => Uncancelled(q) /\ EndsLater(q)
    BY <2>4, <2>5 DEF Uncancelled, EndsLater
  <2>7. \A b \in DOMAIN agents : Uncancelled(agents[b]) => Uncancelled(agents'[b])
    BY <1>3, <2>6
  <2>8. \A k \in Lanes : task'[k] = task[k] \/ task'[k].pc \notin Cancels
    <3>1. Idle.pc = "idle"
      BY DEF Idle
    <3> QED
      BY <1>1, <1>3, <3>1 DEF Cancels
  <2>9. NothingIsCancelled'
    BY <1>1, <1>3, <2>7, <2>8, CalmOn DEF Queued
  <2>10. QueuedPromptsKept'
    BY <1>1, <1>3, PromptsOn DEF Queued
  <2>11. Overlooked' \/ SomeEnder'
    <3>1. CASE "paused" \in raced
      BY <1>1, <3>1 DEF Overlooked, Raced
    <3>2. CASE "paused" \notin raced
      <4>1. EndsLater(q)
        BY <2>6, <3>2, CalmSays DEF Queued, Nobody
      <4> QED
        BY <1>3, <4>1 DEF SomeEnder
    <3> QED
      BY <3>1, <3>2
  <2> QED
    BY <1>1, <1>3, <2>9, <2>10, <2>11, LookedSays, Settled DEF Queued
<1>4. \/ agents' = agents /\ TurnFailed(l)
      \/ \E a \in DOMAIN agents, held \in BOOLEAN :
           /\ chat' = chat /\ DOMAIN agents' = DOMAIN agents
           /\ agents'[a] = [agents[a] EXCEPT !.turns = Append(agents[a].turns, Pending(task[l].turn, held))]
           /\ \A b \in DOMAIN agents : b # a => agents'[b] = agents[b]
           /\ task'[l] = Idle \/ task'[l].pc = "send"
  <2>1. \/ agents' = agents /\ TurnFailed(l) /\ QuietStep
        \/ \E a \in DOMAIN agents, held \in BOOLEAN :
             /\ a = task[l].agent /\ chat' = chat /\ raced \subseteq raced' /\ DOMAIN agents' = DOMAIN agents
             /\ ~Refuses(agents[a])
             /\ held <=> agents[a].of = "codex" /\ agents[a].turns # <<>>
             /\ agents'[a] = [agents[a] EXCEPT !.turns = Append(agents[a].turns, Pending(task[l].turn, held))]
             /\ \A b \in DOMAIN agents : b # a => agents'[b] = agents[b]
             /\ IF held THEN task'[l] = Idle
                ELSE /\ task'[l].pc = "send" /\ task'[l].turn = task[l].turn /\ task'[l].agent = task[l].agent
    BY PushTurnDoes
  <2>2. CASE agents' = agents /\ TurnFailed(l)
    BY <2>2
  <2>3. CASE ~(agents' = agents /\ TurnFailed(l))
    <3>1. PICK a \in DOMAIN agents, held \in BOOLEAN :
             /\ a = task[l].agent /\ chat' = chat /\ raced \subseteq raced' /\ DOMAIN agents' = DOMAIN agents
             /\ ~Refuses(agents[a])
             /\ held <=> agents[a].of = "codex" /\ agents[a].turns # <<>>
             /\ agents'[a] = [agents[a] EXCEPT !.turns = Append(agents[a].turns, Pending(task[l].turn, held))]
             /\ \A b \in DOMAIN agents : b # a => agents'[b] = agents[b]
             /\ IF held THEN task'[l] = Idle
                ELSE /\ task'[l].pc = "send" /\ task'[l].turn = task[l].turn /\ task'[l].agent = task[l].agent
      BY <2>1, <2>3
    <3>2. task'[l] = Idle \/ task'[l].pc = "send"
      BY <3>1
    <3> QED
      BY <3>1, <3>2
  <2> QED
    BY <2>2, <2>3
<1> QED
  BY <1>2, <1>3, <1>4

LEMMA QueuedSpawn ==
  ASSUME TurnsAssumption, TurnsTypeOK, Queued, NEW l \in Lanes, SpawnAgent(l)
  PROVE  Queued'
<1>1. /\ TurnsTypeOK' /\ task[l].pc = "spawn" /\ raced \subseteq raced' /\ \A k \in Lanes : k # l => task'[k] = task[k]
      /\ chat \in Chat /\ Idle.pc = "idle"
  BY SpawnAgentDoes, Races DEF SpawnAgent, TurnsTypeOK, Idle
<1>2. PICK m \in Nat :
        /\ m = Len(agents) + 1 /\ DOMAIN agents' = DOMAIN agents \cup {m} /\ m \notin DOMAIN agents
        /\ agents'[m] = Spawned(task[l].with, task[l].of)
        /\ \A b \in DOMAIN agents : agents'[b] = agents[b]
        /\ IF chat.open THEN /\ chat' = [chat EXCEPT !.agent = m]
                             /\ task'[l].pc = "push" /\ task'[l].turn = task[l].turn
           ELSE chat' = chat /\ task'[l] = Idle /\ "disposed" \in raced'
  BY SpawnAgentDoes
<1>3. Uncancelled(agents'[m])
  <2>1. /\ Spawned(task[l].with, task[l].of).turns = <<>> /\ Spawned(task[l].with, task[l].of).pump = Rest
        /\ Spawned(task[l].with, task[l].of).inbox = <<>> /\ Spawned(task[l].with, task[l].of).out = <<>> /\ Rest.pc = "rest"
    BY DEF Spawned, Rest
  <2> QED
    BY <1>2, <2>1, NothingIsPlain DEF Uncancelled
<1>4. \A b \in DOMAIN agents' : b \in DOMAIN agents \/ Uncancelled(agents'[b])
  BY <1>2, <1>3
<1>5. CASE chat.open
  <2>1. /\ chat'.open = chat.open /\ chat'.queue = chat.queue /\ chat'.prompts = chat.prompts
    BY <1>1, <1>2, <1>5 DEF Chat
  <2>2. \A k \in Lanes : task'[k] = task[k] \/ (task'[k].pc \notin Cancels /\ (task[k].pc \in Enders => task'[k].pc \in Enders))
    BY <1>1, <1>2, <1>5 DEF Cancels, Enders
  <2>3. \A b \in DOMAIN agents : GoesOn(agents[b], agents'[b])
    BY <1>2, GoesOnSelf
  <2> QED
    BY <1>1, <1>2, <1>4, <2>1, <2>2, <2>3, Onward
<1>6. CASE ~chat.open
  <2>1. chat'.queue = <<>> /\ chat' = chat
    BY <1>2, <1>6, LookedSays DEF Queued
  <2>2. \A k \in Lanes : task'[k] = task[k] \/ task'[k].pc \notin Cancels
    BY <1>1, <1>2, <1>6 DEF Cancels
  <2>3. \A b \in DOMAIN agents : Uncancelled(agents[b]) => Uncancelled(agents'[b])
    BY <1>2
  <2>4. NothingIsCancelled'
    BY <1>1, <1>4, <2>2, <2>3, CalmOn DEF Queued
  <2>5. QueuedPromptsKept'
    BY <1>1, <2>1, PromptsOn DEF Queued
  <2> QED
    BY <1>1, <2>1, <2>4, <2>5, Settled
<1> QED
  BY <1>5, <1>6

LEMMA QueuedWaits ==
  ASSUME TurnsAssumption, TurnsTypeOK, Queued, NEW l \in Lanes, QueueTurn(l)
  PROVE  Queued'
<1> DEFINE t == task[l].turn
<1>1. /\ task[l].pc = "queue" /\ task'[l] = Idle /\ \A k \in Lanes : k # l => task'[k] = task[k]
      /\ agents' = agents /\ raced \subseteq raced' /\ (DrainComes \/ "late" \in raced') /\ Idle.pc = "idle"
      /\ chat \in Chat
      /\ \A i \in DOMAIN chat'.queue : chat'.queue[i] = t \/ (i \in DOMAIN chat.queue /\ chat'.queue[i] = chat.queue[i])
  BY QueueTurnDoes DEF QueueTurn, Note, When, Idle, TurnsTypeOK
<1>2. CASE ~chat.open
  <2>1. chat' = chat
    BY <1>2 DEF QueueTurn
  <2>2. \A k \in Lanes : task'[k] = task[k] \/ (task'[k].pc \notin Cancels /\ (task[k].pc \in Enders => task'[k].pc \in Enders))
    BY <1>1 DEF Cancels, Enders
  <2> QED
    BY <1>1, <2>1, <2>2, SameAgents, Onward, QueueTurnDoes
<1>3. CASE chat.open
  <2>1. chat'.open /\ chat'.prompts = chat.prompts \cup {t}
    BY <1>1, <1>3 DEF QueueTurn, Waits, Chat
  <2>2. \A k \in Lanes : task'[k] = task[k] \/ task'[k].pc \notin Cancels
    BY <1>1 DEF Cancels
  <2>3. NothingIsCancelled'
    BY <1>1, <2>2, SameAgents, CalmOn DEF Queued
  <2>4. QueuedPromptsKept'
    <3>1. Range(chat.queue) \subseteq chat.prompts => Range(chat'.queue) \subseteq chat'.prompts
      BY <1>1, <2>1 DEF Range
    <3>2. Raced({"bare", "purged"}) => Raced({"bare", "purged"})'
      BY <1>1 DEF Raced
    <3> QED
      BY <3>1, <3>2 DEF Queued, QueuedPromptsKept
  <2>5. Overlooked' \/ SomeEnder'
    <3>1. "late" \in raced' => Overlooked'
      BY DEF Overlooked, Raced
    <3>2. DrainComes => SomeEnder'
      BY <1>1 DEF DrainComes, SomeEnder, EndsLater
    <3> QED
      BY <1>1, <3>1, <3>2
  <2> QED
    BY <1>1, <2>1, <2>3, <2>4, <2>5, Settled
<1> QED
  BY <1>2, <1>3

LEMMA QueuedBegin ==
  ASSUME TurnsAssumption, TurnsTypeOK, Queued, NEW l \in Lanes, BeginTurn(l)
  PROVE  Queued'
<1> DEFINE c == Starts(chat, task[l].turn)
<1>1. /\ TurnsTypeOK' /\ task[l].pc = "begin" /\ task'[l].pc = "ensure"
      /\ \A k \in Lanes : k # l => task'[k] = task[k]
      /\ chat'.queue = chat.queue /\ chat \in Chat /\ raced \subseteq raced' /\ task[l].turn \in Turn
  <2>1. task'[l] = [task[l] EXCEPT !.pc = "ensure"] /\ task[l] \in Doing /\ task[l].turn # NoTurn
    BY BeginTurnDoes DEF TurnsTypeOK, BeginTurn, LanesAreAtWork
  <2>2. task'[l].pc = "ensure" /\ task[l].turn \in Turn
    BY <2>1 DEF Doing
  <2>3. LaneStep(l)
    BY DEF LaneStep
  <2>4. raced \subseteq raced'
    BY <2>3, Races
  <2> QED
    BY <2>2, <2>4, BeginTurnDoes DEF BeginTurn, TurnsTypeOK
<1>2. c \in Chat /\ c.agent = chat.agent /\ c.open = chat.open /\ c.prompts = chat.prompts
  BY <1>1, StartsFields
<1>3. \/ chat' = c /\ agents' = agents
      \/ chat' = RetiredChat(c) /\ agents' = RetiredAgents(c)
  BY DEF BeginTurn, Resettle
<1> HIDE DEF c
<1>4. chat'.open = chat.open /\ chat'.prompts = chat.prompts
  BY <1>2, <1>3, RetiredFields
<1>5. DOMAIN agents' = DOMAIN agents /\ \A b \in DOMAIN agents : agents'[b] = agents[b] \/ agents'[b] = Shut(agents[b])
  BY <1>2, <1>3, RetiredFields
<1>6. \A b \in DOMAIN agents : GoesOn(agents[b], agents'[b])
  BY <1>5, GoesOnRetired
<1>7. \A k \in Lanes : task'[k] = task[k] \/ (task'[k].pc \notin Cancels /\ (task[k].pc \in Enders => task'[k].pc \in Enders))
  BY <1>1 DEF Cancels, Enders
<1> QED
  BY <1>1, <1>4, <1>5, <1>6, <1>7, Onward

LEMMA QueuedEnsure ==
  ASSUME TurnsAssumption, TurnsTypeOK, Queued, NEW l \in Lanes, EnsureAgent(l)
  PROVE  Queued'
<1>1. /\ TurnsTypeOK' /\ task[l].pc = "ensure" /\ agents' = agents
      /\ \A k \in Lanes : k # l => task'[k] = task[k]
  BY LaneStepDoes DEF EnsureAgent, LaneStep
<1>2. CASE TurnFailed(l)
  BY <1>1, <1>2, SameAgents, FailsOn
<1>3. CASE ~TurnFailed(l)
  <2>1. UNCHANGED <<chat, raced>> /\ task'[l].pc \in {"push", "spawn"}
    <3>1. /\ UNCHANGED <<chat, raced>>
          /\ \/ task' = [task EXCEPT ![l] = [task[l] EXCEPT !.pc = "push", !.agent = chat.agent]]
             \/ task' = [task EXCEPT ![l] = [task[l] EXCEPT !.pc = "spawn", !.with = settings, !.of = provider]]
      BY <1>3 DEF EnsureAgent
    <3>2. /\ task[l] \in Doing
          /\ \/ task'[l] = [task[l] EXCEPT !.pc = "push", !.agent = chat.agent]
             \/ task'[l] = [task[l] EXCEPT !.pc = "spawn", !.with = settings, !.of = provider]
      BY <3>1 DEF TurnsTypeOK
    <3> QED
      BY <3>1, <3>2 DEF Doing
  <2>2. \A k \in Lanes : task'[k] = task[k] \/ (task'[k].pc \notin Cancels /\ (task[k].pc \in Enders => task'[k].pc \in Enders))
    BY <1>1, <2>1 DEF Cancels, Enders
  <2> QED
    BY <1>1, <2>1, <2>2, SameAgents, Onward
<1> QED
  BY <1>2, <1>3

LEMMA QueuedLane ==
  ASSUME TurnsAssumption, TurnsTypeOK, Queued, NEW l \in Lanes, LaneStep(l) \/ PushTurn(l) \/ SpawnAgent(l)
  PROVE  Queued'
<1>1. CASE SpawnFails(l)
  <2>1. agents' = agents /\ TurnFailed(l) /\ LaneStep(l)
    BY <1>1 DEF SpawnFails, LaneStep
  <2> QED
    BY <2>1, SameAgents, FailsOn, LaneStepDoes
<1>2. ASSUME Unqueue(l) \/ MarkTurn(l) \/ TellInterrupt(l) \/ InterruptTold(l) PROVE Queued'
  <2>1. LaneStep(l) /\ task[l].pc \in Cancels
    BY <1>2 DEF LaneStep, Cancels, Unqueue, MarkTurn, TellInterrupt, InterruptTold
  <2>2. TurnsTypeOK' /\ raced \subseteq raced'
    BY <2>1, LaneStepDoes, Races
  <2>3. "paused" \in raced
    BY <2>1, CalmSays DEF Queued, Nobody
  <2>4. chat'.open = chat.open /\ \A i \in DOMAIN chat'.queue : \E j \in DOMAIN chat.queue :
          chat'.queue[i] = chat.queue[j] /\ (chat.queue[j] \in chat.prompts => chat.queue[j] \in chat'.prompts)
    <3>1. CASE Unqueue(l)
      <4> DEFINE ids == {task[l].turn}
      <4>1. chat \in Chat /\ chat' = Without(chat, ids)
        BY <3>1 DEF Unqueue, TurnsTypeOK
      <4> HIDE DEF ids
      <4> QED
        BY <4>1, WithoutFields
    <3>2. CASE MarkTurn(l) \/ TellInterrupt(l) \/ InterruptTold(l)
      <4>1. chat' = chat
        BY <3>2 DEF MarkTurn, TellInterrupt, InterruptTold
      <4> QED
        BY <4>1
    <3> QED
      BY <1>2, <3>1, <3>2
  <2> QED
    BY <2>2, <2>3, <2>4, AfterCancel
<1> QED
  BY <1>1, <1>2, QueuedPush, QueuedSpawn, QueuedWaits, QueuedBegin, QueuedEnsure, QueuedSend, QueuedWritten DEF LaneStep

-----------------------------------------------------------------------------
\* The pumps.
LEMMA PumpsSays ==
  ASSUME NEW pc, NEW t, NEW how, NEW ids
  PROVE  Pumps(pc, t, how, ids).pc = pc /\ Pumps(pc, t, how, ids).how = how /\ Pumps(pc, t, how, ids).ids = ids
BY DEF Pumps

\* The pump of one process is set, others may be shut down.
LEMMA OnePumps ==
  ASSUME TurnsTypeOK, NEW a \in DOMAIN agents, NEW R \in Seq(Process), NEW u, DOMAIN R = DOMAIN agents,
         \A b \in DOMAIN agents : R[b] = agents[b] \/ R[b] = Shut(agents[b]),
         agents' = [R EXCEPT ![a].pump = u],
         u.pc \notin {"tell", "telling", "apply"}
  PROVE  /\ DOMAIN agents' = DOMAIN agents /\ agents'[a].pump = u
         /\ \A b \in DOMAIN agents : Uncancelled(agents[b]) => Uncancelled(agents'[b])
         /\ \A b \in DOMAIN agents : b # a => GoesOn(agents[b], agents'[b])
         /\ agents'[a].turns = agents[a].turns
<1> DEFINE r == R[a]
           n == [r EXCEPT !.pump = u]
<1>1. agents' = [R EXCEPT ![a] = n]
  OBVIOUS
<1> HIDE DEF n
<1>2. DOMAIN agents' = DOMAIN agents /\ agents'[a] = n /\ \A b \in DOMAIN agents : b # a => agents'[b] = R[b]
  BY <1>1
<1>3. r \in Process /\ GoesOn(agents[a], r) /\ r.turns = agents[a].turns
  <2>1. Shut(agents[a]).turns = agents[a].turns
    BY TypedProcess DEF Shut, Process
  <2> QED
    BY <2>1, GoesOnRetired
<1> HIDE DEF r
<1>4. n.turns = r.turns /\ n.inbox = r.inbox /\ n.out = r.out /\ n.pump = u
  BY <1>3 DEF n, Process
<1>5. Uncancelled(agents[a]) => Uncancelled(n)
  BY <1>3, <1>4 DEF GoesOn, Uncancelled
<1>6. \A b \in DOMAIN agents : b # a => GoesOn(agents[b], agents'[b])
  BY <1>2, GoesOnRetired
<1> QED
  BY <1>2, <1>3, <1>4, <1>5, <1>6 DEF GoesOn

\* An end looks at the queue: it drains it, or purges it.
LEMMA QueuedApply ==
  ASSUME TurnsAssumption, TurnsTypeOK, Queued, NEW a \in DOMAIN agents, ApplyEnd(a)
  PROVE  Queued'
<1> DEFINE p == agents[a]
           ended == Ends(chat, p.pump.turn)
           head == IF chat.queue = <<>> THEN NoTurn ELSE Head(chat.queue)
           pc == Follows(p.pump.how, chat.queue)
           u == Pumps(pc, head, "", Range(chat.queue))
           R == IF chat.retire THEN RetiredAgents(chat) ELSE agents
<1>1. /\ chat \in Chat /\ p.pump.pc = "apply" /\ raced' = raced /\ task' = task /\ agents \in Seq(Process)
      /\ agents' = [R EXCEPT ![a].pump = u]
      /\ chat' = IF chat.retire THEN RetiredChat(ended) ELSE ended
  BY DEF ApplyEnd, At, TurnsTypeOK
<1>2. /\ ended \in Chat /\ ended.agent = chat.agent /\ ended.open = chat.open /\ ended.queue = chat.queue
      /\ ended.prompts = chat.prompts
  BY <1>1, EndsFields
<1> HIDE DEF ended
<1>3. chat'.open = chat.open /\ chat'.queue = chat.queue /\ chat'.prompts = chat.prompts
  BY <1>1, <1>2, RetiredFields
<1>4. R \in Seq(Process) /\ DOMAIN R = DOMAIN agents /\ \A b \in DOMAIN agents : R[b] = agents[b] \/ R[b] = Shut(agents[b])
  BY <1>1, RetiredFields
<1>5. /\ pc \in {"after", "drain", "purge"}
      /\ p.pump.how \in {"done", "error"} => chat.queue = <<>> \/ pc \in {"drain", "purge"}
  BY DEF Follows
<1>6. u.pc = pc /\ u.ids = Range(chat.queue)
  BY DEF Pumps
<1> HIDE DEF R, u, pc, p
<1>7. /\ DOMAIN agents' = DOMAIN agents /\ agents'[a].pump = u
      /\ \A b \in DOMAIN agents : Uncancelled(agents[b]) => Uncancelled(agents'[b])
      /\ \A b \in DOMAIN agents : b # a => GoesOn(agents[b], agents'[b])
      /\ agents'[a].turns = agents[a].turns
  <2>1. agents' = [R EXCEPT ![a].pump = u]
    BY <1>1
  <2>2. u.pc \notin {"tell", "telling", "apply"}
    BY <1>5, <1>6

  <2> QED
    BY <1>4, <2>1, <2>2, OnePumps
<1>8. NothingIsCancelled'
  BY <1>1, <1>7, CalmOn DEF Queued
<1>9. QueuedPromptsKept'
  BY <1>1, <1>3, PromptsOn DEF Queued
<1>10. chat'.queue = <<>> \/ Overlooked' \/ SomeEnder' \/ AllPurging'
  <2>1. CASE "paused" \in raced
    BY <1>1, <2>1 DEF Overlooked, Raced
  <2>2. CASE "paused" \notin raced
    <3>1. p.pump.how \in {"done", "error"}
      BY <1>1, <2>2, CalmSays DEF Queued, Nobody, Uncancelled, p
    <3>2. CASE pc = "drain"
      BY <1>6, <1>7, <3>2 DEF SomeEnder, EndsLater
    <3>3. CASE pc = "purge"
      <4>1. \A i \in DOMAIN chat.queue : chat.queue[i] \in Range(chat.queue)
        BY DEF Range
      <4> QED
        BY <1>3, <1>6, <1>7, <3>3, <4>1 DEF AllPurging, Purging
    <3> QED
      BY <1>3, <1>5, <3>1, <3>2, <3>3
  <2> QED
    BY <2>1, <2>2
<1> QED
  BY <1>1, <1>3, <1>8, <1>9, <1>10, LookedSays, Settled DEF Queued

LEMMA QueuedDrain ==
  ASSUME TurnsAssumption, TurnsTypeOK, Queued, NEW a \in DOMAIN agents, DrainQueue(a)
  PROVE  Queued'
<1> DEFINE m == agents[a].pump.turn
           c == Starts(Without(chat, {m}), Drained(m, a))
           u == Pumps("after", NoTurn, "", {})
           w == Without(chat, {m})
<1>1. /\ TurnsTypeOK' /\ task'[Drainer].pc = "ensure" /\ \A k \in Lanes : k # Drainer => task'[k] = task[k]
      /\ Drainer \in Lanes /\ agents \in Seq(Process) /\ chat \in Chat
      /\ Note(When(m \notin Range(chat.queue), "unqueued") \cup When(chat.active # NoTurn, "orphaned"))
      /\ w \in Chat /\ chat'.queue = w.queue /\ chat'.open = chat.open /\ chat'.prompts = w.prompts
      /\ Drained(m, a) \in Turn
  BY DrainQueueDoes DEF TurnsTypeOK, Lanes
<1>2. w.agent = chat.agent /\ w.prompts = chat.prompts \ {m}
      /\ \A i \in DOMAIN w.queue : \E j \in DOMAIN chat.queue : chat.queue[j] \notin {m} /\ w.queue[i] = chat.queue[j]
  <2> DEFINE ids == {m}
  <2> HIDE DEF ids
  <2>1. /\ Without(chat, ids).agent = chat.agent /\ Without(chat, ids).prompts = chat.prompts \ ids
        /\ \A i \in DOMAIN Without(chat, ids).queue :
             \E j \in DOMAIN chat.queue : chat.queue[j] \notin ids /\ Without(chat, ids).queue[i] = chat.queue[j]
    BY <1>1, WithoutFields
  <2> QED
    BY <2>1 DEF ids
<1>3. c \in Chat /\ c.agent = chat.agent
  BY <1>1, <1>2, StartsFields
<1>4. \/ agents' = [agents EXCEPT ![a].pump = u]
      \/ agents' = [RetiredAgents(c) EXCEPT ![a].pump = u]
  BY DEF DrainQueue
<1> HIDE DEF c, w
<1>5. RetiredAgents(c) \in Seq(Process) /\ DOMAIN RetiredAgents(c) = DOMAIN agents
      /\ \A b \in DOMAIN agents : RetiredAgents(c)[b] = agents[b] \/ RetiredAgents(c)[b] = Shut(agents[b])
  BY <1>3, RetiredFields
<1>6. u.pc = "after"
  BY DEF Pumps
<1> HIDE DEF u
<1>7. DOMAIN agents' = DOMAIN agents /\ \A b \in DOMAIN agents : Uncancelled(agents[b]) => Uncancelled(agents'[b])
  <2>1. CASE agents' = [agents EXCEPT ![a].pump = u]
    BY <1>1, <1>6, <2>1, OnePumps
  <2>2. CASE agents' = [RetiredAgents(c) EXCEPT ![a].pump = u]
    BY <1>5, <1>6, <2>2, OnePumps
  <2> QED
    BY <1>4, <2>1, <2>2
<1>8. raced \subseteq raced'
  BY <1>1 DEF Note
<1>9. NothingIsCancelled'
  BY <1>1, <1>7, <1>8, CalmOn DEF Queued, Cancels
<1>10. QueuedPromptsKept'
  BY <1>1, <1>2, <1>8, PromptsOn DEF Queued
<1>11. SomeEnder'
  BY <1>1 DEF SomeEnder, Enders
<1>12. chat.queue = <<>> => chat'.queue = <<>>
  BY <1>1, <1>2, NoQueue
<1> QED
  BY <1>1, <1>8, <1>9, <1>10, <1>11, <1>12, LookedSays, Settled DEF Queued

\* A purge takes what it has read; what it leaves has another purge to come, or a
\* race is named.
LEMMA QueuedPurge ==
  ASSUME TurnsAssumption, TurnsTypeOK, Queued, NEW a \in DOMAIN agents, PurgeQueue(a)
  PROVE  Queued'
<1> DEFINE ids == agents[a].pump.ids
           w == Without(chat, ids)
           u == Pumps("after", NoTurn, "", {})
<1>1. /\ TurnsTypeOK' /\ task' = task /\ agents \in Seq(Process) /\ chat \in Chat /\ agents[a].pump.pc = "purge"
      /\ agents' = [agents EXCEPT ![a].pump = u]
      /\ chat' = [w EXCEPT !.prompts = {}]
      /\ raced \subseteq raced' /\ (Range(chat.queue) \ ids # {} => "purged" \in raced')
  BY PurgeQueueDoes DEF PurgeQueue, At, Note, When, TurnsTypeOK
<1> HIDE DEF ids
<1>2. /\ w \in Chat /\ w.open = chat.open
      /\ \A i \in DOMAIN w.queue : \E j \in DOMAIN chat.queue : chat.queue[j] \notin ids /\ w.queue[i] = chat.queue[j]
  <2>1. chat \in Chat
    BY <1>1
  <2> QED
    BY <2>1, WithoutFields
<1> HIDE DEF w
<1>3. chat'.open = chat.open /\ chat'.queue = w.queue
  BY <1>1, <1>2 DEF Chat
<1>4. u.pc = "after"
  BY DEF Pumps
<1> HIDE DEF u
<1>5. /\ DOMAIN agents' = DOMAIN agents /\ agents'[a].pump = u
      /\ \A b \in DOMAIN agents : Uncancelled(agents[b]) => Uncancelled(agents'[b])
      /\ \A b \in DOMAIN agents : b # a => GoesOn(agents[b], agents'[b])
      /\ agents'[a].turns = agents[a].turns
  BY <1>1, <1>4, OnePumps
<1>6. NothingIsCancelled'
  BY <1>1, <1>5, CalmOn DEF Queued
<1>7. \A i \in DOMAIN chat'.queue : \E j \in DOMAIN chat.queue : chat.queue[j] \notin ids /\ chat'.queue[i] = chat.queue[j]
  BY <1>2, <1>3
<1>8. QueuedPromptsKept'
  <2>1. CASE Range(chat.queue) \ ids # {}
    BY <1>1, <2>1 DEF QueuedPromptsKept, Raced
  <2>2. CASE Range(chat.queue) \ ids = {}
    <3>1. Range(chat'.queue) = {}
      BY <1>7, <2>2 DEF Range
    <3> QED
      BY <3>1 DEF QueuedPromptsKept
  <2> QED
    BY <2>1, <2>2
<1>9. Overlooked' \/ SomeEnder' \/ AllPurging'
  <2>1. CASE Overlooked
    BY <1>1, <2>1 DEF Overlooked, Raced
  <2>2. CASE ~Overlooked
    <3>1. \A b \in DOMAIN agents : Uncancelled(agents[b])
      BY <2>2, CalmSays DEF Queued, Overlooked, Raced, Nobody
    <3>2. \A b \in DOMAIN agents : b # a => LooksOn(agents[b], agents'[b])
      BY <1>5, <3>1 DEF GoesOn
    <3>3. EndsLater(agents[a]) => EndsLater(agents'[a])
      BY <1>1, <1>5 DEF EndsLater, Busy
    <3>4. SomeEnder => SomeEnder'
      BY <1>1, <1>5, <3>2, <3>3 DEF SomeEnder, LooksOn
    <3>5. AllPurging => AllPurging'
      <4> SUFFICES ASSUME AllPurging, NEW i \in DOMAIN chat'.queue
                   PROVE  \E b \in DOMAIN agents' : agents'[b].pump.pc = "purge" /\ chat'.queue[i] \in agents'[b].pump.ids
        BY DEF AllPurging, Purging
      <4>1. PICK j \in DOMAIN chat.queue : chat.queue[j] \notin ids /\ chat'.queue[i] = chat.queue[j]
        BY <1>7
      <4>2. PICK b \in DOMAIN agents : agents[b].pump.pc = "purge" /\ chat.queue[j] \in agents[b].pump.ids
        BY DEF AllPurging, Purging
      <4>3. b # a
        BY <4>1, <4>2 DEF ids
      <4>4. agents'[b].pump = agents[b].pump
        BY <3>2, <4>2, <4>3 DEF LooksOn
      <4> QED
        BY <1>5, <4>1, <4>2, <4>4
    <3> QED
      BY <2>2, <3>4, <3>5, LookedSays, EndSays DEF Queued, Looking
  <2> QED
    BY <2>1, <2>2
<1>10. chat.queue = <<>> => chat'.queue = <<>>
  BY <1>1, <1>7, NoQueue
<1> QED
  BY <1>1, <1>3, <1>6, <1>8, <1>9, <1>10, LookedSays, Settled DEF Queued

LEMMA QueuedWake ==
  ASSUME TurnsAssumption, TurnsTypeOK, Queued, NEW a \in DOMAIN agents, AdoptWakeTurn(a)
  PROVE  Queued'
<1> DEFINE p == agents[a]
           x == Pending(Woken(a), FALSE)
           n == [p EXCEPT !.out = Tail(@), !.turns = <<x>>]
           m == [p EXCEPT !.out = Tail(@)]
<1>1. /\ TurnsTypeOK' /\ task' = task /\ DOMAIN agents' = DOMAIN agents /\ chat \in Chat /\ raced \subseteq raced'
      /\ \A b \in DOMAIN agents : b # a => agents'[b] = agents[b]
      /\ p \in Process /\ p.out \in Seq(Answer) /\ p.out # <<>> /\ p.pump.pc = "rest" /\ agents \in Seq(Process)
  BY AdoptWakeTurnDoes, TypedProcess DEF TurnsTypeOK, AdoptWakeTurn, Hears, Note
<1>2. Plain(p.out) => Plain(Tail(p.out))
  BY <1>1, PlainTail
<1>3. Woken(a) \in Turn
  <2>1. a \in 1..MaxAgents
    BY DEF TurnsTypeOK, TurnsAssumption
  <2> QED
    BY <2>1, Ids
<1>4. GoesOn(p, agents'[a])
  <2>1. CASE p.turns = <<>>
    <3>1. agents' = [agents EXCEPT ![a] = n]
      BY <2>1 DEF AdoptWakeTurn, Taken
    <3>2. agents'[a] = n
      BY <1>1, <3>1
    <3>3. agents'[a] \in Process
      BY <1>1 DEF TurnsTypeOK
    <3>4. x \in Pended /\ ~x.cancelled
      BY <1>3, Ids DEF Pending, Pended
    <3> HIDE DEF x
    <3>5. Kept(<<x>>) /\ <<x>> # <<>> /\ <<x>> \in Seq(Pended)
      BY <3>4 DEF Kept
    <3>6. n.turns = <<x>> /\ n.pump = p.pump /\ n.inbox = p.inbox /\ n.out = Tail(p.out)
      BY <1>1, <3>5 DEF Process
    <3> HIDE DEF n
    <3>7. Uncancelled(p) => Kept(n.turns) /\ Prompts(n.inbox) /\ Plain(n.out)
      BY <1>2, <3>5, <3>6 DEF Uncancelled
    <3>8. GoesOn(p, n)
      <4> HIDE DEF p
      <4>1. n \in Process /\ n.turns # <<>> /\ n.pump.pc = "rest" /\ p.pump.pc # "purge" /\ p \in Process
        BY <1>1, <3>2, <3>3, <3>5, <3>6
      <4> QED
        BY <3>7, <4>1, PumpedGoesOn
    <3> QED
      BY <3>2, <3>8
  <2>2. CASE p.turns # <<>>
    <3>1. agents' = [agents EXCEPT ![a] = m]
      BY <2>2 DEF AdoptWakeTurn, Taken
    <3>2. agents'[a] = m
      BY <1>1, <3>1
    <3>3. m.turns = p.turns /\ m.pump = p.pump /\ m.inbox = p.inbox /\ m.out = Tail(p.out)
      BY <1>1 DEF Process
    <3> HIDE DEF m
    <3> QED
      BY <1>2, <3>2, <3>3, GoesOnFields
  <2> QED
    BY <2>1, <2>2
<1>5. chat'.open = chat.open /\ chat'.queue = chat.queue /\ chat'.prompts = chat.prompts
  <2>1. chat' = Starts(chat, Woken(a)) \/ chat' = chat
    BY DEF AdoptWakeTurn
  <2> QED
    BY <1>1, <1>3, <2>1, StartsFields
<1> HIDE DEF p
<1>6. \A b \in DOMAIN agents : GoesOn(agents[b], agents'[b])
  BY <1>1, <1>4, GoesOnSelf DEF p
<1> QED
  BY <1>1, <1>5, <1>6, Onward

\* The end of a process is the end of its turns, and purges the queue.
LEMMA QueuedStreamEnds ==
  ASSUME TurnsAssumption, TurnsTypeOK, Queued, NEW a \in DOMAIN agents, StreamEnds(a)
  PROVE  Queued'
<1> DEFINE p == agents[a]
           q == agents'[a]
           u == Pumps(IF chat.queue = <<>> THEN "rest" ELSE "purge", NoTurn, "", Range(chat.queue))
<1>1. /\ TurnsTypeOK' /\ task' = task /\ raced' = raced /\ DOMAIN agents' = DOMAIN agents /\ chat \in Chat
      /\ p \in Process /\ p.turns \in Seq(Pended) /\ p.pump.pc = "rest"
  BY StreamEndsDoes, TypedProcess DEF StreamEnds, At, TurnsTypeOK, QuietStep
<1>2. /\ \A b \in DOMAIN agents : b # a => agents'[b] \in {agents[b], Shut(agents[b])}
      /\ q.turns = <<>> /\ q.out = p.out /\ q.inbox \in {p.inbox, <<>>}
      /\ q.pump = IF Fails(p) = {} THEN p.pump ELSE u
  BY StreamEndsDrops
<1>3. chat'.open = chat.open /\ chat'.queue = chat.queue /\ chat'.prompts = chat.prompts
  <2> DEFINE e == Ends(chat, chat.active)
  <2>1. e \in Chat /\ e.open = chat.open /\ e.queue = chat.queue /\ e.prompts = chat.prompts
    BY <1>1, EndsFields
  <2>2. \/ chat' = chat \/ chat' = e \/ chat' = [chat EXCEPT !.agent = 0, !.retire = FALSE]
        \/ chat' = [e EXCEPT !.agent = 0, !.retire = FALSE]
    BY DEF StreamEnds
  <2> HIDE DEF e
  <2> QED
    BY <1>1, <2>1, <2>2 DEF Chat
<1>4. u.pc = (IF chat.queue = <<>> THEN "rest" ELSE "purge") /\ u.ids = Range(chat.queue)
  BY DEF Pumps
<1> HIDE DEF u, p, q
<1>5. Uncancelled(p) => Uncancelled(q)
  <2>1. q.pump.pc \notin {"tell", "telling", "apply"}
    BY <1>1, <1>2, <1>4
  <2>2. Kept(q.turns) /\ (Prompts(p.inbox) => Prompts(q.inbox)) /\ (Plain(p.out) => Plain(q.out))
    BY <1>2, NothingIsPlain
  <2> QED
    BY <2>1, <2>2 DEF Uncancelled
<1>6. \A b \in DOMAIN agents : b # a => GoesOn(agents[b], agents'[b])
  BY <1>2, GoesOnRetired
<1>7. \A b \in DOMAIN agents : Uncancelled(agents[b]) => Uncancelled(agents'[b])
  BY <1>5, <1>6 DEF GoesOn, p, q
<1>8. NothingIsCancelled'
  BY <1>1, <1>7, CalmOn DEF Queued
<1>9. QueuedPromptsKept'
  BY <1>1, <1>3, PromptsOn DEF Queued
<1>10. chat'.queue = <<>> \/ Overlooked' \/ SomeEnder' \/ AllPurging'
  <2>1. CASE Overlooked
    BY <1>1, <2>1 DEF Overlooked, Raced
  <2>2. CASE ~Overlooked
    <3>1. \A b \in DOMAIN agents : Uncancelled(agents[b])
      BY <2>2, CalmSays DEF Queued, Overlooked, Raced, Nobody
    <3>2. CASE Fails(p) = {}
      <4>1. p.turns = <<>>
        <5>1. \A i \in DOMAIN p.turns : ~p.turns[i].cancelled
          BY <3>1 DEF Uncancelled, Kept, p
        <5>2. \A i \in DOMAIN p.turns : p.turns[i].id \in Fails(p)
          BY <5>1 DEF Fails
        <5>3. p.turns # <<>> => 1 \in DOMAIN p.turns
          BY <1>1
        <5> QED
          BY <3>2, <5>2, <5>3
      <4>2. LooksOn(p, q)
        BY <1>2, <3>2, <4>1 DEF LooksOn, EndsLater, Busy
      <4>3. \A b \in DOMAIN agents : LooksOn(agents[b], agents'[b])
        BY <1>6, <3>1, <4>2 DEF GoesOn, p, q
      <4>4. QueueIsLookedAt'
        BY <1>1, <1>3, <4>3, LooksFrame DEF Queued
      <4> QED
        BY <4>4, LookedSays, EndSays DEF Looking
    <3>3. CASE Fails(p) # {} /\ chat.queue # <<>>
      <4>1. \A i \in DOMAIN chat.queue : chat.queue[i] \in Range(chat.queue)
        BY DEF Range
      <4>2. agents'[a].pump.pc = "purge" /\ agents'[a].pump.ids = Range(chat.queue)
        BY <1>2, <1>4, <3>3 DEF q
      <4> QED
        BY <1>1, <1>3, <4>1, <4>2 DEF AllPurging, Purging
    <3> QED
      BY <1>3, <3>2, <3>3
  <2> QED
    BY <2>1, <2>2
<1> QED
  BY <1>1, <1>3, <1>8, <1>9, <1>10, LookedSays, Settled DEF Queued

-----------------------------------------------------------------------------
LEMMA QueuedNext ==
  ASSUME TurnsAssumption, TurnsTypeOK, Queued, TurnsNext
  PROVE  Queued'
<1>1. chat \in Chat
  BY DEF TurnsTypeOK
<1>2. ASSUME NEW l \in Conn, StartTurn(l) PROVE Queued'
  <2>1. /\ TurnsTypeOK' /\ l \in Lanes /\ task[l].pc = "idle" /\ UNCHANGED <<chat, agents, raced>>
        /\ task'[l].pc \in {"queue", "begin"} /\ \A k \in Lanes : k # l => task'[k] = task[k]
    BY <1>2, StartTurnDoes DEF Lanes
  <2>2. \A k \in Lanes : task'[k] = task[k] \/ (task'[k].pc \notin Cancels /\ (task[k].pc \in Enders => task'[k].pc \in Enders))
    BY <2>1 DEF Cancels, Enders
  <2> QED
    BY <2>1, <2>2, SameAgents, Onward
<1>3. ASSUME NEW l \in Conn, NEW t \in Turn, CancelTurn(l, t) PROVE Queued'
  <2>1. TurnsTypeOK' /\ raced \subseteq raced' /\ "paused" \in raced' /\ (chat' = chat \/ chat' = Ends(chat, t))
    BY <1>3, CancelTurnDoes DEF CancelTurn, Note
  <2>2. chat'.open = chat.open /\ chat'.queue = chat.queue /\ chat'.prompts = chat.prompts
    BY <1>1, <2>1, EndsFields
  <2> QED
    BY <2>1, <2>2, AfterCancel
<1>4. CASE \E l \in Lanes : LaneStep(l) \/ PushTurn(l) \/ SpawnAgent(l)
  BY <1>4, QueuedLane
<1>5. ASSUME NEW a \in DOMAIN agents, ProcessStep(a) PROVE Queued'
  <2>1. /\ TurnsTypeOK' /\ DOMAIN agents' = DOMAIN agents /\ UNCHANGED <<chat, task>> /\ raced \subseteq raced'
        /\ \A b \in DOMAIN agents : b # a => agents'[b] = agents[b]
    BY <1>5, ProcessStepDoes DEF QuietStep
  <2>2. \A b \in DOMAIN agents : GoesOn(agents[b], agents'[b])
    BY <1>5, <2>1, ProcessGoesOn, GoesOnSelf
  <2> QED
    BY <2>1, <2>2, Onward
<1>6. CASE \E a \in DOMAIN agents : AdoptWakeTurn(a) \/ ApplyEnd(a) \/ DrainQueue(a) \/ PurgeQueue(a) \/ StreamEnds(a)
  BY <1>6, QueuedWake, QueuedApply, QueuedDrain, QueuedPurge, QueuedStreamEnds
<1>7. ASSUME ChangeSettings PROVE Queued'
  <2>1. /\ TurnsTypeOK' /\ task' = task /\ raced' = raced /\ agents' = RetiredAgents(chat) /\ chat' = RetiredChat(chat)
    BY <1>7, ChangeSettingsDoes DEF ChangeSettings, Resettle
  <2>2. chat'.open = chat.open /\ chat'.queue = chat.queue /\ chat'.prompts = chat.prompts
    BY <1>1, <2>1, RetiredFields
  <2>3. DOMAIN agents' = DOMAIN agents /\ \A b \in DOMAIN agents : agents'[b] = agents[b] \/ agents'[b] = Shut(agents[b])
    BY <1>1, <2>1, RetiredFields
  <2>4. \A b \in DOMAIN agents : GoesOn(agents[b], agents'[b])
    BY <2>3, GoesOnRetired
  <2> QED
    BY <2>1, <2>2, <2>3, <2>4, Onward
<1>8. ASSUME QueueMessage PROVE Queued'
  <2>1. TurnsTypeOK' /\ UNCHANGED <<agents, task>> /\ chat'.open = chat.open /\ chat.open
        /\ raced \subseteq raced' /\ "bare" \in raced'
    BY <1>8, QueueMessageDoes DEF QueueMessage, Note
  <2>2. NothingIsCancelled'
    BY <2>1, SameAgents, CalmOn DEF Queued
  <2>3. QueuedPromptsKept' /\ Overlooked'
    BY <2>1 DEF QueuedPromptsKept, Overlooked, Raced
  <2> QED
    BY <2>1, <2>2, <2>3, Settled
<1>9. ASSUME DisposeSession PROVE Queued'
  <2>1. /\ task' = task /\ raced' = raced /\ chat' = Closed /\ DOMAIN agents' = DOMAIN agents
        /\ \A b \in DOMAIN agents : agents'[b] = agents[b] \/ agents'[b] = Shut(agents[b])
    BY <1>9, DisposeSessionDoes DEF QuietStep
  <2>2. \A b \in DOMAIN agents : Uncancelled(agents[b]) => Uncancelled(agents'[b])
    BY <2>1, GoesOnRetired DEF GoesOn
  <2>3. NothingIsCancelled'
    BY <2>1, <2>2, CalmOn DEF Queued
  <2>4. chat'.queue = <<>> /\ Range(chat'.queue) = {}
    <3>1. DOMAIN <<>> = {}
      OBVIOUS
    <3> QED
      BY <2>1, <3>1 DEF Closed, Range
  <2>5. QueuedPromptsKept'
    BY <2>4 DEF QueuedPromptsKept
  <2> QED
    BY <2>1, <2>3, <2>4, <2>5, Settled
<1> QED
  BY <1>2, <1>3, <1>4, <1>5, <1>6, <1>7, <1>8, <1>9, NextSteps

LEMMA QueuedStutter ==
  ASSUME Queued, UNCHANGED turnVars
  PROVE  Queued'
BY DEF Queued, QueuedPromptsKept, NothingIsCancelled, QueueIsLookedAt, EndIsToCome, Raced, Busy, BusyTurns, turnVars

LEMMA QueuedInit ==
  ASSUME TurnsInit
  PROVE  Queued
<1>1. /\ DOMAIN agents = {} /\ chat.queue = <<>> /\ DOMAIN chat.queue = {}
      /\ \A l \in Lanes : task[l].pc = "idle"
  <2>1. agents = <<>> /\ task = [l \in Lanes |-> Idle] /\ Idle.pc = "idle" /\ chat.queue = <<>>
    BY DEF TurnsInit, Idle, Closed
  <2> QED
    BY <2>1
<1>2. Range(chat.queue) = {}
  BY <1>1 DEF Range
<1> QED
  BY <1>1, <1>2 DEF Queued, QueuedPromptsKept, NothingIsCancelled, QueueIsLookedAt

LEMMA QueuedIsKept ==
  ASSUME TurnsTypeOK, Queued
  PROVE  QueueIsKept
<1>1. Quiet => ~EndIsToCome /\ ~ \E a \in DOMAIN agents : agents[a].pump.pc = "purge"
  <2>1. ASSUME NEW a \in DOMAIN agents, agents[a].turns = <<>> PROVE ~Busy(agents[a])
    BY <2>1 DEF Busy, BusyTurns
  <2> QED
    BY <2>1 DEF Quiet, EndIsToCome, At
<1>2. chat.queue # <<>> => 1 \in DOMAIN chat.queue
  <2>1. chat.queue \in Seq(Sent)
    BY DEF TurnsTypeOK, Chat
  <2> QED
    BY <2>1
<1>3. NoQueueIsForgotten
  BY <1>1, <1>2 DEF NoQueueIsForgotten, Queued, QueueIsLookedAt
<1> QED
  BY <1>3 DEF Queued, QueueIsKept

\* A queue keeps its prompts, and while no race is named something is still to
\* end that drains it, or a purge that takes it is under way.
THEOREM QueuesAreKept == TurnsSpec => []QueueIsKept
<1> DEFINE Inv == TurnsTypeOK /\ Queued
<1>1. TurnsInit => Inv
  BY TurnsAssumption, TypeInit, QueuedInit
<1>2. Inv /\ [TurnsNext]_turnVars => Inv'
  <2>1. ASSUME Inv, TurnsNext PROVE Inv'
    BY <2>1, TurnsAssumption, TypeOfNext, QueuedNext
  <2>2. ASSUME Inv, UNCHANGED turnVars PROVE Inv'
    BY <2>2, TypeOfStutter, QueuedStutter
  <2> QED
    BY <2>1, <2>2
<1>3. Inv => QueueIsKept
  BY QueuedIsKept
<1> QED
  BY <1>1, <1>2, <1>3, PTL DEF TurnsSpec
=============================================================================
