---------------------------- MODULE DocSyncProofs ----------------------------
(***************************************************************************)
(* DocSync is safe for any number of clients, edits, reloads and dying     *)
(* connections, as long as the dispatches of one client arrive in order.   *)
(***************************************************************************)
EXTENDS DocSyncInv, WellFoundedInduction, SequenceTheorems, TLAPS

-----------------------------------------------------------------------------
(***************************************************************************)
(* How the parts of the invariant of DocSyncInv survive the changes its    *)
(* actions make, as facts about values.                                    *)
(***************************************************************************)

\* What the helpers on sequences of this development answer.
LEMMA AppendFacts ==
  ASSUME NEW S, NEW s \in Seq(S), NEW e \in S
  PROVE  /\ Append(s, e) \in Seq(S)
         /\ Len(Append(s, e)) = Len(s) + 1
         /\ DOMAIN Append(s, e) = 1..(Len(s) + 1)
         /\ \A i \in DOMAIN s : Append(s, e)[i] = s[i]
         /\ Append(s, e)[Len(s) + 1] = e
  OBVIOUS

LEMMA TailFacts ==
  ASSUME NEW S, NEW s \in Seq(S), s # <<>>
  PROVE  /\ Tail(s) \in Seq(S)
         /\ Len(s) \in Nat \ {0}
         /\ Len(Tail(s)) = Len(s) - 1
         /\ DOMAIN Tail(s) = 1..(Len(s) - 1)
         /\ \A i \in 1..(Len(s) - 1) : Tail(s)[i] = s[i + 1]
         /\ Head(s) = s[1] /\ Head(s) \in S
  OBVIOUS

LEMMA RemoveFirstFacts ==
  ASSUME NEW S, NEW s \in Seq(S), 1 \in DOMAIN s
  PROVE  RemoveAt(s, 1) = Tail(s)
  BY DEF RemoveAt

LEMMA RemoveType ==
  ASSUME NEW S, NEW s \in Seq(S), NEW i \in DOMAIN s
  PROVE  RemoveAt(s, i) \in Seq(S)
<1>1. SubSeq(s, 1, i - 1) \in Seq(S) /\ SubSeq(s, i + 1, Len(s)) \in Seq(S)
  OBVIOUS
<1> QED
  BY <1>1 DEF RemoveAt

LEMMA ConcatNone ==
  ASSUME NEW S, NEW s \in Seq(S)
  PROVE  s \o <<>> = s
  OBVIOUS

LEMMA ConcatOne ==
  ASSUME NEW S, NEW s \in Seq(S), NEW e \in S
  PROVE  s \o <<e>> = Append(s, e)
  OBVIOUS

LEMMA ConcatFacts ==
  ASSUME NEW S, NEW s \in Seq(S), NEW t \in Seq(S)
  PROVE  /\ s \o t \in Seq(S)
         /\ Len(s \o t) = Len(s) + Len(t)
         /\ \A i \in DOMAIN s : (s \o t)[i] = s[i]
         /\ \A i \in DOMAIN t : (s \o t)[Len(s) + i] = t[i]
  OBVIOUS

LEMMA SuffixFacts ==
  ASSUME NEW S, NEW s \in Seq(S), NEW n \in DOMAIN s
  PROVE  /\ SubSeq(s, n + 1, Len(s)) \in Seq(S)
         /\ Len(SubSeq(s, n + 1, Len(s))) = Len(s) - n
         /\ \A i \in 1..(Len(s) - n) : SubSeq(s, n + 1, Len(s))[i] = s[n + i]
  OBVIOUS

LEMMA LastFacts ==
  ASSUME NEW S, NEW s \in Seq(S), s # <<>>
  PROVE  /\ Len(s) \in Nat \ {0}
         /\ Last(s) = s[Len(s)]
         /\ Last(s) \in S
  BY DEF Last

LEMMA LeastFacts ==
  ASSUME NEW T, T \subseteq Nat, T # {}
  PROVE  Min(T) \in T /\ \A y \in T : Min(T) <= y
<1>1. PICK x \in T : \A y \in T : ~ (<<y, x>> \in OpToRel(<, Nat))
  BY WFMin, NatLessThanWellFounded, Zenon
<1>2. \A y \in T : <<y, x>> \in Nat \X Nat
  OBVIOUS
<1>3. \A y \in T : ~ (y < x)
  BY <1>1, <1>2, Zenon DEF OpToRel
<1>4. \A y \in T : x <= y
  BY <1>3
<1>5. \E m \in T : \A y \in T : m <= y
  BY <1>4
<1>6. Min(T) = CHOOSE m \in T : \A y \in T : m <= y
  BY DEF Min
<1> QED
  BY <1>5, <1>6, Zenon

-----------------------------------------------------------------------------
\* The methods of the log keep it a log, and say what they send.

LEMMA DisplayType ==
  ASSUME NEW l \in Log
  PROVE  Display(l) \in Seq(Uid) /\ Tip(l) \in Uid
<1>1. CASE l.speculation = <<>>
  BY <1>1 DEF Log, Display, Tip
<1>2. CASE l.speculation # <<>>
  <2>1. l.speculation \in Seq(Entry)
    BY DEF Log
  <2>2. Last(l.speculation) \in Entry
    BY <1>2, <2>1, LastFacts
  <2> QED
    BY <1>2, <2>2 DEF Display, Tip, Entry
<1> QED
  BY <1>1, <1>2

LEMMA PushFacts ==
  ASSUME NEW l \in Log, NEW id \in Uid
  PROVE  \/ Push(l, id) = [log |-> l, sent |-> <<>>]
         \/ /\ Push(l, id).log \in Log
            /\ Push(l, id).log.committed = l.committed
            /\ Push(l, id).log.version = l.version
            /\ Push(l, id).log.rebasing = l.rebasing
            /\ Push(l, id).log.speculation =
                 Append(l.speculation, [id |-> id, after |-> Append(Display(l), id)])
            /\ Push(l, id).sent = <<[id |-> id, base |-> Tip(l), before |-> Display(l)]>>
<1> DEFINE entry == [id |-> id, after |-> Append(Display(l), id)]
<1>1. Display(l) \in Seq(Uid) /\ Tip(l) \in Uid
  BY DisplayType
<1>2. entry \in Entry
  BY <1>1 DEF Entry
<1>3. Append(l.speculation, entry) \in Seq(Entry)
  BY <1>2 DEF Log
<1>4. [l EXCEPT !.speculation = Append(@, entry)] \in Log
  BY <1>3 DEF Log
<1> QED
  BY <1>4 DEF Push, Log

\* A step carries one entry across, or finds that nothing is left to carry.
LEMMA StepFacts ==
  ASSUME NEW l \in Log
  PROVE  \/ /\ Step(l).log \in Log
            /\ Step(l).log.committed = l.committed
            /\ Step(l).log.version = l.version
            /\ Step(l).log.speculation = l.speculation
            /\ Step(l).log.rebasing = <<>>
            /\ Step(l).sent = <<>>
            /\ \A i \in DOMAIN l.rebasing : Collapses(l.rebasing[i], Display(l))
         \/ \E n \in DOMAIN l.rebasing :
            /\ Step(l).log \in Log
            /\ Step(l).log.committed = l.committed
            /\ Step(l).log.version = l.version
            /\ Step(l).log.rebasing = SubSeq(l.rebasing, n + 1, Len(l.rebasing))
            /\ Step(l).log.speculation =
                 Append(l.speculation,
                        [id |-> l.rebasing[n], after |-> Append(Display(l), l.rebasing[n])])
            /\ Step(l).sent =
                 <<[id |-> l.rebasing[n], base |-> Tip(l), before |-> Display(l)]>>
            /\ \A i \in DOMAIN l.rebasing : i < n => Collapses(l.rebasing[i], Display(l))
<1> DEFINE whole == {i \in DOMAIN l.rebasing : ~Collapses(l.rebasing[i], Display(l))}
<1>1. CASE whole = {}
  <2>1. Step(l) = [log |-> [l EXCEPT !.rebasing = <<>>], sent |-> <<>>]
    BY <1>1 DEF Step
  <2>2. <<>> \in Seq(Uid)
    OBVIOUS
  <2> DEFINE m == [l EXCEPT !.rebasing = <<>>]
  <2>3. /\ m \in Log
        /\ m.committed = l.committed /\ m.version = l.version
        /\ m.speculation = l.speculation /\ m.rebasing = <<>>
    BY <2>2 DEF Log
  <2>4. Step(l).log = m /\ Step(l).sent = <<>>
    BY <2>1
  <2>5. \A i \in DOMAIN l.rebasing : Collapses(l.rebasing[i], Display(l))
    BY <1>1
  <2> HIDE DEF m
  <2> QED
    BY <2>3, <2>4, <2>5
<1>2. CASE whole # {}
  <2> DEFINE n == Min(whole)
             m == [l EXCEPT !.rebasing = SubSeq(@, n + 1, Len(@))]
  <2>1. n \in whole /\ \A i \in whole : n <= i
    <3>1. whole \subseteq Nat
      BY DEF Log
    <3> HIDE DEF whole
    <3> QED
      BY <1>2, <3>1, LeastFacts
  <2>2. n \in DOMAIN l.rebasing /\ ~Collapses(l.rebasing[n], Display(l))
    BY <2>1
  <2>3. l.rebasing \in Seq(Uid) /\ l.rebasing[n] \in Uid
    BY <2>2 DEF Log
  <2>11. ASSUME NEW i \in DOMAIN l.rebasing, i < n
         PROVE  Collapses(l.rebasing[i], Display(l))
    <3>1. i \in Nat /\ n \in Nat
      BY <2>2, <2>3
    <3>2. ~(n <= i)
      <4> HIDE DEF n
      <4> QED
        BY <2>11, <3>1
    <3>3. i \notin whole
      <4> HIDE DEF n, whole
      <4> QED
        BY <2>1, <3>2
    <3> QED
      BY <3>3
  <2>4. SubSeq(l.rebasing, n + 1, Len(l.rebasing)) \in Seq(Uid)
    BY <2>2, <2>3, SuffixFacts
  <2>5. /\ m \in Log
        /\ m.committed = l.committed /\ m.version = l.version
        /\ m.speculation = l.speculation
        /\ m.rebasing = SubSeq(l.rebasing, n + 1, Len(l.rebasing))
    BY <2>4 DEF Log
  <2>6. Display(m) = Display(l) /\ Tip(m) = Tip(l)
    BY <2>5 DEF Display, Tip
  <2>7. Step(l) = Push(m, l.rebasing[n])
    BY <1>2 DEF Step
  <2>8. Push(m, l.rebasing[n]).sent # <<>>
    <3>1. ~Collapses(l.rebasing[n], Display(m))
      BY <2>2, <2>6
    <3> QED
      BY <3>1 DEF Push
  <2> HIDE DEF m, n
  <2>9. Push(m, l.rebasing[n]) # [log |-> m, sent |-> <<>>]
    BY <2>8
  <2>10. /\ Push(m, l.rebasing[n]).log \in Log
         /\ Push(m, l.rebasing[n]).log.committed = m.committed
         /\ Push(m, l.rebasing[n]).log.version = m.version
         /\ Push(m, l.rebasing[n]).log.rebasing = m.rebasing
         /\ Push(m, l.rebasing[n]).log.speculation =
              Append(m.speculation,
                     [id |-> l.rebasing[n], after |-> Append(Display(m), l.rebasing[n])])
         /\ Push(m, l.rebasing[n]).sent =
              <<[id |-> l.rebasing[n], base |-> Tip(m), before |-> Display(m)]>>
    BY <2>3, <2>5, <2>9, PushFacts
  <2> QED
    BY <2>2, <2>5, <2>6, <2>7, <2>10, <2>11
<1> QED
  BY <1>1, <1>2

LEMMA LocalFacts ==
  ASSUME NEW l \in Log, NEW id \in Uid
  PROVE  \/ Local(l, id) = Push(l, id)
         \/ /\ IsRebasing(l)
            /\ Local(l, id) = [log |-> [l EXCEPT !.rebasing = Append(@, id)], sent |-> <<>>]
            /\ Local(l, id).log \in Log
<1>1. Append(l.rebasing, id) \in Seq(Uid)
  BY DEF Log
<1>2. [l EXCEPT !.rebasing = Append(@, id)] \in Log
  BY <1>1 DEF Log
<1> QED
  BY <1>2 DEF Local

\* The entries of ours, in order: the speculation first.
LEMMA PendingFacts ==
  ASSUME NEW l \in Log
  PROVE  /\ Pending(l) \in Seq(Uid)
         /\ Len(Pending(l)) = Len(l.speculation) + Len(l.rebasing)
         /\ \A i \in DOMAIN l.speculation : Pending(l)[i] = l.speculation[i].id
         /\ \A i \in DOMAIN l.rebasing : Pending(l)[Len(l.speculation) + i] = l.rebasing[i]
<1>1. PICK ids \in Seq(Uid) : /\ Len(ids) = Len(l.speculation)
                              /\ \A i \in DOMAIN l.speculation : ids[i] = l.speculation[i].id
                              /\ Pending(l) = ids \o l.rebasing
  <2> DEFINE ids == [i \in DOMAIN l.speculation |-> l.speculation[i].id]
  <2>1. l.speculation \in Seq(Entry)
    BY DEF Log
  <2>2. \A i \in DOMAIN l.speculation : l.speculation[i] \in Entry
    BY <2>1
  <2>3. \A i \in DOMAIN l.speculation : l.speculation[i].id \in Uid
    BY <2>2 DEF Entry
  <2>4. ids \in Seq(Uid) /\ Len(ids) = Len(l.speculation)
    BY <2>1, <2>3
  <2>5. Pending(l) = ids \o l.rebasing
    BY DEF Pending
  <2> QED
    BY <2>4, <2>5
<1>2. l.rebasing \in Seq(Uid) /\ l.speculation \in Seq(Entry)
  BY DEF Log
<1>3. /\ ids \o l.rebasing \in Seq(Uid)
      /\ Len(ids \o l.rebasing) = Len(ids) + Len(l.rebasing)
      /\ \A i \in DOMAIN ids : (ids \o l.rebasing)[i] = ids[i]
      /\ \A i \in DOMAIN l.rebasing : (ids \o l.rebasing)[Len(ids) + i] = l.rebasing[i]
  BY <1>2, ConcatFacts
<1>4. DOMAIN ids = DOMAIN l.speculation
  BY <1>1, <1>2
<1> QED
  BY <1>1, <1>3, <1>4

LEMMA RemoteFacts ==
  ASSUME NEW l \in Log, NEW id \in Uid
  PROVE  /\ Remote(l, id) \in Log
         /\ Remote(l, id).committed = Append(l.committed, id)
         /\ Remote(l, id).version = id
         /\ Remote(l, id).speculation = <<>>
         /\ Remote(l, id).rebasing = Pending(l)
<1>1. Append(l.committed, id) \in Seq(Uid)
  BY DEF Log
<1>2. <<>> \in Seq(Entry)
  OBVIOUS
<1> QED
  BY <1>1, <1>2, PendingFacts DEF Remote, Log

LEMMA AckFacts ==
  ASSUME NEW l \in Log, l.speculation # <<>>
  PROVE  /\ Ack(l) \in Log
         /\ Ack(l).committed = l.speculation[1].after
         /\ Ack(l).version = l.speculation[1].id
         /\ Ack(l).speculation = Tail(l.speculation)
         /\ Ack(l).rebasing = l.rebasing
<1>1. l.speculation \in Seq(Entry)
  BY DEF Log
<1>2. Head(l.speculation) = l.speculation[1] /\ Head(l.speculation) \in Entry
  BY <1>1, TailFacts
<1>3. Tail(l.speculation) \in Seq(Entry)
  BY <1>1, TailFacts
<1> QED
  BY <1>2, <1>3 DEF Ack, Log, Entry

-----------------------------------------------------------------------------
\* The host applies x: t becomes Append(t, x), x the new version, and the
\* feed of a subscriber grows by x.

LEMMA AppendedText ==
  ASSUME NEW t \in Seq(Uid), NEW x \in Uid
  PROVE  /\ Append(t, x) \in Seq(Uid)
         /\ Len(Append(t, x)) = Len(t) + 1
         /\ DOMAIN Append(t, x) = 1..(Len(t) + 1)
         /\ \A i \in DOMAIN t : Append(t, x)[i] = t[i]
         /\ Append(t, x)[Len(t) + 1] = x
         /\ Name(Append(t, x)) = x
  BY AppendFacts DEF Name

\* The version a client is at that has heard all of its feed.
FeedEnd(ver, f) == IF f = <<>> THEN ver ELSE f[Len(f)].id

\* The host is at the version the client's feed ends in.
LEMMA VersionOfFeed ==
  ASSUME NEW c, NEW t \in Seq(Uid), NEW com \in Seq(Uid), NEW ver, NEW f \in Seq(Applied),
         FeedOK(c, t, com, ver, f), ver = Name(com)
  PROVE  Name(t) = FeedEnd(ver, f)
<1>1. /\ Len(t) = Len(com) + Len(f)
      /\ \A i \in DOMAIN com : t[i] = com[i]
      /\ \A i \in DOMAIN f : t[Len(com) + i] = f[i].id
  BY DEF FeedOK
<1>2. CASE f = <<>>
  <2>1. Len(t) = Len(com)
    BY <1>1, <1>2
  <2>2. t = <<>> <=> com = <<>>
    BY <2>1
  <2>3. t # <<>> => t[Len(t)] = com[Len(com)]
    BY <1>1, <2>1
  <2> QED
    BY <1>2, <2>2, <2>3 DEF Name, FeedEnd
<1>3. CASE f # <<>>
  <2>1. Len(f) \in DOMAIN f /\ t # <<>>
    BY <1>1, <1>3
  <2>2. t[Len(t)] = f[Len(f)].id
    BY <1>1, <2>1
  <2> QED
    BY <1>3, <2>1, <2>2 DEF Name, FeedEnd
<1> QED
  BY <1>2, <1>3

LEMMA FeedGrows ==
  ASSUME NEW c, NEW t \in Seq(Uid), NEW v \in Uid, NEW com \in Seq(Uid), NEW ver, NEW f \in Seq(Applied),
         NEW x \in Uid, FeedOK(c, t, com, ver, f),
         v = FeedEnd(ver, f),
         Author(x) = c => \A i \in DOMAIN f : Author(f[i].id) = c
  PROVE  FeedOK(c, Append(t, x), com, ver, Append(f, [id |-> x, base |-> v]))
<1> DEFINE e == [id |-> x, base |-> v]
<1>1. e \in Applied /\ e.id = x /\ e.base = v
  BY DEF Applied
<1> HIDE DEF e
<1>2. PICK g \in Seq(Applied) :
        /\ g = Append(f, e) /\ Len(g) = Len(f) + 1 /\ DOMAIN g = 1..(Len(f) + 1)
        /\ g[Len(f) + 1] = e /\ \A i \in DOMAIN f : g[i] = f[i]
  <2>1. /\ Append(f, e) \in Seq(Applied)
        /\ Len(Append(f, e)) = Len(f) + 1 /\ DOMAIN Append(f, e) = 1..(Len(f) + 1)
        /\ Append(f, e)[Len(f) + 1] = e /\ \A i \in DOMAIN f : Append(f, e)[i] = f[i]
    BY <1>1, AppendFacts
  <2> QED
    BY <2>1, Zenon
<1>3. PICK u \in Seq(Uid) :
        /\ u = Append(t, x) /\ Len(u) = Len(t) + 1
        /\ u[Len(t) + 1] = x /\ \A i \in DOMAIN t : u[i] = t[i]
  <2>1. /\ Append(t, x) \in Seq(Uid) /\ Len(Append(t, x)) = Len(t) + 1
        /\ Append(t, x)[Len(t) + 1] = x /\ \A i \in DOMAIN t : Append(t, x)[i] = t[i]
    BY AppendFacts
  <2> QED
    BY <2>1, Zenon
<1>4. /\ Len(t) = Len(com) + Len(f)
      /\ \A i \in DOMAIN com : t[i] = com[i]
      /\ \A i \in DOMAIN f : t[Len(com) + i] = f[i].id
      /\ \A i \in DOMAIN f : f[i].base = IF i = 1 THEN ver ELSE f[i - 1].id
      /\ \A i, j \in DOMAIN f : i < j /\ Author(f[j].id) = c => Author(f[i].id) = c
  BY DEF FeedOK
<1>5. Len(u) = Len(com) + Len(g)
  BY <1>2, <1>3, <1>4
<1>6. \A i \in DOMAIN com : u[i] = com[i]
  BY <1>3, <1>4
<1>7. \A i \in DOMAIN g : u[Len(com) + i] = g[i].id
  <2>1. ASSUME NEW i \in DOMAIN f PROVE u[Len(com) + i] = g[i].id
    <3>1. Len(com) + i \in DOMAIN t
      BY <1>4
    <3> QED
      BY <1>2, <1>3, <1>4, <3>1
  <2>2. u[Len(com) + (Len(f) + 1)] = g[Len(f) + 1].id
    <3>1. Len(com) + (Len(f) + 1) = Len(t) + 1
      BY <1>4
    <3> QED
      BY <1>1, <1>2, <1>3, <3>1
  <2>3. \A i \in DOMAIN g : i \in DOMAIN f \/ i = Len(f) + 1
    BY <1>2
  <2> QED
    BY <2>1, <2>2, <2>3, Zenon
<1>8. \A i \in DOMAIN g : g[i].base = IF i = 1 THEN ver ELSE g[i - 1].id
  <2>1. ASSUME NEW i \in DOMAIN f PROVE g[i].base = IF i = 1 THEN ver ELSE g[i - 1].id
    <3>1. i \in 1..Len(f) /\ g[i] = f[i] /\ (i # 1 => i - 1 \in DOMAIN f)
      BY <1>2
    <3>2. i # 1 => g[i - 1] = f[i - 1]
      BY <1>2, <3>1
    <3> QED
      BY <1>4, <3>1, <3>2
  <2>2. g[Len(f) + 1].base = IF Len(f) + 1 = 1 THEN ver ELSE g[Len(f)].id
    <3>1. f # <<>> => Len(f) \in DOMAIN f
      OBVIOUS
    <3>2. f # <<>> => g[Len(f)] = f[Len(f)]
      BY <1>2, <3>1
    <3>3. f = <<>> <=> Len(f) + 1 = 1
      OBVIOUS
    <3> QED
      BY <1>1, <1>2, <3>2, <3>3 DEF FeedEnd
  <2> QED
    BY <1>2, <2>1, <2>2
<1>9. \A i, j \in DOMAIN g : i < j /\ Author(g[j].id) = c => Author(g[i].id) = c
  <2>1. \A i, j \in DOMAIN f : i < j /\ Author(g[j].id) = c => Author(g[i].id) = c
    BY <1>2, <1>4
  <2>2. \A i \in DOMAIN f : Author(g[Len(f) + 1].id) = c => Author(g[i].id) = c
    BY <1>1, <1>2
  <2>3. \A i, j \in DOMAIN g : i < j => i \in DOMAIN f /\ (j \in DOMAIN f \/ j = Len(f) + 1)
    BY <1>2
  <2> QED
    BY <2>1, <2>2, <2>3
<1> QED
  BY <1>2, <1>3, <1>5, <1>6, <1>7, <1>8, <1>9 DEF FeedOK, e

LEMMA EchoGrows ==
  ASSUME NEW c, NEW f \in Seq(Applied), NEW spec \in Seq(Entry), NEW x \in Uid, NEW v \in Uid,
         EchoOK(c, f, spec),
         Author(x) = c => Len(f) + 1 \in DOMAIN spec /\ spec[Len(f) + 1].id = x
  PROVE  EchoOK(c, Append(f, [id |-> x, base |-> v]), spec)
<1> DEFINE e == [id |-> x, base |-> v]
<1>1. e \in Applied /\ e.id = x /\ e.base = v
  BY DEF Applied
<1> HIDE DEF e
<1>2. PICK g \in Seq(Applied) :
        /\ g = Append(f, e) /\ Len(g) = Len(f) + 1 /\ DOMAIN g = 1..(Len(f) + 1)
        /\ g[Len(f) + 1] = e /\ \A i \in DOMAIN f : g[i] = f[i]
  <2>1. /\ Append(f, e) \in Seq(Applied)
        /\ Len(Append(f, e)) = Len(f) + 1 /\ DOMAIN Append(f, e) = 1..(Len(f) + 1)
        /\ Append(f, e)[Len(f) + 1] = e /\ \A i \in DOMAIN f : Append(f, e)[i] = f[i]
    BY <1>1, AppendFacts
  <2> QED
    BY <2>1, Zenon
<1>3. \A i \in DOMAIN g : Author(g[i].id) = c => i \in DOMAIN spec /\ spec[i].id = g[i].id
  BY <1>1, <1>2 DEF EchoOK
<1> QED
  BY <1>2, <1>3 DEF EchoOK, e

\* What was built on everything the host has now was built on all it had.
LEMMA ExtendsLess ==
  ASSUME NEW t \in Seq(Uid), NEW x \in Uid, NEW b \in Seq(Uid), Extends(b, Append(t, x))
  PROVE  Extends(b, t)
  BY AppendedText DEF Extends

LEMMA SentSurvives ==
  ASSUME NEW c, NEW t \in Seq(Uid), NEW v, NEW n, NEW com, NEW spec, NEW id, NEW base,
         NEW b \in Seq(Uid), NEW x \in Uid,
         SentOK(c, t, v, n, com, spec, id, base, b),
         base # x \/ Extends(b, Append(t, x))
  PROVE  SentOK(c, Append(t, x), x, n, com, spec, id, base, b)
  BY ExtendsLess DEF SentOK

LEMMA ChainSurvives ==
  ASSUME NEW t \in Seq(Uid), NEW x \in Uid, NEW w \in Seq(Dispatch), ChainOK(t, w)
  PROVE  ChainOK(Append(t, x), w)
<1>1. \A i \in DOMAIN w : w[i].before \in Seq(Uid)
  <2>1. \A i \in DOMAIN w : w[i] \in Dispatch
    OBVIOUS
  <2> QED
    BY <2>1 DEF Dispatch
<1>2. \A i \in DOMAIN w : Extends(w[i].before, Append(t, x)) => Extends(w[i].before, t)
  BY <1>1, ExtendsLess
<1> QED
  BY <1>2, Zenon DEF ChainOK

\* No dispatch on its way names an action somebody else is about to make.
LEMMA BaseIsOld ==
  ASSUME NEW c, NEW t \in Seq(Uid), NEW v, NEW n, NEW com \in Seq(Uid), NEW spec, NEW id, NEW base,
         NEW b \in Seq(Uid), NEW x \in Uid,
         SentOK(c, t, v, n, com, spec, id, base, b),
         \A i \in DOMAIN com : Holds(t, com[i]),
         x # Origin, Author(x) # c, ~Holds(t, x)
  PROVE  base # x
<1>1. CASE b = <<>>
  BY <1>1 DEF SentOK, Name
<1>2. CASE b # <<>>
  <2>1. Len(b) \in DOMAIN b
    BY <1>2
  <2>2. base = b[Len(b)]
    BY <1>2 DEF SentOK, Name
  <2>3. CASE Own(c, n, b[Len(b)])
    BY <2>2, <2>3 DEF Own
  <2>4. CASE Holds(com, b[Len(b)])
    BY <2>2, <2>4 DEF Holds
  <2> QED
    BY <2>1, <2>3, <2>4 DEF SentOK
<1> QED
  BY <1>1, <1>2

\* A dispatch that may still apply and is at the current version was built on
\* exactly the text the host has.
LEMMA AcceptedIsCurrent ==
  ASSUME NEW t \in Seq(Uid), NEW b \in Seq(Uid), Extends(b, t), Name(b) = Name(t), Distinct(b),
         \A i \in DOMAIN b : b[i] # Origin
  PROVE  Len(b) = Len(t) /\ b = t
<1>1. CASE t = <<>>
  BY <1>1 DEF Name, Extends
<1>2. CASE t # <<>>
  <2>1. Len(t) \in DOMAIN t /\ b # <<>> /\ Len(t) \in DOMAIN b /\ Len(b) \in DOMAIN b
    BY <1>2 DEF Extends
  <2>2. b[Len(b)] = b[Len(t)]
    BY <1>2, <2>1 DEF Name, Extends
  <2>3. Len(b) = Len(t)
    BY <2>1, <2>2 DEF Distinct
  <2> QED
    BY <2>3 DEF Extends
<1> QED
  BY <1>1, <1>2

\* What was chained on the dispatch that has just been applied still may apply.
LEMMA NextInLine ==
  ASSUME NEW t \in Seq(Uid), NEW x \in Uid, NEW b \in Seq(Uid),
         Name(b) = x, Len(b) = Len(t) + 1, \A k \in DOMAIN t : b[k] = t[k]
  PROVE  Extends(b, Append(t, x))
<1>1. b # <<>> /\ b[Len(t) + 1] = x
  BY DEF Name
<1> QED
  BY <1>1, AppendedText DEF Extends

-----------------------------------------------------------------------------
\* The client pushes x on what it shows: the speculation grows by an entry and
\* the wire by a dispatch.

\* What a client shows, and the version it is at.
Shown(com, spec) == IF spec = <<>> THEN com ELSE spec[Len(spec)].after
TipOf(ver, spec) == IF spec = <<>> THEN ver ELSE spec[Len(spec)].id

\* D is what a client shows: the committed text and its own line behind it.
Spells(D, com, spec) ==
  /\ Len(D) = Len(com) + Len(spec)
  /\ \A m \in 1..Len(com) + Len(spec) : D[m] = LineAt(com, spec, m)

LEMMA LineFacts ==
  ASSUME NEW com \in Seq(Uid), NEW ver, NEW spec \in Seq(Entry), NEW D \in Seq(Uid),
         LogOK(com, ver, spec),
         D = Shown(com, spec)
  PROVE  /\ Spells(D, com, spec)
         /\ Name(D) = TipOf(ver, spec)
<1>1. CASE spec = <<>>
  BY <1>1 DEF LineAt, LogOK, Spells, Shown, TipOf
<1>2. CASE spec # <<>>
  <2>1. Len(spec) \in DOMAIN spec
    BY <1>2
  <2>2. /\ Len(D) = Len(com) + Len(spec)
        /\ \A m \in 1..Len(com) + Len(spec) : D[m] = LineAt(com, spec, m)
    BY <1>2, <2>1 DEF LogOK, Shown
  <2>3. D # <<>> /\ Len(D) \in 1..Len(com) + Len(spec)
    BY <2>1, <2>2
  <2>4. LineAt(com, spec, Len(com) + Len(spec)) = spec[Len(spec)].id
    BY <2>1 DEF LineAt
  <2> QED
    BY <1>2, <2>2, <2>3, <2>4 DEF Name, Spells, TipOf
<1> QED
  BY <1>1, <1>2

\* A line that grows keeps what it was.
LEMMA LineGrows ==
  ASSUME NEW com \in Seq(Uid), NEW spec \in Seq(Entry), NEW e \in Entry
  PROVE  /\ \A m \in 1..Len(com) + Len(spec) :
              LineAt(com, Append(spec, e), m) = LineAt(com, spec, m)
         /\ LineAt(com, Append(spec, e), Len(com) + Len(spec) + 1) = e.id
<1>1. /\ \A i \in DOMAIN spec : Append(spec, e)[i] = spec[i]
      /\ Append(spec, e)[Len(spec) + 1] = e
  BY AppendFacts
<1>2. ASSUME NEW m \in 1..Len(com) + Len(spec)
      PROVE  LineAt(com, Append(spec, e), m) = LineAt(com, spec, m)
  <2>1. m <= Len(com) \/ m - Len(com) \in DOMAIN spec
    OBVIOUS
  <2> QED
    BY <1>1, <2>1 DEF LineAt
<1>3. /\ ~(Len(com) + Len(spec) + 1 <= Len(com))
      /\ Len(com) + Len(spec) + 1 - Len(com) = Len(spec) + 1
  OBVIOUS
<1> QED
  BY <1>1, <1>2, <1>3 DEF LineAt

LEMMA PushLog ==
  ASSUME NEW com \in Seq(Uid), NEW ver, NEW spec \in Seq(Entry), NEW D \in Seq(Uid), NEW x \in Uid,
         LogOK(com, ver, spec), Spells(D, com, spec)
  PROVE  LogOK(com, ver, Append(spec, [id |-> x, after |-> Append(D, x)]))
<1> DEFINE e == [id |-> x, after |-> Append(D, x)]
<1>1. /\ e \in Entry /\ e.id = x /\ e.after = Append(D, x)
  BY AppendFacts DEF Entry
<1> HIDE DEF e
<1>2. PICK u \in Seq(Entry) :
        /\ u = Append(spec, e) /\ DOMAIN u = 1..(Len(spec) + 1)
        /\ u[Len(spec) + 1] = e /\ \A i \in DOMAIN spec : u[i] = spec[i]
  <2>1. /\ Append(spec, e) \in Seq(Entry) /\ DOMAIN Append(spec, e) = 1..(Len(spec) + 1)
        /\ Append(spec, e)[Len(spec) + 1] = e
        /\ \A i \in DOMAIN spec : Append(spec, e)[i] = spec[i]
    BY <1>1, AppendFacts
  <2> QED
    BY <2>1, Zenon
<1>3. /\ \A m \in 1..Len(com) + Len(spec) : LineAt(com, u, m) = LineAt(com, spec, m)
      /\ LineAt(com, u, Len(com) + Len(spec) + 1) = x
  BY <1>1, <1>2, LineGrows
<1>4. ASSUME NEW i \in DOMAIN spec
      PROVE  /\ Len(u[i].after) = Len(com) + i
             /\ \A m \in 1..Len(com) + i : u[i].after[m] = LineAt(com, u, m)
  <2>1. u[i] = spec[i] /\ i \in 1..Len(spec)
    BY <1>2
  <2>2. \A m \in 1..Len(com) + i : m \in 1..Len(com) + Len(spec)
    BY <2>1
  <2> QED
    BY <1>3, <2>1, <2>2 DEF LogOK
<1>5. /\ Len(u[Len(spec) + 1].after) = Len(com) + (Len(spec) + 1)
      /\ \A m \in 1..Len(com) + (Len(spec) + 1) : u[Len(spec) + 1].after[m] = LineAt(com, u, m)
  <2>1. /\ Len(Append(D, x)) = Len(D) + 1 /\ \A m \in DOMAIN D : Append(D, x)[m] = D[m]
        /\ Append(D, x)[Len(D) + 1] = x
    BY AppendFacts
  <2>2. \A m \in 1..Len(com) + (Len(spec) + 1) :
          m \in 1..Len(com) + Len(spec) \/ m = Len(com) + Len(spec) + 1
    <3>1. Len(com) \in Nat /\ Len(spec) \in Nat
      OBVIOUS
    <3> QED
      BY <3>1, Z3
  <2>3. /\ DOMAIN D = 1..Len(com) + Len(spec) /\ Len(D) = Len(com) + Len(spec)
        /\ \A m \in 1..Len(com) + Len(spec) : D[m] = LineAt(com, spec, m)
    BY DEF Spells
  <2>4. u[Len(spec) + 1].after = Append(D, x)
    BY <1>1, <1>2
  <2> QED
    BY <1>3, <2>1, <2>2, <2>3, <2>4
<1>6. \A i \in DOMAIN u : i \in DOMAIN spec \/ i = Len(spec) + 1
  BY <1>2
<1>7. LogOK(com, ver, u)
  <2>1. ver = Name(com)
    BY DEF LogOK
  <2> QED
    BY <1>4, <1>5, <1>6, <2>1 DEF LogOK
<1> QED
  BY <1>2, <1>7 DEF e

\* The names of a grown speculation.
LEMMA PushNames ==
  ASSUME NEW spec \in Seq(Entry), NEW e \in Entry
  PROVE  \E u \in Seq(Entry) :
           /\ u = Append(spec, e) /\ DOMAIN u = 1..(Len(spec) + 1)
           /\ \A i \in DOMAIN spec : i \in DOMAIN u /\ u[i] = spec[i]
           /\ Len(spec) + 1 \in DOMAIN u /\ u[Len(spec) + 1] = e
           /\ \A i \in DOMAIN u : i \in DOMAIN spec \/ i = Len(spec) + 1
<1>1. /\ Append(spec, e) \in Seq(Entry) /\ DOMAIN Append(spec, e) = 1..(Len(spec) + 1)
      /\ \A i \in DOMAIN spec : i \in DOMAIN Append(spec, e) /\ Append(spec, e)[i] = spec[i]
      /\ Len(spec) + 1 \in DOMAIN Append(spec, e) /\ Append(spec, e)[Len(spec) + 1] = e
      /\ \A i \in DOMAIN Append(spec, e) : i \in DOMAIN spec \/ i = Len(spec) + 1
  BY AppendFacts
<1> QED
  BY <1>1, Zenon

LEMMA OwnMore ==
  ASSUME NEW c, NEW n \in Nat, NEW p \in Nat, n <= p, NEW id, Own(c, n, id)
  PROVE  Own(c, p, id)
  BY DEF Own

LEMMA PushPending ==
  ASSUME NEW c, NEW n \in Nat, NEW p \in Nat, n <= p, NEW com \in Seq(Uid), NEW spec \in Seq(Entry),
         NEW reb \in Seq(Uid), NEW rest \in Seq(Uid), NEW k \in Nat, NEW e \in Entry,
         PendingOK(c, n, com, spec, reb),
         Own(c, p, e.id), ~Holds(com, e.id),
         \A i \in DOMAIN spec : spec[i].id # e.id,
         \A i \in DOMAIN rest : i + k \in DOMAIN reb /\ rest[i] = reb[i + k] /\ rest[i] # e.id
  PROVE  PendingOK(c, p, com, Append(spec, e), rest)
<1>1. PICK u \in Seq(Entry) :
        /\ u = Append(spec, e)
        /\ \A i \in DOMAIN spec : i \in DOMAIN u /\ u[i] = spec[i]
        /\ Len(spec) + 1 \in DOMAIN u /\ u[Len(spec) + 1] = e
        /\ \A i \in DOMAIN u : i \in DOMAIN spec \/ i = Len(spec) + 1
  BY PushNames
<1>2. \A i \in DOMAIN u : Own(c, p, u[i].id) /\ ~Holds(com, u[i].id)
  BY <1>1, OwnMore DEF PendingOK
<1>3. \A i \in DOMAIN rest : Own(c, p, rest[i]) /\ ~Holds(com, rest[i])
  BY OwnMore DEF PendingOK
<1>4. \A i, j \in DOMAIN u : i # j => u[i].id # u[j].id
  BY <1>1 DEF PendingOK
<1>5. \A i, j \in DOMAIN rest : i # j => rest[i] # rest[j]
  <2>1. \A i, j \in DOMAIN rest : i # j => i + k # j + k
    OBVIOUS
  <2> QED
    BY <2>1 DEF PendingOK
<1>6. \A i \in DOMAIN u : \A j \in DOMAIN rest : u[i].id # rest[j]
  BY <1>1 DEF PendingOK
<1>7. PendingOK(c, p, com, u, rest)
  BY <1>2, <1>3, <1>4, <1>5, <1>6 DEF PendingOK
<1> QED
  BY <1>1, <1>7

LEMMA PushEcho ==
  ASSUME NEW c, NEW f, NEW spec \in Seq(Entry), NEW e \in Entry, EchoOK(c, f, spec)
  PROVE  EchoOK(c, f, Append(spec, e))
<1>1. PICK u \in Seq(Entry) :
        u = Append(spec, e) /\ \A i \in DOMAIN spec : i \in DOMAIN u /\ u[i] = spec[i]
  BY PushNames
<1>2. EchoOK(c, f, u)
  BY <1>1 DEF EchoOK
<1> QED
  BY <1>1, <1>2

\* The dispatches under way do not mind.
LEMMA PushSent ==
  ASSUME NEW c, NEW t, NEW v, NEW n \in Nat, NEW p \in Nat, n <= p, NEW com \in Seq(Uid),
         NEW spec \in Seq(Entry), NEW e \in Entry, NEW id, NEW base, NEW b \in Seq(Uid),
         SentOK(c, t, v, n, com, spec, id, base, b)
  PROVE  SentOK(c, t, v, p, com, Append(spec, e), id, base, b)
<1>1. PICK u \in Seq(Entry) :
        u = Append(spec, e) /\ \A i \in DOMAIN spec : i \in DOMAIN u /\ u[i] = spec[i]
  BY PushNames
<1>2. Own(c, p, id) /\ \A k \in DOMAIN b : Own(c, n, b[k]) => Own(c, p, b[k])
  BY OwnMore DEF SentOK
<1>3. ASSUME Extends(b, t)
      PROVE  \E k \in DOMAIN u : /\ u[k].id = id
                                 /\ Len(com) + k = Len(b) + 1
                                 /\ \A m \in DOMAIN b : b[m] = LineAt(com, u, m)
  <2>1. PICK k \in DOMAIN spec : /\ spec[k].id = id
                                 /\ Len(com) + k = Len(b) + 1
                                 /\ \A m \in DOMAIN b : b[m] = LineAt(com, spec, m)
    BY <1>3 DEF SentOK
  <2>2. \A m \in DOMAIN b : m \in 1..Len(com) + Len(spec)
    BY <2>1
  <2>3. \A m \in DOMAIN b : b[m] = LineAt(com, u, m)
    BY <1>1, <2>1, <2>2, LineGrows
  <2> QED
    BY <1>1, <2>1, <2>3
<1>4. SentOK(c, t, v, p, com, u, id, base, b)
  BY <1>2, <1>3 DEF SentOK
<1> QED
  BY <1>1, <1>4

\* An element of what the client shows is committed, or an entry of its own.
LEMMA LineElements ==
  ASSUME NEW com \in Seq(Uid), NEW spec \in Seq(Entry), NEW D \in Seq(Uid), Spells(D, com, spec),
         NEW m \in DOMAIN D
  PROVE  \/ m \in DOMAIN com /\ D[m] = com[m]
         \/ m - Len(com) \in DOMAIN spec /\ D[m] = spec[m - Len(com)].id
<1>1. m \in 1..Len(com) + Len(spec) /\ D[m] = LineAt(com, spec, m)
  BY DEF Spells
<1>2. CASE m <= Len(com)
  BY <1>1, <1>2 DEF LineAt
<1>3. CASE ~(m <= Len(com))
  <2>1. m - Len(com) \in DOMAIN spec
    BY <1>1, <1>3
  <2> QED
    BY <1>1, <1>3, <2>1 DEF LineAt
<1> QED
  BY <1>2, <1>3

\* A dispatch made behind the host's back is not at the host's version.
LEMMA StaleTip ==
  ASSUME NEW c, c # Host, NEW t \in Seq(Uid), NEW v, NEW n, NEW com \in Seq(Uid), NEW ver,
         NEW f \in Seq(Applied), NEW spec \in Seq(Entry), NEW reb, NEW D \in Seq(Uid),
         v = Name(t), Distinct(t), \A i \in DOMAIN t : t[i] # Origin,
         FeedOK(c, t, com, ver, f), PendingOK(c, n, com, spec, reb), EchoOK(c, f, spec),
         Spells(D, com, spec), ~Extends(D, t)
  PROVE  Name(D) # v
<1>1. /\ Len(t) = Len(com) + Len(f)
      /\ \A i \in DOMAIN com : t[i] = com[i]
      /\ \A i \in DOMAIN f : t[Len(com) + i] = f[i].id
      /\ \A i, j \in DOMAIN f : i < j /\ Author(f[j].id) = c => Author(f[i].id) = c
  BY DEF FeedOK
<1>2. PICK i \in DOMAIN f : Author(f[i].id) # c
  <2> SUFFICES ASSUME \A i \in DOMAIN f : Author(f[i].id) = c PROVE FALSE
    OBVIOUS
  <2>1. \A i \in DOMAIN f : i \in DOMAIN spec /\ spec[i].id = f[i].id
    BY DEF EchoOK
  <2>2. Len(f) <= Len(spec)
    <3>1. f # <<>> => Len(f) \in DOMAIN f
      OBVIOUS
    <3>2. f = <<>> => Len(f) = 0
      OBVIOUS
    <3> QED
      BY <2>1, <3>1, <3>2
  <2>3. Len(t) <= Len(D)
    BY <1>1, <2>2 DEF Spells
  <2>4. ASSUME NEW m \in DOMAIN t PROVE D[m] = t[m]
    <3>1. CASE m \in DOMAIN com
      <4>1. m \in 1..Len(com) + Len(spec) /\ m <= Len(com)
        BY <3>1
      <4> QED
        BY <1>1, <3>1, <4>1 DEF Spells, LineAt
    <3>2. CASE m - Len(com) \in DOMAIN f
      <4>1. m \in 1..Len(com) + Len(spec) /\ ~(m <= Len(com)) /\ Len(com) + (m - Len(com)) = m
        BY <2>2, <3>2
      <4>2. D[m] = spec[m - Len(com)].id
        BY <4>1 DEF Spells, LineAt
      <4> QED
        BY <1>1, <2>1, <3>2, <4>1, <4>2
    <3>3. m \in DOMAIN com \/ m - Len(com) \in DOMAIN f
      BY <1>1
    <3> QED
      BY <3>1, <3>2, <3>3
  <2> QED
    BY <2>3, <2>4 DEF Extends
<1>3. Len(f) \in DOMAIN f /\ Author(f[Len(f)].id) # c
  BY <1>1, <1>2
<1>4. t # <<>> /\ Len(t) \in DOMAIN t /\ Len(com) < Len(t) /\ v = t[Len(t)] /\ Author(v) # c
  BY <1>1, <1>3 DEF Name
<1>5. CASE D = <<>>
  BY <1>4, <1>5 DEF Name
<1>6. CASE D # <<>>
  <2>1. Len(D) \in DOMAIN D /\ Name(D) = D[Len(D)]
    BY <1>6 DEF Name
  <2>2. CASE Len(D) \in DOMAIN com /\ D[Len(D)] = com[Len(D)]
    <3>1. Len(D) \in DOMAIN t /\ Len(D) # Len(t)
      BY <1>4, <2>2
    <3> QED
      BY <1>1, <1>4, <2>1, <2>2, <3>1 DEF Distinct
  <2>3. CASE Len(D) - Len(com) \in DOMAIN spec /\ D[Len(D)] = spec[Len(D) - Len(com)].id
    BY <1>4, <2>1, <2>3 DEF PendingOK, Own
  <2> QED
    BY <2>1, <2>2, <2>3, LineElements
<1> QED
  BY <1>5, <1>6

LEMMA LineDistinct ==
  ASSUME NEW c, NEW n, NEW com \in Seq(Uid), NEW spec \in Seq(Entry), NEW reb, NEW D \in Seq(Uid),
         Distinct(com), PendingOK(c, n, com, spec, reb), Spells(D, com, spec)
  PROVE  Distinct(D)
<1> SUFFICES ASSUME NEW i \in DOMAIN D, NEW j \in DOMAIN D, i # j PROVE D[i] # D[j]
  BY DEF Distinct
<1>1. /\ \/ i \in DOMAIN com /\ D[i] = com[i]
         \/ i - Len(com) \in DOMAIN spec /\ D[i] = spec[i - Len(com)].id
      /\ \/ j \in DOMAIN com /\ D[j] = com[j]
         \/ j - Len(com) \in DOMAIN spec /\ D[j] = spec[j - Len(com)].id
  BY LineElements
<1>2. i - Len(com) # j - Len(com)
  OBVIOUS
<1> QED
  BY <1>1, <1>2 DEF Distinct, PendingOK, Holds

LEMMA NewSent ==
  ASSUME NEW c, c # Host, NEW t \in Seq(Uid), NEW v, NEW n \in Nat, NEW p \in Nat, n <= p,
         NEW com \in Seq(Uid), NEW ver, NEW f \in Seq(Applied), NEW spec \in Seq(Entry), NEW reb,
         NEW D \in Seq(Uid), NEW e \in Entry,
         v = Name(t), Distinct(t), \A i \in DOMAIN t : t[i] # Origin,
         \A i \in DOMAIN t : Author(t[i]) = c => Own(c, n, t[i]),
         FeedOK(c, t, com, ver, f), PendingOK(c, n, com, spec, reb), EchoOK(c, f, spec),
         Spells(D, com, spec),
         Own(c, p, e.id), ~Holds(com, e.id), \A i \in DOMAIN spec : spec[i].id # e.id
  PROVE  SentOK(c, t, v, p, com, Append(spec, e), e.id, Name(D), D)
<1>1. \A i \in DOMAIN com : i \in DOMAIN t /\ t[i] = com[i]
  BY DEF FeedOK
<1>2. Distinct(D)
  <2>1. Distinct(com)
    BY <1>1 DEF Distinct
  <2> QED
    BY <2>1, LineDistinct
<1>3. ASSUME NEW m \in DOMAIN D
      PROVE  /\ D[m] # e.id
             /\ Own(c, p, D[m]) \/ (Author(D[m]) # c /\ Holds(com, D[m]))
  <2>1. CASE m \in DOMAIN com /\ D[m] = com[m]
    BY <1>1, <2>1, OwnMore DEF Holds
  <2>2. CASE m - Len(com) \in DOMAIN spec /\ D[m] = spec[m - Len(com)].id
    BY <2>2, OwnMore DEF PendingOK
  <2> QED
    BY <2>1, <2>2, LineElements
<1>4. PICK u \in Seq(Entry) :
        /\ u = Append(spec, e) /\ Len(spec) + 1 \in DOMAIN u /\ u[Len(spec) + 1] = e
  BY PushNames
<1>5. \E k \in DOMAIN u : /\ u[k].id = e.id
                         /\ Len(com) + k = Len(D) + 1
                         /\ \A m \in DOMAIN D : D[m] = LineAt(com, u, m)
  <2>1. Len(com) + (Len(spec) + 1) = Len(D) + 1
    BY DEF Spells
  <2>2. \A m \in DOMAIN D : m \in 1..Len(com) + Len(spec)
    BY DEF Spells
  <2>3. \A m \in DOMAIN D : D[m] = LineAt(com, u, m)
    BY <1>4, <2>2, LineGrows DEF Spells
  <2> QED
    BY <1>4, <2>1, <2>3
<1>6. ~Extends(D, t) => Name(D) # v
  BY StaleTip
<1>7. SentOK(c, t, v, p, com, u, e.id, Name(D), D)
  BY <1>2, <1>3, <1>5, <1>6 DEF SentOK, Holds
<1> QED
  BY <1>4, <1>7

\* A dispatch appended to the wire is chained on the one it names.
LEMMA PushChain ==
  ASSUME NEW c, c # Host, NEW t \in Seq(Uid), NEW v, NEW n, NEW com \in Seq(Uid), NEW ver,
         NEW spec \in Seq(Entry), NEW reb, NEW D \in Seq(Uid), NEW w \in Seq(Dispatch), NEW d \in Dispatch,
         d.before = D, d.base = Name(D),
         PendingOK(c, n, com, spec, reb), Spells(D, com, spec),
         ver = Name(com), Name(D) = TipOf(ver, spec),
         \A i \in DOMAIN w : SentOK(c, t, v, n, com, spec, w[i].id, w[i].base, w[i].before),
         ChainOK(t, w)
  PROVE  ChainOK(t, Append(w, d))
<1>1. PICK u \in Seq(Dispatch) :
        /\ u = Append(w, d)
        /\ \A i \in DOMAIN w : i \in DOMAIN u /\ u[i] = w[i]
        /\ u[Len(w) + 1] = d
        /\ \A i \in DOMAIN u : i \in DOMAIN w \/ i = Len(w) + 1
  <2>1. /\ Append(w, d) \in Seq(Dispatch)
        /\ \A i \in DOMAIN w : i \in DOMAIN Append(w, d) /\ Append(w, d)[i] = w[i]
        /\ Append(w, d)[Len(w) + 1] = d
        /\ \A i \in DOMAIN Append(w, d) : i \in DOMAIN w \/ i = Len(w) + 1
    BY AppendFacts
  <2> QED
    BY <2>1, Zenon
<1>2. ASSUME NEW j \in DOMAIN w, NEW b \in Seq(Uid), b = w[j].before,
             w[j].id = Name(D), Extends(b, t)
      PROVE  Len(D) = Len(b) + 1 /\ \A k \in DOMAIN b : D[k] = b[k]
  <2>1. PICK k \in DOMAIN spec : /\ spec[k].id = w[j].id
                                 /\ Len(com) + k = Len(b) + 1
                                 /\ \A m \in DOMAIN b : b[m] = LineAt(com, spec, m)
    BY <1>2 DEF SentOK
  <2>2. spec # <<>> /\ Len(spec) \in DOMAIN spec
    BY <2>1
  <2>3. k = Len(spec)
    BY <1>2, <2>1, <2>2 DEF PendingOK, TipOf
  <2>4. Len(D) = Len(b) + 1
    BY <2>1, <2>3 DEF Spells
  <2>5. \A m \in DOMAIN b : m \in 1..Len(com) + Len(spec)
    BY <2>1, <2>3
  <2> QED
    BY <2>1, <2>4, <2>5 DEF Spells
<1>3. \A j \in DOMAIN w : w[j].before \in Seq(Uid)
  <2>1. \A j \in DOMAIN w : w[j] \in Dispatch
    OBVIOUS
  <2> QED
    BY <2>1 DEF Dispatch
<1>4. ASSUME NEW i \in DOMAIN u, NEW j \in DOMAIN u, j < i, u[j].id = u[i].base,
             Extends(u[j].before, t)
      PROVE  Follows(u[i], u[j])
  <2>1. j \in DOMAIN w
    BY <1>1, <1>4
  <2>2. CASE i \in DOMAIN w
    <3>1. u[i] = w[i] /\ u[j] = w[j]
      BY <1>1, <2>1, <2>2
    <3> QED
      BY <1>4, <2>1, <2>2, <3>1, Zenon DEF ChainOK
  <2>3. CASE i = Len(w) + 1
    <3>1. u[i] = d /\ u[j] = w[j]
      BY <1>1, <2>1, <2>3
    <3>2. w[j].id = Name(D) /\ Extends(w[j].before, t) /\ w[j].before \in Seq(Uid)
      BY <1>3, <1>4, <2>1, <3>1
    <3>3. Len(D) = Len(w[j].before) + 1 /\ \A k \in DOMAIN w[j].before : D[k] = w[j].before[k]
      BY <1>2, <2>1, <3>2
    <3> QED
      BY <3>1, <3>3 DEF Follows
  <2> QED
    BY <1>1, <2>2, <2>3
<1>5. ChainOK(t, u)
  BY <1>4 DEF ChainOK
<1> QED
  BY <1>1, <1>5

-----------------------------------------------------------------------------
\* An edit made in the middle of a rebase waits behind the others, and an
\* edit that collapses leaves only its number behind.

LEMMA PendingMore ==
  ASSUME NEW c, NEW n \in Nat, NEW p \in Nat, n <= p, NEW com, NEW spec, NEW reb,
         PendingOK(c, n, com, spec, reb)
  PROVE  PendingOK(c, p, com, spec, reb)
  BY OwnMore DEF PendingOK

LEMMA SentMore ==
  ASSUME NEW c, NEW t, NEW v, NEW n \in Nat, NEW p \in Nat, n <= p, NEW com, NEW spec,
         NEW id, NEW base, NEW b, SentOK(c, t, v, n, com, spec, id, base, b)
  PROVE  SentOK(c, t, v, p, com, spec, id, base, b)
<1>1. Own(c, p, id) /\ \A k \in DOMAIN b : Own(c, n, b[k]) => Own(c, p, b[k])
  BY OwnMore DEF SentOK
<1> QED
  BY <1>1, Zenon DEF SentOK

LEMMA QueuePending ==
  ASSUME NEW c, NEW n \in Nat, NEW p \in Nat, n <= p, NEW com, NEW spec,
         NEW reb \in Seq(Uid), NEW x \in Uid,
         PendingOK(c, n, com, spec, reb), Own(c, p, x), ~Own(c, n, x), ~Holds(com, x)
  PROVE  PendingOK(c, p, com, spec, Append(reb, x))
<1>1. PICK u \in Seq(Uid) :
        /\ u = Append(reb, x) /\ u[Len(reb) + 1] = x
        /\ \A i \in DOMAIN reb : i \in DOMAIN u /\ u[i] = reb[i]
        /\ \A i \in DOMAIN u : i \in DOMAIN reb \/ i = Len(reb) + 1
  <2>1. /\ Append(reb, x) \in Seq(Uid) /\ Append(reb, x)[Len(reb) + 1] = x
        /\ \A i \in DOMAIN reb : i \in DOMAIN Append(reb, x) /\ Append(reb, x)[i] = reb[i]
        /\ \A i \in DOMAIN Append(reb, x) : i \in DOMAIN reb \/ i = Len(reb) + 1
    BY AppendFacts
  <2> QED
    BY <2>1, Zenon
<1>2. /\ \A i \in DOMAIN spec : Own(c, p, spec[i].id) /\ ~Holds(com, spec[i].id) /\ spec[i].id # x
      /\ \A i \in DOMAIN reb : Own(c, p, reb[i]) /\ ~Holds(com, reb[i]) /\ reb[i] # x
  BY OwnMore DEF PendingOK
<1>3. \A i \in DOMAIN u : Own(c, p, u[i]) /\ ~Holds(com, u[i])
  BY <1>1, <1>2
<1>4. \A i, j \in DOMAIN u : i # j => u[i] # u[j]
  BY <1>1, <1>2 DEF PendingOK
<1>5. \A i \in DOMAIN spec : \A j \in DOMAIN u : spec[i].id # u[j]
  BY <1>1, <1>2 DEF PendingOK
<1>6. PendingOK(c, p, com, spec, u)
  BY <1>2, <1>3, <1>4, <1>5 DEF PendingOK
<1> QED
  BY <1>1, <1>6

\* A step that finds everything collapsed empties the queue.
LEMMA NothingLeft ==
  ASSUME NEW c, NEW n, NEW com, NEW spec, NEW reb, PendingOK(c, n, com, spec, reb)
  PROVE  PendingOK(c, n, com, spec, <<>>)
  BY DEF PendingOK

-----------------------------------------------------------------------------
\* The wire loses what it holds, from the front.

LEMMA ChainTail ==
  ASSUME NEW t, NEW w \in Seq(Dispatch), w # <<>>, ChainOK(t, w)
  PROVE  ChainOK(t, Tail(w))
<1>1. PICK u \in Seq(Dispatch) :
        u = Tail(w) /\ \A i \in DOMAIN u : i + 1 \in DOMAIN w /\ u[i] = w[i + 1]
  <2>1. Tail(w) \in Seq(Dispatch) /\ \A i \in DOMAIN Tail(w) : i + 1 \in DOMAIN w /\ Tail(w)[i] = w[i + 1]
    BY TailFacts
  <2> QED
    BY <2>1, Zenon
<1>2. ASSUME NEW i \in DOMAIN u, NEW j \in DOMAIN u, j < i, u[j].id = u[i].base,
             Extends(u[j].before, t)
      PROVE  Follows(u[i], u[j])
  <2>1. /\ i + 1 \in DOMAIN w /\ u[i] = w[i + 1] /\ j + 1 \in DOMAIN w /\ u[j] = w[j + 1]
        /\ j + 1 < i + 1
    BY <1>1, <1>2
  <2> QED
    BY <1>2, <2>1, Zenon DEF ChainOK
<1> QED
  BY <1>1, <1>2 DEF ChainOK

-----------------------------------------------------------------------------
\* The client folds in the head of its feed: com becomes new, the committed
\* text with the action of that head behind it.

LEMMA FeedFolds ==
  ASSUME NEW c, NEW t \in Seq(Uid), NEW com \in Seq(Uid), NEW ver, NEW f \in Seq(Applied),
         NEW new \in Seq(Uid), f # <<>>, FeedOK(c, t, com, ver, f),
         Len(new) = Len(com) + 1, \A i \in DOMAIN com : new[i] = com[i],
         new[Len(com) + 1] = f[1].id
  PROVE  FeedOK(c, t, new, f[1].id, Tail(f))
<1>1. PICK g \in Seq(Applied) :
        /\ g = Tail(f) /\ Len(g) = Len(f) - 1
        /\ \A i \in DOMAIN g : i \in Nat \ {0} /\ i + 1 \in DOMAIN f /\ g[i] = f[i + 1]
        /\ \A i \in DOMAIN g : i # 1 => i - 1 \in DOMAIN g /\ g[i - 1] = f[i]
  <2>1. /\ Tail(f) \in Seq(Applied) /\ Len(Tail(f)) = Len(f) - 1
        /\ \A i \in DOMAIN Tail(f) : i \in Nat \ {0} /\ i + 1 \in DOMAIN f /\ Tail(f)[i] = f[i + 1]
        /\ \A i \in DOMAIN Tail(f) : i # 1 => i - 1 \in DOMAIN Tail(f) /\ Tail(f)[i - 1] = f[i]
    BY TailFacts
  <2> QED
    BY <2>1, Zenon
<1>2. /\ Len(t) = Len(com) + Len(f)
      /\ \A i \in DOMAIN com : t[i] = com[i]
      /\ \A i \in DOMAIN f : t[Len(com) + i] = f[i].id
      /\ \A i \in DOMAIN f : f[i].base = IF i = 1 THEN ver ELSE f[i - 1].id
      /\ \A i, j \in DOMAIN f : i < j /\ Author(f[j].id) = c => Author(f[i].id) = c
  BY DEF FeedOK
<1>3. Len(t) = Len(new) + Len(g)
  BY <1>1, <1>2
<1>4. \A i \in DOMAIN new : t[i] = new[i]
  <2>1. \A i \in DOMAIN new : i \in DOMAIN com \/ i = Len(com) + 1
    OBVIOUS
  <2>2. 1 \in DOMAIN f
    OBVIOUS
  <2> QED
    BY <1>2, <2>1, <2>2
<1>5. \A i \in DOMAIN g : t[Len(new) + i] = g[i].id
  <2>1. \A i \in DOMAIN g : Len(new) + i = Len(com) + (i + 1)
    BY <1>1
  <2> QED
    BY <1>1, <1>2, <2>1
<1>6. \A i \in DOMAIN g : g[i].base = IF i = 1 THEN f[1].id ELSE g[i - 1].id
  <2>1. \A i \in DOMAIN g : i + 1 # 1 /\ i + 1 - 1 = i
    BY <1>1
  <2> QED
    BY <1>1, <1>2, <2>1
<1>7. \A i, j \in DOMAIN g : i < j /\ Author(g[j].id) = c => Author(g[i].id) = c
  <2>1. \A i, j \in DOMAIN g : i < j => i + 1 < j + 1
    BY <1>1
  <2> QED
    BY <1>1, <1>2, <2>1
<1>8. FeedOK(c, t, new, f[1].id, g)
  BY <1>3, <1>4, <1>5, <1>6, <1>7 DEF FeedOK
<1> QED
  BY <1>1, <1>8

\* When the head is its own echo, the first entry of the speculation becomes
\* part of what is committed; what the client shows is the same.

LEMMA AckLine ==
  ASSUME NEW com \in Seq(Uid), NEW ver, NEW spec \in Seq(Entry), NEW new \in Seq(Uid),
         spec # <<>>, LogOK(com, ver, spec), new = spec[1].after
  PROVE  /\ Len(new) = Len(com) + 1
         /\ \A i \in DOMAIN com : new[i] = com[i]
         /\ new[Len(com) + 1] = spec[1].id
         /\ \A m \in 1..Len(com) + Len(spec) : LineAt(new, Tail(spec), m) = LineAt(com, spec, m)
<1>1. 1 \in DOMAIN spec
  OBVIOUS
<1>2. /\ Len(new) = Len(com) + 1
      /\ \A m \in 1..Len(com) + 1 : new[m] = LineAt(com, spec, m)
  BY <1>1 DEF LogOK
<1>3. \A i \in DOMAIN com : i \in 1..Len(com) + 1 /\ LineAt(com, spec, i) = com[i]
  BY DEF LineAt
<1>4. LineAt(com, spec, Len(com) + 1) = spec[1].id
  <2>1. ~(Len(com) + 1 <= Len(com)) /\ Len(com) + 1 - Len(com) = 1
    OBVIOUS
  <2> QED
    BY <2>1 DEF LineAt
<1>5. ASSUME NEW m \in 1..Len(com) + Len(spec)
      PROVE  LineAt(new, Tail(spec), m) = LineAt(com, spec, m)
  <2>1. CASE m \in 1..Len(com) + 1
    BY <1>2, <2>1 DEF LineAt
  <2>2. CASE m \notin 1..Len(com) + 1
    <3>1. /\ ~(m <= Len(com)) /\ ~(m <= Len(new))
          /\ m - Len(new) + 1 = m - Len(com) /\ m - Len(new) \in 1..(Len(spec) - 1)
      BY <1>2, <2>2
    <3>2. Tail(spec)[m - Len(new)] = spec[m - Len(new) + 1]
      BY <3>1, TailFacts
    <3> QED
      BY <3>1, <3>2 DEF LineAt
  <2> QED
    BY <2>1, <2>2
<1> QED
  BY <1>2, <1>3, <1>4, <1>5

\* The entries behind the first.
LEMMA TailEntries ==
  ASSUME NEW spec \in Seq(Entry), spec # <<>>
  PROVE  \E u \in Seq(Entry) :
           /\ u = Tail(spec) /\ Len(u) = Len(spec) - 1 /\ 1 \in DOMAIN spec
           /\ \A i \in DOMAIN u : i \in Nat /\ i > 0 /\ i + 1 \in DOMAIN spec /\ u[i] = spec[i + 1]
           /\ \A i \in DOMAIN spec : i # 1 => i - 1 \in DOMAIN u /\ u[i - 1] = spec[i]
<1>1. /\ Tail(spec) \in Seq(Entry) /\ Len(Tail(spec)) = Len(spec) - 1 /\ 1 \in DOMAIN spec
      /\ \A i \in DOMAIN Tail(spec) :
           i \in Nat /\ i > 0 /\ i + 1 \in DOMAIN spec /\ Tail(spec)[i] = spec[i + 1]
      /\ \A i \in DOMAIN spec : i # 1 => i - 1 \in DOMAIN Tail(spec) /\ Tail(spec)[i - 1] = spec[i]
  BY TailFacts
<1> QED
  BY <1>1, Zenon

LEMMA AckLog ==
  ASSUME NEW com \in Seq(Uid), NEW ver, NEW spec \in Seq(Entry), NEW new \in Seq(Uid),
         spec # <<>>, LogOK(com, ver, spec), new = spec[1].after
  PROVE  LogOK(new, spec[1].id, Tail(spec))
<1>1. PICK u \in Seq(Entry) :
        /\ u = Tail(spec) /\ Len(u) = Len(spec) - 1
        /\ \A i \in DOMAIN u : i \in Nat /\ i > 0 /\ i + 1 \in DOMAIN spec /\ u[i] = spec[i + 1]
  BY TailEntries
<1>2. /\ Len(new) = Len(com) + 1 /\ new[Len(com) + 1] = spec[1].id
      /\ \A m \in 1..Len(com) + Len(spec) : LineAt(new, u, m) = LineAt(com, spec, m)
  BY <1>1, AckLine
<1>3. spec[1].id = Name(new)
  BY <1>2 DEF Name
<1>4. ASSUME NEW i \in DOMAIN u
      PROVE  /\ Len(u[i].after) = Len(new) + i
             /\ \A m \in 1..Len(new) + i : u[i].after[m] = LineAt(new, u, m)
  <2>1. i + 1 \in DOMAIN spec /\ u[i] = spec[i + 1] /\ Len(new) + i = Len(com) + (i + 1)
    BY <1>1, <1>2
  <2>2. \A m \in 1..Len(com) + (i + 1) : m \in 1..Len(com) + Len(spec)
    BY <2>1
  <2> QED
    BY <1>2, <2>1, <2>2 DEF LogOK
<1> QED
  BY <1>1, <1>3, <1>4 DEF LogOK

LEMMA AckPending ==
  ASSUME NEW c, NEW n, NEW com \in Seq(Uid), NEW spec \in Seq(Entry), NEW reb, NEW new \in Seq(Uid),
         spec # <<>>, PendingOK(c, n, com, spec, reb),
         Len(new) = Len(com) + 1, \A i \in DOMAIN com : new[i] = com[i],
         new[Len(com) + 1] = spec[1].id
  PROVE  PendingOK(c, n, new, Tail(spec), reb)
<1>1. PICK u \in Seq(Entry) :
        /\ u = Tail(spec) /\ 1 \in DOMAIN spec
        /\ \A i \in DOMAIN u : i \in Nat /\ i > 0 /\ i + 1 \in DOMAIN spec /\ u[i] = spec[i + 1]
  BY TailEntries
<1>2. \A id : Holds(new, id) => Holds(com, id) \/ id = spec[1].id
  <2>1. \A i \in DOMAIN new : i \in DOMAIN com \/ i = Len(com) + 1
    OBVIOUS
  <2> QED
    BY <2>1 DEF Holds
<1>3. \A i \in DOMAIN u : Own(c, n, u[i].id) /\ ~Holds(new, u[i].id)
  <2>1. \A i \in DOMAIN u : u[i].id # spec[1].id
    <3>1. \A i \in DOMAIN u : i + 1 # 1
      BY <1>1
    <3> QED
      BY <1>1, <3>1 DEF PendingOK
  <2> QED
    BY <1>1, <1>2, <2>1 DEF PendingOK
<1>4. \A i \in DOMAIN reb : Own(c, n, reb[i]) /\ ~Holds(new, reb[i])
  BY <1>1, <1>2 DEF PendingOK
<1>5. \A i, j \in DOMAIN u : i # j => u[i].id # u[j].id
  <2>1. \A i, j \in DOMAIN u : i # j => i + 1 # j + 1
    BY <1>1
  <2> QED
    BY <1>1, <2>1 DEF PendingOK
<1>6. PendingOK(c, n, new, u, reb)
  BY <1>1, <1>3, <1>4, <1>5 DEF PendingOK
<1> QED
  BY <1>1, <1>6

LEMMA AckEcho ==
  ASSUME NEW c, NEW f \in Seq(Applied), f # <<>>, NEW spec \in Seq(Entry), spec # <<>>,
         EchoOK(c, f, spec)
  PROVE  EchoOK(c, Tail(f), Tail(spec))
<1>1. PICK u \in Seq(Entry) :
        /\ u = Tail(spec)
        /\ \A i \in DOMAIN spec : i # 1 => i - 1 \in DOMAIN u /\ u[i - 1] = spec[i]
  BY TailEntries
<1>2. \A i \in DOMAIN Tail(f) : /\ i + 1 \in DOMAIN f /\ Tail(f)[i] = f[i + 1]
                               /\ i + 1 # 1 /\ i + 1 - 1 = i
  BY TailFacts
<1> QED
  BY <1>1, <1>2 DEF EchoOK

LEMMA AckSent ==
  ASSUME NEW c, NEW t \in Seq(Uid), NEW v, NEW n, NEW com \in Seq(Uid), NEW ver, NEW spec \in Seq(Entry),
         NEW new \in Seq(Uid), NEW id, NEW base, NEW b \in Seq(Uid),
         spec # <<>>, LogOK(com, ver, spec), new = spec[1].after, Len(com) < Len(t),
         SentOK(c, t, v, n, com, spec, id, base, b)
  PROVE  SentOK(c, t, v, n, new, Tail(spec), id, base, b)
<1>1. PICK u \in Seq(Entry) :
        /\ u = Tail(spec)
        /\ \A i \in DOMAIN spec : i # 1 => i - 1 \in DOMAIN u /\ u[i - 1] = spec[i]
  BY TailEntries
<1>2. /\ Len(new) = Len(com) + 1 /\ \A i \in DOMAIN com : i \in DOMAIN new /\ new[i] = com[i]
      /\ \A m \in 1..Len(com) + Len(spec) : LineAt(new, u, m) = LineAt(com, spec, m)
  BY <1>1, AckLine
<1>3. \A k \in DOMAIN b : Own(c, n, b[k]) \/ (Author(b[k]) # c /\ Holds(new, b[k]))
  BY <1>2 DEF SentOK, Holds
<1>4. ASSUME Extends(b, t)
      PROVE  \E k \in DOMAIN u : /\ u[k].id = id
                                 /\ Len(new) + k = Len(b) + 1
                                 /\ \A m \in DOMAIN b : b[m] = LineAt(new, u, m)
  <2>1. PICK k \in DOMAIN spec : /\ spec[k].id = id
                                 /\ Len(com) + k = Len(b) + 1
                                 /\ \A m \in DOMAIN b : b[m] = LineAt(com, spec, m)
    BY <1>4 DEF SentOK
  <2>2. k # 1
    BY <1>4, <2>1 DEF Extends
  <2>3. \A m \in DOMAIN b : m \in 1..Len(com) + Len(spec)
    BY <2>1
  <2>4. Len(new) + (k - 1) = Len(b) + 1
    BY <1>2, <2>1
  <2>5. k - 1 \in DOMAIN u /\ u[k - 1].id = id
    BY <1>1, <2>1, <2>2
  <2>6. \A m \in DOMAIN b : b[m] = LineAt(new, u, m)
    BY <1>2, <2>1, <2>3
  <2> QED
    BY <2>4, <2>5, <2>6, Zenon
<1>5. SentOK(c, t, v, n, new, u, id, base, b)
  BY <1>3, <1>4 DEF SentOK
<1> QED
  BY <1>1, <1>5

-----------------------------------------------------------------------------
\* When the head is foreign, everything of the client's own waits to be carried
\* across it, and nothing it has dispatched can apply any more.

LEMMA RemotePending ==
  ASSUME NEW c, NEW n, NEW com \in Seq(Uid), NEW spec \in Seq(Entry), NEW reb \in Seq(Uid),
         NEW all \in Seq(Uid), NEW y \in Uid, PendingOK(c, n, com, spec, reb), Author(y) # c,
         Len(all) = Len(spec) + Len(reb),
         \A i \in DOMAIN spec : all[i] = spec[i].id,
         \A i \in DOMAIN reb : all[Len(spec) + i] = reb[i]
  PROVE  PendingOK(c, n, Append(com, y), <<>>, all)
<1>1. \A id : Holds(Append(com, y), id) => Holds(com, id) \/ id = y
  <2>1. \A i \in DOMAIN Append(com, y) : i \in DOMAIN com \/ i = Len(com) + 1
    BY AppendFacts
  <2>2. (\A i \in DOMAIN com : Append(com, y)[i] = com[i]) /\ Append(com, y)[Len(com) + 1] = y
    BY AppendFacts
  <2> QED
    BY <2>1, <2>2 DEF Holds
<1>2. ASSUME NEW i \in DOMAIN all
      PROVE  \/ i \in DOMAIN spec /\ all[i] = spec[i].id
             \/ i - Len(spec) \in DOMAIN reb /\ all[i] = reb[i - Len(spec)]
  <2>1. i \in DOMAIN spec \/ i - Len(spec) \in DOMAIN reb
    OBVIOUS
  <2>2. Len(spec) + (i - Len(spec)) = i
    OBVIOUS
  <2>3. CASE i - Len(spec) \in DOMAIN reb
    <3>1. all[Len(spec) + (i - Len(spec))] = reb[i - Len(spec)]
      BY <2>3
    <3> QED
      BY <2>2, <2>3, <3>1
  <2> QED
    BY <2>1, <2>3
<1>3. \A i \in DOMAIN all : Own(c, n, all[i]) /\ ~Holds(com, all[i]) /\ all[i] # y
  BY <1>2 DEF PendingOK, Own
<1>4. ASSUME NEW i \in DOMAIN all, NEW j \in DOMAIN all, i # j PROVE all[i] # all[j]
  <2>1. i - Len(spec) # j - Len(spec)
    BY <1>4
  <2>2. /\ \/ i \in DOMAIN spec /\ all[i] = spec[i].id
           \/ i - Len(spec) \in DOMAIN reb /\ all[i] = reb[i - Len(spec)]
        /\ \/ j \in DOMAIN spec /\ all[j] = spec[j].id
           \/ j - Len(spec) \in DOMAIN reb /\ all[j] = reb[j - Len(spec)]
    BY <1>2
  <2>3. /\ \A p, q \in DOMAIN spec : p # q => spec[p].id # spec[q].id
        /\ \A p, q \in DOMAIN reb : p # q => reb[p] # reb[q]
        /\ \A p \in DOMAIN spec : \A q \in DOMAIN reb : spec[p].id # reb[q]
    BY DEF PendingOK
  <2> QED
    BY <1>4, <2>1, <2>2, <2>3, Zenon
<1> QED
  BY <1>1, <1>3, <1>4 DEF PendingOK

LEMMA RemoteEcho ==
  ASSUME NEW c, NEW t, NEW com, NEW ver, NEW f \in Seq(Applied), f # <<>>,
         FeedOK(c, t, com, ver, f), Author(f[1].id) # c
  PROVE  EchoOK(c, Tail(f), <<>>)
<1>1. \A i \in DOMAIN Tail(f) : i + 1 \in DOMAIN f /\ Tail(f)[i] = f[i + 1] /\ 1 < i + 1
  BY TailFacts
<1>2. 1 \in DOMAIN f
  OBVIOUS
<1> QED
  BY <1>1, <1>2 DEF EchoOK, FeedOK

LEMMA RemoteSent ==
  ASSUME NEW c, NEW t \in Seq(Uid), NEW v, NEW n, NEW com \in Seq(Uid), NEW ver, NEW f \in Seq(Applied),
         NEW spec, NEW id, NEW base, NEW b \in Seq(Uid), NEW y \in Uid,
         f # <<>>, FeedOK(c, t, com, ver, f), Distinct(t), y = f[1].id, Author(y) # c,
         SentOK(c, t, v, n, com, spec, id, base, b)
  PROVE  SentOK(c, t, v, n, Append(com, y), <<>>, id, base, b)
<1>1. /\ 1 \in DOMAIN f /\ Len(t) = Len(com) + Len(f) /\ t[Len(com) + 1] = y
      /\ \A i \in DOMAIN com : t[i] = com[i]
  <2>1. 1 \in DOMAIN f
    OBVIOUS
  <2> QED
    BY <2>1 DEF FeedOK
<1>2. Len(com) + 1 \in DOMAIN t /\ \A i \in DOMAIN com : i \in DOMAIN t /\ i # Len(com) + 1
  BY <1>1
<1>3. ~Holds(com, y)
  BY <1>1, <1>2 DEF Distinct, Holds
<1>4. ~Extends(b, t)
  <2> SUFFICES ASSUME Extends(b, t) PROVE FALSE
    OBVIOUS
  <2>1. Len(t) <= Len(b) /\ b[Len(com) + 1] = y
    BY <1>1, <1>2 DEF Extends
  <2>2. Len(com) + 1 \in DOMAIN b
    BY <1>2, <2>1
  <2> QED
    BY <1>3, <2>1, <2>2 DEF SentOK, Own
<1>5. \A x : Holds(com, x) => Holds(Append(com, y), x)
  <2>1. \A i \in DOMAIN com : i \in DOMAIN Append(com, y) /\ Append(com, y)[i] = com[i]
    BY AppendFacts
  <2> QED
    BY <2>1, Zenon DEF Holds
<1> QED
  BY <1>4, <1>5 DEF SentOK

-----------------------------------------------------------------------------
(***************************************************************************)
(* Type correctness.                                                       *)
(***************************************************************************)

\* What Perform leaves of the log and the wire is a log and a wire.
LEMMA PerformType ==
  ASSUME TypeOK, NEW c \in Client, NEW r, r.log \in Log, r.sent \in Seq(Dispatch), Perform(c, r)
  PROVE  log' \in [Client -> Log] /\ wire' \in [Client -> Seq(Dispatch)]
<1>1. wire[c] \in Seq(Dispatch)
  BY DEF TypeOK
<1>2. wire[c] \o r.sent \in Seq(Dispatch)
  BY <1>1, ConcatFacts
<1> QED
  BY <1>2 DEF TypeOK, Perform

LEMMA SentType ==
  ASSUME NEW l \in Log, NEW id \in Uid
  PROVE  /\ Push(l, id).log \in Log /\ Push(l, id).sent \in Seq(Dispatch)
         /\ Local(l, id).log \in Log /\ Local(l, id).sent \in Seq(Dispatch)
<1>1. [id |-> id, base |-> Tip(l), before |-> Display(l)] \in Dispatch
  BY DisplayType DEF Dispatch
<1>2. <<[id |-> id, base |-> Tip(l), before |-> Display(l)]>> \in Seq(Dispatch)
  BY <1>1
<1>3. Push(l, id).log \in Log /\ Push(l, id).sent \in Seq(Dispatch)
  <2>1. CASE Push(l, id) = [log |-> l, sent |-> <<>>]
    BY <2>1
  <2>2. CASE Push(l, id).log \in Log /\ Push(l, id).sent =
               <<[id |-> id, base |-> Tip(l), before |-> Display(l)]>>
    BY <1>2, <2>2
  <2> QED
    BY <2>1, <2>2, PushFacts
<1>4. CASE Local(l, id) = Push(l, id)
  BY <1>3, <1>4
<1>5. CASE Local(l, id).log \in Log /\ Local(l, id).sent = <<>>
  BY <1>3, <1>5
<1> QED
  BY <1>4, <1>5, LocalFacts

LEMMA StepType ==
  ASSUME NEW l \in Log
  PROVE  Step(l).log \in Log /\ Step(l).sent \in Seq(Dispatch)
<1>1. CASE Step(l).log \in Log /\ Step(l).sent = <<>>
  BY <1>1
<1>2. ASSUME NEW n \in DOMAIN l.rebasing, Step(l).log \in Log,
             Step(l).sent = <<[id |-> l.rebasing[n], base |-> Tip(l), before |-> Display(l)]>>
      PROVE  Step(l).log \in Log /\ Step(l).sent \in Seq(Dispatch)
  <2>1. l.rebasing[n] \in Uid
    BY DEF Log
  <2>2. [id |-> l.rebasing[n], base |-> Tip(l), before |-> Display(l)] \in Dispatch
    BY <2>1, DisplayType DEF Dispatch
  <2> QED
    BY <1>2, <2>2
<1> QED
  BY <1>1, <1>2, StepFacts

LEMMA ApplyType ==
  ASSUME TypeOK, NEW id \in Uid, Apply(id)
  PROVE  text' \in Seq(Uid) /\ version' \in Uid /\ feed' \in [Client -> Seq(Applied)]
<1>1. [id |-> id, base |-> version] \in Applied
  BY DEF TypeOK, Applied
<1>2. ASSUME NEW c \in Client
      PROVE  feed[c] \in Seq(Applied) /\ Append(feed[c], [id |-> id, base |-> version]) \in Seq(Applied)
  <2>1. feed[c] \in Seq(Applied)
    BY DEF TypeOK
  <2> QED
    BY <1>1, <2>1, AppendFacts
<1>3. text' \in Seq(Uid)
  BY AppendFacts DEF TypeOK, Apply
<1> QED
  BY <1>2, <1>3 DEF Apply

LEMMA UidFacts ==
  /\ Origin \in Uid
  /\ \A n \in 0..MaxReload : <<Host, n>> \in Uid
  /\ \A c \in Client : \A n \in 0..MaxLocal : <<c, n>> \in Uid
<1>1. /\ 0 \in 0..(MaxLocal + MaxReload)
      /\ \A n \in 0..MaxReload : n \in 0..(MaxLocal + MaxReload)
      /\ \A n \in 0..MaxLocal : n \in 0..(MaxLocal + MaxReload)
  BY BoundsAssumption
<1> QED
  BY <1>1, UidAssumption DEF Origin

LEMMA TypeInit == Init => TypeOK
<1> SUFFICES ASSUME Init PROVE TypeOK
  OBVIOUS
<1>1. Origin \in Uid
  BY UidFacts
<1>2. NewLog(<<>>, Origin) \in Log
  BY <1>1 DEF NewLog, Log
<1> QED
  BY <1>1, <1>2, BoundsAssumption DEF Init, TypeOK

LEMMA TypeStep == TypeOK /\ [Next]_vars => TypeOK'
<1> SUFFICES ASSUME TypeOK, [Next]_vars PROVE TypeOK'
  OBVIOUS
<1>1. CASE ReloadMirror
  <2>1. reloads' \in 0..MaxReload
    BY <1>1, BoundsAssumption DEF ReloadMirror, TypeOK
  <2>2. <<Host, reloads'>> \in Uid
    BY <2>1, UidFacts
  <2> QED
    BY <1>1, <2>1, <2>2, ApplyType DEF ReloadMirror, TypeOK
<1>2. ASSUME NEW c \in Client, SubscribeDocument(c) PROVE TypeOK'
  <2>1. NewLog(text, version) \in Log
    BY DEF TypeOK, NewLog, Log
  <2> QED
    BY <1>2, <2>1 DEF SubscribeDocument, TypeOK
<1>3. ASSUME NEW c \in Client, DocumentDispatch(c) PROVE TypeOK'
  <2>1. PICK i \in Arriving(c) :
          /\ wire' = [wire EXCEPT ![c] = RemoveAt(@, i)]
          /\ IF Lineage(wire[c][i]) THEN Apply(wire[c][i].id)
                                    ELSE UNCHANGED <<text, version, feed>>
    BY <1>3 DEF DocumentDispatch
  <2>2. wire[c] \in Seq(Dispatch) /\ i \in DOMAIN wire[c]
    BY DEF TypeOK, Arriving
  <2>3. RemoveAt(wire[c], i) \in Seq(Dispatch)
    BY <2>2, RemoveType
  <2>4. wire' \in [Client -> Seq(Dispatch)]
    BY <2>1, <2>3 DEF TypeOK
  <2>5. wire[c][i].id \in Uid
    <3>1. wire[c][i] \in Dispatch
      BY <2>2
    <3> QED
      BY <3>1 DEF Dispatch
  <2>6. text' \in Seq(Uid) /\ version' \in Uid /\ feed' \in [Client -> Seq(Applied)]
    BY <2>1, <2>5, ApplyType DEF TypeOK
  <2> QED
    BY <1>3, <2>4, <2>6 DEF DocumentDispatch, TypeOK
<1>4. ASSUME NEW c \in Client, LocalEdit(c) PROVE TypeOK'
  <2>1. log[c] \in Log
    BY DEF TypeOK
  <2>2. minted[c] \in 0..MaxLocal /\ minted[c] < MaxLocal
    BY <1>4 DEF LocalEdit, TypeOK
  <2>3. <<c, minted[c] + 1>> \in Uid
    <3>1. minted[c] + 1 \in 0..MaxLocal
      BY <2>2, BoundsAssumption
    <3> QED
      BY <3>1, UidFacts
  <2>4. log' \in [Client -> Log] /\ wire' \in [Client -> Seq(Dispatch)]
    BY <1>4, <2>1, <2>3, SentType, PerformType DEF LocalEdit
  <2>5. minted' \in [Client -> 0..MaxLocal]
    BY <1>4, <2>2, BoundsAssumption DEF LocalEdit, TypeOK
  <2> QED
    BY <1>4, <2>4, <2>5 DEF LocalEdit, TypeOK, host
<1>5. ASSUME NEW c \in Client, HearApplied(c) PROVE TypeOK'
  <2>1. feed[c] \in Seq(Applied) /\ feed[c] # <<>> /\ log[c] \in Log
    BY <1>5 DEF HearApplied, TypeOK
  <2>2. Tail(feed[c]) \in Seq(Applied) /\ Head(feed[c]) \in Applied
    BY <2>1, TailFacts
  <2>3. Head(feed[c]).id \in Uid
    BY <2>2 DEF Applied
  <2>4. Remote(log[c], Head(feed[c]).id) \in Log
    BY <2>1, <2>3, RemoteFacts
  <2>5. IsAck(log[c], Head(feed[c]).id) => Ack(log[c]) \in Log
    BY <2>1, AckFacts DEF IsAck
  <2> QED
    BY <1>5, <2>2, <2>4, <2>5 DEF HearApplied, TypeOK, host
<1>6. ASSUME NEW c \in Client, RebaseStep(c) PROVE TypeOK'
  <2>1. log[c] \in Log
    BY DEF TypeOK
  <2>2. log' \in [Client -> Log] /\ wire' \in [Client -> Seq(Dispatch)]
    BY <1>6, <2>1, StepType, PerformType DEF RebaseStep
  <2> QED
    BY <1>6, <2>2 DEF RebaseStep, TypeOK, host
<1>7. ASSUME NEW c \in Client, ConnectionDies(c) PROVE TypeOK'
  BY <1>7, BoundsAssumption DEF ConnectionDies, TypeOK, host
<1>8. CASE UNCHANGED vars
  BY <1>8 DEF vars, TypeOK
<1> QED
  BY <1>1, <1>2, <1>3, <1>4, <1>5, <1>6, <1>7, <1>8 DEF Next

\* Every variable keeps its type, whatever the wire does to the order of the
\* dispatches.
THEOREM TypeCorrect == Spec => []TypeOK
  BY TypeInit, TypeStep, PTL DEF Spec

-----------------------------------------------------------------------------
(***************************************************************************)
(* The inductive invariant.  A client is disturbed by its own steps and by *)
(* every action the host applies; any other step does not concern it.      *)
(***************************************************************************)

\* What the type invariant says of one client.
LEMMA ClientTypes ==
  ASSUME TypeOK, NEW c \in Client
  PROVE  /\ text \in Seq(Uid) /\ version \in Uid
         /\ feed[c] \in Seq(Applied) /\ wire[c] \in Seq(Dispatch) /\ log[c] \in Log
         /\ log[c].committed \in Seq(Uid) /\ log[c].version \in Uid
         /\ log[c].speculation \in Seq(Entry) /\ log[c].rebasing \in Seq(Uid)
         /\ minted[c] \in Nat
<1>1. /\ text \in Seq(Uid) /\ version \in Uid
      /\ feed[c] \in Seq(Applied) /\ wire[c] \in Seq(Dispatch) /\ log[c] \in Log
      /\ minted[c] \in Nat
  BY DEF TypeOK
<1> QED
  BY <1>1 DEF Log

LEMMA DispatchTypes ==
  ASSUME NEW w \in Seq(Dispatch), NEW i \in DOMAIN w
  PROVE  w[i] \in Dispatch /\ w[i].id \in Uid /\ w[i].base \in Uid /\ w[i].before \in Seq(Uid)
<1>1. w[i] \in Dispatch
  OBVIOUS
<1> QED
  BY <1>1 DEF Dispatch

\* Everything in t was minted, and what is c's among its first n.
Minted(c, n, t) ==
  /\ \A i \in DOMAIN t : t[i] # Origin
  /\ \A i \in DOMAIN t : Author(t[i]) = c => Own(c, n, t[i])

LEMMA TextFacts ==
  ASSUME TypeOK, HostOK(text, version)
  PROVE  \A c \in Client : Minted(c, minted[c], text)
<1>1. Author(Origin) = Host /\ Origin[2] = 0
  BY DEF Author, Origin
<1>2. ASSUME NEW i \in DOMAIN text, text[i] = Origin PROVE FALSE
  <2>1. CASE Author(text[i]) = Host /\ text[i][2] \in 1..reloads
    BY <1>1, <1>2, <2>1 DEF TypeOK
  <2>2. CASE \E c \in Client : Own(c, minted[c], text[i])
    BY <1>1, <1>2, <2>2, AuthorsAssumption DEF Own
  <2> QED
    BY <2>1, <2>2 DEF HostOK
<1>3. \A c \in Client : \A i \in DOMAIN text :
        Author(text[i]) = c => Own(c, minted[c], text[i])
  BY AuthorsAssumption DEF HostOK, Own
<1> QED
  BY <1>2, <1>3 DEF Minted

LEMMA HostKeeps ==
  ASSUME TypeOK, TypeOK', HostOK(text, version), text' = text, version' = version,
         reloads' = reloads, \A c \in Client : minted'[c] = minted[c] \/ minted'[c] = minted[c] + 1
  PROVE  HostOK(text, version)'
<1>1. ASSUME NEW c \in Client
      PROVE  minted[c] \in Nat /\ minted'[c] \in Nat /\ minted[c] <= minted'[c]
  <2>1. minted[c] \in 0..MaxLocal /\ minted'[c] \in 0..MaxLocal
    BY DEF TypeOK
  <2>2. minted[c] \in Nat /\ minted'[c] \in Nat
    BY <2>1, BoundsAssumption
  <2> QED
    BY <2>2
<1>2. \A c \in Client : \A id : Own(c, minted[c], id) => Own(c, minted'[c], id)
  BY <1>1, OwnMore
<1> QED
  BY <1>2 DEF HostOK

LEMMA HostApplies ==
  ASSUME TypeOK, TypeOK', HostOK(text, version), NEW x \in Uid, Apply(x), ~Holds(text, x),
         minted' = minted, reloads' = reloads \/ reloads' = reloads + 1,
         \/ Author(x) = Host /\ x[2] \in 1..reloads'
         \/ \E c \in Client : Own(c, minted[c], x)
  PROVE  HostOK(text, version)'
<1>1. PICK u \in Seq(Uid) :
        /\ u = text' /\ version' = Name(u) /\ Name(u) = x
        /\ DOMAIN u = 1..(Len(text) + 1) /\ u[Len(text) + 1] = x
        /\ \A i \in DOMAIN text : u[i] = text[i]
  BY AppendedText DEF Apply, TypeOK
<1>2. \A i \in DOMAIN u : i \in DOMAIN text \/ i = Len(text) + 1
  BY <1>1 DEF TypeOK
<1>3. Distinct(u)
  BY <1>1, <1>2 DEF HostOK, Distinct, Holds
<1>4. \A k : k \in 1..reloads => k \in 1..reloads'
  BY DEF TypeOK
<1>5. \A i \in DOMAIN u : \/ Author(u[i]) = Host /\ u[i][2] \in 1..reloads'
                         \/ \E c \in Client : Own(c, minted[c], u[i])
  BY <1>1, <1>2, <1>4 DEF HostOK
<1> QED
  BY <1>1, <1>3, <1>5 DEF HostOK

LEMMA Untouched ==
  ASSUME NEW c \in Client, ClientInv(c), text' = text, version' = version,
         c \in subscribers' <=> c \in subscribers,
         log'[c] = log[c], wire'[c] = wire[c], feed'[c] = feed[c], minted'[c] = minted[c]
  PROVE  ClientInv(c)'
  BY DEF ClientInv, Idle

\* An action of somebody else's reaches a client.
LEMMA MirrorHears ==
  ASSUME NEW c, NEW t \in Seq(Uid), NEW v \in Uid, NEW f \in Seq(Applied), NEW com \in Seq(Uid),
         NEW ver, NEW spec \in Seq(Entry), NEW reb, NEW w \in Seq(Dispatch), NEW n, NEW x \in Uid,
         v = Name(t), MirrorOK(c, t, v, f, com, ver, spec, reb, w, n),
         x # Origin, Author(x) # c, ~Holds(t, x)
  PROVE  MirrorOK(c, Append(t, x), x, Append(f, [id |-> x, base |-> v]), com, ver, spec, reb, w, n)
<1>1. FeedOK(c, Append(t, x), com, ver, Append(f, [id |-> x, base |-> v]))
  <2>1. v = FeedEnd(ver, f)
    <3>1. FeedOK(c, t, com, ver, f) /\ ver = Name(com)
      BY DEF MirrorOK, LogOK
    <3> QED
      BY <3>1, VersionOfFeed
  <2> QED
    BY <2>1, FeedGrows DEF MirrorOK
<1>2. EchoOK(c, Append(f, [id |-> x, base |-> v]), spec)
  BY EchoGrows DEF MirrorOK
<1>3. \A i \in DOMAIN com : Holds(t, com[i])
  <2>1. \A i \in DOMAIN com : i \in DOMAIN t /\ t[i] = com[i]
    BY DEF MirrorOK, FeedOK
  <2> QED
    BY <2>1 DEF Holds
<1>4. ASSUME NEW i \in DOMAIN w
      PROVE  SentOK(c, Append(t, x), x, n, com, spec, w[i].id, w[i].base, w[i].before)
  <2>1. SentOK(c, t, v, n, com, spec, w[i].id, w[i].base, w[i].before)
    BY DEF MirrorOK
  <2>2. w[i].before \in Seq(Uid)
    BY DispatchTypes
  <2>3. w[i].base # x
    BY <1>3, <2>1, <2>2, BaseIsOld
  <2> QED
    BY <2>1, <2>2, <2>3, SentSurvives
<1>5. ChainOK(Append(t, x), w)
  BY ChainSurvives DEF MirrorOK
<1> QED
  BY <1>1, <1>2, <1>4, <1>5 DEF MirrorOK

LEMMA OthersHear ==
  ASSUME TypeOK, HostOK(text, version), NEW c \in Client, ClientInv(c), NEW x \in Uid, Apply(x),
         x # Origin, Author(x) # c, ~Holds(text, x), subscribers' = subscribers,
         log'[c] = log[c], wire'[c] = wire[c], minted'[c] = minted[c]
  PROVE  ClientInv(c)'
<1>1. /\ text' = Append(text, x) /\ version' = x
      /\ feed'[c] = IF c \in subscribers THEN Append(feed[c], [id |-> x, base |-> version]) ELSE feed[c]
  BY DEF Apply
<1>2. CASE c \notin subscribers
  BY <1>1, <1>2 DEF ClientInv, Idle
<1>3. CASE c \in subscribers
  <2>1. MirrorOK(c, text, version, feed[c], log[c].committed, log[c].version,
                 log[c].speculation, log[c].rebasing, wire[c], minted[c])
    BY <1>3 DEF ClientInv
  <2>2. version = Name(text)
    BY DEF HostOK
  <2>3. MirrorOK(c, Append(text, x), x, Append(feed[c], [id |-> x, base |-> version]),
                 log[c].committed, log[c].version, log[c].speculation, log[c].rebasing,
                 wire[c], minted[c])
    BY <2>1, <2>2, ClientTypes, MirrorHears
  <2> QED
    BY <1>1, <1>3, <2>3, Zenon DEF ClientInv
<1> QED
  BY <1>2, <1>3

-----------------------------------------------------------------------------
\* The client's own steps.

\* The positions of dispatch d address the text t.
MadeOn(d, t) == d.before = t

\* The client's front dispatch is accepted: it is the next action of the host,
\* and joins the echoes on their way back.
LEMMA MirrorEchoes ==
  ASSUME NEW c, c # Host, NEW t \in Seq(Uid), NEW v \in Uid, NEW f \in Seq(Applied), NEW com \in Seq(Uid),
         NEW ver, NEW spec \in Seq(Entry), NEW reb, NEW w \in Seq(Dispatch), NEW n,
         v = Name(t), Minted(c, n, t),
         MirrorOK(c, t, v, f, com, ver, spec, reb, w, n),
         w # <<>>, w[1].base = v
  PROVE  /\ \E x \in Uid :
              /\ x = w[1].id
              /\ MirrorOK(c, Append(t, x), x, Append(f, [id |-> x, base |-> v]),
                          com, ver, spec, reb, Tail(w), n)
         /\ ~Holds(t, w[1].id) /\ Own(c, n, w[1].id) /\ MadeOn(w[1], t)
<1>0. PICK x \in Uid : x = w[1].id
  <2>1. 1 \in DOMAIN w
    OBVIOUS
  <2> QED
    BY <2>1, DispatchTypes
<1>1. PICK b \in Seq(Uid) :
        1 \in DOMAIN w /\ b = w[1].before /\ SentOK(c, t, v, n, com, spec, x, v, b)
  <2>1. 1 \in DOMAIN w
    OBVIOUS
  <2> QED
    BY <1>0, <2>1, DispatchTypes DEF MirrorOK
<1>2. /\ Len(t) = Len(com) + Len(f)
      /\ \A i \in DOMAIN com : i \in DOMAIN t /\ t[i] = com[i]
      /\ \A i \in DOMAIN f : Len(com) + i \in DOMAIN t /\ t[Len(com) + i] = f[i].id
  BY DEF MirrorOK, FeedOK
<1>3. Extends(b, t) /\ Name(b) = v /\ Distinct(b) /\ ~Holds(b, x) /\ Own(c, n, x)
  BY <1>1 DEF SentOK
<1>4. \A k \in DOMAIN b : b[k] # Origin
  <2>0. \A i \in DOMAIN t : t[i] # Origin
    BY DEF Minted
  <2>1. \A id : Own(c, n, id) => id # Origin
    BY DEF Own, Origin, Author
  <2>2. \A id : Holds(com, id) => id # Origin
    BY <1>2, <2>0 DEF Holds
  <2> QED
    BY <1>1, <2>1, <2>2 DEF SentOK
<1>5. b = t
  BY <1>3, <1>4, AcceptedIsCurrent
<1>6. PICK k \in DOMAIN spec : /\ spec[k].id = x
                               /\ Len(com) + k = Len(t) + 1
                               /\ \A m \in DOMAIN t : t[m] = LineAt(com, spec, m)
  BY <1>1, <1>3, <1>5 DEF SentOK
<1>7. k = Len(f) + 1
  BY <1>2, <1>6
<1>8. ASSUME NEW i \in DOMAIN f PROVE Author(f[i].id) = c
  <2>1. /\ i \in DOMAIN spec /\ ~(Len(com) + i <= Len(com)) /\ Len(com) + i - Len(com) = i
    BY <1>7
  <2>2. f[i].id = spec[i].id
    <3>1. f[i].id = LineAt(com, spec, Len(com) + i)
      BY <1>2, <1>6
    <3>2. LineAt(com, spec, Len(com) + i) = spec[i].id
      BY <2>1 DEF LineAt
    <3> QED
      BY <3>1, <3>2
  <2> QED
    BY <2>1, <2>2 DEF MirrorOK, PendingOK, Own
<1>9. FeedOK(c, Append(t, x), com, ver, Append(f, [id |-> x, base |-> v]))
  <2>1. FeedOK(c, t, com, ver, f) /\ ver = Name(com)
    BY DEF MirrorOK, LogOK
  <2>2. v = FeedEnd(ver, f)
    BY <2>1, VersionOfFeed
  <2> QED
    BY <1>8, <2>1, <2>2, FeedGrows
<1>10. EchoOK(c, Append(f, [id |-> x, base |-> v]), spec)
  <2>1. EchoOK(c, f, spec)
    BY DEF MirrorOK
  <2> QED
    BY <1>6, <1>7, <2>1, EchoGrows
<1>11. PICK u \in Seq(Dispatch) :
         u = Tail(w) /\ \A i \in DOMAIN u : i \in Nat /\ i > 0 /\ i + 1 \in DOMAIN w /\ u[i] = w[i + 1]
  <2>1. /\ Tail(w) \in Seq(Dispatch)
        /\ \A i \in DOMAIN Tail(w) : i \in Nat /\ i > 0 /\ i + 1 \in DOMAIN w /\ Tail(w)[i] = w[i + 1]
    BY TailFacts
  <2> QED
    BY <2>1, Zenon
<1>12. ASSUME NEW i \in DOMAIN u
       PROVE  SentOK(c, Append(t, x), x, n, com, spec, u[i].id, u[i].base, u[i].before)
  <2>1. SentOK(c, t, v, n, com, spec, u[i].id, u[i].base, u[i].before)
    BY <1>11 DEF MirrorOK
  <2>2. PICK d \in Seq(Uid) : d = u[i].before
    BY DispatchTypes
  <2>3. ASSUME u[i].base = x PROVE Extends(d, Append(t, x))
    <3>1. Follows(w[i + 1], w[1])
      <4>1. i + 1 \in DOMAIN w /\ 1 < i + 1 /\ w[1].id = w[i + 1].base /\ Extends(w[1].before, t)
        BY <1>0, <1>1, <1>3, <1>11, <2>3
      <4> QED
        BY <1>1, <4>1 DEF MirrorOK, ChainOK
    <3>2. Len(d) = Len(t) + 1 /\ \A m \in DOMAIN t : d[m] = t[m]
      BY <1>1, <1>5, <1>11, <2>2, <3>1 DEF Follows
    <3>3. Name(d) = x
      BY <2>1, <2>2, <2>3 DEF SentOK
    <3> QED
      BY <3>2, <3>3, NextInLine
  <2> QED
    BY <2>1, <2>2, <2>3, SentSurvives
<1>13. ChainOK(Append(t, x), u)
  <2>1. ChainOK(t, u)
    BY <1>11, ChainTail DEF MirrorOK
  <2> QED
    BY <2>1, ChainSurvives
<1>14. LogOK(com, ver, spec) /\ PendingOK(c, n, com, spec, reb)
  BY DEF MirrorOK
<1>15. MirrorOK(c, Append(t, x), x, Append(f, [id |-> x, base |-> v]), com, ver, spec, reb, u, n)
  BY <1>9, <1>10, <1>12, <1>13, <1>14 DEF MirrorOK
<1> QED
  BY <1>0, <1>1, <1>3, <1>5, <1>11, <1>15 DEF MadeOn

\* The wire loses its front, or all it holds.
LEMMA MirrorLoses ==
  ASSUME NEW c, NEW t, NEW v, NEW f, NEW com, NEW ver, NEW spec, NEW reb, NEW w \in Seq(Dispatch), NEW n,
         MirrorOK(c, t, v, f, com, ver, spec, reb, w, n)
  PROVE  /\ w # <<>> => MirrorOK(c, t, v, f, com, ver, spec, reb, Tail(w), n)
         /\ MirrorOK(c, t, v, f, com, ver, spec, reb, <<>>, n)
<1>1. ASSUME w # <<>> PROVE MirrorOK(c, t, v, f, com, ver, spec, reb, Tail(w), n)
  <2>1. \A i \in DOMAIN Tail(w) : i + 1 \in DOMAIN w /\ Tail(w)[i] = w[i + 1]
    BY <1>1, TailFacts
  <2>2. ChainOK(t, Tail(w))
    BY <1>1, ChainTail DEF MirrorOK
  <2> QED
    BY <2>1, <2>2 DEF MirrorOK
<1>2. ChainOK(t, <<>>)
  BY DEF ChainOK
<1>3. MirrorOK(c, t, v, f, com, ver, spec, reb, <<>>, n)
  BY <1>2 DEF MirrorOK
<1> QED
  BY <1>1, <1>3

LEMMA GrownSent ==
  ASSUME NEW w \in Seq(Dispatch), NEW d \in Dispatch,
         NEW c, NEW t, NEW v, NEW n, NEW com, NEW spec,
         \A i \in DOMAIN w : SentOK(c, t, v, n, com, spec, w[i].id, w[i].base, w[i].before),
         SentOK(c, t, v, n, com, spec, d.id, d.base, d.before)
  PROVE  \A i \in DOMAIN Append(w, d) :
           SentOK(c, t, v, n, com, spec,
                  Append(w, d)[i].id, Append(w, d)[i].base, Append(w, d)[i].before)
<1>1. /\ \A i \in DOMAIN w : Append(w, d)[i] = w[i]
      /\ Append(w, d)[Len(w) + 1] = d
      /\ \A i \in DOMAIN Append(w, d) : i \in DOMAIN w \/ i = Len(w) + 1
  BY AppendFacts
<1> QED
  BY <1>1

\* On what it shows, D, the client puts entry e and sends dispatch d, both of
\* edit x; rest is what is left of its queue.
Pushes(c, p, com, ver, spec, reb, rest, k, x, D, e, d) ==
  /\ D = Shown(com, spec)
  /\ e = [id |-> x, after |-> Append(D, x)]
  /\ d.id = x /\ d.base = TipOf(ver, spec) /\ d.before = D
  /\ Own(c, p, x) /\ ~Holds(com, x)
  /\ \A i \in DOMAIN spec : spec[i].id # x
  /\ \A i \in DOMAIN rest : i + k \in DOMAIN reb /\ rest[i] = reb[i + k] /\ rest[i] # x

LEMMA MirrorPushes ==
  ASSUME NEW c, c # Host, NEW t \in Seq(Uid), NEW v, NEW f \in Seq(Applied), NEW com \in Seq(Uid),
         NEW ver, NEW spec \in Seq(Entry), NEW reb \in Seq(Uid), NEW w \in Seq(Dispatch),
         NEW n \in Nat, NEW p \in Nat, n <= p, NEW rest \in Seq(Uid), NEW k \in Nat,
         NEW D \in Seq(Uid), NEW x \in Uid, NEW e \in Entry, NEW d \in Dispatch,
         v = Name(t), Distinct(t), Minted(c, n, t),
         MirrorOK(c, t, v, f, com, ver, spec, reb, w, n),
         Pushes(c, p, com, ver, spec, reb, rest, k, x, D, e, d)
  PROVE  MirrorOK(c, t, v, f, com, ver, Append(spec, e), rest, Append(w, d), p)
<1>0. /\ D = Shown(com, spec) /\ e = [id |-> x, after |-> Append(D, x)]
      /\ d.id = x /\ d.base = TipOf(ver, spec) /\ d.before = D
      /\ Own(c, p, x) /\ ~Holds(com, x) /\ \A i \in DOMAIN spec : spec[i].id # x
      /\ \A i \in DOMAIN rest : i + k \in DOMAIN reb /\ rest[i] = reb[i + k] /\ rest[i] # x
  BY DEF Pushes
<1>1. /\ FeedOK(c, t, com, ver, f) /\ LogOK(com, ver, spec) /\ ver = Name(com)
      /\ PendingOK(c, n, com, spec, reb) /\ EchoOK(c, f, spec) /\ ChainOK(t, w)
      /\ \A i \in DOMAIN w : SentOK(c, t, v, n, com, spec, w[i].id, w[i].base, w[i].before)
  BY DEF MirrorOK, LogOK
<1>2. Spells(D, com, spec) /\ Name(D) = d.base
  BY <1>0, <1>1, LineFacts
<1>3. e.id = x
  BY <1>0
<1>4. LogOK(com, ver, Append(spec, e))
  BY <1>0, <1>1, <1>2, PushLog
<1>5. PendingOK(c, p, com, Append(spec, e), rest)
  BY <1>0, <1>1, <1>3, PushPending
<1>6. EchoOK(c, f, Append(spec, e))
  BY <1>1, PushEcho
<1>7. ASSUME NEW i \in DOMAIN w
      PROVE  SentOK(c, t, v, p, com, Append(spec, e), w[i].id, w[i].base, w[i].before)
  BY <1>1, DispatchTypes, PushSent
<1>8. SentOK(c, t, v, p, com, Append(spec, e), d.id, d.base, d.before)
  <2>1. SentOK(c, t, v, p, com, Append(spec, e), e.id, Name(D), D)
    BY <1>0, <1>1, <1>2, <1>3, NewSent DEF Minted
  <2> QED
    BY <1>0, <1>2, <1>3, <2>1
<1>9. ChainOK(t, Append(w, d))
  <2>1. Name(D) = TipOf(ver, spec)
    BY <1>0, <1>2
  <2> QED
    BY <1>0, <1>1, <1>2, <2>1, PushChain
<1>10. \A i \in DOMAIN Append(w, d) :
         SentOK(c, t, v, p, com, Append(spec, e),
                Append(w, d)[i].id, Append(w, d)[i].base, Append(w, d)[i].before)
  BY <1>7, <1>8, GrownSent
<1> QED
  BY <1>1, <1>4, <1>5, <1>6, <1>9, <1>10 DEF MirrorOK

\* An edit waits behind the others, or collapses at once; what is left of the
\* queue may collapse.
LEMMA MirrorWaits ==
  ASSUME NEW c, NEW t, NEW v, NEW f, NEW com, NEW ver, NEW spec, NEW reb \in Seq(Uid), NEW w,
         NEW n \in Nat, NEW p \in Nat, n <= p,
         MirrorOK(c, t, v, f, com, ver, spec, reb, w, n)
  PROVE  /\ MirrorOK(c, t, v, f, com, ver, spec, reb, w, p)
         /\ MirrorOK(c, t, v, f, com, ver, spec, <<>>, w, p)
         /\ \A x \in Uid : Own(c, p, x) /\ ~Own(c, n, x) /\ ~Holds(com, x)
              => MirrorOK(c, t, v, f, com, ver, spec, Append(reb, x), w, p)
<1>1. /\ FeedOK(c, t, com, ver, f) /\ LogOK(com, ver, spec)
      /\ PendingOK(c, n, com, spec, reb) /\ EchoOK(c, f, spec) /\ ChainOK(t, w)
      /\ \A i \in DOMAIN w : SentOK(c, t, v, n, com, spec, w[i].id, w[i].base, w[i].before)
  BY DEF MirrorOK
<1>2. \A i \in DOMAIN w : SentOK(c, t, v, p, com, spec, w[i].id, w[i].base, w[i].before)
  BY <1>1, SentMore
<1>3. PendingOK(c, p, com, spec, reb) /\ PendingOK(c, p, com, spec, <<>>)
  BY <1>1, PendingMore, NothingLeft
<1>4. \A x \in Uid : Own(c, p, x) /\ ~Own(c, n, x) /\ ~Holds(com, x)
        => PendingOK(c, p, com, spec, Append(reb, x))
  BY <1>1, QueuePending
<1> QED
  BY <1>1, <1>2, <1>3, <1>4, Zenon DEF MirrorOK

\* The head of the feed is the client's own echo.
LEMMA MirrorAcks ==
  ASSUME NEW c, NEW t \in Seq(Uid), NEW v, NEW f \in Seq(Applied), NEW com \in Seq(Uid),
         NEW ver, NEW spec \in Seq(Entry), NEW reb, NEW w \in Seq(Dispatch), NEW n,
         NEW new \in Seq(Uid),
         MirrorOK(c, t, v, f, com, ver, spec, reb, w, n),
         f # <<>>, spec # <<>>, f[1].id = spec[1].id, new = spec[1].after
  PROVE  MirrorOK(c, t, v, Tail(f), new, spec[1].id, Tail(spec), reb, w, n)
<1>1. /\ FeedOK(c, t, com, ver, f) /\ LogOK(com, ver, spec)
      /\ PendingOK(c, n, com, spec, reb) /\ EchoOK(c, f, spec) /\ ChainOK(t, w)
      /\ \A i \in DOMAIN w : SentOK(c, t, v, n, com, spec, w[i].id, w[i].base, w[i].before)
  BY DEF MirrorOK
<1>2. /\ Len(new) = Len(com) + 1 /\ \A i \in DOMAIN com : new[i] = com[i]
      /\ new[Len(com) + 1] = spec[1].id
  BY <1>1, AckLine
<1>3. FeedOK(c, t, new, f[1].id, Tail(f))
  <2>1. new[Len(com) + 1] = f[1].id
    BY <1>2
  <2> QED
    BY <1>1, <1>2, <2>1, FeedFolds, Zenon
<1>4. LogOK(new, spec[1].id, Tail(spec))
  BY <1>1, AckLog
<1>5. PendingOK(c, n, new, Tail(spec), reb)
  BY <1>1, <1>2, AckPending
<1>6. EchoOK(c, Tail(f), Tail(spec))
  BY <1>1, AckEcho
<1>7. Len(com) < Len(t)
  BY <1>1 DEF FeedOK
<1>8. ASSUME NEW i \in DOMAIN w
      PROVE  SentOK(c, t, v, n, new, Tail(spec), w[i].id, w[i].base, w[i].before)
  BY <1>1, <1>7, DispatchTypes, AckSent
<1> QED
  BY <1>1, <1>3, <1>4, <1>5, <1>6, <1>8 DEF MirrorOK

\* all is everything pending: the speculation, then the queue.
Queues(all, spec, reb) ==
  /\ Len(all) = Len(spec) + Len(reb)
  /\ \A i \in DOMAIN spec : all[i] = spec[i].id
  /\ \A i \in DOMAIN reb : all[Len(spec) + i] = reb[i]

\* The head of the feed is somebody else's action.
LEMMA MirrorRebases ==
  ASSUME NEW c, NEW t \in Seq(Uid), NEW v, NEW f \in Seq(Applied), NEW com \in Seq(Uid),
         NEW ver, NEW spec \in Seq(Entry), NEW reb \in Seq(Uid), NEW w \in Seq(Dispatch), NEW n,
         NEW all \in Seq(Uid),
         MirrorOK(c, t, v, f, com, ver, spec, reb, w, n),
         f # <<>>, f[1].id \in Uid, Author(f[1].id) # c, Distinct(t),
         Queues(all, spec, reb)
  PROVE  \A y \in Uid : y = f[1].id =>
           MirrorOK(c, t, v, Tail(f), Append(com, y), y, <<>>, all, w, n)
<1> SUFFICES ASSUME NEW y \in Uid, y = f[1].id
             PROVE  MirrorOK(c, t, v, Tail(f), Append(com, y), y, <<>>, all, w, n)
  OBVIOUS
<1>0. Author(y) # c
  OBVIOUS
<1>1. /\ FeedOK(c, t, com, ver, f) /\ LogOK(com, ver, spec)
      /\ PendingOK(c, n, com, spec, reb) /\ EchoOK(c, f, spec) /\ ChainOK(t, w)
      /\ \A i \in DOMAIN w : SentOK(c, t, v, n, com, spec, w[i].id, w[i].base, w[i].before)
  BY DEF MirrorOK
<1>2. FeedOK(c, t, Append(com, y), y, Tail(f))
  <2>1. /\ Append(com, y) \in Seq(Uid) /\ Len(Append(com, y)) = Len(com) + 1
        /\ \A i \in DOMAIN com : Append(com, y)[i] = com[i]
        /\ Append(com, y)[Len(com) + 1] = f[1].id
    BY AppendFacts
  <2> QED
    BY <1>1, <2>1, FeedFolds
<1>3. LogOK(Append(com, y), y, <<>>)
  BY AppendedText DEF LogOK
<1>4. PendingOK(c, n, Append(com, y), <<>>, all)
  BY <1>0, <1>1, RemotePending DEF Queues
<1>5. EchoOK(c, Tail(f), <<>>)
  BY <1>0, <1>1, RemoteEcho
<1>6. ASSUME NEW i \in DOMAIN w
      PROVE  SentOK(c, t, v, n, Append(com, y), <<>>, w[i].id, w[i].base, w[i].before)
  BY <1>0, <1>1, DispatchTypes, RemoteSent
<1> QED
  BY <1>1, <1>2, <1>3, <1>4, <1>5, <1>6 DEF MirrorOK

\* A client that has just opened its log on the text of the host.
LEMMA MirrorStarts ==
  ASSUME NEW c, NEW t \in Seq(Uid), NEW v, NEW n, v = Name(t)
  PROVE  MirrorOK(c, t, v, <<>>, t, v, <<>>, <<>>, <<>>, n)
  BY DEF MirrorOK, FeedOK, LogOK, PendingOK, EchoOK, ChainOK

-----------------------------------------------------------------------------
\* One lemma per action: the host's part of the invariant and every client's.

LEMMA InvInit == Init => IInv
<1> SUFFICES ASSUME Init PROVE IInv
  OBVIOUS
<1>1. HostOK(text, version)
  BY DEF Init, HostOK, Name, Distinct
<1>2. \A c \in Client : ClientInv(c)
  BY DEF Init, ClientInv, Idle
<1> QED
  BY <1>1, <1>2, TypeInit DEF IInv

LEMMA ReloadKeeps ==
  ASSUME IInv, TypeOK', ReloadMirror
  PROVE  IInv'
<1>1. PICK x \in Uid : /\ Apply(x) /\ Author(x) = Host /\ x[2] = reloads' /\ reloads' = reloads + 1
                      /\ reloads' \in 1..MaxReload /\ x # Origin
  <2>1. reloads' \in 1..MaxReload
    BY BoundsAssumption DEF ReloadMirror, IInv, TypeOK
  <2>2. <<Host, reloads'>> \in Uid
    BY <2>1, UidFacts, BoundsAssumption
  <2>3. <<Host, reloads'>>[1] = Host /\ <<Host, reloads'>>[2] = reloads' /\ Origin[2] = 0
    BY DEF Origin
  <2> QED
    BY <2>1, <2>2, <2>3 DEF ReloadMirror, Author
<1>2. ~Holds(text, x)
  <2> SUFFICES ASSUME NEW i \in DOMAIN text, text[i] = x PROVE FALSE
    BY DEF Holds
  <2>1. CASE text[i][2] \in 1..reloads
    BY <1>1, <2>1 DEF IInv, TypeOK
  <2>2. CASE \E c \in Client : Own(c, minted[c], text[i])
    BY <1>1, <2>2, AuthorsAssumption DEF Own
  <2> QED
    BY <2>1, <2>2 DEF IInv, HostOK
<1>3. HostOK(text, version)'
  <2>1. x[2] \in 1..reloads' /\ minted' = minted
    BY <1>1 DEF ReloadMirror
  <2> QED
    BY <1>1, <1>2, <2>1, HostApplies DEF IInv
<1>4. ASSUME NEW c \in Client PROVE ClientInv(c)'
  <2>1. /\ subscribers' = subscribers /\ log'[c] = log[c] /\ wire'[c] = wire[c]
        /\ minted'[c] = minted[c] /\ Author(x) # c
    BY <1>1, AuthorsAssumption DEF ReloadMirror
  <2> QED
    BY <1>1, <1>2, <2>1, OthersHear DEF IInv
<1> QED
  BY <1>3, <1>4 DEF IInv

LEMMA SubscribeKeeps ==
  ASSUME IInv, TypeOK', NEW c \in Client, SubscribeDocument(c)
  PROVE  IInv'
<1>1. HostOK(text, version)'
  BY HostKeeps DEF IInv, SubscribeDocument
<1>2. ClientInv(c)'
  <2>1. /\ c \in subscribers' /\ text' = text /\ version' = version
        /\ feed'[c] = <<>> /\ wire'[c] = <<>>
    BY DEF SubscribeDocument, IInv, ClientInv, Idle
  <2>2. log'[c] = NewLog(text, version)
    BY DEF SubscribeDocument, IInv, TypeOK
  <2>3. MirrorOK(c, text, version, <<>>, text, version, <<>>, <<>>, <<>>, minted'[c])
    BY ClientTypes, MirrorStarts DEF IInv, HostOK
  <2> QED
    BY <2>1, <2>2, <2>3 DEF ClientInv, NewLog
<1>3. ASSUME NEW d \in Client, d # c PROVE ClientInv(d)'
  <2>1. /\ text' = text /\ version' = version /\ (d \in subscribers' <=> d \in subscribers)
        /\ log'[d] = log[d] /\ wire'[d] = wire[d] /\ feed'[d] = feed[d] /\ minted'[d] = minted[d]
    BY <1>3 DEF SubscribeDocument, IInv, TypeOK
  <2> QED
    BY <2>1, Untouched DEF IInv
<1> QED
  BY <1>1, <1>2, <1>3 DEF IInv

\* What the invariant says of a client with something on its wire, in its
\* feed or in its log.
LEMMA Subscribed ==
  ASSUME IInv, NEW c \in Client,
         wire[c] # <<>> \/ feed[c] # <<>> \/ log[c].rebasing # <<>> \/ c \in subscribers
  PROVE  /\ c \in subscribers
         /\ MirrorOK(c, text, version, feed[c], log[c].committed, log[c].version,
                     log[c].speculation, log[c].rebasing, wire[c], minted[c])
<1>1. c \in subscribers
  BY DEF IInv, ClientInv, Idle, NewLog
<1> QED
  BY <1>1 DEF IInv, ClientInv

\* The front of the wire, when the host gets to it.
LEMMA WireFront ==
  ASSUME Ordered, TypeOK, NEW c \in Client, NEW i, i \in Arriving(c)
  PROVE  i = 1 /\ wire[c] # <<>> /\ RemoveAt(wire[c], i) = Tail(wire[c])
<1>1. wire[c] \in Seq(Dispatch)
  BY DEF TypeOK
<1>2. i = 1 /\ 1 \in DOMAIN wire[c]
  BY DEF Arriving
<1>3. RemoveAt(wire[c], 1) = Tail(wire[c])
  BY <1>1, <1>2, RemoveFirstFacts
<1> QED
  BY <1>1, <1>2, <1>3

\* An accepted dispatch was made on the text the host has.
LEMMA Accepted ==
  ASSUME Ordered, IInv, NEW c \in Client, NEW i, i \in Arriving(c), Lineage(wire[c][i])
  PROVE  \E x \in Uid :
           /\ x = wire[c][i].id
           /\ MirrorOK(c, Append(text, x), x, Append(feed[c], [id |-> x, base |-> version]),
                       log[c].committed, log[c].version, log[c].speculation, log[c].rebasing,
                       Tail(wire[c]), minted[c])
           /\ ~Holds(text, x) /\ Own(c, minted[c], x) /\ MadeOn(wire[c][i], text)
<1>1. i = 1 /\ wire[c] # <<>>
  BY WireFront DEF IInv
<1>2. MirrorOK(c, text, version, feed[c], log[c].committed, log[c].version,
               log[c].speculation, log[c].rebasing, wire[c], minted[c])
  BY <1>1, Subscribed
<1>3. PICK w \in Seq(Dispatch) : w = wire[c]
  BY ClientTypes DEF IInv
<1>5. /\ version = Name(text) /\ c # Host /\ Minted(c, minted[c], text)
  BY TextFacts, AuthorsAssumption DEF IInv, HostOK
<1>6. w # <<>> /\ w[1].base = version
  BY <1>1, <1>3 DEF Lineage
<1>7. PICK f \in Seq(Applied), com \in Seq(Uid), spec \in Seq(Entry), t \in Seq(Uid), v \in Uid :
        f = feed[c] /\ com = log[c].committed /\ spec = log[c].speculation /\ t = text /\ v = version
  BY ClientTypes DEF IInv
<1>8. PICK n, ver, reb : n = minted[c] /\ ver = log[c].version /\ reb = log[c].rebasing
  OBVIOUS
<1>9. v = Name(t) /\ Minted(c, n, t) /\ c # Host /\ w # <<>> /\ w[1].base = v
  BY <1>5, <1>6, <1>7, <1>8
<1>10. MirrorOK(c, t, v, f, com, ver, spec, reb, w, n)
  BY <1>2, <1>3, <1>7, <1>8
<1>11. PICK x \in Uid :
         /\ x = w[1].id
         /\ MirrorOK(c, Append(t, x), x, Append(f, [id |-> x, base |-> v]),
                     com, ver, spec, reb, Tail(w), n)
  BY <1>9, <1>10, MirrorEchoes
<1>12. ~Holds(t, w[1].id) /\ Own(c, n, w[1].id) /\ MadeOn(w[1], t)
  BY <1>9, <1>10, MirrorEchoes
<1> QED
  BY <1>1, <1>3, <1>7, <1>8, <1>11, <1>12, Zenon

LEMMA DispatchKeeps ==
  ASSUME Ordered, IInv, TypeOK', NEW c \in Client, DocumentDispatch(c)
  PROVE  IInv'
<1>1. PICK i :
        /\ i \in Arriving(c)
        /\ wire' = [wire EXCEPT ![c] = RemoveAt(@, i)]
        /\ IF Lineage(wire[c][i]) THEN Apply(wire[c][i].id) ELSE UNCHANGED <<text, version, feed>>
        /\ UNCHANGED <<subscribers, log, minted, reloads, deaths>>
  BY DEF DocumentDispatch
<1>2. /\ wire[c] # <<>> /\ wire'[c] = Tail(wire[c])
      /\ \A d \in Client : d # c => wire'[d] = wire[d]
  BY <1>1, WireFront DEF IInv, TypeOK
<1>3. c \in subscribers /\ subscribers' = subscribers
  BY <1>1, <1>2, Subscribed
<1>4. CASE Lineage(wire[c][i])
  <2>1. PICK x \in Uid :
          /\ x = wire[c][i].id
          /\ MirrorOK(c, Append(text, x), x, Append(feed[c], [id |-> x, base |-> version]),
                      log[c].committed, log[c].version, log[c].speculation, log[c].rebasing,
                      Tail(wire[c]), minted[c])
          /\ ~Holds(text, x) /\ Own(c, minted[c], x)
    BY <1>1, <1>4, Accepted
  <2>2. Apply(x)
    BY <1>1, <1>4, <2>1
  <2>3. HostOK(text, version)'
    BY <1>1, <2>1, <2>2, HostApplies DEF IInv
  <2>4. ClientInv(c)'
    <3>1. /\ text' = Append(text, x) /\ version' = x
          /\ feed'[c] = Append(feed[c], [id |-> x, base |-> version])
      BY <1>3, <2>2 DEF Apply
    <3> QED
      BY <1>1, <1>2, <1>3, <2>1, <3>1, Zenon DEF ClientInv
  <2>5. ASSUME NEW d \in Client, d # c PROVE ClientInv(d)'
    <3>1. x # Origin /\ Author(x) # d
      BY <2>1, <2>5, AuthorsAssumption DEF Own, Origin, Author
    <3>2. /\ log'[d] = log[d] /\ wire'[d] = wire[d] /\ minted'[d] = minted[d]
      BY <1>1, <1>2, <2>5
    <3> QED
      BY <1>3, <2>1, <2>2, <3>1, <3>2, OthersHear DEF IInv
  <2> QED
    BY <2>3, <2>4, <2>5 DEF IInv
<1>5. CASE ~Lineage(wire[c][i])
  <2>1. text' = text /\ version' = version /\ feed' = feed
    BY <1>1, <1>5
  <2>2. HostOK(text, version)'
    BY <1>1, <2>1, HostKeeps DEF IInv
  <2>3. ClientInv(c)'
    <3>1. MirrorOK(c, text, version, feed[c], log[c].committed, log[c].version,
                   log[c].speculation, log[c].rebasing, Tail(wire[c]), minted[c])
      BY <1>2, Subscribed, ClientTypes, MirrorLoses DEF IInv
    <3> QED
      BY <1>1, <1>2, <1>3, <2>1, <3>1, Zenon DEF ClientInv
  <2>4. ASSUME NEW d \in Client, d # c PROVE ClientInv(d)'
    BY <1>1, <1>2, <2>1, <2>4, Untouched DEF IInv
  <2> QED
    BY <2>2, <2>3, <2>4 DEF IInv
<1> QED
  BY <1>4, <1>5

LEMMA DeathKeeps ==
  ASSUME IInv, TypeOK', NEW c \in Client, ConnectionDies(c)
  PROVE  IInv'
<1>1. /\ wire[c] # <<>> /\ wire'[c] = <<>> /\ text' = text /\ version' = version
      /\ subscribers' = subscribers /\ feed' = feed /\ log' = log /\ minted' = minted
      /\ \A d \in Client : d # c => wire'[d] = wire[d]
  BY DEF ConnectionDies, host, IInv, TypeOK
<1>2. HostOK(text, version)'
  BY <1>1, HostKeeps DEF IInv, ConnectionDies
<1>3. ClientInv(c)'
  <2>1. /\ c \in subscribers
        /\ MirrorOK(c, text, version, feed[c], log[c].committed, log[c].version,
                    log[c].speculation, log[c].rebasing, <<>>, minted[c])
    BY <1>1, Subscribed, ClientTypes, MirrorLoses DEF IInv
  <2> QED
    BY <1>1, <2>1, Zenon DEF ClientInv
<1>4. ASSUME NEW d \in Client, d # c PROVE ClientInv(d)'
  BY <1>1, <1>4, Untouched DEF IInv
<1> QED
  BY <1>2, <1>3, <1>4 DEF IInv

-----------------------------------------------------------------------------
\* The steps of a client's loop.

LEMMA DisplayShown ==
  ASSUME NEW l \in Log
  PROVE  /\ Display(l) = Shown(l.committed, l.speculation)
         /\ Tip(l) = TipOf(l.version, l.speculation)
         /\ Display(l) \in Seq(Uid) /\ Tip(l) \in Uid
<1>1. l.speculation \in Seq(Entry)
  BY DEF Log
<1>2. l.speculation # <<>> => Last(l.speculation) = l.speculation[Len(l.speculation)]
  BY <1>1, LastFacts
<1> QED
  BY <1>2, DisplayType DEF Display, Tip, Shown, TipOf

\* The loop carried x, or made it, and dispatched it.
LEMMA LoopPushes ==
  ASSUME IInv, NEW c \in Client, c \in subscribers, NEW x \in Uid, NEW p \in Nat, minted[c] <= p,
         NEW k \in Nat, NEW rest \in Seq(Uid),
         Own(c, p, x), ~Holds(log[c].committed, x),
         \A i \in DOMAIN log[c].speculation : log[c].speculation[i].id # x,
         \A i \in DOMAIN rest :
           i + k \in DOMAIN log[c].rebasing /\ rest[i] = log[c].rebasing[i + k] /\ rest[i] # x
  PROVE  MirrorOK(c, text, version, feed[c], log[c].committed, log[c].version,
                  Append(log[c].speculation, [id |-> x, after |-> Append(Display(log[c]), x)]),
                  rest,
                  wire[c] \o <<[id |-> x, base |-> Tip(log[c]), before |-> Display(log[c])]>>, p)
<1>1. PICK l \in Log : l = log[c]
  BY ClientTypes DEF IInv
<1>2. PICK f \in Seq(Applied), com \in Seq(Uid), spec \in Seq(Entry), reb \in Seq(Uid),
           t \in Seq(Uid), w \in Seq(Dispatch), n \in Nat :
        /\ f = feed[c] /\ com = log[c].committed /\ spec = log[c].speculation
        /\ reb = log[c].rebasing /\ t = text /\ w = wire[c] /\ n = minted[c]
  BY ClientTypes DEF IInv
<1>3. PICK v, ver : v = version /\ ver = log[c].version
  OBVIOUS
<1>4. PICK D \in Seq(Uid) : D = Display(l) /\ D = Shown(com, spec) /\ Tip(l) = TipOf(ver, spec)
  BY <1>1, <1>2, <1>3, DisplayShown
<1>5. PICK e \in Entry : e = [id |-> x, after |-> Append(D, x)]
  BY AppendFacts DEF Entry
<1>6. PICK d \in Dispatch : /\ d = [id |-> x, base |-> Tip(l), before |-> D]
                           /\ d.id = x /\ d.base = TipOf(ver, spec) /\ d.before = D
  <2>1. Tip(l) \in Uid
    BY DisplayType
  <2> DEFINE dd == [id |-> x, base |-> Tip(l), before |-> D]
  <2>2. dd \in Dispatch /\ dd.id = x /\ dd.base = Tip(l) /\ dd.before = D
    BY <2>1 DEF Dispatch
  <2> QED
    BY <1>4, <2>2, Zenon
<1>7. /\ c # Host /\ v = Name(t) /\ Distinct(t) /\ Minted(c, n, t)
  BY <1>2, <1>3, TextFacts, AuthorsAssumption DEF IInv, HostOK
<1>8. MirrorOK(c, t, v, f, com, ver, spec, reb, w, n)
  BY <1>2, <1>3, Subscribed
<1>9. n <= p /\ Pushes(c, p, com, ver, spec, reb, rest, k, x, D, e, d)
  BY <1>2, <1>4, <1>5, <1>6 DEF Pushes
<1>10. MirrorOK(c, t, v, f, com, ver, Append(spec, e), rest, Append(w, d), p)
  BY <1>7, <1>8, <1>9, MirrorPushes
<1>11. w \o <<d>> = Append(w, d)
  BY ConcatOne
<1> QED
  BY <1>1, <1>2, <1>3, <1>4, <1>5, <1>6, <1>10, <1>11, Zenon

\* The edit a client makes next is new to it.
LEMMA NewEdit ==
  ASSUME IInv, NEW c \in Client, c \in subscribers, minted[c] < MaxLocal
  PROVE  \E x \in Uid :
           /\ x = <<c, minted[c] + 1>>
           /\ Own(c, minted[c] + 1, x) /\ ~Own(c, minted[c], x)
           /\ ~Holds(log[c].committed, x)
           /\ \A i \in DOMAIN log[c].speculation : log[c].speculation[i].id # x
<1>1. minted[c] \in Nat /\ minted[c] + 1 \in 0..MaxLocal
  BY BoundsAssumption DEF IInv, TypeOK
<1>2. PICK x \in Uid : x = <<c, minted[c] + 1>>
  BY <1>1, UidFacts
<1>3. Own(c, minted[c] + 1, x) /\ ~Own(c, minted[c], x)
  BY <1>1, <1>2 DEF Own, Author
<1>4. MirrorOK(c, text, version, feed[c], log[c].committed, log[c].version,
               log[c].speculation, log[c].rebasing, wire[c], minted[c])
  BY Subscribed
<1>5. ~Holds(log[c].committed, x)
  <2>1. PICK com \in Seq(Uid), t \in Seq(Uid), f \in Seq(Applied) :
          com = log[c].committed /\ t = text /\ f = feed[c]
    BY ClientTypes DEF IInv
  <2>2. Len(t) = Len(com) + Len(f) /\ \A i \in DOMAIN com : t[i] = com[i]
    BY <1>4, <2>1 DEF MirrorOK, FeedOK
  <2>5. \A i \in DOMAIN com : i \in DOMAIN t
    BY <2>2
  <2>3. Minted(c, minted[c], t)
    BY <2>1, TextFacts DEF IInv
  <2>4. Author(x) = c
    BY <1>3 DEF Own
  <2> QED
    BY <1>3, <2>1, <2>2, <2>3, <2>4, <2>5 DEF Holds, Minted
<1>6. \A i \in DOMAIN log[c].speculation : log[c].speculation[i].id # x
  BY <1>3, <1>4 DEF MirrorOK, PendingOK
<1> QED
  BY <1>2, <1>3, <1>5, <1>6

\* A step of c's loop that leaves the host and c's feed alone.
LEMMA LoopKeeps ==
  ASSUME IInv, TypeOK', NEW c \in Client, c \in subscribers,
         text' = text, version' = version, subscribers' = subscribers, reloads' = reloads,
         minted'[c] = minted[c] \/ minted'[c] = minted[c] + 1, feed'[c] = feed[c],
         \A d \in Client : d # c => /\ minted'[d] = minted[d] /\ log'[d] = log[d]
                                    /\ wire'[d] = wire[d] /\ feed'[d] = feed[d],
         MirrorOK(c, text, version, feed[c], log'[c].committed, log'[c].version,
                  log'[c].speculation, log'[c].rebasing, wire'[c], minted'[c])
  PROVE  IInv'
<1>1. HostOK(text, version)'
  <2>1. \A d \in Client : minted'[d] = minted[d] \/ minted'[d] = minted[d] + 1
    OBVIOUS
  <2> QED
    BY <2>1, HostKeeps DEF IInv
<1>2. ClientInv(c)'
  BY Zenon DEF ClientInv
<1>3. ASSUME NEW d \in Client, d # c PROVE ClientInv(d)'
  BY <1>3, Untouched DEF IInv
<1> QED
  BY <1>1, <1>2, <1>3 DEF IInv

LEMMA LocalKeeps ==
  ASSUME IInv, TypeOK', NEW c \in Client, LocalEdit(c)
  PROVE  IInv'
<1>1. PICK l \in Log, w \in Seq(Dispatch), n \in Nat : l = log[c] /\ w = wire[c] /\ n = minted[c]
  BY ClientTypes DEF IInv
<1>2. PICK x \in Uid :
        /\ x = <<c, n + 1>> /\ Own(c, n + 1, x) /\ ~Own(c, n, x)
        /\ ~Holds(l.committed, x)
        /\ \A i \in DOMAIN l.speculation : l.speculation[i].id # x
  BY <1>1, NewEdit DEF LocalEdit
<1>3. /\ c \in subscribers /\ text' = text /\ version' = version /\ subscribers' = subscribers
      /\ reloads' = reloads /\ feed'[c] = feed[c]
      /\ \A d \in Client : d # c => /\ minted'[d] = minted[d] /\ log'[d] = log[d]
                                  /\ wire'[d] = wire[d] /\ feed'[d] = feed[d]
  BY DEF LocalEdit, Perform, host, IInv, TypeOK
<1>4. minted'[c] = n + 1 /\ log'[c] = Local(l, x).log /\ wire'[c] = w \o Local(l, x).sent
  BY <1>1, <1>2 DEF LocalEdit, Perform, IInv, TypeOK
<1>5. MirrorOK(c, text, version, feed[c], l.committed, l.version, l.speculation, l.rebasing, w, n)
  BY <1>1, <1>3, Subscribed
<1>6. l.rebasing \in Seq(Uid)
  BY DEF Log
<1>7. MirrorOK(c, text, version, feed[c], log'[c].committed, log'[c].version,
               log'[c].speculation, log'[c].rebasing, wire'[c], n + 1)
  <2>1. CASE IsRebasing(l) /\ Local(l, x) = [log |-> [l EXCEPT !.rebasing = Append(@, x)], sent |-> <<>>]
    <3>1. /\ log'[c] = [l EXCEPT !.rebasing = Append(@, x)] /\ wire'[c] = w
      BY <1>4, <2>1, ConcatNone
    <3>2. /\ log'[c].committed = l.committed /\ log'[c].version = l.version
          /\ log'[c].speculation = l.speculation /\ log'[c].rebasing = Append(l.rebasing, x)
      BY <3>1 DEF Log
    <3>3. MirrorOK(c, text, version, feed[c], l.committed, l.version, l.speculation,
                   Append(l.rebasing, x), w, n + 1)
      BY <1>2, <1>5, <1>6, MirrorWaits
    <3> QED
      BY <3>1, <3>2, <3>3
  <2>2. CASE Local(l, x) = Push(l, x) /\ Push(l, x) = [log |-> l, sent |-> <<>>]
    <3>1. log'[c] = l /\ wire'[c] = w
      BY <1>4, <2>2, ConcatNone
    <3>2. MirrorOK(c, text, version, feed[c], l.committed, l.version, l.speculation,
                   l.rebasing, w, n + 1)
      <4>1. n \in Nat /\ n + 1 \in Nat /\ n <= n + 1
        OBVIOUS
      <4>2. \A p \in Nat : n <= p => MirrorOK(c, text, version, feed[c], l.committed, l.version,
                                            l.speculation, l.rebasing, w, p)
        BY <1>5, <1>6, MirrorWaits, Zenon
      <4> QED
        BY <4>1, <4>2, Zenon
    <3> QED
      BY <3>1, <3>2
  <2>3. CASE /\ Local(l, x) = Push(l, x)
             /\ ~IsRebasing(l)
             /\ Push(l, x).log.committed = l.committed
             /\ Push(l, x).log.version = l.version
             /\ Push(l, x).log.rebasing = l.rebasing
             /\ Push(l, x).log.speculation =
                  Append(l.speculation, [id |-> x, after |-> Append(Display(l), x)])
             /\ Push(l, x).sent = <<[id |-> x, base |-> Tip(l), before |-> Display(l)]>>
    <3>1. l.rebasing = <<>>
      BY <2>3 DEF IsRebasing
    <3>2. MirrorOK(c, text, version, feed[c], l.committed, l.version,
                   Append(l.speculation, [id |-> x, after |-> Append(Display(l), x)]),
                   <<>>, w \o <<[id |-> x, base |-> Tip(l), before |-> Display(l)]>>, n + 1)
      <4>1. /\ n + 1 \in Nat /\ minted[c] <= n + 1 /\ 0 \in Nat /\ <<>> \in Seq(Uid)
            /\ \A i \in DOMAIN <<>> :
                 i + 0 \in DOMAIN log[c].rebasing /\ <<>>[i] = log[c].rebasing[i + 0] /\ <<>>[i] # x
        BY <1>1
      <4> QED
        BY <1>1, <1>2, <1>3, <4>1, LoopPushes
    <3> QED
      BY <1>4, <2>3, <3>1, <3>2
  <2>4. CASE Local(l, x) = Push(l, x) /\ ~IsRebasing(l)
    BY <2>2, <2>3, <2>4, PushFacts
  <2>5. CASE IsRebasing(l)
    BY <2>1, <2>5 DEF Local
  <2> QED
    BY <2>4, <2>5 DEF Local
<1> QED
  BY <1>1, <1>3, <1>4, <1>7, LoopKeeps

\* rest is s without its first n elements.
Rests(rest, s, n) ==
  /\ rest = SubSeq(s, n + 1, Len(s))
  /\ \A i \in DOMAIN rest : i + n \in DOMAIN s /\ i + n # n /\ rest[i] = s[i + n]

LEMMA Remainder ==
  ASSUME NEW S, NEW s \in Seq(S), NEW n \in Nat, n \in DOMAIN s
  PROVE  \E rest \in Seq(S) : Rests(rest, s, n)
<1>1. /\ SubSeq(s, n + 1, Len(s)) \in Seq(S)
      /\ Len(SubSeq(s, n + 1, Len(s))) = Len(s) - n
      /\ \A i \in 1..(Len(s) - n) : SubSeq(s, n + 1, Len(s))[i] = s[n + i]
  BY SuffixFacts
<1>2. PICK rest \in Seq(S) : /\ rest = SubSeq(s, n + 1, Len(s)) /\ Len(rest) = Len(s) - n
                             /\ \A i \in 1..(Len(s) - n) : rest[i] = s[n + i]
  BY <1>1, Zenon
<1>3. ASSUME NEW i \in DOMAIN rest
      PROVE  i + n \in DOMAIN s /\ i + n # n /\ rest[i] = s[i + n]
  <2>1. i \in 1..(Len(s) - n) /\ i + n = n + i
    BY <1>2
  <2>2. rest[i] = s[n + i]
    BY <1>2, <2>1
  <2> QED
    BY <2>1, <2>2
<1> QED
  BY <1>2, <1>3, Zenon DEF Rests

LEMMA RebaseKeeps ==
  ASSUME IInv, TypeOK', NEW c \in Client, RebaseStep(c)
  PROVE  IInv'
<1>1. PICK l \in Log, w \in Seq(Dispatch), n \in Nat : l = log[c] /\ w = wire[c] /\ n = minted[c]
  BY ClientTypes DEF IInv
<1>2. /\ text' = text /\ version' = version /\ subscribers' = subscribers
      /\ reloads' = reloads /\ feed'[c] = feed[c] /\ minted' = minted
      /\ \A d \in Client : d # c => /\ log'[d] = log[d] /\ wire'[d] = wire[d] /\ feed'[d] = feed[d]
  BY DEF RebaseStep, Perform, host, IInv, TypeOK
<1>3. log'[c] = Step(l).log /\ wire'[c] = w \o Step(l).sent /\ l.rebasing # <<>>
  BY <1>1 DEF RebaseStep, Perform, IInv, TypeOK, IsRebasing
<1>4. /\ c \in subscribers
      /\ MirrorOK(c, text, version, feed[c], l.committed, l.version, l.speculation, l.rebasing, w, n)
  BY <1>1, <1>3, Subscribed
<1>5. l.rebasing \in Seq(Uid)
  BY DEF Log
<1>6. MirrorOK(c, text, version, feed[c], log'[c].committed, log'[c].version,
               log'[c].speculation, log'[c].rebasing, wire'[c], n)
  <2>1. CASE /\ Step(l).log.committed = l.committed /\ Step(l).log.version = l.version
             /\ Step(l).log.speculation = l.speculation /\ Step(l).log.rebasing = <<>>
             /\ Step(l).sent = <<>>
    <3>1. MirrorOK(c, text, version, feed[c], l.committed, l.version, l.speculation, <<>>, w, n)
      <4>1. n <= n
        OBVIOUS
      <4> QED
        BY <1>4, <1>5, <4>1, MirrorWaits, Zenon
    <3>2. wire'[c] = w
      BY <1>3, <2>1, ConcatNone
    <3> QED
      BY <1>3, <2>1, <3>1, <3>2
  <2>2. ASSUME NEW k \in DOMAIN l.rebasing, k \in Nat,
               /\ Step(l).log.committed = l.committed
               /\ Step(l).log.version = l.version
               /\ Step(l).log.rebasing = SubSeq(l.rebasing, k + 1, Len(l.rebasing))
               /\ Step(l).log.speculation =
                    Append(l.speculation,
                           [id |-> l.rebasing[k], after |-> Append(Display(l), l.rebasing[k])])
               /\ Step(l).sent =
                    <<[id |-> l.rebasing[k], base |-> Tip(l), before |-> Display(l)]>>
        PROVE  MirrorOK(c, text, version, feed[c], log'[c].committed, log'[c].version,
                        log'[c].speculation, log'[c].rebasing, wire'[c], n)
    <3>1. PICK reb \in Seq(Uid) : reb = l.rebasing
      BY <1>5
    <3>2. PICK x \in Uid : x = reb[k] /\ k \in DOMAIN reb
      BY <2>2, <3>1
    <3>3. PICK rest \in Seq(Uid) : Rests(rest, reb, k)
      <4>1. k \in Nat /\ k \in DOMAIN reb
        BY <2>2, <3>2
      <4> QED
        BY <4>1, Remainder
    <3>4. /\ Own(c, n, x) /\ ~Holds(l.committed, x)
          /\ \A i \in DOMAIN l.speculation : l.speculation[i].id # x
          /\ \A i, j \in DOMAIN reb : i # j => reb[i] # reb[j]
      BY <1>4, <3>1, <3>2 DEF MirrorOK, PendingOK
    <3>5. \A i \in DOMAIN rest : i + k \in DOMAIN reb /\ rest[i] = reb[i + k] /\ rest[i] # x
      BY <3>2, <3>3, <3>4 DEF Rests
    <3>6. MirrorOK(c, text, version, feed[c], l.committed, l.version,
                   Append(l.speculation, [id |-> x, after |-> Append(Display(l), x)]),
                   rest, w \o <<[id |-> x, base |-> Tip(l), before |-> Display(l)]>>, n)
      <4>1. /\ n \in Nat /\ minted[c] <= n /\ k \in Nat /\ rest \in Seq(Uid) /\ x \in Uid
            /\ \A i \in DOMAIN rest : i + k \in DOMAIN l.rebasing
                                     /\ rest[i] = l.rebasing[i + k] /\ rest[i] # x
        BY <1>1, <2>2, <3>1, <3>5
      <4> QED
        BY <1>1, <1>4, <3>4, <4>1, LoopPushes, Zenon
    <3> QED
      BY <1>3, <2>2, <3>1, <3>2, <3>3, <3>6 DEF Rests
  <2>3. \A k \in DOMAIN l.rebasing : k \in Nat
    BY <1>5
  <2> QED
    BY <2>1, <2>2, <2>3, StepFacts
<1> QED
  BY <1>1, <1>2, <1>4, <1>6, LoopKeeps

LEMMA HearKeeps ==
  ASSUME IInv, TypeOK', NEW c \in Client, HearApplied(c)
  PROVE  IInv'
<1>1. PICK l \in Log, w \in Seq(Dispatch), f \in Seq(Applied), t \in Seq(Uid), v \in Uid :
        l = log[c] /\ w = wire[c] /\ f = feed[c] /\ t = text /\ v = version
  <2>1. version \in Uid
    BY DEF IInv, TypeOK
  <2> QED
    BY <2>1, ClientTypes DEF IInv
<1>2. PICK y \in Uid : y = Head(f).id /\ y = f[1].id /\ f # <<>> /\ 1 \in DOMAIN f
  <2>1. f # <<>> /\ 1 \in DOMAIN f
    BY <1>1 DEF HearApplied
  <2>2. Head(f) = f[1] /\ Head(f) \in Applied
    BY <2>1, TailFacts
  <2> QED
    BY <2>1, <2>2 DEF Applied
<1>3. /\ text' = text /\ version' = version /\ subscribers' = subscribers /\ reloads' = reloads
      /\ minted' = minted /\ wire' = wire /\ feed'[c] = Tail(f)
      /\ log'[c] = IF IsAck(l, y) THEN Ack(l) ELSE Remote(l, y)
      /\ \A d \in Client : d # c => log'[d] = log[d] /\ feed'[d] = feed[d]
  BY <1>1, <1>2 DEF HearApplied, host, IInv, TypeOK
<1>4. /\ c \in subscribers
      /\ MirrorOK(c, t, v, f, l.committed, l.version, l.speculation, l.rebasing, w, minted[c])
  BY <1>1, <1>2, Subscribed
<1>5. PICK com \in Seq(Uid), spec \in Seq(Entry), reb \in Seq(Uid) :
        com = l.committed /\ spec = l.speculation /\ reb = l.rebasing
  BY DEF Log
<1>6. MirrorOK(c, t, v, Tail(f), log'[c].committed, log'[c].version, log'[c].speculation,
               log'[c].rebasing, w, minted[c])
  <2>1. CASE IsAck(l, y)
    <3>1. spec # <<>> /\ spec[1].id = f[1].id
      BY <1>2, <1>5, <2>1 DEF IsAck
    <3>2. PICK new \in Seq(Uid) : new = spec[1].after
      <4>1. 1 \in DOMAIN spec /\ spec[1] \in Entry
        BY <3>1
      <4> QED
        BY <4>1 DEF Entry
    <3>3. MirrorOK(c, t, v, f, com, l.version, spec, reb, w, minted[c])
      BY <1>4, <1>5
    <3>4. MirrorOK(c, t, v, Tail(f), new, spec[1].id, Tail(spec), reb, w, minted[c])
      BY <1>2, <3>1, <3>2, <3>3, MirrorAcks
    <3>5. /\ Ack(l).committed = spec[1].after /\ Ack(l).version = spec[1].id
          /\ Ack(l).speculation = Tail(spec) /\ Ack(l).rebasing = reb
      BY <1>5, <3>1, AckFacts
    <3> QED
      BY <1>3, <2>1, <3>2, <3>4, <3>5
  <2>2. CASE ~IsAck(l, y)
    <3>1. Author(y) # c
      <4> SUFFICES ASSUME Author(y) = c PROVE FALSE
        OBVIOUS
      <4>1. 1 \in DOMAIN spec /\ spec[1].id = f[1].id
        BY <1>2, <1>4, <1>5 DEF MirrorOK, EchoOK
      <4>2. spec # <<>> /\ Head(spec) = spec[1]
        BY <4>1
      <4> QED
        BY <1>2, <1>5, <2>2, <4>1, <4>2 DEF IsAck
    <3>2. PICK all \in Seq(Uid) :
            /\ all = Pending(l) /\ Len(all) = Len(spec) + Len(reb)
            /\ \A i \in DOMAIN spec : all[i] = spec[i].id
            /\ \A i \in DOMAIN reb : all[Len(spec) + i] = reb[i]
      BY <1>5, PendingFacts
    <3>3. MirrorOK(c, t, v, f, com, l.version, spec, reb, w, minted[c]) /\ Distinct(t)
      BY <1>1, <1>4, <1>5 DEF IInv, HostOK
    <3>4. MirrorOK(c, t, v, Tail(f), Append(com, y), y, <<>>, all, w, minted[c])
      <4>1. /\ f[1].id \in Uid /\ f # <<>> /\ Author(f[1].id) # c /\ Distinct(t)
        BY <1>2, <3>1, <3>3
      <4>2. Queues(all, spec, reb)
        BY <3>2, Zenon DEF Queues
      <4> QED
        BY <1>2, <3>3, <4>1, <4>2, MirrorRebases
    <3>5. /\ Remote(l, y).committed = Append(com, y) /\ Remote(l, y).version = y
          /\ Remote(l, y).speculation = <<>> /\ Remote(l, y).rebasing = all
      BY <1>5, <3>2, RemoteFacts
    <3> QED
      BY <1>3, <2>2, <3>4, <3>5
  <2> QED
    BY <2>1, <2>2
<1>7. HostOK(text, version)'
  BY <1>3, HostKeeps DEF IInv
<1>8. ClientInv(c)'
  BY <1>1, <1>3, <1>4, <1>6, Zenon DEF ClientInv
<1>9. ASSUME NEW d \in Client, d # c PROVE ClientInv(d)'
  BY <1>3, <1>9, Untouched DEF IInv
<1> QED
  BY <1>7, <1>8, <1>9 DEF IInv

-----------------------------------------------------------------------------
(***************************************************************************)
(* The invariant, and what follows from it.  Ordered is the hypothesis     *)
(* that one client's dispatches reach the host in the order it sent them;  *)
(* without it the theorems below fail (MCDocSyncUnordered).                *)
(***************************************************************************)

LEMMA InvStep == Ordered /\ IInv /\ [Next]_vars => IInv'
<1> SUFFICES ASSUME Ordered, IInv, [Next]_vars PROVE IInv'
  OBVIOUS
<1>1. TypeOK'
  BY TypeStep DEF IInv
<1>2. CASE ReloadMirror
  BY <1>1, <1>2, ReloadKeeps
<1>3. ASSUME NEW c \in Client, SubscribeDocument(c) PROVE IInv'
  BY <1>1, <1>3, SubscribeKeeps
<1>4. ASSUME NEW c \in Client, DocumentDispatch(c) PROVE IInv'
  BY <1>1, <1>4, DispatchKeeps
<1>5. ASSUME NEW c \in Client, LocalEdit(c) PROVE IInv'
  BY <1>1, <1>5, LocalKeeps
<1>6. ASSUME NEW c \in Client, HearApplied(c) PROVE IInv'
  BY <1>1, <1>6, HearKeeps
<1>7. ASSUME NEW c \in Client, RebaseStep(c) PROVE IInv'
  BY <1>1, <1>7, RebaseKeeps
<1>8. ASSUME NEW c \in Client, ConnectionDies(c) PROVE IInv'
  BY <1>1, <1>8, DeathKeeps
<1>9. CASE UNCHANGED vars
  <2>1. /\ text' = text /\ version' = version /\ subscribers' = subscribers /\ feed' = feed
        /\ wire' = wire /\ log' = log /\ minted' = minted /\ reloads' = reloads
    BY <1>9 DEF vars
  <2>2. HostOK(text, version)'
    <3>1. \A d \in Client : minted'[d] = minted[d] \/ minted'[d] = minted[d] + 1
      BY <2>1
    <3>2. TypeOK /\ HostOK(text, version)
      BY DEF IInv
    <3> QED
      BY <1>1, <2>1, <3>1, <3>2, HostKeeps
  <2>3. \A d \in Client : ClientInv(d)'
    BY <2>1, Untouched DEF IInv
  <2> QED
    BY <1>1, <2>2, <2>3 DEF IInv
<1> QED
  BY <1>2, <1>3, <1>4, <1>5, <1>6, <1>7, <1>8, <1>9 DEF Next

\* The host's text, every feed, every log and every dispatch under way fit
\* together in every state of the system, for any number of clients and edits.
THEOREM InvariantHolds == Ordered => (Spec => []IInv)
<1> SUFFICES ASSUME Ordered PROVE Spec => []IInv
  OBVIOUS
<1>1. IInv /\ [Next]_vars => IInv'
  BY InvStep
<1> QED
  BY <1>1, InvInit, PTL DEF Spec

LEMMA AcceptedFits == Ordered /\ IInv => NothingMisapplies
<1> SUFFICES ASSUME Ordered, IInv, NEW c \in Client, NEW i, i \in Arriving(c), Lineage(wire[c][i])
             PROVE  wire[c][i].before = text
  BY DEF NothingMisapplies
<1> QED
  BY Accepted DEF MadeOn

\* Whatever the host accepts was made on the text it accepts it into, although
\* it compares nothing but names and a carried edit keeps its name
\* (Document::dispatch).
THEOREM AcceptsOnlyWhatFits == Ordered => (Spec => []NothingMisapplies)
<1> SUFFICES ASSUME Ordered PROVE Spec => []NothingMisapplies
  OBVIOUS
<1>1. IInv => NothingMisapplies
  BY AcceptedFits
<1>2. Spec => []IInv
  BY InvariantHolds
<1> QED
  BY <1>1, <1>2, PTL

\* A feed brings a client from what it has folded in to the text of the host.
LEMMA FeedBrings ==
  ASSUME NEW c, NEW t \in Seq(Uid), NEW com \in Seq(Uid), NEW ver, NEW f \in Seq(Applied),
         FeedOK(c, t, com, ver, f)
  PROVE  t = com \o Ids(f)
<1>1. /\ Len(t) = Len(com) + Len(f)
      /\ \A i \in DOMAIN com : t[i] = com[i]
      /\ \A i \in DOMAIN f : t[Len(com) + i] = f[i].id
  BY DEF FeedOK
<1>2. \A i \in DOMAIN f : f[i].id \in Uid
  <2>1. \A i \in DOMAIN f : f[i] \in Applied
    OBVIOUS
  <2> QED
    BY <2>1 DEF Applied
<1>3. PICK s \in Seq(Uid) : s = Ids(f) /\ Len(s) = Len(f) /\ \A i \in DOMAIN f : s[i] = f[i].id
  <2>1. Ids(f) \in Seq(Uid) /\ Len(Ids(f)) = Len(f) /\ \A i \in DOMAIN f : Ids(f)[i] = f[i].id
    BY <1>2 DEF Ids
  <2> QED
    BY <2>1, Zenon
<1>4. PICK u \in Seq(Uid) : /\ u = com \o s /\ Len(u) = Len(com) + Len(s)
                           /\ \A m \in 1..Len(u) :
                                u[m] = IF m <= Len(com) THEN com[m] ELSE s[m - Len(com)]
  <2>1. com \o s \in Seq(Uid) /\ Len(com \o s) = Len(com) + Len(s)
    OBVIOUS
  <2>2. \A m \in 1..Len(com \o s) :
          (com \o s)[m] = IF m <= Len(com) THEN com[m] ELSE s[m - Len(com)]
    BY <2>1
  <2> QED
    BY <2>1, <2>2, Zenon
<1>5. ASSUME NEW m \in 1..Len(t) PROVE t[m] = u[m]
  <2>1. CASE m <= Len(com)
    <3>1. m \in DOMAIN com /\ m \in 1..Len(u)
      BY <1>1, <1>3, <1>4, <2>1
    <3> QED
      BY <1>1, <1>4, <2>1, <3>1
  <2>2. CASE ~(m <= Len(com))
    <3>1. m - Len(com) \in DOMAIN f /\ Len(com) + (m - Len(com)) = m
      BY <1>1, <2>2
    <3>2. t[Len(com) + (m - Len(com))] = f[m - Len(com)].id
      BY <1>1, <3>1
    <3>3. u[m] = s[m - Len(com)]
      BY <1>1, <1>3, <1>4, <2>2
    <3> QED
      BY <1>3, <3>1, <3>2, <3>3
  <2> QED
    BY <2>1, <2>2
<1>6. t = u
  <2>1. Len(t) = Len(u)
    BY <1>1, <1>3, <1>4
  <2> QED
    BY <1>5, <2>1
<1> QED
  BY <1>3, <1>4, <1>6

LEMMA FeedsFit == IInv => StableIsServerHistory
<1> SUFFICES ASSUME IInv, NEW c \in subscribers
             PROVE  /\ text = log[c].committed \o Ids(feed[c])
                    /\ \A i \in DOMAIN feed[c] :
                         feed[c][i].base = IF i = 1 THEN log[c].version ELSE feed[c][i - 1].id
                    /\ version = IF feed[c] = <<>> THEN log[c].version ELSE Last(feed[c]).id
  BY DEF StableIsServerHistory
<1>1. c \in Client
  BY DEF IInv, TypeOK
<1>2. PICK t \in Seq(Uid), f \in Seq(Applied), com \in Seq(Uid), ver \in Uid, v \in Uid :
        t = text /\ f = feed[c] /\ com = log[c].committed /\ ver = log[c].version /\ v = version
  BY <1>1, ClientTypes DEF IInv
<1>3. FeedOK(c, t, com, ver, f) /\ ver = Name(com) /\ v = Name(t)
  BY <1>1, <1>2, Subscribed DEF MirrorOK, LogOK, IInv, HostOK
<1>4. t = com \o Ids(f)
  BY <1>3, FeedBrings
<1>5. \A i \in DOMAIN f : f[i].base = IF i = 1 THEN ver ELSE f[i - 1].id
  BY <1>3 DEF FeedOK
<1>6. v = IF f = <<>> THEN ver ELSE Last(f).id
  <2>1. v = FeedEnd(ver, f)
    BY <1>3, VersionOfFeed
  <2>2. f # <<>> => Last(f) = f[Len(f)]
    BY LastFacts
  <2> QED
    BY <2>1, <2>2 DEF FeedEnd
<1> QED
  BY <1>2, <1>4, <1>5, <1>6, Zenon

\* What a client has folded in is a prefix of the host's text, its feed the
\* rest of it, and every action on the feed names the version it follows.
THEOREM ClientsShareTheHistory == Ordered => (Spec => []StableIsServerHistory)
<1> SUFFICES ASSUME Ordered PROVE Spec => []StableIsServerHistory
  OBVIOUS
<1>1. Spec => []IInv
  BY InvariantHolds
<1> QED
  BY <1>1, FeedsFit, PTL

LEMMA EchoesFit == IInv => EchoIsRecognised
<1> SUFFICES ASSUME IInv, NEW c \in Client, feed[c] # <<>>, Author(Head(feed[c]).id) = c
             PROVE  IsAck(log[c], Head(feed[c]).id)
  BY DEF EchoIsRecognised
<1>1. PICK f \in Seq(Applied), spec \in Seq(Entry) : f = feed[c] /\ spec = log[c].speculation
  BY ClientTypes DEF IInv
<1>2. EchoOK(c, f, spec)
  BY <1>1, Subscribed DEF MirrorOK
<1>3. 1 \in DOMAIN f /\ Head(f) = f[1]
  BY <1>1
<1>4. 1 \in DOMAIN spec /\ spec[1].id = f[1].id
  BY <1>1, <1>2, <1>3 DEF EchoOK
<1>5. spec # <<>> /\ Head(spec) = spec[1]
  BY <1>4
<1> QED
  BY <1>1, <1>3, <1>4, <1>5 DEF IsAck

\* An edit never comes back to the loop that made it as somebody else's
\* (RebaseLog::ack).
THEOREM EchoesAreRecognised == Ordered => (Spec => []EchoIsRecognised)
<1> SUFFICES ASSUME Ordered PROVE Spec => []EchoIsRecognised
  OBVIOUS
<1>1. Spec => []IInv
  BY InvariantHolds
<1> QED
  BY <1>1, EchoesFit, PTL

-----------------------------------------------------------------------------
(***************************************************************************)
(* DocSync implements OrderedEdits: the host's text is the one history,    *)
(* what a client has folded in is how much of it the client has seen, and  *)
(* its pending edits are those of its log.  And nothing that is typed is   *)
(* lost.  Both for any number of clients, edits, reloads and dying         *)
(* connections, as long as the dispatches of one client arrive in order.   *)
(***************************************************************************)
\* What the sequence operators of OrderedEdits answer.

LEMMA HeldIsInRange ==
  ASSUME NEW s, NEW x
  PROVE  x \in Abstract!Range(s) <=> Holds(s, x)
  BY DEF Abstract!Range, Holds

\* q is p without the elements i + 1 to j.
Without(p, q, i, j) ==
  /\ i \in 0..Len(p) /\ j \in 0..Len(p) /\ i <= j
  /\ Len(q) = Len(p) - (j - i)
  /\ \A k \in 1..i : q[k] = p[k]
  /\ \A k \in (j + 1)..Len(p) : q[k - (j - i)] = p[k]

LEMMA SubSeqFacts ==
  ASSUME NEW p \in Seq(Uid), NEW i \in Nat, i <= Len(p)
  PROVE  /\ SubSeq(p, 1, i) \in Seq(Uid) /\ Len(SubSeq(p, 1, i)) = i
         /\ \A k \in 1..i : SubSeq(p, 1, i)[k] = p[k]
         /\ SubSeq(p, i + 1, Len(p)) \in Seq(Uid) /\ Len(SubSeq(p, i + 1, Len(p))) = Len(p) - i
         /\ \A k \in 1..(Len(p) - i) : SubSeq(p, i + 1, Len(p))[k] = p[i + k]
<1>1. Len(p) \in Nat /\ \A k \in 1..Len(p) : p[k] \in Uid
  OBVIOUS
<1>2. /\ SubSeq(p, 1, i) \in Seq(Uid) /\ Len(SubSeq(p, 1, i)) = IF 1 <= i THEN i - 1 + 1 ELSE 0
      /\ \A k \in 1..(i - 1 + 1) : SubSeq(p, 1, i)[k] = p[1 + k - 1]
  <2>1. 1 \in Int /\ i \in Int /\ \A k \in 1..i : p[k] \in Uid
    BY <1>1
  <2> QED
    BY <2>1, SubSeqProperties
<1>3. /\ SubSeq(p, i + 1, Len(p)) \in Seq(Uid)
      /\ Len(SubSeq(p, i + 1, Len(p))) = IF i + 1 <= Len(p) THEN Len(p) - (i + 1) + 1 ELSE 0
      /\ \A k \in 1..(Len(p) - (i + 1) + 1) : SubSeq(p, i + 1, Len(p))[k] = p[(i + 1) + k - 1]
  <2>1. i + 1 \in Int /\ Len(p) \in Int /\ \A k \in (i + 1)..Len(p) : p[k] \in Uid
    BY <1>1
  <2> QED
    BY <2>1, SubSeqProperties
<1>4. /\ Len(SubSeq(p, 1, i)) = i
      /\ Len(SubSeq(p, i + 1, Len(p))) = Len(p) - i
  BY <1>1, <1>2, <1>3
<1>5. ASSUME NEW k \in 1..i PROVE SubSeq(p, 1, i)[k] = p[k]
  <2>1. k \in 1..(i - 1 + 1) /\ 1 + k - 1 = k
    OBVIOUS
  <2> QED
    BY <1>2, <2>1
<1>6. ASSUME NEW k \in 1..(Len(p) - i) PROVE SubSeq(p, i + 1, Len(p))[k] = p[i + k]
  <2>1. k \in 1..(Len(p) - (i + 1) + 1) /\ (i + 1) + k - 1 = i + k
    BY <1>1
  <2> QED
    BY <1>3, <2>1
<1> QED
  BY <1>2, <1>3, <1>4, <1>5, <1>6

LEMMA WithoutFacts ==
  ASSUME NEW p \in Seq(Uid), NEW q \in Seq(Uid), NEW i, NEW j, Without(p, q, i, j)
  PROVE  /\ q = SubSeq(p, 1, i) \o SubSeq(p, j + 1, Len(p))
         /\ \A k \in DOMAIN p : k \in (i + 1)..j \/ Holds(q, p[k])
<1>1. /\ Len(p) \in Nat /\ Len(q) \in Nat /\ DOMAIN p = 1..Len(p) /\ DOMAIN q = 1..Len(q)
      /\ i \in Nat /\ j \in Nat /\ i <= j /\ j <= Len(p)
      /\ Len(q) = Len(p) - (j - i)
      /\ \A k \in 1..i : q[k] = p[k]
      /\ \A k \in (j + 1)..Len(p) : q[k - (j - i)] = p[k]
  BY DEF Without
<1>2. PICK a \in Seq(Uid) : a = SubSeq(p, 1, i) /\ Len(a) = i /\ \A k \in 1..i : a[k] = p[k]
  <2>1. /\ SubSeq(p, 1, i) \in Seq(Uid) /\ Len(SubSeq(p, 1, i)) = i
        /\ \A k \in 1..i : SubSeq(p, 1, i)[k] = p[k]
    BY <1>1, SubSeqFacts
  <2> QED
    BY <2>1, Zenon
<1>3. PICK b \in Seq(Uid) : /\ b = SubSeq(p, j + 1, Len(p)) /\ Len(b) = Len(p) - j
                            /\ \A k \in 1..(Len(p) - j) : b[k] = p[j + k]
  <2>1. /\ SubSeq(p, j + 1, Len(p)) \in Seq(Uid) /\ Len(SubSeq(p, j + 1, Len(p))) = Len(p) - j
        /\ \A k \in 1..(Len(p) - j) : SubSeq(p, j + 1, Len(p))[k] = p[j + k]
    BY <1>1, SubSeqFacts
  <2> QED
    BY <2>1, Zenon
<1>4. PICK r \in Seq(Uid) : /\ r = a \o b /\ Len(r) = Len(a) + Len(b)
                            /\ \A k \in DOMAIN a : r[k] = a[k]
                            /\ \A k \in DOMAIN b : r[Len(a) + k] = b[k]
  <2>1. /\ a \o b \in Seq(Uid)
        /\ Len(a \o b) = Len(a) + Len(b)
        /\ \A k \in DOMAIN a : (a \o b)[k] = a[k]
        /\ \A k \in DOMAIN b : (a \o b)[Len(a) + k] = b[k]
    BY ConcatFacts
  <2> QED
    BY <2>1, Zenon
<1>5. ASSUME NEW k \in 1..Len(q) PROVE q[k] = r[k]
  <2>1. CASE k <= i
    BY <1>1, <1>2, <1>4, <2>1
  <2>2. CASE i < k
    <3>1. /\ k + (j - i) \in (j + 1)..Len(p) /\ (k + (j - i)) - (j - i) = k
          /\ k - i \in 1..(Len(p) - j) /\ j + (k - i) = k + (j - i) /\ i + (k - i) = k
      BY <1>1, <2>2
    <3>2. q[k] = p[k + (j - i)]
      BY <1>1, <3>1
    <3>3. b[k - i] = p[k + (j - i)]
      BY <1>3, <3>1
    <3>4. r[k] = b[k - i]
      <4>1. k - i \in DOMAIN b
        BY <1>3, <3>1
      <4>2. r[Len(a) + (k - i)] = b[k - i]
        BY <1>4, <4>1
      <4> QED
        BY <1>2, <3>1, <4>2
    <3> QED
      BY <3>2, <3>3, <3>4
  <2> QED
    BY <1>1, <2>1, <2>2
<1>6. q = r
  <2>1. Len(q) = Len(r)
    <3>1. Len(a) = i /\ Len(b) = Len(p) - j /\ Len(r) = Len(a) + Len(b)
      BY <1>2, <1>3, <1>4
    <3> QED
      BY <1>1, <3>1
  <2> QED
    BY <1>5, <2>1, SeqEqual
<1>7. ASSUME NEW k \in DOMAIN p, k \notin (i + 1)..j PROVE Holds(q, p[k])
  <2>1. CASE k <= i
    <3>1. k \in DOMAIN q /\ k \in 1..i
      BY <1>1, <2>1
    <3> QED
      BY <1>1, <3>1 DEF Holds
  <2>2. CASE j < k
    <3>1. k - (j - i) \in DOMAIN q /\ k \in (j + 1)..Len(p)
      BY <1>1, <2>2
    <3> QED
      BY <1>1, <3>1 DEF Holds
  <2> QED
    BY <1>1, <1>7, <2>1, <2>2
<1> QED
  BY <1>2, <1>3, <1>4, <1>6, <1>7

-----------------------------------------------------------------------------
\* How a log's pending edits change with its methods.

LEMMA PastTheDropped ==
  ASSUME NEW S \in Nat, NEW R \in Nat, NEW n \in Nat, NEW k \in Nat,
         1 <= n, n <= R, S + n < k, k <= S + R
  PROVE  \E m \in 1..(R - n) : n + m \in 1..R /\ k = S + (n + m) /\ k - (n - 1) = (S + 1) + m
<1>1. k - (S + n) \in 1..(R - n)
  OBVIOUS
<1>2. /\ n + (k - (S + n)) \in 1..R
      /\ k = S + (n + (k - (S + n)))
      /\ k - (n - 1) = (S + 1) + (k - (S + n))
  OBVIOUS
<1> QED
  BY <1>1, <1>2

LEMMA FromTheCarried ==
  ASSUME NEW S \in Nat, NEW R \in Nat, NEW n \in Nat, 1 <= n,
         NEW k \in ((S + n - 1) + 1)..(S + R)
  PROVE  k \in Nat /\ S + n <= k /\ k <= S + R
OBVIOUS

\* The queue's first n - 1 entries are dropped and its n-th joins the
\* speculation.
LEMMA CarriedOne ==
  ASSUME NEW spec \in Seq(Entry), NEW reb \in Seq(Uid), NEW p \in Seq(Uid),
         NEW longer \in Seq(Entry), NEW rest \in Seq(Uid), NEW q \in Seq(Uid), NEW n \in 1..Len(reb),
         Len(p) = Len(spec) + Len(reb),
         \A i \in DOMAIN spec : p[i] = spec[i].id,
         \A i \in DOMAIN reb : p[Len(spec) + i] = reb[i],
         Len(longer) = Len(spec) + 1,
         \A i \in DOMAIN spec : longer[i].id = spec[i].id,
         longer[Len(spec) + 1].id = reb[n],
         Len(rest) = Len(reb) - n, \A i \in 1..(Len(reb) - n) : rest[i] = reb[n + i],
         Len(q) = Len(longer) + Len(rest),
         \A i \in DOMAIN longer : q[i] = longer[i].id,
         \A i \in DOMAIN rest : q[Len(longer) + i] = rest[i]
  PROVE  Without(p, q, Len(spec), Len(spec) + n - 1)
<1>1. PICK S \in Nat, R \in Nat : S = Len(spec) /\ R = Len(reb)
  OBVIOUS
<1>2. /\ n \in Nat /\ 1 <= n /\ n <= R /\ Len(p) = S + R /\ Len(q) = S + 1 + (R - n)
      /\ DOMAIN spec = 1..S /\ DOMAIN reb = 1..R /\ DOMAIN longer = 1..(S + 1)
      /\ DOMAIN rest = 1..(R - n)
  BY <1>1
<1>3. /\ S \in 0..Len(p) /\ S + n - 1 \in 0..Len(p) /\ S <= S + n - 1
      /\ (S + n - 1) - S = n - 1
      /\ Len(q) = Len(p) - ((S + n - 1) - S)
  BY <1>1, <1>2
<1>4. ASSUME NEW k \in 1..S PROVE q[k] = p[k]
  <2>1. k \in DOMAIN spec /\ k \in DOMAIN longer
    BY <1>1, <1>2
  <2> QED
    BY <2>1
<1>5. ASSUME NEW k \in Nat, S + n <= k, k <= S + R
      PROVE  q[k - (n - 1)] = p[k]
  <2>2. CASE k = S + n
    <3>1. k - (n - 1) = S + 1 /\ S + 1 \in DOMAIN longer
      BY <1>1, <1>2, <2>2
    <3>2. p[k] = reb[n] /\ q[S + 1] = longer[S + 1].id
      BY <1>1, <1>2, <2>2, <3>1
    <3> QED
      BY <1>1, <3>1, <3>2
  <2>3. CASE k > S + n
    <3>1. PICK m \in 1..(R - n) : n + m \in 1..R /\ k = S + (n + m) /\ k - (n - 1) = (S + 1) + m
      <4>1. S \in Nat /\ R \in Nat /\ n \in Nat /\ 1 <= n /\ n <= R
        BY <1>1, <1>2
      <4>2. S + n < k
        BY <2>3, <4>1
      <4>3. \E m \in 1..(R - n) : n + m \in 1..R /\ k = S + (n + m) /\ k - (n - 1) = (S + 1) + m
        BY <1>5, <4>1, <4>2, PastTheDropped
      <4> QED
        BY <4>3, Zenon
    <3>2. q[(S + 1) + m] = rest[m] /\ rest[m] = reb[n + m]
      BY <1>1, <1>2, <3>1
    <3>3. p[S + (n + m)] = reb[n + m]
      BY <1>1, <1>2, <3>1
    <3> QED
      BY <3>1, <3>2, <3>3
  <2> QED
    <3>1. k = S + n \/ k > S + n
      <4>1. S \in Nat /\ n \in Nat /\ S + n \in Nat
        BY <1>1, <1>2
      <4>2. S + n <= k /\ k \in Nat
        BY <1>5
      <4> QED
        BY <4>1, <4>2
    <3> QED
      BY <2>2, <2>3, <3>1
<1>6. \A k \in ((S + n - 1) + 1)..Len(p) : q[k - ((S + n - 1) - S)] = p[k]
  <2>1. ASSUME NEW k \in ((S + n - 1) + 1)..Len(p) PROVE k \in Nat /\ S + n <= k /\ k <= S + R
    <3>1. n \in Nat /\ 1 <= n
      BY <1>2
    <3>2. k \in ((S + n - 1) + 1)..(S + R)
      BY <1>2
    <3> QED
      BY <3>1, <3>2, FromTheCarried
  <2> QED
    BY <1>3, <1>5, <2>1
<1> QED
  BY <1>1, <1>3, <1>4, <1>6 DEF Without

LEMMA PendingOfStep ==
  ASSUME NEW l \in Log
  PROVE  \E i, j \in Nat :
           /\ Without(Pending(l), Pending(Step(l).log), i, j)
           /\ i = Len(l.speculation)
           /\ \A k \in (i + 1)..j : k - i \in DOMAIN l.rebasing /\ Collapses(Pending(l)[k], Display(l))
           /\ Step(l).log.committed = l.committed /\ Step(l).log \in Log
<1>1. PICK spec \in Seq(Entry), reb \in Seq(Uid) : spec = l.speculation /\ reb = l.rebasing
  BY DEF Log
<1>2. PICK p \in Seq(Uid) :
        /\ p = Pending(l) /\ Len(p) = Len(spec) + Len(reb)
        /\ \A i \in DOMAIN spec : p[i] = spec[i].id
        /\ \A i \in DOMAIN reb : p[Len(spec) + i] = reb[i]
  BY <1>1, PendingFacts
<1>3. CASE /\ Step(l).log \in Log
           /\ Step(l).log.committed = l.committed
           /\ Step(l).log.speculation = l.speculation
           /\ Step(l).log.rebasing = <<>>
           /\ \A i \in DOMAIN l.rebasing : Collapses(l.rebasing[i], Display(l))
  <2>1. PICK q \in Seq(Uid) : /\ q = Pending(Step(l).log) /\ Len(q) = Len(spec)
                              /\ \A i \in DOMAIN spec : q[i] = spec[i].id
    <3>1. PICK m \in Log : m = Step(l).log
      BY <1>3
    <3>2. m.speculation = spec /\ m.rebasing = <<>>
      BY <1>1, <1>3, <3>1
    <3>3. /\ Pending(m) \in Seq(Uid) /\ Len(Pending(m)) = Len(spec) + Len(<<>>)
          /\ \A i \in DOMAIN spec : Pending(m)[i] = spec[i].id
      BY <3>2, PendingFacts
    <3>4. Len(spec) + Len(<<>>) = Len(spec)
      OBVIOUS
    <3> QED
      BY <3>1, <3>3, <3>4
  <2>2. Without(p, q, Len(spec), Len(p))
    <3>1. /\ Len(spec) \in 0..Len(p) /\ Len(p) \in 0..Len(p) /\ Len(spec) <= Len(p)
          /\ Len(q) = Len(p) - (Len(p) - Len(spec))
      BY <1>2, <2>1
    <3>2. \A k \in 1..Len(spec) : q[k] = p[k]
      BY <1>2, <2>1
    <3>3. \A k \in (Len(p) + 1)..Len(p) : FALSE
      OBVIOUS
    <3> QED
      BY <3>1, <3>2, <3>3 DEF Without
  <2>3. ASSUME NEW k \in (Len(spec) + 1)..Len(p)
        PROVE  k - Len(spec) \in DOMAIN reb /\ Collapses(p[k], Display(l))
    <3>1. k - Len(spec) \in DOMAIN reb /\ Len(spec) + (k - Len(spec)) = k
      BY <1>2
    <3> QED
      BY <1>1, <1>2, <1>3, <3>1
  <2>4. Len(spec) \in Nat /\ Len(p) \in Nat
    OBVIOUS
  <2> QED
    BY <1>1, <1>2, <1>3, <2>1, <2>2, <2>3, <2>4
<1>4. ASSUME NEW n \in DOMAIN l.rebasing,
             /\ Step(l).log \in Log
             /\ Step(l).log.committed = l.committed
             /\ Step(l).log.rebasing = SubSeq(l.rebasing, n + 1, Len(l.rebasing))
             /\ Step(l).log.speculation =
                  Append(l.speculation,
                         [id |-> l.rebasing[n], after |-> Append(Display(l), l.rebasing[n])])
             /\ \A i \in DOMAIN l.rebasing : i < n => Collapses(l.rebasing[i], Display(l))
      PROVE  \E i, j \in Nat :
               /\ Without(Pending(l), Pending(Step(l).log), i, j)
               /\ i = Len(l.speculation)
               /\ \A k \in (i + 1)..j : k - i \in DOMAIN l.rebasing /\ Collapses(Pending(l)[k], Display(l))
               /\ Step(l).log.committed = l.committed /\ Step(l).log \in Log
  <2>1. n \in Nat /\ n \in 1..Len(reb)
    BY <1>1
  <2>2. PICK rest \in Seq(Uid) : /\ rest = SubSeq(reb, n + 1, Len(reb))
                                 /\ Len(rest) = Len(reb) - n
                                 /\ \A i \in 1..(Len(reb) - n) : rest[i] = reb[n + i]
    <3>1. /\ SubSeq(reb, n + 1, Len(reb)) \in Seq(Uid)
          /\ Len(SubSeq(reb, n + 1, Len(reb))) = Len(reb) - n
          /\ \A i \in 1..(Len(reb) - n) : SubSeq(reb, n + 1, Len(reb))[i] = reb[n + i]
      BY <2>1, SubSeqFacts
    <3> QED
      BY <3>1, Zenon
  <2>3. PICK e \in Entry : e = [id |-> reb[n], after |-> Append(Display(l), reb[n])] /\ e.id = reb[n]
    <3>1. reb[n] \in Uid
      BY <2>1
    <3>2. [id |-> reb[n], after |-> Append(Display(l), reb[n])] \in Entry
      BY <3>1, DisplayType, AppendFacts DEF Entry
    <3> QED
      BY <3>2
  <2>4. PICK longer \in Seq(Entry) :
          /\ longer = Append(spec, e) /\ Len(longer) = Len(spec) + 1
          /\ DOMAIN longer = 1..(Len(spec) + 1)
          /\ \A i \in DOMAIN spec : longer[i] = spec[i]
          /\ longer[Len(spec) + 1] = e
    BY AppendFacts
  <2>5. Step(l).log.speculation = longer /\ Step(l).log.rebasing = rest
    BY <1>1, <1>4, <2>2, <2>3, <2>4
  <2>6. PICK q \in Seq(Uid) :
          /\ q = Pending(Step(l).log) /\ Len(q) = Len(longer) + Len(rest)
          /\ \A i \in DOMAIN longer : q[i] = longer[i].id
          /\ \A i \in DOMAIN rest : q[Len(longer) + i] = rest[i]
    BY <1>4, <2>5, PendingFacts
  <2>7. Without(p, q, Len(spec), Len(spec) + n - 1)
    <3>1. e.id = reb[n] /\ longer[Len(spec) + 1].id = reb[n]
      BY <2>3, <2>4
    <3>2. \A i \in DOMAIN spec : longer[i].id = spec[i].id
      BY <2>4
    <3>3. Len(longer) = Len(spec) + 1 /\ Len(rest) = Len(reb) - n
      BY <2>2, <2>4
    <3> QED
      <4>1. n \in 1..Len(reb)
        BY <2>1
      <4>2. Len(p) = Len(spec) + Len(reb)
        BY <1>2
      <4>3. \A i \in DOMAIN spec : p[i] = spec[i].id
        BY <1>2
      <4>4. \A i \in DOMAIN reb : p[Len(spec) + i] = reb[i]
        BY <1>2
      <4>5. \A i \in 1..(Len(reb) - n) : rest[i] = reb[n + i]
        BY <2>2
      <4>6. Len(q) = Len(longer) + Len(rest)
        BY <2>6
      <4>7. \A i \in DOMAIN longer : q[i] = longer[i].id
        BY <2>6
      <4>8. \A i \in DOMAIN rest : q[Len(longer) + i] = rest[i]
        BY <2>6
      <4> QED
        BY <3>1, <3>2, <3>3, <4>1, <4>2, <4>3, <4>4, <4>5, <4>6, <4>7, <4>8, CarriedOne, Zenon
  <2>8. ASSUME NEW k \in (Len(spec) + 1)..(Len(spec) + n - 1)
        PROVE  k - Len(spec) \in DOMAIN reb /\ Collapses(p[k], Display(l))
    <3>1. /\ k - Len(spec) \in DOMAIN reb /\ Len(spec) + (k - Len(spec)) = k /\ k - Len(spec) < n
      BY <2>1
    <3> QED
      BY <1>1, <1>2, <1>4, <3>1
  <2>9. Len(spec) \in Nat /\ Len(spec) + n - 1 \in Nat
    BY <2>1
  <2> QED
    BY <1>1, <1>2, <1>4, <2>6, <2>7, <2>8, <2>9
<1> QED
  BY <1>3, <1>4, StepFacts

LEMMA PendingOfRemote ==
  ASSUME NEW l \in Log, NEW x \in Uid
  PROVE  Pending(Remote(l, x)) = Pending(l)
<1>1. PICK m \in Log : m = Remote(l, x) /\ m.speculation = <<>> /\ m.rebasing = Pending(l)
  BY RemoteFacts
<1>2. PICK p \in Seq(Uid) : p = Pending(l)
  BY PendingFacts
<1>3. PICK q \in Seq(Uid) : /\ q = Pending(m) /\ Len(q) = Len(<<>>) + Len(p)
                            /\ \A i \in DOMAIN p : q[Len(<<>>) + i] = p[i]
  <2>1. m.speculation = <<>> /\ m.rebasing = p
    BY <1>1, <1>2
  <2>2. /\ Pending(m) \in Seq(Uid)
        /\ Len(Pending(m)) = Len(m.speculation) + Len(m.rebasing)
        /\ \A i \in DOMAIN m.speculation : Pending(m)[i] = m.speculation[i].id
        /\ \A i \in DOMAIN m.rebasing : Pending(m)[Len(m.speculation) + i] = m.rebasing[i]
    BY <1>1, PendingFacts
  <2>3. /\ Len(Pending(m)) = Len(<<>>) + Len(p)
        /\ \A i \in DOMAIN p : Pending(m)[Len(<<>>) + i] = p[i]
    BY <2>1, <2>2, Zenon
  <2> QED
    BY <2>2, <2>3, Zenon
<1>4. Len(q) = Len(p)
  BY <1>3
<1>5. \A i \in 1..Len(q) : q[i] = p[i]
  BY <1>3
<1>6. q = p
  BY <1>4, <1>5, SeqEqual
<1> QED
  BY <1>1, <1>2, <1>3, <1>6

LEMMA PendingOfAck ==
  ASSUME NEW l \in Log, NEW x, IsAck(l, x)
  PROVE  /\ Pending(l) # <<>> /\ Head(Pending(l)) = x
         /\ Pending(Ack(l)) = Tail(Pending(l))
<1>1. PICK spec \in Seq(Entry), reb \in Seq(Uid) : spec = l.speculation /\ reb = l.rebasing
  BY DEF Log
<1>2. spec # <<>> /\ Head(spec) = spec[1] /\ spec[1].id = x
  BY <1>1, TailFacts DEF IsAck
<1>3. PICK p \in Seq(Uid) :
        /\ p = Pending(l) /\ Len(p) = Len(spec) + Len(reb)
        /\ \A i \in DOMAIN spec : p[i] = spec[i].id
        /\ \A i \in DOMAIN reb : p[Len(spec) + i] = reb[i]
  BY <1>1, PendingFacts
<1>4. PICK rest \in Seq(Entry) : /\ rest = Tail(spec) /\ Len(rest) = Len(spec) - 1
                                 /\ \A i \in 1..(Len(spec) - 1) : rest[i] = spec[i + 1]
  <2>1. /\ Tail(spec) \in Seq(Entry) /\ Len(Tail(spec)) = Len(spec) - 1
        /\ \A i \in 1..(Len(spec) - 1) : Tail(spec)[i] = spec[i + 1]
    BY <1>2, TailFacts
  <2> QED
    BY <2>1, Zenon
<1>5. PICK m \in Log : m = Ack(l) /\ m.speculation = rest /\ m.rebasing = reb
  BY <1>1, <1>2, <1>4, AckFacts
<1>6. PICK q \in Seq(Uid) :
        /\ q = Pending(m) /\ Len(q) = Len(rest) + Len(reb)
        /\ \A i \in DOMAIN rest : q[i] = rest[i].id
        /\ \A i \in DOMAIN reb : q[Len(rest) + i] = reb[i]
  BY <1>5, PendingFacts
<1>7. p # <<>> /\ Head(p) = x
  <2>1. 1 \in DOMAIN spec /\ Len(p) # 0
    BY <1>2, <1>3
  <2>2. p[1] = x
    BY <1>2, <1>3, <2>1
  <2> QED
    BY <2>1, <2>2
<1>8. PICK r \in Seq(Uid) : /\ r = Tail(p) /\ Len(r) = Len(p) - 1
                            /\ \A i \in 1..(Len(p) - 1) : r[i] = p[i + 1]
  <2>1. /\ Tail(p) \in Seq(Uid) /\ Len(Tail(p)) = Len(p) - 1
        /\ \A i \in 1..(Len(p) - 1) : Tail(p)[i] = p[i + 1]
    BY <1>7, TailFacts
  <2> QED
    BY <2>1, Zenon
<1>9. PICK S \in Nat, R \in Nat : S = Len(spec) /\ R = Len(reb) /\ S > 0
  BY <1>2
<1>10. Len(q) = S - 1 + R /\ Len(r) = S + R - 1 /\ Len(q) = Len(r) /\ Len(rest) = S - 1
  BY <1>3, <1>4, <1>6, <1>8, <1>9
<1>11. ASSUME NEW i \in 1..Len(q) PROVE q[i] = r[i]
  <2>1. i \in Nat /\ 1 <= i /\ i <= S + R - 1 /\ r[i] = p[i + 1]
    BY <1>3, <1>8, <1>9, <1>10
  <2>2. CASE i <= S - 1
    <3>1. i \in DOMAIN rest /\ i + 1 \in DOMAIN spec
      BY <1>9, <1>10, <2>1, <2>2
    <3>2. q[i] = spec[i + 1].id
      BY <1>4, <1>6, <1>9, <2>1, <2>2, <3>1
    <3> QED
      BY <1>3, <2>1, <3>1, <3>2
  <2>3. CASE S <= i
    <3>1. PICK k \in Nat : k = i - (S - 1)
      BY <1>9, <2>1, <2>3
    <3>2. k \in 1..R /\ i = (S - 1) + k /\ i + 1 = S + k
      BY <1>9, <2>1, <2>3, <3>1
    <3>3. k \in DOMAIN reb
      BY <1>9, <3>2
    <3>4. q[(S - 1) + k] = reb[k] /\ p[S + k] = reb[k]
      BY <1>3, <1>6, <1>9, <1>10, <3>3
    <3> QED
      BY <2>1, <3>2, <3>4
  <2> QED
    BY <1>9, <2>1, <2>2, <2>3
<1>12. q = r
  BY <1>10, <1>11, SeqEqual
<1> QED
  BY <1>3, <1>5, <1>6, <1>7, <1>8, <1>12

\* What an edit does to the pending ones: it is the last of them, or there is
\* nothing left for it to do.
LEMMA PendingOfLocal ==
  ASSUME NEW l \in Log, NEW x \in Uid
  PROVE  /\ Local(l, x).log.committed = l.committed
         /\ Local(l, x).log \in Log
         /\ \/ Pending(Local(l, x).log) = Append(Pending(l), x)
            \/ Local(l, x).log = l /\ Collapses(x, Display(l))
<1>1. PICK spec \in Seq(Entry), reb \in Seq(Uid) : spec = l.speculation /\ reb = l.rebasing
  BY DEF Log
<1>2. PICK p \in Seq(Uid) :
        /\ p = Pending(l) /\ Len(p) = Len(spec) + Len(reb)
        /\ \A i \in DOMAIN spec : p[i] = spec[i].id
        /\ \A i \in DOMAIN reb : p[Len(spec) + i] = reb[i]
  BY <1>1, PendingFacts
<1>3. PICK longer \in Seq(Uid) :
        /\ longer = Append(p, x) /\ Len(longer) = Len(p) + 1
        /\ \A i \in DOMAIN p : longer[i] = p[i]
        /\ longer[Len(p) + 1] = x
  BY AppendFacts
<1>4. CASE reb # <<>>
  <2>1. PICK m \in Log : /\ m = Local(l, x).log /\ m.committed = l.committed
                         /\ m.speculation = spec /\ m.rebasing = Append(reb, x)
    <3>1. Append(l.rebasing, x) \in Seq(Uid)
      BY DEF Log
    <3>2. Local(l, x).log = [l EXCEPT !.rebasing = Append(@, x)]
      BY <1>1, <1>4 DEF Local, IsRebasing
    <3> QED
      BY <1>1, <3>1, <3>2 DEF Log
  <2>2. PICK more \in Seq(Uid) :
          /\ more = Append(reb, x) /\ Len(more) = Len(reb) + 1
          /\ \A i \in DOMAIN reb : more[i] = reb[i]
          /\ more[Len(reb) + 1] = x
    BY AppendFacts
  <2>3. PICK q \in Seq(Uid) :
          /\ q = Pending(m) /\ Len(q) = Len(spec) + Len(more)
          /\ \A i \in DOMAIN spec : q[i] = spec[i].id
          /\ \A i \in DOMAIN more : q[Len(spec) + i] = more[i]
    <3>1. m.speculation = spec /\ m.rebasing = more
      BY <2>1, <2>2
    <3>2. /\ Pending(m) \in Seq(Uid)
          /\ Len(Pending(m)) = Len(m.speculation) + Len(m.rebasing)
          /\ \A i \in DOMAIN m.speculation : Pending(m)[i] = m.speculation[i].id
          /\ \A i \in DOMAIN m.rebasing : Pending(m)[Len(m.speculation) + i] = m.rebasing[i]
      BY <2>1, PendingFacts
    <3>3. /\ Len(Pending(m)) = Len(spec) + Len(more)
          /\ \A i \in DOMAIN spec : Pending(m)[i] = spec[i].id
          /\ \A i \in DOMAIN more : Pending(m)[Len(spec) + i] = more[i]
      BY <3>1, <3>2, Zenon
    <3> QED
      BY <3>2, <3>3, Zenon
  <2>4. Len(q) = Len(longer)
    BY <1>2, <1>3, <2>2, <2>3
  <2>5. ASSUME NEW i \in 1..Len(q) PROVE q[i] = longer[i]
    <3>1. CASE i \in DOMAIN spec
      BY <1>2, <1>3, <2>3, <3>1
    <3>2. CASE i \notin DOMAIN spec
      <4>1. PICK S \in Nat, R \in Nat : S = Len(spec) /\ R = Len(reb)
        OBVIOUS
      <4>2. i \in Nat /\ S < i /\ i <= S + R + 1 /\ Len(p) = S + R
        BY <1>2, <2>2, <2>3, <3>2, <4>1
      <4>3. CASE i <= S + R
        <5>0. S \in Nat /\ i \in Nat /\ S < i
          BY <4>1, <4>2
        <5>1. PICK k \in Nat : k = i - S
          BY <5>0
        <5>2. i = S + k /\ k \in 1..R /\ i \in 1..Len(p)
          BY <4>1, <4>2, <4>3, <5>1
        <5>3. k \in DOMAIN reb /\ k \in DOMAIN more /\ i \in DOMAIN p
          BY <2>2, <4>1, <5>2
        <5>4. q[S + k] = reb[k] /\ p[S + k] = reb[k]
          BY <1>2, <2>2, <2>3, <4>1, <5>3
        <5> QED
          BY <1>3, <5>2, <5>3, <5>4
      <4>4. CASE i = S + R + 1
        <5>1. R + 1 \in DOMAIN more /\ S + (R + 1) = i
          BY <2>2, <4>1, <4>4
        <5>2. q[S + (R + 1)] = x /\ longer[i] = x
          BY <1>3, <2>2, <2>3, <4>1, <4>2, <4>4, <5>1
        <5> QED
          BY <5>1, <5>2
      <4>5. i <= S + R \/ i = S + R + 1
        <5>1. S \in Nat /\ R \in Nat /\ i \in Nat /\ i <= S + R + 1
          BY <4>1, <4>2
        <5> QED
          BY ONLY <5>1
      <4> QED
        BY <4>3, <4>4, <4>5, Zenon
    <3> QED
      BY <3>1, <3>2
  <2>6. q = longer
    BY <2>4, <2>5, SeqEqual
  <2> QED
    BY <1>2, <1>3, <2>1, <2>3, <2>6
<1>5. CASE reb = <<>> /\ Push(l, x) = [log |-> l, sent |-> <<>>]
  <2>1. Local(l, x) = Push(l, x)
    BY <1>1, <1>5 DEF Local, IsRebasing
  <2>2. Collapses(x, Display(l))
    <3> SUFFICES ASSUME ~Collapses(x, Display(l)) PROVE FALSE
      OBVIOUS
    <3>1. Push(l, x).sent # <<>>
      BY DEF Push
    <3> QED
      BY <1>5, <3>1
  <2> QED
    BY <1>5, <2>1, <2>2
<1>6. CASE /\ reb = <<>>
           /\ Push(l, x).log \in Log
           /\ Push(l, x).log.committed = l.committed
           /\ Push(l, x).log.rebasing = l.rebasing
           /\ Push(l, x).log.speculation =
                Append(l.speculation, [id |-> x, after |-> Append(Display(l), x)])
  <2>1. PICK e \in Entry : e = [id |-> x, after |-> Append(Display(l), x)] /\ e.id = x
    <3>1. [id |-> x, after |-> Append(Display(l), x)] \in Entry
      BY DisplayType, AppendFacts DEF Entry
    <3> QED
      BY <3>1
  <2>2. PICK more \in Seq(Entry) :
          /\ more = Append(spec, e) /\ Len(more) = Len(spec) + 1
          /\ \A i \in DOMAIN spec : more[i] = spec[i]
          /\ more[Len(spec) + 1] = e
    BY AppendFacts
  <2>3. PICK m \in Log : /\ m = Local(l, x).log /\ m.committed = l.committed
                         /\ m.speculation = more /\ m.rebasing = reb
    BY <1>1, <1>6, <2>1, <2>2 DEF Local, IsRebasing
  <2>4. PICK q \in Seq(Uid) :
          /\ q = Pending(m) /\ Len(q) = Len(more) + Len(reb)
          /\ \A i \in DOMAIN more : q[i] = more[i].id
    BY <2>3, PendingFacts
  <2>5. Len(reb) = 0 /\ Len(q) = Len(spec) + 1 /\ Len(p) = Len(spec)
    BY <1>2, <1>6, <2>2, <2>4
  <2>6. ASSUME NEW i \in 1..Len(q) PROVE q[i] = longer[i]
    <3>1. i \in DOMAIN more
      BY <2>2, <2>5
    <3>2. CASE i \in DOMAIN spec
      BY <1>2, <1>3, <2>2, <2>4, <2>5, <3>1, <3>2
    <3>3. CASE i = Len(spec) + 1
      BY <1>3, <2>1, <2>2, <2>4, <2>5, <3>1, <3>3
    <3> QED
      BY <2>5, <3>2, <3>3
  <2>7. q = longer
    <3>1. Len(q) = Len(longer)
      BY <1>3, <2>5
    <3> QED
      BY <2>6, <3>1, SeqEqual
  <2> QED
    BY <1>2, <1>3, <2>3, <2>4, <2>7
<1> QED
  BY <1>1, <1>4, <1>5, <1>6, PushFacts


-----------------------------------------------------------------------------
\* What a step of DocSync has to do to be a step of OrderedEdits.

\* The clients other than c do not notice.
OthersStay(c) ==
  \A d \in Client : d # c => /\ Pending(log'[d]) = Pending(log[d])
                             /\ Len(log'[d].committed) = Len(log[d].committed)

LEMMA MapInit == Init => Abstract!Init
  BY DEF Init, Abstract!Init, Pending, NewLog

LEMMA MapStutter ==
  ASSUME text' = text, subscribers' = subscribers,
         \A d \in Client : /\ Pending(log'[d]) = Pending(log[d])
                           /\ Len(log'[d].committed) = Len(log[d].committed)
  PROVE  UNCHANGED Abstract!vars
  BY DEF Abstract!vars

LEMMA MapHostCommit ==
  ASSUME NEW x \in Uid, text' = Append(text, x), subscribers' = subscribers, log' = log,
         ~Holds(text, x), \A d \in Client : ~Holds(Pending(log[d]), x)
  PROVE  Abstract!HostCommit(x)
<1>1. x \notin Abstract!Range(text) /\ \A d \in Client : x \notin Abstract!Range(Pending(log[d]))
  BY HeldIsInRange
<1> QED
  BY <1>1 DEF Abstract!HostCommit

LEMMA MapJoin ==
  ASSUME NEW c \in Client, c \notin subscribers, text' = text,
         subscribers' = subscribers \cup {c},
         Len(log'[c].committed) = Len(text), Pending(log'[c]) = Pending(log[c]), OthersStay(c)
  PROVE  Abstract!Join(c)
<1>1. \A d \in Client : Pending(log'[d]) = Pending(log[d])
  BY DEF OthersStay
<1>2. [d \in Client |-> Len(log'[d].committed)]
        = [[d \in Client |-> Len(log[d].committed)] EXCEPT ![c] = Len(text)]
  BY DEF OthersStay
<1> QED
  BY <1>1, <1>2 DEF Abstract!Join

LEMMA MapEdit ==
  ASSUME NEW c \in Client, NEW x \in Uid, c \in subscribers, text' = text, subscribers' = subscribers,
         ~Holds(text, x), \A d \in Client : ~Holds(Pending(log[d]), x),
         Len(log'[c].committed) = Len(log[c].committed),
         Pending(log'[c]) = Append(Pending(log[c]), x), OthersStay(c)
  PROVE  Abstract!Edit(c, x)
<1>1. x \notin Abstract!Range(text) /\ \A d \in Client : x \notin Abstract!Range(Pending(log[d]))
  BY HeldIsInRange
<1>2. [d \in Client |-> Pending(log'[d])]
        = [[d \in Client |-> Pending(log[d])] EXCEPT ![c] = Append(Pending(log[c]), x)]
  BY DEF OthersStay
<1>3. \A d \in Client : Len(log'[d].committed) = Len(log[d].committed)
  BY DEF OthersStay
<1> QED
  BY <1>1, <1>2, <1>3 DEF Abstract!Edit

LEMMA MapCommit ==
  ASSUME NEW c \in Client, NEW k \in DOMAIN Pending(log[c]),
         ~Holds(text, Pending(log[c])[k]),
         \A j \in 1..(k - 1) :
           Holds(SubSeq(text, Len(log[c].committed) + 1, Len(text)), Pending(log[c])[j]),
         text' = Append(text, Pending(log[c])[k]), subscribers' = subscribers, log' = log
  PROVE  Abstract!Commit(c)
<1>1. Pending(log[c])[k] \notin Abstract!Range(text)
  BY HeldIsInRange
<1>2. \A j \in 1..(k - 1) : Pending(log[c])[j] \in Abstract!Range(Abstract!Unseen(c))
  BY HeldIsInRange DEF Abstract!Unseen
<1> QED
  BY <1>1, <1>2 DEF Abstract!Commit

LEMMA MapLearn ==
  ASSUME NEW c \in Client, c \in subscribers, text' = text, subscribers' = subscribers,
         Len(log[c].committed) < Len(text), Len(log'[c].committed) = Len(log[c].committed) + 1,
         \/ /\ Pending(log[c]) # <<>> /\ Head(Pending(log[c])) = text[Len(log[c].committed) + 1]
            /\ Pending(log'[c]) = Tail(Pending(log[c]))
         \/ /\ ~Holds(Pending(log[c]), text[Len(log[c].committed) + 1])
            /\ Pending(log'[c]) = Pending(log[c]),
         OthersStay(c)
  PROVE  Abstract!Learn(c)
<1>1. [d \in Client |-> Len(log'[d].committed)]
        = [[d \in Client |-> Len(log[d].committed)] EXCEPT ![c] = Len(log[c].committed) + 1]
  BY DEF OthersStay
<1>2. CASE /\ Pending(log[c]) # <<>> /\ Head(Pending(log[c])) = text[Len(log[c].committed) + 1]
           /\ Pending(log'[c]) = Tail(Pending(log[c]))
  <2>1. [d \in Client |-> Pending(log'[d])]
          = [[d \in Client |-> Pending(log[d])] EXCEPT ![c] = Tail(Pending(log[c]))]
    BY <1>2 DEF OthersStay
  <2> QED
    BY <1>1, <1>2, <2>1 DEF Abstract!Learn
<1>3. CASE /\ ~Holds(Pending(log[c]), text[Len(log[c].committed) + 1])
           /\ Pending(log'[c]) = Pending(log[c])
  <2>1. \A d \in Client : Pending(log'[d]) = Pending(log[d])
    BY <1>3 DEF OthersStay
  <2>2. text[Len(log[c].committed) + 1] \notin Abstract!Range(Pending(log[c]))
    BY <1>3, HeldIsInRange
  <2> QED
    BY <1>1, <2>1, <2>2 DEF Abstract!Learn
<1> QED
  BY <1>2, <1>3

LEMMA MapWithdraw ==
  ASSUME NEW c \in Client, NEW i, NEW j, text' = text, subscribers' = subscribers,
         Pending(log[c]) \in Seq(Uid), Pending(log'[c]) \in Seq(Uid),
         Without(Pending(log[c]), Pending(log'[c]), i, j),
         \A k \in (i + 1)..j : ~Holds(text, Pending(log[c])[k]),
         Len(log'[c].committed) = Len(log[c].committed), OthersStay(c)
  PROVE  Abstract!Withdraw(c)
<1>1. i \in 0..Len(Pending(log[c])) /\ j \in 0..Len(Pending(log[c])) /\ i <= j
  BY DEF Without
<1>2. \A k \in (i + 1)..j : Pending(log[c])[k] \notin Abstract!Range(text)
  BY HeldIsInRange
<1>3. Pending(log'[c]) = SubSeq(Pending(log[c]), 1, i)
                           \o SubSeq(Pending(log[c]), j + 1, Len(Pending(log[c])))
  BY WithoutFacts
<1>4. [d \in Client |-> Pending(log'[d])]
        = [[d \in Client |-> Pending(log[d])] EXCEPT
             ![c] = SubSeq(Pending(log[c]), 1, i)
                      \o SubSeq(Pending(log[c]), j + 1, Len(Pending(log[c])))]
  BY <1>3 DEF OthersStay
<1>5. \A d \in Client : Len(log'[d].committed) = Len(log[d].committed)
  BY DEF OthersStay
<1> QED
  BY <1>1, <1>2, <1>4, <1>5 DEF Abstract!Withdraw


-----------------------------------------------------------------------------
\* What the invariant says of the pending edits.

LEMMA PendingIsOwn ==
  ASSUME IInv, NEW d \in Client
  PROVE  \A i \in DOMAIN Pending(log[d]) : Own(d, minted[d], Pending(log[d])[i])
<1>1. PICK l \in Log : l = log[d]
  BY ClientTypes DEF IInv
<1>2. PICK spec \in Seq(Entry), reb \in Seq(Uid) : spec = l.speculation /\ reb = l.rebasing
  BY DEF Log
<1>3. PICK p \in Seq(Uid) :
        /\ p = Pending(l) /\ Len(p) = Len(spec) + Len(reb)
        /\ \A i \in DOMAIN spec : p[i] = spec[i].id
        /\ \A i \in DOMAIN reb : p[Len(spec) + i] = reb[i]
  BY <1>2, PendingFacts
<1>4. /\ \A i \in DOMAIN spec : Own(d, minted[d], spec[i].id)
      /\ \A i \in DOMAIN reb : Own(d, minted[d], reb[i])
  <2>1. CASE d \in subscribers
    BY <1>1, <1>2, <2>1, Subscribed DEF MirrorOK, PendingOK
  <2>2. CASE d \notin subscribers
    <3>1. log[d] = NewLog(<<>>, Origin)
      BY <2>2 DEF IInv, ClientInv, Idle
    <3>2. spec = <<>> /\ reb = <<>>
      BY <1>1, <1>2, <3>1 DEF NewLog
    <3> QED
      BY <3>2
  <2> QED
    BY <2>1, <2>2
<1>5. ASSUME NEW i \in DOMAIN p PROVE Own(d, minted[d], p[i])
  <2>1. CASE i \in DOMAIN spec
    BY <1>3, <1>4, <2>1
  <2>2. CASE i \notin DOMAIN spec
    <3>1. i - Len(spec) \in DOMAIN reb /\ Len(spec) + (i - Len(spec)) = i
      BY <1>3, <2>2
    <3> QED
      BY <1>3, <1>4, <3>1
  <2> QED
    BY <2>1, <2>2
<1> QED
  BY <1>1, <1>3, <1>5

\* What still has to cross has not been ordered.
LEMMA QueuedIsNew ==
  ASSUME NEW c, NEW t \in Seq(Uid), NEW v, NEW f \in Seq(Applied), NEW com \in Seq(Uid), NEW ver,
         NEW spec \in Seq(Entry), NEW reb \in Seq(Uid), NEW w, NEW n,
         MirrorOK(c, t, v, f, com, ver, spec, reb, w, n), NEW k \in DOMAIN reb
  PROVE  ~Holds(t, reb[k])
<1> SUFFICES ASSUME NEW m \in DOMAIN t, t[m] = reb[k] PROVE FALSE
  BY DEF Holds
<1>1. /\ Len(t) = Len(com) + Len(f)
      /\ \A i \in DOMAIN com : t[i] = com[i]
      /\ \A i \in DOMAIN f : t[Len(com) + i] = f[i].id
  BY DEF MirrorOK, FeedOK
<1>2. Own(c, n, reb[k]) /\ ~Holds(com, reb[k]) /\ \A i \in DOMAIN spec : spec[i].id # reb[k]
  BY DEF MirrorOK, PendingOK
<1>3. CASE m <= Len(com)
  <2>1. m \in DOMAIN com
    BY <1>3
  <2> QED
    BY <1>1, <1>2, <2>1 DEF Holds
<1>4. CASE ~(m <= Len(com))
  <2>1. m - Len(com) \in DOMAIN f /\ Len(com) + (m - Len(com)) = m
    BY <1>1, <1>4
  <2>2. f[m - Len(com)].id = reb[k]
    BY <1>1, <2>1
  <2>3. m - Len(com) \in DOMAIN spec /\ spec[m - Len(com)].id = reb[k]
    BY <1>2, <2>1, <2>2 DEF MirrorOK, EchoOK, Own
  <2> QED
    BY <1>2, <2>3
<1> QED
  BY <1>3, <1>4

-----------------------------------------------------------------------------
\* Every action of DocSync is an action of OrderedEdits, or a stutter.

LEMMA ReloadMaps ==
  ASSUME IInv, ReloadMirror
  PROVE  \E x \in Uid : Abstract!HostCommit(x)
<1>1. reloads' \in 1..MaxReload /\ reloads' = reloads + 1
  BY BoundsAssumption DEF ReloadMirror, IInv, TypeOK
<1>2. PICK x \in Uid : x = <<Host, reloads'>> /\ Author(x) = Host /\ x[2] = reloads + 1
  <2>1. <<Host, reloads'>> \in Uid
    BY <1>1, UidFacts, BoundsAssumption
  <2> QED
    BY <1>1, <2>1 DEF Author
<1>3. text' = Append(text, x) /\ subscribers' = subscribers /\ log' = log
  BY <1>2 DEF ReloadMirror, Apply
<1>4. ~Holds(text, x)
  <2> SUFFICES ASSUME NEW i \in DOMAIN text, text[i] = x PROVE FALSE
    BY DEF Holds
  <2>1. CASE text[i][2] \in 1..reloads
    BY <1>1, <1>2, <2>1 DEF IInv, TypeOK
  <2>2. CASE \E c \in Client : Own(c, minted[c], text[i])
    BY <1>2, <2>2, AuthorsAssumption DEF Own
  <2> QED
    BY <2>1, <2>2 DEF IInv, HostOK
<1>5. \A d \in Client : ~Holds(Pending(log[d]), x)
  BY <1>2, PendingIsOwn, AuthorsAssumption DEF Own, Holds
<1> QED
  BY <1>2, <1>3, <1>4, <1>5, MapHostCommit

LEMMA SubscribeMaps ==
  ASSUME IInv, NEW c \in Client, SubscribeDocument(c)
  PROVE  Abstract!Join(c)
<1>1. /\ c \notin subscribers /\ subscribers' = subscribers \cup {c} /\ text' = text
      /\ log'[c] = NewLog(text, version) /\ \A d \in Client : d # c => log'[d] = log[d]
  BY DEF SubscribeDocument, IInv, TypeOK
<1>2. log[c] = NewLog(<<>>, Origin)
  BY <1>1 DEF IInv, ClientInv, Idle
<1>3. Pending(log'[c]) = Pending(log[c]) /\ log'[c].committed = text
  BY <1>1, <1>2 DEF NewLog, Pending
<1>4. OthersStay(c)
  BY <1>1 DEF OthersStay
<1> QED
  BY <1>1, <1>3, <1>4, MapJoin

LEMMA LocalMaps ==
  ASSUME IInv, NEW c \in Client, LocalEdit(c)
  PROVE  UNCHANGED Abstract!vars \/ \E x \in Uid : Abstract!Edit(c, x)
<1>1. PICK l \in Log, n \in Nat : l = log[c] /\ n = minted[c]
  BY ClientTypes DEF IInv
<1>2. PICK x \in Uid : x = <<c, n + 1>> /\ Own(c, n + 1, x) /\ ~Own(c, n, x)
  BY <1>1, NewEdit DEF LocalEdit
<1>3. /\ c \in subscribers /\ text' = text /\ subscribers' = subscribers
      /\ log'[c] = Local(l, x).log /\ \A d \in Client : d # c => log'[d] = log[d]
  BY <1>1, <1>2 DEF LocalEdit, Perform, host, IInv, TypeOK
<1>4. OthersStay(c)
  BY <1>3 DEF OthersStay
<1>5. log'[c].committed = log[c].committed
  BY <1>1, <1>3, PendingOfLocal
<1>6. CASE Local(l, x).log = l
  <2>1. \A d \in Client : log'[d] = log[d]
    BY <1>1, <1>3, <1>6
  <2> QED
    BY <1>3, <2>1, MapStutter
<1>7. CASE Pending(Local(l, x).log) = Append(Pending(l), x)
  <2>1. Author(x) = c
    BY <1>2 DEF Own
  <2>2. ~Holds(text, x)
    BY <1>1, <1>2, <2>1, TextFacts DEF IInv, Minted, Holds
  <2>3. ASSUME NEW d \in Client PROVE ~Holds(Pending(log[d]), x)
    <3>1. ~Own(d, minted[d], x)
      BY <1>1, <1>2, <2>1 DEF Own
    <3> QED
      BY <3>1, PendingIsOwn DEF Holds
  <2>4. Pending(log'[c]) = Append(Pending(log[c]), x)
    BY <1>1, <1>3, <1>7
  <2> QED
    BY <1>3, <1>4, <1>5, <2>2, <2>3, <2>4, MapEdit
<1> QED
  BY <1>6, <1>7, PendingOfLocal

LEMMA RebaseMaps ==
  ASSUME IInv, NEW c \in Client, RebaseStep(c)
  PROVE  Abstract!Withdraw(c)
<1>1. PICK l \in Log : l = log[c]
  BY ClientTypes DEF IInv
<1>2. /\ text' = text /\ subscribers' = subscribers /\ log'[c] = Step(l).log
      /\ l.rebasing # <<>> /\ \A d \in Client : d # c => log'[d] = log[d]
  BY <1>1 DEF RebaseStep, Perform, host, IInv, TypeOK, IsRebasing
<1>3. MirrorOK(c, text, version, feed[c], l.committed, l.version, l.speculation, l.rebasing,
               wire[c], minted[c])
  BY <1>1, <1>2, Subscribed
<1>4. \A k \in DOMAIN l.rebasing : ~Holds(text, l.rebasing[k])
  <2>1. PICK t \in Seq(Uid), f \in Seq(Applied), com \in Seq(Uid), spec \in Seq(Entry), reb \in Seq(Uid) :
          /\ t = text /\ f = feed[c] /\ com = l.committed /\ spec = l.speculation
          /\ reb = l.rebasing
    BY <1>1, ClientTypes DEF IInv
  <2>2. MirrorOK(c, t, version, f, com, l.version, spec, reb, wire[c], minted[c])
    BY <1>3, <2>1
  <2>3. \A k \in DOMAIN reb : ~Holds(t, reb[k])
    BY <2>2, QueuedIsNew
  <2> QED
    BY <2>1, <2>3
<1>5. PICK i \in Nat, j \in Nat :
        /\ Without(Pending(l), Pending(Step(l).log), i, j)
        /\ i = Len(l.speculation)
        /\ \A k \in (i + 1)..j : k - i \in DOMAIN l.rebasing
        /\ Step(l).log.committed = l.committed /\ Step(l).log \in Log
  BY PendingOfStep, Zenon
<1>6. ASSUME NEW k \in (i + 1)..j PROVE ~Holds(text, Pending(l)[k])
  <2>1. i + (k - i) = k
    BY <1>5
  <2>2. Pending(l)[i + (k - i)] = l.rebasing[k - i]
    BY <1>5, PendingFacts
  <2> QED
    BY <1>4, <1>5, <2>1, <2>2
<1>7. Pending(log[c]) \in Seq(Uid) /\ Pending(log'[c]) \in Seq(Uid)
  BY <1>1, <1>2, <1>5, PendingFacts
<1>8. OthersStay(c) /\ Len(log'[c].committed) = Len(log[c].committed)
  BY <1>1, <1>2, <1>5 DEF OthersStay
<1>9. Without(Pending(log[c]), Pending(log'[c]), i, j)
  BY <1>1, <1>2, <1>5
<1> QED
  BY <1>1, <1>2, <1>6, <1>7, <1>8, <1>9, MapWithdraw

LEMMA DeathMaps ==
  ASSUME NEW c \in Client, ConnectionDies(c)
  PROVE  UNCHANGED Abstract!vars
  BY MapStutter DEF ConnectionDies, host


\* What the feed brings next is the history's next edit.
LEMMA HearMaps ==
  ASSUME IInv, NEW c \in Client, HearApplied(c)
  PROVE  Abstract!Learn(c)
<1>1. PICK l \in Log, f \in Seq(Applied), t \in Seq(Uid), com \in Seq(Uid), spec \in Seq(Entry) :
        l = log[c] /\ f = feed[c] /\ t = text /\ com = l.committed /\ spec = l.speculation
  BY ClientTypes DEF IInv
<1>2. PICK y \in Uid : y = Head(f).id /\ y = f[1].id /\ f # <<>> /\ 1 \in DOMAIN f
  <2>1. f # <<>> /\ 1 \in DOMAIN f
    BY <1>1 DEF HearApplied
  <2>2. Head(f) = f[1] /\ Head(f) \in Applied
    BY <2>1, TailFacts
  <2> QED
    BY <2>1, <2>2 DEF Applied
<1>3. /\ text' = text /\ subscribers' = subscribers
      /\ log'[c] = IF IsAck(l, y) THEN Ack(l) ELSE Remote(l, y)
      /\ \A d \in Client : d # c => log'[d] = log[d]
  BY <1>1, <1>2 DEF HearApplied, host, IInv, TypeOK
<1>4. /\ c \in subscribers
      /\ MirrorOK(c, t, version, f, com, l.version, spec, l.rebasing, wire[c], minted[c])
  BY <1>1, <1>2, Subscribed
<1>5. Len(com) < Len(t) /\ t[Len(com) + 1] = y
  <2>1. Len(t) = Len(com) + Len(f) /\ \A i \in DOMAIN f : t[Len(com) + i] = f[i].id
    BY <1>4 DEF MirrorOK, FeedOK
  <2>2. Len(f) \in Nat /\ Len(f) > 0
    BY <1>2
  <2> QED
    BY <1>2, <2>1, <2>2
<1>6. OthersStay(c)
  BY <1>3 DEF OthersStay
<1>7. CASE IsAck(l, y)
  <2>1. Pending(l) # <<>> /\ Head(Pending(l)) = y /\ Pending(Ack(l)) = Tail(Pending(l))
    BY <1>7, PendingOfAck
  <2>2. Len(Ack(l).committed) = Len(com) + 1
    <3>1. spec # <<>> /\ 1 \in DOMAIN spec
      BY <1>1, <1>7 DEF IsAck
    <3>2. Ack(l).committed = spec[1].after
      BY <1>1, <3>1, AckFacts
    <3> QED
      BY <1>4, <3>1, <3>2 DEF MirrorOK, LogOK
  <2>3. log'[c] = Ack(l)
    BY <1>3, <1>7
  <2> QED
    BY <1>1, <1>3, <1>4, <1>5, <1>6, <2>1, <2>2, <2>3, MapLearn
<1>8. CASE ~IsAck(l, y)
  <2>1. Author(y) # c
    <3> SUFFICES ASSUME Author(y) = c PROVE FALSE
      OBVIOUS
    <3>1. 1 \in DOMAIN spec /\ spec[1].id = y
      BY <1>2, <1>4 DEF MirrorOK, EchoOK
    <3>2. spec # <<>> /\ Head(spec) = spec[1]
      BY <3>1
    <3> QED
      BY <1>1, <1>8, <3>1, <3>2 DEF IsAck
  <2>2. ~Holds(Pending(l), y)
    BY <1>1, <2>1, PendingIsOwn DEF Own, Holds
  <2>3. log'[c] = Remote(l, y) /\ Pending(log'[c]) = Pending(l)
    BY <1>3, <1>8, PendingOfRemote
  <2>4. Len(log'[c].committed) = Len(com) + 1
    <3>1. Remote(l, y).committed = Append(com, y)
      BY <1>1, RemoteFacts
    <3>2. Len(Append(com, y)) = Len(com) + 1
      BY AppendFacts
    <3> QED
      BY <2>3, <3>1, <3>2
  <2> QED
    BY <1>1, <1>3, <1>4, <1>5, <1>6, <2>2, <2>3, <2>4, MapLearn
<1> QED
  BY <1>7, <1>8

\* A dispatch that is accepted is the client's oldest edit the host does not
\* hold: those before it are echoes on their way.
LEMMA DispatchMaps ==
  ASSUME Ordered, IInv, NEW c \in Client, DocumentDispatch(c)
  PROVE  UNCHANGED Abstract!vars \/ Abstract!Commit(c)
<1>1. PICK i :
        /\ i \in Arriving(c)
        /\ IF Lineage(wire[c][i]) THEN Apply(wire[c][i].id) ELSE UNCHANGED <<text, version, feed>>
        /\ UNCHANGED <<subscribers, log, minted, reloads, deaths>>
  BY DEF DocumentDispatch
<1>2. CASE ~Lineage(wire[c][i])
  BY <1>1, <1>2, MapStutter
<1>3. CASE Lineage(wire[c][i])
  <2>1. PICK l \in Log, f \in Seq(Applied), t \in Seq(Uid), com \in Seq(Uid), spec \in Seq(Entry) :
          l = log[c] /\ f = feed[c] /\ t = text /\ com = l.committed /\ spec = l.speculation
    BY ClientTypes DEF IInv
  <2>2. PICK x \in Uid :
          /\ x = wire[c][i].id
          /\ MirrorOK(c, Append(text, x), x, Append(feed[c], [id |-> x, base |-> version]),
                      log[c].committed, log[c].version, log[c].speculation, log[c].rebasing,
                      Tail(wire[c]), minted[c])
          /\ ~Holds(text, x) /\ Own(c, minted[c], x)
    BY <1>1, <1>3, Accepted
  <2>3. PICK g \in Seq(Applied) :
          /\ g = Append(f, [id |-> x, base |-> version]) /\ Len(g) = Len(f) + 1
          /\ g[Len(f) + 1].id = x /\ \A m \in DOMAIN f : g[m] = f[m]
    <3>1. PICK e \in Applied : e = [id |-> x, base |-> version] /\ e.id = x
      <4>1. [id |-> x, base |-> version] \in Applied /\ [id |-> x, base |-> version].id = x
        BY DEF IInv, TypeOK, Applied
      <4> QED
        BY <4>1, Zenon
    <3>2. /\ Append(f, e) \in Seq(Applied) /\ Len(Append(f, e)) = Len(f) + 1
          /\ \A m \in DOMAIN f : Append(f, e)[m] = f[m]
          /\ Append(f, e)[Len(f) + 1] = e
      BY AppendFacts
    <3> QED
      BY <3>1, <3>2, Zenon
  <2>4. MirrorOK(c, Append(t, x), x, g, com, l.version, spec, l.rebasing, Tail(wire[c]), minted[c])
    BY <2>1, <2>2, <2>3
  <2>5. PICK k \in Nat : k = Len(f) + 1 /\ k \in DOMAIN g
    BY <2>3
  <2>6. k \in DOMAIN spec /\ spec[k].id = x
    BY <2>2, <2>3, <2>4, <2>5 DEF MirrorOK, EchoOK, Own
  <2>7. ASSUME NEW j \in 1..(k - 1)
        PROVE  j \in DOMAIN f /\ j \in DOMAIN spec /\ spec[j].id = f[j].id
    <3>1. j \in DOMAIN f /\ j \in DOMAIN g /\ j < k
      BY <2>3, <2>5
    <3>2. Author(g[j].id) = c
      BY <2>2, <2>3, <2>4, <2>5, <3>1 DEF MirrorOK, FeedOK, Own
    <3> QED
      BY <2>3, <2>4, <3>1, <3>2 DEF MirrorOK, EchoOK
  <2>8. MirrorOK(c, t, version, f, com, l.version, spec, l.rebasing, wire[c], minted[c])
    <3>1. wire[c] # <<>>
      BY <1>1, WireFront DEF IInv
    <3> QED
      BY <2>1, <3>1, Subscribed
  <2>9. /\ Len(t) = Len(com) + Len(f)
        /\ \A m \in DOMAIN f : t[Len(com) + m] = f[m].id
    BY <2>8 DEF MirrorOK, FeedOK
  <2>10. PICK u \in Seq(Uid) :
           /\ u = SubSeq(t, Len(com) + 1, Len(t)) /\ Len(u) = Len(f)
           /\ \A m \in DOMAIN f : u[m] = f[m].id
    <3>1. Len(com) \in Nat /\ Len(com) <= Len(t) /\ Len(t) - Len(com) = Len(f)
      BY <2>9
    <3>2. /\ SubSeq(t, Len(com) + 1, Len(t)) \in Seq(Uid)
          /\ Len(SubSeq(t, Len(com) + 1, Len(t))) = Len(f)
          /\ \A m \in 1..Len(f) : SubSeq(t, Len(com) + 1, Len(t))[m] = t[Len(com) + m]
      BY <3>1, SubSeqFacts
    <3>3. \A m \in DOMAIN f : m \in 1..Len(f)
      OBVIOUS
    <3> QED
      BY <2>9, <3>2, <3>3
  <2>11. PICK p \in Seq(Uid) : /\ p = Pending(l) /\ \A m \in DOMAIN spec : p[m] = spec[m].id
                               /\ Len(p) = Len(spec) + Len(l.rebasing)
    BY <2>1, PendingFacts
  <2>12. k \in DOMAIN p /\ p[k] = x
    <3>1. Len(l.rebasing) \in Nat
      BY DEF Log
    <3> QED
      BY <2>6, <2>11, <3>1
  <2>13. \A j \in 1..(k - 1) : Holds(u, p[j])
    <3>0. DOMAIN u = 1..Len(f)
      BY <2>10
    <3>1. ASSUME NEW j \in 1..(k - 1) PROVE j \in DOMAIN u /\ u[j] = p[j]
      <4>1. j \in DOMAIN f /\ j \in DOMAIN spec /\ spec[j].id = f[j].id
        BY <2>7
      <4>2. j \in DOMAIN u
        BY <3>0, <4>1
      <4>3. u[j] = f[j].id /\ p[j] = spec[j].id
        BY <2>10, <2>11, <4>1
      <4> QED
        BY <4>1, <4>2, <4>3
    <3> QED
      BY <3>1 DEF Holds
  <2>14. text' = Append(text, x) /\ subscribers' = subscribers /\ log' = log
    BY <1>1, <1>3, <2>2 DEF Apply
  <2> QED
    BY <2>1, <2>2, <2>10, <2>11, <2>12, <2>13, <2>14, MapCommit
<1> QED
  BY <1>2, <1>3

LEMMA StepMaps == Ordered /\ IInv /\ [Next]_vars => [Abstract!Next]_(Abstract!vars)
<1> SUFFICES ASSUME Ordered, IInv, [Next]_vars PROVE Abstract!Next \/ UNCHANGED Abstract!vars
  OBVIOUS
<1>1. CASE ReloadMirror
  BY <1>1, ReloadMaps DEF Abstract!Next
<1>2. ASSUME NEW c \in Client, SubscribeDocument(c) PROVE Abstract!Next
  BY <1>2, SubscribeMaps DEF Abstract!Next
<1>3. ASSUME NEW c \in Client, DocumentDispatch(c) PROVE Abstract!Next \/ UNCHANGED Abstract!vars
  BY <1>3, DispatchMaps DEF Abstract!Next
<1>4. ASSUME NEW c \in Client, LocalEdit(c) PROVE Abstract!Next \/ UNCHANGED Abstract!vars
  BY <1>4, LocalMaps DEF Abstract!Next
<1>5. ASSUME NEW c \in Client, HearApplied(c) PROVE Abstract!Next
  BY <1>5, HearMaps DEF Abstract!Next
<1>6. ASSUME NEW c \in Client, RebaseStep(c) PROVE Abstract!Next
  BY <1>6, RebaseMaps DEF Abstract!Next
<1>7. ASSUME NEW c \in Client, ConnectionDies(c) PROVE UNCHANGED Abstract!vars
  BY <1>7, DeathMaps
<1>8. CASE UNCHANGED vars
  BY <1>8, MapStutter DEF vars
<1> QED
  BY <1>1, <1>2, <1>3, <1>4, <1>5, <1>6, <1>7, <1>8 DEF Next

\* The discards, the carrying and the echoes of documents@1 come to one order
\* of edits in which every client's stand once and in the order it made them,
\* and in which nothing the host holds is ever withdrawn.
THEOREM ImplementsOneHistory == Ordered => (Spec => SharesOneHistory)
<1> SUFFICES ASSUME Ordered PROVE Spec => SharesOneHistory
  OBVIOUS
<1>1. IInv /\ [Next]_vars => [Abstract!Next]_(Abstract!vars)
  BY StepMaps
<1>2. Spec => []IInv
  BY InvariantHolds
<1> QED
  BY <1>1, <1>2, MapInit, PTL DEF Spec, SharesOneHistory, Abstract!Spec


-----------------------------------------------------------------------------
(***************************************************************************)
(* Nothing that is typed is lost.  An edit starts pending; it leaves the   *)
(* log when its echo comes, and then the host has it, or when it collapses *)
(* as it crosses, and then something shadows it.                           *)
(***************************************************************************)

Shadowed(id) == \E x \in Uid : <<x, id>> \in Shadows

LEMMA CollapsedIsShadowed ==
  ASSUME NEW id, NEW state, Collapses(id, state)
  PROVE  Shadowed(id)
  BY ShadowsAssumption DEF Collapses, Shadowed

Survives(d, n) ==
  Shadowed(<<d, n>>) \/ Holds(text, <<d, n>>) \/ Holds(Pending(log[d]), <<d, n>>)

LEMMA TypedMeans == TypedSurvives <=> \A d \in subscribers : \A n \in 1..minted[d] : Survives(d, n)
  BY DEF TypedSurvives, Survives, Shadowed, Holds, Range

LEMMA TypedMeansThen ==
  (\A d \in subscribers' : \A n \in 1..minted'[d] : Survives(d, n)') => TypedSurvives'
  BY DEF TypedSurvives, Survives, Shadowed, Holds, Range

\* Whatever the step takes out of d's log is in the text or shadowed.
Accounted(d) ==
  \A i \in DOMAIN Pending(log[d]) :
    \/ Shadowed(Pending(log[d])[i])
    \/ Holds(text', Pending(log[d])[i])
    \/ Holds(Pending(log'[d]), Pending(log[d])[i])

LEMMA StaysTyped ==
  ASSUME NEW d, NEW n, Survives(d, n), Accounted(d),
         \A i \in DOMAIN text : Holds(text', text[i])
  PROVE  Survives(d, n)'
<1>1. CASE Shadowed(<<d, n>>)
  BY <1>1 DEF Survives, Shadowed
<1>2. CASE Holds(text, <<d, n>>)
  <2>1. Holds(text', <<d, n>>)
    BY <1>2 DEF Holds
  <2> QED
    BY <2>1 DEF Survives, Holds
<1>3. CASE Holds(Pending(log[d]), <<d, n>>)
  <2>1. Shadowed(<<d, n>>) \/ Holds(text', <<d, n>>) \/ Holds(Pending(log'[d]), <<d, n>>)
    BY <1>3 DEF Accounted, Holds
  <2> QED
    BY <2>1 DEF Survives, Shadowed, Holds
<1> QED
  BY <1>1, <1>2, <1>3 DEF Survives

LEMMA QuietStays ==
  ASSUME TypedSurvives, subscribers' = subscribers, minted' = minted,
         \A d \in subscribers : Accounted(d), \A i \in DOMAIN text : Holds(text', text[i])
  PROVE  TypedSurvives'
<1>1. ASSUME NEW d \in subscribers', NEW n \in 1..minted'[d] PROVE Survives(d, n)'
  <2>1. d \in subscribers /\ n \in 1..minted[d]
    OBVIOUS
  <2> QED
    BY <2>1, TypedMeans, StaysTyped
<1> QED
  BY <1>1, TypedMeansThen, Zenon

LEMMA SameLogAccounts ==
  ASSUME NEW d, Pending(log'[d]) = Pending(log[d])
  PROVE  Accounted(d)
  BY DEF Accounted, Holds

LEMMA TextGrows ==
  ASSUME TypeOK, NEW x \in Uid, text' = text \/ text' = Append(text, x)
  PROVE  \A i \in DOMAIN text : Holds(text', text[i])
<1>1. PICK t \in Seq(Uid) : t = text
  BY DEF TypeOK
<1>2. \A i \in DOMAIN t : i \in DOMAIN Append(t, x) /\ Append(t, x)[i] = t[i]
  OBVIOUS
<1> QED
  BY <1>1, <1>2 DEF Holds

LEMMA LocalSurvives ==
  ASSUME IInv, TypedSurvives, NEW c \in Client, LocalEdit(c)
  PROVE  TypedSurvives'
<1>1. PICK l \in Log, m \in Nat : l = log[c] /\ m = minted[c]
  BY ClientTypes DEF IInv
<1>2. PICK x \in Uid : x = <<c, m + 1>>
  BY <1>1, NewEdit DEF LocalEdit
<1>3. /\ c \in subscribers /\ text' = text /\ subscribers' = subscribers
      /\ log'[c] = Local(l, x).log /\ minted'[c] = m + 1
      /\ \A d \in Client : d # c => log'[d] = log[d] /\ minted'[d] = minted[d]
  BY <1>1, <1>2 DEF LocalEdit, Perform, host, IInv, TypeOK
<1>4. \A i \in DOMAIN text : Holds(text', text[i])
  BY <1>3 DEF Holds
<1>5. PICK p \in Seq(Uid) : p = Pending(l)
  BY PendingFacts
<1>6. \/ Pending(log'[c]) = Append(p, x)
      \/ Pending(log'[c]) = p /\ Collapses(x, Display(l))
  BY <1>3, <1>5, PendingOfLocal
<1>7. \A i \in DOMAIN p : i \in DOMAIN Append(p, x) /\ Append(p, x)[i] = p[i]
  OBVIOUS
<1>8. Accounted(c)
  BY <1>1, <1>5, <1>6, <1>7 DEF Accounted, Holds
<1>9. Shadowed(x) \/ Holds(Pending(log'[c]), x)
  <2>1. CASE Pending(log'[c]) = Append(p, x)
    <3>1. Len(p) + 1 \in DOMAIN Append(p, x) /\ Append(p, x)[Len(p) + 1] = x
      OBVIOUS
    <3> QED
      BY <2>1, <3>1 DEF Holds
  <2> QED
    BY <1>6, <2>1, CollapsedIsShadowed
<1>10. ASSUME NEW d \in subscribers', NEW n \in 1..minted'[d] PROVE Survives(d, n)'
  <2>1. d \in subscribers /\ d \in Client
    BY <1>3 DEF IInv, TypeOK
  <2>2. CASE d # c
    <3>1. n \in 1..minted[d] /\ Accounted(d)
      BY <1>3, <2>1, <2>2, SameLogAccounts
    <3> QED
      BY <1>4, <2>1, <3>1, TypedMeans, StaysTyped
  <2>3. CASE d = c /\ n \in 1..m
    BY <1>1, <1>4, <1>8, <2>1, <2>3, TypedMeans, StaysTyped
  <2>4. CASE d = c /\ n = m + 1
    <3>1. Shadowed(<<d, n>>) \/ Holds(Pending(log'[d]), <<d, n>>)
      BY <1>2, <1>9, <2>4
    <3> QED
      BY <3>1 DEF Survives, Shadowed, Holds
  <2> QED
    BY <1>3, <2>2, <2>3, <2>4
<1> QED
  BY <1>10, TypedMeansThen, Zenon

LEMMA HearSurvives ==
  ASSUME IInv, TypedSurvives, NEW c \in Client, HearApplied(c)
  PROVE  TypedSurvives'
<1>1. PICK l \in Log, f \in Seq(Applied), t \in Seq(Uid), com \in Seq(Uid), p \in Seq(Uid) :
        l = log[c] /\ f = feed[c] /\ t = text /\ com = l.committed /\ p = Pending(l)
  BY ClientTypes, PendingFacts DEF IInv
<1>2. PICK y \in Uid : y = Head(f).id /\ y = f[1].id /\ f # <<>> /\ 1 \in DOMAIN f
  <2>1. f # <<>> /\ 1 \in DOMAIN f
    BY <1>1 DEF HearApplied
  <2>2. Head(f) = f[1] /\ Head(f) \in Applied
    BY <2>1, TailFacts
  <2> QED
    BY <2>1, <2>2 DEF Applied
<1>3. /\ text' = text /\ subscribers' = subscribers /\ minted' = minted
      /\ log'[c] = IF IsAck(l, y) THEN Ack(l) ELSE Remote(l, y)
      /\ \A d \in Client : d # c => log'[d] = log[d]
  BY <1>1, <1>2 DEF HearApplied, host, IInv, TypeOK
<1>4. Holds(t, y)
  <2>1. FeedOK(c, t, com, l.version, f)
    BY <1>1, <1>2, Subscribed DEF MirrorOK
  <2>2. Len(t) = Len(com) + Len(f) /\ \A i \in DOMAIN f : t[Len(com) + i] = f[i].id
    BY <2>1 DEF FeedOK
  <2>3. Len(f) \in Nat /\ Len(f) > 0
    BY <1>2
  <2>4. Len(com) + 1 \in DOMAIN t /\ t[Len(com) + 1] = y
    BY <1>2, <2>2, <2>3
  <2> QED
    BY <2>4 DEF Holds
<1>5. Accounted(c)
  <2>1. CASE IsAck(l, y)
    <3>1. p # <<>> /\ p[1] = y /\ Pending(log'[c]) = Tail(p)
      BY <1>1, <1>3, <2>1, PendingOfAck
    <3>2. ASSUME NEW i \in DOMAIN p PROVE Holds(t, p[i]) \/ Holds(Tail(p), p[i])
      <4>1. CASE i = 1
        BY <1>4, <3>1, <4>1
      <4>2. CASE i # 1
        <5>1. i - 1 \in 1..(Len(p) - 1) /\ (i - 1) + 1 = i
          BY <4>2
        <5>2. i - 1 \in DOMAIN Tail(p) /\ Tail(p)[i - 1] = p[i]
          BY <3>1, <5>1, TailFacts
        <5> QED
          BY <5>2 DEF Holds
      <4> QED
        BY <4>1, <4>2
    <3> QED
      BY <1>1, <1>3, <3>1, <3>2 DEF Accounted
  <2>2. CASE ~IsAck(l, y)
    <3>1. Pending(log'[c]) = Pending(log[c])
      BY <1>1, <1>3, <2>2, PendingOfRemote
    <3> QED
      BY <3>1, SameLogAccounts
  <2> QED
    BY <2>1, <2>2
<1>6. \A d \in Client : d # c => Accounted(d)
  BY <1>3, SameLogAccounts
<1>7. \A i \in DOMAIN text : Holds(text', text[i])
  BY <1>3 DEF Holds
<1>8. \A d \in subscribers : Accounted(d)
  BY <1>5, <1>6 DEF IInv, TypeOK
<1> QED
  BY <1>3, <1>7, <1>8, QuietStays

LEMMA RebaseSurvives ==
  ASSUME IInv, TypedSurvives, NEW c \in Client, RebaseStep(c)
  PROVE  TypedSurvives'
<1>1. PICK l \in Log : l = log[c]
  BY ClientTypes DEF IInv
<1>2. /\ text' = text /\ subscribers' = subscribers /\ minted' = minted /\ log'[c] = Step(l).log
      /\ \A d \in Client : d # c => log'[d] = log[d]
  BY <1>1 DEF RebaseStep, Perform, host, IInv, TypeOK
<1>3. PICK i \in Nat, j \in Nat :
        /\ Without(Pending(l), Pending(Step(l).log), i, j)
        /\ \A k \in (i + 1)..j : Collapses(Pending(l)[k], Display(l))
        /\ Step(l).log \in Log
  BY PendingOfStep, Zenon
<1>4. PICK p \in Seq(Uid), q \in Seq(Uid) : p = Pending(l) /\ q = Pending(Step(l).log)
  BY <1>3, PendingFacts
<1>5. \A k \in DOMAIN p : k \in (i + 1)..j \/ Holds(q, p[k])
  <2>1. Without(p, q, i, j)
    BY <1>3, <1>4
  <2> QED
    BY <2>1, WithoutFacts
<1>6. Accounted(c)
  BY <1>1, <1>2, <1>3, <1>4, <1>5, CollapsedIsShadowed DEF Accounted
<1>7. \A d \in subscribers : Accounted(d)
  BY <1>2, <1>6, SameLogAccounts DEF IInv, TypeOK
<1>8. \A k \in DOMAIN text : Holds(text', text[k])
  BY <1>2 DEF Holds
<1> QED
  BY <1>2, <1>7, <1>8, QuietStays

LEMMA TypedStep == IInv /\ TypedSurvives /\ [Next]_vars => TypedSurvives'
<1> SUFFICES ASSUME IInv, TypedSurvives, [Next]_vars PROVE TypedSurvives'
  OBVIOUS
<1>1. ASSUME text' = text, subscribers' = subscribers, minted' = minted, log' = log
      PROVE  TypedSurvives'
  <2>1. \A i \in DOMAIN text : Holds(text', text[i])
    BY <1>1 DEF Holds
  <2> QED
    BY <1>1, <2>1, SameLogAccounts, QuietStays
<1>2. ASSUME NEW x \in Uid, Apply(x), subscribers' = subscribers, minted' = minted, log' = log
      PROVE  TypedSurvives'
  <2>1. \A i \in DOMAIN text : Holds(text', text[i])
    BY <1>2, TextGrows DEF Apply, IInv
  <2> QED
    BY <1>2, <2>1, SameLogAccounts, QuietStays
<1>3. CASE ReloadMirror
  <2>1. reloads' \in 0..MaxReload
    BY <1>3, BoundsAssumption DEF ReloadMirror, IInv, TypeOK
  <2>2. <<Host, reloads'>> \in Uid
    BY <2>1, UidFacts
  <2> QED
    BY <1>2, <1>3, <2>2 DEF ReloadMirror
<1>4. ASSUME NEW c \in Client, SubscribeDocument(c) PROVE TypedSurvives'
  <2>1. /\ c \notin subscribers /\ subscribers' = subscribers \cup {c} /\ minted' = minted /\ text' = text
        /\ \A d \in Client : d # c => log'[d] = log[d]
    BY <1>4 DEF SubscribeDocument, IInv, TypeOK
  <2>2. minted[c] = 0
    BY <2>1 DEF IInv, ClientInv, Idle
  <2>3. ASSUME NEW d \in subscribers', NEW n \in 1..minted'[d] PROVE Survives(d, n)'
    <3>1. d # c
      BY <2>1, <2>2, <2>3
    <3>2. d \in subscribers /\ d \in Client /\ n \in 1..minted[d] /\ Accounted(d)
      BY <2>1, <3>1, SameLogAccounts DEF IInv, TypeOK
    <3>3. \A i \in DOMAIN text : Holds(text', text[i])
      BY <2>1 DEF Holds
    <3> QED
      BY <3>2, <3>3, TypedMeans, StaysTyped
  <2> QED
    BY <2>3, TypedMeansThen, Zenon
<1>5. ASSUME NEW c \in Client, DocumentDispatch(c) PROVE TypedSurvives'
  <2>1. PICK i \in Arriving(c) :
          /\ IF Lineage(wire[c][i]) THEN Apply(wire[c][i].id) ELSE UNCHANGED <<text, version, feed>>
          /\ UNCHANGED <<subscribers, log, minted, reloads, deaths>>
    BY <1>5 DEF DocumentDispatch
  <2>2. wire[c][i].id \in Uid
    BY ClientTypes, DispatchTypes DEF IInv, Arriving
  <2> QED
    BY <1>1, <1>2, <2>1, <2>2
<1>6. ASSUME NEW c \in Client, LocalEdit(c) PROVE TypedSurvives'
  BY <1>6, LocalSurvives
<1>7. ASSUME NEW c \in Client, HearApplied(c) PROVE TypedSurvives'
  BY <1>7, HearSurvives
<1>8. ASSUME NEW c \in Client, RebaseStep(c) PROVE TypedSurvives'
  BY <1>8, RebaseSurvives
<1>9. ASSUME NEW c \in Client, ConnectionDies(c) PROVE TypedSurvives'
  BY <1>1, <1>9 DEF ConnectionDies, host
<1>10. CASE UNCHANGED vars
  BY <1>1, <1>10 DEF vars
<1> QED
  BY <1>3, <1>4, <1>5, <1>6, <1>7, <1>8, <1>9, <1>10 DEF Next

\* An edit that nothing can shadow is in the host's text or pending in the log
\* of its client: a foreign action, a discard or a dying connection never costs
\* one (RebaseLog::step drops only what collapses).
THEOREM NothingTypedIsLost == Ordered => (Spec => []TypedSurvives)
<1> SUFFICES ASSUME Ordered PROVE Spec => []TypedSurvives
  OBVIOUS
<1>1. Init => TypedSurvives
  BY DEF Init, TypedSurvives
<1>2. IInv /\ TypedSurvives /\ [Next]_vars => TypedSurvives'
  BY TypedStep
<1>3. Spec => []IInv
  BY InvariantHolds
<1> QED
  BY <1>1, <1>2, <1>3, PTL DEF Spec
=============================================================================
