-------------------------- MODULE EditorSyncProofs --------------------------
(***************************************************************************)
(* The road between the reader and the loop is safe: the seam's number is  *)
(* the number of edits sent, and nothing that was typed is lost on the way *)
(* to the screen or to the disk.  For any number of clients, edits, offers *)
(* and saves, as long as the dispatches of one client arrive in order.     *)
(***************************************************************************)
EXTENDS EditorSync, DocSyncProofs, FiniteSetTheorems

-----------------------------------------------------------------------------
\* Counting the edits of a queue.

Weight(m) == IF m.kind = "edit" THEN 1 ELSE 0

LEMMA CountType ==
  ASSUME NEW S, NEW q \in Seq(S), NEW i
  PROVE  /\ IsFiniteSet(EditsBefore(q, i)) /\ Cardinality(EditsBefore(q, i)) \in Nat
         /\ IsFiniteSet(Edits(q)) /\ Cardinality(Edits(q)) \in Nat
<1>1. IsFiniteSet(1..Len(q))
  <2>1. 1 \in Int /\ Len(q) \in Int
    OBVIOUS
  <2> QED
    BY <2>1, FS_Interval
<1>2. Edits(q) \in SUBSET (1..Len(q)) /\ EditsBefore(q, i) \in SUBSET (1..Len(q))
  BY DEF Edits, EditsBefore
<1>3. IsFiniteSet(Edits(q)) /\ IsFiniteSet(EditsBefore(q, i))
  BY <1>1, <1>2, FS_Subset
<1> QED
  BY <1>3, FS_CardinalityType

LEMMA CountNone ==
  Edits(<<>>) = {} /\ Cardinality(Edits(<<>>)) = 0
<1>1. Edits(<<>>) = {}
  BY DEF Edits
<1> QED
  BY <1>1, FS_EmptySet

LEMMA CountAppend ==
  ASSUME NEW S, NEW q \in Seq(S), NEW m \in S
  PROVE  /\ Cardinality(Edits(Append(q, m))) = Cardinality(Edits(q)) + Weight(m)
         /\ \A i \in DOMAIN q : EditsBefore(Append(q, m), i) = EditsBefore(q, i)
         /\ EditsBefore(Append(q, m), Len(q) + 1) = Edits(q)
<1>1. PICK r \in Seq(S), n \in Nat :
        /\ r = Append(q, m) /\ n = Len(q) /\ DOMAIN q = 1..n /\ DOMAIN r = 1..(n + 1)
        /\ r[n + 1] = m /\ \A i \in 1..n : r[i] = q[i]
  <2>1. Len(q) \in Nat /\ DOMAIN q = 1..Len(q)
    OBVIOUS
  <2>2. /\ Append(q, m) \in Seq(S) /\ DOMAIN Append(q, m) = 1..(Len(q) + 1)
        /\ Append(q, m)[Len(q) + 1] = m /\ \A i \in 1..Len(q) : Append(q, m)[i] = q[i]
    BY <2>1, AppendFacts
  <2> QED
    BY <2>1, <2>2
<1>2. \A i \in 1..n : EditsBefore(r, i) = EditsBefore(q, i)
  BY <1>1 DEF EditsBefore, Edits
<1>3. EditsBefore(r, n + 1) = Edits(q)
  BY <1>1 DEF EditsBefore, Edits
<1>4. n + 1 \notin Edits(q) /\ IsFiniteSet(Edits(q)) /\ Cardinality(Edits(q)) \in Nat
  BY <1>1, CountType DEF Edits
<1>5. Cardinality(Edits(r)) = Cardinality(Edits(q)) + Weight(m)
  <2>1. CASE m.kind = "edit"
    <3>1. Edits(r) = Edits(q) \cup {n + 1}
      BY <1>1, <2>1 DEF Edits
    <3>2. Cardinality(Edits(q) \cup {n + 1}) = Cardinality(Edits(q)) + 1
      BY <1>4, FS_AddElement
    <3> QED
      BY <2>1, <3>1, <3>2 DEF Weight
  <2>2. CASE m.kind # "edit"
    <3>1. Edits(r) = Edits(q)
      BY <1>1, <2>2 DEF Edits
    <3> QED
      BY <1>4, <2>2, <3>1 DEF Weight
  <2> QED
    BY <2>1, <2>2
<1> QED
  BY <1>1, <1>2, <1>3, <1>5

\* Without its first message, each index is one less.
LEMMA CountShift ==
  ASSUME NEW S, NEW q \in Seq(S), q # <<>>, NEW i \in 1..Len(q)
  PROVE  Cardinality(EditsBefore(q, i + 1)) = Cardinality(EditsBefore(Tail(q), i)) + Weight(Head(q))
<1>1. PICK r \in Seq(S), n \in Nat :
        /\ r = Tail(q) /\ n = Len(r) /\ Len(q) = n + 1 /\ DOMAIN q = 1..(n + 1) /\ DOMAIN r = 1..n
        /\ Head(q) = q[1] /\ \A j \in 1..n : r[j] = q[j + 1]
  <2>1. PICK k \in Nat : k = Len(q) /\ k > 0 /\ DOMAIN q = 1..k
    OBVIOUS
  <2>2. /\ Tail(q) \in Seq(S) /\ Len(Tail(q)) = k - 1 /\ DOMAIN Tail(q) = 1..(k - 1)
        /\ \A j \in 1..(k - 1) : Tail(q)[j] = q[j + 1]
        /\ Head(q) = q[1]
    BY <2>1, TailFacts
  <2>3. k - 1 \in Nat /\ k = (k - 1) + 1
    BY <2>1
  <2> QED
    BY <2>1, <2>2, <2>3
<1> DEFINE A == EditsBefore(r, i)
           B == EditsBefore(q, i + 1) \ {1}
           f == [j \in A |-> j + 1]
<1>2. \A j \in A : j \in 1..n /\ j < i /\ r[j].kind = "edit"
  BY <1>1 DEF EditsBefore, Edits
<1>3. \A j \in B : j \in 2..(n + 1) /\ j < i + 1 /\ q[j].kind = "edit"
  BY <1>1 DEF EditsBefore, Edits
<1>4. \A j \in A : j + 1 \in B
  BY <1>1, <1>2 DEF EditsBefore, Edits
<1>5. \A j \in B : j - 1 \in A
  <2> TAKE j \in B
  <2>1. j - 1 \in 1..n /\ j - 1 < i /\ (j - 1) + 1 = j
    BY <1>1, <1>3
  <2>2. r[j - 1] = q[j]
    BY <1>1, <2>1
  <2> QED
    BY <1>1, <1>3, <2>1, <2>2 DEF EditsBefore, Edits
<1>6. ExistsBijection(A, B)
  <2>1. f \in [A -> B]
    BY <1>4
  <2>2. \A x, y \in A : f[x] = f[y] => x = y
    BY <1>2
  <2>3. \A y \in B : \E x \in A : f[x] = y
    <3> TAKE y \in B
    <3>1. y - 1 \in A /\ f[y - 1] = y
      BY <1>3, <1>5
    <3> QED
      BY <3>1
  <2>4. f \in Bijection(A, B)
    BY <2>1, <2>2, <2>3 DEF Bijection, Injection, Surjection, IsInjective
  <2> QED
    BY <2>4 DEF ExistsBijection
<1>7. Cardinality(B) = Cardinality(A)
  <2>1. IsFiniteSet(A)
    BY CountType
  <2> QED
    BY <1>6, <2>1, FS_Bijection
<1>8. /\ IsFiniteSet(EditsBefore(q, i + 1)) /\ Cardinality(EditsBefore(q, i + 1)) \in Nat
      /\ Cardinality(A) \in Nat
  BY CountType
<1>9. Cardinality(B) = IF 1 \in EditsBefore(q, i + 1)
                       THEN Cardinality(EditsBefore(q, i + 1)) - 1 ELSE Cardinality(EditsBefore(q, i + 1))
  BY <1>8, FS_RemoveElement
<1>10. 1 \in EditsBefore(q, i + 1) <=> Head(q).kind = "edit"
  BY <1>1 DEF EditsBefore, Edits
<1> QED
  BY <1>1, <1>7, <1>8, <1>9, <1>10 DEF Weight

LEMMA CountTail ==
  ASSUME NEW S, NEW q \in Seq(S), q # <<>>
  PROVE  /\ Tail(q) \in Seq(S)
         /\ Cardinality(Edits(q)) = Cardinality(Edits(Tail(q))) + Weight(Head(q))
         /\ EditsBefore(q, 1) = {} /\ Cardinality(EditsBefore(q, 1)) = 0
<1>1. PICK r \in Seq(S), n \in Nat :
        r = Tail(q) /\ n = Len(q) /\ n > 0 /\ DOMAIN q = 1..n /\ DOMAIN r = 1..(n - 1)
  <2>1. Len(q) \in Nat /\ Len(q) > 0 /\ DOMAIN q = 1..Len(q)
    OBVIOUS
  <2>2. Tail(q) \in Seq(S) /\ DOMAIN Tail(q) = 1..(Len(q) - 1)
    BY TailFacts
  <2> QED
    BY <2>1, <2>2
<1>2. EditsBefore(q, n + 1) = Edits(q) /\ EditsBefore(r, n) = Edits(r)
  BY <1>1 DEF EditsBefore, Edits
<1>3. Cardinality(EditsBefore(q, n + 1)) = Cardinality(EditsBefore(Tail(q), n)) + Weight(Head(q))
  BY <1>1, CountShift
<1>4. EditsBefore(q, 1) = {}
  BY <1>1 DEF EditsBefore, Edits
<1> QED
  BY <1>1, <1>2, <1>3, <1>4, FS_EmptySet

-----------------------------------------------------------------------------
\* What is kept of an edit, and that a log keeps it.

LEMMA KeptHolds ==
  ASSUME NEW s \in Seq(Uid), NEW id
  PROVE  Kept(id, s) <=> Holds(s, id) \/ \E x \in Uid : Holds(s, x) /\ <<x, id>> \in Shadows
<1>1. id \in Range(s) <=> Holds(s, id)
  BY DEF Holds, Range
<1>2. Collapses(id, s) <=> \E x \in Uid : Holds(s, x) /\ <<x, id>> \in Shadows
  <2>1. \A i \in DOMAIN s : s[i] \in Uid
    OBVIOUS
  <2> QED
    BY <2>1 DEF Collapses, Holds
<1> QED
  BY <1>1, <1>2 DEF Kept

LEMMA AppendHolds ==
  ASSUME NEW S, NEW s \in Seq(S), NEW e \in S
  PROVE  /\ Append(s, e) \in Seq(S) /\ Append(s, e) # <<>> /\ Last(Append(s, e)) = e
         /\ Holds(Append(s, e), e)
         /\ \A x : Holds(s, x) => Holds(Append(s, e), x)
<1>1. PICK n \in Nat : n = Len(s) /\ DOMAIN s = 1..n
  OBVIOUS
<1>2. /\ Append(s, e) \in Seq(S) /\ Len(Append(s, e)) = n + 1 /\ DOMAIN Append(s, e) = 1..(n + 1)
      /\ \A i \in 1..n : Append(s, e)[i] = s[i]
      /\ Append(s, e)[n + 1] = e
  BY <1>1, AppendFacts
<1>3. Append(s, e) # <<>>
  BY <1>1, <1>2
<1>4. Last(Append(s, e)) = e
  BY <1>2, <1>3, LastFacts
<1> QED
  BY <1>1, <1>2, <1>3, <1>4 DEF Holds

LEMMA ConcatHolds ==
  ASSUME NEW S, NEW s \in Seq(S), NEW t \in Seq(S)
  PROVE  \A x : Holds(s \o t, x) <=> Holds(s, x) \/ Holds(t, x)
<1>1. PICK m \in Nat, n \in Nat : m = Len(s) /\ DOMAIN s = 1..m /\ n = Len(t) /\ DOMAIN t = 1..n
  OBVIOUS
<1>2. /\ s \o t \in Seq(S) /\ Len(s \o t) = m + n
      /\ \A i \in 1..m : (s \o t)[i] = s[i]
      /\ \A i \in 1..n : (s \o t)[m + i] = t[i]
  BY <1>1, ConcatFacts
<1>3. DOMAIN (s \o t) = 1..(m + n)
  BY <1>2
<1>4. ASSUME NEW x, Holds(s \o t, x) PROVE Holds(s, x) \/ Holds(t, x)
  <2>1. PICK i \in 1..(m + n) : (s \o t)[i] = x
    BY <1>3, <1>4 DEF Holds
  <2>2. CASE i \in 1..m
    BY <1>1, <1>2, <2>1, <2>2 DEF Holds
  <2>3. CASE i \notin 1..m
    <3>1. i - m \in 1..n /\ m + (i - m) = i
      BY <2>3
    <3>2. t[i - m] = x
      BY <1>2, <2>1, <3>1
    <3> QED
      BY <1>1, <3>1, <3>2 DEF Holds
  <2> QED
    BY <2>2, <2>3
<1>5. ASSUME NEW x, Holds(s, x) PROVE Holds(s \o t, x)
  <2>1. PICK i \in 1..m : s[i] = x
    BY <1>1, <1>5 DEF Holds
  <2>2. i \in 1..(m + n)
    OBVIOUS
  <2> QED
    BY <1>2, <1>3, <2>1, <2>2 DEF Holds
<1>6. ASSUME NEW x, Holds(t, x) PROVE Holds(s \o t, x)
  <2>1. PICK i \in 1..n : t[i] = x
    BY <1>1, <1>6 DEF Holds
  <2>2. m + i \in 1..(m + n) /\ (s \o t)[m + i] = x
    BY <1>2, <2>1
  <2> QED
    BY <1>3, <2>2 DEF Holds
<1> QED
  BY <1>4, <1>5, <1>6

\* What leaves nothing of an edit that left nothing of another leaves nothing
\* of that one either.
LEMMA KeptOn ==
  ASSUME NEW s \in Seq(Uid), NEW t \in Seq(Uid), NEW id \in Uid, Kept(id, s),
         \A x \in Uid : Holds(s, x) => Kept(x, t)
  PROVE  Kept(id, t)
<1>1. CASE Holds(s, id)
  BY <1>1
<1>2. ASSUME NEW x \in Uid, Holds(s, x), <<x, id>> \in Shadows PROVE Kept(id, t)
  <2>1. Holds(t, x) \/ \E y \in Uid : Holds(t, y) /\ <<y, x>> \in Shadows
    BY <1>2, KeptHolds
  <2>2. ASSUME NEW y \in Uid, Holds(t, y), <<y, x>> \in Shadows PROVE Kept(id, t)
    <3>1. <<y, id>> \in Shadows
      BY <1>2, <2>2, CollapseAssumption
    <3> QED
      BY <2>2, <3>1, KeptHolds
  <2>3. CASE Holds(t, x)
    BY <1>2, <2>3, KeptHolds
  <2> QED
    BY <2>1, <2>2, <2>3
<1> QED
  BY <1>1, <1>2, KeptHolds

LEMMA KeptInMore ==
  ASSUME NEW s \in Seq(Uid), NEW t \in Seq(Uid), NEW id, Kept(id, s),
         \A x \in Uid : Holds(s, x) => Holds(t, x)
  PROVE  Kept(id, t)
<1>1. CASE Holds(s, id)
  <2>1. id \in Uid
    BY <1>1 DEF Holds
  <2> QED
    BY <1>1, <2>1, KeptHolds
<1>2. CASE \E x \in Uid : Holds(s, x) /\ <<x, id>> \in Shadows
  BY <1>2, KeptHolds
<1> QED
  BY <1>1, <1>2, KeptHolds

\* All a log has heard of, in the order it would show it.
Whole(l) == Display(l) \o l.rebasing

LEMMA WholeFacts ==
  ASSUME NEW l \in Log
  PROVE  /\ Whole(l) \in Seq(Uid)
         /\ \A x : Holds(Whole(l), x) <=> Holds(Display(l), x) \/ Holds(l.rebasing, x)
<1>1. Display(l) \in Seq(Uid) /\ l.rebasing \in Seq(Uid)
  BY DisplayType DEF Log
<1> QED
  BY <1>1, ConcatFacts, ConcatHolds DEF Whole

LEMMA HeldIsKept ==
  ASSUME NEW s, NEW x, Holds(s, x)
  PROVE  Kept(x, s)
  BY DEF Holds, Kept, Range

\* What collapses on what a log shows is kept by it.
LEMMA CollapsedIsKept ==
  ASSUME NEW l \in Log, NEW id, Collapses(id, Display(l)), NEW m \in Log,
         \A x \in Uid : Holds(Display(l), x) => Holds(Whole(m), x)
  PROVE  Kept(id, Whole(m))
<1>1. Kept(id, Display(l))
  BY DEF Kept
<1>2. Display(l) \in Seq(Uid) /\ Whole(m) \in Seq(Uid)
  BY DisplayType, WholeFacts
<1> QED
  BY <1>1, <1>2, KeptInMore

\* A push puts the edit behind what is shown.
LEMMA PushShows ==
  ASSUME NEW l \in Log, NEW m \in Log, NEW x \in Uid,
         m.committed = l.committed,
         m.speculation = Append(l.speculation, [id |-> x, after |-> Append(Display(l), x)])
  PROVE  /\ Display(m) = Append(Display(l), x)
         /\ \A y : Holds(Display(l), y) => Holds(Whole(m), y)
         /\ Holds(Whole(m), x)
<1> DEFINE E == Append(Display(l), x)
           e == [id |-> x, after |-> E]
<1>1. Display(l) \in Seq(Uid) /\ l.speculation \in Seq(Entry)
  BY DisplayType DEF Log
<1>2. E \in Seq(Uid) /\ Holds(E, x) /\ \A y : Holds(Display(l), y) => Holds(E, y)
  BY <1>1, AppendHolds
<1>3. e \in Entry /\ e.after = E
  BY <1>2 DEF Entry
<1>4. Append(l.speculation, e) # <<>> /\ Last(Append(l.speculation, e)) = e
  <2> HIDE DEF e
  <2> QED
    BY <1>1, <1>3, AppendHolds
<1>5. Display(m) = E
  BY <1>3, <1>4 DEF Display
<1> QED
  BY <1>2, <1>5, WholeFacts

LEMMA LocalKeepsAll ==
  ASSUME NEW l \in Log, NEW id \in Uid, NEW m \in Log, m = Local(l, id).log
  PROVE  /\ m.committed = l.committed
         /\ \A x \in Uid : Holds(Whole(l), x) => Kept(x, Whole(m))
         /\ Kept(id, Whole(m))
<1>1. CASE Local(l, id) = Push(l, id)
  <2>1. CASE Push(l, id) = [log |-> l, sent |-> <<>>]
    <3>1. m = l
      BY <1>1, <2>1
    <3>2. Collapses(id, Display(l))
      <4> SUFFICES ASSUME ~Collapses(id, Display(l)) PROVE FALSE
        OBVIOUS
      <4>1. Push(l, id).sent # <<>>
        BY DEF Push
      <4> QED
        BY <2>1, <4>1
    <3>3. Kept(id, Whole(m))
      BY <3>1, <3>2, WholeFacts, CollapsedIsKept
    <3> QED
      BY <3>1, <3>3, HeldIsKept
  <2>2. CASE /\ Push(l, id).log.committed = l.committed
             /\ Push(l, id).log.rebasing = l.rebasing
             /\ Push(l, id).log.speculation =
                  Append(l.speculation, [id |-> id, after |-> Append(Display(l), id)])
    <3>1. /\ m.committed = l.committed /\ m.rebasing = l.rebasing
          /\ m.speculation = Append(l.speculation, [id |-> id, after |-> Append(Display(l), id)])
      BY <1>1, <2>2
    <3>2. /\ \A y : Holds(Display(l), y) => Holds(Whole(m), y)
          /\ Holds(Whole(m), id)
      BY <3>1, PushShows
    <3>3. \A x : Holds(Whole(l), x) => Holds(Whole(m), x)
      BY <3>1, <3>2, WholeFacts
    <3> QED
      BY <3>1, <3>2, <3>3, HeldIsKept
  <2> QED
    BY <2>1, <2>2, PushFacts
<1>2. CASE Local(l, id) = [log |-> [l EXCEPT !.rebasing = Append(@, id)], sent |-> <<>>]
  <2>1. PICK R \in Seq(Uid) : R = l.rebasing
    BY DEF Log
  <2>2. PICK Q \in Seq(Uid) : Q = Append(R, id) /\ Holds(Q, id) /\ \A x : Holds(R, x) => Holds(Q, x)
    <3>1. Append(R, id) \in Seq(Uid) /\ Holds(Append(R, id), id) /\ \A x : Holds(R, x) => Holds(Append(R, id), x)
      BY AppendHolds
    <3> QED
      BY <3>1
  <2>3. m = [l EXCEPT !.rebasing = Q]
    BY <1>2, <2>1, <2>2
  <2>4. m.committed = l.committed /\ m.speculation = l.speculation /\ m.rebasing = Q
    BY <2>3 DEF Log
  <2>5. Display(m) = Display(l)
    BY <2>4 DEF Display
  <2>6. \A x : Holds(Whole(l), x) => Holds(Whole(m), x)
    BY <2>1, <2>2, <2>4, <2>5, WholeFacts
  <2>7. Holds(Whole(m), id)
    BY <2>2, <2>4, WholeFacts
  <2> QED
    BY <2>4, <2>6, <2>7, HeldIsKept
<1> QED
  BY <1>1, <1>2, LocalFacts

LEMMA StepKeepsAll ==
  ASSUME NEW l \in Log, NEW m \in Log, m = Step(l).log
  PROVE  /\ m.committed = l.committed
         /\ \A x \in Uid : Holds(Whole(l), x) => Kept(x, Whole(m))
<1>1. PICK R \in Seq(Uid) : R = l.rebasing
  BY DEF Log
<1>2. CASE /\ m.committed = l.committed /\ m.speculation = l.speculation /\ m.rebasing = <<>>
           /\ \A i \in DOMAIN R : Collapses(R[i], Display(l))
  <2>1. Display(m) = Display(l)
    BY <1>2 DEF Display
  <2>2. \A x : Holds(Display(l), x) => Holds(Whole(m), x)
    BY <2>1, WholeFacts
  <2>3. ASSUME NEW x \in Uid, Holds(R, x) PROVE Kept(x, Whole(m))
    <3>1. Collapses(x, Display(l))
      BY <1>2, <2>3 DEF Holds
    <3> QED
      BY <2>2, <3>1, CollapsedIsKept
  <2> QED
    BY <1>1, <1>2, <2>2, <2>3, HeldIsKept, WholeFacts
<1>3. ASSUME NEW n \in DOMAIN R,
             m.committed = l.committed, m.rebasing = SubSeq(R, n + 1, Len(R)),
             m.speculation = Append(l.speculation, [id |-> R[n], after |-> Append(Display(l), R[n])]),
             \A i \in DOMAIN R : i < n => Collapses(R[i], Display(l))
      PROVE  \A x \in Uid : Holds(Whole(l), x) => Kept(x, Whole(m))
  <2>1. R[n] \in Uid
    OBVIOUS
  <2>2. /\ \A y : Holds(Display(l), y) => Holds(Whole(m), y)
        /\ Holds(Whole(m), R[n])
    BY <1>3, <2>1, PushShows
  <2>3. ASSUME NEW i \in DOMAIN R PROVE Kept(R[i], Whole(m))
    <3>1. CASE i < n
      BY <1>3, <2>2, <3>1, CollapsedIsKept
    <3>2. CASE i = n
      BY <2>2, <3>2, HeldIsKept
    <3>3. CASE i > n
      <4>1. PICK S \in Seq(Uid) : /\ S = m.rebasing /\ Len(S) = Len(R) - n
                                  /\ \A k \in 1..(Len(R) - n) : S[k] = R[n + k]
        <5>1. /\ SubSeq(R, n + 1, Len(R)) \in Seq(Uid) /\ Len(SubSeq(R, n + 1, Len(R))) = Len(R) - n
              /\ \A k \in 1..(Len(R) - n) : SubSeq(R, n + 1, Len(R))[k] = R[n + k]
          BY SuffixFacts
        <5> QED
          BY <1>3, <5>1
      <4>2. i - n \in 1..(Len(R) - n) /\ n + (i - n) = i
        BY <3>3
      <4>3. DOMAIN S = 1..(Len(R) - n)
        BY <4>1
      <4>4. Holds(S, R[i])
        BY <4>1, <4>2, <4>3 DEF Holds
      <4> QED
        BY <4>1, <4>4, WholeFacts, HeldIsKept
    <3> QED
      BY <3>1, <3>2, <3>3
  <2>4. \A x : Holds(R, x) => Kept(x, Whole(m))
    BY <2>3 DEF Holds
  <2> QED
    BY <1>1, <2>2, <2>4, HeldIsKept, WholeFacts
<1>4. CASE \E n \in DOMAIN R :
             /\ m.committed = l.committed /\ m.rebasing = SubSeq(R, n + 1, Len(R))
             /\ m.speculation = Append(l.speculation, [id |-> R[n], after |-> Append(Display(l), R[n])])
             /\ \A i \in DOMAIN R : i < n => Collapses(R[i], Display(l))
  BY <1>3, <1>4
<1> QED
  BY <1>1, <1>2, <1>4, StepFacts

LEMMA AckKeepsAll ==
  ASSUME NEW l \in Log, NEW m \in Log, m = Ack(l), l.speculation # <<>>
  PROVE  Whole(m) = Whole(l)
<1>1. PICK spec \in Seq(Entry), n \in Nat : spec = l.speculation /\ n = Len(spec) /\ n > 0 /\ DOMAIN spec = 1..n
  BY DEF Log
<1>2. /\ m.committed = spec[1].after /\ m.speculation = Tail(spec) /\ m.rebasing = l.rebasing
  BY <1>1, AckFacts
<1>3. Display(l) = spec[n].after
  BY <1>1, LastFacts DEF Display
<1>4. PICK k \in Nat : n = k + 1
  <2>1. n - 1 \in Nat /\ n = (n - 1) + 1
    BY <1>1
  <2> QED
    BY <2>1
<1>5. PICK rest \in Seq(Entry) : /\ rest = Tail(spec) /\ Len(rest) = k
                                 /\ \A i \in 1..k : rest[i] = spec[i + 1]
  <2>1. /\ Tail(spec) \in Seq(Entry) /\ Len(Tail(spec)) = n - 1
        /\ \A i \in 1..(n - 1) : Tail(spec)[i] = spec[i + 1]
    BY <1>1, TailFacts
  <2>2. n - 1 = k
    BY <1>4
  <2> QED
    BY <2>1, <2>2
<1>6. CASE k = 0
  <2>1. rest = <<>>
    BY <1>5, <1>6
  <2>2. n = 1
    BY <1>4, <1>6
  <2>3. Display(m) = spec[1].after
    BY <1>2, <1>5, <2>1 DEF Display
  <2> QED
    BY <1>2, <1>3, <2>2, <2>3 DEF Whole
<1>7. CASE k # 0
  <2>1. k \in 1..k
    BY <1>7
  <2>2. rest # <<>>
    BY <1>5, <1>7
  <2>4. Last(rest) = rest[k]
    BY <1>5, <2>2, LastFacts
  <2>3. Last(rest) = spec[n]
    BY <1>4, <1>5, <2>1, <2>4
  <2>5. Display(m) = spec[n].after
    BY <1>2, <1>5, <2>2, <2>3 DEF Display
  <2> QED
    BY <1>2, <1>3, <2>5 DEF Whole
<1> QED
  BY <1>6, <1>7

LEMMA RemoteKeepsAll ==
  ASSUME NEW l \in Log, NEW y \in Uid, NEW m \in Log, m = Remote(l, y),
         LogOK(l.committed, l.version, l.speculation)
  PROVE  /\ m.committed # <<>>
         /\ \A x \in Uid : Holds(Whole(l), x) => Kept(x, Whole(m))
<1>1. PICK com \in Seq(Uid), spec \in Seq(Entry), reb \in Seq(Uid), D \in Seq(Uid) :
        /\ com = l.committed /\ spec = l.speculation /\ reb = l.rebasing
        /\ D = Display(l) /\ D = Shown(com, spec)
  BY DisplayShown DEF Log
<1>2. Spells(D, com, spec)
  BY <1>1, LineFacts
<1>3. PICK new \in Seq(Uid) : new = Append(com, y) /\ new # <<>> /\ \A x : Holds(com, x) => Holds(new, x)
  <2>1. Append(com, y) \in Seq(Uid) /\ Append(com, y) # <<>> /\ \A x : Holds(com, x) => Holds(Append(com, y), x)
    BY AppendHolds
  <2> QED
    BY <2>1
<1>4. PICK p \in Seq(Uid), k \in Nat, r \in Nat :
        /\ p = Pending(l) /\ k = Len(spec) /\ r = Len(reb) /\ Len(p) = k + r
        /\ \A i \in DOMAIN spec : p[i] = spec[i].id
        /\ \A i \in DOMAIN reb : p[k + i] = reb[i]
  <2>1. /\ Pending(l) \in Seq(Uid) /\ Len(Pending(l)) = Len(spec) + Len(reb)
        /\ \A i \in DOMAIN spec : Pending(l)[i] = spec[i].id
        /\ \A i \in DOMAIN reb : Pending(l)[Len(spec) + i] = reb[i]
    BY <1>1, PendingFacts
  <2>2. Len(spec) \in Nat /\ Len(reb) \in Nat
    OBVIOUS
  <2> QED
    BY <2>1, <2>2
<1>5. DOMAIN spec = 1..k /\ DOMAIN reb = 1..r /\ DOMAIN p = 1..(k + r)
  BY <1>4
<1>6. /\ m.committed = new /\ m.rebasing = p /\ Display(m) = new
  BY <1>1, <1>3, <1>4, RemoteFacts DEF Display
<1>7. ASSUME NEW j \in DOMAIN spec PROVE Holds(p, spec[j].id)
  <2>1. j \in DOMAIN p
    BY <1>5
  <2> QED
    BY <1>4, <2>1 DEF Holds
<1>8. ASSUME NEW j \in DOMAIN reb PROVE Holds(p, reb[j])
  <2>1. k + j \in DOMAIN p
    BY <1>5
  <2> QED
    BY <1>4, <2>1 DEF Holds
<1>9. ASSUME NEW j \in DOMAIN D PROVE Holds(new, D[j]) \/ Holds(p, D[j])
  <2>1. CASE j \in DOMAIN com /\ D[j] = com[j]
    BY <1>3, <2>1 DEF Holds
  <2>2. CASE j - Len(com) \in DOMAIN spec /\ D[j] = spec[j - Len(com)].id
    BY <1>7, <2>2
  <2> QED
    BY <1>2, <2>1, <2>2, LineElements
<1>10. \A x : Holds(Whole(l), x) => Holds(Whole(m), x)
  <2>1. \A x : Holds(D, x) => Holds(new, x) \/ Holds(p, x)
    BY <1>9 DEF Holds
  <2>2. \A x : Holds(reb, x) => Holds(p, x)
    BY <1>8 DEF Holds
  <2> QED
    BY <1>1, <1>6, <2>1, <2>2, WholeFacts
<1> QED
  BY <1>3, <1>6, <1>10, HeldIsKept

-----------------------------------------------------------------------------
(***************************************************************************)
(* The inductive invariant.  Its parts are predicates of values: n the     *)
(* edits the loop has minted, l its log, q the queue, len the length of    *)
(* the editor's log.                                                       *)
(***************************************************************************)

\* The seam and the loop count the same edits.
CountOK(n, len, tk, seenL, q) ==
  /\ seenL = n
  /\ len - tk = n + Cardinality(Edits(q))
  /\ n + Cardinality(Edits(q)) <= MaxLocal

\* A save covers no edit that comes behind its marker.
FlushOK(n, q, fl, ld) ==
  /\ \A i \in DOMAIN q : q[i].kind = "flush" => q[i].edits <= n + Cardinality(EditsBefore(q, i))
  /\ \A e \in fl \cup ld : e <= n

LoopOK(c, n, l) == \A k \in 1..n : Kept(<<c, k>>, Whole(l))

OffersOK(c, off) ==
  \A i \in DOMAIN off : /\ off[i].state.log # <<>>
                        /\ \A k \in 1..off[i].seen : Kept(<<c, k>>, off[i].state.text)

OwedOK(owed, out, com) == owed \/ out # {} => com # <<>>

ShownOK(c, first, last, shown) == \A k \in first + 1..last : Kept(<<c, k>>, shown)

SavedOK(c, ld, t) == \A e \in ld : \A k \in 1..e : Kept(<<c, k>>, t)

Synced(c) ==
  /\ CountOK(minted[c], Len(editor[c].log), taken[c], seenLocal[c], queue[c])
  /\ FlushOK(minted[c], queue[c], flushes[c], landed[c])
  /\ LoopOK(c, minted[c], log[c])
  /\ OffersOK(c, offers[c])
  /\ OwedOK(dirty[c], outstanding[c], log[c].committed)
  /\ ShownOK(c, early[c], minted[c] + Cardinality(Edits(queue[c])), editor[c].text)
  /\ SavedOK(c, landed[c], text)

SeatOK(c) == IF c \in subscribers THEN Synced(c) ELSE NotSynced(c)

EIInv == EditorTypeOK /\ \A c \in Client : SeatOK(c)

\* Every action here is one of the loop's and the host's, or none of theirs.
LEMMA EditorIsDocSync == [EditorNext]_editorVars => [Next]_vars
<1> SUFFICES ASSUME [EditorNext]_editorVars PROVE [Next]_vars
  OBVIOUS
<1>1. CASE UNCHANGED editorVars
  BY <1>1 DEF editorVars, vars
<1>2. CASE Elsewhere(ReloadMirror)
  BY <1>2 DEF Elsewhere, Next
<1>3. ASSUME NEW c \in Client,
             \/ Elsewhere(DocumentDispatch(c)) \/ Elsewhere(ConnectionDies(c))
             \/ AdoptSnapshot(c) \/ HearEdit(c) \/ HearAction(c) \/ StepLoop(c)
      PROVE  Next
  BY <1>3 DEF Elsewhere, AdoptSnapshot, HearEdit, HearAction, StepLoop, Next
<1>4. ASSUME NEW c \in Client,
             Changed(c) \/ StoreHandle(c) \/ ApplyOffer(c) \/ HearTook(c) \/ HearFlush(c)
      PROVE  UNCHANGED vars
  BY <1>4 DEF Changed, StoreHandle, ApplyOffer, HearTook, HearFlush
<1> QED
  BY <1>1, <1>2, <1>3, <1>4 DEF EditorNext

LEMMA InvMeans == EIInv => EditorInv /\ TypingSurvives
<1> SUFFICES ASSUME EIInv PROVE EditorInv /\ TypingSurvives
  OBVIOUS
<1>1. EditorTypeOK /\ subscribers \subseteq Client
  BY DEF EIInv, EditorTypeOK, TypeOK
<1>2. \A c \in Client \ subscribers : NotSynced(c)
  BY DEF EIInv, SeatOK
<1>3. ASSUME NEW c \in subscribers
      PROVE  /\ Sent(c) = seenLocal[c] + Cardinality(Edits(queue[c]))
             /\ EditsAreCounted(c) /\ FlushesFollowTheirEdits(c)
             /\ LoopKeepsTyping(c) /\ OffersKeepTyping(c)
             /\ \A n \in early[c] + 1..Typed(c) : Kept(<<c, n>>, editor[c].text)
             /\ \A edits \in landed[c] : \A n \in 1..edits : Kept(<<c, n>>, text)
  <2>1. Synced(c)
    BY <1>1 DEF EIInv, SeatOK
  <2>2. Typed(c) = minted[c] + Cardinality(Edits(queue[c]))
    BY DEF Typed
  <2>3. Sent(c) = seenLocal[c] + Cardinality(Edits(queue[c])) /\ EditsAreCounted(c)
    BY <2>1, <2>2 DEF Synced, CountOK, Sent, EditsAreCounted
  <2>4. FlushesFollowTheirEdits(c)
    BY <2>1 DEF Synced, FlushOK, FlushesFollowTheirEdits
  <2>5. LoopKeepsTyping(c)
    BY <2>1 DEF Synced, LoopOK, Whole, LoopKeepsTyping
  <2>6. OffersKeepTyping(c)
    BY <2>1 DEF Synced, OffersOK, OwedOK, OffersKeepTyping
  <2>7. \A n \in early[c] + 1..Typed(c) : Kept(<<c, n>>, editor[c].text)
    BY <2>1, <2>2 DEF Synced, ShownOK
  <2>8. \A edits \in landed[c] : \A n \in 1..edits : Kept(<<c, n>>, text)
    BY <2>1 DEF Synced, SavedOK
  <2> QED
    BY <2>3, <2>4, <2>5, <2>6, <2>7, <2>8
<1>4. EditorInv
  BY <1>1, <1>2, <1>3 DEF EditorInv, SeamCountsWhatItSent
<1>5. EditorKeepsTyping
  BY <1>3 DEF EditorKeepsTyping
<1>6. SavesWhatWasTyped
  <2> SUFFICES ASSUME NEW c \in Client, NEW edits \in landed[c], NEW n \in 1..edits
               PROVE  Kept(<<c, n>>, text)
    BY DEF SavesWhatWasTyped
  <2>1. CASE c \in subscribers
    BY <1>3, <2>1
  <2>2. CASE c \notin subscribers
    BY <1>2, <2>2 DEF NotSynced
  <2> QED
    BY <2>1, <2>2
<1> QED
  BY <1>4, <1>5, <1>6 DEF TypingSurvives

LEMMA EditorInvInit == EditorInit => EIInv
<1> SUFFICES ASSUME EditorInit PROVE EIInv
  OBVIOUS
<1>1. TypeOK /\ subscribers = {}
  BY TypeInit DEF EditorInit, Init
<1>2. MaxLocal \in Nat /\ MaxSaves \in Nat /\ MaxEarly \in Nat /\ Cardinality({}) = 0
  BY BoundsAssumption, SavesAssumption, FS_EmptySet
<1>3. EditorTypeOK
  <2>1. [text |-> <<>>, log |-> <<>>] \in State
    BY DEF State
  <2> QED
    BY <1>1, <1>2, <2>1 DEF EditorInit, EditorTypeOK
<1>4. \A c \in Client : NotSynced(c)
  BY <1>2 DEF EditorInit, NotSynced
<1> QED
  BY <1>1, <1>3, <1>4 DEF EIInv, SeatOK

-----------------------------------------------------------------------------
\* A client is disturbed by its own steps alone.

Grows == \A x : Holds(text, x) => Holds(text', x)

LEMMA TextOnlyGrows ==
  ASSUME TypeOK, [Next]_vars
  PROVE  Grows
<1>1. ASSUME NEW x \in Uid, Apply(x) PROVE Grows
  BY <1>1, AppendHolds DEF Apply, Grows, TypeOK
<1>2. ASSUME text' = text PROVE Grows
  BY <1>2 DEF Grows
<1>3. CASE ReloadMirror
  <2>1. reloads' \in 0..MaxReload
    BY <1>3, BoundsAssumption DEF ReloadMirror, TypeOK
  <2> QED
    BY <1>1, <1>3, <2>1, UidFacts DEF ReloadMirror
<1>4. ASSUME NEW c \in Client, DocumentDispatch(c) PROVE Grows
  <2>1. PICK i \in Arriving(c) :
          IF Lineage(wire[c][i]) THEN Apply(wire[c][i].id) ELSE UNCHANGED <<text, version, feed>>
    BY <1>4 DEF DocumentDispatch
  <2>2. wire[c][i].id \in Uid
    BY ClientTypes, DispatchTypes DEF Arriving
  <2> QED
    BY <1>1, <1>2, <2>1, <2>2
<1>5. ASSUME NEW c \in Client,
             \/ SubscribeDocument(c) \/ LocalEdit(c) \/ HearApplied(c)
             \/ RebaseStep(c) \/ ConnectionDies(c)
      PROVE  text' = text
  BY <1>5 DEF SubscribeDocument, LocalEdit, HearApplied, RebaseStep, ConnectionDies, host
<1>6. CASE UNCHANGED vars
  BY <1>2, <1>6 DEF vars
<1> QED
  BY <1>2, <1>3, <1>4, <1>5, <1>6 DEF Next

Undisturbed(d) ==
  /\ editor'[d] = editor[d] /\ taken'[d] = taken[d] /\ offers'[d] = offers[d]
  /\ seenLocal'[d] = seenLocal[d] /\ dirty'[d] = dirty[d] /\ outstanding'[d] = outstanding[d]
  /\ flushes'[d] = flushes[d] /\ landed'[d] = landed[d]
  /\ queue'[d] = queue[d] /\ early'[d] = early[d]
  /\ minted'[d] = minted[d] /\ log'[d] = log[d]
  /\ d \in subscribers' <=> d \in subscribers

LEMMA SavedStays ==
  ASSUME TypeOK, TypeOK', Grows, NEW c, NEW ld, SavedOK(c, ld, text)
  PROVE  SavedOK(c, ld, text')
<1>1. text \in Seq(Uid) /\ text' \in Seq(Uid)
  BY DEF TypeOK
<1> QED
  BY <1>1, KeptInMore DEF SavedOK, Grows

LEMMA UndisturbedKeeps ==
  ASSUME TypeOK, TypeOK', Grows, NEW d \in Client, SeatOK(d), Undisturbed(d)
  PROVE  SeatOK(d)'
<1>1. CASE d \in subscribers
  <2>1. Synced(d)
    BY <1>1 DEF SeatOK
  <2>2. SavedOK(d, landed[d], text')
    BY <2>1, SavedStays DEF Synced
  <2>3. Synced(d)'
    BY <2>1, <2>2 DEF Synced, Undisturbed
  <2> QED
    BY <1>1, <2>3 DEF SeatOK, Undisturbed
<1>2. CASE d \notin subscribers
  <2>1. NotSynced(d)
    BY <1>2 DEF SeatOK
  <2>2. NotSynced(d)'
    BY <2>1 DEF NotSynced, Undisturbed
  <2> QED
    BY <1>2, <2>2 DEF SeatOK, Undisturbed
<1> QED
  BY <1>1, <1>2

LEMMA OneMoves ==
  ASSUME EIInv, EditorTypeOK', Grows, NEW c \in Client, SeatOK(c)',
         \A d \in Client : d # c => Undisturbed(d)
  PROVE  EIInv'
<1>1. TypeOK /\ TypeOK' /\ \A d \in Client : SeatOK(d)
  BY DEF EIInv, EditorTypeOK
<1>2. \A d \in Client : d # c => SeatOK(d)'
  BY <1>1, UndisturbedKeeps
<1>3. \A d \in Client : SeatOK(d)'
  BY <1>2
<1> QED
  BY <1>3 DEF EIInv

\* What the host and the wire do concerns nobody here.
LEMMA NobodyMoves ==
  ASSUME EIInv, TypeOK', Grows, log' = log, minted' = minted, subscribers' = subscribers,
         UNCHANGED <<seam, driver, queue, saves, snap, early, carries>>
  PROVE  EIInv'
<1>1. TypeOK /\ TypeOK' /\ \A d \in Client : SeatOK(d)
  BY DEF EIInv, EditorTypeOK
<1>2. \A d \in Client : Undisturbed(d)
  BY DEF Undisturbed, seam, driver
<1>3. \A d \in Client : SeatOK(d)'
  BY <1>1, <1>2, UndisturbedKeeps
<1>4. EditorTypeOK'
  BY DEF EIInv, EditorTypeOK, seam, driver
<1> QED
  BY <1>3, <1>4 DEF EIInv

-----------------------------------------------------------------------------
\* The editor's side.

\* What the types say of one client.
LEMMA SeatTypes ==
  ASSUME EditorTypeOK, NEW c \in Client
  PROVE  /\ editor[c] \in State /\ editor[c].text \in Seq(Uid) /\ editor[c].log \in Seq(Identity)
         /\ taken[c] \in Nat /\ queue[c] \in Seq(Message) /\ seenLocal[c] \in 0..MaxLocal
         /\ dirty[c] \in BOOLEAN /\ outstanding[c] \subseteq 0..MaxLocal /\ offers[c] \in Seq(Offer)
         /\ flushes[c] \subseteq 0..MaxLocal /\ landed[c] \subseteq 0..MaxLocal
         /\ saves[c] \in 0..MaxSaves /\ snap[c] \in Nat /\ early[c] \in Nat
         /\ minted[c] \in Nat /\ minted[c] \in 0..MaxLocal
         /\ MaxLocal \in Nat /\ MaxSaves \in Nat /\ MaxEarly \in Nat
         /\ Cardinality(Edits(queue[c])) \in Nat
<1>1. editor[c] \in State /\ queue[c] \in Seq(Message)
  BY DEF EditorTypeOK
<1>2. editor[c].text \in Seq(Uid) /\ editor[c].log \in Seq(Identity)
  BY <1>1 DEF State
<1>3. Cardinality(Edits(queue[c])) \in Nat
  BY <1>1, CountType
<1>4. MaxLocal \in Nat /\ MaxSaves \in Nat /\ MaxEarly \in Nat
  BY BoundsAssumption, SavesAssumption
<1>5. early[c] \in Nat /\ minted[c] \in Nat /\ minted[c] \in 0..MaxLocal
  BY <1>4 DEF EditorTypeOK, TypeOK
<1> QED
  BY <1>1, <1>2, <1>3, <1>4, <1>5 DEF EditorTypeOK

\* An identity and the messages that carry one.
LEMMA MessageTypes ==
  /\ \A x \in Uid : \A n \in Nat : <<x, n>> \in Identity
  /\ \A x \in Uid : \A b \in Seq(Identity) : [kind |-> "edit", id |-> x, base |-> b] \in Message
  /\ \A n \in Nat : [kind |-> "took", seen |-> n] \in Message /\ [kind |-> "flush", edits |-> n] \in Message
<1>1. \A x \in Uid : \A b \in Seq(Identity) :
        [kind |-> "edit", id |-> x, base |-> b] \in [kind : {"edit"}, id : Uid, base : Seq(Identity)]
  OBVIOUS
<1>2. \A n \in Nat : [kind |-> "took", seen |-> n] \in [kind : {"took"}, seen : Nat]
  OBVIOUS
<1>3. \A n \in Nat : [kind |-> "flush", edits |-> n] \in [kind : {"flush"}, edits : Nat]
  OBVIOUS
<1> QED
  BY <1>1, <1>2, <1>3 DEF Identity, Message

\* A message that is put behind the queue.
LEMMA FlushOnAppend ==
  ASSUME NEW q \in Seq(Message), NEW m \in Message, NEW n \in Nat, NEW fl, NEW ld, FlushOK(n, q, fl, ld),
         m.kind = "flush" => m.edits <= n + Cardinality(Edits(q))
  PROVE  FlushOK(n, Append(q, m), fl, ld)
<1>1. PICK r \in Seq(Message), k \in Nat :
        /\ r = Append(q, m) /\ k = Len(q) /\ DOMAIN q = 1..k /\ DOMAIN r = 1..(k + 1)
        /\ r[k + 1] = m /\ \A i \in 1..k : r[i] = q[i]
  <2>1. Len(q) \in Nat /\ DOMAIN q = 1..Len(q)
    OBVIOUS
  <2>2. /\ Append(q, m) \in Seq(Message) /\ DOMAIN Append(q, m) = 1..(Len(q) + 1)
        /\ Append(q, m)[Len(q) + 1] = m /\ \A i \in 1..Len(q) : Append(q, m)[i] = q[i]
    BY <2>1, AppendFacts
  <2> QED
    BY <2>1, <2>2
<1>2. /\ \A i \in 1..k : EditsBefore(r, i) = EditsBefore(q, i)
      /\ EditsBefore(r, k + 1) = Edits(q)
  BY <1>1, CountAppend
<1>3. ASSUME NEW i \in DOMAIN r, r[i].kind = "flush"
      PROVE  r[i].edits <= n + Cardinality(EditsBefore(r, i))
  <2>1. CASE i \in 1..k
    BY <1>1, <1>2, <1>3, <2>1 DEF FlushOK
  <2>2. CASE i = k + 1
    BY <1>1, <1>2, <1>3, <2>2
  <2> QED
    BY <1>1, <2>1, <2>2
<1> QED
  BY <1>1, <1>3 DEF FlushOK

LEMMA FirstEdits ==
  ASSUME NEW S, NEW M \in Seq(S), NEW q \in Seq(Message), DOMAIN q = DOMAIN M,
         \A i \in DOMAIN q : q[i].kind = "edit"
  PROVE  Cardinality(Edits(q)) = Len(M)
<1>1. Len(M) \in Nat /\ Edits(q) = 1..Len(M)
  BY DEF Edits
<1>2. Cardinality(1..Len(M)) = IF 1 > Len(M) THEN 0 ELSE Len(M) - 1 + 1
  <2>1. 1 \in Int /\ Len(M) \in Int
    BY <1>1
  <2> QED
    BY <2>1, FS_Interval
<1> QED
  BY <1>1, <1>2

LEMMA AdoptKeeps ==
  ASSUME IInv, EIInv, TypeOK', Grows, NEW c \in Client, AdoptSnapshot(c)
  PROVE  EIInv'
<1> DEFINE M == editor[c].log
           S == Adopted(Len(text))
           Q == [i \in DOMAIN M |-> [kind |-> "edit", id |-> M[i][1], base |-> SubSeq(M, 1, i - 1)]]
<1>1. EditorTypeOK /\ TypeOK
  BY DEF EIInv, EditorTypeOK
<1>2. /\ c \notin subscribers /\ subscribers' = subscribers \cup {c}
      /\ log' = [log EXCEPT ![c] = NewLog(text, version)] /\ minted' = minted
      /\ snap' = [snap EXCEPT ![c] = Len(text)]
      /\ queue' = [queue EXCEPT ![c] = Q]
      /\ editor' = IF S = <<>> THEN editor
                   ELSE [editor EXCEPT ![c] = [text |-> text, log |-> M \o S]]
      /\ taken' = [taken EXCEPT ![c] = Len(S)]
      /\ early' = [early EXCEPT ![c] = Len(M)]
      /\ UNCHANGED <<driver, offers, saves, carries>>
  BY DEF AdoptSnapshot, SubscribeDocument
<1>3. /\ M \in Seq(Identity) /\ Len(M) \in 0..MaxEarly /\ Len(M) <= MaxLocal /\ Len(M) \in Nat
      /\ MaxEarly \in Nat /\ MaxLocal \in Nat
  <2>1. NotSynced(c)
    BY <1>2 DEF EIInv, SeatOK
  <2>2. MaxEarly \in Nat /\ MaxEarly <= MaxLocal /\ MaxLocal \in Nat
    BY BoundsAssumption, SavesAssumption
  <2>3. M \in Seq(Identity) /\ Len(M) \in Nat
    BY <1>1, SeatTypes
  <2> QED
    BY <2>1, <2>2, <2>3 DEF NotSynced
<1>4. minted[c] = 0
  BY <1>2 DEF IInv, ClientInv, Idle
<1>5. S \in Seq(Identity) /\ (S = <<>> => Len(S) = 0) /\ (S # <<>> => Len(S) = 1) /\ Len(S) \in Nat
  <2>1. <<Origin, 0>> \in Identity
    BY UidFacts, MessageTypes
  <2>2. CASE Len(text) = 0
    BY <2>2 DEF Adopted
  <2>3. CASE Len(text) # 0
    <3>1. S = << <<Origin, 0>> >>
      BY <2>3 DEF Adopted
    <3> HIDE DEF S
    <3> QED
      BY <2>1, <3>1
  <2> QED
    BY <2>2, <2>3
<1>6. Q \in Seq(Message)
  <2>1. ASSUME NEW i \in DOMAIN M
        PROVE  [kind |-> "edit", id |-> M[i][1], base |-> SubSeq(M, 1, i - 1)] \in Message
    <3>1. M[i] \in Identity
      BY <1>3
    <3>2. M[i][1] \in Uid
      BY <3>1 DEF Identity
    <3>3. SubSeq(M, 1, i - 1) \in Seq(Identity)
      <4>1. 1 \in Int /\ i - 1 \in Int /\ \A j \in 1..(i - 1) : M[j] \in Identity
        BY <1>3
      <4> QED
        BY <4>1
    <3> QED
      BY <3>2, <3>3, MessageTypes
  <2>2. DOMAIN M = 1..Len(M)
    BY <1>3
  <2> QED
    BY <1>3, <2>1, <2>2
<1>7. Cardinality(Edits(Q)) = Len(M) /\ \A i \in DOMAIN Q : Q[i].kind = "edit"
  <2>1. DOMAIN Q = DOMAIN M /\ \A i \in DOMAIN Q : Q[i].kind = "edit"
    OBVIOUS
  <2> HIDE DEF Q
  <2> QED
    BY <1>3, <1>6, <2>1, FirstEdits
<1>8. PICK ed \in State :
        /\ editor' = [editor EXCEPT ![c] = ed]
        /\ Len(ed.log) - Len(S) = Len(M)
  <2>1. CASE S = <<>>
    <3>1. editor' = [editor EXCEPT ![c] = editor[c]] /\ editor[c] \in State
      BY <1>1, <1>2, <2>1 DEF EditorTypeOK
    <3>2. Len(editor[c].log) - Len(S) = Len(M)
      <4>1. Len(M) \in Nat /\ Len(S) = 0
        BY <1>3, <1>5, <2>1
      <4>2. Len(M) - Len(S) = Len(M)
        BY ONLY <4>1
      <4> QED
        BY ONLY <4>2
    <3> HIDE DEF M, S
    <3> QED
      BY <3>1, <3>2
  <2>2. CASE S # <<>>
    <3>1. M \o S \in Seq(Identity) /\ Len(M \o S) = Len(M) + Len(S)
      BY <1>3, <1>5, ConcatFacts
    <3>2. PICK E \in Seq(Identity) : E = M \o S /\ Len(E) = Len(M) + Len(S)
      BY <3>1
    <3>3. [text |-> text, log |-> E] \in State
      BY <1>1, <3>2 DEF State, TypeOK
    <3>4. editor' = [editor EXCEPT ![c] = [text |-> text, log |-> E]]
      BY <1>2, <2>2, <3>2
    <3>5. Len(E) - Len(S) = Len(M)
      <4> HIDE DEF M, S
      <4> QED
        BY <1>3, <1>5, <3>2
    <3>6. PICK fresh \in State : fresh = [text |-> text, log |-> E]
      BY <3>3
    <3>7. fresh.log = E
      BY <3>6
    <3>8. editor' = [editor EXCEPT ![c] = fresh] /\ Len(fresh.log) - Len(S) = Len(M)
      <4> HIDE DEF M, S
      <4> QED
        BY <3>4, <3>5, <3>6, <3>7
    <3> QED
      BY <3>8
  <2> QED
    BY <2>1, <2>2
<1>9. EditorTypeOK'
  <2>1. Len(text) \in Nat
    BY <1>1 DEF TypeOK
  <2> HIDE DEF M, S, Q
  <2>2. editor' \in [Client -> State] /\ queue' \in [Client -> Seq(Message)]
    <3>1. editor \in [Client -> State] /\ queue \in [Client -> Seq(Message)]
      BY <1>1 DEF EditorTypeOK
    <3>2. editor' \in [Client -> State]
      BY <1>8, <3>1
    <3>3. queue' \in [Client -> Seq(Message)]
      BY <1>2, <1>6, <3>1
    <3> QED
      BY <3>2, <3>3
  <2>3. taken' \in [Client -> Nat] /\ snap' \in [Client -> Nat]
    BY <1>1, <1>2, <1>5, <2>1 DEF EditorTypeOK
  <2>4. early' \in [Client -> 0..MaxEarly]
    BY <1>1, <1>2, <1>3 DEF EditorTypeOK
  <2> QED
    BY <1>1, <1>2, <2>2, <2>3, <2>4 DEF EditorTypeOK, driver
<1>10. \A d \in Client : d # c => Undisturbed(d)
  <2> HIDE DEF M, S, Q
  <2> QED
    BY <1>1, <1>2, <1>8 DEF EditorTypeOK, TypeOK, Undisturbed, driver
<1>11. Synced(c)'
  <2>1. /\ queue'[c] = Q /\ taken'[c] = Len(S) /\ early'[c] = Len(M) /\ editor'[c] = ed
        /\ seenLocal'[c] = 0 /\ ~dirty'[c] /\ outstanding'[c] = {} /\ offers'[c] = <<>>
        /\ flushes'[c] = {} /\ landed'[c] = {} /\ minted'[c] = 0
    <3>1. NotSynced(c)
      BY <1>2 DEF EIInv, SeatOK
    <3> HIDE DEF M, S, Q
    <3> QED
      BY <1>1, <1>2, <1>4, <1>8, <3>1 DEF EditorTypeOK, NotSynced, driver
  <2> HIDE DEF M, S, Q
  <2>2. CountOK(minted'[c], Len(editor'[c].log), taken'[c], seenLocal'[c], queue'[c])
    <3>1. /\ Len(ed.log) - Len(S) = 0 + Cardinality(Edits(Q))
          /\ 0 + Cardinality(Edits(Q)) <= MaxLocal
      BY <1>3, <1>7, <1>8
    <3> QED
      BY <2>1, <3>1 DEF CountOK
  <2>3. FlushOK(minted'[c], queue'[c], flushes'[c], landed'[c])
    BY <1>7, <2>1 DEF FlushOK
  <2>4. LoopOK(c, minted'[c], log'[c])
    BY <2>1 DEF LoopOK
  <2>5. OffersOK(c, offers'[c]) /\ OwedOK(dirty'[c], outstanding'[c], log'[c].committed)
    BY <2>1 DEF OffersOK, OwedOK
  <2>6. ShownOK(c, early'[c], minted'[c] + Cardinality(Edits(queue'[c])), editor'[c].text)
    BY <1>3, <1>7, <2>1 DEF ShownOK
  <2>7. SavedOK(c, landed'[c], text')
    BY <2>1 DEF SavedOK
  <2> QED
    BY <2>2, <2>3, <2>4, <2>5, <2>6, <2>7 DEF Synced
<1>12. SeatOK(c)'
  BY <1>2, <1>11 DEF SeatOK
<1> QED
  BY <1>9, <1>10, <1>12, OneMoves

\* One more edit on what is shown.
LEMMA ShownGrows ==
  ASSUME NEW c, NEW first \in Nat, NEW last \in Nat, NEW shown \in Seq(Uid), NEW x \in Uid,
         x = <<c, last + 1>>, ShownOK(c, first, last, shown)
  PROVE  ShownOK(c, first, last + 1, Append(shown, x))
<1>1. /\ Append(shown, x) \in Seq(Uid) /\ Holds(Append(shown, x), x)
      /\ \A y : Holds(shown, y) => Holds(Append(shown, x), y)
  BY AppendHolds
<1>2. ASSUME NEW k \in first + 1..last + 1 PROVE Kept(<<c, k>>, Append(shown, x))
  <2>1. CASE k \in first + 1..last
    <3>1. Kept(<<c, k>>, shown)
      BY <2>1 DEF ShownOK
    <3> QED
      BY <1>1, <3>1, KeptInMore
  <2>2. CASE k = last + 1
    BY <1>1, <2>2, HeldIsKept
  <2> QED
    BY <2>1, <2>2
<1> QED
  BY <1>2 DEF ShownOK

LEMMA ChangedKeeps ==
  ASSUME EIInv, Grows, NEW c \in Client, Changed(c)
  PROVE  EIInv'
<1>1. EditorTypeOK /\ TypeOK /\ SeatOK(c)
  BY DEF EIInv, EditorTypeOK
<1>2. PICK k \in Nat : k = Typed(c) /\ k < MaxLocal
  BY <1>1, SeatTypes, BoundsAssumption, SavesAssumption DEF Changed, Typed
<1>3. PICK x \in Uid : x = <<c, k + 1>>
  <2>1. k + 1 \in 0..MaxLocal
    BY <1>2, BoundsAssumption
  <2> QED
    BY <2>1, UidFacts
<1>4. PICK shown \in Seq(Uid), known \in Seq(Identity) : shown = editor[c].text /\ known = editor[c].log
  BY <1>1, SeatTypes
<1>5. PICK ed \in State : /\ ed = [text |-> Append(shown, x), log |-> Append(known, <<x, 0>>)]
                          /\ ed.text = Append(shown, x) /\ Len(ed.log) = Len(known) + 1
  <2>1. <<x, 0>> \in Identity
    BY MessageTypes
  <2>2. Append(shown, x) \in Seq(Uid) /\ Append(known, <<x, 0>>) \in Seq(Identity)
        /\ Len(Append(known, <<x, 0>>)) = Len(known) + 1
    BY <2>1, AppendFacts
  <2>3. [text |-> Append(shown, x), log |-> Append(known, <<x, 0>>)] \in State
    BY <2>2 DEF State
  <2> QED
    BY <2>2, <2>3
<1>6. PICK m \in Message : m = [kind |-> "edit", id |-> x, base |-> known] /\ Weight(m) = 1 /\ m.kind # "flush"
  <2>1. [kind |-> "edit", id |-> x, base |-> known] \in Message
    BY MessageTypes
  <2> QED
    BY <2>1 DEF Weight
<1>7. /\ editor' = [editor EXCEPT ![c] = ed]
      /\ queue' = IF c \in subscribers THEN [queue EXCEPT ![c] = Append(queue[c], m)] ELSE queue
      /\ UNCHANGED <<vars, taken, offers, driver, saves, snap, early, carries>>
  BY <1>2, <1>3, <1>4, <1>5, <1>6 DEF Changed
<1>8. Append(queue[c], m) \in Seq(Message)
  BY <1>1, SeatTypes, AppendFacts
<1>9. EditorTypeOK'
  BY <1>1, <1>7, <1>8 DEF EditorTypeOK, TypeOK, driver, vars
<1>10. \A d \in Client : d # c => Undisturbed(d)
  BY <1>1, <1>7 DEF EditorTypeOK, TypeOK, Undisturbed, driver, vars
<1>11. CASE c \in subscribers
  <2>1. Synced(c)
    BY <1>1, <1>11 DEF SeatOK
  <2>2. PICK q \in Seq(Message), n \in Nat, z \in Nat :
          q = queue[c] /\ n = minted[c] /\ z = Cardinality(Edits(q)) /\ k = n + z
    BY <1>1, <1>2, <1>11, SeatTypes DEF Typed
  <2>3. /\ queue'[c] = Append(q, m) /\ editor'[c] = ed /\ taken'[c] = taken[c] /\ minted'[c] = n
        /\ seenLocal'[c] = seenLocal[c] /\ log'[c] = log[c] /\ offers'[c] = offers[c] /\ early'[c] = early[c]
        /\ dirty'[c] = dirty[c] /\ outstanding'[c] = outstanding[c] /\ flushes'[c] = flushes[c]
        /\ landed'[c] = landed[c] /\ text' = text
    BY <1>1, <1>7, <1>11, <2>2 DEF EditorTypeOK, driver, vars
  <2>4. Cardinality(Edits(Append(q, m))) = z + 1
    BY <1>6, <2>2, CountAppend
  <2>5. CountOK(minted'[c], Len(editor'[c].log), taken'[c], seenLocal'[c], queue'[c])
    <3>1. Len(known) - taken[c] = n + z /\ seenLocal[c] = n /\ Len(known) \in Nat /\ taken[c] \in Nat
      BY <1>1, <1>4, <2>1, <2>2, SeatTypes DEF Synced, CountOK
    <3>2. (Len(known) + 1) - taken[c] = n + (z + 1)
      <4>1. n \in Nat /\ z \in Nat
        OBVIOUS
      <4> QED
        BY ONLY <3>1, <4>1
    <3>3. n + (z + 1) <= MaxLocal
      <4>1. n \in Nat /\ z \in Nat /\ n + z < MaxLocal /\ MaxLocal \in Nat
        BY <1>2, <2>2, BoundsAssumption
      <4> QED
        BY ONLY <4>1
    <3> QED
      BY <1>5, <2>3, <2>4, <3>1, <3>2, <3>3 DEF CountOK
  <2>6. FlushOK(minted'[c], queue'[c], flushes'[c], landed'[c])
    BY <1>6, <2>1, <2>2, <2>3, FlushOnAppend DEF Synced
  <2>7. ShownOK(c, early'[c], minted'[c] + Cardinality(Edits(queue'[c])), editor'[c].text)
    <3>1. ShownOK(c, early[c], k, shown) /\ early[c] \in Nat
      BY <1>1, <1>4, <2>1, <2>2, SeatTypes DEF Synced
    <3>2. ShownOK(c, early[c], k + 1, Append(shown, x))
      BY <1>3, <3>1, ShownGrows
    <3>4. n \in Nat /\ z \in Nat /\ k = n + z
      BY <2>2
    <3>3. n + (z + 1) = k + 1
      BY ONLY <3>4
    <3> QED
      BY <1>5, <2>3, <2>4, <3>2, <3>3
  <2>8. Synced(c)'
    BY <2>1, <2>2, <2>3, <2>5, <2>6, <2>7 DEF Synced
  <2>9. SeatOK(c)'
    BY <1>7, <1>11, <2>8 DEF SeatOK, vars
  <2> QED
    BY <1>9, <1>10, <2>9, OneMoves
<1>12. CASE c \notin subscribers
  <2>1. NotSynced(c)
    BY <1>1, <1>12 DEF SeatOK
  <2>2. Len(known) < MaxEarly /\ Len(known) \in Nat
    BY <1>4, <1>12 DEF Changed, Typed
  <2>3. Len(ed.log) <= MaxEarly
    BY <1>5, <2>2, SavesAssumption
  <2>4. NotSynced(c)'
    BY <1>1, <1>7, <1>12, <2>1, <2>3 DEF NotSynced, EditorTypeOK, driver, vars
  <2>5. SeatOK(c)'
    BY <1>7, <1>12, <2>4 DEF SeatOK, vars
  <2> QED
    BY <1>9, <1>10, <2>5, OneMoves
<1> QED
  BY <1>11, <1>12

LEMMA StoreKeeps ==
  ASSUME EIInv, Grows, NEW c \in Client, StoreHandle(c)
  PROVE  EIInv'
<1>1. EditorTypeOK /\ TypeOK /\ c \in subscribers
  BY DEF EIInv, EditorTypeOK, StoreHandle
<1>2. Synced(c)
  BY <1>1 DEF EIInv, SeatOK
<1>3. PICK q \in Seq(Message), n \in Nat, z \in Nat :
        q = queue[c] /\ n = minted[c] /\ z = Cardinality(Edits(q)) /\ Typed(c) = n + z
  BY <1>1, SeatTypes DEF Typed
<1>4. PICK m \in Message : m = [kind |-> "flush", edits |-> n + z] /\ Weight(m) = 0 /\ m.edits = n + z
  <2>1. n + z \in Nat
    OBVIOUS
  <2>2. [kind |-> "flush", edits |-> n + z] \in Message
    BY <2>1, MessageTypes
  <2> QED
    BY <2>2 DEF Weight
<1>5. /\ queue' = [queue EXCEPT ![c] = Append(q, m)] /\ saves[c] < MaxSaves
      /\ saves' = [saves EXCEPT ![c] = saves[c] + 1]
      /\ UNCHANGED <<vars, seam, driver, snap, early, carries>>
  BY <1>3, <1>4 DEF StoreHandle
<1>6. Append(q, m) \in Seq(Message)
  BY AppendFacts
<1>7. saves[c] + 1 \in 0..MaxSaves
  BY <1>1, <1>5, SeatTypes
<1>8. EditorTypeOK'
  BY <1>1, <1>5, <1>6, <1>7 DEF EditorTypeOK, TypeOK, driver, seam, vars
<1>9. \A d \in Client : d # c => Undisturbed(d)
  BY <1>1, <1>5 DEF EditorTypeOK, TypeOK, Undisturbed, driver, seam, vars
<1>10. Cardinality(Edits(Append(q, m))) = Cardinality(Edits(q))
  BY <1>3, <1>4, CountAppend
<1>11. FlushOK(n, Append(q, m), flushes[c], landed[c])
  <2>1. m.edits <= n + Cardinality(Edits(q))
    BY <1>3, <1>4
  <2> QED
    BY <1>2, <1>3, <2>1, FlushOnAppend DEF Synced
<1>12. queue'[c] = Append(q, m)
  BY <1>1, <1>5 DEF EditorTypeOK
<1>13. Synced(c)'
  BY <1>2, <1>3, <1>5, <1>10, <1>11, <1>12 DEF Synced, CountOK, driver, seam, vars
<1>14. SeatOK(c)'
  BY <1>1, <1>5, <1>13 DEF SeatOK, vars
<1> QED
  BY <1>8, <1>9, <1>14, OneMoves

LEMMA OffersTail ==
  ASSUME NEW c, NEW off \in Seq(Offer), off # <<>>, OffersOK(c, off)
  PROVE  /\ Tail(off) \in Seq(Offer) /\ OffersOK(c, Tail(off))
         /\ Head(off) \in Offer /\ Head(off).state \in State /\ Head(off).seen \in Nat
         /\ Head(off).state.log # <<>> /\ Head(off).state.log \in Seq(Identity)
         /\ Head(off).state.text \in Seq(Uid)
         /\ \A k \in 1..Head(off).seen : Kept(<<c, k>>, Head(off).state.text)
<1>1. PICK n \in Nat, r \in Seq(Offer) :
        /\ n = Len(off) /\ n > 0 /\ DOMAIN off = 1..n
        /\ r = Tail(off) /\ DOMAIN r = 1..(n - 1) /\ \A i \in 1..(n - 1) : r[i] = off[i + 1]
  <2>1. Len(off) \in Nat /\ Len(off) > 0 /\ DOMAIN off = 1..Len(off)
    OBVIOUS
  <2>2. /\ Tail(off) \in Seq(Offer) /\ DOMAIN Tail(off) = 1..(Len(off) - 1)
        /\ \A i \in 1..(Len(off) - 1) : Tail(off)[i] = off[i + 1]
    BY TailFacts
  <2> QED
    BY <2>1, <2>2
<1>2. OffersOK(c, r)
  <2>1. \A i \in DOMAIN r : i + 1 \in DOMAIN off /\ r[i] = off[i + 1]
    BY <1>1
  <2> QED
    BY <2>1 DEF OffersOK
<1>3. PICK o \in Offer : o = Head(off) /\ o = off[1] /\ 1 \in DOMAIN off
  BY <1>1
<1>4. o.state \in State /\ o.seen \in Nat
  BY DEF Offer
<1>5. o.state.log \in Seq(Identity) /\ o.state.text \in Seq(Uid)
  BY <1>4 DEF State
<1>6. o.state.log # <<>> /\ \A k \in 1..o.seen : Kept(<<c, k>>, o.state.text)
  BY <1>3 DEF OffersOK
<1> QED
  BY <1>1, <1>2, <1>3, <1>4, <1>5, <1>6

\* What the offer lands as.
LEMMA LandKeeps ==
  ASSUME EIInv, NEW c \in Client, c \in subscribers, NEW o \in Offer, Fits(c, o), Land(c, o.state),
         o.state.log # <<>>, \A k \in 1..o.seen : Kept(<<c, k>>, o.state.text)
  PROVE  \E ed \in State, tk \in Nat :
           /\ editor' = [editor EXCEPT ![c] = ed] /\ taken' = [taken EXCEPT ![c] = tk]
           /\ Len(ed.log) - tk = Len(editor[c].log) - taken[c]
           /\ ShownOK(c, early[c], minted[c] + Cardinality(Edits(queue[c])), ed.text)
<1>1. EditorTypeOK /\ Synced(c)
  BY DEF EIInv, SeatOK
<1>2. editor[c] \in State /\ taken[c] \in Nat /\ editor \in [Client -> State] /\ taken \in [Client -> Nat]
  BY <1>1 DEF EditorTypeOK
<1>3. CASE o.state.text = editor[c].text
  <2>1. editor' = editor /\ taken' = taken
    BY <1>3 DEF Land
  <2>2. editor' = [editor EXCEPT ![c] = editor[c]] /\ taken' = [taken EXCEPT ![c] = taken[c]]
    BY <1>2, <2>1
  <2>3. ShownOK(c, early[c], minted[c] + Cardinality(Edits(queue[c])), editor[c].text)
    BY <1>1 DEF Synced
  <2> QED
    BY <1>2, <2>2, <2>3
<1>4. CASE o.state.text # editor[c].text
  <2>1. PICK known \in Seq(Identity), n \in Nat, t \in Nat :
          known = editor[c].log /\ n = Len(known) /\ t = taken[c]
    <3>1. editor[c].log \in Seq(Identity)
      BY <1>2 DEF State
    <3>2. Len(editor[c].log) \in Nat
      BY <3>1
    <3> QED
      BY <1>2, <3>1, <3>2
  <2>2. PICK e \in Identity : e = Last(o.state.log)
    <3>1. o.state.log \in Seq(Identity)
      BY DEF Offer, State
    <3>2. Last(o.state.log) \in Identity
      BY <3>1, LastFacts
    <3> QED
      BY <3>2
  <2>3. PICK long \in Seq(Identity) : long = Append(known, e) /\ Len(long) = n + 1
    <3>1. Append(known, e) \in Seq(Identity) /\ Len(Append(known, e)) = Len(known) + 1
      BY AppendFacts
    <3> QED
      BY <2>1, <3>1
  <2>4. PICK ed \in State : ed = [text |-> o.state.text, log |-> long] /\ ed.log = long /\ ed.text = o.state.text
    <3>1. o.state.text \in Seq(Uid)
      BY DEF Offer, State
    <3>2. [text |-> o.state.text, log |-> long] \in State
      BY <3>1 DEF State
    <3> QED
      BY <3>2
  <2>5. editor' = [editor EXCEPT ![c] = ed] /\ taken' = [taken EXCEPT ![c] = t + 1]
    BY <1>4, <2>1, <2>2, <2>3, <2>4 DEF Land
  <2>6. t + 1 \in Nat /\ (n + 1) - (t + 1) = n - t
    OBVIOUS
  <2>7. o.seen = minted[c] + Cardinality(Edits(queue[c])) /\ early[c] \in Nat /\ o.seen \in Nat
    <3>1. o.seen \in Nat
      BY DEF Offer
    <3> QED
      BY <1>1, <3>1, SeatTypes DEF Fits, Sent, Synced, CountOK
  <2>8. ShownOK(c, early[c], minted[c] + Cardinality(Edits(queue[c])), ed.text)
    <3>1. \A k \in early[c] + 1..o.seen : k \in 1..o.seen
      BY <2>7
    <3> QED
      BY <2>4, <2>7, <3>1 DEF ShownOK
  <2>9. Len(ed.log) - (t + 1) = Len(editor[c].log) - taken[c]
    BY <2>1, <2>3, <2>4, <2>6
  <2> QED
    BY <2>5, <2>6, <2>8, <2>9
<1> QED
  BY <1>3, <1>4

LEMMA ApplyOfferKeeps ==
  ASSUME EIInv, TypeOK', Grows, NEW c \in Client, ApplyOffer(c)
  PROVE  EIInv'
<1>1. EditorTypeOK /\ TypeOK
  BY DEF EIInv, EditorTypeOK
<1>2. c \in subscribers
  BY DEF EIInv, SeatOK, NotSynced, ApplyOffer
<1>3. Synced(c)
  BY <1>2 DEF EIInv, SeatOK
<1>4. PICK off \in Seq(Offer), rest \in Seq(Offer), o \in Offer :
        /\ off = offers[c] /\ off # <<>> /\ rest = Tail(off) /\ o = Head(off) /\ OffersOK(c, rest)
        /\ o.state.log # <<>> /\ \A k \in 1..o.seen : Kept(<<c, k>>, o.state.text)
  <2>1. offers[c] \in Seq(Offer) /\ offers[c] # <<>> /\ OffersOK(c, offers[c])
    BY <1>1, <1>3, SeatTypes DEF ApplyOffer, Synced
  <2> QED
    BY <2>1, OffersTail
<1>5. /\ offers' = [offers EXCEPT ![c] = rest]
      /\ IF Fits(c, o)
         THEN /\ queue' = [queue EXCEPT ![c] = Append(queue[c], [kind |-> "took", seen |-> o.seen])]
              /\ Land(c, o.state)
         ELSE UNCHANGED <<editor, taken, queue>>
      /\ UNCHANGED <<vars, driver, saves, snap, early, carries>>
  BY <1>4 DEF ApplyOffer
<1>6. PICK n \in Nat, q \in Seq(Message), z \in Nat :
        n = minted[c] /\ q = queue[c] /\ z = Cardinality(Edits(q))
  BY <1>1, SeatTypes
<1>7. PICK ed \in State, tk \in Nat :
        /\ editor' = [editor EXCEPT ![c] = ed] /\ taken' = [taken EXCEPT ![c] = tk]
        /\ Len(ed.log) - tk = Len(editor[c].log) - taken[c]
        /\ ShownOK(c, early[c], n + z, ed.text)
  <2>1. CASE Fits(c, o)
    BY <1>2, <1>4, <1>5, <1>6, <2>1, LandKeeps
  <2>2. CASE ~Fits(c, o)
    <3>1. editor[c] \in State /\ taken[c] \in Nat
      BY <1>1 DEF EditorTypeOK
    <3>2. editor' = [editor EXCEPT ![c] = editor[c]] /\ taken' = [taken EXCEPT ![c] = taken[c]]
      BY <1>1, <1>5, <2>2 DEF EditorTypeOK
    <3>3. ShownOK(c, early[c], n + z, editor[c].text)
      BY <1>3, <1>6 DEF Synced
    <3> QED
      BY <3>1, <3>2, <3>3
  <2> QED
    BY <2>1, <2>2
<1>8. PICK r \in Seq(Message) :
        /\ queue' = [queue EXCEPT ![c] = r] /\ Cardinality(Edits(r)) = z
        /\ FlushOK(n, r, flushes[c], landed[c])
  <2>1. FlushOK(n, q, flushes[c], landed[c])
    BY <1>3, <1>6 DEF Synced
  <2>2. CASE Fits(c, o)
    <3>1. PICK m \in Message : m = [kind |-> "took", seen |-> o.seen] /\ Weight(m) = 0 /\ m.kind # "flush"
      <4>1. o.seen \in Nat
        BY DEF Offer
      <4>2. [kind |-> "took", seen |-> o.seen] \in Message
        BY <4>1, MessageTypes
      <4> QED
        BY <4>2 DEF Weight
    <3>2. Append(q, m) \in Seq(Message) /\ Cardinality(Edits(Append(q, m))) = z
      <4>1. Append(q, m) \in Seq(Message) /\ Cardinality(Edits(Append(q, m))) = z + 0
        BY <1>6, <3>1, AppendFacts, CountAppend
      <4> QED
        BY <4>1
    <3>3. FlushOK(n, Append(q, m), flushes[c], landed[c])
      BY <2>1, <3>1, FlushOnAppend
    <3>4. queue' = [queue EXCEPT ![c] = Append(q, m)]
      BY <1>5, <1>6, <2>2, <3>1
    <3> QED
      BY <3>2, <3>3, <3>4
  <2>3. CASE ~Fits(c, o)
    <3>1. queue' = [queue EXCEPT ![c] = q]
      BY <1>1, <1>5, <1>6, <2>3 DEF EditorTypeOK
    <3> QED
      BY <1>6, <2>1, <3>1
  <2> QED
    BY <2>2, <2>3
<1>9. EditorTypeOK'
  BY <1>1, <1>5, <1>7, <1>8 DEF EditorTypeOK, driver
<1>10. \A d \in Client : d # c => Undisturbed(d)
  BY <1>1, <1>5, <1>7, <1>8 DEF EditorTypeOK, TypeOK, Undisturbed, driver, vars
<1>11. /\ queue'[c] = r /\ editor'[c] = ed /\ taken'[c] = tk /\ offers'[c] = rest /\ minted'[c] = n
       /\ UNCHANGED <<driver, text, log, early, subscribers>>
  BY <1>1, <1>5, <1>6, <1>7, <1>8 DEF EditorTypeOK, vars
<1>12. CountOK(minted'[c], Len(editor'[c].log), taken'[c], seenLocal'[c], queue'[c])
  BY <1>3, <1>6, <1>7, <1>8, <1>11 DEF Synced, CountOK, driver
<1>13. ShownOK(c, early'[c], minted'[c] + Cardinality(Edits(queue'[c])), editor'[c].text)
  BY <1>7, <1>8, <1>11
<1>14. Synced(c)'
  BY <1>3, <1>4, <1>6, <1>8, <1>11, <1>12, <1>13 DEF Synced, driver
<1>15. SeatOK(c)'
  BY <1>2, <1>11, <1>14 DEF SeatOK
<1> QED
  BY <1>9, <1>10, <1>15, OneMoves

-----------------------------------------------------------------------------
\* The loop's side.

\* Every edit of c's in what its log shows is one that it has minted.
OwnEdits(c, s) == \A i \in DOMAIN s : Author(s[i]) = c => s[i][2] \in 1..MaxLocal

ShowsRight(c) ==
  /\ Display(log[c]) \in Seq(Uid)
  /\ OwnEdits(c, Display(log[c]))
  /\ log[c].committed # <<>> => Display(log[c]) # <<>>
  /\ ~IsRebasing(log[c]) => Whole(log[c]) = Display(log[c])
  /\ IsSettled(log[c]) => \A x : Holds(Whole(log[c]), x) => Holds(text, x)

EveryoneShowsRight == \A c \in subscribers : ShowsRight(c)

LEMMA DisplayMeans == IInv => EveryoneShowsRight
<1> SUFFICES ASSUME IInv, NEW c \in subscribers PROVE ShowsRight(c)
  BY DEF EveryoneShowsRight
<1>1. TypeOK /\ HostOK(text, version) /\ c \in Client
  BY DEF IInv, TypeOK
<1>2. MirrorOK(c, text, version, feed[c], log[c].committed, log[c].version,
               log[c].speculation, log[c].rebasing, wire[c], minted[c])
  BY <1>1 DEF IInv, ClientInv
<1>3. PICK l \in Log, com \in Seq(Uid), spec \in Seq(Entry), D \in Seq(Uid), n \in Nat :
        /\ l = log[c] /\ com = l.committed /\ spec = l.speculation /\ D = Display(l) /\ n = minted[c]
        /\ D = Shown(com, spec) /\ l.rebasing \in Seq(Uid) /\ text \in Seq(Uid) /\ n <= MaxLocal
  <2>1. minted[c] <= MaxLocal
    BY <1>1, BoundsAssumption DEF TypeOK
  <2> QED
    BY <1>1, <2>1, ClientTypes, DisplayShown
<1>4. Spells(D, com, spec)
  BY <1>2, <1>3, LineFacts DEF MirrorOK
<1>5. \A i \in DOMAIN com : i \in DOMAIN text /\ text[i] = com[i]
  <2>1. Len(com) \in Nat /\ Len(feed[c]) \in Nat /\ DOMAIN com = 1..Len(com) /\ DOMAIN text = 1..Len(text)
    BY <1>1, <1>3, ClientTypes
  <2>2. Len(text) = Len(com) + Len(feed[c]) /\ \A i \in DOMAIN com : text[i] = com[i]
    BY <1>2, <1>3 DEF MirrorOK, FeedOK
  <2> QED
    BY <2>1, <2>2
<1>6. OwnEdits(c, D)
  <2> SUFFICES ASSUME NEW i \in DOMAIN D, Author(D[i]) = c PROVE D[i][2] \in 1..MaxLocal
    BY DEF OwnEdits
  <2>1. CASE i \in DOMAIN com /\ D[i] = com[i]
    <3>1. Own(c, n, text[i]) /\ text[i] = D[i]
      BY <1>1, <1>3, <1>5, <2>1, TextFacts DEF Minted
    <3> QED
      BY <1>3, <3>1, BoundsAssumption DEF Own
  <2>2. CASE i - Len(com) \in DOMAIN spec /\ D[i] = spec[i - Len(com)].id
    <3>1. Own(c, n, D[i])
      BY <1>2, <1>3, <2>2 DEF MirrorOK, PendingOK
    <3> QED
      BY <1>3, <3>1, BoundsAssumption DEF Own
  <2> QED
    BY <1>4, <2>1, <2>2, LineElements
<1>7. com # <<>> => D # <<>>
  BY <1>4 DEF Spells
<1>8. ASSUME ~IsRebasing(log[c]) PROVE Whole(log[c]) = D
  <2>1. l.rebasing = <<>>
    BY <1>3, <1>8 DEF IsRebasing
  <2> QED
    BY <1>3, <2>1, ConcatNone DEF Whole
<1>9. ASSUME IsSettled(log[c]), NEW x, Holds(Whole(log[c]), x) PROVE Holds(text, x)
  <2>1. Whole(log[c]) = D
    BY <1>8, <1>9 DEF IsSettled, IsRebasing
  <2>2. D = com
    BY <1>3, <1>9 DEF IsSettled, Shown
  <2> QED
    BY <1>5, <1>9, <2>1, <2>2 DEF Holds
<1> QED
  BY <1>3, <1>6, <1>7, <1>8, <1>9 DEF ShowsRight

LEMMA HistoryFacts ==
  ASSUME NEW c \in Client, snap[c] \in Nat, NEW s \in Seq(Uid), OwnEdits(c, s),
         NEW carried, carried[c] \in [1..MaxLocal -> Nat]
  PROVE  /\ History(c, s, carried) \in Seq(Identity)
         /\ s # <<>> => History(c, s, carried) # <<>>
<1>1. PICK k \in Nat, n \in Nat : k = snap[c] /\ n = Len(s) /\ DOMAIN s = 1..n
  OBVIOUS
<1>2. PICK A \in Seq(Identity), a \in Nat : A = Adopted(k) /\ a = Len(A) /\ (k # 0 => a = 1)
  <2>1. <<Origin, 0>> \in Identity
    BY UidFacts, MessageTypes
  <2>2. << <<Origin, 0>> >> \in Seq(Identity) /\ Len(<< <<Origin, 0>> >>) = 1
    BY <2>1
  <2>3. <<>> \in Seq(Identity) /\ Len(<<>>) = 0
    OBVIOUS
  <2>4. CASE k = 0
    <3>1. Adopted(k) = <<>>
      BY <2>4 DEF Adopted
    <3> QED
      BY <2>3, <2>4, <3>1
  <2>5. CASE k # 0
    <3>1. Adopted(k) = << <<Origin, 0>> >>
      BY <2>5 DEF Adopted
    <3> QED
      BY <2>2, <2>5, <3>1
  <2> QED
    BY <2>4, <2>5
<1> DEFINE Name2(i) == <<s[k + i], IF Author(s[k + i]) = c THEN carried[c][s[k + i][2]] ELSE 0>>
           B == [i \in 1..n - k |-> Name2(i)]
<1>3. ASSUME NEW i \in 1..n - k PROVE Name2(i) \in Identity
  <2>1. k + i \in DOMAIN s
    BY <1>1
  <2>2. s[k + i] \in Uid
    BY <2>1
  <2>3. CASE Author(s[k + i]) = c
    <3>1. s[k + i][2] \in 1..MaxLocal
      BY <2>1, <2>3 DEF OwnEdits
    <3>2. carried[c][s[k + i][2]] \in Nat
      BY <3>1
    <3> QED
      BY <2>2, <2>3, <3>2, MessageTypes
  <2>4. CASE Author(s[k + i]) # c
    BY <2>2, <2>4, MessageTypes
  <2> QED
    BY <2>3, <2>4
<1>4. B \in Seq(Identity) /\ (k = 0 => Len(B) = n)
  <2> HIDE DEF Name2
  <2>1. CASE n - k \in Nat
    <3>1. PICK m \in Nat : m = n - k
      BY <2>1
    <3>2. B \in [1..m -> Identity]
      BY <1>3, <3>1
    <3> HIDE DEF B
    <3>3. B \in Seq(Identity) /\ Len(B) = m
      BY ONLY <3>2, m \in Nat
    <3> QED
      BY <3>1, <3>3
  <2>2. CASE n - k \notin Nat
    <3>1. 1..n - k = {} /\ k # 0
      BY <2>2
    <3>2. B = <<>>
      BY <3>1
    <3> QED
      BY <3>1, <3>2
  <2> QED
    BY <2>1, <2>2
<1>5. History(c, s, carried) = A \o B
  BY <1>1, <1>2 DEF History
<1> HIDE DEF B
<1>6. PICK H \in Seq(Identity) : H = A \o B /\ Len(H) = a + Len(B)
  <2>1. A \o B \in Seq(Identity) /\ Len(A \o B) = Len(A) + Len(B)
    BY <1>4, ConcatFacts
  <2> QED
    BY <1>2, <2>1
<1>7. ASSUME s # <<>> PROVE H # <<>>
  <2>1. n # 0 /\ Len(B) \in Nat
    BY <1>1, <1>4, <1>7
  <2>2. a + Len(B) # 0
    BY <1>2, <1>4, <2>1
  <2> QED
    BY <1>6, <2>2
<1> QED
  BY <1>5, <1>6, <1>7

\* The message that is heard leaves the queue, and counts if it is an edit.
LEMMA HeardMessage ==
  ASSUME NEW q \in Seq(Message), q # <<>>, NEW n \in Nat, NEW fl, NEW ld, FlushOK(n, q, fl, ld),
         fl \cup ld \subseteq Nat
  PROVE  /\ Tail(q) \in Seq(Message) /\ Head(q) \in Message
         /\ n + Cardinality(Edits(q)) = n + Weight(Head(q)) + Cardinality(Edits(Tail(q)))
         /\ FlushOK(n + Weight(Head(q)), Tail(q), fl, ld)
         /\ Head(q).kind = "flush" => Head(q).edits <= n
<1>1. PICK r \in Seq(Message), k \in Nat :
        /\ r = Tail(q) /\ k = Len(q) /\ k > 0 /\ DOMAIN q = 1..k /\ DOMAIN r = 1..(k - 1)
        /\ \A i \in 1..(k - 1) : r[i] = q[i + 1]
  <2>1. Len(q) \in Nat /\ Len(q) > 0 /\ DOMAIN q = 1..Len(q)
    OBVIOUS
  <2>2. /\ Tail(q) \in Seq(Message) /\ DOMAIN Tail(q) = 1..(Len(q) - 1)
        /\ \A i \in 1..(Len(q) - 1) : Tail(q)[i] = q[i + 1]
    BY TailFacts
  <2> QED
    BY <2>1, <2>2
<1>2. PICK m \in Message, w \in Nat : m = Head(q) /\ m = q[1] /\ w = Weight(m) /\ 1 \in DOMAIN q
  BY <1>1 DEF Weight
<1>3. n + Cardinality(Edits(q)) = n + w + Cardinality(Edits(r))
  <2>1. Cardinality(Edits(q)) = Cardinality(Edits(r)) + w /\ Cardinality(Edits(r)) \in Nat
    BY <1>1, <1>2, CountTail, CountType
  <2> QED
    BY <2>1
<1>4. ASSUME NEW i \in DOMAIN r, r[i].kind = "flush"
      PROVE  r[i].edits <= n + w + Cardinality(EditsBefore(r, i))
  <2>1. i + 1 \in DOMAIN q /\ i \in 1..k /\ r[i] = q[i + 1]
    BY <1>1
  <2>2. Cardinality(EditsBefore(q, i + 1)) = Cardinality(EditsBefore(r, i)) + w
    BY <1>1, <1>2, <2>1, CountShift
  <2>3. r[i].edits <= n + Cardinality(EditsBefore(q, i + 1))
    BY <1>4, <2>1 DEF FlushOK
  <2>4. Cardinality(EditsBefore(r, i)) \in Nat
    BY CountType
  <2>5. n + (Cardinality(EditsBefore(r, i)) + w) = n + w + Cardinality(EditsBefore(r, i))
    BY <2>4
  <2> QED
    BY <2>2, <2>3, <2>5
<1>5. \A e \in fl \cup ld : e <= n + w
  BY DEF FlushOK
<1>6. FlushOK(n + w, r, fl, ld)
  BY <1>4, <1>5 DEF FlushOK
<1>7. ASSUME m.kind = "flush" PROVE m.edits <= n
  <2>1. q[1].edits <= n + Cardinality(EditsBefore(q, 1))
    BY <1>2, <1>7 DEF FlushOK
  <2>2. Cardinality(EditsBefore(q, 1)) = 0
    BY CountTail
  <2>3. n + 0 = n
    OBVIOUS
  <2> QED
    BY <1>2, <2>1, <2>2, <2>3
<1> QED
  BY <1>1, <1>2, <1>3, <1>6, <1>7

\* What a log keeps of what another keeps.
LEMMA LoopGoesOn ==
  ASSUME NEW c \in Client, NEW n \in 0..MaxLocal, NEW l \in Log, NEW m \in Log, LoopOK(c, n, l),
         \A x \in Uid : Holds(Whole(l), x) => Kept(x, Whole(m))
  PROVE  LoopOK(c, n, m)
<1>1. Whole(l) \in Seq(Uid) /\ Whole(m) \in Seq(Uid)
  BY WholeFacts
<1>2. ASSUME NEW k \in 1..n PROVE Kept(<<c, k>>, Whole(m))
  <2>1. Kept(<<c, k>>, Whole(l))
    BY DEF LoopOK
  <2>2. k \in 0..MaxLocal
    BY BoundsAssumption
  <2>3. <<c, k>> \in Uid
    BY <2>2, UidFacts
  <2> QED
    BY <1>1, <2>1, <2>3, KeptOn
<1> QED
  BY <1>2 DEF LoopOK

\* The tail of a turn, after anything the loop has heard.
LEMMA TurnKeeps ==
  ASSUME EIInv, IInv', Grows, NEW c \in Client, c \in subscribers, subscribers' = subscribers,
         NEW owed \in BOOLEAN, NEW known, known \subseteq 0..MaxLocal, Cardinality(known) <= 1,
         NEW waiting, waiting \subseteq 0..MaxLocal, Turn(c, owed, known, waiting),
         queue' \in [Client -> Seq(Message)], seenLocal' \in [Client -> 0..MaxLocal],
         carries' \in [Client -> [1..MaxLocal -> Nat]],
         \A d \in Client : d # c =>
           /\ queue'[d] = queue[d] /\ seenLocal'[d] = seenLocal[d]
           /\ minted'[d] = minted[d] /\ log'[d] = log[d],
         minted'[c] + Cardinality(Edits(queue'[c])) = minted[c] + Cardinality(Edits(queue[c])),
         seenLocal'[c] = minted'[c],
         FlushOK(minted'[c], queue'[c], waiting, landed[c]),
         LoopOK(c, minted'[c], log'[c]),
         OwedOK(owed, known, log'[c].committed)
  PROVE  EIInv'
<1>1. EditorTypeOK /\ TypeOK /\ Synced(c) /\ TypeOK'
  BY DEF EIInv, EditorTypeOK, SeatOK, IInv
<1>2. /\ UNCHANGED <<editor, taken, saves, snap, early>>
      /\ offers \in [Client -> Seq(Offer)] /\ dirty \in [Client -> BOOLEAN]
      /\ outstanding \in [Client -> SUBSET (0..MaxLocal)] /\ \A d \in Client : Cardinality(outstanding[d]) <= 1
      /\ flushes \in [Client -> SUBSET (0..MaxLocal)] /\ landed \in [Client -> SUBSET (0..MaxLocal)]
      /\ carries \in [Client -> [1..MaxLocal -> Nat]]
  BY <1>1 DEF EditorTypeOK, Turn
<1>3. PICK l \in Log, D \in Seq(Uid), n \in 0..MaxLocal :
        l = log'[c] /\ D = Display(l) /\ n = minted'[c] /\ n = seenLocal'[c]
  <2>1. log'[c] \in Log /\ minted'[c] \in 0..MaxLocal
    BY <1>1 DEF TypeOK
  <2> QED
    BY <2>1, DisplayType
<1>4. /\ OwnEdits(c, D)
      /\ l.committed # <<>> => D # <<>>
      /\ ~IsRebasing(l) => Whole(l) = D
      /\ IsSettled(l) => \A x : Holds(Whole(l), x) => Holds(text', x)
  <2>1. EveryoneShowsRight'
    BY DisplayMeans, PTL
  <2>2. ShowsRight(c)'
    BY <2>1 DEF EveryoneShowsRight
  <2> QED
    BY <1>3, <2>2 DEF ShowsRight
<1>5. PICK off \in Seq(Offer), owes \in BOOLEAN, out \in SUBSET (0..MaxLocal) :
        /\ offers' = [offers EXCEPT ![c] = off] /\ dirty' = [dirty EXCEPT ![c] = owes]
        /\ outstanding' = [outstanding EXCEPT ![c] = out] /\ Cardinality(out) <= 1
        /\ OffersOK(c, off) /\ OwedOK(owes, out, l.committed)
  <2>1. CASE Owed(c, owed)
    <3>1. owed /\ ~IsRebasing(l)
      BY <1>3, <2>1 DEF Owed
    <3>2. l.committed # <<>>
      BY <1>3, <3>1 DEF OwedOK
    <3>3. PICK H \in Seq(Identity) : H = History(c, D, carries') /\ H # <<>>
      <4>1. snap[c] \in Nat /\ carries'[c] \in [1..MaxLocal -> Nat]
        BY <1>1, <1>2, SeatTypes
      <4> QED
        BY <1>4, <3>2, <4>1, HistoryFacts
    <3>4. PICK o \in Offer : /\ o = [seen |-> n, state |-> [text |-> D, log |-> H]]
                             /\ o.seen = n /\ o.state.text = D /\ o.state.log = H
      <4>1. [text |-> D, log |-> H] \in State /\ n \in Nat
        BY <1>1, SeatTypes DEF State
      <4>2. [seen |-> n, state |-> [text |-> D, log |-> H]] \in Offer
        BY <4>1 DEF Offer
      <4> QED
        BY <4>2
    <3>5. \A k \in 1..n : Kept(<<c, k>>, D)
      BY <1>3, <1>4, <3>1 DEF LoopOK
    <3>6. PICK old \in Seq(Offer) : old = offers[c] /\ OffersOK(c, old)
      BY <1>1, SeatTypes DEF Synced
    <3>7. PICK long \in Seq(Offer) : long = Append(old, o) /\ OffersOK(c, long)
      <4>1. PICK j \in Nat : j = Len(old) /\ DOMAIN old = 1..j
        <5>1. Len(old) \in Nat /\ DOMAIN old = 1..Len(old)
          BY ONLY old \in Seq(Offer)
        <5> QED
          BY <5>1
      <4>2. /\ Append(old, o) \in Seq(Offer) /\ DOMAIN Append(old, o) = 1..(j + 1)
            /\ \A i \in 1..j : Append(old, o)[i] = old[i]
            /\ Append(old, o)[j + 1] = o
        BY <4>1, AppendFacts
      <4>3. PICK long \in Seq(Offer) : /\ long = Append(old, o) /\ DOMAIN long = 1..(j + 1)
                                       /\ \A i \in 1..j : long[i] = old[i]
                                       /\ long[j + 1] = o
        BY <4>2
      <4>4. ASSUME NEW i \in DOMAIN long
            PROVE  long[i].state.log # <<>> /\ \A k \in 1..long[i].seen : Kept(<<c, k>>, long[i].state.text)
        <5>1. CASE i \in 1..j
          BY <3>6, <4>1, <4>3, <5>1 DEF OffersOK
        <5>2. CASE i = j + 1
          BY <3>3, <3>4, <3>5, <4>3, <5>2
        <5> QED
          BY <4>3, <5>1, <5>2
      <4> QED
        BY <4>3, <4>4 DEF OffersOK
    <3>8. /\ offers' = [offers EXCEPT ![c] = long] /\ dirty' = [dirty EXCEPT ![c] = FALSE]
          /\ outstanding' = [outstanding EXCEPT ![c] = {n}]
      <4>1. /\ offers' = [offers EXCEPT ![c] =
                             Append(@, [seen  |-> seenLocal'[c],
                                        state |-> [text |-> Display(log'[c]),
                                                   log  |-> History(c, Display(log'[c]), carries')]])]
            /\ dirty' = [dirty EXCEPT ![c] = FALSE]
            /\ outstanding' = [outstanding EXCEPT ![c] = {seenLocal'[c]}]
        BY <2>1 DEF Turn
      <4>2. o = [seen  |-> seenLocal'[c],
                 state |-> [text |-> Display(log'[c]), log |-> History(c, Display(log'[c]), carries')]]
        BY <1>3, <3>3, <3>4
      <4>3. offers' = [offers EXCEPT ![c] = Append(offers[c], o)]
        BY <4>1, <4>2
      <4> QED
        BY <1>3, <3>6, <3>7, <4>1, <4>3
    <3>9. {n} \in SUBSET (0..MaxLocal) /\ Cardinality({n}) <= 1
      <4>1. Cardinality({n}) = 1
        BY FS_Singleton
      <4> QED
        BY <1>1, <4>1, SeatTypes
    <3>10. OwedOK(FALSE, {n}, l.committed)
      BY <3>2 DEF OwedOK
    <3> QED
      BY <3>7, <3>8, <3>9, <3>10
  <2>2. CASE ~Owed(c, owed)
    <3>1. offers' = offers /\ dirty' = [dirty EXCEPT ![c] = owed] /\ outstanding' = [outstanding EXCEPT ![c] = known]
      BY <2>2 DEF Turn
    <3>2. offers' = [offers EXCEPT ![c] = offers[c]] /\ offers[c] \in Seq(Offer) /\ OffersOK(c, offers[c])
      BY <1>1, <1>2, <3>1 DEF Synced
    <3> QED
      BY <1>3, <3>1, <3>2
  <2> QED
    BY <2>1, <2>2
<1>6. PICK fl \in SUBSET (0..MaxLocal), ld \in SUBSET (0..MaxLocal) :
        /\ flushes' = [flushes EXCEPT ![c] = fl] /\ landed' = [landed EXCEPT ![c] = ld]
        /\ FlushOK(n, queue'[c], fl, ld) /\ SavedOK(c, ld, text')
  <2>1. SavedOK(c, landed[c], text')
    <3>1. SavedOK(c, landed[c], text)
      BY <1>1 DEF Synced
    <3> QED
      BY <1>1, <3>1, SavedStays
  <2>2. landed[c] \in SUBSET (0..MaxLocal)
    BY <1>2
  <2>3. CASE IsSettled(l)
    <3>1. landed' = [landed EXCEPT ![c] = landed[c] \cup waiting] /\ flushes' = [flushes EXCEPT ![c] = {}]
      BY <1>3, <2>3 DEF Turn
    <3>2. FlushOK(n, queue'[c], {}, landed[c] \cup waiting)
      BY <1>3 DEF FlushOK
    <3>3. ASSUME NEW e \in waiting, NEW k \in 1..e PROVE Kept(<<c, k>>, text')
      <4>1. e <= n /\ e \in 0..MaxLocal
        BY <1>3 DEF FlushOK
      <4>2. k \in 1..n
        BY <4>1, BoundsAssumption
      <4>3. Kept(<<c, k>>, Whole(l))
        BY <1>3, <4>2 DEF LoopOK
      <4>4. Whole(l) \in Seq(Uid) /\ text' \in Seq(Uid)
        BY <1>1, WholeFacts DEF TypeOK
      <4> QED
        BY <1>4, <2>3, <4>3, <4>4, KeptInMore
    <3>4. SavedOK(c, landed[c] \cup waiting, text')
      BY <2>1, <3>3 DEF SavedOK
    <3>5. landed[c] \cup waiting \in SUBSET (0..MaxLocal) /\ {} \in SUBSET (0..MaxLocal)
      BY <2>2
    <3> QED
      BY <3>1, <3>2, <3>4, <3>5
  <2>4. CASE ~IsSettled(l)
    <3>1. landed' = landed /\ flushes' = [flushes EXCEPT ![c] = waiting]
      BY <1>3, <2>4 DEF Turn
    <3>2. landed' = [landed EXCEPT ![c] = landed[c]]
      BY <1>2, <3>1
    <3> QED
      BY <1>3, <2>1, <2>2, <3>1, <3>2
  <2> QED
    BY <2>3, <2>4
<1>7. EditorTypeOK'
  <2>1. offers' \in [Client -> Seq(Offer)] /\ dirty' \in [Client -> BOOLEAN]
    BY <1>2, <1>5
  <2>2. outstanding' \in [Client -> SUBSET (0..MaxLocal)] /\ \A d \in Client : Cardinality(outstanding'[d]) <= 1
    BY <1>2, <1>5
  <2>3. flushes' \in [Client -> SUBSET (0..MaxLocal)] /\ landed' \in [Client -> SUBSET (0..MaxLocal)]
    BY <1>2, <1>6
  <2> QED
    BY <1>1, <1>2, <2>1, <2>2, <2>3 DEF EditorTypeOK
<1>8. \A d \in Client : d # c => Undisturbed(d)
  BY <1>2, <1>5, <1>6 DEF Undisturbed
<1>9. /\ offers'[c] = off /\ dirty'[c] = owes /\ outstanding'[c] = out
      /\ flushes'[c] = fl /\ landed'[c] = ld
  BY <1>2, <1>5, <1>6
<1>10. CountOK(minted'[c], Len(editor'[c].log), taken'[c], seenLocal'[c], queue'[c])
  BY <1>1, <1>2 DEF Synced, CountOK
<1>11. ShownOK(c, early'[c], minted'[c] + Cardinality(Edits(queue'[c])), editor'[c].text)
  BY <1>1, <1>2 DEF Synced
<1>12. Synced(c)'
  BY <1>3, <1>5, <1>6, <1>9, <1>10, <1>11 DEF Synced
<1>13. SeatOK(c)'
  BY <1>12 DEF SeatOK
<1> QED
  BY <1>7, <1>8, <1>13, OneMoves

LEMMA CarryType ==
  ASSUME EditorTypeOK, NEW c \in Client, NEW id, NEW moved, Carry(c, id, moved)
  PROVE  carries' \in [Client -> [1..MaxLocal -> Nat]]
<1>1. carries \in [Client -> [1..MaxLocal -> Nat]] /\ carries[c] \in [1..MaxLocal -> Nat]
  BY DEF EditorTypeOK
<1>2. CASE moved /\ Len(wire'[c]) > Len(wire[c])
  <2>1. carries' = [carries EXCEPT ![c] = [carries[c] EXCEPT ![id[2]] = carries[c][id[2]] + 1]]
    BY <1>2 DEF Carry
  <2>2. [carries[c] EXCEPT ![id[2]] = carries[c][id[2]] + 1] \in [1..MaxLocal -> Nat]
    <3>1. CASE id[2] \in 1..MaxLocal
      BY <1>1, <3>1
    <3>2. CASE id[2] \notin 1..MaxLocal
      BY <1>1, <3>2
    <3> QED
      BY <3>1, <3>2
  <2> QED
    BY <1>1, <2>1, <2>2
<1>3. CASE ~(moved /\ Len(wire'[c]) > Len(wire[c]))
  <2>1. carries' = carries
    BY <1>3 DEF Carry
  <2> QED
    BY <1>1, <2>1
<1> QED
  BY <1>2, <1>3

\* What a turn finds, whatever it is about.
LEMMA TurnFinds ==
  ASSUME EIInv, NEW c \in Client, c \in subscribers
  PROVE  /\ EditorTypeOK /\ TypeOK /\ Synced(c)
         /\ log[c] \in Log /\ minted[c] \in Nat /\ minted[c] \in 0..MaxLocal
         /\ queue[c] \in Seq(Message) /\ queue \in [Client -> Seq(Message)]
         /\ seenLocal \in [Client -> 0..MaxLocal] /\ seenLocal[c] = minted[c]
         /\ carries \in [Client -> [1..MaxLocal -> Nat]]
         /\ outstanding[c] \subseteq 0..MaxLocal /\ Cardinality(outstanding[c]) <= 1
         /\ flushes[c] \subseteq 0..MaxLocal /\ landed[c] \subseteq 0..MaxLocal /\ dirty[c] \in BOOLEAN
         /\ FlushOK(minted[c], queue[c], flushes[c], landed[c]) /\ flushes[c] \cup landed[c] \subseteq Nat
         /\ LoopOK(c, minted[c], log[c])
         /\ OwedOK(dirty[c], outstanding[c], log[c].committed)
<1>1. EditorTypeOK /\ TypeOK /\ Synced(c)
  BY DEF EIInv, SeatOK, EditorTypeOK
<1>2. log[c] \in Log
  BY <1>1 DEF TypeOK
<1>3. /\ minted[c] \in Nat /\ minted[c] \in 0..MaxLocal
      /\ queue[c] \in Seq(Message) /\ dirty[c] \in BOOLEAN
      /\ outstanding[c] \subseteq 0..MaxLocal /\ flushes[c] \subseteq 0..MaxLocal /\ landed[c] \subseteq 0..MaxLocal
  BY <1>1, SeatTypes
<1>4. /\ queue \in [Client -> Seq(Message)] /\ seenLocal \in [Client -> 0..MaxLocal]
      /\ carries \in [Client -> [1..MaxLocal -> Nat]] /\ Cardinality(outstanding[c]) <= 1
  BY <1>1 DEF EditorTypeOK
<1>5. /\ seenLocal[c] = minted[c]
      /\ FlushOK(minted[c], queue[c], flushes[c], landed[c])
      /\ LoopOK(c, minted[c], log[c])
      /\ OwedOK(dirty[c], outstanding[c], log[c].committed)
  BY <1>1 DEF Synced, CountOK
<1>6. flushes[c] \cup landed[c] \subseteq Nat
  BY <1>3
<1> QED
  BY <1>1, <1>2, <1>3, <1>4, <1>5, <1>6

LEMMA HeardIn ==
  ASSUME EIInv, NEW c \in Client, c \in subscribers, NEW q, q = queue[c], q # <<>>
  PROVE  /\ Tail(q) \in Seq(Message) /\ Head(q) \in Message
         /\ minted[c] + Cardinality(Edits(q)) = minted[c] + Weight(Head(q)) + Cardinality(Edits(Tail(q)))
         /\ FlushOK(minted[c] + Weight(Head(q)), Tail(q), flushes[c], landed[c])
         /\ Head(q).kind = "flush" => Head(q).edits <= minted[c]
<1>1. q \in Seq(Message) /\ minted[c] \in Nat
  BY TurnFinds
<1>2. FlushOK(minted[c], q, flushes[c], landed[c]) /\ flushes[c] \cup landed[c] \subseteq Nat
  BY TurnFinds
<1> QED
  BY <1>1, <1>2, HeardMessage

LEMMA HearTookKeeps ==
  ASSUME EIInv, IInv', Grows, NEW c \in Client, c \in subscribers, HearTook(c)
  PROVE  EIInv'
<1>1. PICK q \in Seq(Message), n \in Nat, known \in SUBSET (0..MaxLocal) :
        q = queue[c] /\ n = minted[c] /\ known = outstanding[c] \ {Head(q).seen}
  BY TurnFinds
<1>2. /\ queue' = [queue EXCEPT ![c] = Tail(q)] /\ q # <<>> /\ Weight(Head(q)) = 0
      /\ UNCHANGED <<vars, seenLocal, carries>>
      /\ Turn(c, dirty[c], known, flushes[c])
  BY <1>1 DEF HearTook, Weight
<1>3. /\ Tail(q) \in Seq(Message) /\ FlushOK(n, Tail(q), flushes[c], landed[c])
      /\ n + Cardinality(Edits(Tail(q))) = n + Cardinality(Edits(q))
  <2>1. /\ Tail(q) \in Seq(Message)
        /\ n + Cardinality(Edits(q)) = n + Weight(Head(q)) + Cardinality(Edits(Tail(q)))
        /\ FlushOK(n + Weight(Head(q)), Tail(q), flushes[c], landed[c])
    BY <1>1, <1>2, HeardIn
  <2>2. n + 0 = n
    OBVIOUS
  <2> QED
    BY <1>2, <2>1, <2>2
<1>4. Cardinality(known) <= 1
  <2>1. IsFiniteSet(outstanding[c])
    <3>1. 0 \in Int /\ MaxLocal \in Int
      BY BoundsAssumption
    <3>2. IsFiniteSet(0..MaxLocal)
      BY <3>1, FS_Interval
    <3> QED
      BY <3>2, TurnFinds, FS_Subset
  <2>2. /\ Cardinality(known) <= Cardinality(outstanding[c])
        /\ Cardinality(known) \in Nat /\ Cardinality(outstanding[c]) \in Nat
    <3>1. known \subseteq outstanding[c]
      BY <1>1
    <3> QED
      BY <2>1, <3>1, FS_Subset, FS_CardinalityType
  <2> QED
    BY <2>2, TurnFinds
<1>5. OwedOK(dirty[c], known, log[c].committed)
  BY <1>1, TurnFinds DEF OwedOK
<1>6. /\ log' = log /\ minted' = minted /\ subscribers' = subscribers /\ seenLocal' = seenLocal /\ carries' = carries
      /\ queue'[c] = Tail(q) /\ queue' \in [Client -> Seq(Message)]
      /\ \A d \in Client : d # c => queue'[d] = queue[d]
  BY <1>2, <1>3, TurnFinds DEF vars
<1> QED
  <2>1. /\ dirty[c] \in BOOLEAN /\ known \subseteq 0..MaxLocal /\ flushes[c] \subseteq 0..MaxLocal
        /\ seenLocal' \in [Client -> 0..MaxLocal] /\ carries' \in [Client -> [1..MaxLocal -> Nat]]
        /\ seenLocal'[c] = minted'[c] /\ LoopOK(c, minted'[c], log'[c])
    BY <1>6, TurnFinds
  <2>2. /\ minted'[c] + Cardinality(Edits(queue'[c])) = minted[c] + Cardinality(Edits(queue[c]))
        /\ FlushOK(minted'[c], queue'[c], flushes[c], landed[c])
        /\ OwedOK(dirty[c], known, log'[c].committed)
    BY <1>1, <1>3, <1>5, <1>6
  <2>3. \A d \in Client : d # c => /\ queue'[d] = queue[d] /\ seenLocal'[d] = seenLocal[d]
                                  /\ minted'[d] = minted[d] /\ log'[d] = log[d]
    BY <1>6
  <2>4. /\ subscribers' = subscribers /\ queue' \in [Client -> Seq(Message)]
        /\ Turn(c, dirty[c], known, flushes[c])
    BY <1>2, <1>6
  <2> QED
    BY <1>4, <2>1, <2>2, <2>3, <2>4, TurnKeeps

LEMMA HearFlushKeeps ==
  ASSUME EIInv, IInv', Grows, NEW c \in Client, c \in subscribers, HearFlush(c)
  PROVE  EIInv'
<1>1. PICK q \in Seq(Message), n \in 0..MaxLocal, waiting \in {flushes[c] \cup {Head(queue[c]).edits}} :
        q = queue[c] /\ n = minted[c] /\ n \in Nat /\ waiting = flushes[c] \cup {Head(q).edits}
  BY TurnFinds
<1>2. /\ queue' = [queue EXCEPT ![c] = Tail(q)] /\ q # <<>> /\ Head(q).kind = "flush" /\ Weight(Head(q)) = 0
      /\ UNCHANGED <<vars, seenLocal, carries>>
      /\ Turn(c, dirty[c], outstanding[c], waiting)
  BY <1>1 DEF HearFlush, Weight
<1>3. /\ Tail(q) \in Seq(Message) /\ FlushOK(n, Tail(q), flushes[c], landed[c])
      /\ n + Cardinality(Edits(Tail(q))) = n + Cardinality(Edits(q))
      /\ Head(q) \in Message /\ Head(q).edits <= n
  <2>1. /\ Tail(q) \in Seq(Message) /\ Head(q) \in Message
        /\ n + Cardinality(Edits(q)) = n + Weight(Head(q)) + Cardinality(Edits(Tail(q)))
        /\ FlushOK(n + Weight(Head(q)), Tail(q), flushes[c], landed[c])
        /\ Head(q).kind = "flush" => Head(q).edits <= n
    BY <1>1, <1>2, HeardIn
  <2>2. n + 0 = n
    BY <1>1
  <2> QED
    BY <1>2, <2>1, <2>2
<1>4. Head(q).edits \in 0..MaxLocal
  <2>1. Head(q).edits \in Nat
    BY <1>2, <1>3 DEF Message
  <2> QED
    BY <1>1, <1>3, <2>1, BoundsAssumption
<1>5. waiting \subseteq 0..MaxLocal
  BY <1>1, <1>4, TurnFinds
<1>6. FlushOK(n, Tail(q), waiting, landed[c])
  BY <1>1, <1>3 DEF FlushOK
<1>7. /\ log' = log /\ minted' = minted /\ subscribers' = subscribers /\ seenLocal' = seenLocal /\ carries' = carries
      /\ queue'[c] = Tail(q) /\ queue' \in [Client -> Seq(Message)]
      /\ \A d \in Client : d # c => queue'[d] = queue[d]
  BY <1>2, <1>3, TurnFinds DEF vars
<1> QED
  <2>1. /\ dirty[c] \in BOOLEAN /\ outstanding[c] \subseteq 0..MaxLocal /\ Cardinality(outstanding[c]) <= 1
        /\ seenLocal' \in [Client -> 0..MaxLocal] /\ carries' \in [Client -> [1..MaxLocal -> Nat]]
        /\ seenLocal'[c] = minted'[c] /\ LoopOK(c, minted'[c], log'[c])
        /\ OwedOK(dirty[c], outstanding[c], log'[c].committed)
    BY <1>7, TurnFinds
  <2>2. /\ minted'[c] + Cardinality(Edits(queue'[c])) = minted[c] + Cardinality(Edits(queue[c]))
        /\ FlushOK(minted'[c], queue'[c], waiting, landed[c])
    BY <1>1, <1>3, <1>6, <1>7
  <2>3. \A d \in Client : d # c => /\ queue'[d] = queue[d] /\ seenLocal'[d] = seenLocal[d]
                                  /\ minted'[d] = minted[d] /\ log'[d] = log[d]
    BY <1>7
  <2>4. /\ subscribers' = subscribers /\ queue' \in [Client -> Seq(Message)]
        /\ Turn(c, dirty[c], outstanding[c], waiting)
    BY <1>2, <1>7
  <2> QED
    BY <1>5, <2>1, <2>2, <2>3, <2>4, TurnKeeps

LEMMA HearEditKeeps ==
  ASSUME EIInv, IInv', Grows, NEW c \in Client, c \in subscribers, HearEdit(c)
  PROVE  EIInv'
<1>1. PICK q \in Seq(Message), n \in Nat, owed \in BOOLEAN, l \in Log :
        /\ q = queue[c] /\ n = minted[c] /\ n = seenLocal[c] /\ owed = (dirty[c] \/ outstanding[c] # {})
        /\ l = log[c]
  BY TurnFinds
<1>2. /\ queue' = [queue EXCEPT ![c] = Tail(q)] /\ q # <<>> /\ Head(q).kind = "edit" /\ Weight(Head(q)) = 1
      /\ seenLocal' = [seenLocal EXCEPT ![c] = n + 1]
      /\ minted' = [minted EXCEPT ![c] = n + 1] /\ n < MaxLocal
      /\ log' = [log EXCEPT ![c] = Local(l, <<c, n + 1>>).log]
      /\ subscribers' = subscribers
      /\ Carry(c, Head(q).id, HeadOf(Head(q).base) # HeadOf(Shows(c)))
      /\ Turn(c, owed, {}, flushes[c])
  BY <1>1 DEF HearEdit, LocalEdit, Perform, Weight, Overtaken, host
<1>3. /\ Tail(q) \in Seq(Message) /\ FlushOK(n + 1, Tail(q), flushes[c], landed[c])
      /\ n + 1 + Cardinality(Edits(Tail(q))) = n + Cardinality(Edits(q))
  BY <1>1, <1>2, HeardIn
<1>4. n + 1 \in 0..MaxLocal /\ n \in 0..MaxLocal
  BY <1>2, BoundsAssumption
<1>5. PICK x \in Uid : x = <<c, n + 1>>
  BY <1>4, UidFacts
<1>6. PICK m \in Log : m = Local(l, x).log /\ m = log'[c]
  <2>1. log'[c] \in Log
    BY DEF IInv, TypeOK
  <2>2. log \in [Client -> Log]
    BY TurnFinds DEF TypeOK
  <2> QED
    BY <1>2, <1>5, <2>1, <2>2
<1>7. /\ m.committed = l.committed /\ Kept(x, Whole(m))
      /\ \A y \in Uid : Holds(Whole(l), y) => Kept(y, Whole(m))
  BY <1>6, LocalKeepsAll
<1>8. LoopOK(c, n + 1, m)
  <2>1. LoopOK(c, n, l)
    BY <1>1, TurnFinds
  <2>2. LoopOK(c, n, m)
    BY <1>4, <1>7, <2>1, LoopGoesOn
  <2>3. \A k \in 1..(n + 1) : k \in 1..n \/ k = n + 1
    OBVIOUS
  <2> QED
    BY <1>5, <1>7, <2>2, <2>3 DEF LoopOK
<1>9. OwedOK(owed, {}, m.committed)
  BY <1>1, <1>7, TurnFinds DEF OwedOK
<1>10. Cardinality({}) <= 1 /\ {} \subseteq 0..MaxLocal
  BY FS_EmptySet
<1>11. /\ minted'[c] = n + 1 /\ seenLocal'[c] = n + 1 /\ seenLocal' \in [Client -> 0..MaxLocal]
       /\ queue'[c] = Tail(q) /\ queue' \in [Client -> Seq(Message)]
       /\ carries' \in [Client -> [1..MaxLocal -> Nat]]
       /\ \A d \in Client : d # c => /\ queue'[d] = queue[d] /\ seenLocal'[d] = seenLocal[d]
                                     /\ minted'[d] = minted[d] /\ log'[d] = log[d]
  <2>1. minted \in [Client -> 0..MaxLocal] /\ log \in [Client -> Log]
    BY TurnFinds DEF TypeOK
  <2>2. carries' \in [Client -> [1..MaxLocal -> Nat]]
    BY <1>2, TurnFinds, CarryType
  <2> QED
    BY <1>2, <1>3, <1>4, <2>1, <2>2, TurnFinds
<1> QED
  <2>1. /\ flushes[c] \subseteq 0..MaxLocal /\ seenLocal'[c] = minted'[c]
    BY <1>11, TurnFinds
  <2>2. /\ minted'[c] + Cardinality(Edits(queue'[c])) = minted[c] + Cardinality(Edits(queue[c]))
        /\ FlushOK(minted'[c], queue'[c], flushes[c], landed[c])
    BY <1>1, <1>3, <1>11
  <2>3. LoopOK(c, minted'[c], log'[c]) /\ OwedOK(owed, {}, log'[c].committed)
    BY <1>6, <1>8, <1>9, <1>11
  <2>4. subscribers' = subscribers /\ Turn(c, owed, {}, flushes[c])
    BY <1>2
  <2> QED
    BY <1>10, <1>11, <2>1, <2>2, <2>3, <2>4, TurnKeeps

LEMMA HearActionKeeps ==
  ASSUME IInv, EIInv, IInv', Grows, NEW c \in Client, c \in subscribers, HearAction(c)
  PROVE  EIInv'
<1>1. PICK n \in 0..MaxLocal, l \in Log, y \in Uid, owed \in BOOLEAN :
        /\ n = minted[c] /\ l = log[c] /\ feed[c] # <<>> /\ y = Head(feed[c]).id
        /\ owed = (dirty[c] \/ ~IsAck(l, y))
  <2>1. feed[c] \in Seq(Applied) /\ feed[c] # <<>>
    BY ClientTypes DEF IInv, HearAction, HearApplied
  <2>2. Head(feed[c]) \in Applied
    BY <2>1
  <2> QED
    BY <2>1, <2>2, TurnFinds DEF Applied
<1>2. /\ log' = [log EXCEPT ![c] = IF IsAck(l, y) THEN Ack(l) ELSE Remote(l, y)]
      /\ UNCHANGED <<minted, subscribers, queue, seenLocal, carries>>
      /\ Turn(c, owed, outstanding[c], flushes[c])
  BY <1>1 DEF HearAction, HearApplied, host
<1>3. PICK m \in Log : m = log'[c] /\ m = IF IsAck(l, y) THEN Ack(l) ELSE Remote(l, y)
  <2>1. log'[c] \in Log
    BY DEF IInv, TypeOK
  <2>2. log \in [Client -> Log]
    BY TurnFinds DEF TypeOK
  <2> QED
    BY <1>2, <2>1, <2>2
<1>4. LogOK(l.committed, l.version, l.speculation)
  BY <1>1 DEF IInv, ClientInv, MirrorOK
<1>5. m.committed # <<>> /\ \A x \in Uid : Holds(Whole(l), x) => Kept(x, Whole(m))
  <2>1. CASE IsAck(l, y)
    <3>1. m = Ack(l) /\ l.speculation # <<>>
      BY <1>3, <2>1 DEF IsAck
    <3>2. Whole(m) = Whole(l)
      BY <3>1, AckKeepsAll
    <3>3. PICK com \in Seq(Uid), spec \in Seq(Entry) : com = l.committed /\ spec = l.speculation /\ 1 \in DOMAIN spec
      BY <3>1 DEF Log
    <3>4. m.committed = spec[1].after
      BY <3>1, <3>3, AckFacts
    <3>5. Len(spec[1].after) = Len(com) + 1
      BY <1>4, <3>3 DEF LogOK
    <3>6. spec[1].after # <<>>
      BY <3>5
    <3> QED
      BY <3>2, <3>4, <3>6, HeldIsKept
  <2>2. CASE ~IsAck(l, y)
    BY <1>3, <1>4, <2>2, RemoteKeepsAll
  <2> QED
    BY <2>1, <2>2
<1>6. LoopOK(c, n, m)
  BY <1>1, <1>5, TurnFinds, LoopGoesOn
<1>7. OwedOK(owed, outstanding[c], m.committed)
  BY <1>5 DEF OwedOK
<1>8. \A d \in Client : d # c => log'[d] = log[d]
  BY <1>2, TurnFinds DEF TypeOK
<1> QED
  <2>1. /\ outstanding[c] \subseteq 0..MaxLocal /\ Cardinality(outstanding[c]) <= 1
        /\ flushes[c] \subseteq 0..MaxLocal
        /\ seenLocal' \in [Client -> 0..MaxLocal] /\ queue' \in [Client -> Seq(Message)]
        /\ carries' \in [Client -> [1..MaxLocal -> Nat]] /\ seenLocal'[c] = minted'[c]
        /\ minted'[c] + Cardinality(Edits(queue'[c])) = minted[c] + Cardinality(Edits(queue[c]))
        /\ FlushOK(minted'[c], queue'[c], flushes[c], landed[c])
    BY <1>2, TurnFinds
  <2>2. LoopOK(c, minted'[c], log'[c]) /\ OwedOK(owed, outstanding[c], log'[c].committed)
    BY <1>1, <1>2, <1>3, <1>6, <1>7
  <2>3. \A d \in Client : d # c => /\ queue'[d] = queue[d] /\ seenLocal'[d] = seenLocal[d]
                                  /\ minted'[d] = minted[d] /\ log'[d] = log[d]
    BY <1>2, <1>8
  <2>4. subscribers' = subscribers /\ Turn(c, owed, outstanding[c], flushes[c])
    BY <1>2
  <2> QED
    BY <2>1, <2>2, <2>3, <2>4, TurnKeeps

LEMMA StepLoopKeeps ==
  ASSUME EIInv, IInv', Grows, NEW c \in Client, c \in subscribers, StepLoop(c)
  PROVE  EIInv'
<1>1. PICK n \in 0..MaxLocal, l \in Log : n = minted[c] /\ l = log[c]
  BY TurnFinds
<1>2. /\ log' = [log EXCEPT ![c] = Step(l).log]
      /\ UNCHANGED <<minted, subscribers, queue, seenLocal>>
      /\ Carry(c, Last(wire'[c]).id, TRUE)
      /\ Turn(c, dirty[c], outstanding[c], flushes[c])
  BY <1>1 DEF StepLoop, RebaseStep, Perform, host
<1>3. PICK m \in Log : m = log'[c] /\ m = Step(l).log
  <2>1. log'[c] \in Log
    BY DEF IInv, TypeOK
  <2>2. log \in [Client -> Log]
    BY TurnFinds DEF TypeOK
  <2> QED
    BY <1>2, <2>1, <2>2
<1>4. m.committed = l.committed /\ \A x \in Uid : Holds(Whole(l), x) => Kept(x, Whole(m))
  BY <1>3, StepKeepsAll
<1>5. LoopOK(c, n, m)
  BY <1>1, <1>4, TurnFinds, LoopGoesOn
<1>6. OwedOK(dirty[c], outstanding[c], m.committed)
  BY <1>1, <1>4, TurnFinds
<1>7. \A d \in Client : d # c => log'[d] = log[d]
  BY <1>2, TurnFinds DEF TypeOK
<1>8. carries' \in [Client -> [1..MaxLocal -> Nat]]
  BY <1>2, TurnFinds, CarryType
<1> QED
  <2>1. /\ dirty[c] \in BOOLEAN /\ outstanding[c] \subseteq 0..MaxLocal /\ Cardinality(outstanding[c]) <= 1
        /\ flushes[c] \subseteq 0..MaxLocal
        /\ seenLocal' \in [Client -> 0..MaxLocal] /\ queue' \in [Client -> Seq(Message)]
        /\ seenLocal'[c] = minted'[c]
        /\ minted'[c] + Cardinality(Edits(queue'[c])) = minted[c] + Cardinality(Edits(queue[c]))
        /\ FlushOK(minted'[c], queue'[c], flushes[c], landed[c])
    BY <1>2, TurnFinds
  <2>2. LoopOK(c, minted'[c], log'[c]) /\ OwedOK(dirty[c], outstanding[c], log'[c].committed)
    BY <1>1, <1>2, <1>3, <1>5, <1>6
  <2>3. \A d \in Client : d # c => /\ queue'[d] = queue[d] /\ seenLocal'[d] = seenLocal[d]
                                  /\ minted'[d] = minted[d] /\ log'[d] = log[d]
    BY <1>2, <1>7
  <2>4. subscribers' = subscribers /\ Turn(c, dirty[c], outstanding[c], flushes[c])
    BY <1>2
  <2> QED
    BY <1>8, <2>1, <2>2, <2>3, <2>4, TurnKeeps

-----------------------------------------------------------------------------
\* All of it.

\* What the loop hears or carries it has a loop for.
LEMMA OnlyLoopsTurn ==
  ASSUME IInv, EIInv, NEW c \in Client,
         HearEdit(c) \/ HearTook(c) \/ HearFlush(c) \/ HearAction(c) \/ StepLoop(c)
  PROVE  c \in subscribers
<1> SUFFICES ASSUME c \notin subscribers PROVE FALSE
  OBVIOUS
<1>1. NotSynced(c) /\ Idle(c)
  BY DEF EIInv, SeatOK, IInv, ClientInv
<1>2. queue[c] = <<>> /\ feed[c] = <<>> /\ ~IsRebasing(log[c])
  BY <1>1 DEF NotSynced, Idle, NewLog, IsRebasing
<1> QED
  BY <1>2 DEF HearEdit, HearTook, HearFlush, HearAction, HearApplied, StepLoop, RebaseStep

LEMMA EditorInvStep == Ordered /\ IInv /\ EIInv /\ [EditorNext]_editorVars => EIInv'
<1> SUFFICES ASSUME Ordered, IInv, EIInv, [EditorNext]_editorVars PROVE EIInv'
  OBVIOUS
<1>1. [Next]_vars
  BY EditorIsDocSync
<1>2. IInv' /\ TypeOK' /\ TypeOK
  BY <1>1, InvStep DEF IInv
<1>3. Grows
  BY <1>1, <1>2, TextOnlyGrows
<1>4. CASE Elsewhere(ReloadMirror)
  <2>1. log' = log /\ minted' = minted /\ subscribers' = subscribers
    BY <1>4 DEF Elsewhere, ReloadMirror
  <2> QED
    BY <1>2, <1>3, <1>4, <2>1, NobodyMoves DEF Elsewhere
<1>5. ASSUME NEW c \in Client, Elsewhere(DocumentDispatch(c)) PROVE EIInv'
  <2>1. log' = log /\ minted' = minted /\ subscribers' = subscribers
    BY <1>5 DEF Elsewhere, DocumentDispatch
  <2> QED
    BY <1>2, <1>3, <1>5, <2>1, NobodyMoves DEF Elsewhere
<1>6. ASSUME NEW c \in Client, Elsewhere(ConnectionDies(c)) PROVE EIInv'
  <2>1. log' = log /\ minted' = minted /\ subscribers' = subscribers
    BY <1>6 DEF Elsewhere, ConnectionDies, host
  <2> QED
    BY <1>2, <1>3, <1>6, <2>1, NobodyMoves DEF Elsewhere
<1>7. ASSUME NEW c \in Client, AdoptSnapshot(c) PROVE EIInv'
  BY <1>2, <1>3, <1>7, AdoptKeeps
<1>8. ASSUME NEW c \in Client, Changed(c) PROVE EIInv'
  BY <1>3, <1>8, ChangedKeeps
<1>9. ASSUME NEW c \in Client, StoreHandle(c) PROVE EIInv'
  BY <1>3, <1>9, StoreKeeps
<1>10. ASSUME NEW c \in Client, ApplyOffer(c) PROVE EIInv'
  BY <1>2, <1>3, <1>10, ApplyOfferKeeps
<1>11. ASSUME NEW c \in Client, HearEdit(c) PROVE EIInv'
  BY <1>2, <1>3, <1>11, OnlyLoopsTurn, HearEditKeeps
<1>12. ASSUME NEW c \in Client, HearTook(c) PROVE EIInv'
  BY <1>2, <1>3, <1>12, OnlyLoopsTurn, HearTookKeeps
<1>13. ASSUME NEW c \in Client, HearFlush(c) PROVE EIInv'
  BY <1>2, <1>3, <1>13, OnlyLoopsTurn, HearFlushKeeps
<1>14. ASSUME NEW c \in Client, HearAction(c) PROVE EIInv'
  BY <1>2, <1>3, <1>14, OnlyLoopsTurn, HearActionKeeps
<1>15. ASSUME NEW c \in Client, StepLoop(c) PROVE EIInv'
  BY <1>2, <1>3, <1>15, OnlyLoopsTurn, StepLoopKeeps
<1>16. CASE UNCHANGED editorVars
  <2>1. log' = log /\ minted' = minted /\ subscribers' = subscribers
        /\ UNCHANGED <<seam, driver, queue, saves, snap, early, carries>>
    BY <1>16 DEF editorVars, vars
  <2> QED
    BY <1>2, <1>3, <2>1, NobodyMoves
<1> QED
  BY <1>4, <1>5, <1>6, <1>7, <1>8, <1>9, <1>10, <1>11, <1>12, <1>13, <1>14, <1>15, <1>16 DEF EditorNext

LEMMA EditorInvariantHolds == Ordered => (EditorSpec => [](IInv /\ EIInv))
<1> SUFFICES ASSUME Ordered PROVE EditorSpec => [](IInv /\ EIInv)
  OBVIOUS
<1>1. EditorInit => IInv /\ EIInv
  BY InvInit, EditorInvInit DEF EditorInit
<1>2. IInv /\ EIInv /\ [EditorNext]_editorVars => (IInv /\ EIInv)'
  BY EditorIsDocSync, InvStep, EditorInvStep
<1> QED
  BY <1>1, <1>2, PTL DEF EditorSpec

\* The number by which the editor matches an offer is derived from its log, and
\* the loop counts on its own side; a keystroke, a landed offer, an edit typed
\* before the channel was there and a save's marker may be anywhere between the
\* two.  They agree in every state, for any number of clients, edits and offers
\* (docsync/rules.rs, sent; driver::run).
THEOREM EditorIsSafe == Ordered => (EditorSpec => []EditorInv)
<1> SUFFICES ASSUME Ordered PROVE EditorSpec => []EditorInv
  OBVIOUS
<1> QED
  BY EditorInvariantHolds, InvMeans, PTL

\* No offer takes from the screen what the reader typed, and no save reports an
\* edit on disk that the host does not have, although both leave the loop in one
\* state of it and arrive in another (rules::offer_landing, Local::Flush).
THEOREM TypingIsKept == Ordered => (EditorSpec => []TypingSurvives)
<1> SUFFICES ASSUME Ordered PROVE EditorSpec => []TypingSurvives
  OBVIOUS
<1> QED
  BY EditorInvariantHolds, InvMeans, PTL
=============================================================================
