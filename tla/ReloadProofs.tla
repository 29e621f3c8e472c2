---------------------------- MODULE ReloadProofs ----------------------------
(***************************************************************************)
(* The diff and the merge of Reload, for texts of any length: what their   *)
(* recursive functions compute, by induction over the rank of a place (the *)
(* hunks or lines that are left), and what follows for every reload.       *)
(*                                                                         *)
(* 1. A recursion over ranked places has a solution, and one can argue by  *)
(*    induction over it.                                                   *)
(* 2. The table holds the length of the longest text common to the rests;  *)
(*    the walk keeps that many lines; prefix and suffix take none away.    *)
(* 3. The hunks are what lies between the lines kept, so applied from the  *)
(*    last to the first they rebuild the new text.                         *)
(* 4. The merge goes through both sides' hunks in order: each is in the    *)
(*    hunk taken for it, and what is copied between is touched by none.    *)
(***************************************************************************)
EXTENDS Reload, WellFoundedInduction, SequenceTheorems, FiniteSetTheorems, TLAPS

-----------------------------------------------------------------------------
(***************************************************************************)
(* Recursion and induction.                                                *)
(***************************************************************************)

\* A set of naturals that is not empty has a least one.
LEMMA HasLeast ==
  ASSUME NEW T \in SUBSET Nat, T # {}
  PROVE  \E n \in T : \A m \in T : n <= m
<1> DEFINE R == OpToRel(<, Nat)
<1>1. IsWellFoundedOn(R, Nat)
  BY NatLessThanWellFounded
<1>2. \A x, y \in Nat : y < x => <<y, x>> \in R
  BY DEF OpToRel
<1> HIDE DEF R
<1>3. PICK x \in T : \A y \in T : ~ (<<y, x>> \in R)
  BY <1>1, WFMin
<1>4. \A y \in T : ~(y < x)
  BY <1>2, <1>3
<1>5. \A y \in T : x <= y
  BY <1>4
<1> QED
  BY <1>5

\* Induction, with a set for the predicate.
LEMMA Induction ==
  ASSUME NEW T, \A n \in Nat : (\A m \in Nat : m < n => m \in T) => n \in T
  PROVE  \A n \in Nat : n \in T
<1> SUFFICES ASSUME NEW k \in Nat, k \notin T PROVE FALSE
  OBVIOUS
<1> DEFINE U == Nat \ T
<1>1. PICK n \in U : \A m \in U : n <= m
  <2>1. U \in SUBSET Nat /\ U # {}
    OBVIOUS
  <2> HIDE DEF U
  <2> QED
    BY <2>1, HasLeast
<1>2. \A m \in Nat : m < n => m \in T
  BY <1>1
<1> QED
  BY <1>1, <1>2

\* step says what the value at x is, from the values at places of lower rank.
Solves(f, X, rank, step, n) == \A x \in X : rank[x] < n => f[x] = step[x][f]

IsRecursion(X, V, rank, step) ==
  /\ \E N \in Nat : rank \in [X -> 0..N]
  /\ step \in [X -> [[X -> V] -> V]]
  /\ \E v : v \in V
  /\ \A x \in X : \A f, g \in [X -> V] :
       (\A y \in X : rank[y] < rank[x] => f[y] = g[y]) => step[x][f] = step[x][g]

\* A recursion that only looks at places of lower rank has a function that solves it.
LEMMA RecursionExists ==
  ASSUME NEW X, NEW V, NEW rank, NEW step, IsRecursion(X, V, rank, step)
  PROVE  \E f \in [X -> V] : \A x \in X : f[x] = step[x][f]
<1>a. PICK N \in Nat : rank \in [X -> 0..N]
  BY DEF IsRecursion
<1>b. /\ step \in [X -> [[X -> V] -> V]]
      /\ \A x \in X : \A f, g \in [X -> V] :
       (\A y \in X : rank[y] < rank[x] => f[y] = g[y]) => step[x][f] = step[x][g]
  BY DEF IsRecursion
<1>c. PICK v : v \in V
  BY DEF IsRecursion
<1> DEFINE T == {n \in Nat : \E f \in [X -> V] : Solves(f, X, rank, step, n)}
<1>1. \A n \in Nat : (\A m \in Nat : m < n => m \in T) => n \in T
  <2> SUFFICES ASSUME NEW n \in Nat, \A m \in Nat : m < n => m \in T PROVE n \in T
    OBVIOUS
  <2>1. CASE n = 0
    <3> DEFINE some == [x \in X |-> v]
    <3>1. some \in [X -> V]
      BY <1>c
    <3>2. Solves(some, X, rank, step, 0)
      BY <1>a DEF Solves
    <3> QED
      BY <2>1, <3>1, <3>2
  <2>2. CASE n # 0
    <3>1. n - 1 \in Nat /\ n - 1 < n
      BY <2>2
    <3>2. PICK f \in [X -> V] : Solves(f, X, rank, step, n - 1)
      BY <3>1
    <3> DEFINE g == [x \in X |-> step[x][f]]
    <3>3. g \in [X -> V] /\ \A x \in X : g[x] = step[x][f]
      BY <1>b
    <3> HIDE DEF g
    <3>4. ASSUME NEW x \in X, rank[x] < n PROVE g[x] = step[x][g]
      <4>1. \A y \in X : rank[y] < rank[x] => f[y] = g[y]
        BY <1>a, <3>1, <3>2, <3>3, <3>4 DEF Solves
      <4> QED
        BY <1>b, <3>3, <4>1
    <3> QED
      BY <3>3, <3>4 DEF Solves
  <2> QED
    BY <2>1, <2>2
<1> HIDE DEF T
<1>2. N + 1 \in T
  BY <1>1, Induction
<1>3. PICK f \in [X -> V] : Solves(f, X, rank, step, N + 1)
  BY <1>2 DEF T
<1>4. \A x \in X : f[x] = step[x][f]
  BY <1>a, <1>3 DEF Solves
<1> QED
  BY <1>4

\* What holds where it holds at all places of lower rank holds everywhere.
IsHereditary(X, rank, T) ==
  /\ \E N \in Nat : rank \in [X -> 0..N]
  /\ \A x \in X : (\A y \in X : rank[y] < rank[x] => y \in T) => x \in T

\* Induction over ranks, with a set for the predicate.
LEMMA RankInduction ==
  ASSUME NEW X, NEW rank, NEW T, IsHereditary(X, rank, T)
  PROVE  \A x \in X : x \in T
<1>a. PICK N \in Nat : rank \in [X -> 0..N]
  BY DEF IsHereditary
<1>b. \A x \in X : (\A y \in X : rank[y] < rank[x] => y \in T) => x \in T
  BY DEF IsHereditary
<1> DEFINE U == {n \in Nat : \A x \in X : rank[x] = n => x \in T}
<1>1. \A n \in Nat : (\A m \in Nat : m < n => m \in U) => n \in U
  <2> SUFFICES ASSUME NEW n \in Nat, \A m \in Nat : m < n => m \in U, NEW x \in X, rank[x] = n PROVE x \in T
    OBVIOUS
  <2>1. ASSUME NEW y \in X, rank[y] < rank[x] PROVE y \in T
    <3>1. rank[y] \in Nat
      BY <1>a
    <3> QED
      BY <2>1, <3>1
  <2> QED
    BY <1>b, <2>1
<1> HIDE DEF U
<1>2. \A n \in Nat : n \in U
  BY <1>1, Induction
<1>3. \A x \in X : rank[x] \in Nat
  BY <1>a
<1> QED
  BY <1>2, <1>3 DEF U

-----------------------------------------------------------------------------
(***************************************************************************)
(* Texts.                                                                  *)
(***************************************************************************)

\* What lies between two places of a text.
LEMMA CopiedFacts ==
  ASSUME NEW S, NEW s \in Seq(S), NEW a \in Nat, NEW b \in 0..Len(s)
  PROVE  /\ Copied(s, a, b) \in Seq(S)
         /\ Len(Copied(s, a, b)) = IF a < b THEN b - a ELSE 0
         /\ \A i \in 1..b - a : Copied(s, a, b)[i] = s[a + i]
         /\ b <= a => Copied(s, a, b) = <<>>
<1>1. a + 1 \in Int /\ b \in Int /\ \A i \in a + 1 .. b : s[i] \in S
  OBVIOUS
<1>2. /\ SubSeq(s, a + 1, b) \in Seq(S)
      /\ Len(SubSeq(s, a + 1, b)) = IF a + 1 <= b THEN b - (a + 1) + 1 ELSE 0
      /\ \A i \in 1 .. b - (a + 1) + 1 : SubSeq(s, a + 1, b)[i] = s[a + 1 + i - 1]
  BY <1>1, SubSeqProperties
<1>3. b <= a => SubSeq(s, a + 1, b) = <<>>
  BY <1>1, SubSeqEmpty
<1>4. b - (a + 1) + 1 = b - a /\ (a + 1 <= b <=> a < b) /\ \A i \in 1..b - a : a + 1 + i - 1 = a + i
  OBVIOUS
<1> QED
  BY <1>2, <1>3, <1>4 DEF Copied

\* Two spans in a row are one.
LEMMA CopiedJoins ==
  ASSUME NEW S, NEW s \in Seq(S), NEW a \in Nat, NEW b \in Nat, NEW c \in Nat, a <= b, b <= c, c <= Len(s)
  PROVE  Copied(s, a, b) \o Copied(s, b, c) = Copied(s, a, c)
<1>1. a + 1 \in 1 .. Len(s) + 1 /\ b \in (a + 1) - 1 .. Len(s) /\ c \in b .. Len(s)
  OBVIOUS
<1> QED
  BY <1>1, ConcatAdjacentSubSeq DEF Copied

\* All of a text.
LEMMA CopiedAll ==
  ASSUME NEW S, NEW s \in Seq(S)
  PROVE  Copied(s, 0, Len(s)) = s
  BY SubSeqFull DEF Copied

\* Of two texts in a row, what lies in the one and what lies in the other.
LEMMA CopiedOfTwo ==
  ASSUME NEW S, NEW s \in Seq(S), NEW t \in Seq(S), NEW a \in Nat, NEW b \in 0..Len(s) + Len(t)
  PROVE  /\ b <= Len(s) => Copied(s \o t, a, b) = Copied(s, a, b)
         /\ Len(s) <= a => Copied(s \o t, a, b) = Copied(t, a - Len(s), IF b < Len(s) THEN 0 ELSE b - Len(s))
<1>1. /\ s \o t \in Seq(S) /\ Len(s \o t) = Len(s) + Len(t)
      /\ \A i \in 1 .. Len(s) + Len(t) : (s \o t)[i] = IF i <= Len(s) THEN s[i] ELSE t[i - Len(s)]
  BY ConcatProperties
<1>2. /\ Copied(s \o t, a, b) \in Seq(S)
      /\ Len(Copied(s \o t, a, b)) = IF a < b THEN b - a ELSE 0
      /\ \A i \in 1..b - a : Copied(s \o t, a, b)[i] = (s \o t)[a + i]
      /\ b <= a => Copied(s \o t, a, b) = <<>>
  BY <1>1, CopiedFacts
<1>3. ASSUME b <= Len(s) PROVE Copied(s \o t, a, b) = Copied(s, a, b)
  <2>1. /\ Copied(s, a, b) \in Seq(S)
        /\ Len(Copied(s, a, b)) = IF a < b THEN b - a ELSE 0
        /\ \A i \in 1..b - a : Copied(s, a, b)[i] = s[a + i]
    <3>1. b \in 0..Len(s)
      BY <1>3
    <3> QED
      BY ONLY s \in Seq(S), a \in Nat, <3>1, CopiedFacts
  <2>2. \A i \in 1..b - a : (s \o t)[a + i] = s[a + i]
    BY <1>1, <1>3
  <2>0. \A i \in 1..Len(Copied(s \o t, a, b)) : i \in 1..b - a
    BY <1>2
  <2>3. \A i \in 1..Len(Copied(s \o t, a, b)) : Copied(s \o t, a, b)[i] = Copied(s, a, b)[i]
    BY <1>2, <2>0, <2>1, <2>2
  <2> QED
    BY <1>2, <2>1, <2>3, SeqEqual
<1>4. ASSUME Len(s) <= a PROVE Copied(s \o t, a, b) = Copied(t, a - Len(s), IF b < Len(s) THEN 0 ELSE b - Len(s))
  <2> DEFINE c == IF b < Len(s) THEN 0 ELSE b - Len(s)
  <2>0. a - Len(s) \in Nat /\ c \in 0..Len(t) /\ (a < b => c = b - Len(s)) /\ (~(a < b) => c <= a - Len(s))
    BY <1>4
  <2> HIDE DEF c
  <2>1. /\ Copied(t, a - Len(s), c) \in Seq(S)
        /\ Len(Copied(t, a - Len(s), c)) = IF a - Len(s) < c THEN c - (a - Len(s)) ELSE 0
        /\ \A i \in 1..c - (a - Len(s)) : Copied(t, a - Len(s), c)[i] = t[a - Len(s) + i]
        /\ c <= a - Len(s) => Copied(t, a - Len(s), c) = <<>>
    BY <2>0, CopiedFacts
  <2>2. CASE ~(a < b)
    BY <1>2, <2>0, <2>1, <2>2 DEF c
  <2>3. CASE a < b
    <3>1. \A i \in 1..b - a : (s \o t)[a + i] = t[a - Len(s) + i]
      BY <1>1, <1>4
    <3>2. c - (a - Len(s)) = b - a
      BY <2>0, <2>3
    <3>3. \A i \in 1..Len(Copied(s \o t, a, b)) : Copied(s \o t, a, b)[i] = Copied(t, a - Len(s), c)[i]
      BY <1>2, <2>1, <2>3, <3>1, <3>2
    <3>4. Copied(s \o t, a, b) = Copied(t, a - Len(s), c)
      BY <1>2, <2>0, <2>1, <2>3, <3>2, <3>3, SeqEqual
    <3> QED
      BY <3>4 DEF c
  <2> QED
    BY <2>2, <2>3
<1> QED
  BY <1>3, <1>4

-----------------------------------------------------------------------------
(***************************************************************************)
(* Lines of a text, in their order.                                        *)
(***************************************************************************)

LineAt(f, text, kept, n) ==
  IF n = 0 THEN <<>>
  ELSE IF n \in kept THEN Append(f[n - 1], text[n]) ELSE f[n - 1]

\* f computes the lines of the text up to each place.
Picks(f, text, kept) == \A n \in 0..Len(text) : f[n] = LineAt(f, text, kept, n)

\* What Lines answers is the last value of such a function.
LEMMA LinesPicks ==
  ASSUME NEW S, NEW text \in Seq(S), NEW kept
  PROVE  \E f : /\ Picks(f, text, kept) /\ Lines(text, kept) = f[Len(text)]
                /\ \A n \in 0..Len(text) : f[n] \in Seq(S)
<1> DEFINE X == 0..Len(text)
           V == Seq(S)
           D == CHOOSE f : f = [n \in X |-> LineAt(f, text, kept, n)]
           rank == [n \in X |-> n]
           step == [n \in X |-> [f \in [X -> V] |-> LineAt(f, text, kept, n)]]
<1>1. Lines(text, kept) = D[Len(text)]
  BY DEF Lines, LineAt
<1>2. /\ Len(text) \in Nat /\ rank \in [X -> 0..Len(text)]
      /\ \A n \in X : rank[n] = n /\ (n # 0 => n - 1 \in X /\ rank[n - 1] < rank[n])
  OBVIOUS
<1>3. ASSUME NEW n \in X, NEW f, \A k \in X : rank[k] < rank[n] => f[k] \in V PROVE LineAt(f, text, kept, n) \in V
  <2>1. <<>> \in V /\ (n # 0 => text[n] \in S)
    OBVIOUS
  <2>2. n # 0 => f[n - 1] \in V
    BY <1>2, <1>3
  <2>3. n # 0 => Append(f[n - 1], text[n]) \in V
    BY <2>1, <2>2
  <2> HIDE DEF V, X, rank
  <2> QED
    BY <2>1, <2>2, <2>3 DEF LineAt
<1>4. ASSUME NEW n \in X, NEW f, NEW g, \A k \in X : rank[k] < rank[n] => f[k] = g[k]
      PROVE  LineAt(f, text, kept, n) = LineAt(g, text, kept, n)
  <2> HIDE DEF X, V, rank
  <2> QED
    BY <1>2, <1>4 DEF LineAt
<1>5. IsRecursion(X, V, rank, step)
  <2>2. <<>> \in V
    OBVIOUS
  <2> HIDE DEF X, V, rank
  <2>1. step \in [X -> [[X -> V] -> V]]
    BY <1>3
  <2>3. ASSUME NEW c \in X, NEW f \in [X -> V], NEW g \in [X -> V], \A y \in X : rank[y] < rank[c] => f[y] = g[y]
        PROVE  step[c][f] = step[c][g]
    <3>1. step[c][f] = LineAt(f, text, kept, c) /\ step[c][g] = LineAt(g, text, kept, c)
      OBVIOUS
    <3> QED
      BY <1>4, <2>3, <3>1
  <2> HIDE DEF step
  <2> QED
    BY <1>2, <2>1, <2>2, <2>3 DEF IsRecursion
<1>6. \E f : f = [n \in X |-> LineAt(f, text, kept, n)]
  <2>1. PICK f \in [X -> V] : \A x \in X : f[x] = step[x][f]
    <3> HIDE DEF X, V, rank, step
    <3> QED
      BY <1>5, RecursionExists
  <2> HIDE DEF X, V
  <2>2. \A x \in X : f[x] = LineAt(f, text, kept, x)
    BY <2>1
  <2>3. f = [x \in X |-> f[x]]
    OBVIOUS
  <2> QED
    BY <2>2, <2>3
<1>7. D = [n \in X |-> LineAt(D, text, kept, n)]
  <2> HIDE DEF X
  <2> QED
    BY <1>6
<1>8. \A n \in X : D[n] = LineAt(D, text, kept, n)
  <2> HIDE DEF D, X
  <2> QED
    BY <1>7
<1> HIDE DEF D
<1>9. \A n \in X : D[n] \in V
  <2> DEFINE T == {n \in X : D[n] \in V}
  <2>1. IsHereditary(X, rank, T)
    <3> HIDE DEF X, V, rank
    <3> QED
      BY <1>2, <1>3, <1>8 DEF IsHereditary
  <2>2. \A x \in X : x \in T
    <3> HIDE DEF X, V, rank, T
    <3> QED
      BY <2>1, RankInduction
  <2> QED
    BY <2>2
<1> QED
  BY <1>1, <1>8, <1>9 DEF Picks

\* The lines of s at P stand in t, at e and in their order.
Embeds(e, P, s, t) ==
  /\ P \subseteq 1..Len(s) /\ e \in [P -> 1..Len(t)]
  /\ \A p \in P : t[e[p]] = s[p]
  /\ \A p, q \in P : p < q => e[p] < e[q]

\* They are read off t as they are read off s.
LEMMA LinesEmbed ==
  ASSUME NEW S, NEW s \in Seq(S), NEW t \in Seq(S), NEW P, NEW e, Embeds(e, P, s, t)
  PROVE  Lines(s, P) = Lines(t, {e[p] : p \in P})
<1> DEFINE Q == {e[p] : p \in P}
<1>1. PICK f : Picks(f, s, P) /\ Lines(s, P) = f[Len(s)] /\ \A n \in 0..Len(s) : f[n] \in Seq(S)
  BY LinesPicks
<1>2. PICK g : Picks(g, t, Q) /\ Lines(t, Q) = g[Len(t)] /\ \A n \in 0..Len(t) : g[n] \in Seq(S)
  BY LinesPicks
<1> DEFINE Agree(n, m) == (\A p \in P : p <= n <=> e[p] <= m) => f[n] = g[m]
           T == {k \in Nat : \A n \in 0..Len(s) : \A m \in 0..Len(t) : n + m = k => Agree(n, m)}
<1>e. /\ P \subseteq 1..Len(s) /\ \A p \in P : e[p] \in 1..Len(t) /\ t[e[p]] = s[p]
      /\ \A p, q \in P : p < q => e[p] < e[q]
      /\ Len(s) \in Nat /\ Len(t) \in Nat
  BY DEF Embeds
<1>3. ASSUME NEW k \in Nat, \A j \in Nat : j < k => j \in T PROVE k \in T
  <2> SUFFICES ASSUME NEW n \in 0..Len(s), NEW m \in 0..Len(t), n + m = k, \A p \in P : p <= n <=> e[p] <= m
               PROVE  f[n] = g[m]
    OBVIOUS
  <2>0. \A a \in 0..Len(s) : \A b \in 0..Len(t) : a + b < k /\ (\A p \in P : p <= a <=> e[p] <= b) => f[a] = g[b]
    <3> SUFFICES ASSUME NEW a \in 0..Len(s), NEW b \in 0..Len(t), a + b < k, \A p \in P : p <= a <=> e[p] <= b
                 PROVE  f[a] = g[b]
      OBVIOUS
    <3>1. a + b \in Nat
      BY <1>e
    <3>2. a + b \in T
      BY <1>3, <3>1
    <3> QED
      BY <3>2
  <2> HIDE DEF T, Agree
  <2>1. CASE n # 0 /\ n \notin P
    <3>1. n - 1 \in 0..Len(s) /\ (n - 1) + m < k
      BY <2>1
    <3>2. \A p \in P : p <= n - 1 <=> e[p] <= m
      BY <1>e, <2>1
    <3>3. f[n - 1] = g[m]
      BY <2>0, <3>1, <3>2
    <3>4. f[n] = f[n - 1]
      BY <1>1, <2>1 DEF Picks, LineAt
    <3> QED
      BY <3>3, <3>4
  <2>2. CASE m # 0 /\ m \notin Q
    <3>1. m - 1 \in 0..Len(t) /\ n + (m - 1) < k
      BY <2>2
    <3>2. \A p \in P : p <= n <=> e[p] <= m - 1
      <4>1. \A p \in P : e[p] # m
        BY <2>2
      <4> QED
        BY <1>e, <4>1
    <3>3. f[n] = g[m - 1]
      BY <2>0, <3>1, <3>2
    <3> HIDE DEF Q
    <3>4. g[m] = g[m - 1]
      BY <1>2, <2>2 DEF Picks, LineAt
    <3> QED
      BY <3>3, <3>4
  <2>3. CASE n # 0 /\ n \in P /\ m # 0 /\ m \in Q
    <3>1. PICK p \in P : m = e[p]
      BY <2>3
    <3>2. n - 1 \in 0..Len(s) /\ m - 1 \in 0..Len(t) /\ (n - 1) + (m - 1) < k
      BY <2>3
    <3>3. p = n
      <4>1. p <= n /\ e[n] <= m
        BY <2>3, <3>1, <1>e
      <4> QED
        BY <1>e, <2>3, <3>1, <4>1
    <3>4. \A q \in P : q <= n - 1 <=> e[q] <= m - 1
      BY <1>e, <2>3, <3>1, <3>3
    <3>5. f[n - 1] = g[m - 1]
      BY <2>0, <3>2, <3>4
    <3> HIDE DEF Q
    <3>6. f[n] = Append(f[n - 1], s[n]) /\ g[m] = Append(g[m - 1], t[m])
      BY <1>1, <1>2, <2>3 DEF Picks, LineAt
    <3>7. s[n] = t[m]
      BY <1>e, <3>1, <3>3
    <3> QED
      BY <3>5, <3>6, <3>7
  <2>4. CASE n = 0 /\ m = 0
    <3> HIDE DEF Q
    <3> QED
      BY <1>1, <1>2, <2>4 DEF Picks, LineAt
  <2>5. CASE n = 0 /\ m # 0 /\ m \in Q
    <3>1. PICK p \in P : m = e[p]
      BY <2>5
    <3> QED
      BY <1>e, <2>5, <3>1
  <2>6. CASE n # 0 /\ n \in P /\ m = 0
    BY <1>e, <2>6
  <2> QED
    BY <2>1, <2>2, <2>3, <2>4, <2>5, <2>6
<1>4. \A k \in Nat : k \in T
  <2> HIDE DEF T
  <2> QED
    BY <1>3, Induction
<1>5. \A p \in P : p <= Len(s) <=> e[p] <= Len(t)
  BY <1>e
<1>6. f[Len(s)] = g[Len(t)]
  <2>0. Len(s) + Len(t) \in Nat
    BY <1>e
  <2>1. Len(s) + Len(t) \in T
    BY ONLY <1>4, <2>0
  <2> HIDE DEF Q
  <2> QED
    BY <1>e, <1>5, <2>1
<1> QED
  BY <1>1, <1>2, <1>6

\* All lines of a text are the text.
LEMMA LinesWhole ==
  ASSUME NEW S, NEW s \in Seq(S)
  PROVE  Lines(s, 1..Len(s)) = s
<1>1. PICK f : Picks(f, s, 1..Len(s)) /\ Lines(s, 1..Len(s)) = f[Len(s)] /\ \A n \in 0..Len(s) : f[n] \in Seq(S)
  BY LinesPicks
<1> DEFINE T == {n \in Nat : n <= Len(s) => f[n] = SubSeq(s, 1, n)}
<1>2. ASSUME NEW n \in Nat, \A m \in Nat : m < n => m \in T PROVE n \in T
  <2> SUFFICES ASSUME n <= Len(s) PROVE f[n] = SubSeq(s, 1, n)
    OBVIOUS
  <2>1. CASE n = 0
    <3>1. SubSeq(s, 1, 0) = <<>>
      BY SubSeqEmpty
    <3> QED
      BY <1>1, <2>1, <3>1 DEF Picks, LineAt
  <2>2. CASE n # 0
    <3>1. n - 1 \in Nat /\ n - 1 < n /\ n \in 1..Len(s) /\ n \in 0..Len(s) /\ n \in 1 .. n /\ 1 \in 1..Len(s) /\ n - 1 \in 0..Len(s)
      BY <2>2
    <3>2. f[n - 1] = SubSeq(s, 1, n - 1)
      BY <1>2, <3>1
    <3>3. f[n] = Append(f[n - 1], s[n])
      BY <1>1, <2>2, <3>1 DEF Picks, LineAt
    <3>4. SubSeq(s, 1, n) = SubSeq(s, 1, n - 1) \o <<s[n]>>
      BY <3>1, SubSeqRecursiveSecond
    <3>5. f[n - 1] \in Seq(S) /\ s[n] \in S
      BY <1>1, <3>1
    <3>6. Append(f[n - 1], s[n]) = f[n - 1] \o <<s[n]>>
      BY <3>5, AppendIsConcat
    <3> QED
      BY <3>2, <3>3, <3>4, <3>6
  <2> QED
    BY <2>1, <2>2
<1>3. \A n \in Nat : n \in T
  <2> HIDE DEF T
  <2> QED
    BY <1>2, Induction
<1>4. f[Len(s)] = SubSeq(s, 1, Len(s))
  BY <1>3
<1> QED
  BY <1>1, <1>4, SubSeqFull

\* Lines stand where they were read.
LEMMA LinesStand ==
  ASSUME NEW S, NEW s \in Seq(S), NEW P \in SUBSET (1..Len(s))
  PROVE  /\ Lines(s, P) \in Seq(S)
         /\ \E e : Embeds(e, 1..Len(Lines(s, P)), Lines(s, P), s)
<1>1. PICK f : Picks(f, s, P) /\ Lines(s, P) = f[Len(s)] /\ \A n \in 0..Len(s) : f[n] \in Seq(S)
  BY LinesPicks
<1> DEFINE Stands(n) == \E e : Embeds(e, 1..Len(f[n]), f[n], s) /\ \A k \in 1..Len(f[n]) : e[k] <= n
           T == {n \in Nat : n <= Len(s) => Stands(n)}
<1>2. ASSUME NEW n \in Nat, \A m \in Nat : m < n => m \in T PROVE n \in T
  <2> SUFFICES ASSUME n <= Len(s) PROVE Stands(n)
    OBVIOUS
  <2>0. n \in 0..Len(s) /\ Len(s) \in Nat
    OBVIOUS
  <2>1. CASE n = 0
    <3>1. f[0] = <<>>
      BY <1>1, <2>0, <2>1 DEF Picks, LineAt
    <3>2. Len(f[0]) = 0 /\ 1..0 = {}
      BY <3>1
    <3> DEFINE e == [k \in 1..0 |-> 1]
    <3>3. Embeds(e, 1..0, f[0], s) /\ \A k \in 1..0 : e[k] <= 0
      BY <3>2 DEF Embeds
    <3> HIDE DEF e
    <3> QED
      BY <2>1, <3>2, <3>3
  <2>2. CASE n # 0
    <3>1. n - 1 \in Nat /\ n - 1 < n /\ n - 1 \in 0..Len(s) /\ n \in 1..Len(s)
      BY <2>2
    <3>2. PICK e : Embeds(e, 1..Len(f[n - 1]), f[n - 1], s) /\ \A k \in 1..Len(f[n - 1]) : e[k] <= n - 1
      BY <1>2, <3>1
    <3>3. CASE n \notin P
      <4>1. f[n] = f[n - 1]
        BY <1>1, <2>0, <2>2, <3>3 DEF Picks, LineAt
      <4>2. \A k \in 1..Len(f[n - 1]) : e[k] \in Nat
        <5>1. e \in [1..Len(f[n - 1]) -> 1..Len(s)]
          BY ONLY <3>2 DEF Embeds
        <5>2. \A x \in 1..Len(s) : x \in Nat
          BY ONLY <2>0
        <5> QED
          BY ONLY <5>1, <5>2
      <4>3. \A k \in 1..Len(f[n - 1]) : e[k] <= n
        <5>1. n \in Nat /\ n - 1 \in Nat
          BY <3>1
        <5> QED
          BY ONLY <3>2, <4>2, <5>1
      <4> QED
        BY <3>2, <4>1, <4>3
    <3>4. CASE n \in P
      <4>1. f[n] = Append(f[n - 1], s[n])
        BY <1>1, <2>0, <2>2, <3>4 DEF Picks, LineAt
      <4>2. f[n - 1] \in Seq(S) /\ s[n] \in S
        BY <1>1, <3>1
      <4>3. PICK L \in Nat : L = Len(f[n - 1])
        BY <4>2
      <4>4. Len(f[n]) = L + 1 /\ f[n][L + 1] = s[n] /\ \A k \in 1..L : f[n][k] = f[n - 1][k]
        BY <4>1, <4>2, <4>3, AppendProperties
      <4> DEFINE d == [k \in 1..L + 1 |-> IF k = L + 1 THEN n ELSE e[k]]
      <4>5. \A k \in 1..L : /\ e[k] \in 1..Len(s) /\ e[k] <= n - 1 /\ s[e[k]] = f[n - 1][k]
                            /\ \A q \in 1..L : k < q => e[k] < e[q]
        BY <3>2, <4>3 DEF Embeds
      <4>6. \A k \in 1..L + 1 : d[k] \in 1..Len(s) /\ d[k] <= n
        BY <2>0, <3>1, <4>5
      <4>7. d \in [1..L + 1 -> 1..Len(s)]
        BY <4>6
      <4>8. \A k \in 1..L + 1 : s[d[k]] = f[n][k]
        BY <4>4, <4>5
      <4>9. \A k, q \in 1..L + 1 : k < q => d[k] < d[q]
        BY <3>1, <4>5
      <4> HIDE DEF d
      <4>10. Embeds(d, 1..Len(f[n]), f[n], s)
        BY <4>4, <4>7, <4>8, <4>9 DEF Embeds
      <4> QED
        BY <4>4, <4>6, <4>10
    <3> QED
      BY <3>3, <3>4
  <2> QED
    BY <2>1, <2>2
<1>3. \A n \in Nat : n \in T
  <2> HIDE DEF T
  <2> QED
    BY <1>2, Induction
<1>4. Len(s) \in Nat /\ Stands(Len(s))
  BY <1>3
<1> QED
  BY <1>1, <1>4

\* What stands in a text can be read off it.
LEMMA EmbeddedIsRead ==
  ASSUME NEW S, NEW s \in Seq(S), NEW t \in Seq(S), NEW P, NEW e, Embeds(e, P, s, t)
  PROVE  Lines(s, P) \in Subsequences(t)
<1> DEFINE Q == {e[p] : p \in P}
<1>1. Lines(s, P) = Lines(t, Q)
  BY LinesEmbed
<1>2. Q \in SUBSET DOMAIN t
  <2>1. DOMAIN t = 1..Len(t)
    OBVIOUS
  <2> QED
    BY <2>1 DEF Embeds
<1> HIDE DEF Q
<1> QED
  BY <1>1, <1>2 DEF Subsequences

-----------------------------------------------------------------------------
(***************************************************************************)
(* The diff: what it keeps.                                                *)
(***************************************************************************)

\* What Max of a set with a greatest element is.
LEMMA MaxIs ==
  ASSUME NEW T \in SUBSET Int, NEW x \in T, \A y \in T : y <= x
  PROVE  Max(T) = x
<1>1. x \in T /\ \A y \in T : x >= y
  OBVIOUS
<1>2. \A z \in T : (\A y \in T : z >= y) => z = x
  OBVIOUS
<1>3. Max(T) \in T /\ \A y \in T : Max(T) >= y
  BY <1>1 DEF Max
<1> QED
  BY <1>2, <1>3

\* The greater of two numbers.
LEMMA MaxOfTwo ==
  ASSUME NEW a \in Int, NEW b \in Int
  PROVE  Max({a, b}) = IF a >= b THEN a ELSE b
<1> DEFINE x == IF a >= b THEN a ELSE b
<1>1. {a, b} \in SUBSET Int /\ x \in {a, b} /\ \A y \in {a, b} : y <= x
  OBVIOUS
<1> HIDE DEF x
<1>2. Max({a, b}) = x
  BY <1>1, MaxIs
<1> QED
  BY <1>2 DEF x

\* The lesser of two numbers.
LEMMA MinOfTwo ==
  ASSUME NEW a \in Int, NEW b \in Int
  PROVE  Min({a, b}) = IF a <= b THEN a ELSE b
<1> DEFINE x == IF a <= b THEN a ELSE b
<1>1. x \in {a, b} /\ \A y \in {a, b} : x <= y
  OBVIOUS
<1>2. \A z \in {a, b} : (\A y \in {a, b} : z <= y) => z = x
  OBVIOUS
<1>3. Min({a, b}) \in {a, b} /\ \A y \in {a, b} : Min({a, b}) <= y
  BY <1>1 DEF Min
<1> HIDE DEF x
<1>4. Min({a, b}) = x
  BY <1>2, <1>3
<1> QED
  BY <1>4 DEF x

\* A bounded set of naturals has a greatest one.
LEMMA HasGreatest ==
  ASSUME NEW n \in Nat, NEW T \in SUBSET (0..n), T # {}
  PROVE  Max(T) \in T
<1> DEFINE U == {n - x : x \in T}
<1>1. U \in SUBSET Nat /\ U # {}
  <2>1. \A x \in T : n - x \in Nat
    OBVIOUS
  <2>2. PICK x \in T : TRUE
    OBVIOUS
  <2>3. n - x \in U
    OBVIOUS
  <2> QED
    BY <2>1, <2>3
<1>2. PICK u \in U : \A v \in U : u <= v
  <2> HIDE DEF U
  <2> QED
    BY <1>1, HasLeast
<1>3. PICK x \in T : u = n - x
  BY <1>2
<1>4. \A y \in T : n - x <= n - y
  BY <1>2, <1>3
<1>5. \A y \in T : y <= x
  BY <1>4
<1>6. Max(T) = x
  BY <1>5, MaxIs
<1> QED
  BY <1>6

\* The first lines in common.
LEMMA PrefixFacts ==
  ASSUME NEW S, NEW old \in Seq(S), NEW new \in Seq(S)
  PROVE  /\ CommonPrefix(old, new) \in Nat
         /\ CommonPrefix(old, new) <= Len(old) /\ CommonPrefix(old, new) <= Len(new)
         /\ \A k \in 1..CommonPrefix(old, new) : old[k] = new[k]
<1> DEFINE T == {n \in 0..Shorter(old, new) : SubSeq(old, 1, n) = SubSeq(new, 1, n)}
<1>1. Shorter(old, new) \in Nat /\ Shorter(old, new) <= Len(old) /\ Shorter(old, new) <= Len(new)
  <2>1. Len(old) \in Int /\ Len(new) \in Int /\ Len(old) \in Nat /\ Len(new) \in Nat
    OBVIOUS
  <2> QED
    BY <2>1, MinOfTwo DEF Shorter
<1>2. SubSeq(old, 1, 0) = SubSeq(new, 1, 0)
  BY SubSeqEmpty
<1>3. T \in SUBSET (0..Shorter(old, new)) /\ T # {}
  BY <1>1, <1>2
<1>4. CommonPrefix(old, new) \in T
  <2>1. CommonPrefix(old, new) = Max(T)
    BY DEF CommonPrefix
  <2> HIDE DEF T
  <2> QED
    BY <1>1, <1>3, <2>1, HasGreatest
<1> DEFINE p == CommonPrefix(old, new)
<1>5. p \in 0..Shorter(old, new) /\ SubSeq(old, 1, p) = SubSeq(new, 1, p)
  BY <1>4
<1> HIDE DEF p, T
<1>6. p \in 0..Len(old) /\ p \in 0..Len(new)
  BY <1>1, <1>5
<1>7. Copied(old, 0, p) = Copied(new, 0, p)
  BY <1>5 DEF Copied
<1>8. (\A i \in 1..p : Copied(old, 0, p)[i] = old[i]) /\ (\A i \in 1..p : Copied(new, 0, p)[i] = new[i])
  <2>1. \A i \in 1..p - 0 : Copied(old, 0, p)[i] = old[0 + i]
    BY <1>6, CopiedFacts
  <2>2. \A i \in 1..p - 0 : Copied(new, 0, p)[i] = new[0 + i]
    BY <1>6, CopiedFacts
  <2>3. p - 0 = p /\ \A i \in 1..p : 0 + i = i
    BY <1>6
  <2> QED
    BY <2>1, <2>2, <2>3
<1>9. \A k \in 1..p : old[k] = new[k]
  BY <1>6, <1>7, <1>8
<1> QED
  BY <1>6, <1>9 DEF p

\* And the last ones, behind those.
LEMMA SuffixFacts ==
  ASSUME NEW S, NEW old \in Seq(S), NEW new \in Seq(S), NEW p \in Nat, p <= Len(old), p <= Len(new)
  PROVE  LET s == CommonSuffix(old, new, p) IN
         /\ s \in Nat /\ p + s <= Len(old) /\ p + s <= Len(new)
         /\ \A k \in 1..s : old[Len(old) - s + k] = new[Len(new) - s + k]
<1> DEFINE s == CommonSuffix(old, new, p)
           turned(text) == Reverse(Rest(text, p))
<1>1. ASSUME NEW text \in Seq(S), p <= Len(text)
      PROVE  /\ turned(text) \in Seq(S) /\ Len(turned(text)) = Len(text) - p
             /\ \A i \in 1..Len(text) - p : turned(text)[i] = text[Len(text) - i + 1]
  <2>1. Rest(text, p) = Copied(text, p, Len(text))
    BY DEF Rest, Copied
  <2>2. /\ Rest(text, p) \in Seq(S) /\ Len(Rest(text, p)) = Len(text) - p
        /\ \A i \in 1..Len(text) - p : Rest(text, p)[i] = text[p + i]
    <3>1. Len(text) \in 0..Len(text) /\ Len(text) \in Nat
      OBVIOUS
    <3>2. /\ Copied(text, p, Len(text)) \in Seq(S)
          /\ Len(Copied(text, p, Len(text))) = IF p < Len(text) THEN Len(text) - p ELSE 0
          /\ \A i \in 1..Len(text) - p : Copied(text, p, Len(text))[i] = text[p + i]
      BY <1>1, <3>1, CopiedFacts
    <3> QED
      BY <1>1, <2>1, <3>1, <3>2
  <2> DEFINE r == Rest(text, p)
  <2> HIDE DEF r
  <2>3. r \in Seq(S) /\ Len(r) = Len(text) - p /\ Len(r) \in Nat /\ \A i \in 1..Len(text) - p : r[i] = text[p + i]
    BY <1>1, <2>2 DEF r
  <2>4. Reverse(r) = [i \in 1..Len(r) |-> r[(Len(r) - i) + 1]]
    BY DEF Reverse
  <2>5. \A i \in 1..Len(r) : (Len(r) - i) + 1 \in 1..Len(r)
    BY <2>3
  <2>6. Reverse(r) \in Seq(S) /\ Len(Reverse(r)) = Len(r) /\ \A i \in 1..Len(r) : Reverse(r)[i] = r[(Len(r) - i) + 1]
    BY <2>3, <2>4, <2>5
  <2>7. \A i \in 1..Len(r) : r[(Len(r) - i) + 1] = text[Len(text) - i + 1]
    <3> SUFFICES ASSUME NEW i \in 1..Len(r) PROVE r[(Len(r) - i) + 1] = text[Len(text) - i + 1]
      OBVIOUS
    <3>1. p + ((Len(r) - i) + 1) = Len(text) - i + 1
      BY <1>1, <2>3
    <3> QED
      BY <2>3, <2>5, <3>1
  <2> QED
    BY <2>3, <2>6, <2>7 DEF r
<1>2. s = CommonPrefix(turned(old), turned(new))
  BY DEF CommonSuffix
<1>3. /\ turned(old) \in Seq(S) /\ Len(turned(old)) = Len(old) - p
      /\ \A i \in 1..Len(old) - p : turned(old)[i] = old[Len(old) - i + 1]
  BY <1>1
<1>4. /\ turned(new) \in Seq(S) /\ Len(turned(new)) = Len(new) - p
      /\ \A i \in 1..Len(new) - p : turned(new)[i] = new[Len(new) - i + 1]
  BY <1>1
<1> HIDE DEF turned
<1>5. s \in Nat /\ s <= Len(old) - p /\ s <= Len(new) - p /\ \A k \in 1..s : turned(old)[k] = turned(new)[k]
  <2>1. PICK u \in Seq(S) : u = turned(old)
    BY <1>3
  <2>2. PICK v \in Seq(S) : v = turned(new)
    BY <1>4
  <2>3. s = CommonPrefix(u, v)
    BY <1>2, <2>1, <2>2
  <2> HIDE DEF s
  <2>4. s \in Nat /\ s <= Len(u) /\ s <= Len(v) /\ \A k \in 1..s : u[k] = v[k]
    BY <2>3, PrefixFacts
  <2> QED
    BY <1>3, <1>4, <2>1, <2>2, <2>4
<1>6. ASSUME NEW k \in 1..s PROVE old[Len(old) - s + k] = new[Len(new) - s + k]
  <2>1. s - k + 1 \in 1..s /\ s - k + 1 \in 1..Len(old) - p /\ s - k + 1 \in 1..Len(new) - p
    BY <1>5
  <2>2. turned(old)[s - k + 1] = old[Len(old) - (s - k + 1) + 1] /\ turned(new)[s - k + 1] = new[Len(new) - (s - k + 1) + 1]
    BY <1>3, <1>4, <2>1
  <2>3. Len(old) - (s - k + 1) + 1 = Len(old) - s + k /\ Len(new) - (s - k + 1) + 1 = Len(new) - s + k
    BY <1>5
  <2> QED
    BY <1>5, <2>1, <2>2, <2>3
<1>7. p + s <= Len(old) /\ p + s <= Len(new)
  BY <1>5
<1> QED
  BY <1>5, <1>6, <1>7

-----------------------------------------------------------------------------
\* The places of the table, and those that an entry is made from.

CellRank(n, m) == [c \in Cells(n, m) |-> (n + 1 - c[1]) + (m + 1 - c[2])]

\* The places that a table's entry is made from.
LEMMA CellsBelow ==
  ASSUME NEW n \in Nat, NEW m \in Nat
  PROVE  /\ CellRank(n, m) \in [Cells(n, m) -> 0..(n + m)] /\ n + m \in Nat
         /\ \A c \in Cells(n, m) : /\ c[1] \in 1..(n + 1) /\ c[2] \in 1..(m + 1) /\ c = <<c[1], c[2]>>
                                   /\ ~(c[1] > n \/ c[2] > m) =>
                                        \A d \in {<<c[1] + 1, c[2] + 1>>, <<c[1] + 1, c[2]>>, <<c[1], c[2] + 1>>} :
                                          d \in Cells(n, m) /\ CellRank(n, m)[d] < CellRank(n, m)[c]
<1>1. \A c \in Cells(n, m) : /\ c[1] \in 1..(n + 1) /\ c[2] \in 1..(m + 1) /\ c = <<c[1], c[2]>>
                              /\ CellRank(n, m)[c] = (n + 1 - c[1]) + (m + 1 - c[2])
  BY DEF Cells, CellRank
<1>2. CellRank(n, m) \in [Cells(n, m) -> 0..(n + m)]
  <2>1. \A c \in Cells(n, m) : CellRank(n, m)[c] \in 0..(n + m)
    BY <1>1
  <2> QED
    BY <2>1 DEF CellRank
<1>3. ASSUME NEW c \in Cells(n, m), ~(c[1] > n \/ c[2] > m),
             NEW d \in {<<c[1] + 1, c[2] + 1>>, <<c[1] + 1, c[2]>>, <<c[1], c[2] + 1>>}
      PROVE  d \in Cells(n, m) /\ CellRank(n, m)[d] < CellRank(n, m)[c]
  <2>1. d \in Cells(n, m) /\ ((d[1] = c[1] + 1 /\ d[2] \in {c[2], c[2] + 1}) \/ (d[1] = c[1] /\ d[2] = c[2] + 1))
    BY <1>1, <1>3 DEF Cells
  <2> QED
    BY <1>1, <2>1
<1> QED
  BY <1>1, <1>2, <1>3

\* A table that is filled.
TableAt(f, old, new, c) ==
  IF c[1] > Len(old) \/ c[2] > Len(new) THEN 0
  ELSE IF old[c[1]] = new[c[2]] THEN f[<<c[1] + 1, c[2] + 1>>] + 1
  ELSE Max({f[<<c[1] + 1, c[2]>>], f[<<c[1], c[2] + 1>>]})

Fills(lcs, old, new) ==
  \A i \in 1..Len(old) + 1 : \A j \in 1..Len(new) + 1 :
    /\ lcs[<<i, j>>] \in Nat
    /\ i > Len(old) \/ j > Len(new) => lcs[<<i, j>>] = 0
    /\ i <= Len(old) /\ j <= Len(new) =>
         /\ old[i] = new[j] => lcs[<<i, j>>] = lcs[<<i + 1, j + 1>>] + 1
         /\ old[i] # new[j] =>
              lcs[<<i, j>>] = IF lcs[<<i + 1, j>>] >= lcs[<<i, j + 1>>] THEN lcs[<<i + 1, j>>] ELSE lcs[<<i, j + 1>>]

\* The table holds what its recursion says, in every cell.
LEMMA TableFills ==
  ASSUME NEW S, NEW old \in Seq(S), NEW new \in Seq(S)
  PROVE  Fills(Table(old, new), old, new)
<1> DEFINE X == Cells(Len(old), Len(new))
           V == Nat
           D == CHOOSE f : f = [c \in X |-> TableAt(f, old, new, c)]
           rank == CellRank(Len(old), Len(new))
           step == [c \in X |-> [f \in [X -> V] |-> TableAt(f, old, new, c)]]
<1>1. Table(old, new) = D
  BY DEF Table, TableAt
<1>2. /\ rank \in [X -> 0..(Len(old) + Len(new))] /\ Len(old) + Len(new) \in Nat
      /\ \A c \in X : /\ c[1] \in 1..(Len(old) + 1) /\ c[2] \in 1..(Len(new) + 1) /\ c = <<c[1], c[2]>>
                      /\ ~(c[1] > Len(old) \/ c[2] > Len(new)) =>
                            \A d \in {<<c[1] + 1, c[2] + 1>>, <<c[1] + 1, c[2]>>, <<c[1], c[2] + 1>>} :
                               d \in X /\ rank[d] < rank[c]
  <2>1. Len(old) \in Nat /\ Len(new) \in Nat
    OBVIOUS
  <2> QED
    BY <2>1, CellsBelow
<1>3. ASSUME NEW c \in X, NEW f, \A d \in X : rank[d] < rank[c] => f[d] \in V PROVE TableAt(f, old, new, c) \in V
  <2> HIDE DEF X, V, rank
  <2>1. ~(c[1] > Len(old) \/ c[2] > Len(new)) =>
          f[<<c[1] + 1, c[2] + 1>>] \in V /\ f[<<c[1] + 1, c[2]>>] \in V /\ f[<<c[1], c[2] + 1>>] \in V
    BY <1>2, <1>3
  <2>2. \A a, b \in V : a + 1 \in V /\ Max({a, b}) \in V
    <3> SUFFICES ASSUME NEW a \in V, NEW b \in V PROVE a + 1 \in V /\ Max({a, b}) \in V
      OBVIOUS
    <3>1. a \in Int /\ b \in Int
      BY DEF V
    <3> QED
      BY <3>1, MaxOfTwo DEF V
  <2>3. 0 \in V
    BY DEF V
  <2> QED
    BY <2>1, <2>2, <2>3 DEF TableAt
<1>4. ASSUME NEW c \in X, NEW f, NEW g, \A d \in X : rank[d] < rank[c] => f[d] = g[d]
      PROVE  TableAt(f, old, new, c) = TableAt(g, old, new, c)
  <2> HIDE DEF X, V, rank
  <2>1. ~(c[1] > Len(old) \/ c[2] > Len(new)) =>
          /\ f[<<c[1] + 1, c[2] + 1>>] = g[<<c[1] + 1, c[2] + 1>>]
          /\ f[<<c[1] + 1, c[2]>>] = g[<<c[1] + 1, c[2]>>] /\ f[<<c[1], c[2] + 1>>] = g[<<c[1], c[2] + 1>>]
    BY <1>2, <1>4
  <2> QED
    BY <2>1 DEF TableAt
<1>5. IsRecursion(X, V, rank, step)
  <2>2. 0 \in V
    OBVIOUS
  <2> HIDE DEF X, V, rank
  <2>1. step \in [X -> [[X -> V] -> V]]
    BY <1>3
  <2>3. ASSUME NEW c \in X, NEW f \in [X -> V], NEW g \in [X -> V], \A y \in X : rank[y] < rank[c] => f[y] = g[y]
        PROVE  step[c][f] = step[c][g]
    <3>1. step[c][f] = TableAt(f, old, new, c) /\ step[c][g] = TableAt(g, old, new, c)
      OBVIOUS
    <3> QED
      BY <1>4, <2>3, <3>1
  <2> HIDE DEF step
  <2> QED
    BY <1>2, <2>1, <2>2, <2>3 DEF IsRecursion
<1>6. \E f : f = [c \in X |-> TableAt(f, old, new, c)]
  <2>1. PICK f \in [X -> V] : \A x \in X : f[x] = step[x][f]
    <3> HIDE DEF X, V, rank, step
    <3> QED
      BY <1>5, RecursionExists
  <2> HIDE DEF X, V
  <2>2. \A x \in X : f[x] = TableAt(f, old, new, x)
    BY <2>1
  <2>3. f = [x \in X |-> f[x]]
    OBVIOUS
  <2> QED
    BY <2>2, <2>3
<1>7. D = [c \in X |-> TableAt(D, old, new, c)]
  <2> HIDE DEF X
  <2> QED
    BY <1>6
<1>8. \A c \in X : D[c] = TableAt(D, old, new, c)
  <2> HIDE DEF D, X
  <2> QED
    BY <1>7
<1> HIDE DEF D
<1>9. \A c \in X : D[c] \in V
  <2> DEFINE T == {c \in X : D[c] \in V}
  <2>1. IsHereditary(X, rank, T)
    <3> HIDE DEF X, V, rank
    <3>1. ASSUME NEW x \in X, \A y \in X : rank[y] < rank[x] => y \in T PROVE x \in T
      <4>1. \A y \in X : rank[y] < rank[x] => D[y] \in V
        BY <3>1
      <4> QED
        BY <1>3, <1>8, <4>1
    <3> HIDE DEF T
    <3> QED
      BY <1>2, <3>1 DEF IsHereditary
  <2>2. \A x \in X : x \in T
    <3> HIDE DEF X, V, rank, T
    <3> QED
      BY <2>1, RankInduction
  <2> QED
    BY <2>2
<1>10. ASSUME NEW i \in 1..Len(old) + 1, NEW j \in 1..Len(new) + 1
       PROVE  /\ D[<<i, j>>] \in Nat
              /\ i > Len(old) \/ j > Len(new) => D[<<i, j>>] = 0
              /\ i <= Len(old) /\ j <= Len(new) =>
                   /\ old[i] = new[j] => D[<<i, j>>] = D[<<i + 1, j + 1>>] + 1
                   /\ old[i] # new[j] =>
                        D[<<i, j>>] = IF D[<<i + 1, j>>] >= D[<<i, j + 1>>] THEN D[<<i + 1, j>>] ELSE D[<<i, j + 1>>]
  <2> DEFINE c == <<i, j>>
  <2>1. c \in X /\ c[1] = i /\ c[2] = j
    BY DEF Cells
  <2>2. D[<<i, j>>] \in Nat
    BY <1>9, <2>1
  <2>3. D[<<i, j>>] = IF i > Len(old) \/ j > Len(new) THEN 0
                      ELSE IF old[i] = new[j] THEN D[<<i + 1, j + 1>>] + 1
                      ELSE Max({D[<<i + 1, j>>], D[<<i, j + 1>>]})
    <3> HIDE DEF X
    <3> QED
      BY <1>8, <2>1 DEF TableAt
  <2>4. ASSUME i <= Len(old), j <= Len(new)
        PROVE  Max({D[<<i + 1, j>>], D[<<i, j + 1>>]})
                 = IF D[<<i + 1, j>>] >= D[<<i, j + 1>>] THEN D[<<i + 1, j>>] ELSE D[<<i, j + 1>>]
    <3>1. <<i + 1, j>> \in X /\ <<i, j + 1>> \in X
      BY <2>4 DEF Cells
    <3>2. D[<<i + 1, j>>] \in Int /\ D[<<i, j + 1>>] \in Int
      BY <1>9, <3>1
    <3> QED
      BY <3>2, MaxOfTwo
  <2>5. ~(i <= Len(old) /\ j <= Len(new)) <=> i > Len(old) \/ j > Len(new)
    OBVIOUS
  <2> HIDE DEF c
  <2> QED
    BY <2>2, <2>3, <2>4, <2>5
<1> HIDE DEF X
<1> QED
  BY <1>1, <1>10 DEF Fills

\* The walk over it.
WalkAt(f, old, new, lcs, c) ==
  IF c[1] > Len(old) \/ c[2] > Len(new) THEN <<>>
  ELSE IF old[c[1]] = new[c[2]] THEN <<<<c[1], c[2]>>>> \o f[<<c[1] + 1, c[2] + 1>>]
  ELSE IF Deletes(lcs, c[1], c[2]) THEN f[<<c[1] + 1, c[2]>>]
  ELSE f[<<c[1], c[2] + 1>>]

Walks(walk, old, new, lcs) ==
  \A i \in 1..Len(old) + 1 : \A j \in 1..Len(new) + 1 :
    /\ walk[<<i, j>>] \in Seq(Nat \X Nat)
    /\ i > Len(old) \/ j > Len(new) => walk[<<i, j>>] = <<>>
    /\ i <= Len(old) /\ j <= Len(new) =>
         walk[<<i, j>>] = IF old[i] = new[j] THEN <<<<i, j>>>> \o walk[<<i + 1, j + 1>>]
                          ELSE IF Deletes(lcs, i, j) THEN walk[<<i + 1, j>>] ELSE walk[<<i, j + 1>>]

\* The walk keeps what its recursion says, from every cell on.
LEMMA WalkWalks ==
  ASSUME NEW S, NEW old \in Seq(S), NEW new \in Seq(S), NEW lcs
  PROVE  \E walk : Walks(walk, old, new, lcs) /\ Walk(old, new, lcs) = walk[<<1, 1>>]
<1> DEFINE X == Cells(Len(old), Len(new))
           V == Seq(Nat \X Nat)
           D == CHOOSE f : f = [c \in X |-> WalkAt(f, old, new, lcs, c)]
           rank == CellRank(Len(old), Len(new))
           step == [c \in X |-> [f \in [X -> V] |-> WalkAt(f, old, new, lcs, c)]]
<1>1. Walk(old, new, lcs) = D[<<1, 1>>]
  BY DEF Walk, WalkAt
<1>2. /\ rank \in [X -> 0..(Len(old) + Len(new))] /\ Len(old) + Len(new) \in Nat
      /\ \A c \in X : /\ c[1] \in 1..(Len(old) + 1) /\ c[2] \in 1..(Len(new) + 1) /\ c = <<c[1], c[2]>>
                      /\ ~(c[1] > Len(old) \/ c[2] > Len(new)) =>
                            \A d \in {<<c[1] + 1, c[2] + 1>>, <<c[1] + 1, c[2]>>, <<c[1], c[2] + 1>>} :
                               d \in X /\ rank[d] < rank[c]
  <2>1. Len(old) \in Nat /\ Len(new) \in Nat
    OBVIOUS
  <2> QED
    BY <2>1, CellsBelow
<1>3. ASSUME NEW c \in X, NEW f, \A d \in X : rank[d] < rank[c] => f[d] \in V PROVE WalkAt(f, old, new, lcs, c) \in V
  <2> HIDE DEF X, V, rank
  <2>1. ~(c[1] > Len(old) \/ c[2] > Len(new)) =>
          f[<<c[1] + 1, c[2] + 1>>] \in V /\ f[<<c[1] + 1, c[2]>>] \in V /\ f[<<c[1], c[2] + 1>>] \in V
    BY <1>2, <1>3
  <2>2. \A q \in V : <<<<c[1], c[2]>>>> \o q \in V
    <3>a. PICK n \in Nat, m \in Nat : n = Len(old) /\ m = Len(new)
      OBVIOUS
    <3>b. c[1] \in 1..(Len(old) + 1) /\ c[2] \in 1..(Len(new) + 1)
      <4> HIDE DEF D, step
      <4> QED
        BY <1>2
    <3>1. c[1] \in Nat /\ c[2] \in Nat
      BY <3>a, <3>b
    <3>2. <<c[1], c[2]>> \in Nat \X Nat
      BY <3>1
    <3>3. PICK p \in Nat \X Nat : p = <<c[1], c[2]>>
      BY <3>2
    <3>4. \A q \in V : <<p>> \o q \in V
      BY DEF V
    <3> QED
      BY <3>3, <3>4
  <2>3. <<>> \in V
    BY DEF V
  <2> QED
    BY <2>1, <2>2, <2>3 DEF WalkAt
<1>4. ASSUME NEW c \in X, NEW f, NEW g, \A d \in X : rank[d] < rank[c] => f[d] = g[d]
      PROVE  WalkAt(f, old, new, lcs, c) = WalkAt(g, old, new, lcs, c)
  <2> HIDE DEF X, V, rank
  <2>1. ~(c[1] > Len(old) \/ c[2] > Len(new)) =>
          /\ f[<<c[1] + 1, c[2] + 1>>] = g[<<c[1] + 1, c[2] + 1>>]
          /\ f[<<c[1] + 1, c[2]>>] = g[<<c[1] + 1, c[2]>>] /\ f[<<c[1], c[2] + 1>>] = g[<<c[1], c[2] + 1>>]
    BY <1>2, <1>4
  <2> QED
    BY <2>1 DEF WalkAt
<1>5. IsRecursion(X, V, rank, step)
  <2>2. <<>> \in V
    OBVIOUS
  <2> HIDE DEF X, V, rank
  <2>1. step \in [X -> [[X -> V] -> V]]
    BY <1>3
  <2>3. ASSUME NEW c \in X, NEW f \in [X -> V], NEW g \in [X -> V], \A y \in X : rank[y] < rank[c] => f[y] = g[y]
        PROVE  step[c][f] = step[c][g]
    <3>1. step[c][f] = WalkAt(f, old, new, lcs, c) /\ step[c][g] = WalkAt(g, old, new, lcs, c)
      OBVIOUS
    <3> QED
      BY <1>4, <2>3, <3>1
  <2> HIDE DEF step
  <2> QED
    BY <1>2, <2>1, <2>2, <2>3 DEF IsRecursion
<1>6. \E f : f = [c \in X |-> WalkAt(f, old, new, lcs, c)]
  <2>1. PICK f \in [X -> V] : \A x \in X : f[x] = step[x][f]
    <3> HIDE DEF X, V, rank, step
    <3> QED
      BY <1>5, RecursionExists
  <2> HIDE DEF X, V
  <2>2. \A x \in X : f[x] = WalkAt(f, old, new, lcs, x)
    BY <2>1
  <2>3. f = [x \in X |-> f[x]]
    OBVIOUS
  <2> QED
    BY <2>2, <2>3
<1>7. D = [c \in X |-> WalkAt(D, old, new, lcs, c)]
  <2> HIDE DEF X
  <2> QED
    BY <1>6
<1>8. \A c \in X : D[c] = WalkAt(D, old, new, lcs, c)
  <2> HIDE DEF D, X
  <2> QED
    BY <1>7
<1> HIDE DEF D
<1>9. \A c \in X : D[c] \in V
  <2> DEFINE T == {c \in X : D[c] \in V}
  <2>1. IsHereditary(X, rank, T)
    <3> HIDE DEF X, V, rank
    <3>1. ASSUME NEW x \in X, \A y \in X : rank[y] < rank[x] => y \in T PROVE x \in T
      <4>1. \A y \in X : rank[y] < rank[x] => D[y] \in V
        BY <3>1
      <4> QED
        BY <1>3, <1>8, <4>1
    <3> HIDE DEF T
    <3> QED
      BY <1>2, <3>1 DEF IsHereditary
  <2>2. \A x \in X : x \in T
    <3> HIDE DEF X, V, rank, T
    <3> QED
      BY <2>1, RankInduction
  <2> QED
    BY <2>2
<1>10. ASSUME NEW i \in 1..Len(old) + 1, NEW j \in 1..Len(new) + 1
       PROVE  /\ D[<<i, j>>] \in Seq(Nat \X Nat)
              /\ D[<<i, j>>] = IF i > Len(old) \/ j > Len(new) THEN <<>>
                               ELSE IF old[i] = new[j] THEN <<<<i, j>>>> \o D[<<i + 1, j + 1>>]
                               ELSE IF Deletes(lcs, i, j) THEN D[<<i + 1, j>>] ELSE D[<<i, j + 1>>]
  <2> DEFINE c == <<i, j>>
  <2>1. c \in X /\ c[1] = i /\ c[2] = j
    BY DEF Cells
  <2>2. D[<<i, j>>] \in V
    <3> HIDE DEF V
    <3> QED
      BY <1>9, <2>1
  <2>3. D[c] = WalkAt(D, old, new, lcs, c)
    BY <1>8, <2>1
  <2> HIDE DEF X, V
  <2> QED
    BY <2>1, <2>2, <2>3 DEF WalkAt, V
<1>11. \A i \in 1..Len(old) + 1 : \A j \in 1..Len(new) + 1 : (i <= Len(old) /\ j <= Len(new)) <=> ~(i > Len(old) \/ j > Len(new))
  OBVIOUS
<1> HIDE DEF X, V
<1>12. Walks(D, old, new, lcs)
  BY <1>10, <1>11 DEF Walks
<1> QED
  BY <1>1, <1>12

\* Pairs of equal lines, in the order of both texts, from the lines a and b on.
Matches(K, old, new, a, b) ==
  /\ K \in Seq(Nat \X Nat)
  /\ \A k \in 1..Len(K) : K[k][1] \in a..Len(old) /\ K[k][2] \in b..Len(new) /\ old[K[k][1]] = new[K[k][2]]
  /\ \A k, l \in 1..Len(K) : k < l => K[k][1] < K[l][1] /\ K[k][2] < K[l][2]

\* What stands behind a first element.
LEMMA FirstFacts ==
  ASSUME NEW S, NEW q \in Seq(S), NEW x \in S
  PROVE  /\ <<x>> \o q \in Seq(S) /\ Len(<<x>> \o q) = Len(q) + 1
         /\ (<<x>> \o q)[1] = x /\ \A k \in 1..Len(q) : (<<x>> \o q)[k + 1] = q[k]
<1>1. <<x>> \in Seq(S) /\ Len(<<x>>) = 1 /\ <<x>>[1] = x
  OBVIOUS
<1>2. /\ <<x>> \o q \in Seq(S)
      /\ Len(<<x>> \o q) = Len(<<x>>) + Len(q)
      /\ \A i \in 1 .. Len(<<x>>) + Len(q) : (<<x>> \o q)[i] =
                     IF i <= Len(<<x>>) THEN <<x>>[i] ELSE q[i - Len(<<x>>)]
  BY <1>1, ConcatProperties
<1>3. PICK L \in Nat : L = Len(q)
  OBVIOUS
<1>4. \A i \in 1 .. 1 + L : (<<x>> \o q)[i] = IF i <= 1 THEN <<x>>[i] ELSE q[i - 1]
  BY <1>1, <1>2, <1>3
<1>5. (<<x>> \o q)[1] = x
  BY <1>1, <1>3, <1>4
<1>6. \A k \in 1..L : (<<x>> \o q)[k + 1] = q[k]
  <2> SUFFICES ASSUME NEW k \in 1..L PROVE (<<x>> \o q)[k + 1] = q[k]
    OBVIOUS
  <2>1. k + 1 \in 1 .. 1 + L /\ ~(k + 1 <= 1) /\ (k + 1) - 1 = k
    BY <1>3
  <2> QED
    BY <1>4, <2>1
<1> QED
  BY <1>1, <1>2, <1>3, <1>5, <1>6

\* The recursions of the diff lead to cells of lower rank.
LEMMA CellFacts ==
  ASSUME NEW S, NEW old \in Seq(S), NEW new \in Seq(S)
  PROVE  LET X == Cells(Len(old), Len(new))
             rank == CellRank(Len(old), Len(new)) IN
         /\ rank \in [X -> 0..(Len(old) + Len(new))] /\ Len(old) + Len(new) \in Nat
         /\ \A i \in 1..Len(old) + 1 : \A j \in 1..Len(new) + 1 : <<i, j>> \in X
         /\ \A c \in X : \E i \in 1..Len(old) + 1 : \E j \in 1..Len(new) + 1 :
              /\ c = <<i, j>>
              /\ i <= Len(old) /\ j <= Len(new) =>
                   \A d \in {<<i + 1, j + 1>>, <<i + 1, j>>, <<i, j + 1>>} : d \in X /\ rank[d] < rank[c]
<1>1. Len(old) \in Nat /\ Len(new) \in Nat
  OBVIOUS
<1> DEFINE X == Cells(Len(old), Len(new))
           rank == CellRank(Len(old), Len(new))
<1>2. /\ rank \in [X -> 0..(Len(old) + Len(new))] /\ Len(old) + Len(new) \in Nat
      /\ \A c \in X : /\ c[1] \in 1..(Len(old) + 1) /\ c[2] \in 1..(Len(new) + 1) /\ c = <<c[1], c[2]>>
                      /\ ~(c[1] > Len(old) \/ c[2] > Len(new)) =>
                            \A d \in {<<c[1] + 1, c[2] + 1>>, <<c[1] + 1, c[2]>>, <<c[1], c[2] + 1>>} :
                               d \in X /\ rank[d] < rank[c]
  BY <1>1, CellsBelow
<1>3. \A i \in 1..Len(old) + 1 : \A j \in 1..Len(new) + 1 : <<i, j>> \in X
  BY DEF Cells
<1> HIDE DEF X, rank
<1>4. ASSUME NEW c \in X
      PROVE  \E i \in 1..Len(old) + 1 : \E j \in 1..Len(new) + 1 :
              /\ c = <<i, j>>
              /\ i <= Len(old) /\ j <= Len(new) =>
                   \A d \in {<<i + 1, j + 1>>, <<i + 1, j>>, <<i, j + 1>>} : d \in X /\ rank[d] < rank[c]
  <2>1. PICK i \in 1..(Len(old) + 1), j \in 1..(Len(new) + 1) : i = c[1] /\ j = c[2]
    BY <1>2
  <2>2. i <= Len(old) /\ j <= Len(new) => ~(c[1] > Len(old) \/ c[2] > Len(new))
    BY <1>1, <2>1
  <2>3. c = <<i, j>>
    BY <1>2, <2>1
  <2>4. i <= Len(old) /\ j <= Len(new) =>
                   \A d \in {<<i + 1, j + 1>>, <<i + 1, j>>, <<i, j + 1>>} : d \in X /\ rank[d] < rank[c]
    BY <1>2, <2>1, <2>2
  <2> QED
    BY <2>3, <2>4
<1> QED
  BY <1>2, <1>3, <1>4 DEF X, rank

\* The walk keeps equal lines in order, as many as the table says.
LEMMA WalkKeeps ==
  ASSUME NEW S, NEW old \in Seq(S), NEW new \in Seq(S), NEW walk, NEW lcs,
         Fills(lcs, old, new), Walks(walk, old, new, lcs)
  PROVE  \A i \in 1..Len(old) + 1 : \A j \in 1..Len(new) + 1 :
           Matches(walk[<<i, j>>], old, new, i, j) /\ Len(walk[<<i, j>>]) = lcs[<<i, j>>]
<1> DEFINE X == Cells(Len(old), Len(new))
           rank == CellRank(Len(old), Len(new))
           Good(i, j) == Matches(walk[<<i, j>>], old, new, i, j) /\ Len(walk[<<i, j>>]) = lcs[<<i, j>>]
           T == {c \in X : Good(c[1], c[2])}
<1>1. /\ rank \in [X -> 0..(Len(old) + Len(new))] /\ Len(old) + Len(new) \in Nat
      /\ \A i \in 1..Len(old) + 1 : \A j \in 1..Len(new) + 1 : <<i, j>> \in X
      /\ \A c \in X : \E i \in 1..Len(old) + 1 : \E j \in 1..Len(new) + 1 :
              /\ c = <<i, j>>
              /\ i <= Len(old) /\ j <= Len(new) =>
                   \A d \in {<<i + 1, j + 1>>, <<i + 1, j>>, <<i, j + 1>>} : d \in X /\ rank[d] < rank[c]
  BY CellFacts
<1>0. Len(old) \in Nat /\ Len(new) \in Nat
  OBVIOUS
<1>2. ASSUME NEW c \in X, \A d \in X : rank[d] < rank[c] => d \in T PROVE c \in T
  <2> HIDE DEF X, rank
  <2>1. PICK i \in 1..Len(old) + 1, j \in 1..Len(new) + 1 :
              /\ c = <<i, j>>
              /\ i <= Len(old) /\ j <= Len(new) =>
                   \A d \in {<<i + 1, j + 1>>, <<i + 1, j>>, <<i, j + 1>>} : d \in X /\ rank[d] < rank[c]
    BY <1>1
  <2>2. SUFFICES Good(i, j)
    BY <2>1
  <2>3. CASE i > Len(old) \/ j > Len(new)
    <3>1. walk[<<i, j>>] = <<>> /\ walk[<<i, j>>] \in Seq(Nat \X Nat) /\ lcs[<<i, j>>] = 0
      BY <2>3 DEF Walks, Fills
    <3> QED
      BY <3>1 DEF Matches
  <2>4. CASE i <= Len(old) /\ j <= Len(new)
    <3>1. \A a, b : <<a, b>> \in {<<i + 1, j + 1>>, <<i + 1, j>>, <<i, j + 1>>} => Good(a, b)
      <4> SUFFICES ASSUME NEW a, NEW b, <<a, b>> \in {<<i + 1, j + 1>>, <<i + 1, j>>, <<i, j + 1>>} PROVE Good(a, b)
        OBVIOUS
      <4>1. <<a, b>> \in T
        BY <1>2, <2>1, <2>4
      <4> HIDE DEF Good
      <4> QED
        BY <4>1
    <3>2. /\ walk[<<i, j>>] = IF old[i] = new[j] THEN <<<<i, j>>>> \o walk[<<i + 1, j + 1>>]
                          ELSE IF Deletes(lcs, i, j) THEN walk[<<i + 1, j>>] ELSE walk[<<i, j + 1>>]
          /\ old[i] = new[j] => lcs[<<i, j>>] = lcs[<<i + 1, j + 1>>] + 1
          /\ old[i] # new[j] =>
              lcs[<<i, j>>] = IF lcs[<<i + 1, j>>] >= lcs[<<i, j + 1>>] THEN lcs[<<i + 1, j>>] ELSE lcs[<<i, j + 1>>]
      BY <2>4 DEF Walks, Fills
    <3>3. CASE old[i] = new[j]
      <4>1. PICK q : q = walk[<<i + 1, j + 1>>]
        OBVIOUS
      <4>2. Matches(q, old, new, i + 1, j + 1) /\ Len(q) = lcs[<<i + 1, j + 1>>]
        BY <3>1, <4>1
      <4>3. q \in Seq(Nat \X Nat) /\ <<i, j>> \in Nat \X Nat
        BY <4>2 DEF Matches
      <4>4. PICK w : w = <<<<i, j>>>> \o q
        OBVIOUS
      <4>5. /\ w \in Seq(Nat \X Nat) /\ Len(w) = Len(q) + 1
            /\ w[1] = <<i, j>> /\ \A k \in 1..Len(q) : w[k + 1] = q[k]
        <5>1. PICK x \in Nat \X Nat : x = <<i, j>>
          BY <4>3
        <5> QED
          BY <4>3, <4>4, <5>1, FirstFacts
      <4>6. PICK L \in Nat : L = Len(q)
        BY <4>3
      <4>7. \A k \in 1..L : q[k][1] \in i + 1..Len(old) /\ q[k][2] \in j + 1..Len(new) /\ old[q[k][1]] = new[q[k][2]]
        BY <4>2, <4>6 DEF Matches
      <4>8. \A k \in 1..L + 1 : (k = 1 /\ w[k] = <<i, j>>) \/ (k - 1 \in 1..L /\ w[k] = q[k - 1])
        <5> SUFFICES ASSUME NEW k \in 1..L + 1, k # 1 PROVE k - 1 \in 1..L /\ w[k] = q[k - 1]
          BY <4>5
        <5>1. k - 1 \in 1..L /\ (k - 1) + 1 = k
          OBVIOUS
        <5> QED
          BY <4>5, <4>6, <5>1
      <4>9. \A k \in 1..L + 1 : w[k][1] \in i..Len(old) /\ w[k][2] \in j..Len(new) /\ old[w[k][1]] = new[w[k][2]]
        <5> SUFFICES ASSUME NEW k \in 1..L + 1
                     PROVE  w[k][1] \in i..Len(old) /\ w[k][2] \in j..Len(new) /\ old[w[k][1]] = new[w[k][2]]
          OBVIOUS
        <5>1. CASE k = 1
          <6>1. w[k][1] = i /\ w[k][2] = j
            BY <4>5, <5>1
          <6>2. i \in i..Len(old) /\ j \in j..Len(new)
            BY <1>0, <2>4
          <6> QED
            BY <3>3, <6>1, <6>2
        <5>2. CASE k # 1
          <6>1. k - 1 \in 1..L /\ w[k] = q[k - 1]
            BY <4>8, <5>2
          <6>2. \A x : (x \in i + 1..Len(old) => x \in i..Len(old)) /\ (x \in j + 1..Len(new) => x \in j..Len(new))
            BY <1>0
          <6> QED
            BY <4>7, <6>1, <6>2
        <5> QED
          BY <5>1, <5>2
      <4>10. ASSUME NEW k \in 1..L + 1, NEW l \in 1..L + 1, k < l PROVE w[k][1] < w[l][1] /\ w[k][2] < w[l][2]
        <5>1. l - 1 \in 1..L /\ w[l] = q[l - 1]
          BY <4>8, <4>10
        <5>2. CASE k = 1
          <6>1. w[k][1] = i /\ w[k][2] = j
            BY <4>5, <5>2
          <6>2. q[l - 1][1] \in i + 1..Len(old) /\ q[l - 1][2] \in j + 1..Len(new)
            BY <4>7, <5>1
          <6>3. \A x : (x \in i + 1..Len(old) => i < x) /\ (x \in j + 1..Len(new) => j < x)
            BY <1>0
          <6> QED
            BY <5>1, <6>1, <6>2, <6>3
        <5>3. CASE k # 1
          <6>1. k - 1 \in 1..L /\ w[k] = q[k - 1] /\ k - 1 < l - 1
            <7>1. k - 1 \in 1..L /\ w[k] = q[k - 1]
              BY <4>8, <5>3
            <7>2. k - 1 < l - 1
              BY <4>10
            <7> QED
              BY <7>1, <7>2
          <6>2. \A u, v \in 1..L : u < v => q[u][1] < q[v][1] /\ q[u][2] < q[v][2]
            BY <4>2, <4>6 DEF Matches
          <6> QED
            BY <5>1, <6>1, <6>2
        <5> QED
          BY <5>2, <5>3
      <4>11. Matches(w, old, new, i, j)
        BY <4>5, <4>6, <4>9, <4>10 DEF Matches
      <4>12. walk[<<i, j>>] = w /\ lcs[<<i, j>>] = L + 1
        BY <3>2, <3>3, <4>1, <4>2, <4>4, <4>6
      <4> QED
        BY <4>5, <4>6, <4>11, <4>12
    <3>4. CASE old[i] # new[j]
      <4>1. PICK a \in {i, i + 1}, b \in {j, j + 1} :
              /\ <<a, b>> \in {<<i + 1, j>>, <<i, j + 1>>}
              /\ walk[<<i, j>>] = walk[<<a, b>>] /\ lcs[<<i, j>>] = lcs[<<a, b>>]
        BY <3>2, <3>4 DEF Deletes
      <4>2. Matches(walk[<<a, b>>], old, new, a, b) /\ Len(walk[<<a, b>>]) = lcs[<<a, b>>]
        BY <3>1, <4>1
      <4>3. \A x : (x \in a..Len(old) => x \in i..Len(old)) /\ (x \in b..Len(new) => x \in j..Len(new))
        OBVIOUS
      <4>4. Matches(walk[<<a, b>>], old, new, i, j)
        BY <4>2, <4>3 DEF Matches
      <4> QED
        BY <4>1, <4>2, <4>4
    <3> QED
      BY <3>3, <3>4
  <2>5. (i <= Len(old) /\ j <= Len(new)) \/ i > Len(old) \/ j > Len(new)
    BY <1>0
  <2> QED
    BY <2>3, <2>4, <2>5
<1>3. \A c \in X : c \in T
  <2> HIDE DEF X, rank, T
  <2>1. IsHereditary(X, rank, T)
    BY <1>1, <1>2 DEF IsHereditary
  <2> QED
    BY <2>1, RankInduction
<1>4. ASSUME NEW i \in 1..Len(old) + 1, NEW j \in 1..Len(new) + 1 PROVE Good(i, j)
  <2>1. <<i, j>> \in T
    BY <1>1, <1>3
  <2> HIDE DEF Good
  <2> QED
    BY <2>1
<1> QED
  BY <1>4

\* What is beyond a place that is not before i is beyond i.
LEMMA FurtherOn ==
  \A i, a, n \in Nat : \A x \in 1..n : i <= a /\ a < x => x \in i + 1..n
OBVIOUS

\* No other pairs of equal lines in order are more than the table says.
LEMMA TableBounds ==
  ASSUME NEW S, NEW old \in Seq(S), NEW new \in Seq(S), NEW lcs, Fills(lcs, old, new)
  PROVE  \A i \in 1..Len(old) + 1 : \A j \in 1..Len(new) + 1 :
           \A K : Matches(K, old, new, i, j) => Len(K) <= lcs[<<i, j>>]
<1> DEFINE X == Cells(Len(old), Len(new))
           rank == CellRank(Len(old), Len(new))
           Good(i, j) == \A K : Matches(K, old, new, i, j) => Len(K) <= lcs[<<i, j>>]
           T == {c \in X : Good(c[1], c[2])}
<1>1. /\ rank \in [X -> 0..(Len(old) + Len(new))] /\ Len(old) + Len(new) \in Nat
      /\ \A i \in 1..Len(old) + 1 : \A j \in 1..Len(new) + 1 : <<i, j>> \in X
      /\ \A c \in X : \E i \in 1..Len(old) + 1 : \E j \in 1..Len(new) + 1 :
              /\ c = <<i, j>>
              /\ i <= Len(old) /\ j <= Len(new) =>
                   \A d \in {<<i + 1, j + 1>>, <<i + 1, j>>, <<i, j + 1>>} : d \in X /\ rank[d] < rank[c]
  BY CellFacts
<1>0. Len(old) \in Nat /\ Len(new) \in Nat
  OBVIOUS
<1>2. ASSUME NEW c \in X, \A d \in X : rank[d] < rank[c] => d \in T PROVE c \in T
  <2> HIDE DEF X, rank
  <2>1. PICK i \in 1..Len(old) + 1, j \in 1..Len(new) + 1 :
              /\ c = <<i, j>>
              /\ i <= Len(old) /\ j <= Len(new) =>
                   \A d \in {<<i + 1, j + 1>>, <<i + 1, j>>, <<i, j + 1>>} : d \in X /\ rank[d] < rank[c]
    BY <1>1
  <2>2. SUFFICES Good(i, j)
    BY <2>1
  <2>3. SUFFICES ASSUME NEW K, Matches(K, old, new, i, j) PROVE Len(K) <= lcs[<<i, j>>]
    OBVIOUS
  <2>a. K \in Seq(Nat \X Nat)
    BY <2>3 DEF Matches
  <2>4. PICK L \in Nat : L = Len(K)
    BY <2>a
  <2>5. /\ \A k \in 1..L : K[k][1] \in i..Len(old) /\ K[k][2] \in j..Len(new) /\ old[K[k][1]] = new[K[k][2]]
        /\ \A k, l \in 1..L : k < l => K[k][1] < K[l][1] /\ K[k][2] < K[l][2]
    BY <2>3, <2>4 DEF Matches
  <2>6. /\ lcs[<<i, j>>] \in Nat
        /\ i <= Len(old) /\ j <= Len(new) =>
             /\ old[i] = new[j] => lcs[<<i, j>>] = lcs[<<i + 1, j + 1>>] + 1
             /\ old[i] # new[j] =>
                  lcs[<<i, j>>] = IF lcs[<<i + 1, j>>] >= lcs[<<i, j + 1>>] THEN lcs[<<i + 1, j>>] ELSE lcs[<<i, j + 1>>]
    BY DEF Fills
  <2>7. SUFFICES ASSUME L # 0 PROVE L <= lcs[<<i, j>>]
    BY <2>4, <2>6
  <2>8. 1 \in 1..L
    BY <2>7
  <2>9. PICK a \in Nat, b \in Nat : a = K[1][1] /\ b = K[1][2]
    BY <1>0, <2>5, <2>8
  <2>10. /\ i <= a /\ a <= Len(old) /\ j <= b /\ b <= Len(new) /\ old[a] = new[b]
         /\ i <= Len(old) /\ j <= Len(new)
    BY <1>0, <2>5, <2>8, <2>9
  <2>11. \A u, v : <<u, v>> \in {<<i + 1, j + 1>>, <<i + 1, j>>, <<i, j + 1>>} => Good(u, v)
    <3> SUFFICES ASSUME NEW u, NEW v, <<u, v>> \in {<<i + 1, j + 1>>, <<i + 1, j>>, <<i, j + 1>>} PROVE Good(u, v)
      OBVIOUS
    <3>1. <<u, v>> \in T
      BY <1>2, <2>1, <2>10
    <3> HIDE DEF Good
    <3> QED
      BY <3>1
  <2>12. \A k \in 1..L : /\ a <= K[k][1] /\ b <= K[k][2] /\ (k # 1 => a < K[k][1] /\ b < K[k][2])
                          /\ K[k][1] \in 1..Len(old) /\ K[k][2] \in 1..Len(new)
    <3> SUFFICES ASSUME NEW k \in 1..L
                 PROVE  /\ a <= K[k][1] /\ b <= K[k][2] /\ (k # 1 => a < K[k][1] /\ b < K[k][2])
                        /\ K[k][1] \in 1..Len(old) /\ K[k][2] \in 1..Len(new)
      OBVIOUS
    <3>1. K[k][1] \in i..Len(old) /\ K[k][2] \in j..Len(new)
      BY <2>5
    <3>2. K[k][1] \in 1..Len(old) /\ K[k][2] \in 1..Len(new)
      <4>1. i..Len(old) \subseteq 1..Len(old) /\ j..Len(new) \subseteq 1..Len(new)
        BY ONLY <1>0, i \in 1..Len(old) + 1, j \in 1..Len(new) + 1
      <4> QED
        BY ONLY <3>1, <4>1
    <3>3. k # 1 => 1 < k
      OBVIOUS
    <3>4. k # 1 => a < K[k][1] /\ b < K[k][2]
      BY <2>5, <2>8, <2>9, <3>3
    <3>5. CASE k = 1
      BY <2>9, <3>2, <3>5
    <3>6. CASE k # 1
      <4>1. \A x \in 1..Len(old) : a < x => a <= x
        BY <1>0
      <4>2. \A x \in 1..Len(new) : b < x => b <= x
        BY <1>0
      <4> QED
        BY <3>2, <3>4, <3>6, <4>1, <4>2
    <3> QED
      BY <3>5, <3>6
  <2>13. CASE old[i] = new[j]
    <3>1. PICK M : M = Tail(K)
      OBVIOUS
    <3>2. M \in Seq(Nat \X Nat) /\ Len(M) = L - 1 /\ \A k \in 1..L - 1 : M[k] = K[k + 1]
      BY <2>a, <2>4, <2>7, <3>1
    <3>3. \A k \in 1..L - 1 : k + 1 \in 1..L /\ k + 1 # 1
      OBVIOUS
    <3>4. ASSUME NEW k \in 1..L - 1
          PROVE  M[k][1] \in i + 1..Len(old) /\ M[k][2] \in j + 1..Len(new) /\ old[M[k][1]] = new[M[k][2]]
      <4>1. k + 1 \in 1..L /\ k + 1 # 1 /\ M[k] = K[k + 1]
        BY <3>2, <3>3
      <4>2. M[k][1] \in 1..Len(old) /\ a < M[k][1] /\ M[k][2] \in 1..Len(new) /\ b < M[k][2]
        BY <2>12, <4>1
      <4>3. M[k][1] \in i + 1..Len(old) /\ M[k][2] \in j + 1..Len(new)
        <5>1. i \in Nat /\ j \in Nat
          BY <1>0
        <5>2. i <= a /\ j <= b
          BY <2>10
        <5>3. M[k][1] \in i + 1..Len(old)
          BY ONLY <1>0, <5>1, <5>2, <4>2, a \in Nat, FurtherOn
        <5>4. M[k][2] \in j + 1..Len(new)
          BY ONLY <1>0, <5>1, <5>2, <4>2, b \in Nat, FurtherOn
        <5> QED
          BY <5>3, <5>4
      <4> QED
        BY <2>5, <4>1, <4>3
    <3>5. ASSUME NEW k \in 1..L - 1, NEW l \in 1..L - 1, k < l PROVE M[k][1] < M[l][1] /\ M[k][2] < M[l][2]
      <4>1. k + 1 \in 1..L /\ l + 1 \in 1..L /\ k + 1 < l + 1
        BY <3>5
      <4> QED
        BY <2>5, <3>2, <4>1
    <3>6. Matches(M, old, new, i + 1, j + 1)
      BY <3>2, <3>4, <3>5 DEF Matches
    <3>7. L - 1 <= lcs[<<i + 1, j + 1>>]
      BY <2>11, <3>2, <3>6
    <3>8. lcs[<<i, j>>] = lcs[<<i + 1, j + 1>>] + 1 /\ lcs[<<i + 1, j + 1>>] \in Nat
      <4>1. i + 1 \in 1..Len(old) + 1 /\ j + 1 \in 1..Len(new) + 1
        BY <1>0, <2>10
      <4> QED
        BY <2>6, <2>10, <2>13, <4>1 DEF Fills
    <3> QED
      BY <3>7, <3>8
  <2>14. CASE old[i] # new[j]
    <3>1. a # i \/ b # j
      BY <2>10, <2>14
    <3>2. PICK u \in {i, i + 1}, v \in {j, j + 1} : <<u, v>> \in {<<i + 1, j>>, <<i, j + 1>>} /\ u <= a /\ v <= b
      BY <2>10, <3>1
    <3>3. ASSUME NEW k \in 1..L PROVE K[k][1] \in u..Len(old) /\ K[k][2] \in v..Len(new)
      <4>1. a <= K[k][1] /\ b <= K[k][2] /\ K[k][1] \in 1..Len(old) /\ K[k][2] \in 1..Len(new)
        BY <2>12
      <4>2. u \in Int /\ v \in Int
        OBVIOUS
      <4>3. PICK x \in 1..Len(old), y \in 1..Len(new) : x = K[k][1] /\ y = K[k][2]
        BY <4>1
      <4>4. u <= x /\ v <= y
        <5>1. PICK g \in Nat, h \in Nat : g = a /\ h = b
          OBVIOUS
        <5>2. u <= g /\ v <= h
          BY <3>2, <5>1
        <5>3. g <= x /\ h <= y
          BY <4>1, <4>3, <5>1
        <5>4. u \in Int /\ v \in Int /\ g \in Int /\ h \in Int /\ x \in Int /\ y \in Int
          BY <1>0, <4>2
        <5> QED
          BY ONLY <5>2, <5>3, <5>4
      <4> QED
        BY <1>0, <4>2, <4>3, <4>4
    <3>4. Matches(K, old, new, u, v)
      BY <2>a, <2>4, <2>5, <3>3 DEF Matches
    <3>5. L <= lcs[<<u, v>>]
      BY <2>4, <2>11, <3>2, <3>4
    <3>6. lcs[<<i + 1, j>>] \in Nat /\ lcs[<<i, j + 1>>] \in Nat
      <4>1. i + 1 \in 1..Len(old) + 1 /\ j + 1 \in 1..Len(new) + 1
        BY <1>0, <2>10
      <4> QED
        BY <4>1 DEF Fills
    <3>7. lcs[<<u, v>>] \in {lcs[<<i + 1, j>>], lcs[<<i, j + 1>>]}
      BY <3>2
    <3>8. PICK x \in Nat, y \in Nat : x = lcs[<<i + 1, j>>] /\ y = lcs[<<i, j + 1>>]
      BY <3>6
    <3>9. lcs[<<i, j>>] = IF x >= y THEN x ELSE y
      BY <2>6, <2>10, <2>14, <3>8
    <3>10. L <= x \/ L <= y
      BY <3>5, <3>7, <3>8
    <3> QED
      BY <3>9, <3>10
  <2> QED
    BY <2>13, <2>14
<1>3. \A c \in X : c \in T
  <2> HIDE DEF X, rank, T
  <2>1. IsHereditary(X, rank, T)
    BY <1>1, <1>2 DEF IsHereditary
  <2> QED
    BY <2>1, RankInduction
<1>4. ASSUME NEW i \in 1..Len(old) + 1, NEW j \in 1..Len(new) + 1 PROVE Good(i, j)
  <2>1. <<i, j>> \in T
    BY <1>1, <1>3
  <2> HIDE DEF Good
  <2> QED
    BY <2>1
<1> QED
  BY <1>4

\* What goes up goes up by one at least.
LEMMA Climbs ==
  ASSUME NEW L \in Nat, NEW x, \A k \in 1..L : x[k] \in Nat, \A k, l \in 1..L : k < l => x[k] < x[l]
  PROVE  \A k, l \in 1..L : k <= l => x[k] + (l - k) <= x[l]
<1> SUFFICES ASSUME NEW k \in 1..L PROVE \A l \in 1..L : k <= l => x[k] + (l - k) <= x[l]
  OBVIOUS
<1> DEFINE T == {d \in Nat : k + d <= L => x[k] + d <= x[k + d]}
<1>1. ASSUME NEW d \in Nat, \A c \in Nat : c < d => c \in T PROVE d \in T
  <2> SUFFICES ASSUME k + d <= L PROVE x[k] + d <= x[k + d]
    OBVIOUS
  <2>1. CASE d = 0
    BY <2>1
  <2>2. CASE d # 0
    <3>1. d - 1 \in Nat /\ d - 1 < d /\ k + (d - 1) \in 1..L /\ k + d \in 1..L /\ k + (d - 1) < k + d /\ k + (d - 1) <= L
      BY <2>2
    <3>2. d - 1 \in T
      BY <1>1, <3>1
    <3>3. x[k] + (d - 1) <= x[k + (d - 1)]
      BY <3>1, <3>2
    <3>4. x[k + (d - 1)] < x[k + d] /\ x[k + (d - 1)] \in Nat /\ x[k + d] \in Nat /\ x[k] \in Nat
      BY <3>1
    <3> QED
      BY <3>3, <3>4
  <2> QED
    BY <2>1, <2>2
<1>2. \A d \in Nat : d \in T
  <2> HIDE DEF T
  <2> QED
    BY <1>1, Induction
<1> SUFFICES ASSUME NEW l \in 1..L, k <= l PROVE x[k] + (l - k) <= x[l]
  OBVIOUS
<1>3. l - k \in Nat /\ k + (l - k) = l
  OBVIOUS
<1>4. l - k \in T
  BY <1>2, <1>3
<1> QED
  BY <1>3, <1>4

\* So pairs in order leave room before and behind them.
LEMMA MatchRoom ==
  ASSUME NEW S, NEW old \in Seq(S), NEW new \in Seq(S), NEW K, Matches(K, old, new, 1, 1)
  PROVE  \A k \in 1..Len(K) : /\ k <= K[k][1] /\ K[k][1] + (Len(K) - k) <= Len(old)
                              /\ k <= K[k][2] /\ K[k][2] + (Len(K) - k) <= Len(new)
<1>0. K \in Seq(Nat \X Nat)
  BY DEF Matches
<1>1. PICK L \in Nat : L = Len(K)
  BY <1>0
<1>2. PICK n \in Nat, m \in Nat : n = Len(old) /\ m = Len(new)
  OBVIOUS
<1>3. /\ \A k \in 1..L : K[k][1] \in 1..n /\ K[k][2] \in 1..m
      /\ \A k, l \in 1..L : k < l => K[k][1] < K[l][1] /\ K[k][2] < K[l][2]
  BY <1>1, <1>2 DEF Matches
<1> DEFINE x == [k \in 1..L |-> K[k][1]]
           y == [k \in 1..L |-> K[k][2]]
<1>4. \A k \in 1..L : x[k] = K[k][1] /\ y[k] = K[k][2]
  OBVIOUS
<1> HIDE DEF x, y
<1>b. \A k \in 1..L : K[k][1] \in Nat /\ K[k][2] \in Nat
  <2>1. (\A u \in 1..n : u \in Nat) /\ (\A u \in 1..m : u \in Nat)
    OBVIOUS
  <2> QED
    BY ONLY <1>3, <2>1
<1>5. (\A k \in 1..L : x[k] \in Nat) /\ (\A k, l \in 1..L : k < l => x[k] < x[l])
  BY ONLY <1>3, <1>4, <1>b
<1>6. (\A k \in 1..L : y[k] \in Nat) /\ (\A k, l \in 1..L : k < l => y[k] < y[l])
  BY ONLY <1>3, <1>4, <1>b
<1>7. \A k, l \in 1..L : k <= l => x[k] + (l - k) <= x[l]
  BY <1>5, Climbs
<1>8. \A k, l \in 1..L : k <= l => y[k] + (l - k) <= y[l]
  BY <1>6, Climbs
<1> SUFFICES ASSUME NEW k \in 1..L PROVE /\ k <= K[k][1] /\ K[k][1] + (L - k) <= n
                                         /\ k <= K[k][2] /\ K[k][2] + (L - k) <= m
  BY <1>1, <1>2
<1>9. 1 \in 1..L /\ L \in 1..L /\ 1 <= k /\ k <= L
  OBVIOUS
<1>10. x[1] + (k - 1) <= x[k] /\ x[k] + (L - k) <= x[L]
  BY <1>7, <1>9
<1>11. y[1] + (k - 1) <= y[k] /\ y[k] + (L - k) <= y[L]
  BY <1>8, <1>9
<1>12. x[1] \in 1..n /\ x[k] \in 1..n /\ x[L] \in 1..n /\ y[1] \in 1..m /\ y[k] \in 1..m /\ y[L] \in 1..m
  BY <1>3, <1>4, <1>9
<1>13. k <= x[k] /\ x[k] + (L - k) <= n /\ k <= y[k] /\ y[k] + (L - k) <= m
  <2>1. \A a, b, c \in Nat : a >= 1 /\ c <= n /\ a + (k - 1) <= b /\ b + (L - k) <= c => k <= b /\ b + (L - k) <= n
    OBVIOUS
  <2>2. \A a, b, c \in Nat : a >= 1 /\ c <= m /\ a + (k - 1) <= b /\ b + (L - k) <= c => k <= b /\ b + (L - k) <= m
    OBVIOUS
  <2>3. x[1] \in Nat /\ x[k] \in Nat /\ x[L] \in Nat /\ x[1] >= 1 /\ x[L] <= n
    BY <1>12
  <2>4. y[1] \in Nat /\ y[k] \in Nat /\ y[L] \in Nat /\ y[1] >= 1 /\ y[L] <= m
    BY <1>12
  <2> QED
    BY <1>10, <1>11, <2>1, <2>2, <2>3, <2>4
<1> QED
  BY <1>4, <1>13

\* What is kept of the middle.
LEMMA InsideFacts ==
  ASSUME NEW S, NEW old \in Seq(S), NEW new \in Seq(S)
  PROVE  /\ Matches(KeptInside(old, new), old, new, 1, 1)
         /\ Len(old) * Len(new) <= CellCap =>
              \A K : Matches(K, old, new, 1, 1) => Len(K) <= Len(KeptInside(old, new))
<1>0. Len(old) \in Nat /\ Len(new) \in Nat /\ CellCap \in Nat /\ Len(old) * Len(new) \in Nat
  <2>1. Len(old) \in Nat /\ Len(new) \in Nat /\ CellCap \in Nat
    BY LimitsAssumption
  <2>2. \A n, m \in Nat : n * m \in Nat
    OBVIOUS
  <2> QED
    BY <2>1, <2>2
<1>1. Fills(Table(old, new), old, new)
  BY TableFills
<1>2. PICK walk : Walks(walk, old, new, Table(old, new)) /\ Walk(old, new, Table(old, new)) = walk[<<1, 1>>]
  BY WalkWalks
<1>3. 1 \in 1..Len(old) + 1 /\ 1 \in 1..Len(new) + 1
  BY <1>0
<1>4. PICK w, t : w = walk[<<1, 1>>] /\ t = Table(old, new)[<<1, 1>>]
  OBVIOUS
<1>5. Matches(w, old, new, 1, 1) /\ Len(w) = t
  BY <1>1, <1>2, <1>3, <1>4, WalkKeeps
<1>6. \A K : Matches(K, old, new, 1, 1) => Len(K) <= t
  BY <1>1, <1>3, <1>4, TableBounds
<1>7. CASE Len(old) * Len(new) > CellCap
  <2>1. KeptInside(old, new) = <<>>
    BY <1>7 DEF KeptInside
  <2>2. Matches(<<>>, old, new, 1, 1)
    <3>1. <<>> \in Seq(Nat \X Nat) /\ Len(<<>>) = 0
      OBVIOUS
    <3> QED
      BY <3>1 DEF Matches
  <2> QED
    BY <1>0, <1>7, <2>1, <2>2
<1>8. CASE ~(Len(old) * Len(new) > CellCap)
  <2>1. KeptInside(old, new) = w
    BY <1>2, <1>4, <1>8 DEF KeptInside
  <2> QED
    BY <1>5, <1>6, <2>1
<1> QED
  BY <1>7, <1>8

\* What is kept in all: the prefix, the middle and the suffix.
KeptAt(K, I, old, new, p, s) ==
  /\ K \in Seq(Nat \X Nat) /\ Len(K) = p + Len(I) + s
  /\ \A k \in 1..p : K[k] = <<k, k>>
  /\ \A k \in 1..Len(I) : K[p + k] = <<I[k][1] + p, I[k][2] + p>>
  /\ \A k \in 1..s : K[p + Len(I) + k] = <<Len(old) - s + k, Len(new) - s + k>>

\* What is kept is the common prefix, what the table says of the middle, and the common suffix.
LEMMA AroundFacts ==
  ASSUME NEW S, NEW old \in Seq(S), NEW new \in Seq(S), NEW p \in Nat, NEW s \in Nat,
         p + s <= Len(old), p + s <= Len(new),
         NEW I, I = KeptInside(SubSeq(old, p + 1, Len(old) - s), SubSeq(new, p + 1, Len(new) - s)),
         I \in Seq(Nat \X Nat)
  PROVE  KeptAt(KeptAround(old, new, p, s), I, old, new, p, s)
<1> DEFINE V == Nat \X Nat
           A == [k \in 1..p |-> <<k, k>>]
           B == Shifted(I, p)
           C == [k \in 1..s |-> <<Len(old) - s + k, Len(new) - s + k>>]
<1>0. PICK n \in Nat, m \in Nat, L \in Nat : n = Len(old) /\ m = Len(new) /\ L = Len(I)
  OBVIOUS
<1>1. A \in Seq(V) /\ Len(A) = p /\ \A k \in 1..p : A[k] = <<k, k>>
  <2>1. \A k \in 1..p : <<k, k>> \in V
    OBVIOUS
  <2>2. A \in [1..p -> V]
    BY <2>1
  <2> QED
    BY <2>2
<1>2. B \in Seq(V) /\ Len(B) = L /\ \A k \in 1..L : B[k] = <<I[k][1] + p, I[k][2] + p>>
  <2>1. B = [k \in 1..L |-> <<I[k][1] + p, I[k][2] + p>>]
    BY <1>0 DEF Shifted
  <2>2. ASSUME NEW k \in 1..L PROVE <<I[k][1] + p, I[k][2] + p>> \in V
    <3>1. I[k] \in Nat \X Nat
      BY <1>0
    <3>2. I[k][1] \in Nat /\ I[k][2] \in Nat
      BY <3>1
    <3>3. \A u, v \in Nat : <<u + p, v + p>> \in Nat \X Nat
      OBVIOUS
    <3> QED
      BY <3>2, <3>3 DEF V
  <2>3. B \in [1..L -> V]
    BY <2>1, <2>2
  <2> HIDE DEF V, B
  <2> QED
    BY <2>1, <2>3
<1>3. C \in Seq(V) /\ Len(C) = s /\ \A k \in 1..s : C[k] = <<Len(old) - s + k, Len(new) - s + k>>
  <2>1. \A k \in 1..s : <<n - s + k, m - s + k>> \in V
    BY <1>0
  <2>2. C \in [1..s -> V]
    BY <1>0, <2>1
  <2> QED
    BY <2>2
<1> HIDE DEF A, B, C, V
<1>4. KeptAround(old, new, p, s) = A \o B \o C
  BY DEF KeptAround, A, B, C
<1>5. /\ A \o B \in Seq(V) /\ Len(A \o B) = p + L
      /\ \A i \in 1 .. p + L : (A \o B)[i] = IF i <= p THEN A[i] ELSE B[i - p]
  BY <1>1, <1>2, ConcatProperties
<1>6. PICK D \in Seq(V) : D = A \o B
  BY <1>5
<1>7. PICK E : E = D \o C
  OBVIOUS
<1>8. /\ E \in Seq(V) /\ Len(E) = p + L + s
      /\ \A i \in 1 .. p + L + s : E[i] = IF i <= p + L THEN D[i] ELSE C[i - (p + L)]
  <2>1. Len(D) = p + L
    BY <1>5, <1>6
  <2>2. PICK F \in Seq(V) : F = C
    BY <1>3
  <2>3. /\ D \o F \in Seq(V) /\ Len(D \o F) = Len(D) + Len(F)
        /\ \A i \in 1 .. Len(D) + Len(F) : (D \o F)[i] = IF i <= Len(D) THEN D[i] ELSE F[i - Len(D)]
    BY ConcatProperties
  <2>4. Len(F) = s /\ E = D \o F
    BY <1>3, <1>7, <2>2
  <2> QED
    BY <2>1, <2>2, <2>3, <2>4
<1>9. \A k \in 1..p : E[k] = <<k, k>>
  <2> SUFFICES ASSUME NEW k \in 1..p PROVE E[k] = <<k, k>>
    OBVIOUS
  <2>1. k \in 1 .. p + L + s /\ k \in 1 .. p + L /\ k <= p + L /\ k <= p
    OBVIOUS
  <2> QED
    BY <1>1, <1>5, <1>6, <1>8, <2>1
<1>10. \A k \in 1..L : E[p + k] = <<I[k][1] + p, I[k][2] + p>>
  <2> SUFFICES ASSUME NEW k \in 1..L PROVE E[p + k] = <<I[k][1] + p, I[k][2] + p>>
    OBVIOUS
  <2>1. p + k \in 1 .. p + L + s /\ p + k \in 1 .. p + L /\ p + k <= p + L /\ ~(p + k <= p) /\ (p + k) - p = k
    OBVIOUS
  <2>2. E[p + k] = D[p + k]
    BY <1>8, <2>1
  <2>3. D[p + k] = B[k]
    BY <1>5, <1>6, <2>1
  <2> QED
    BY <1>2, <2>2, <2>3
<1>11. \A k \in 1..s : E[p + L + k] = <<Len(old) - s + k, Len(new) - s + k>>
  <2> SUFFICES ASSUME NEW k \in 1..s PROVE E[p + L + k] = <<Len(old) - s + k, Len(new) - s + k>>
    OBVIOUS
  <2>1. p + L + k \in 1 .. p + L + s /\ ~(p + L + k <= p + L) /\ (p + L + k) - (p + L) = k
    OBVIOUS
  <2>2. E[p + L + k] = C[k]
    BY <1>8, <2>1
  <2> QED
    BY <1>3, <2>2
<1> QED
  BY <1>0, <1>4, <1>6, <1>7, <1>8, <1>9, <1>10, <1>11 DEF KeptAt, V

\* The middle of a text.
LEMMA MiddleFacts ==
  ASSUME NEW S, NEW text \in Seq(S), NEW p \in Nat, NEW s \in Nat, p + s <= Len(text)
  PROVE  /\ SubSeq(text, p + 1, Len(text) - s) \in Seq(S)
         /\ Len(SubSeq(text, p + 1, Len(text) - s)) = Len(text) - s - p
         /\ \A k \in 1..Len(text) - s - p : SubSeq(text, p + 1, Len(text) - s)[k] = text[p + k]
<1>1. PICK n \in Nat : n = Len(text)
  OBVIOUS
<1>2. PICK b \in 0..Len(text) : b = n - s
  <2>1. n - s \in 0..n
    BY <1>1
  <2> QED
    BY <1>1, <2>1
<1>3. /\ Copied(text, p, b) \in Seq(S)
      /\ Len(Copied(text, p, b)) = IF p < b THEN b - p ELSE 0
      /\ \A i \in 1..b - p : Copied(text, p, b)[i] = text[p + i]
  BY CopiedFacts
<1>4. p <= b
  BY <1>1, <1>2
<1>5. Copied(text, p, b) = SubSeq(text, p + 1, Len(text) - s)
  BY <1>1, <1>2 DEF Copied
<1>6. b - p = Len(text) - s - p /\ (~(p < b) => b - p = 0)
  BY <1>1, <1>2, <1>4
<1>7. Len(Copied(text, p, b)) = b - p
  BY ONLY <1>3, <1>6
<1> QED
  BY ONLY <1>3, <1>5, <1>6, <1>7

\* A part of the texts has no larger table.
LEMMA LessCells ==
  ASSUME NEW a \in Nat, NEW b \in Nat, NEW n \in Nat, NEW m \in Nat, a <= n, b <= m
  PROVE  a * b <= n * m
<1>1. PICK c \in Nat, d \in Nat : n = a + c /\ m = b + d
  <2>1. n - a \in Nat /\ m - b \in Nat /\ n = a + (n - a) /\ m = b + (m - b)
    OBVIOUS
  <2> QED
    BY <2>1
<1>2. n * m = a * b + a * d + c * b + c * d
  BY <1>1
<1>3. \A x, y \in Nat : x * y \in Nat
  OBVIOUS
<1>4. a * b \in Nat /\ a * d \in Nat /\ c * b \in Nat /\ c * d \in Nat
  BY <1>1, <1>3
<1> QED
  BY <1>2, <1>4

\* The diff keeps equal lines in their order, and no other choice of such
\* lines is longer, if the table can be filled.
LEMMA KeptFacts ==
  ASSUME NEW S, NEW old \in Seq(S), NEW new \in Seq(S)
  PROVE  /\ Matches(Kept(old, new), old, new, 1, 1)
         /\ Len(old) * Len(new) <= CellCap =>
              \A M : Matches(M, old, new, 1, 1) => Len(M) <= Len(Kept(old, new))
<1>1. PICK p \in Nat : /\ p = CommonPrefix(old, new) /\ p <= Len(old) /\ p <= Len(new)
                       /\ \A k \in 1..p : old[k] = new[k]
  BY PrefixFacts
<1>2. PICK s \in Nat : /\ s = CommonSuffix(old, new, p) /\ p + s <= Len(old) /\ p + s <= Len(new)
                       /\ \A k \in 1..s : old[Len(old) - s + k] = new[Len(new) - s + k]
  <2> DEFINE c == CommonSuffix(old, new, p)
  <2>1. /\ c \in Nat /\ p + c <= Len(old) /\ p + c <= Len(new)
        /\ \A k \in 1..c : old[Len(old) - c + k] = new[Len(new) - c + k]
    BY <1>1, SuffixFacts
  <2> HIDE DEF c
  <2>2. c = CommonSuffix(old, new, p)
    BY DEF c
  <2> QED
    BY <2>1, <2>2
<1>3. PICK K : K = Kept(old, new)
  OBVIOUS
<1>4. K = KeptAround(old, new, p, s)
  BY <1>1, <1>2, <1>3 DEF Kept
<1>5. PICK a, b : a = SubSeq(old, p + 1, Len(old) - s) /\ b = SubSeq(new, p + 1, Len(new) - s)
  OBVIOUS
<1>6. PICK n \in Nat, m \in Nat : n = Len(old) /\ m = Len(new)
  OBVIOUS
<1>a. p + s <= n /\ p + s <= m
  BY <1>2, <1>6
<1>7. a \in Seq(S) /\ Len(a) = n - s - p /\ \A k \in 1..n - s - p : a[k] = old[p + k]
  <2>1. /\ SubSeq(old, p + 1, Len(old) - s) \in Seq(S)
        /\ Len(SubSeq(old, p + 1, Len(old) - s)) = Len(old) - s - p
        /\ \A k \in 1..Len(old) - s - p : SubSeq(old, p + 1, Len(old) - s)[k] = old[p + k]
    BY <1>2, MiddleFacts
  <2> QED
    BY <1>5, <1>6, <2>1
<1>8. b \in Seq(S) /\ Len(b) = m - s - p /\ \A k \in 1..m - s - p : b[k] = new[p + k]
  <2>1. /\ SubSeq(new, p + 1, Len(new) - s) \in Seq(S)
        /\ Len(SubSeq(new, p + 1, Len(new) - s)) = Len(new) - s - p
        /\ \A k \in 1..Len(new) - s - p : SubSeq(new, p + 1, Len(new) - s)[k] = new[p + k]
    BY <1>2, MiddleFacts
  <2> QED
    BY <1>5, <1>6, <2>1
<1>9. PICK I : I = KeptInside(a, b)
  OBVIOUS
<1>10. /\ Matches(I, a, b, 1, 1)
       /\ Len(a) * Len(b) <= CellCap => \A M : Matches(M, a, b, 1, 1) => Len(M) <= Len(I)
  BY <1>7, <1>8, <1>9, InsideFacts
<1>11. I \in Seq(Nat \X Nat)
  BY <1>10 DEF Matches
<1>12. PICK L \in Nat : L = Len(I)
  BY <1>11
<1>13. KeptAt(K, I, old, new, p, s)
  BY <1>2, <1>4, <1>5, <1>9, <1>11, AroundFacts
<1>14. /\ K \in Seq(Nat \X Nat) /\ Len(K) = p + L + s
       /\ \A k \in 1..p : K[k] = <<k, k>>
       /\ \A k \in 1..L : K[p + k] = <<I[k][1] + p, I[k][2] + p>>
       /\ \A k \in 1..s : K[p + L + k] = <<n - s + k, m - s + k>>
  BY <1>6, <1>12, <1>13 DEF KeptAt
<1>15. /\ \A k \in 1..L : I[k][1] \in 1..n - s - p /\ I[k][2] \in 1..m - s - p /\ old[p + I[k][1]] = new[p + I[k][2]]
       /\ \A k, l \in 1..L : k < l => I[k][1] < I[l][1] /\ I[k][2] < I[l][2]
  <2>1. /\ \A k \in 1..L : I[k][1] \in 1..Len(a) /\ I[k][2] \in 1..Len(b) /\ a[I[k][1]] = b[I[k][2]]
        /\ \A k, l \in 1..L : k < l => I[k][1] < I[l][1] /\ I[k][2] < I[l][2]
    BY <1>10, <1>12 DEF Matches
  <2> QED
    BY <1>7, <1>8, <2>1
<1>16. \A k \in 1..p + L + s :
         \/ k \in 1..p
         \/ \E h \in 1..L : k = p + h
         \/ \E h \in 1..s : k = p + L + h
  <2> SUFFICES ASSUME NEW k \in 1..p + L + s
               PROVE  \/ k \in 1..p
                      \/ \E h \in 1..L : k = p + h
                      \/ \E h \in 1..s : k = p + L + h
    OBVIOUS
  <2>1. CASE k <= p
    BY <2>1
  <2>2. CASE ~(k <= p) /\ k <= p + L
    <3>1. k - p \in 1..L /\ k = p + (k - p)
      BY <2>2
    <3> QED
      BY <3>1
  <2>3. CASE ~(k <= p + L)
    <3>1. k - (p + L) \in 1..s /\ k = p + L + (k - (p + L))
      BY <2>3
    <3> QED
      BY <3>1
  <2> QED
    BY <2>1, <2>2, <2>3
<1>17. Matches(K, old, new, 1, 1)
  <2>1. ASSUME NEW k \in 1..p + L + s PROVE K[k][1] \in 1..n /\ K[k][2] \in 1..m /\ old[K[k][1]] = new[K[k][2]]
    <3>1. CASE k \in 1..p
      <4>1. K[k][1] = k /\ K[k][2] = k
        BY <1>14, <3>1
      <4>2. k \in 1..n /\ k \in 1..m
        BY <1>a, <3>1
      <4>3. old[k] = new[k]
        BY <1>1, <3>1
      <4> QED
        BY ONLY <4>1, <4>2, <4>3
    <3>2. ASSUME NEW h \in 1..L, k = p + h PROVE K[k][1] \in 1..n /\ K[k][2] \in 1..m /\ old[K[k][1]] = new[K[k][2]]
      <4>1. PICK i \in 1..n - s - p, j \in 1..m - s - p : i = I[h][1] /\ j = I[h][2] /\ old[p + i] = new[p + j]
        BY <1>15
      <4>2. K[k] = <<i + p, j + p>>
        BY <1>14, <3>2, <4>1
      <4>3. K[k][1] = p + i /\ K[k][2] = p + j
        <5>1. \A u, v : <<u, v>>[1] = u /\ <<u, v>>[2] = v
          OBVIOUS
        <5>2. K[k][1] = i + p /\ K[k][2] = j + p
          BY ONLY <4>2, <5>1
        <5>3. i + p = p + i /\ j + p = p + j
          OBVIOUS
        <5> QED
          BY ONLY <5>2, <5>3
      <4>4. p + i \in 1..n /\ p + j \in 1..m
        <5>1. /\ p \in Nat /\ s \in Nat /\ n \in Nat /\ m \in Nat
              /\ i \in 1..n - s - p /\ j \in 1..m - s - p
          OBVIOUS
        <5> QED
          BY ONLY <1>a, <5>1
      <4> QED
        BY <4>1, <4>3, <4>4
    <3>3. ASSUME NEW h \in 1..s, k = p + L + h PROVE K[k][1] \in 1..n /\ K[k][2] \in 1..m /\ old[K[k][1]] = new[K[k][2]]
      <4>1. K[k] = <<n - s + h, m - s + h>>
        BY <1>14, <3>3
      <4>2. K[k][1] = n - s + h /\ K[k][2] = m - s + h
        BY <4>1
      <4>3. n - s + h \in 1..n /\ m - s + h \in 1..m
        <5>1. /\ p \in Nat /\ s \in Nat /\ n \in Nat /\ m \in Nat /\ h \in 1..s
          OBVIOUS
        <5> QED
          BY ONLY <1>a, <5>1
      <4>4. old[n - s + h] = new[m - s + h]
        BY <1>2, <1>6
      <4> QED
        BY ONLY <4>2, <4>3, <4>4
    <3> QED
      BY <1>16, <3>1, <3>2, <3>3
  <2>2. ASSUME NEW k \in 1..p + L + s, NEW l \in 1..p + L + s, k < l PROVE K[k][1] < K[l][1] /\ K[k][2] < K[l][2]
    <3>0. \A u, v : <<u, v>>[1] = u /\ <<u, v>>[2] = v
      OBVIOUS
    <3>a. \A h \in 1..p : K[h][1] = h /\ K[h][2] = h
      <4>1. \A h \in 1..p : K[h] = <<h, h>>
        BY <1>14
      <4> QED
        BY <3>0, <4>1
    <3>b. \A h \in 1..L : /\ K[p + h][1] = I[h][1] + p /\ K[p + h][2] = I[h][2] + p
                          /\ I[h][1] \in 1..n - s - p /\ I[h][2] \in 1..m - s - p
      <4>1. \A h \in 1..L : K[p + h] = <<I[h][1] + p, I[h][2] + p>>
        BY <1>14
      <4>2. \A h \in 1..L : I[h][1] \in 1..n - s - p /\ I[h][2] \in 1..m - s - p
        BY <1>15
      <4>3. \A h \in 1..L : K[p + h][1] = I[h][1] + p /\ K[p + h][2] = I[h][2] + p
        BY <3>0, <4>1
      <4> QED
        BY <4>2, <4>3
    <3>c. \A h \in 1..s : K[p + L + h][1] = n - s + h /\ K[p + L + h][2] = m - s + h
      <4>1. \A h \in 1..s : K[p + L + h] = <<n - s + h, m - s + h>>
        BY <1>14
      <4> QED
        BY <3>0, <4>1
    <3>1. CASE k \in 1..p
      <4>1. CASE l \in 1..p
        BY <2>2, <3>a, <3>1, <4>1
      <4>2. ASSUME NEW h \in 1..L, l = p + h PROVE K[k][1] < K[l][1] /\ K[k][2] < K[l][2]
        <5>1. PICK i \in 1..n - s - p, j \in 1..m - s - p : K[l][1] = i + p /\ K[l][2] = j + p
          BY <3>b, <4>2
        <5>2. k < i + p /\ k < j + p
          BY <3>1
        <5> QED
          BY <3>a, <3>1, <5>1, <5>2
      <4>3. ASSUME NEW h \in 1..s, l = p + L + h PROVE K[k][1] < K[l][1] /\ K[k][2] < K[l][2]
        <5>1. k < n - s + h /\ k < m - s + h
          <6>1. /\ p \in Nat /\ s \in Nat /\ n \in Nat /\ m \in Nat /\ h \in 1..s
            OBVIOUS
          <6> QED
            BY ONLY <1>a, <3>1, <6>1
        <5> QED
          BY <3>a, <3>c, <3>1, <4>3, <5>1
      <4> QED
        BY <1>16, <4>1, <4>2, <4>3
    <3>2. ASSUME NEW g \in 1..L, k = p + g PROVE K[k][1] < K[l][1] /\ K[k][2] < K[l][2]
      <4>0. PICK i \in 1..n - s - p, j \in 1..m - s - p : i = I[g][1] /\ j = I[g][2] /\ K[k][1] = i + p /\ K[k][2] = j + p
        BY <3>b, <3>2
      <4>1. l \notin 1..p
        BY <2>2, <3>2
      <4>2. ASSUME NEW h \in 1..L, l = p + h PROVE K[k][1] < K[l][1] /\ K[k][2] < K[l][2]
        <5>1. PICK u \in 1..n - s - p, v \in 1..m - s - p : u = I[h][1] /\ v = I[h][2] /\ K[l][1] = u + p /\ K[l][2] = v + p
          BY <3>b, <4>2
        <5>2. g < h
          BY <2>2, <3>2, <4>2
        <5>3. i < u /\ j < v
          BY <1>15, <4>0, <5>1, <5>2
        <5>4. i + p < u + p /\ j + p < v + p
          BY <5>3
        <5> QED
          BY <4>0, <5>1, <5>4
      <4>3. ASSUME NEW h \in 1..s, l = p + L + h PROVE K[k][1] < K[l][1] /\ K[k][2] < K[l][2]
        <5>1. i + p < n - s + h /\ j + p < m - s + h
          BY <1>a
        <5> QED
          BY <3>c, <4>0, <4>3, <5>1
      <4> QED
        BY <1>16, <4>1, <4>2, <4>3
    <3>3. ASSUME NEW g \in 1..s, k = p + L + g PROVE K[k][1] < K[l][1] /\ K[k][2] < K[l][2]
      <4>1. l \notin 1..p /\ ~ \E h \in 1..L : l = p + h
        BY <2>2, <3>3
      <4>2. PICK h \in 1..s : l = p + L + h
        BY <1>16, <4>1
      <4>3. g < h
        BY <2>2, <3>3, <4>2
      <4>4. n - s + g < n - s + h /\ m - s + g < m - s + h
        BY <4>3
      <4> QED
        BY <3>c, <3>3, <4>2, <4>4
    <3> QED
      BY <1>16, <3>1, <3>2, <3>3
  <2> QED
    BY <1>6, <1>14, <2>1, <2>2 DEF Matches
<1>18. ASSUME n * m <= CellCap, NEW M, Matches(M, old, new, 1, 1) PROVE Len(M) <= p + L + s
  <2>1. M \in Seq(Nat \X Nat)
    BY <1>18 DEF Matches
  <2>2. PICK N \in Nat : N = Len(M)
    BY <2>1
  <2>3. CASE N <= p + s
    BY <2>2, <2>3
  <2>4. CASE ~(N <= p + s)
    <3> DEFINE Q == [h \in 1..N - s - p |-> <<M[p + h][1] - p, M[p + h][2] - p>>]
    <3>1. \A k \in 1..N : k <= M[k][1] /\ M[k][1] + (N - k) <= n /\ k <= M[k][2] /\ M[k][2] + (N - k) <= m
      BY <1>6, <1>18, <2>2, MatchRoom
    <3>2. /\ \A k \in 1..N : M[k][1] \in 1..n /\ M[k][2] \in 1..m /\ old[M[k][1]] = new[M[k][2]]
          /\ \A k, l \in 1..N : k < l => M[k][1] < M[l][1] /\ M[k][2] < M[l][2]
      BY <1>6, <1>18, <2>2 DEF Matches
    <3>3. ASSUME NEW h \in 1..N - s - p
          PROVE  \E i \in 1..n - s - p, j \in 1..m - s - p :
                   M[p + h][1] = p + i /\ M[p + h][2] = p + j /\ Q[h] = <<i, j>> /\ old[p + i] = new[p + j]
      <4>1. p + h \in 1..N /\ N - (p + h) >= s
        OBVIOUS
      <4>2. PICK x \in 1..n, y \in 1..m : x = M[p + h][1] /\ y = M[p + h][2] /\ old[x] = new[y]
        BY <3>2, <4>1
      <4>3. p + h <= x /\ x + (N - (p + h)) <= n /\ p + h <= y /\ y + (N - (p + h)) <= m
        BY <3>1, <4>1, <4>2
      <4>4. x - p \in 1..n - s - p /\ y - p \in 1..m - s - p /\ x = p + (x - p) /\ y = p + (y - p)
        BY <4>1, <4>3
      <4>5. Q[h] = <<x - p, y - p>>
        BY <4>2
      <4> HIDE DEF Q
      <4> QED
        BY <4>2, <4>4, <4>5
    <3>4. Q \in Seq(Nat \X Nat) /\ Len(Q) = N - s - p
      <4>1. ASSUME NEW h \in 1..N - s - p PROVE Q[h] \in Nat \X Nat
        <5>1. PICK i \in 1..n - s - p, j \in 1..m - s - p : Q[h] = <<i, j>>
          BY <3>3
        <5>2. i \in Nat /\ j \in Nat
          OBVIOUS
        <5> HIDE DEF Q
        <5> QED
          BY <5>1, <5>2
      <4>2. Q \in [1..N - s - p -> Nat \X Nat] /\ N - s - p \in Nat
        <5>1. Q = [h \in 1..N - s - p |-> Q[h]]
          OBVIOUS
        <5>2. N - s - p \in Nat
          BY <2>4
        <5> HIDE DEF Q
        <5> QED
          BY <4>1, <5>1, <5>2
      <4> HIDE DEF Q
      <4>3. PICK R \in [1..N - s - p -> Nat \X Nat] : R = Q
        BY <4>2
      <4>4. PICK z \in Nat : z = N - s - p
        BY <4>2
      <4>5. R \in [1..z -> Nat \X Nat]
        BY <4>4
      <4>6. R \in Seq(Nat \X Nat) /\ Len(R) = z
        BY <4>5
      <4> QED
        BY <4>3, <4>4, <4>6
    <3> HIDE DEF Q
    <3>5. ASSUME NEW h \in 1..N - s - p PROVE Q[h][1] \in 1..Len(a) /\ Q[h][2] \in 1..Len(b) /\ a[Q[h][1]] = b[Q[h][2]]
      <4>1. PICK i \in 1..n - s - p, j \in 1..m - s - p : Q[h] = <<i, j>> /\ old[p + i] = new[p + j]
        BY <3>3
      <4>2. Q[h][1] = i /\ Q[h][2] = j
        BY <4>1
      <4> QED
        BY <1>7, <1>8, <4>1, <4>2
    <3>6. ASSUME NEW h \in 1..N - s - p, NEW l \in 1..N - s - p, h < l PROVE Q[h][1] < Q[l][1] /\ Q[h][2] < Q[l][2]
      <4>1. PICK i \in 1..n - s - p, j \in 1..m - s - p : M[p + h][1] = p + i /\ M[p + h][2] = p + j /\ Q[h] = <<i, j>>
        BY <3>3
      <4>2. PICK u \in 1..n - s - p, v \in 1..m - s - p : M[p + l][1] = p + u /\ M[p + l][2] = p + v /\ Q[l] = <<u, v>>
        BY <3>3
      <4>3. p + h \in 1..N /\ p + l \in 1..N /\ p + h < p + l
        BY <3>6
      <4>4. p + i < p + u /\ p + j < p + v
        BY <3>2, <4>1, <4>2, <4>3
      <4>5. i < u /\ j < v
        BY <4>4
      <4> QED
        BY <4>1, <4>2, <4>5
    <3>7. Matches(Q, a, b, 1, 1)
      BY <3>4, <3>5, <3>6 DEF Matches
    <3>8. Len(a) * Len(b) <= CellCap
      <4>1. Len(a) \in Nat /\ Len(b) \in Nat /\ Len(a) <= n /\ Len(b) <= m
        BY <1>a, <1>7, <1>8
      <4>2. Len(a) * Len(b) <= n * m
        BY <4>1, LessCells
      <4>3. \A x, y \in Nat : x * y \in Nat
        OBVIOUS
      <4>4. Len(a) * Len(b) \in Nat /\ n * m \in Nat /\ CellCap \in Nat
        BY <4>1, <4>3, LimitsAssumption
      <4> QED
        BY <1>18, <4>2, <4>4
    <3>9. N - s - p <= L
      BY <1>10, <1>12, <3>4, <3>7, <3>8
    <3> QED
      BY <2>2, <3>9
  <2> QED
    BY <2>3, <2>4
<1> QED
  BY <1>3, <1>6, <1>14, <1>17, <1>18

\* The lines of r are those of s at the positions x.
Chosen(r, x, s, L) ==
  /\ Len(r) = L
  /\ \A k \in 1..L : x[k] \in 1..Len(s)
  /\ \A k, l \in 1..L : k < l => x[k] < x[l]
  /\ \A k \in 1..L : r[k] = s[x[k]]

\* Lines at positions in order are a text that can be read off.
LEMMA ChosenAreRead ==
  ASSUME NEW S, NEW s \in Seq(S), NEW L \in Nat, NEW x, NEW r \in Seq(S), Chosen(r, x, s, L)
  PROVE  r \in Subsequences(s)
<1> USE DEF Chosen
<1> DEFINE e == [k \in 1..L |-> x[k]]
<1>1. e \in [1..L -> 1..Len(s)] /\ \A k \in 1..L : e[k] = x[k]
  OBVIOUS
<1> HIDE DEF e
<1>2. Embeds(e, 1..L, r, s)
  BY <1>1 DEF Embeds
<1>3. Lines(r, 1..L) = r
  BY LinesWhole
<1>4. Lines(r, 1..L) \in Subsequences(s)
  BY <1>2, EmbeddedIsRead
<1> QED
  BY <1>3, <1>4

\* What can be read off both texts is a choice of pairs of equal lines.
LEMMA ReadIsMatched ==
  ASSUME NEW S, NEW old \in Seq(S), NEW new \in Seq(S), NEW r, r \in Subsequences(old), r \in Subsequences(new)
  PROVE  \E M : Matches(M, old, new, 1, 1) /\ Len(M) = Len(r)
<1>1. PICK P \in SUBSET DOMAIN old : r = Lines(old, P)
  BY DEF Subsequences
<1>2. PICK Q \in SUBSET DOMAIN new : r = Lines(new, Q)
  BY DEF Subsequences
<1>3. DOMAIN old = 1..Len(old) /\ DOMAIN new = 1..Len(new)
  OBVIOUS
<1>4. P \in SUBSET (1..Len(old)) /\ Q \in SUBSET (1..Len(new))
  BY <1>1, <1>2, <1>3
<1>5. r \in Seq(S) /\ \E e : Embeds(e, 1..Len(r), r, old)
  BY <1>1, <1>4, LinesStand
<1>6. \E d : Embeds(d, 1..Len(r), r, new)
  BY <1>2, <1>4, LinesStand
<1>7. PICK e, d : Embeds(e, 1..Len(r), r, old) /\ Embeds(d, 1..Len(r), r, new)
  BY <1>5, <1>6
<1>8. PICK L \in Nat : L = Len(r)
  BY <1>5
<1> DEFINE M == [k \in 1..L |-> <<e[k], d[k]>>]
<1>9. \A k \in 1..L : e[k] \in 1..Len(old) /\ d[k] \in 1..Len(new) /\ old[e[k]] = new[d[k]]
  BY <1>7, <1>8 DEF Embeds
<1>10. \A k, l \in 1..L : k < l => e[k] < e[l] /\ d[k] < d[l]
  BY <1>7, <1>8 DEF Embeds
<1>11. \A k \in 1..L : <<e[k], d[k]>> \in Nat \X Nat
  <2> SUFFICES ASSUME NEW k \in 1..L PROVE <<e[k], d[k]>> \in Nat \X Nat
    OBVIOUS
  <2>1. PICK u \in 1..Len(old), v \in 1..Len(new) : u = e[k] /\ v = d[k]
    BY <1>9
  <2>2. u \in Nat /\ v \in Nat
    OBVIOUS
  <2> QED
    BY <2>1, <2>2
<1>12. M \in [1..L -> Nat \X Nat]
  BY <1>11
<1>13. M \in Seq(Nat \X Nat) /\ Len(M) = L
  BY <1>12
<1>14. \A k \in 1..L : M[k][1] = e[k] /\ M[k][2] = d[k]
  OBVIOUS
<1> HIDE DEF M
<1>15. Matches(M, old, new, 1, 1)
  <2>1. \A k \in 1..L : M[k][1] \in 1..Len(old) /\ M[k][2] \in 1..Len(new) /\ old[M[k][1]] = new[M[k][2]]
    <3> SUFFICES ASSUME NEW k \in 1..L
                 PROVE  M[k][1] \in 1..Len(old) /\ M[k][2] \in 1..Len(new) /\ old[M[k][1]] = new[M[k][2]]
      OBVIOUS
    <3>1. M[k][1] = e[k] /\ M[k][2] = d[k]
      BY ONLY <1>14, k \in 1..L
    <3>2. e[k] \in 1..Len(old) /\ d[k] \in 1..Len(new) /\ old[e[k]] = new[d[k]]
      BY ONLY <1>9, k \in 1..L
    <3> QED
      BY ONLY <3>1, <3>2
  <2>2. \A k, l \in 1..L : k < l => M[k][1] < M[l][1] /\ M[k][2] < M[l][2]
    BY ONLY <1>10, <1>14
  <2> QED
    BY ONLY <1>13, <2>1, <2>2 DEF Matches
<1> QED
  BY <1>8, <1>13, <1>15

\* The diff is exact.
LEMMA DiffExact ==
  ASSUME NEW S, NEW old \in Seq(S), NEW new \in Seq(S), Len(old) * Len(new) <= CellCap
  PROVE  Len(Kept(old, new)) = Max({Len(part) : part \in Subsequences(old) \cap Subsequences(new)})
<1>1. PICK K : K = Kept(old, new)
  OBVIOUS
<1>2. Matches(K, old, new, 1, 1) /\ \A M : Matches(M, old, new, 1, 1) => Len(M) <= Len(K)
  BY <1>1, KeptFacts
<1>3. K \in Seq(Nat \X Nat)
  BY <1>2 DEF Matches
<1>4. PICK L \in Nat : L = Len(K)
  BY <1>3
<1> DEFINE r == [k \in 1..L |-> old[K[k][1]]]
           x == [k \in 1..L |-> K[k][1]]
           y == [k \in 1..L |-> K[k][2]]
           both == Subsequences(old) \cap Subsequences(new)
<1>5. /\ \A k \in 1..L : K[k][1] \in 1..Len(old) /\ K[k][2] \in 1..Len(new) /\ old[K[k][1]] = new[K[k][2]]
      /\ \A k, l \in 1..L : k < l => K[k][1] < K[l][1] /\ K[k][2] < K[l][2]
  BY <1>2, <1>4 DEF Matches
<1>6. r \in Seq(S) /\ Len(r) = L
  <2>1. \A k \in 1..L : old[K[k][1]] \in S
    BY <1>5
  <2>2. r \in [1..L -> S]
    BY <2>1
  <2> QED
    BY <2>2
<1>7. \A k \in 1..L : x[k] = K[k][1] /\ y[k] = K[k][2] /\ r[k] = old[K[k][1]]
  OBVIOUS
<1> HIDE DEF r, x, y
<1>8. /\ \A k \in 1..L : x[k] \in 1..Len(old)
      /\ \A k, l \in 1..L : k < l => x[k] < x[l]
      /\ \A k \in 1..L : r[k] = old[x[k]]
      /\ Len(r) = L
  BY <1>5, <1>6, <1>7
<1>9. /\ \A k \in 1..L : y[k] \in 1..Len(new)
      /\ \A k, l \in 1..L : k < l => y[k] < y[l]
      /\ \A k \in 1..L : r[k] = new[y[k]]
      /\ Len(r) = L
  BY <1>5, <1>6, <1>7
<1>10. r \in Subsequences(old)
  <2>1. Chosen(r, x, old, L)
    BY <1>8 DEF Chosen
  <2> QED
    BY <1>6, <2>1, ChosenAreRead
<1>11. r \in Subsequences(new)
  <2>1. Chosen(r, y, new, L)
    BY <1>9 DEF Chosen
  <2> QED
    BY <1>6, <2>1, ChosenAreRead
<1>12. \A part \in both : \E M : Matches(M, old, new, 1, 1) /\ Len(M) = Len(part)
  BY ReadIsMatched
<1>13. \A part \in both : Len(part) \in Nat /\ Len(part) <= L
  <2> SUFFICES ASSUME NEW part \in both PROVE Len(part) \in Nat /\ Len(part) <= L
    OBVIOUS
  <2>1. PICK M : Matches(M, old, new, 1, 1) /\ Len(M) = Len(part)
    BY <1>12
  <2>2. M \in Seq(Nat \X Nat)
    BY <2>1 DEF Matches
  <2> QED
    BY <1>2, <1>4, <2>1, <2>2
<1> DEFINE lengths == {Len(part) : part \in both}
<1>14. L \in lengths
  <2>1. r \in both
    BY <1>10, <1>11
  <2> HIDE DEF both
  <2> QED
    BY <1>6, <2>1
<1>15. lengths \in SUBSET Int /\ \A l \in lengths : l <= L
  <2> HIDE DEF both
  <2> QED
    BY <1>13
<1>16. Max(lengths) = L
  <2> HIDE DEF lengths
  <2> QED
    BY <1>14, <1>15, MaxIs
<1> QED
  BY <1>1, <1>4, <1>16

-----------------------------------------------------------------------------
(***************************************************************************)
(* The hunks between the lines kept.                                       *)
(***************************************************************************)

FromAt(f, new, kept, k) ==
  IF k = Len(kept) THEN <<>>
  ELSE IF Empty(Between(new, kept[k], kept[k + 1])) THEN f[k + 1]
  ELSE <<Between(new, kept[k], kept[k + 1])>> \o f[k + 1]

Froms(f, new, kept) == \A k \in 1..Len(kept) : f[k] = FromAt(f, new, kept, k)

\* The hunks from each line kept on.
LEMMA HunksFrom ==
  ASSUME NEW V1, NEW kept \in Seq(V1), Len(kept) # 0, NEW new
  PROVE  \E f : Froms(f, new, kept) /\ HunksBetween(new, kept) = f[1]
<1> DEFINE X == 1..Len(kept)
           W == {Between(new, kept[k], kept[k + 1]) : k \in X}
           V == Seq(W)
           D == CHOOSE f : f = [k \in X |-> FromAt(f, new, kept, k)]
           rank == [k \in X |-> Len(kept) - k]
           step == [k \in X |-> [f \in [X -> V] |-> FromAt(f, new, kept, k)]]
<1>1. HunksBetween(new, kept) = D[1]
  BY DEF HunksBetween, FromAt
<1>2. /\ Len(kept) \in Nat /\ rank \in [X -> 0..Len(kept)]
      /\ \A k \in X : rank[k] = Len(kept) - k /\ (k # Len(kept) => k + 1 \in X /\ rank[k + 1] < rank[k])
  OBVIOUS
<1>3. ASSUME NEW k \in X, NEW f, \A l \in X : rank[l] < rank[k] => f[l] \in V PROVE FromAt(f, new, kept, k) \in V
  <2>1. <<>> \in V /\ \A w \in W : <<w>> \in V
    OBVIOUS
  <2>2. \A q, r \in V : q \o r \in V
    OBVIOUS
  <2>3. Between(new, kept[k], kept[k + 1]) \in W
    OBVIOUS
  <2> HIDE DEF V, W, X, rank
  <2>4. k # Len(kept) => f[k + 1] \in V
    BY <1>2, <1>3
  <2> QED
    BY <2>1, <2>2, <2>3, <2>4 DEF FromAt
<1>4. ASSUME NEW k \in X, NEW f, NEW g, \A l \in X : rank[l] < rank[k] => f[l] = g[l]
      PROVE  FromAt(f, new, kept, k) = FromAt(g, new, kept, k)
  <2> HIDE DEF X, V, W, rank
  <2>1. k # Len(kept) => f[k + 1] = g[k + 1]
    BY <1>2, <1>4
  <2> QED
    BY <2>1 DEF FromAt
<1>5. IsRecursion(X, V, rank, step)
  <2>2. <<>> \in V
    OBVIOUS
  <2> HIDE DEF X, V, rank
  <2>1. step \in [X -> [[X -> V] -> V]]
    BY <1>3
  <2>3. ASSUME NEW c \in X, NEW f \in [X -> V], NEW g \in [X -> V], \A y \in X : rank[y] < rank[c] => f[y] = g[y]
        PROVE  step[c][f] = step[c][g]
    <3>1. step[c][f] = FromAt(f, new, kept, c) /\ step[c][g] = FromAt(g, new, kept, c)
      OBVIOUS
    <3> QED
      BY <1>4, <2>3, <3>1
  <2> HIDE DEF step
  <2> QED
    BY <1>2, <2>1, <2>2, <2>3 DEF IsRecursion
<1>6. \E f : f = [k \in X |-> FromAt(f, new, kept, k)]
  <2>1. PICK f \in [X -> V] : \A x \in X : f[x] = step[x][f]
    <3> HIDE DEF X, V, rank, step
    <3> QED
      BY <1>5, RecursionExists
  <2> HIDE DEF X, V
  <2>2. \A x \in X : f[x] = FromAt(f, new, kept, x)
    BY <2>1
  <2>3. f = [x \in X |-> f[x]]
    OBVIOUS
  <2> QED
    BY <2>2, <2>3
<1>7. D = [k \in X |-> FromAt(D, new, kept, k)]
  <2> HIDE DEF X
  <2> QED
    BY <1>6
<1>8. \A k \in X : D[k] = FromAt(D, new, kept, k)
  <2> HIDE DEF D, X
  <2> QED
    BY <1>7
<1> HIDE DEF D
<1> QED
  BY <1>1, <1>8 DEF Froms

-----------------------------------------------------------------------------
(***************************************************************************)
(* Hunks applied to a text.                                                *)
(***************************************************************************)

AfterAt(f, text, hunks, k) == IF k > Len(hunks) THEN text ELSE Replaced(f[k + 1], hunks[k])

Afters(f, text, hunks) == \A k \in 1..Len(hunks) + 1 : f[k] = AfterAt(f, text, hunks, k)

\* The texts after the last hunk, the last but one, and so on to the first.
LEMMA AppliedAfters ==
  ASSUME NEW W, NEW hunks \in Seq(W), NEW text
  PROVE  \E f : Afters(f, text, hunks) /\ Applied(text, hunks) = f[1]
<1>0. PICK L \in Nat : L = Len(hunks)
  OBVIOUS
<1> DEFINE X == 1..L + 1
           IsFrom(f, n) == f = [k \in X |-> f[k]] /\ \A k \in X : k > n => f[k] = AfterAt(f, text, hunks, k)
           T == {d \in Nat : d <= L + 1 => \E f : IsFrom(f, L + 1 - d)}
           D == CHOOSE f : f = [k \in X |-> AfterAt(f, text, hunks, k)]
<1>1. Applied(text, hunks) = D[1]
  BY <1>0 DEF Applied, AfterAt
<1>2. ASSUME NEW d \in Nat, \A c \in Nat : c < d => c \in T PROVE d \in T
  <2> SUFFICES ASSUME d <= L + 1 PROVE \E f : IsFrom(f, L + 1 - d)
    OBVIOUS
  <2>1. CASE d = 0
    <3> DEFINE f == [k \in X |-> text]
    <3>1. f = [k \in X |-> f[k]]
      OBVIOUS
    <3>2. \A k \in X : ~(k > L + 1)
      OBVIOUS
    <3> HIDE DEF f
    <3> QED
      BY <2>1, <3>1, <3>2
  <2>2. CASE d # 0
    <3>1. PICK n \in X : n = L + 1 - d + 1
      BY <2>2
    <3>2. d - 1 \in Nat /\ d - 1 < d /\ L + 1 - (d - 1) = n /\ d - 1 <= L + 1
      BY <2>2, <3>1
    <3>3. PICK f : IsFrom(f, n)
      BY <1>2, <3>2
    <3> DEFINE g == [k \in X |-> IF k = n THEN AfterAt(f, text, hunks, k) ELSE f[k]]
    <3>4. g = [k \in X |-> g[k]] /\ g[n] = AfterAt(f, text, hunks, n) /\ \A k \in X : k # n => g[k] = f[k]
      OBVIOUS
    <3> HIDE DEF g
    <3>5. \A k \in X : k >= n => AfterAt(g, text, hunks, k) = AfterAt(f, text, hunks, k)
      <4> SUFFICES ASSUME NEW k \in X, k >= n PROVE AfterAt(g, text, hunks, k) = AfterAt(f, text, hunks, k)
        OBVIOUS
      <4>1. CASE k > L
        BY <1>0, <4>1 DEF AfterAt
      <4>2. CASE k <= L
        <5>1. k + 1 \in X /\ k + 1 # n
          BY <4>2
        <5> QED
          BY <3>4, <5>1 DEF AfterAt
      <4> QED
        BY <4>1, <4>2
    <3>6. \A k \in X : k > L + 1 - d => k = n \/ k > n
      BY <3>1
    <3>7. \A k \in X : k > n => k >= n /\ k # n
      OBVIOUS
    <3>8. n >= n
      OBVIOUS
    <3>9. \A k \in X : k > L + 1 - d => g[k] = AfterAt(g, text, hunks, k)
      <4> HIDE DEF X
      <4> QED
        BY <3>3, <3>4, <3>5, <3>6, <3>7, <3>8
    <3> QED
      BY <3>4, <3>9
  <2> QED
    BY <2>1, <2>2
<1>3. L + 1 \in T
  <2> HIDE DEF T
  <2> QED
    BY <1>2, Induction
<1>4. \E f : f = [k \in X |-> AfterAt(f, text, hunks, k)]
  <2>1. PICK f : IsFrom(f, 0)
    BY <1>3
  <2>2. \A k \in X : k > 0
    OBVIOUS
  <2> HIDE DEF X
  <2> QED
    BY <2>1, <2>2
<1>5. D = [k \in X |-> AfterAt(D, text, hunks, k)]
  <2> HIDE DEF X
  <2> QED
    BY <1>4
<1>6. \A k \in X : D[k] = AfterAt(D, text, hunks, k)
  <2> HIDE DEF D, X
  <2> QED
    BY <1>5
<1> HIDE DEF D
<1> QED
  BY <1>0, <1>1, <1>6 DEF Afters

\* No hunk, no change.
LEMMA AppliedEmpty ==
  ASSUME NEW text
  PROVE  Applied(text, <<>>) = text
<1>1. <<>> \in Seq({}) /\ Len(<<>>) = 0
  OBVIOUS
<1>2. PICK f : Afters(f, text, <<>>) /\ Applied(text, <<>>) = f[1]
  BY <1>1, AppliedAfters
<1> QED
  BY <1>1, <1>2 DEF Afters, AfterAt

\* The first hunk is the last to be replaced.
LEMMA AppliedFirst ==
  ASSUME NEW W, NEW h \in W, NEW hunks \in Seq(W), NEW text
  PROVE  Applied(text, <<h>> \o hunks) = Replaced(Applied(text, hunks), h)
<1>1. PICK all \in Seq(W) : all = <<h>> \o hunks
  BY FirstFacts
<1>2. PICK L \in Nat : L = Len(hunks)
  OBVIOUS
<1>3. Len(all) = L + 1 /\ all[1] = h /\ \A k \in 1..L : all[k + 1] = hunks[k]
  BY <1>1, <1>2, FirstFacts
<1>4. PICK f : Afters(f, text, hunks) /\ Applied(text, hunks) = f[1]
  BY AppliedAfters
<1>5. PICK g : Afters(g, text, all) /\ Applied(text, all) = g[1]
  BY AppliedAfters
<1> DEFINE T == {d \in Nat : d <= L => g[L + 1 - d + 1] = f[L + 1 - d]}
<1>6. ASSUME NEW d \in Nat, \A c \in Nat : c < d => c \in T PROVE d \in T
  <2> SUFFICES ASSUME d <= L PROVE g[L + 1 - d + 1] = f[L + 1 - d]
    OBVIOUS
  <2>1. PICK n \in 1..L + 1 : n = L + 1 - d
    OBVIOUS
  <2>2. n \in 1..Len(hunks) + 1 /\ n + 1 \in 1..Len(all) + 1
    BY <1>2, <1>3
  <2>3. f[n] = AfterAt(f, text, hunks, n) /\ g[n + 1] = AfterAt(g, text, all, n + 1)
    BY <1>4, <1>5, <2>2 DEF Afters
  <2>4. CASE d = 0
    <3>1. n > Len(hunks) /\ n + 1 > Len(all)
      BY <1>2, <1>3, <2>1, <2>4
    <3> QED
      BY <2>1, <2>3, <3>1 DEF AfterAt
  <2>5. CASE d # 0
    <3>1. d - 1 \in Nat /\ d - 1 < d /\ d - 1 <= L /\ L + 1 - (d - 1) = n + 1
      BY <2>1, <2>5
    <3>a. PICK c \in Nat : c = d - 1
      BY <3>1
    <3>b. g[L + 1 - c + 1] = f[L + 1 - c]
      BY <1>6, <3>1, <3>a
    <3>c. L + 1 - c = n + 1
      BY <3>1, <3>a
    <3>2. g[n + 1 + 1] = f[n + 1]
      BY <3>b, <3>c
    <3>3. ~(n > Len(hunks)) /\ ~(n + 1 > Len(all)) /\ n \in 1..L
      BY <1>2, <1>3, <2>1, <2>5
    <3> QED
      BY <1>3, <2>1, <2>3, <3>2, <3>3 DEF AfterAt
  <2> QED
    BY <2>4, <2>5
<1>7. L \in T
  <2> HIDE DEF T
  <2> QED
    BY <1>6, Induction
<1>8. g[2] = f[1]
  <2>1. L + 1 - L + 1 = 2 /\ L + 1 - L = 1
    OBVIOUS
  <2> QED
    BY <1>7, <2>1
<1>9. g[1] = Replaced(g[2], h)
  <2>1. 1 \in 1..Len(all) + 1 /\ ~(1 > Len(all)) /\ 1 + 1 = 2
    BY <1>3
  <2> QED
    BY <1>3, <1>5, <2>1 DEF Afters, AfterAt
<1> QED
  BY <1>1, <1>4, <1>5, <1>8, <1>9

\* Hunks over texts of S.
HunkOf(S) == [start : Nat, end : Nat, text : Seq(S)]

\* Hunks in the order of a text of n lines, behind its first `first` lines.
InOrder(hunks, S, first, n) ==
  /\ hunks \in Seq(HunkOf(S))
  /\ \A k \in 1..Len(hunks) : first <= hunks[k].start /\ hunks[k].start <= hunks[k].end /\ hunks[k].end <= n
  /\ \A k, l \in 1..Len(hunks) : k < l => hunks[k].end <= hunks[l].start

\* A hunk before hunks that are in order.
LEMMA InOrderFirst ==
  ASSUME NEW S, NEW n \in Nat, NEW first \in Nat, NEW h \in HunkOf(S), NEW hunks,
         first <= h.start, h.start <= h.end, h.end <= n, NEW next \in Nat, h.end <= next, InOrder(hunks, S, next, n)
  PROVE  InOrder(<<h>> \o hunks, S, first, n)
<1>1. hunks \in Seq(HunkOf(S))
  BY DEF InOrder
<1>2. PICK L \in Nat : L = Len(hunks)
  BY <1>1
<1>3. PICK all \in Seq(HunkOf(S)) : all = <<h>> \o hunks
  BY <1>1, FirstFacts
<1>4. Len(all) = L + 1 /\ all[1] = h /\ \A k \in 1..L : all[k + 1] = hunks[k]
  BY <1>1, <1>2, <1>3, FirstFacts
<1>5. \A k \in 1..L : /\ hunks[k].start \in Nat /\ hunks[k].end \in Nat
                      /\ next <= hunks[k].start /\ hunks[k].start <= hunks[k].end /\ hunks[k].end <= n
                      /\ \A l \in 1..L : k < l => hunks[k].end <= hunks[l].start
  <2>1. \A k \in 1..L : hunks[k] \in HunkOf(S)
    BY <1>1, <1>2
  <2>2. \A k \in 1..L : hunks[k].start \in Nat /\ hunks[k].end \in Nat
    BY <2>1 DEF HunkOf
  <2> QED
    BY <1>2, <2>2 DEF InOrder
<1>6. h.start \in Nat /\ h.end \in Nat
  BY DEF HunkOf
<1>7. \A k \in 1..L + 1 : k = 1 \/ (\E l \in 1..L : k = l + 1)
  <2> SUFFICES ASSUME NEW k \in 1..L + 1, k # 1 PROVE \E l \in 1..L : k = l + 1
    OBVIOUS
  <2>1. k - 1 \in 1..L /\ k = (k - 1) + 1
    OBVIOUS
  <2> QED
    BY <2>1
<1>8. \A k \in 1..L + 1 : first <= all[k].start /\ all[k].start <= all[k].end /\ all[k].end <= n
  <2> SUFFICES ASSUME NEW k \in 1..L + 1
               PROVE  first <= all[k].start /\ all[k].start <= all[k].end /\ all[k].end <= n
    OBVIOUS
  <2>1. CASE k = 1
    BY <1>4, <2>1
  <2>2. CASE \E l \in 1..L : k = l + 1
    <3>1. PICK l \in 1..L : k = l + 1
      BY <2>2
    <3>2. all[k] = hunks[l]
      BY <1>4, <3>1
    <3> QED
      BY <1>5, <1>6, <3>2
  <2> QED
    BY <1>7, <2>1, <2>2
<1>9. \A k, l \in 1..L + 1 : k < l => all[k].end <= all[l].start
  <2> SUFFICES ASSUME NEW k \in 1..L + 1, NEW l \in 1..L + 1, k < l PROVE all[k].end <= all[l].start
    OBVIOUS
  <2>1. PICK j \in 1..L : l = j + 1
    BY <1>7
  <2>2. all[l] = hunks[j]
    BY <1>4, <2>1
  <2>3. CASE k = 1
    BY <1>4, <1>5, <1>6, <2>2, <2>3
  <2>4. CASE k # 1
    <3>1. PICK i \in 1..L : k = i + 1
      BY <1>7, <2>4
    <3>2. all[k] = hunks[i] /\ i < j
      BY <1>4, <2>1, <3>1
    <3> QED
      BY <1>5, <2>2, <3>2
  <2> QED
    BY <2>3, <2>4
<1> QED
  BY <1>3, <1>4, <1>8, <1>9 DEF InOrder

\* Hunks behind a line are behind every line before it.
LEMMA InOrderBehind ==
  ASSUME NEW S, NEW n \in Nat, NEW first \in Nat, NEW next \in Nat, first <= next, NEW hunks, InOrder(hunks, S, next, n)
  PROVE  InOrder(hunks, S, first, n)
<1>1. \A k \in 1..Len(hunks) : hunks[k].start \in Nat
  <2>1. \A k \in 1..Len(hunks) : hunks[k] \in HunkOf(S)
    BY DEF InOrder
  <2> QED
    BY <2>1 DEF HunkOf
<1>2. \A k \in 1..Len(hunks) : first <= hunks[k].start
  BY <1>1 DEF InOrder
<1> QED
  BY <1>2 DEF InOrder

\* The lines kept, between a line before both texts and a line behind both.
IsSpine(kept, old, new) ==
  /\ kept \in Seq(Nat \X Nat) /\ Len(kept) >= 2
  /\ kept[1][1] = 0 /\ kept[1][2] = 0
  /\ kept[Len(kept)][1] = Len(old) + 1 /\ kept[Len(kept)][2] = Len(new) + 1
  /\ \A k \in 1..Len(kept) - 1 :
       /\ kept[k][1] < kept[k + 1][1] /\ kept[k][2] < kept[k + 1][2]
       /\ kept[k][1] \in 0..Len(old) /\ kept[k][2] \in 0..Len(new)
       /\ k # 1 => kept[k][1] # 0 /\ kept[k][2] # 0 /\ old[kept[k][1]] = new[kept[k][2]]

Spine(K, old, new) == <<<<0, 0>>>> \o K \o <<<<Len(old) + 1, Len(new) + 1>>>>

\* The lines kept between the two ends of the texts.
LEMMA SpineFacts ==
  ASSUME NEW S, NEW old \in Seq(S), NEW new \in Seq(S), NEW K, Matches(K, old, new, 1, 1)
  PROVE  /\ IsSpine(Spine(K, old, new), old, new) /\ Len(Spine(K, old, new)) = Len(K) + 2
         /\ \A k \in 1..Len(K) : Spine(K, old, new)[k + 1] = K[k]
<1> DEFINE V == Nat \X Nat
<1>1. K \in Seq(V)
  BY DEF Matches
<1>2. PICK L \in Nat : L = Len(K)
  BY <1>1
<1>3. PICK n \in Nat, m \in Nat : n = Len(old) /\ m = Len(new)
  OBVIOUS
<1>4. PICK A : A = <<<<0, 0>>>>
  OBVIOUS
<1>5. PICK B : B = <<<<n + 1, m + 1>>>>
  OBVIOUS
<1>6. /\ A \in Seq(V) /\ Len(A) = 1 /\ A[1] = <<0, 0>>
      /\ B \in Seq(V) /\ Len(B) = 1 /\ B[1] = <<n + 1, m + 1>>
  BY <1>4, <1>5
<1>7. PICK AK \in Seq(V) : AK = A \o K
  BY <1>1, <1>6, ConcatProperties
<1>8. Len(AK) = L + 1 /\ AK[1] = <<0, 0>> /\ \A k \in 1..L : AK[k + 1] = K[k]
  <2>1. <<0, 0>> \in V
    OBVIOUS
  <2> HIDE DEF V
  <2> QED
    BY <1>1, <1>2, <1>4, <1>7, <2>1, FirstFacts
<1>9. PICK all \in Seq(V) : all = AK \o B
  BY <1>6, ConcatProperties
<1>10. Len(all) = L + 2 /\ all[L + 2] = <<n + 1, m + 1>> /\ \A k \in 1..L + 1 : all[k] = AK[k]
  <2> HIDE DEF V
  <2>1. /\ Len(AK \o B) = Len(AK) + Len(B)
        /\ \A i \in 1 .. Len(AK) + Len(B) : (AK \o B)[i] = IF i <= Len(AK) THEN AK[i] ELSE B[i - Len(AK)]
    BY <1>6, ConcatProperties
  <2>2. Len(AK) + Len(B) = L + 2 /\ L + 2 - (L + 1) = 1 /\ ~(L + 2 <= L + 1) /\ L + 2 \in 1..L + 2
    BY <1>6, <1>8
  <2>3. all[L + 2] = B[1]
    BY <1>8, <1>9, <2>1, <2>2
  <2>4. \A k \in 1..L + 1 : k \in 1..L + 2 /\ k <= L + 1
    OBVIOUS
  <2>5. \A k \in 1..L + 1 : all[k] = AK[k]
    BY <1>8, <1>9, <2>1, <2>2, <2>4
  <2> QED
    BY <1>6, <1>9, <2>1, <2>2, <2>3, <2>5
<1>11. all = Spine(K, old, new)
  BY <1>3, <1>4, <1>5, <1>7, <1>9 DEF Spine
<1>12. \A k \in 1..L : all[k + 1] = K[k]
  <2>1. \A k \in 1..L : k + 1 \in 1..L + 1
    OBVIOUS
  <2> QED
    BY <1>8, <1>10, <2>1
<1>13. all[1] = <<0, 0>>
  <2>1. 1 \in 1..L + 1
    OBVIOUS
  <2> QED
    BY <1>8, <1>10, <2>1
<1>14. \A k \in 1..L : /\ K[k][1] \in 1..n /\ K[k][2] \in 1..m /\ old[K[k][1]] = new[K[k][2]]
                       /\ \A l \in 1..L : k < l => K[k][1] < K[l][1] /\ K[k][2] < K[l][2]
  BY <1>2, <1>3 DEF Matches
<1>15. all[1][1] = 0 /\ all[1][2] = 0 /\ all[L + 2][1] = n + 1 /\ all[L + 2][2] = m + 1
  BY <1>10, <1>13
<1>16. ASSUME NEW k \in 1..L + 1
       PROVE  /\ all[k][1] < all[k + 1][1] /\ all[k][2] < all[k + 1][2]
              /\ all[k][1] \in 0..n /\ all[k][2] \in 0..m
              /\ k # 1 => all[k][1] # 0 /\ all[k][2] # 0 /\ old[all[k][1]] = new[all[k][2]]
  <2>1. CASE k = 1 /\ L = 0
    <3>1. all[1][1] = 0 /\ all[1][2] = 0 /\ all[2][1] = n + 1 /\ all[2][2] = m + 1
      BY <1>15, <2>1
    <3> QED
      BY <2>1, <3>1
  <2>2. CASE k = 1 /\ L # 0
    <3>1. 1 \in 1..L
      BY <2>2
    <3>2. all[2] = K[1]
      BY <1>12, <3>1
    <3>3. K[1][1] \in 1..n /\ K[1][2] \in 1..m
      BY <1>14, <3>1
    <3>4. PICK a \in 1..n, b \in 1..m : a = all[2][1] /\ b = all[2][2]
      BY <3>2, <3>3
    <3>5. 0 < a /\ 0 < b /\ 0 \in 0..n /\ 0 \in 0..m
      OBVIOUS
    <3>6. 1 + 1 = 2
      OBVIOUS
    <3> HIDE DEF V
    <3> QED
      BY <1>15, <2>2, <3>4, <3>5, <3>6
  <2>3. CASE k # 1 /\ k = L + 1
    <3>1. L \in 1..L
      BY <2>3
    <3>2. all[L + 1] = K[L] /\ all[k + 1] = all[L + 2]
      BY <1>12, <2>3, <3>1
    <3>3. K[L][1] \in 1..n /\ K[L][2] \in 1..m /\ old[K[L][1]] = new[K[L][2]]
      BY <1>14, <3>1
    <3>4. PICK a \in 1..n, b \in 1..m : a = all[k][1] /\ b = all[k][2] /\ old[a] = new[b]
      BY <2>3, <3>2, <3>3
    <3>5. a < n + 1 /\ b < m + 1 /\ a \in 0..n /\ b \in 0..m /\ a # 0 /\ b # 0
      OBVIOUS
    <3> HIDE DEF V
    <3> QED
      BY <1>15, <3>2, <3>4, <3>5
  <2>4. CASE k # 1 /\ k # L + 1
    <3>1. PICK j \in 1..L : k = j + 1 /\ j + 1 \in 1..L
      <4>1. k - 1 \in 1..L /\ k = (k - 1) + 1 /\ (k - 1) + 1 \in 1..L
        BY <2>4
      <4> QED
        BY <4>1
    <3>2. all[k] = K[j] /\ all[k + 1] = K[j + 1] /\ j < j + 1
      BY <1>12, <3>1
    <3>3. K[j][1] \in 1..n /\ K[j][2] \in 1..m /\ old[K[j][1]] = new[K[j][2]]
          /\ K[j][1] < K[j + 1][1] /\ K[j][2] < K[j + 1][2]
      BY <1>14, <3>1, <3>2
    <3>4. PICK a \in 1..n, b \in 1..m : a = all[k][1] /\ b = all[k][2] /\ old[a] = new[b]
      BY <3>2, <3>3
    <3>5. a \in 0..n /\ b \in 0..m /\ a # 0 /\ b # 0
      OBVIOUS
    <3>6. a < all[k + 1][1] /\ b < all[k + 1][2]
      BY <3>2, <3>3, <3>4
    <3> HIDE DEF V
    <3> QED
      BY <3>4, <3>5, <3>6
  <2> QED
    BY <2>1, <2>2, <2>3, <2>4
<1>17. Len(all) - 1 = L + 1 /\ Len(all) >= 2
  BY <1>10
<1>18. IsSpine(all, old, new)
  BY <1>3, <1>10, <1>15, <1>16, <1>17 DEF IsSpine
<1> QED
  BY <1>2, <1>10, <1>11, <1>12, <1>18

\* The lemmas on texts again, each under one name for what it asks of them.
Text(s, S) == s \in Seq(S)

TwoTexts(s, t, S) == s \in Seq(S) /\ t \in Seq(S)

ThreeTexts(s, t, u, S) == s \in Seq(S) /\ t \in Seq(S) /\ u \in Seq(S)

\* A text is all of itself.
LEMMA TextFacts ==
  ASSUME NEW S, NEW s, Text(s, S)
  PROVE  Copied(s, 0, Len(s)) = s /\ s \o <<>> = s /\ <<>> \o s = s /\ Len(s) \in Nat
<1>1. s \in Seq(S)
  BY DEF Text
<1> QED
  BY <1>1, CopiedAll, ConcatEmptySeq

\* One text behind another.
LEMMA TwoTextsFacts ==
  ASSUME NEW S, NEW s, NEW t, TwoTexts(s, t, S)
  PROVE  /\ s \o t \in Seq(S) /\ Len(s \o t) = Len(s) + Len(t)
         /\ \A i \in 1 .. Len(s) + Len(t) : (s \o t)[i] = IF i <= Len(s) THEN s[i] ELSE t[i - Len(s)]
<1>1. s \in Seq(S) /\ t \in Seq(S)
  BY DEF TwoTexts
<1> QED
  BY <1>1, ConcatProperties

\* Three texts in a row.
LEMMA ThreeTextsFacts ==
  ASSUME NEW S, NEW s, NEW t, NEW u, ThreeTexts(s, t, u, S)
  PROVE  (s \o t) \o u = s \o (t \o u)
<1>1. s \in Seq(S) /\ t \in Seq(S) /\ u \in Seq(S)
  BY DEF ThreeTexts
<1> QED
  BY <1>1, ConcatAssociative

Span(s, a, b, S) == s \in Seq(S) /\ a \in Nat /\ b \in Nat /\ a <= b /\ b <= Len(s)

\* What lies in a span.
LEMMA SpanFacts ==
  ASSUME NEW S, NEW s, NEW a \in Nat, NEW b \in Nat, Span(s, a, b, S)
  PROVE  /\ Copied(s, a, b) \in Seq(S) /\ Len(Copied(s, a, b)) = b - a
         /\ \A i \in 1..b - a : Copied(s, a, b)[i] = s[a + i]
         /\ a = b => Copied(s, a, b) = <<>>
<1>1. s \in Seq(S) /\ a \in Nat /\ b \in 0..Len(s) /\ a <= b
  BY DEF Span
<1>2. /\ Copied(s, a, b) \in Seq(S)
      /\ Len(Copied(s, a, b)) = IF a < b THEN b - a ELSE 0
      /\ \A i \in 1..b - a : Copied(s, a, b)[i] = s[a + i]
      /\ b <= a => Copied(s, a, b) = <<>>
  BY <1>1, CopiedFacts
<1>3. b - a \in Nat /\ (~(a < b) => b - a = 0) /\ (a = b => b <= a)
  BY <1>1
<1> QED
  BY <1>2, <1>3

\* Two spans in a row.
Spans(s, a, b, c, S) == s \in Seq(S) /\ a \in Nat /\ b \in Nat /\ c \in Nat /\ a <= b /\ b <= c /\ c <= Len(s)

\* Two spans in a row are one.
LEMMA SpansFacts ==
  ASSUME NEW S, NEW s, NEW a, NEW b, NEW c, Spans(s, a, b, c, S)
  PROVE  Copied(s, a, b) \o Copied(s, b, c) = Copied(s, a, c)
<1>1. s \in Seq(S) /\ a \in Nat /\ b \in Nat /\ c \in Nat /\ a <= b /\ b <= c /\ c <= Len(s)
  BY DEF Spans
<1> QED
  BY <1>1, CopiedJoins

\* A span before the seam of two texts, and what follows it.
LEMMA SeamFacts ==
  ASSUME NEW S, NEW s, NEW t, TwoTexts(s, t, S)
  PROVE  /\ \A a \in 0..Len(s) : Copied(s \o t, 0, a) = Copied(s, 0, a)
         /\ Copied(s \o t, Len(s), Len(s \o t)) = t
<1>1. s \in Seq(S) /\ t \in Seq(S) /\ Len(s) \in Nat /\ Len(t) \in Nat
  BY DEF TwoTexts
<1>2. ASSUME NEW a \in 0..Len(s) PROVE Copied(s \o t, 0, a) = Copied(s, 0, a)
  <2>1. a \in 0..Len(s) + Len(t) /\ a <= Len(s) /\ 0 \in Nat
    BY <1>1
  <2> QED
    BY <1>1, <2>1, CopiedOfTwo
<1>3. PICK n \in Nat, m \in Nat : n = Len(s) /\ m = Len(t) /\ Len(s \o t) = n + m
  BY <1>1, ConcatProperties
<1>4. n + m \in 0..Len(s) + Len(t) /\ Len(s) <= n /\ n - Len(s) = 0 /\ n + m - Len(s) = m /\ ~(n + m < Len(s))
  BY <1>3
<1>5. Copied(s \o t, n, n + m) = Copied(t, n - Len(s), IF n + m < Len(s) THEN 0 ELSE n + m - Len(s))
  BY <1>1, <1>4, CopiedOfTwo
<1>6. Copied(t, 0, Len(t)) = t
  BY <1>1, CopiedAll
<1> QED
  BY <1>2, <1>3, <1>4, <1>5, <1>6

\* The lines before a place, and the lines behind one.
LEMMA CopiedWhole ==
  ASSUME NEW S, NEW s \in Seq(S), NEW a \in 0..Len(s)
  PROVE  /\ Copied(s, 0, a) \in Seq(S) /\ Len(Copied(s, 0, a)) = a
         /\ Copied(s, a, Len(s)) \in Seq(S) /\ Len(Copied(s, a, Len(s))) = Len(s) - a
<1>1. a \in Nat /\ 0 \in Nat /\ Len(s) \in 0..Len(s)
  OBVIOUS
<1>2. Copied(s, 0, a) \in Seq(S) /\ Len(Copied(s, 0, a)) = IF 0 < a THEN a - 0 ELSE 0
  BY <1>1, CopiedFacts
<1>3. /\ Copied(s, a, Len(s)) \in Seq(S)
      /\ Len(Copied(s, a, Len(s))) = IF a < Len(s) THEN Len(s) - a ELSE 0
  BY <1>1, CopiedFacts
<1> QED
  BY <1>2, <1>3

\* A hunk turns a span of the old text into one of the new.
LEMMA SpanReplaced ==
  ASSUME NEW S, NEW old, NEW new, NEW a, NEW b, NEW c, NEW e, Span(old, a, b, S), Span(new, c, e, S)
  PROVE  Replaced(Copied(old, 0, b) \o Copied(new, e, Len(new)), Hunk(a, b, Copied(new, c, e)))
           = Copied(old, 0, a) \o Copied(new, c, Len(new))
<1>t. /\ old \in Seq(S) /\ a \in Nat /\ b \in 0..Len(old) /\ a <= b
      /\ new \in Seq(S) /\ c \in Nat /\ e \in 0..Len(new) /\ c <= e
  BY DEF Span
<1>0. PICK n \in Nat, m \in Nat : n = Len(old) /\ m = Len(new)
  BY <1>t
<1>a. Span(old, 0, b, S) /\ Span(new, e, m, S) /\ Span(old, 0, a, S) /\ Span(new, c, e, S)
  BY <1>0, <1>t DEF Span
<1>b. Spans(new, c, e, m, S) /\ Spans(old, 0, a, b, S)
  BY <1>0, <1>t DEF Spans
<1> DEFINE s == Copied(old, 0, b)
           t == Copied(new, e, m)
           x == Copied(old, 0, a)
           y == Copied(new, c, e)
           q == s \o t
<1>1. s \in Seq(S) /\ Len(s) = b /\ t \in Seq(S) /\ x \in Seq(S) /\ Len(x) = a /\ y \in Seq(S)
  <2>1. b - 0 = b /\ a - 0 = a /\ a \in Nat /\ b \in Nat /\ c \in Nat /\ e \in Nat /\ m \in Nat /\ 0 \in Nat
    BY <1>t
  <2>2. Copied(old, 0, b) \in Seq(S) /\ Len(Copied(old, 0, b)) = b - 0
    BY <1>t, <2>1, CopiedWhole
  <2>3. Copied(old, 0, a) \in Seq(S) /\ Len(Copied(old, 0, a)) = a - 0
    <3>1. a \in 0..Len(old)
      BY <1>t
    <3> QED
      BY <1>t, <2>1, <3>1, CopiedWhole
  <2>4. Copied(new, e, m) \in Seq(S)
    BY <1>a, <2>1, SpanFacts
  <2>5. Copied(new, c, e) \in Seq(S)
    BY <1>a, <2>1, SpanFacts
  <2> QED
    BY <2>1, <2>2, <2>3, <2>4, <2>5
<1>2. x \o Copied(old, a, b) = s /\ y \o t = Copied(new, c, m)
  BY <1>b, SpansFacts
<1>3. TwoTexts(s, t, S) /\ ThreeTexts(x, y, t, S)
  BY <1>1 DEF TwoTexts, ThreeTexts
<1> HIDE DEF s, t, x, y
<1>4. SubSeq(q, 1, a) = x
  <2>1. a \in 0..Len(s)
    BY <1>1, <1>t
  <2>2. Copied(q, 0, a) = Copied(s, 0, a)
    BY <1>3, <2>1, SeamFacts
  <2>3. Copied(old, a, b) \in Seq(S)
    <3>1. Span(old, a, b, S)
      BY <1>t DEF Span
    <3>2. a \in Nat /\ b \in Nat
      BY <1>t
    <3> QED
      BY <3>1, <3>2, SpanFacts
  <2>4. TwoTexts(x, Copied(old, a, b), S) /\ a \in 0..Len(x)
    BY <1>1, <1>t, <2>3 DEF TwoTexts
  <2>a. PICK z : z = Copied(old, a, b)
    OBVIOUS
  <2>b. TwoTexts(x, z, S) /\ s = x \o z
    BY <1>2, <2>4, <2>a
  <2>c. Copied(x \o z, 0, a) = Copied(x, 0, a)
    BY <2>4, <2>b, SeamFacts
  <2>5. Copied(s, 0, a) = Copied(x, 0, a)
    BY <2>b, <2>c
  <2>6. Text(x, S)
    BY <1>1 DEF Text
  <2>7. Copied(x, 0, a) = x
    BY <1>1, <2>6, TextFacts
  <2>8. SubSeq(q, 1, a) = Copied(q, 0, a)
    <3>1. 0 + 1 = 1
      OBVIOUS
    <3> QED
      BY <3>1 DEF Copied
  <2> QED
    BY <2>2, <2>5, <2>7, <2>8
<1>5. SubSeq(q, b + 1, Len(q)) = t
  <2>1. Copied(q, b, Len(q)) = t
    BY <1>1, <1>3, SeamFacts
  <2> QED
    BY <2>1 DEF Copied
<1>6. Replaced(q, Hunk(a, b, y)) = (x \o y) \o t
  <2>1. Hunk(a, b, y).start = a /\ Hunk(a, b, y).end = b /\ Hunk(a, b, y).text = y
    BY DEF Hunk
  <2> HIDE DEF q
  <2> QED
    BY <1>4, <1>5, <2>1 DEF Replaced
<1>7. (x \o y) \o t = x \o (y \o t)
  BY <1>3, ThreeTextsFacts
<1> QED
  BY <1>0, <1>2, <1>6, <1>7 DEF s, t, x, y

\* A line the texts share belongs to the one's head or to the other's tail.
LEMMA JoinsAt ==
  ASSUME NEW S, NEW old \in Seq(S), NEW new \in Seq(S),
         NEW p \in 1..Len(old), NEW q \in 1..Len(new), old[p] = new[q]
  PROVE  Copied(old, 0, p) \o Copied(new, q, Len(new)) = Copied(old, 0, p - 1) \o Copied(new, q - 1, Len(new))
<1>0. PICK n \in Nat, m \in Nat : n = Len(old) /\ m = Len(new)
  OBVIOUS
<1>1. PICK i \in Nat, j \in Nat : i = p - 1 /\ j = q - 1 /\ p = i + 1 /\ q = j + 1
  <2>1. p - 1 \in Nat /\ q - 1 \in Nat /\ p = p - 1 + 1 /\ q = q - 1 + 1
    OBVIOUS
  <2> QED
    BY <2>1
<1>a. Span(old, 0, i, S) /\ Span(old, i, p, S) /\ Span(new, j, q, S) /\ Span(new, q, m, S)
  BY <1>0, <1>1 DEF Span
<1>b. Spans(old, 0, i, p, S) /\ Spans(new, j, q, m, S)
  BY <1>0, <1>1 DEF Spans
<1> DEFINE u == Copied(old, 0, i)
           x == Copied(old, i, p)
           y == Copied(new, j, q)
           v == Copied(new, q, m)
<1>2. u \in Seq(S) /\ x \in Seq(S) /\ y \in Seq(S) /\ v \in Seq(S)
  BY <1>a, SpanFacts
<1>3. Len(x) = 1 /\ x[1] = old[p] /\ Len(y) = 1 /\ y[1] = new[q]
  <2>1. Span(old, i, p, S) /\ Span(new, j, q, S)
    BY <1>a
  <2> HIDE DEF u, v
  <2>2. Len(x) = p - i /\ \A k \in 1..p - i : x[k] = old[i + k]
    <3>1. Span(old, i, p, S)
      BY <2>1
    <3>2. /\ Len(Copied(old, i, p)) = p - i
          /\ \A k \in 1..p - i : Copied(old, i, p)[k] = old[i + k]
      BY ONLY <3>1, SpanFacts
    <3> QED
      BY ONLY <3>2 DEF x
  <2>3. Len(y) = q - j /\ \A k \in 1..q - j : y[k] = new[j + k]
    <3>1. Span(new, j, q, S)
      BY <2>1
    <3>2. /\ Len(Copied(new, j, q)) = q - j
          /\ \A k \in 1..q - j : Copied(new, j, q)[k] = new[j + k]
      BY ONLY <3>1, SpanFacts
    <3> QED
      BY ONLY <3>2 DEF y
  <2>4. p - i = 1 /\ q - j = 1 /\ 1 \in 1..1
    BY <1>1
  <2>5. old[i + 1] = old[p] /\ new[j + 1] = new[q]
    BY <1>1
  <2> HIDE DEF x, y
  <2>6. x[1] = old[i + 1] /\ y[1] = new[j + 1]
    BY ONLY <2>2, <2>3, <2>4
  <2> QED
    BY ONLY <2>2, <2>3, <2>4, <2>5, <2>6
<1>4. u \o x = Copied(old, 0, p) /\ y \o v = Copied(new, j, m)
  <2>1. Spans(old, 0, i, p, S)
    BY <1>b
  <2>2. Spans(new, j, q, m, S)
    BY <1>b
  <2>3. Copied(old, 0, i) \o Copied(old, i, p) = Copied(old, 0, p)
    BY ONLY <2>1, SpansFacts
  <2>4. Copied(new, j, q) \o Copied(new, q, m) = Copied(new, j, m)
    BY ONLY <2>2, SpansFacts
  <2> QED
    BY ONLY <2>3, <2>4 DEF u, v, x, y
<1>5. x = y
  <2> HIDE DEF x, y
  <2>0. \A k \in 1..1 : k = 1
    OBVIOUS
  <2>1. \A k \in 1..Len(x) : x[k] = y[k]
    <3>1. x[1] = y[1]
      BY <1>3
    <3> QED
      BY ONLY <1>3, <2>0, <3>1
  <2>2. x \in Seq(S) /\ y \in Seq(S) /\ Len(x) = Len(y)
    BY <1>2, <1>3
  <2> QED
    BY ONLY <2>1, <2>2, SeqEqual
<1>6. (u \o x) \o v = u \o (x \o v)
  <2>1. ThreeTexts(u, x, v, S)
    BY <1>2 DEF ThreeTexts
  <2> HIDE DEF u, x, v
  <2> QED
    BY ONLY <2>1, ThreeTextsFacts
<1> QED
  BY <1>0, <1>1, <1>4, <1>5, <1>6

\* What lies between two lines kept: the lines a+1..b of the old text, c+1..e of
\* the new one.
Gap(a, b, c, e, old, new, kept, k, S) ==
  /\ a \in 0..Len(old) /\ b \in 0..Len(old) /\ c \in 0..Len(new) /\ e \in 0..Len(new)
  /\ a = kept[k][1] /\ c = kept[k][2] /\ b + 1 = kept[k + 1][1] /\ e + 1 = kept[k + 1][2]
  /\ a <= b /\ c <= e /\ Between(new, kept[k], kept[k + 1]) = Hunk(a, b, Copied(new, c, e))
  /\ Hunk(a, b, Copied(new, c, e)) \in HunkOf(S)

\* Between two lines kept lies one span of either text, and the hunk is of those.
LEMMA BetweenFacts ==
  ASSUME NEW S, NEW old \in Seq(S), NEW new \in Seq(S), NEW kept, IsSpine(kept, old, new),
         NEW k \in 1..Len(kept) - 1
  PROVE  \E a, b, c, e : Gap(a, b, c, e, old, new, kept, k, S)
<1>1. PICK n \in Nat, m \in Nat, L \in Nat : n = Len(old) /\ m = Len(new) /\ L = Len(kept)
  BY DEF IsSpine
<1>2. PICK a \in 0..n, c \in 0..m : a = kept[k][1] /\ c = kept[k][2]
  BY <1>1 DEF IsSpine
<1>3. PICK x \in 1..n + 1, y \in 1..m + 1 : x = kept[k + 1][1] /\ y = kept[k + 1][2] /\ a < x /\ c < y
  <2>1. a < kept[k + 1][1] /\ c < kept[k + 1][2]
    BY <1>2 DEF IsSpine
  <2>2. CASE k + 1 = L
    <3>1. kept[k + 1][1] = n + 1 /\ kept[k + 1][2] = m + 1
      BY <1>1, <2>2 DEF IsSpine
    <3>2. n + 1 \in 1..n + 1 /\ m + 1 \in 1..m + 1
      OBVIOUS
    <3> QED
      BY <2>1, <3>1, <3>2
  <2>3. CASE k + 1 # L
    <3>1. k + 1 \in 1..Len(kept) - 1
      BY <1>1, <2>3
    <3>2. kept[k + 1][1] \in 0..n /\ kept[k + 1][2] \in 0..m
      BY <1>1, <3>1 DEF IsSpine
    <3>3. PICK x \in 0..n, y \in 0..m : x = kept[k + 1][1] /\ y = kept[k + 1][2]
      BY <3>2
    <3>4. x \in 1..n + 1 /\ y \in 1..m + 1
      <4>1. a < x /\ c < y
        BY <2>1, <3>3
      <4>2. n \in Nat /\ m \in Nat /\ x \in 0..n /\ y \in 0..m /\ a \in Nat /\ c \in Nat
        OBVIOUS
      <4> QED
        BY ONLY <4>1, <4>2
    <3> QED
      BY <2>1, <3>3, <3>4
  <2> QED
    BY <2>2, <2>3
<1>4. PICK b \in 0..n, e \in 0..m : b = x - 1 /\ e = y - 1 /\ a <= b /\ c <= e /\ b + 1 = x /\ e + 1 = y
  <2>a. n \in Nat /\ x \in 1..n + 1 /\ a \in 0..n /\ a < x /\ m \in Nat /\ y \in 1..m + 1 /\ c \in 0..m /\ c < y
    BY <1>1, <1>2, <1>3
  <2>1. x - 1 \in 0..n /\ a <= x - 1 /\ x - 1 + 1 = x
    BY ONLY <2>a
  <2>2. y - 1 \in 0..m /\ c <= y - 1 /\ y - 1 + 1 = y
    BY ONLY <2>a
  <2> QED
    BY <2>1, <2>2
<1>5. Between(new, kept[k], kept[k + 1]) = Hunk(a, b, Copied(new, c, e))
  BY <1>2, <1>3, <1>4 DEF Between, Copied
<1>6. Hunk(a, b, Copied(new, c, e)) \in HunkOf(S)
  <2>1. c \in Nat /\ e \in 0..Len(new) /\ a \in Nat /\ b \in Nat
    BY <1>1
  <2>2. Copied(new, c, e) \in Seq(S)
    BY <2>1, CopiedFacts
  <2> QED
    BY <2>1, <2>2 DEF Hunk, HunkOf
<1>7. Gap(a, b, c, e, old, new, kept, k, S)
  BY <1>1, <1>2, <1>3, <1>4, <1>5, <1>6 DEF Gap
<1> QED
  BY <1>7

\* The hunks between lines kept are in order and turn the old text into the new.
LEMMA SpineRebuilds ==
  ASSUME NEW S, NEW old \in Seq(S), NEW new \in Seq(S), NEW kept, IsSpine(kept, old, new)
  PROVE  InOrder(HunksBetween(new, kept), S, 0, Len(old)) /\ Applied(old, HunksBetween(new, kept)) = new
<1>1. PICK L \in Nat : L = Len(kept) /\ L >= 2
  <2>1. kept \in Seq(Nat \X Nat) /\ Len(kept) >= 2
    BY DEF IsSpine
  <2>2. Len(kept) \in Nat
    BY <2>1, LenProperties
  <2> QED
    BY <2>1, <2>2
<1>2. PICK f : Froms(f, new, kept) /\ HunksBetween(new, kept) = f[1]
  <2>1. kept \in Seq(Nat \X Nat) /\ Len(kept) # 0
    BY <1>1 DEF IsSpine
  <2> QED
    BY <2>1, HunksFrom
<1>3. PICK n \in Nat, m \in Nat : n = Len(old) /\ m = Len(new)
  OBVIOUS
<1> DEFINE Good(k) == /\ InOrder(f[k], S, kept[k][1], n)
                      /\ Applied(old, f[k]) = Copied(old, 0, kept[k][1]) \o Copied(new, kept[k][2], m)
           Rest1(k) == /\ InOrder(f[k], S, kept[k][1] - 1, n)
                       /\ Applied(old, f[k]) = Copied(old, 0, kept[k][1] - 1) \o Copied(new, kept[k][2] - 1, m)
           T == {d \in Nat : d < L - 1 => Good(L - 1 - d)}
<1>4. Rest1(L)
  <2>0. L \in 1..Len(kept)
    BY <1>1
  <2>a. f[L] = FromAt(f, new, kept, L)
    BY <1>2, <2>0 DEF Froms
  <2>1. f[L] = <<>>
    BY <1>1, <2>a DEF FromAt
  <2>2. kept[L][1] - 1 = n /\ kept[L][2] - 1 = m
    <3>1. kept[L][1] = n + 1 /\ kept[L][2] = m + 1
      BY <1>1, <1>3 DEF IsSpine
    <3> QED
      BY <3>1
  <2>3. InOrder(<<>>, S, n, n)
    BY DEF InOrder
  <2>4. Applied(old, <<>>) = old
    BY AppliedEmpty
  <2>5. Copied(old, 0, n) = old /\ Copied(new, m, m) = <<>>
    <3>1. m \in 0..Len(new) /\ m <= m
      BY <1>3
    <3>2. Copied(new, m, m) = <<>>
      BY <3>1, CopiedFacts
    <3> QED
      BY <1>3, <3>2, CopiedAll
  <2>6. old \o <<>> = old
    BY ConcatEmptySeq
  <2> QED
    BY <2>1, <2>2, <2>3, <2>4, <2>5, <2>6
<1>5. ASSUME NEW k \in 1..L - 1, k # 1, Good(k) PROVE Rest1(k)
  <2>1. k \in 1..Len(kept) - 1
    BY <1>1
  <2>2. PICK a \in 0..n, c \in 0..m : a = kept[k][1] /\ c = kept[k][2]
    BY <1>3, <2>1 DEF IsSpine
  <2>3. a \in 1..Len(old) /\ c \in 1..Len(new) /\ old[a] = new[c]
    <3>1. a # 0 /\ c # 0 /\ old[a] = new[c]
      BY <1>5, <2>1, <2>2 DEF IsSpine
    <3> QED
      BY <1>3, <3>1
  <2>4. Copied(old, 0, a) \o Copied(new, c, m) = Copied(old, 0, a - 1) \o Copied(new, c - 1, m)
    BY <1>3, <2>3, JoinsAt
  <2>5. a - 1 \in Nat /\ a - 1 <= a /\ a \in Nat
    BY <2>3
  <2>6. InOrder(f[k], S, a, n)
    BY <1>5, <2>2
  <2>7. InOrder(f[k], S, a - 1, n)
    BY <2>5, <2>6, InOrderBehind
  <2> QED
    BY <1>5, <2>2, <2>4, <2>7
<1>6. ASSUME NEW k \in 1..L - 1, Rest1(k + 1) PROVE Good(k)
  <2>0. k \in 1..Len(kept) - 1 /\ k \in 1..Len(kept) /\ k # Len(kept)
    BY <1>1
  <2>1. PICK a \in 0..Len(old), b \in 0..Len(old), c \in 0..Len(new), e \in 0..Len(new) :
           /\ a = kept[k][1] /\ c = kept[k][2] /\ b + 1 = kept[k + 1][1] /\ e + 1 = kept[k + 1][2]
           /\ a <= b /\ c <= e /\ Between(new, kept[k], kept[k + 1]) = Hunk(a, b, Copied(new, c, e))
           /\ Hunk(a, b, Copied(new, c, e)) \in HunkOf(S)
    <3>1. PICK a, b, c, e : Gap(a, b, c, e, old, new, kept, k, S)
      BY <2>0, BetweenFacts
    <3> QED
      BY <3>1 DEF Gap
  <2>2. kept[k + 1][1] - 1 = b /\ kept[k + 1][2] - 1 = e
    <3>1. PICK x, y : x = kept[k + 1][1] /\ y = kept[k + 1][2] /\ x = b + 1 /\ y = e + 1
      BY <2>1
    <3>2. x - 1 = b /\ y - 1 = e
      <4>1. b + 1 - 1 = b /\ e + 1 - 1 = e
        OBVIOUS
      <4>2. x = b + 1 /\ y = e + 1
        BY <3>1
      <4> QED
        BY ONLY <4>1, <4>2
    <3> QED
      BY <3>1, <3>2
  <2>3. InOrder(f[k + 1], S, b, n) /\ Applied(old, f[k + 1]) = Copied(old, 0, b) \o Copied(new, e, m)
    BY <1>6, <2>2
  <2>4. PICK h \in HunkOf(S) : h = Hunk(a, b, Copied(new, c, e)) /\ h.start = a /\ h.end = b /\ h.text = Copied(new, c, e)
    BY <2>1 DEF Hunk
  <2>5. f[k] = IF Empty(h) THEN f[k + 1] ELSE <<h>> \o f[k + 1]
    BY <1>2, <2>0, <2>1, <2>4 DEF Froms, FromAt
  <2>6. CASE Empty(h)
    <3>1. a = b /\ Copied(new, c, e) = <<>>
      BY <2>4, <2>6 DEF Empty
    <3>2. Len(Copied(new, c, e)) = IF c < e THEN e - c ELSE 0
      <4>1. c \in Nat
        OBVIOUS
      <4> QED
        BY <4>1, CopiedFacts
    <3>3. c = e
      BY <2>1, <3>1, <3>2
    <3> QED
      BY <2>1, <2>3, <2>5, <2>6, <3>1, <3>3
  <2>7. CASE ~Empty(h)
    <3>1. f[k] = <<h>> \o f[k + 1]
      BY <2>5, <2>7
    <3>2. f[k + 1] \in Seq(HunkOf(S))
      BY <2>3 DEF InOrder
    <3>3. Applied(old, f[k]) = Replaced(Applied(old, f[k + 1]), h)
      BY <3>1, <3>2, AppliedFirst
    <3>4. a \in Nat /\ c \in Nat
      OBVIOUS
    <3>5. Replaced(Copied(old, 0, b) \o Copied(new, e, m), h) = Copied(old, 0, a) \o Copied(new, c, m)
      <4>1. a <= b /\ c <= e /\ h = Hunk(a, b, Copied(new, c, e))
        BY <2>1, <2>4
      <4>2. Replaced(Copied(old, 0, b) \o Copied(new, e, Len(new)), Hunk(a, b, Copied(new, c, e)))
              = Copied(old, 0, a) \o Copied(new, c, Len(new))
        <5>1. Span(old, a, b, S) /\ Span(new, c, e, S)
          BY <3>4, <4>1 DEF Span
        <5> QED
          BY <5>1, SpanReplaced
      <4> QED
        BY <1>3, <4>1, <4>2
    <3>6. a <= h.start /\ h.start <= h.end /\ h.end <= n /\ h.end <= b /\ b \in Nat
      BY <1>3, <2>1, <2>4
    <3>7. InOrder(<<h>> \o f[k + 1], S, a, n)
      BY <2>3, <3>4, <3>6, InOrderFirst
    <3> QED
      BY <2>1, <2>3, <3>1, <3>3, <3>5, <3>7
  <2> QED
    BY <2>6, <2>7
<1> HIDE DEF Good, Rest1
<1>7. ASSUME NEW d \in Nat, \A c \in Nat : c < d => c \in T PROVE d \in T
  <2> SUFFICES ASSUME d < L - 1 PROVE Good(L - 1 - d)
    OBVIOUS
  <2>1. PICK k \in 1..L - 1 : k = L - 1 - d
    OBVIOUS
  <2>2. CASE d = 0
    <3>1. k + 1 = L
      BY <2>1, <2>2
    <3> QED
      BY <1>4, <1>6, <2>1, <3>1
  <2>3. CASE d # 0
    <3>1. PICK c \in Nat : c = d - 1
      BY <2>3
    <3>2. c < d /\ c < L - 1 /\ L - 1 - c = k + 1 /\ k + 1 \in 1..L - 1 /\ k + 1 # 1
      BY <2>1, <2>3, <3>1
    <3>3. Good(L - 1 - c)
      BY <1>7, <3>2
    <3>4. Good(k + 1)
      BY <3>2, <3>3
    <3>5. Rest1(k + 1)
      BY <1>5, <3>2, <3>4
    <3> QED
      BY <1>6, <2>1, <3>5
  <2> QED
    BY <2>2, <2>3
<1>8. PICK d \in Nat : d = L - 2
  BY <1>1
<1>9. d \in T
  <2> HIDE DEF T
  <2> QED
    BY <1>7, Induction
<1>10. Good(1)
  <2>1. d < L - 1 /\ L - 1 - d = 1
    BY <1>1, <1>8
  <2>2. Good(L - 1 - d)
    BY <1>9, <2>1
  <2> QED
    BY <2>1, <2>2
<1>11. kept[1][1] = 0 /\ kept[1][2] = 0
  BY DEF IsSpine
<1>12. Copied(old, 0, 0) = <<>> /\ Copied(new, 0, m) = new
  <2>1. 0 \in 0..Len(old) /\ 0 \in Nat /\ 0 <= 0
    OBVIOUS
  <2>2. Copied(old, 0, 0) = <<>>
    BY <2>1, CopiedFacts
  <2> QED
    BY <1>3, <2>2, CopiedAll
<1>13. <<>> \o new = new
  BY ConcatEmptySeq
<1> QED
  BY <1>2, <1>3, <1>10, <1>11, <1>12, <1>13 DEF Good

\* The hunks of the diff.
LEMMA HunksFacts ==
  ASSUME NEW S, NEW old \in Seq(S), NEW new \in Seq(S)
  PROVE  InOrder(Hunks(old, new), S, 0, Len(old)) /\ Applied(old, Hunks(old, new)) = new
<1>1. Matches(Kept(old, new), old, new, 1, 1)
  BY KeptFacts
<1>2. IsSpine(Spine(Kept(old, new), old, new), old, new)
  BY <1>1, SpineFacts
<1>3. Hunks(old, new) = HunksBetween(new, Spine(Kept(old, new), old, new))
  BY DEF Hunks, Spine
<1> QED
  BY <1>2, <1>3, SpineRebuilds

-----------------------------------------------------------------------------
(***************************************************************************)
(* The merge: the hunk that comes next.                                    *)
(***************************************************************************)

\* The lines u stand in w, one behind the other.
Stands(u, w, S) == u \in Seq(S) /\ \E x, y \in Seq(S) : w = (x \o u) \o y

\* A text stands in itself.
LEMMA StandsAlone ==
  ASSUME NEW S, NEW u, Text(u, S)
  PROVE  Stands(u, u, S)
<1>1. u \in Seq(S) /\ <<>> \in Seq(S)
  BY DEF Text
<1>2. u = (<<>> \o u) \o <<>>
  BY TextFacts
<1> QED
  BY <1>1, <1>2 DEF Stands

\* What stands in a text stands in it with another behind.
LEMMA StandsBefore ==
  ASSUME NEW S, NEW u, NEW w, NEW p, Stands(u, w, S), Text(p, S)
  PROVE  Stands(u, w \o p, S)
<1>1. PICK x \in Seq(S), y \in Seq(S) : w = (x \o u) \o y /\ u \in Seq(S)
  BY DEF Stands
<1>2. x \o u \in Seq(S) /\ p \in Seq(S)
  <2>1. TwoTexts(x, u, S)
    BY <1>1 DEF TwoTexts
  <2> QED
    BY <2>1, TwoTextsFacts DEF Text
<1> DEFINE v == x \o u
<1>3. ThreeTexts(v, y, p, S) /\ TwoTexts(y, p, S)
  BY <1>1, <1>2 DEF ThreeTexts, TwoTexts
<1>4. (v \o y) \o p = v \o (y \o p) /\ y \o p \in Seq(S)
  <2> HIDE DEF v
  <2>1. (v \o y) \o p = v \o (y \o p)
    BY <1>3, ThreeTextsFacts
  <2>2. y \o p \in Seq(S)
    BY <1>3, TwoTextsFacts
  <2> QED
    BY <2>1, <2>2
<1> QED
  BY <1>1, <1>4 DEF Stands

\* What stands in a text stands in it with another before.
LEMMA StandsBehind ==
  ASSUME NEW S, NEW u, NEW w, NEW p, Stands(u, w, S), Text(p, S)
  PROVE  Stands(u, p \o w, S)
<1>1. PICK x \in Seq(S), y \in Seq(S) : w = (x \o u) \o y /\ u \in Seq(S)
  BY DEF Stands
<1>2. p \in Seq(S)
  BY DEF Text
<1> DEFINE v == x \o u
           px == p \o x
<1>3. v \in Seq(S) /\ px \in Seq(S)
  <2>1. TwoTexts(x, u, S) /\ TwoTexts(p, x, S)
    BY <1>1, <1>2 DEF TwoTexts
  <2>2. v \in Seq(S)
    BY <2>1, TwoTextsFacts
  <2>3. px \in Seq(S)
    BY <2>1, TwoTextsFacts
  <2> QED
    BY <2>2, <2>3
<1>4. ThreeTexts(p, v, y, S) /\ ThreeTexts(p, x, u, S)
  BY <1>1, <1>2, <1>3 DEF ThreeTexts
<1>5. (p \o v) \o y = p \o (v \o y)
  <2> HIDE DEF v, px
  <2> QED
    BY <1>4, ThreeTextsFacts
<1>6. (p \o x) \o u = p \o (x \o u)
  <2> HIDE DEF v, px
  <2> QED
    BY <1>4, ThreeTextsFacts
<1>7. p \o w = (px \o u) \o y
  BY <1>1, <1>5, <1>6
<1> HIDE DEF px
<1> QED
  BY <1>1, <1>3, <1>7 DEF Stands

\* Both sides' lines stand in what is written for a span both replaced.
LEMMA SharedHolds ==
  ASSUME NEW S, NEW u, NEW v, TwoTexts(u, v, S)
  PROVE  Shared(u, v) \in Seq(S) /\ Stands(u, Shared(u, v), S) /\ Stands(v, Shared(u, v), S)
<1>1. u \in Seq(S) /\ v \in Seq(S)
  BY DEF TwoTexts
<1>2. Stands(u, u, S) /\ Stands(v, v, S) /\ Text(u, S) /\ Text(v, S)
  BY <1>1, StandsAlone DEF Text
<1>3. Stands(u, u \o v, S) /\ Stands(v, u \o v, S) /\ u \o v \in Seq(S)
  <2>1. u \o v \in Seq(S)
    BY TwoTextsFacts
  <2> QED
    BY <1>2, <2>1, StandsBefore, StandsBehind
<1>4. ASSUME NEW s \in Seq(S), NEW t \in Seq(S), IsPrefix(s, t) PROVE Stands(s, t, S)
  <2>1. PICK n \in Nat, m \in Nat : n = Len(s) /\ m = Len(t) /\ n <= m
    BY <1>4 DEF IsPrefix
  <2>2. SubSeq(s, 1, n) = SubSeq(t, 1, n)
    BY <1>4, <2>1 DEF IsPrefix
  <2>3. SubSeq(s, 1, n) = s
    BY <2>1, SubSeqFull
  <2>4. SubSeq(t, 1, n) = Copied(t, 0, n)
    <3>1. 0 + 1 = 1
      OBVIOUS
    <3> QED
      BY <3>1 DEF Copied
  <2>5. Spans(t, 0, n, m, S) /\ Span(t, n, m, S) /\ Text(s, S) /\ Text(t, S)
    BY <2>1 DEF Spans, Span, Text
  <2>6. Copied(t, 0, n) \o Copied(t, n, m) = Copied(t, 0, m)
    BY <2>5, SpansFacts
  <2>7. Copied(t, 0, m) = t
    BY <2>1, <2>5, TextFacts
  <2>8. Copied(t, n, m) \in Seq(S)
    BY <2>5, SpanFacts
  <2>9. Stands(s, s, S)
    BY <2>5, StandsAlone
  <2>10. Text(Copied(t, n, m), S)
    BY <2>8 DEF Text
  <2>11. Stands(s, s \o Copied(t, n, m), S)
    BY <2>9, <2>10, StandsBefore
  <2> QED
    BY <2>2, <2>3, <2>4, <2>6, <2>7, <2>11
<1> QED
  BY <1>1, <1>2, <1>3, <1>4 DEF Shared

\* What a step of the merge takes.
IsStep(next, mine, his, i, j, n, S) ==
  /\ next.hunk \in HunkOf(S) /\ next.hunk.start <= next.hunk.end /\ next.hunk.end <= n
  /\ next.ours \in 0..1 /\ next.theirs \in 0..1 /\ (next.ours = 1 \/ next.theirs = 1)
  /\ next.ours = 1 => i <= Len(mine) /\ Stands(mine[i].text, next.hunk.text, S)
  /\ next.theirs = 1 => j <= Len(his) /\ Stands(his[j].text, next.hunk.text, S)
  /\ \A p \in Nat : next.hunk.start < p /\ p <= next.hunk.end =>
       \/ next.ours = 1 /\ mine[i].start < p /\ p <= mine[i].end
       \/ next.theirs = 1 /\ his[j].start < p /\ p <= his[j].end

\* Of one side, or of both: over their spans, with what both wrote.
LEMMA StepOfOne ==
  ASSUME NEW S, NEW mine, NEW his, NEW i, NEW j, NEW n \in Nat, NEW h \in HunkOf(S), h.start <= h.end, h.end <= n
  PROVE  /\ i <= Len(mine) /\ h = mine[i] => IsStep(Takes(h, 1, 0), mine, his, i, j, n, S)
         /\ j <= Len(his) /\ h = his[j] => IsStep(Takes(h, 0, 1), mine, his, i, j, n, S)
<1>1. /\ Takes(h, 1, 0).hunk = h /\ Takes(h, 1, 0).ours = 1 /\ Takes(h, 1, 0).theirs = 0
      /\ Takes(h, 0, 1).hunk = h /\ Takes(h, 0, 1).ours = 0 /\ Takes(h, 0, 1).theirs = 1
  BY DEF Takes
<1>2. Text(h.text, S)
  BY DEF HunkOf, Text
<1>3. Stands(h.text, h.text, S)
  BY <1>2, StandsAlone
<1> QED
  BY <1>1, <1>3 DEF IsStep

\* Of both sides: over nothing but their spans, with what either wrote.
LEMMA StepOfBoth ==
  ASSUME NEW S, NEW mine, NEW his, NEW i, NEW j, NEW n \in Nat,
         NEW o \in HunkOf(S), NEW t \in HunkOf(S), NEW h \in HunkOf(S),
         i <= Len(mine), j <= Len(his), o = mine[i], t = his[j],
         h.start <= h.end, h.end <= n, Stands(o.text, h.text, S), Stands(t.text, h.text, S),
         \A p \in Nat : h.start < p /\ p <= h.end => (o.start < p /\ p <= o.end) \/ (t.start < p /\ p <= t.end)
  PROVE  IsStep(Takes(h, 1, 1), mine, his, i, j, n, S)
<1>1. Takes(h, 1, 1).hunk = h /\ Takes(h, 1, 1).ours = 1 /\ Takes(h, 1, 1).theirs = 1
  BY DEF Takes
<1> QED
  BY <1>1 DEF IsStep

\* The hunk that comes next lies over spans of hunks it is of, and holds what they wrote.
LEMMA ComingFacts ==
  ASSUME NEW S, NEW n \in Nat, NEW mine, NEW his, InOrder(mine, S, 0, n), InOrder(his, S, 0, n),
         NEW i \in 1..Len(mine) + 1, NEW j \in 1..Len(his) + 1, ~(i > Len(mine) /\ j > Len(his))
  PROVE  IsStep(Coming(mine, his, i, j), mine, his, i, j, n, S)
<1>1. PICK lm \in Nat, lh \in Nat : lm = Len(mine) /\ lh = Len(his)
  BY DEF InOrder
<1> DEFINE o == mine[i]
           t == his[j]
<1>2. ASSUME i <= lm PROVE o \in HunkOf(S) /\ o.start <= o.end /\ o.end <= n
  <2>1. i \in 1..Len(mine)
    BY <1>1, <1>2
  <2> QED
    BY <2>1 DEF InOrder
<1>3. ASSUME j <= lh PROVE t \in HunkOf(S) /\ t.start <= t.end /\ t.end <= n
  <2>1. j \in 1..Len(his)
    BY <1>1, <1>3
  <2> QED
    BY <2>1 DEF InOrder
<1>4. CASE j > lh
  <2>1. i <= lm /\ i <= Len(mine)
    BY <1>1, <1>4
  <2>2. Coming(mine, his, i, j) = Takes(mine[i], 1, 0)
    BY <1>1, <1>4 DEF Coming
  <2>3. IsStep(Takes(o, 1, 0), mine, his, i, j, n, S)
    BY <1>2, <2>1, StepOfOne
  <2> QED
    BY <2>2, <2>3
<1>5. CASE ~(j > lh) /\ i > lm
  <2>1. j <= lh /\ j <= Len(his)
    BY <1>1, <1>5
  <2>2. Coming(mine, his, i, j) = Takes(his[j], 0, 1)
    BY <1>1, <1>5 DEF Coming
  <2>3. IsStep(Takes(t, 0, 1), mine, his, i, j, n, S)
    BY <1>3, <2>1, StepOfOne
  <2> QED
    BY <2>2, <2>3
<1>6. CASE ~(j > lh) /\ ~(i > lm)
  <2>1. j <= lh /\ j <= Len(his) /\ i <= lm /\ i <= Len(mine) /\ ~(j > Len(his)) /\ ~(i > Len(mine))
    BY <1>1, <1>6
  <2>2. /\ o \in HunkOf(S) /\ o.start <= o.end /\ o.end <= n
        /\ t \in HunkOf(S) /\ t.start <= t.end /\ t.end <= n
    BY <1>2, <1>3, <2>1
  <2>3. o.start \in Nat /\ o.end \in Nat /\ t.start \in Nat /\ t.end \in Nat /\ TwoTexts(o.text, t.text, S)
    BY <2>2 DEF HunkOf, TwoTexts
  <2>4. Coming(mine, his, i, j) =
          IF Before(o, t) THEN Takes(o, 1, 0)
          ELSE IF Before(t, o) THEN Takes(t, 0, 1)
          ELSE IF o.start = t.start /\ o.end = t.end
          THEN Takes(Hunk(o.start, o.end, Shared(o.text, t.text)), 1, 1)
          ELSE Takes(Overlap(o, t), 1, 1)
    BY <2>1 DEF Coming
  <2>o. IsStep(Takes(o, 1, 0), mine, his, i, j, n, S)
    BY <2>1, <2>2, StepOfOne
  <2>t. IsStep(Takes(t, 0, 1), mine, his, i, j, n, S)
    BY <2>1, <2>2, StepOfOne
  <2>5. CASE ~Before(o, t) /\ ~Before(t, o) /\ o.start = t.start /\ o.end = t.end
    <3> DEFINE h == Hunk(o.start, o.end, Shared(o.text, t.text))
    <3>1. /\ Shared(o.text, t.text) \in Seq(S)
          /\ Stands(o.text, Shared(o.text, t.text), S) /\ Stands(t.text, Shared(o.text, t.text), S)
      BY <2>3, SharedHolds
    <3>2. h \in HunkOf(S) /\ h.start = o.start /\ h.end = o.end /\ h.text = Shared(o.text, t.text)
      BY <2>3, <3>1 DEF Hunk, HunkOf
    <3> HIDE DEF h
    <3>3. \A p \in Nat : h.start < p /\ p <= h.end => (o.start < p /\ p <= o.end) \/ (t.start < p /\ p <= t.end)
      BY <3>2
    <3>4. IsStep(Takes(h, 1, 1), mine, his, i, j, n, S)
      <4> HIDE DEF o, t
      <4>1. o = mine[i] /\ t = his[j]
        BY DEF o, t
      <4> QED
        BY <2>1, <2>2, <3>1, <3>2, <3>3, <4>1, StepOfBoth
    <3> QED
      BY <2>4, <2>5, <3>4 DEF h
  <2>6. CASE ~Before(o, t) /\ ~Before(t, o) /\ ~(o.start = t.start /\ o.end = t.end)
    <3> DEFINE h == Overlap(o, t)
    <3> HIDE DEF o, t
    <3>1. Text(o.text, S) /\ Text(t.text, S) /\ o.text \o t.text \in Seq(S)
      <4>1. o.text \o t.text \in Seq(S)
        BY <2>3, TwoTextsFacts
      <4> QED
        BY <2>3, <4>1 DEF Text, TwoTexts
    <3>2. Stands(o.text, o.text, S) /\ Stands(t.text, t.text, S)
      BY <3>1, StandsAlone
    <3>3. Stands(o.text, o.text \o t.text, S)
      BY <3>1, <3>2, StandsBefore
    <3>4. Stands(t.text, o.text \o t.text, S)
      BY <3>1, <3>2, StandsBehind
    <3>5. PICK a \in Nat, b \in Nat : /\ a = Min({o.start, t.start}) /\ a = IF o.start <= t.start THEN o.start ELSE t.start
                                      /\ b = Max({o.end, t.end}) /\ b = IF o.end >= t.end THEN o.end ELSE t.end
      <4>1. o.start \in Int /\ t.start \in Int /\ o.end \in Int /\ t.end \in Int
        BY <2>3
      <4>2. Min({o.start, t.start}) = IF o.start <= t.start THEN o.start ELSE t.start
        BY <4>1, MinOfTwo
      <4>3. Max({o.end, t.end}) = IF o.end >= t.end THEN o.end ELSE t.end
        BY <4>1, MaxOfTwo
      <4> QED
        BY <2>3, <4>2, <4>3
    <3>6. h \in HunkOf(S) /\ h.start = a /\ h.end = b /\ h.text = o.text \o t.text
      BY <3>1, <3>5 DEF Hunk, HunkOf, Overlap
    <3> HIDE DEF h
    <3>7. a <= b /\ b <= n
      <4>1. PICK os \in Nat, oe \in Nat, ts \in Nat, te \in Nat :
              os = o.start /\ oe = o.end /\ ts = t.start /\ te = t.end
        BY <2>3
      <4>2. os <= oe /\ ts <= te /\ oe <= n /\ te <= n
        BY <2>2, <4>1
      <4>3. a = (IF os <= ts THEN os ELSE ts) /\ b = (IF oe >= te THEN oe ELSE te)
        BY <3>5, <4>1
      <4> QED
        BY <4>2, <4>3
    <3>8. o.start = t.start \/ (t.start < o.end /\ o.start < t.end)
      BY <2>3, <2>6 DEF Before
    <3>9. \A p \in Nat : a < p /\ p <= b => (o.start < p /\ p <= o.end) \/ (t.start < p /\ p <= t.end)
      <4> SUFFICES ASSUME NEW p \in Nat, a < p, p <= b PROVE (o.start < p /\ p <= o.end) \/ (t.start < p /\ p <= t.end)
        OBVIOUS
      <4>1. PICK os \in Nat, oe \in Nat, ts \in Nat, te \in Nat :
              os = o.start /\ oe = o.end /\ ts = t.start /\ te = t.end
        BY <2>3
      <4>2. (os = ts \/ (ts < oe /\ os < te)) /\ os <= oe /\ ts <= te
        BY <2>2, <3>8, <4>1
      <4>3. a = (IF os <= ts THEN os ELSE ts) /\ b = (IF oe >= te THEN oe ELSE te)
        BY <3>5, <4>1
      <4>4. (os < p /\ p <= oe) \/ (ts < p /\ p <= te)
        BY <4>2, <4>3
      <4> QED
        BY <4>1, <4>4
    <3>10. \A p \in Nat : h.start < p /\ p <= h.end => (o.start < p /\ p <= o.end) \/ (t.start < p /\ p <= t.end)
      BY <3>6, <3>9
    <3>11. IsStep(Takes(h, 1, 1), mine, his, i, j, n, S)
      <4>1. o = mine[i] /\ t = his[j]
        BY DEF o, t
      <4>2. h.start <= h.end /\ h.end <= n /\ Stands(o.text, h.text, S) /\ Stands(t.text, h.text, S)
        BY <3>3, <3>4, <3>6, <3>7
      <4> QED
        BY <2>1, <2>2, <3>6, <3>10, <4>1, <4>2, StepOfBoth
    <3> QED
      BY <2>4, <2>6, <3>11 DEF h
  <2> HIDE DEF o, t
  <2> QED
    BY <2>4, <2>5, <2>6, <2>o, <2>t
<1> QED
  BY <1>1, <1>4, <1>5, <1>6

-----------------------------------------------------------------------------
\* The merge from each pair of hunks on.

IsLast(mine, his, c) == c[1] > Len(mine) /\ c[2] > Len(his)

ComingAt(mine, his, c) == Coming(mine, his, c[1], c[2])

PlaceAfter(mine, his, c) ==
  <<c[1] + ComingAt(mine, his, c).ours, c[2] + ComingAt(mine, his, c).theirs, ComingAt(mine, his, c).hunk.end>>

JoinAt(f, from, mine, his, c) ==
  IF IsLast(mine, his, c) THEN Copied(from, c[3], Len(from))
  ELSE Copied(from, c[3], ComingAt(mine, his, c).hunk.start) \o ComingAt(mine, his, c).hunk.text
         \o f[PlaceAfter(mine, his, c)]

Places(from, mine, his) == (1..Len(mine) + 1) \X (1..Len(his) + 1) \X (0..Len(from))

PlaceRank(from, mine, his) ==
  [c \in Places(from, mine, his) |-> (Len(mine) + 1 - c[1]) + (Len(his) + 1 - c[2])]

Joins(f, from, mine, his, S) ==
  \A c \in Places(from, mine, his) : f[c] = JoinAt(f, from, mine, his, c) /\ f[c] \in Seq(S)

\* Both sides' hunks are in order over the text they were cut from.
TwoSides(from, mine, his, S) ==
  from \in Seq(S) /\ InOrder(mine, S, 0, Len(from)) /\ InOrder(his, S, 0, Len(from))

\* The step from a place that is not the last leads to a place of lower rank.
LEMMA PlaceFacts ==
  ASSUME NEW S, NEW from, NEW mine, NEW his, TwoSides(from, mine, his, S)
  PROVE  /\ PlaceRank(from, mine, his) \in [Places(from, mine, his) -> 0..(Len(mine) + Len(his))]
         /\ Len(mine) + Len(his) \in Nat
         /\ <<1, 1, 0>> \in Places(from, mine, his)
         /\ \A c \in Places(from, mine, his) :
              /\ c[1] \in 1..Len(mine) + 1 /\ c[2] \in 1..Len(his) + 1 /\ c[3] \in 0..Len(from)
              /\ c = <<c[1], c[2], c[3]>>
              /\ ~IsLast(mine, his, c) =>
                   /\ IsStep(ComingAt(mine, his, c), mine, his, c[1], c[2], Len(from), S)
                   /\ PlaceAfter(mine, his, c) \in Places(from, mine, his)
                   /\ PlaceRank(from, mine, his)[PlaceAfter(mine, his, c)] < PlaceRank(from, mine, his)[c]
<1>1. PICK lm \in Nat, lh \in Nat, n \in Nat : lm = Len(mine) /\ lh = Len(his) /\ n = Len(from)
  BY DEF TwoSides, InOrder
<1> DEFINE X == Places(from, mine, his)
           rank == PlaceRank(from, mine, his)
<1>2. X = (1..lm + 1) \X (1..lh + 1) \X (0..n)
  BY <1>1 DEF Places
<1>3. \A i \in 1..lm + 1 : \A j \in 1..lh + 1 : \A p \in 0..n : <<i, j, p>> \in X /\ rank[<<i, j, p>>] = (lm + 1 - i) + (lh + 1 - j)
  <2> SUFFICES ASSUME NEW i \in 1..lm + 1, NEW j \in 1..lh + 1, NEW p \in 0..n
               PROVE  <<i, j, p>> \in X /\ rank[<<i, j, p>>] = (lm + 1 - i) + (lh + 1 - j)
    OBVIOUS
  <2>1. <<i, j, p>> \in X
    BY <1>2
  <2>2. <<i, j, p>>[1] = i /\ <<i, j, p>>[2] = j
    OBVIOUS
  <2> QED
    BY <1>1, <2>1, <2>2 DEF PlaceRank
<1>4. \A c \in X : \E i \in 1..lm + 1 : \E j \in 1..lh + 1 : \E p \in 0..n : c = <<i, j, p>>
  BY <1>2
<1>5. ASSUME NEW c \in X
      PROVE  /\ c[1] \in 1..Len(mine) + 1 /\ c[2] \in 1..Len(his) + 1 /\ c[3] \in 0..Len(from)
             /\ rank[c] \in 0..(Len(mine) + Len(his))
             /\ c = <<c[1], c[2], c[3]>>
             /\ ~IsLast(mine, his, c) =>
                  /\ IsStep(ComingAt(mine, his, c), mine, his, c[1], c[2], Len(from), S)
                  /\ PlaceAfter(mine, his, c) \in X /\ rank[PlaceAfter(mine, his, c)] < rank[c]
  <2>1. PICK i \in 1..lm + 1, j \in 1..lh + 1, p \in 0..n : c = <<i, j, p>>
    BY <1>4
  <2>2. c[1] = i /\ c[2] = j /\ c[3] = p /\ c = <<c[1], c[2], c[3]>>
    BY <2>1
  <2>3. rank[c] = (lm + 1 - i) + (lh + 1 - j)
    BY <1>3, <2>1
  <2>4. rank[c] \in 0..(lm + lh)
    BY <2>3
  <2> HIDE DEF X, rank
  <2>5. ASSUME ~IsLast(mine, his, c)
        PROVE  /\ IsStep(ComingAt(mine, his, c), mine, his, i, j, Len(from), S)
               /\ PlaceAfter(mine, his, c) \in X /\ rank[PlaceAfter(mine, his, c)] < rank[c]
    <3>0. ~(i > lm /\ j > lh)
      BY <1>1, <2>2, <2>5 DEF IsLast
    <3>1. PICK next : next = Coming(mine, his, i, j) /\ next = ComingAt(mine, his, c)
      BY <2>2 DEF ComingAt
    <3>2. IsStep(next, mine, his, i, j, n, S)
      <4>1. InOrder(mine, S, 0, n) /\ InOrder(his, S, 0, n)
        BY <1>1 DEF TwoSides
      <4>2. i \in 1..Len(mine) + 1 /\ j \in 1..Len(his) + 1 /\ ~(i > Len(mine) /\ j > Len(his))
        BY <1>1, <3>0
      <4> QED
        BY <3>1, <4>1, <4>2, ComingFacts
    <3>a. PICK e : e = next.hunk.end
      OBVIOUS
    <3>3. PICK u \in 0..1, v \in 0..1 : u = next.ours /\ v = next.theirs /\ e = next.hunk.end
      BY <3>2, <3>a DEF IsStep
    <3>4. e \in 0..n
      <4>1. next.hunk \in HunkOf(S) /\ next.hunk.end <= n
        BY <3>2 DEF IsStep
      <4>2. next.hunk.end \in Nat
        BY <4>1 DEF HunkOf
      <4> QED
        BY <3>3, <4>1, <4>2
    <3>5. (u = 1 \/ v = 1) /\ (u = 1 => i <= lm) /\ (v = 1 => j <= lh)
      BY <1>1, <3>2, <3>3 DEF IsStep
    <3>6. i + u \in 1..lm + 1 /\ j + v \in 1..lh + 1 /\ (lm + 1 - (i + u)) + (lh + 1 - (j + v)) < (lm + 1 - i) + (lh + 1 - j)
      BY <3>5
    <3>7. <<i + u, j + v, e>> \in X /\ rank[<<i + u, j + v, e>>] = (lm + 1 - (i + u)) + (lh + 1 - (j + v))
      BY <1>3, <3>4, <3>6
    <3>8. PlaceAfter(mine, his, c) = <<i + u, j + v, e>>
      BY <2>2, <3>1, <3>3 DEF PlaceAfter
    <3>9. IsStep(ComingAt(mine, his, c), mine, his, i, j, Len(from), S)
      BY <1>1, <3>1, <3>2
    <3>10. rank[<<i + u, j + v, e>>] < rank[c]
      BY <2>3, <3>6, <3>7
    <3> QED
      BY <3>7, <3>8, <3>9, <3>10
  <2> QED
    BY <1>1, <2>2, <2>4, <2>5
<1>6. rank \in [X -> 0..(Len(mine) + Len(his))]
  <2>1. rank = [c \in X |-> rank[c]]
    BY DEF PlaceRank
  <2> HIDE DEF X, rank
  <2> QED
    BY <1>5, <2>1
<1>7. <<1, 1, 0>> \in X /\ Len(mine) + Len(his) \in Nat
  BY <1>1, <1>2
<1> QED
  BY <1>5, <1>6, <1>7

\* The merge holds what its recursion says, from every place on.
LEMMA JoinedJoins ==
  ASSUME NEW S, NEW from, NEW mine, NEW his, TwoSides(from, mine, his, S)
  PROVE  \E f : Joins(f, from, mine, his, S) /\ Joined(from, mine, his) = f[<<1, 1, 0>>]
<1> DEFINE X == Places(from, mine, his)
           V == Seq(S)
           D == CHOOSE f : f = [c \in X |-> JoinAt(f, from, mine, his, c)]
           rank == PlaceRank(from, mine, his)
           step == [c \in X |-> [f \in [X -> V] |-> JoinAt(f, from, mine, his, c)]]
<1>1. Joined(from, mine, his) = D[<<1, 1, 0>>]
  BY DEF Joined, JoinAt, Places, IsLast, ComingAt, PlaceAfter
<1>0. from \in Seq(S)
  BY DEF TwoSides
<1>2. /\ rank \in [X -> 0..(Len(mine) + Len(his))] /\ Len(mine) + Len(his) \in Nat /\ <<1, 1, 0>> \in X
      /\ \A c \in X : /\ c[3] \in 0..Len(from)
                      /\ ~IsLast(mine, his, c) => /\ IsStep(ComingAt(mine, his, c), mine, his, c[1], c[2], Len(from), S)
                                     /\ PlaceAfter(mine, his, c) \in X /\ rank[PlaceAfter(mine, his, c)] < rank[c]
  BY PlaceFacts
<1>3. ASSUME NEW c \in X, NEW f, \A d \in X : rank[d] < rank[c] => f[d] \in V PROVE JoinAt(f, from, mine, his, c) \in V
  <2>1. CASE IsLast(mine, his, c)
    <3>1. c[3] \in Nat /\ Len(from) \in 0..Len(from)
      <4>1. Len(from) \in Nat
        BY <1>0
      <4>2. c[3] \in 0..Len(from)
        BY <1>2
      <4> HIDE DEF X
      <4> QED
        BY <4>1, <4>2
    <3>2. Copied(from, c[3], Len(from)) \in V
      BY <1>0, <3>1, CopiedFacts
    <3> QED
      BY <2>1, <3>2 DEF JoinAt
  <2>2. CASE ~IsLast(mine, his, c)
    <3>1. IsStep(ComingAt(mine, his, c), mine, his, c[1], c[2], Len(from), S) /\ PlaceAfter(mine, his, c) \in X /\ rank[PlaceAfter(mine, his, c)] < rank[c]
      BY <1>2, <2>2
    <3>2. f[PlaceAfter(mine, his, c)] \in V
      <4> HIDE DEF X, V, rank
      <4> QED
        BY <1>3, <3>1
    <3>3. ComingAt(mine, his, c).hunk \in HunkOf(S) /\ ComingAt(mine, his, c).hunk.start <= ComingAt(mine, his, c).hunk.end /\ ComingAt(mine, his, c).hunk.end <= Len(from)
      BY <3>1 DEF IsStep
    <3>4. ComingAt(mine, his, c).hunk.text \in V /\ ComingAt(mine, his, c).hunk.start \in 0..Len(from)
      <4>1. Len(from) \in Nat
        BY <1>0
      <4> QED
        BY <3>3, <4>1 DEF HunkOf
    <3>5. c[3] \in Nat
      <4>1. c[3] \in 0..Len(from)
        BY <1>2
      <4> HIDE DEF X
      <4> QED
        BY <4>1
    <3>6. Copied(from, c[3], ComingAt(mine, his, c).hunk.start) \in V
      BY <1>0, <3>4, <3>5, CopiedFacts
    <3>7. \A p, q, r \in V : p \o q \o r \in V
      OBVIOUS
    <3> HIDE DEF V
    <3> QED
      BY <2>2, <3>2, <3>4, <3>6, <3>7 DEF JoinAt
  <2> QED
    BY <2>1, <2>2
<1>4. ASSUME NEW c \in X, NEW f, NEW g, \A d \in X : rank[d] < rank[c] => f[d] = g[d]
      PROVE  JoinAt(f, from, mine, his, c) = JoinAt(g, from, mine, his, c)
  <2>1. ~IsLast(mine, his, c) => f[PlaceAfter(mine, his, c)] = g[PlaceAfter(mine, his, c)]
    <3> HIDE DEF X, V, rank
    <3> QED
      BY <1>2, <1>4
  <2> HIDE DEF X, V, rank
  <2> QED
    BY <2>1 DEF JoinAt
<1>5. IsRecursion(X, V, rank, step)
  <2>2. <<>> \in V
    OBVIOUS
  <2> HIDE DEF X, V, rank
  <2>1. step \in [X -> [[X -> V] -> V]]
    BY <1>3
  <2>3. ASSUME NEW c \in X, NEW f \in [X -> V], NEW g \in [X -> V], \A y \in X : rank[y] < rank[c] => f[y] = g[y]
        PROVE  step[c][f] = step[c][g]
    <3>1. step[c][f] = JoinAt(f, from, mine, his, c) /\ step[c][g] = JoinAt(g, from, mine, his, c)
      OBVIOUS
    <3> QED
      BY <1>4, <2>3, <3>1
  <2> HIDE DEF step
  <2> QED
    BY <1>2, <2>1, <2>2, <2>3 DEF IsRecursion
<1>6. \E f : f = [c \in X |-> JoinAt(f, from, mine, his, c)]
  <2>1. PICK f \in [X -> V] : \A x \in X : f[x] = step[x][f]
    <3> HIDE DEF X, V, rank, step
    <3> QED
      BY <1>5, RecursionExists
  <2> HIDE DEF X, V
  <2>2. \A x \in X : f[x] = JoinAt(f, from, mine, his, x)
    BY <2>1
  <2>3. f = [x \in X |-> f[x]]
    OBVIOUS
  <2> QED
    BY <2>2, <2>3
<1>7. D = [c \in X |-> JoinAt(D, from, mine, his, c)]
  <2> HIDE DEF X
  <2> QED
    BY <1>6
<1>8. \A c \in X : D[c] = JoinAt(D, from, mine, his, c)
  <2> HIDE DEF D, X
  <2> QED
    BY <1>7
<1> HIDE DEF D
<1>9. \A c \in X : D[c] \in V
  <2> DEFINE T == {c \in X : D[c] \in V}
  <2>1. IsHereditary(X, rank, T)
    <3> HIDE DEF X, V, rank
    <3>1. ASSUME NEW x \in X, \A y \in X : rank[y] < rank[x] => y \in T PROVE x \in T
      <4>1. \A y \in X : rank[y] < rank[x] => D[y] \in V
        BY <3>1
      <4> QED
        BY <1>3, <1>8, <4>1
    <3> HIDE DEF T
    <3> QED
      BY <1>2, <3>1 DEF IsHereditary
  <2>2. \A x \in X : x \in T
    <3> HIDE DEF X, V, rank, T
    <3> QED
      BY <2>1, RankInduction
  <2> QED
    BY <2>2
<1> QED
  BY <1>1, <1>8, <1>9 DEF Joins

\* A span of a head is replaced, whatever stands behind the head.
Reaches(h, old, a, b, rest, S) ==
  Span(old, a, b, S) /\ h \in HunkOf(S) /\ h.start = a /\ h.end = b /\ rest \in Seq(S)

\* A hunk replaced in a text whose end is rewritten already.
LEMMA ReplacedAtSeam ==
  ASSUME NEW S, NEW old, NEW a, NEW b, NEW h, NEW rest, Reaches(h, old, a, b, rest, S)
  PROVE  Replaced(Copied(old, 0, b) \o rest, h) = (Copied(old, 0, a) \o h.text) \o rest
<1>t. old \in Seq(S) /\ a \in Nat /\ b \in 0..Len(old) /\ a <= b /\ a \in 0..Len(old) /\ rest \in Seq(S)
      /\ h.start = a /\ h.end = b
  BY DEF Span, Reaches
<1> DEFINE s == Copied(old, 0, b)
           x == Copied(old, 0, a)
           z == Copied(old, a, b)
           q == s \o rest
<1>1. s \in Seq(S) /\ Len(s) = b
  BY <1>t, CopiedWhole
<1>2. x \in Seq(S) /\ Len(x) = a
  BY <1>t, CopiedWhole
<1>3. z \in Seq(S)
  <2>1. b \in Nat /\ a \in Nat /\ Span(old, a, b, S)
    BY <1>t DEF Reaches
  <2> QED
    BY ONLY <2>1, SpanFacts DEF z
<1>4. x \o z = s
  <2>1. Spans(old, 0, a, b, S)
    BY <1>t DEF Spans
  <2> QED
    BY <2>1, SpansFacts
<1>5. TwoTexts(s, rest, S) /\ TwoTexts(x, z, S) /\ Text(x, S)
  BY <1>1, <1>2, <1>3, <1>t DEF TwoTexts, Text
<1> HIDE DEF s, x, z
<1>6. SubSeq(q, 1, a) = x
  <2>1. a \in 0..Len(s) /\ a \in 0..Len(x)
    BY <1>1, <1>2, <1>t
  <2>2. Copied(q, 0, a) = Copied(s, 0, a)
    BY <1>5, <2>1, SeamFacts
  <2>3. Copied(x \o z, 0, a) = Copied(x, 0, a)
    BY <1>5, <2>1, SeamFacts
  <2>4. Copied(x, 0, a) = x
    BY <1>2, <1>5, TextFacts
  <2>5. SubSeq(q, 1, a) = Copied(q, 0, a)
    <3>1. 0 + 1 = 1
      OBVIOUS
    <3> QED
      BY <3>1 DEF Copied
  <2> QED
    BY <1>4, <2>2, <2>3, <2>4, <2>5
<1>7. SubSeq(q, b + 1, Len(q)) = rest
  <2>1. Copied(q, b, Len(q)) = rest
    BY <1>1, <1>5, SeamFacts
  <2> QED
    BY <2>1 DEF Copied
<1> HIDE DEF q
<1>8. Replaced(q, h) = (x \o h.text) \o rest
  BY <1>t, <1>6, <1>7 DEF Replaced
<1> QED
  BY <1>8 DEF q, s, x

\* The merge takes the hunks hs, one after the other, by the places I and J.
IsPath(hs, I, J, mine, his) ==
  /\ I[1] = 1 /\ J[1] = 1
  /\ \A k \in 1..Len(hs) + 1 : I[k] \in 1..Len(mine) + 1 /\ J[k] \in 1..Len(his) + 1
  /\ \A k \in 1..Len(hs) :
       /\ ~(I[k] > Len(mine) /\ J[k] > Len(his))
       /\ Coming(mine, his, I[k], J[k]).hunk = hs[k]
       /\ I[k + 1] = I[k] + Coming(mine, his, I[k], J[k]).ours
       /\ J[k + 1] = J[k] + Coming(mine, his, I[k], J[k]).theirs
  /\ I[Len(hs) + 1] > Len(mine) /\ J[Len(hs) + 1] > Len(his)

\* Along hunks all taken one by one the merge is the base with these applied.
LEMMA PathIsApplied ==
  ASSUME NEW S, NEW from, NEW mine, NEW his, TwoSides(from, mine, his, S),
         NEW hs, InOrder(hs, S, 0, Len(from)), NEW I, NEW J, IsPath(hs, I, J, mine, his)
  PROVE  Joined(from, mine, his) = Applied(from, hs)
<1>1. PICK f : Joins(f, from, mine, his, S) /\ Joined(from, mine, his) = f[<<1, 1, 0>>]
  BY JoinedJoins
<1>2. hs \in Seq(HunkOf(S)) /\ from \in Seq(S)
  BY DEF InOrder, TwoSides
<1>3. PICK g : Afters(g, from, hs) /\ Applied(from, hs) = g[1]
  BY <1>2, AppliedAfters
<1>4. PICK L \in Nat, n \in Nat : L = Len(hs) /\ n = Len(from)
  BY <1>2
<1> DEFINE At(k, pos) == <<I[k], J[k], pos>>
           Fits(k, pos) == pos \in 0..n /\ (k <= L => pos <= hs[k].start)
           A(k) == \A pos : Fits(k, pos) => g[k] = Copied(from, 0, pos) \o f[At(k, pos)]
           T == {d \in Nat : d <= L => A(L + 1 - d)}
<1>5. ASSUME NEW k \in 1..L + 1, NEW pos \in 0..n
      PROVE  /\ f[At(k, pos)] = JoinAt(f, from, mine, his, At(k, pos)) /\ f[At(k, pos)] \in Seq(S)
             /\ At(k, pos)[1] = I[k] /\ At(k, pos)[2] = J[k] /\ At(k, pos)[3] = pos
  <2>1. I[k] \in 1..Len(mine) + 1 /\ J[k] \in 1..Len(his) + 1
    BY <1>4 DEF IsPath
  <2>2. At(k, pos) \in Places(from, mine, his)
    BY <1>4, <2>1 DEF Places
  <2>3. f[At(k, pos)] = JoinAt(f, from, mine, his, At(k, pos)) /\ f[At(k, pos)] \in Seq(S)
    <3> HIDE DEF At
    <3> QED
      BY <1>1, <2>2 DEF Joins
  <2> QED
    BY <2>3
<1> HIDE DEF At
<1>6. A(L + 1)
  <2> SUFFICES ASSUME NEW pos \in 0..n PROVE g[L + 1] = Copied(from, 0, pos) \o f[At(L + 1, pos)]
    OBVIOUS
  <2>1. g[L + 1] = from
    <3>1. L + 1 \in 1..Len(hs) + 1 /\ L + 1 > Len(hs)
      BY <1>4
    <3> QED
      BY <1>3, <3>1 DEF Afters, AfterAt
  <2>2. f[At(L + 1, pos)] = Copied(from, pos, n)
    <3>0. L + 1 \in 1..L + 1
      OBVIOUS
    <3>1. f[At(L + 1, pos)] = JoinAt(f, from, mine, his, At(L + 1, pos))
          /\ At(L + 1, pos)[1] = I[L + 1] /\ At(L + 1, pos)[2] = J[L + 1] /\ At(L + 1, pos)[3] = pos
      BY <1>5, <3>0
    <3>2. IsLast(mine, his, At(L + 1, pos))
      BY <1>4, <3>1 DEF IsPath, IsLast
    <3> QED
      BY <1>4, <3>1, <3>2 DEF JoinAt
  <2>3. Copied(from, 0, pos) \o Copied(from, pos, n) = Copied(from, 0, n)
    <3>1. Spans(from, 0, pos, n, S)
      BY <1>2, <1>4 DEF Spans
    <3> QED
      BY <3>1, SpansFacts
  <2>4. Copied(from, 0, n) = from
    BY <1>2, <1>4, CopiedAll
  <2> QED
    BY <2>1, <2>2, <2>3, <2>4
<1>7. ASSUME NEW k \in 1..L, A(k + 1) PROVE A(k)
  <2> SUFFICES ASSUME NEW pos, Fits(k, pos) PROVE g[k] = Copied(from, 0, pos) \o f[At(k, pos)]
    OBVIOUS
  <2>0. k \in 1..Len(hs) /\ k \in 1..L + 1 /\ k + 1 \in 1..L + 1 /\ k <= L
    BY <1>4
  <2>1. PICK h \in HunkOf(S) : h = hs[k]
    BY <1>2, <2>0
  <2>2. PICK s \in Nat, e \in Nat, t \in Seq(S) : s = h.start /\ e = h.end /\ t = h.text
    BY DEF HunkOf
  <2>3. s <= e /\ e <= n /\ pos \in Nat /\ pos <= s
    <3>1. s <= e /\ e <= n
      BY <1>4, <2>0, <2>1, <2>2 DEF InOrder
    <3> QED
      BY <2>0, <2>1, <2>2, <3>1
  <2>4. Fits(k + 1, e)
    <3>1. k + 1 <= L => e <= hs[k + 1].start
      <4> SUFFICES ASSUME k + 1 <= L PROVE e <= hs[k + 1].start
        OBVIOUS
      <4>1. k + 1 \in 1..Len(hs) /\ k < k + 1
        BY <1>4
      <4> QED
        BY <2>0, <2>1, <2>2, <4>1 DEF InOrder
    <3> QED
      BY <2>3, <3>1
  <2>5. PICK R \in Seq(S) : R = f[At(k + 1, e)]
    <3>1. e \in 0..n
      BY <2>3
    <3> QED
      BY <1>5, <2>0, <3>1
  <2>6. g[k + 1] = Copied(from, 0, e) \o R
    BY <1>7, <2>4, <2>5
  <2>7. g[k] = Replaced(g[k + 1], h)
    <3>1. k \in 1..Len(hs) + 1 /\ ~(k > Len(hs))
      BY <1>4
    <3> QED
      BY <1>3, <2>1, <3>1 DEF Afters, AfterAt
  <2>8. Span(from, s, e, S) /\ Text(R, S)
    BY <1>2, <1>4, <2>3 DEF Span, Text
  <2>9. g[k] = (Copied(from, 0, s) \o t) \o R
    <3>1. Reaches(h, from, s, e, R, S)
      BY <2>2, <2>8 DEF Reaches
    <3>2. Replaced(Copied(from, 0, e) \o R, h) = (Copied(from, 0, s) \o h.text) \o R
      BY ONLY <3>1, ReplacedAtSeam
    <3> QED
      BY <2>2, <2>6, <2>7, <3>2
  <2>10. f[At(k, pos)] = (Copied(from, pos, s) \o t) \o R
    <3>1. /\ f[At(k, pos)] = JoinAt(f, from, mine, his, At(k, pos))
          /\ At(k, pos)[1] = I[k] /\ At(k, pos)[2] = J[k] /\ At(k, pos)[3] = pos
      BY <1>5, <2>0
    <3>2. ~IsLast(mine, his, At(k, pos))
      BY <2>0, <3>1 DEF IsPath, IsLast
    <3>3. ComingAt(mine, his, At(k, pos)).hunk = h
      BY <2>0, <2>1, <3>1 DEF IsPath, ComingAt
    <3>4. PlaceAfter(mine, his, At(k, pos)) = At(k + 1, e)
      BY <2>0, <2>2, <3>1, <3>3 DEF IsPath, ComingAt, PlaceAfter, At
    <3> QED
      BY <2>2, <2>5, <3>1, <3>2, <3>3, <3>4 DEF JoinAt
  <2>11. PICK u, v : u = Copied(from, 0, pos) /\ v = Copied(from, pos, s)
    OBVIOUS
  <2>12. u \in Seq(S) /\ v \in Seq(S)
    <3>1. pos \in 0..Len(from) /\ Span(from, pos, s, S)
      BY <1>2, <1>4, <2>3 DEF Span
    <3>2. u \in Seq(S)
      BY <1>2, <2>11, <3>1, CopiedWhole
    <3>3. v \in Seq(S)
      BY <2>3, <2>11, <3>1, SpanFacts
    <3> QED
      BY <3>2, <3>3
  <2>13. u \o v = Copied(from, 0, s)
    <3>1. Spans(from, 0, pos, s, S)
      BY <1>2, <1>4, <2>3 DEF Spans
    <3>2. Copied(from, 0, pos) \o Copied(from, pos, s) = Copied(from, 0, s)
      BY ONLY <3>1, SpansFacts
    <3> QED
      BY <2>11, <3>2
  <2>14. PICK vt \in Seq(S) : vt = v \o t
    <3>1. TwoTexts(v, t, S)
      BY <2>2, <2>12 DEF TwoTexts
    <3>2. v \o t \in Seq(S)
      BY <3>1, TwoTextsFacts
    <3> QED
      BY <3>2
  <2>15. ThreeTexts(u, v, t, S) /\ ThreeTexts(u, vt, R, S)
    BY <2>2, <2>12, <2>14 DEF ThreeTexts
  <2>16. (u \o v) \o t = u \o (v \o t)
    <3>1. ThreeTexts(u, v, t, S)
      BY <2>15
    <3> QED
      BY ONLY <3>1, ThreeTextsFacts
  <2>17. (u \o vt) \o R = u \o (vt \o R)
    <3>1. ThreeTexts(u, vt, R, S)
      BY <2>15
    <3> QED
      BY ONLY <3>1, ThreeTextsFacts
  <2> QED
    BY <2>9, <2>10, <2>11, <2>13, <2>14, <2>16, <2>17
<1> HIDE DEF A
<1>8. ASSUME NEW d \in Nat, \A c \in Nat : c < d => c \in T PROVE d \in T
  <2> SUFFICES ASSUME d <= L PROVE A(L + 1 - d)
    OBVIOUS
  <2>1. CASE d = 0
    <3>1. L + 1 - d = L + 1
      BY <2>1
    <3> QED
      BY <1>6, <3>1
  <2>2. CASE d # 0
    <3>1. PICK k \in 1..L : k = L + 1 - d
      BY <2>2
    <3>2. PICK c \in Nat : c = d - 1
      BY <2>2
    <3>3. c < d /\ c <= L /\ L + 1 - c = k + 1
      BY <3>1, <3>2
    <3>4. A(L + 1 - c)
      BY <1>8, <3>3
    <3>5. A(k + 1)
      BY <3>3, <3>4
    <3> QED
      BY <1>7, <3>1, <3>5
  <2> QED
    BY <2>1, <2>2
<1>9. L \in T
  <2> HIDE DEF T
  <2> QED
    BY <1>8, Induction
<1>10. A(1)
  <2>1. L + 1 - L = 1
    OBVIOUS
  <2>2. A(L + 1 - L)
    BY <1>9
  <2> QED
    BY <2>1, <2>2
<1>11. Fits(1, 0)
  <2> SUFFICES ASSUME 1 <= L PROVE 0 <= hs[1].start
    OBVIOUS
  <2>1. 1 \in 1..Len(hs)
    BY <1>4
  <2> QED
    BY <2>1 DEF InOrder
<1>12. g[1] = Copied(from, 0, 0) \o f[At(1, 0)]
  BY <1>10, <1>11 DEF A
<1>13. Copied(from, 0, 0) = <<>>
  <2>1. 0 \in Nat /\ 0 \in 0..Len(from) /\ 0 <= 0
    BY <1>2
  <2> QED
    BY <1>2, <2>1, CopiedFacts
<1>14. PICK w \in Seq(S) : w = f[At(1, 0)]
  <2>1. 1 \in 1..L + 1 /\ 0 \in 0..n
    OBVIOUS
  <2> QED
    BY <1>5, <2>1
<1>15. <<>> \o w = w
  BY ConcatEmptySeq
<1>16. At(1, 0) = <<1, 1, 0>>
  BY DEF IsPath, At
<1> QED
  BY <1>1, <1>3, <1>12, <1>13, <1>14, <1>15, <1>16

\* A text has no hunks against itself.
LEMMA PrefixOfSame ==
  ASSUME NEW S, NEW s \in Seq(S)
  PROVE  CommonPrefix(s, s) = Len(s)
<1> DEFINE T == {n \in 0..Shorter(s, s) : SubSeq(s, 1, n) = SubSeq(s, 1, n)}
<1>1. PICK n \in Nat : n = Len(s)
  OBVIOUS
<1>2. Shorter(s, s) = n
  <2>1. n \in Int
    OBVIOUS
  <2>2. Min({n, n}) = n
    BY <2>1, MinOfTwo
  <2> QED
    BY <1>1, <2>2 DEF Shorter
<1>3. T = 0..n
  BY <1>2
<1>4. CommonPrefix(s, s) = Max(T)
  BY DEF CommonPrefix
<1> HIDE DEF T
<1>5. n \in T /\ T \in SUBSET Int /\ \A m \in T : m <= n
  BY <1>3
<1>6. Max(T) = n
  BY <1>5, MaxIs
<1> QED
  BY <1>1, <1>4, <1>6

\* The diff of a text with itself keeps every line.
LEMMA KeptOfSame ==
  ASSUME NEW S, NEW s \in Seq(S)
  PROVE  Len(Kept(s, s)) = Len(s) /\ \A k \in 1..Len(s) : Kept(s, s)[k] = <<k, k>>
<1>1. PICK n \in Nat : n = Len(s) /\ n = CommonPrefix(s, s)
  BY PrefixOfSame
<1>2. CommonSuffix(s, s, n) = 0
  <2> DEFINE c == CommonSuffix(s, s, n)
  <2>0. n <= Len(s)
    BY <1>1
  <2>1. /\ c \in Nat /\ n + c <= Len(s) /\ n + c <= Len(s)
        /\ \A k \in 1..c : s[Len(s) - c + k] = s[Len(s) - c + k]
    BY <2>0, SuffixFacts
  <2> QED
    BY <1>1, <2>1
<1>3. PICK K : K = Kept(s, s) /\ K = KeptAround(s, s, n, 0)
  BY <1>1, <1>2 DEF Kept
<1>4. PICK a \in Seq(S) : a = SubSeq(s, n + 1, Len(s) - 0)
  <2>1. 0 \in Nat /\ n + 0 <= Len(s)
    BY <1>1
  <2> QED
    BY <2>1, MiddleFacts
<1>5. PICK I : I = KeptInside(a, a)
  OBVIOUS
<1>6. I \in Seq(Nat \X Nat)
  <2>1. Matches(I, a, a, 1, 1)
    BY <1>5, InsideFacts
  <2> QED
    BY <2>1 DEF Matches
<1>7. KeptAt(K, I, s, s, n, 0)
  <2>1. 0 \in Nat /\ n + 0 <= Len(s)
    BY <1>1
  <2> QED
    BY <1>3, <1>4, <1>5, <1>6, <2>1, AroundFacts
<1>8. K \in Seq(Nat \X Nat) /\ Len(K) = n + Len(I) + 0 /\ \A k \in 1..n : K[k] = <<k, k>>
  BY <1>7 DEF KeptAt
<1>9. PICK L \in Nat : L = Len(K) /\ n <= L
  <2>1. Len(I) \in Nat
    BY <1>6
  <2>2. n + Len(I) + 0 \in Nat /\ n <= n + Len(I) + 0
    BY <2>1
  <2> QED
    BY <1>8, <2>2
<1>10. Matches(K, s, s, 1, 1)
  BY <1>3, KeptFacts
<1>11. L = n
  <2>1. CASE L = 0
    BY <1>9, <2>1
  <2>2. CASE L # 0
    <3>1. L \in 1..Len(K)
      BY <1>9, <2>2
    <3>2. PICK x \in 1..Len(s) : x = K[L][1]
      BY <1>10, <3>1 DEF Matches
    <3>3. L <= K[L][1]
      BY <1>10, <3>1, MatchRoom
    <3>4. L <= n
      BY <1>1, <3>2, <3>3
    <3> QED
      BY <1>9, <3>4
  <2> QED
    BY <2>1, <2>2
<1> QED
  BY <1>1, <1>3, <1>8, <1>9, <1>11

\* A text and itself have no hunk between them.
LEMMA NoHunks ==
  ASSUME NEW S, NEW s \in Seq(S)
  PROVE  Hunks(s, s) = <<>>
<1>1. PICK n \in Nat : n = Len(s)
  OBVIOUS
<1>2. PICK K : K = Kept(s, s) /\ Len(K) = n /\ \A k \in 1..n : K[k] = <<k, k>>
  BY <1>1, KeptOfSame
<1>3. Matches(K, s, s, 1, 1)
  BY <1>2, KeptFacts
<1>4. PICK sp : /\ sp = Spine(K, s, s) /\ IsSpine(sp, s, s) /\ Len(sp) = n + 2
                /\ \A k \in 1..n : sp[k + 1] = K[k]
  BY <1>2, <1>3, SpineFacts
<1>5. Hunks(s, s) = HunksBetween(s, sp)
  BY <1>2, <1>4 DEF Hunks, Spine
<1>6. PICK f : Froms(f, s, sp) /\ HunksBetween(s, sp) = f[1]
  <2>1. sp \in Seq(Nat \X Nat) /\ Len(sp) # 0
    BY <1>4 DEF IsSpine
  <2> QED
    BY <2>1, HunksFrom
<1>7. \A k \in 1..n + 2 : sp[k][1] = k - 1 /\ sp[k][2] = k - 1
  <2> SUFFICES ASSUME NEW k \in 1..n + 2 PROVE sp[k][1] = k - 1 /\ sp[k][2] = k - 1
    OBVIOUS
  <2>1. CASE k = 1
    BY <1>4, <2>1 DEF IsSpine
  <2>2. CASE k = n + 2
    <3>1. sp[n + 2][1] = n + 1 /\ sp[n + 2][2] = n + 1
      BY <1>1, <1>4 DEF IsSpine
    <3>2. n + 2 - 1 = n + 1
      OBVIOUS
    <3> QED
      BY <2>2, <3>1, <3>2
  <2>3. CASE k # 1 /\ k # n + 2
    <3>1. PICK j \in 1..n : k = j + 1
      <4>1. k - 1 \in 1..n /\ k = (k - 1) + 1
        BY <2>3
      <4> QED
        BY <4>1
    <3>2. sp[k] = <<j, j>> /\ k - 1 = j
      BY <1>2, <1>4, <3>1
    <3>3. <<j, j>>[1] = j /\ <<j, j>>[2] = j
      OBVIOUS
    <3> QED
      BY <3>2, <3>3
  <2> QED
    BY <2>1, <2>2, <2>3
<1>8. ASSUME NEW k \in 1..n + 1 PROVE Empty(Between(s, sp[k], sp[k + 1]))
  <2>1. k \in 1..Len(sp) - 1
    BY <1>4
  <2>2. PICK a, b, c, e : Gap(a, b, c, e, s, s, sp, k, S)
    BY <1>4, <2>1, BetweenFacts
  <2>3. /\ a \in 0..n /\ b \in 0..n /\ c \in 0..n /\ e \in 0..n
        /\ a = sp[k][1] /\ c = sp[k][2] /\ b + 1 = sp[k + 1][1] /\ e + 1 = sp[k + 1][2]
        /\ Between(s, sp[k], sp[k + 1]) = Hunk(a, b, Copied(s, c, e))
    BY <1>1, <2>2 DEF Gap
  <2>4. sp[k][1] = k - 1 /\ sp[k][2] = k - 1 /\ sp[k + 1][1] = k /\ sp[k + 1][2] = k
    <3>1. k \in 1..n + 2 /\ k + 1 \in 1..n + 2 /\ k + 1 - 1 = k
      OBVIOUS
    <3> QED
      BY <1>7, <3>1
  <2>5. a = b /\ c = e
    BY <2>3, <2>4
  <2>6. Copied(s, c, c) = <<>>
    <3>1. c \in Nat /\ c \in 0..Len(s) /\ c <= c
      BY <1>1, <2>3
    <3> QED
      BY <3>1, CopiedFacts
  <2> QED
    BY <2>3, <2>5, <2>6 DEF Empty, Hunk
<1> DEFINE T == {d \in Nat : d <= n + 1 => f[n + 2 - d] = <<>>}
<1>9. ASSUME NEW d \in Nat, \A c \in Nat : c < d => c \in T PROVE d \in T
  <2> SUFFICES ASSUME d <= n + 1 PROVE f[n + 2 - d] = <<>>
    OBVIOUS
  <2>1. CASE d = 0
    <3>1. n + 2 - d = n + 2 /\ n + 2 \in 1..Len(sp)
      BY <1>4, <2>1
    <3>2. f[n + 2] = FromAt(f, s, sp, n + 2)
      BY <1>6, <3>1 DEF Froms
    <3> QED
      BY <1>4, <3>1, <3>2 DEF FromAt
  <2>2. CASE d # 0
    <3>1. PICK k \in 1..n + 1 : k = n + 2 - d
      BY <2>2
    <3>2. PICK c \in Nat : c = d - 1
      BY <2>2
    <3>3. c < d /\ c <= n + 1 /\ n + 2 - c = k + 1
      BY <3>1, <3>2
    <3>4. f[k + 1] = <<>>
      <4>1. f[n + 2 - c] = <<>>
        BY <1>9, <3>3
      <4> QED
        BY <3>3, <4>1
    <3>5. k \in 1..Len(sp) /\ k # Len(sp)
      BY <1>4
    <3>6. f[k] = FromAt(f, s, sp, k)
      BY <1>6, <3>5 DEF Froms
    <3>7. Empty(Between(s, sp[k], sp[k + 1]))
      BY <1>8
    <3> QED
      BY <3>1, <3>4, <3>5, <3>6, <3>7 DEF FromAt
  <2> QED
    BY <2>1, <2>2
<1>10. n + 1 \in T
  <2> HIDE DEF T
  <2> QED
    BY <1>9, Induction
<1>11. n + 2 - (n + 1) = 1
  OBVIOUS
<1>12. f[1] = <<>>
  <2>1. f[n + 2 - (n + 1)] = <<>>
    BY <1>10
  <2> QED
    BY <1>11, <2>1
<1> QED
  BY <1>5, <1>6, <1>12

\* The parts of a step.
LEMMA TakesFacts ==
  ASSUME NEW h, NEW u, NEW v
  PROVE  Takes(h, u, v).hunk = h /\ Takes(h, u, v).ours = u /\ Takes(h, u, v).theirs = v
  BY DEF Takes

\* A side without hunks lets the other's pass; hunks both sides have land once.
LEMMA PathOfTheirs ==
  ASSUME NEW S, NEW n, NEW hs, InOrder(hs, S, 0, n)
  PROVE  \E I, J : IsPath(hs, I, J, <<>>, hs)
<1>1. PICK L \in Nat : L = Len(hs)
  BY DEF InOrder
<1> DEFINE I == [k \in 1..L + 1 |-> 1]
           J == [k \in 1..L + 1 |-> k]
<1>2. Len(<<>>) = 0
  OBVIOUS
<1>3. \A k \in 1..L + 1 : I[k] = 1 /\ J[k] = k
  OBVIOUS
<1> HIDE DEF I, J
<1>4. ASSUME NEW k \in 1..L PROVE Coming(<<>>, hs, I[k], J[k]) = Takes(hs[k], 0, 1)
  <2>1. I[k] = 1 /\ J[k] = k
    BY <1>3
  <2>2. ~(J[k] > Len(hs)) /\ I[k] > Len(<<>>)
    BY <1>1, <1>2, <2>1
  <2> QED
    BY <2>1, <2>2 DEF Coming
<1>5. \A k \in 1..L : /\ Coming(<<>>, hs, I[k], J[k]).hunk = hs[k]
                      /\ Coming(<<>>, hs, I[k], J[k]).ours = 0 /\ Coming(<<>>, hs, I[k], J[k]).theirs = 1
  BY <1>4, TakesFacts
<1>6. \A k \in 1..L : k + 1 \in 1..L + 1 /\ k \in 1..L + 1 /\ I[k + 1] = I[k] + 0 /\ J[k + 1] = J[k] + 1 /\ ~(J[k] > L)
  BY <1>3
<1>7. 1 \in 1..L + 1 /\ L + 1 \in 1..L + 1 /\ I[1] = 1 /\ J[1] = 1 /\ I[L + 1] > 0 /\ J[L + 1] > L
  BY <1>3
<1>8. IsPath(hs, I, J, <<>>, hs)
  BY <1>1, <1>2, <1>3, <1>5, <1>6, <1>7 DEF IsPath
<1> QED
  BY <1>8

\* Ours alone are taken one by one.
LEMMA PathOfOurs ==
  ASSUME NEW S, NEW n, NEW hs, InOrder(hs, S, 0, n)
  PROVE  \E I, J : IsPath(hs, I, J, hs, <<>>)
<1>1. PICK L \in Nat : L = Len(hs)
  BY DEF InOrder
<1> DEFINE I == [k \in 1..L + 1 |-> k]
           J == [k \in 1..L + 1 |-> 1]
<1>2. Len(<<>>) = 0
  OBVIOUS
<1>3. \A k \in 1..L + 1 : I[k] = k /\ J[k] = 1
  OBVIOUS
<1> HIDE DEF I, J
<1>4. ASSUME NEW k \in 1..L PROVE Coming(hs, <<>>, I[k], J[k]) = Takes(hs[k], 1, 0)
  <2>1. I[k] = k /\ J[k] = 1
    BY <1>3
  <2>2. J[k] > Len(<<>>)
    BY <1>2, <2>1
  <2> QED
    BY <2>1, <2>2 DEF Coming
<1>5. \A k \in 1..L : /\ Coming(hs, <<>>, I[k], J[k]).hunk = hs[k]
                      /\ Coming(hs, <<>>, I[k], J[k]).ours = 1 /\ Coming(hs, <<>>, I[k], J[k]).theirs = 0
  BY <1>4, TakesFacts
<1>6. \A k \in 1..L : k + 1 \in 1..L + 1 /\ k \in 1..L + 1 /\ I[k + 1] = I[k] + 1 /\ J[k + 1] = J[k] + 0 /\ ~(I[k] > L)
  BY <1>3
<1>7. 1 \in 1..L + 1 /\ L + 1 \in 1..L + 1 /\ I[1] = 1 /\ J[1] = 1 /\ I[L + 1] > L /\ J[L + 1] > 0
  BY <1>3
<1>8. IsPath(hs, I, J, hs, <<>>)
  BY <1>1, <1>2, <1>3, <1>5, <1>6, <1>7 DEF IsPath
<1> QED
  BY <1>8

\* Hunks that are the same on both sides are taken two by two.
LEMMA PathOfBoth ==
  ASSUME NEW S, NEW n, NEW hs, InOrder(hs, S, 0, n)
  PROVE  \E I, J : IsPath(hs, I, J, hs, hs)
<1>1. PICK L \in Nat : L = Len(hs)
  BY DEF InOrder
<1> DEFINE I == [k \in 1..L + 1 |-> k]
           J == [k \in 1..L + 1 |-> k]
<1>3. \A k \in 1..L + 1 : I[k] = k /\ J[k] = k
  OBVIOUS
<1> HIDE DEF I, J
<1>4. ASSUME NEW k \in 1..L PROVE Coming(hs, hs, I[k], J[k]) = Takes(hs[k], 1, 1)
  <2>1. I[k] = k /\ J[k] = k
    BY <1>3
  <2>2. ~(J[k] > Len(hs)) /\ ~(I[k] > Len(hs))
    BY <1>1, <2>1
  <2>3. PICK h \in HunkOf(S) : h = hs[k]
    <3>1. hs \in Seq(HunkOf(S)) /\ k \in 1..Len(hs)
      BY <1>1 DEF InOrder
    <3> QED
      BY <3>1
  <2>4. ~Before(h, h)
    BY DEF Before
  <2>5. Shared(h.text, h.text) = h.text
    <3>1. h.text \in Seq(S)
      BY DEF HunkOf
    <3>2. IsPrefix(h.text, h.text)
      <4>1. Len(h.text) <= Len(h.text)
        BY <3>1
      <4> QED
        BY <4>1 DEF IsPrefix
    <3> QED
      BY <3>2 DEF Shared
  <2>6. Hunk(h.start, h.end, h.text) = h
    BY DEF Hunk, HunkOf
  <2>7. Coming(hs, hs, I[k], J[k]) = Takes(Hunk(h.start, h.end, Shared(h.text, h.text)), 1, 1)
    BY <2>1, <2>2, <2>3, <2>4 DEF Coming
  <2> QED
    BY <2>3, <2>5, <2>6, <2>7
<1>5. \A k \in 1..L : /\ Coming(hs, hs, I[k], J[k]).hunk = hs[k]
                      /\ Coming(hs, hs, I[k], J[k]).ours = 1 /\ Coming(hs, hs, I[k], J[k]).theirs = 1
  BY <1>4, TakesFacts
<1>6. \A k \in 1..L : k + 1 \in 1..L + 1 /\ k \in 1..L + 1 /\ I[k + 1] = I[k] + 1 /\ J[k + 1] = J[k] + 1 /\ ~(I[k] > L)
  BY <1>3
<1>7. 1 \in 1..L + 1 /\ L + 1 \in 1..L + 1 /\ I[1] = 1 /\ J[1] = 1 /\ I[L + 1] > L /\ J[L + 1] > L
  BY <1>3
<1>8. IsPath(hs, I, J, hs, hs)
  BY <1>1, <1>3, <1>5, <1>6, <1>7 DEF IsPath
<1> QED
  BY <1>8

\* What one side leaves alone the other decides; what both did lands once.
LEMMA MergeOfOne ==
  ASSUME NEW S, NEW from \in Seq(S), NEW other \in Seq(S)
  PROVE  /\ Merged(from, from, other) = other
         /\ Merged(from, other, from) = other
         /\ Merged(from, other, other) = other
<1>1. PICK hs : hs = Hunks(from, other) /\ InOrder(hs, S, 0, Len(from)) /\ Applied(from, hs) = other
  BY HunksFacts
<1>2. Hunks(from, from) = <<>>
  BY NoHunks
<1>3. InOrder(<<>>, S, 0, Len(from))
  BY <1>2, HunksFacts
<1>4. TwoSides(from, <<>>, hs, S) /\ TwoSides(from, hs, <<>>, S) /\ TwoSides(from, hs, hs, S)
  BY <1>1, <1>3 DEF TwoSides
<1>5. Joined(from, <<>>, hs) = Applied(from, hs)
  <2>1. PICK I, J : IsPath(hs, I, J, <<>>, hs)
    BY <1>1, PathOfTheirs
  <2> QED
    BY <1>1, <1>4, <2>1, PathIsApplied
<1>6. Joined(from, hs, <<>>) = Applied(from, hs)
  <2>1. PICK I, J : IsPath(hs, I, J, hs, <<>>)
    BY <1>1, PathOfOurs
  <2> QED
    BY <1>1, <1>4, <2>1, PathIsApplied
<1>7. Joined(from, hs, hs) = Applied(from, hs)
  <2>1. PICK I, J : IsPath(hs, I, J, hs, hs)
    BY <1>1, PathOfBoth
  <2> QED
    BY <1>1, <1>4, <2>1, PathIsApplied
<1> QED
  BY <1>1, <1>2, <1>5, <1>6, <1>7 DEF Merged

\* What a place of the merge holds: all that is left, or the next hunk and what the
\* place after it holds.
LEMMA JoinFacts ==
  ASSUME NEW S, NEW from, NEW mine, NEW his, TwoSides(from, mine, his, S),
         NEW f, Joins(f, from, mine, his, S), NEW c \in Places(from, mine, his)
  PROVE  /\ IsLast(mine, his, c) => f[c] = Copied(from, c[3], Len(from))
         /\ ~IsLast(mine, his, c) =>
              /\ f[c] = (Copied(from, c[3], ComingAt(mine, his, c).hunk.start) \o ComingAt(mine, his, c).hunk.text)
                           \o f[PlaceAfter(mine, his, c)]
              /\ Copied(from, c[3], ComingAt(mine, his, c).hunk.start) \in Seq(S)
              /\ ComingAt(mine, his, c).hunk.text \in Seq(S)
              /\ f[PlaceAfter(mine, his, c)] \in Seq(S)
<1>1. f[c] = JoinAt(f, from, mine, his, c)
  BY DEF Joins
<1>2. from \in Seq(S) /\ Len(from) \in Nat
  BY DEF TwoSides
<1>3. ASSUME ~IsLast(mine, his, c)
      PROVE  /\ Copied(from, c[3], ComingAt(mine, his, c).hunk.start) \in Seq(S)
             /\ ComingAt(mine, his, c).hunk.text \in Seq(S)
             /\ f[PlaceAfter(mine, his, c)] \in Seq(S)
  <2>1. /\ c[3] \in 0..Len(from) /\ IsStep(ComingAt(mine, his, c), mine, his, c[1], c[2], Len(from), S)
        /\ PlaceAfter(mine, his, c) \in Places(from, mine, his)
    BY <1>3, PlaceFacts
  <2>2. PICK h \in HunkOf(S) : h = ComingAt(mine, his, c).hunk /\ h.start <= h.end /\ h.end <= Len(from)
    BY <2>1 DEF IsStep
  <2>3. h.text \in Seq(S) /\ h.start \in 0..Len(from)
    <3>1. h.text \in Seq(S) /\ h.start \in Nat /\ h.end \in Nat
      BY DEF HunkOf
    <3> QED
      BY <1>2, <2>2, <3>1
  <2>4. PICK pos \in Nat : pos = c[3]
    BY <2>1
  <2>5. Copied(from, pos, h.start) \in Seq(S)
    BY <1>2, <2>3, CopiedFacts
  <2>6. f[PlaceAfter(mine, his, c)] \in Seq(S)
    BY <2>1 DEF Joins
  <2> QED
    BY <2>2, <2>3, <2>4, <2>5, <2>6
<1> QED
  BY <1>1, <1>3 DEF JoinAt

-----------------------------------------------------------------------------
\* What the sides wrote stands in the merge.

Wrote(hunks, from, w, S) == \A k \in 1..Len(hunks) : from <= k => Stands(hunks[k].text, w, S)

\* What stands in the rest, or in the hunk just taken, stands in the merge.
LEMMA WroteOn ==
  ASSUME NEW S, NEW hunks, NEW i \in Nat, NEW u \in 0..1, NEW w, NEW p, NEW t, NEW r,
         ThreeTexts(p, t, r, S), w = (p \o t) \o r,
         u = 1 => Stands(hunks[i].text, t, S), Wrote(hunks, i + u, r, S)
  PROVE  Wrote(hunks, i, w, S)
<1>1. Text(p, S) /\ Text(r, S) /\ Text(p \o t, S)
  <2>1. TwoTexts(p, t, S)
    BY DEF ThreeTexts, TwoTexts
  <2>2. p \o t \in Seq(S)
    BY <2>1, TwoTextsFacts
  <2> QED
    BY <2>2 DEF Text, ThreeTexts
<1> SUFFICES ASSUME NEW k \in 1..Len(hunks), i <= k PROVE Stands(hunks[k].text, w, S)
  BY DEF Wrote
<1>2. CASE i + u <= k
  <2>1. Stands(hunks[k].text, r, S)
    BY <1>2 DEF Wrote
  <2> QED
    BY <1>1, <2>1, StandsBehind
<1>3. CASE ~(i + u <= k)
  <2>1. u = 1 /\ k = i
    BY <1>3
  <2>2. Stands(hunks[k].text, t, S)
    BY <2>1
  <2>3. Stands(hunks[k].text, p \o t, S)
    BY <1>1, <2>2, StandsBehind
  <2> QED
    BY <1>1, <2>3, StandsBefore
<1> QED
  BY <1>2, <1>3

\* The merge is a text and holds what every hunk of either side wrote.
LEMMA MergeHolds ==
  ASSUME NEW S, NEW from, NEW mine, NEW his, TwoSides(from, mine, his, S)
  PROVE  /\ Joined(from, mine, his) \in Seq(S)
         /\ Wrote(mine, 1, Joined(from, mine, his), S) /\ Wrote(his, 1, Joined(from, mine, his), S)
<1>1. PICK f : Joins(f, from, mine, his, S) /\ Joined(from, mine, his) = f[<<1, 1, 0>>]
  BY JoinedJoins
<1> DEFINE X == Places(from, mine, his)
           rank == PlaceRank(from, mine, his)
           T == {c \in X : Wrote(mine, c[1], f[c], S) /\ Wrote(his, c[2], f[c], S)}
<1>2. /\ rank \in [X -> 0..(Len(mine) + Len(his))] /\ Len(mine) + Len(his) \in Nat /\ <<1, 1, 0>> \in X
      /\ \A c \in X : /\ c[1] \in 1..Len(mine) + 1 /\ c[2] \in 1..Len(his) + 1
                      /\ ~IsLast(mine, his, c) =>
                           /\ IsStep(ComingAt(mine, his, c), mine, his, c[1], c[2], Len(from), S)
                           /\ PlaceAfter(mine, his, c) \in X
                           /\ rank[PlaceAfter(mine, his, c)] < rank[c]
  BY PlaceFacts
<1>3. ASSUME NEW c \in X, \A y \in X : rank[y] < rank[c] => y \in T PROVE c \in T
  <2>0. PICK i \in Nat, j \in Nat : i = c[1] /\ j = c[2]
    <3>1. PICK lm \in Nat, lh \in Nat : lm = Len(mine) /\ lh = Len(his)
      BY DEF TwoSides, InOrder
    <3>2. c[1] \in 1..lm + 1 /\ c[2] \in 1..lh + 1
      BY <1>2, <3>1
    <3> HIDE DEF X
    <3> QED
      BY <3>2
  <2>1. CASE IsLast(mine, his, c)
    <3>1. i > Len(mine) /\ j > Len(his)
      BY <2>0, <2>1 DEF IsLast
    <3>2. PICK lm \in Nat, lh \in Nat : lm = Len(mine) /\ lh = Len(his)
      BY DEF TwoSides, InOrder
    <3>3. (\A k \in 1..lm : ~(i <= k)) /\ (\A k \in 1..lh : ~(j <= k))
      BY <3>1, <3>2
    <3>4. Wrote(mine, i, f[c], S) /\ Wrote(his, j, f[c], S)
      BY <3>2, <3>3 DEF Wrote
    <3> QED
      BY <2>0, <3>4
  <2>2. CASE ~IsLast(mine, his, c)
    <3>1. PICK next : next = ComingAt(mine, his, c) /\ IsStep(next, mine, his, i, j, Len(from), S)
      BY <1>2, <2>0, <2>2
    <3>2. PICK d \in X : d = PlaceAfter(mine, his, c) /\ rank[d] < rank[c]
      BY <1>2, <2>2
    <3>3. PICK u \in 0..1, v \in 0..1 : u = next.ours /\ v = next.theirs
      BY <3>1 DEF IsStep
    <3>4. d[1] = i + u /\ d[2] = j + v
      BY <2>0, <3>1, <3>2, <3>3 DEF PlaceAfter
    <3>5. Wrote(mine, i + u, f[d], S) /\ Wrote(his, j + v, f[d], S)
      <4>1. d \in T
        BY <1>3, <3>2
      <4> QED
        BY <3>4, <4>1
    <3>6. PICK p, t, r : p = Copied(from, c[3], next.hunk.start) /\ t = next.hunk.text /\ r = f[d]
      OBVIOUS
    <3>7. f[c] = (p \o t) \o r /\ ThreeTexts(p, t, r, S)
      <4>1. /\ f[c] = (Copied(from, c[3], ComingAt(mine, his, c).hunk.start) \o ComingAt(mine, his, c).hunk.text)
                           \o f[PlaceAfter(mine, his, c)]
            /\ Copied(from, c[3], ComingAt(mine, his, c).hunk.start) \in Seq(S)
            /\ ComingAt(mine, his, c).hunk.text \in Seq(S)
            /\ f[PlaceAfter(mine, his, c)] \in Seq(S)
        <5> HIDE DEF rank, T
        <5> QED
          BY <1>1, <2>2, JoinFacts
      <4> HIDE DEF X, rank, T
      <4> QED
        BY <3>1, <3>2, <3>6, <4>1 DEF ThreeTexts
    <3>8. (u = 1 => Stands(mine[i].text, t, S)) /\ (v = 1 => Stands(his[j].text, t, S))
      BY <3>1, <3>3, <3>6 DEF IsStep
    <3>t. i \in Nat /\ j \in Nat /\ u \in 0..1 /\ v \in 0..1
      OBVIOUS
    <3>9. Wrote(mine, i, f[c], S)
      <4>1. Wrote(mine, i + u, r, S) /\ (u = 1 => Stands(mine[i].text, t, S))
        BY <3>5, <3>6, <3>8
      <4> QED
        BY ONLY <3>7, <3>t, <4>1, WroteOn
    <3>10. Wrote(his, j, f[c], S)
      <4>1. Wrote(his, j + v, r, S) /\ (v = 1 => Stands(his[j].text, t, S))
        BY <3>5, <3>6, <3>8
      <4> QED
        BY ONLY <3>7, <3>t, <4>1, WroteOn
    <3> QED
      BY <2>0, <3>9, <3>10
  <2> QED
    BY <2>1, <2>2
<1>4. IsHereditary(X, rank, T)
  <2> HIDE DEF X, rank, T
  <2> QED
    BY <1>2, <1>3 DEF IsHereditary
<1>5. <<1, 1, 0>> \in T
  <2> HIDE DEF X, rank, T
  <2> QED
    BY <1>2, <1>4, RankInduction
<1>6. Wrote(mine, 1, f[<<1, 1, 0>>], S) /\ Wrote(his, 1, f[<<1, 1, 0>>], S)
  <2>1. <<1, 1, 0>>[1] = 1 /\ <<1, 1, 0>>[2] = 1
    OBVIOUS
  <2> QED
    BY <1>5, <2>1
<1>7. f[<<1, 1, 0>>] \in Seq(S)
  BY <1>1, <1>2 DEF Joins
<1> QED
  BY <1>1, <1>6, <1>7

\* A text that stands in another is a span of it.
LEMMA StandsAt ==
  ASSUME NEW S, NEW u, NEW w, Stands(u, w, S)
  PROVE  \E n \in 0..Len(w) - Len(u) : SubSeq(w, n + 1, n + Len(u)) = u
<1>1. PICK x \in Seq(S), y \in Seq(S) : w = (x \o u) \o y /\ u \in Seq(S)
  BY DEF Stands
<1>2. PICK lx \in Nat, lu \in Nat, ly \in Nat : lx = Len(x) /\ lu = Len(u) /\ ly = Len(y)
  BY <1>1
<1>3. TwoTexts(x, u, S)
  BY <1>1 DEF TwoTexts
<1>4. PICK v \in Seq(S) : v = x \o u /\ Len(v) = lx + lu
  <2>1. x \o u \in Seq(S) /\ Len(x \o u) = Len(x) + Len(u)
    BY <1>3, TwoTextsFacts
  <2> QED
    BY <1>2, <2>1
<1>5. TwoTexts(v, y, S)
  BY <1>1, <1>4 DEF TwoTexts
<1>6. Len(w) = lx + lu + ly /\ w = v \o y
  BY <1>1, <1>2, <1>4, <1>5, TwoTextsFacts
<1>7. Copied(w, lx, lx + lu) = Copied(v, lx, lx + lu)
  <2>1. lx + lu \in 0..Len(v) + Len(y) /\ lx + lu <= Len(v)
    BY <1>2, <1>4
  <2> QED
    <3>1. Copied(v \o y, lx, lx + lu) = Copied(v, lx, lx + lu)
      <4>1. PICK b \in 0..Len(v) + Len(y) : b = lx + lu /\ b <= Len(v)
        BY <2>1
      <4>2. v \in Seq(S) /\ y \in Seq(S) /\ lx \in Nat
        BY <1>1, <1>4
      <4>3. Copied(v \o y, lx, b) = Copied(v, lx, b)
        BY <4>1, <4>2, CopiedOfTwo
      <4> QED
        BY <4>1, <4>3
    <3> QED
      BY <1>6, <3>1
<1>8. Copied(v, lx, lx + lu) = u
  <2>1. Copied(x \o u, Len(x), Len(x \o u)) = u
    BY <1>3, SeamFacts
  <2> QED
    BY <1>2, <1>4, <2>1
<1>9. lx \in 0..Len(w) - Len(u)
  BY <1>2, <1>6
<1> QED
  BY <1>2, <1>7, <1>8, <1>9 DEF Copied

\* So for the hunks the diff finds (merged: "genuine conflicts keep both sides' bytes").
LEMMA MergeDropsNobody ==
  ASSUME NEW S, NEW from \in Seq(S), NEW ours \in Seq(S), NEW theirs \in Seq(S)
  PROVE  /\ Holds(Merged(from, ours, theirs), Hunks(from, ours))
         /\ Holds(Merged(from, ours, theirs), Hunks(from, theirs))
<1>1. PICK mine : mine = Hunks(from, ours) /\ InOrder(mine, S, 0, Len(from))
  BY HunksFacts
<1>2. PICK his : his = Hunks(from, theirs) /\ InOrder(his, S, 0, Len(from))
  BY HunksFacts
<1>3. TwoSides(from, mine, his, S)
  BY <1>1, <1>2 DEF TwoSides
<1>4. PICK w : w = Merged(from, ours, theirs) /\ w = Joined(from, mine, his)
  BY <1>1, <1>2 DEF Merged
<1>5. Wrote(mine, 1, w, S) /\ Wrote(his, 1, w, S)
  BY <1>3, <1>4, MergeHolds
<1>6. ASSUME NEW hs, InOrder(hs, S, 0, Len(from)), Wrote(hs, 1, w, S) PROVE Holds(w, hs)
  <2>1. DOMAIN hs = 1..Len(hs)
    BY <1>6 DEF InOrder
  <2>2. ASSUME NEW k \in 1..Len(hs) PROVE Stands(hs[k].text, w, S)
    <3>1. 1 <= k
      OBVIOUS
    <3> QED
      BY <1>6, <3>1 DEF Wrote
  <2> QED
    BY <2>1, <2>2, StandsAt DEF Holds
<1> QED
  BY <1>1, <1>2, <1>4, <1>5, <1>6

-----------------------------------------------------------------------------
\* What no side touched is read off the merge.

\* Those of U behind place n.
Behind(U, n) == {p \in U : n < p}

\* A piece of a text from pos to s, what is written for its lines s+1..e, and a text
\* the lines behind e stand in: if none of U lies in s+1..e, all behind pos stand in them.
LEMMA EmbedsAcross ==
  ASSUME NEW S, NEW from, NEW U, NEW t, NEW r, NEW pos \in Nat, NEW s, NEW e \in Nat, NEW d,
         ThreeTexts(Copied(from, pos, s), t, r, S), from \in Seq(S), s \in 0..Len(from),
         \A p \in U : ~(s < p /\ p <= e), Embeds(d, Behind(U, e), from, r),
         U \subseteq 1..Len(from)
  PROVE  \E g : Embeds(g, Behind(U, pos), from, (Copied(from, pos, s) \o t) \o r)
<1>1. PICK a \in Seq(S) : a = Copied(from, pos, s)
  BY DEF ThreeTexts
<1>2. PICK la \in Nat, lt \in Nat, lr \in Nat, n \in Nat :
        la = Len(a) /\ lt = Len(t) /\ lr = Len(r) /\ n = Len(from)
  BY <1>1 DEF ThreeTexts
<1>3. PICK b \in Seq(S) : b = a \o t /\ Len(b) = la + lt
                          /\ \A i \in 1..la + lt : b[i] = IF i <= la THEN a[i] ELSE t[i - la]
  <2>1. TwoTexts(a, t, S)
    BY <1>1 DEF ThreeTexts, TwoTexts
  <2>2. a \o t \in Seq(S) /\ Len(a \o t) = Len(a) + Len(t)
        /\ \A i \in 1..Len(a) + Len(t) : (a \o t)[i] = IF i <= Len(a) THEN a[i] ELSE t[i - Len(a)]
    BY ONLY <2>1, TwoTextsFacts
  <2>3. PICK x \in Seq(S) : x = a \o t
    BY <2>2
  <2>4. /\ Len(x) = la + lt
        /\ \A i \in 1..la + lt : x[i] = IF i <= la THEN a[i] ELSE t[i - la]
    BY ONLY <1>2, <2>2, <2>3
  <2> QED
    BY ONLY <2>3, <2>4
<1>4. PICK w \in Seq(S) : w = b \o r /\ Len(w) = la + lt + lr
                          /\ \A i \in 1..la + lt + lr : w[i] = IF i <= la + lt THEN b[i] ELSE r[i - (la + lt)]
  <2>1. TwoTexts(b, r, S)
    BY <1>3 DEF ThreeTexts, TwoTexts
  <2>2. b \o r \in Seq(S) /\ Len(b \o r) = Len(b) + Len(r)
        /\ \A i \in 1..Len(b) + Len(r) : (b \o r)[i] = IF i <= Len(b) THEN b[i] ELSE r[i - Len(b)]
    BY ONLY <2>1, TwoTextsFacts
  <2>3. PICK x \in Seq(S) : x = b \o r
    BY <2>2
  <2>4. Len(b) = la + lt /\ Len(r) = lr
    BY <1>2, <1>3
  <2>5. /\ Len(x) = la + lt + lr
        /\ \A i \in 1..la + lt + lr : x[i] = IF i <= la + lt THEN b[i] ELSE r[i - (la + lt)]
    BY ONLY <2>2, <2>3, <2>4
  <2> QED
    BY ONLY <2>3, <2>5
<1>5. la = (IF pos < s THEN s - pos ELSE 0) /\ \A i \in 1..s - pos : a[i] = from[pos + i]
  <2>1. /\ Len(Copied(from, pos, s)) = IF pos < s THEN s - pos ELSE 0
        /\ \A i \in 1..s - pos : Copied(from, pos, s)[i] = from[pos + i]
    <3>1. from \in Seq(S) /\ pos \in Nat /\ s \in 0..Len(from)
      OBVIOUS
    <3> QED
      BY ONLY <3>1, CopiedFacts
  <2> QED
    BY ONLY <1>1, <1>2, <2>1
<1>6. /\ Behind(U, e) \subseteq 1..n /\ \A p \in Behind(U, e) : d[p] \in 1..lr /\ r[d[p]] = from[p]
      /\ \A p, q \in Behind(U, e) : p < q => d[p] < d[q]
  BY <1>2 DEF Embeds
<1> DEFINE P == Behind(U, pos)
           g == [p \in P |-> IF p <= s THEN p - pos ELSE la + lt + d[p]]
<1>7. ASSUME NEW p \in P PROVE p \in 1..n /\ pos < p /\ (~(p <= s) => p \in Behind(U, e))
  <2>1. p \in U /\ pos < p /\ p \in 1..n
    BY <1>2 DEF Behind
  <2>2. ~(p <= s) => e < p
    BY <2>1
  <2> QED
    BY <2>1, <2>2 DEF Behind
<1>8. ASSUME NEW p \in P PROVE g[p] \in 1..la + lt + lr /\ w[g[p]] = from[p]
  <2>0. p \in 1..n /\ pos < p
    BY <1>7
  <2>1. CASE p <= s
    <3>1. g[p] = p - pos /\ p - pos \in 1..s - pos /\ pos < s /\ pos + (p - pos) = p
      BY <2>0, <2>1, <1>2
    <3>2. la = s - pos
      BY <1>5, <3>1
    <3>3. p - pos \in 1..la /\ p - pos \in 1..la + lt /\ p - pos \in 1..la + lt + lr /\ p - pos <= la /\ p - pos <= la + lt
      BY <3>1, <3>2
    <3>4. w[p - pos] = b[p - pos]
      BY <1>4, <3>3
    <3>5. b[p - pos] = a[p - pos]
      BY <1>3, <3>3
    <3>6. a[p - pos] = from[p]
      BY <1>5, <3>1
    <3> QED
      BY <3>1, <3>3, <3>4, <3>5, <3>6
  <2>2. CASE ~(p <= s)
    <3>1. PICK k \in 1..lr : k = d[p] /\ r[k] = from[p]
      BY <1>6, <1>7, <2>2
    <3>2. g[p] = la + lt + k
      BY <2>2, <3>1
    <3>3. la + lt + k \in 1..la + lt + lr /\ ~(la + lt + k <= la + lt) /\ la + lt + k - (la + lt) = k
      OBVIOUS
    <3>4. w[la + lt + k] = r[k]
      BY <1>4, <3>3
    <3> QED
      BY <3>1, <3>2, <3>3, <3>4
  <2> QED
    BY <2>1, <2>2
<1>9. ASSUME NEW p \in P, NEW q \in P, p < q PROVE g[p] < g[q]
  <2>0. p \in 1..n /\ pos < p /\ q \in 1..n /\ pos < q /\ s \in Nat
    BY <1>2, <1>7
  <2>1. CASE q <= s
    <3>1. p <= s
      BY <1>9, <2>0, <2>1
    <3>2. g[p] = p - pos /\ g[q] = q - pos
      BY <2>1, <3>1
    <3> QED
      BY <1>9, <2>0, <3>2
  <2>2. CASE ~(q <= s) /\ p <= s
    <3>1. PICK k \in 1..lr : k = d[q]
      BY <1>6, <1>7, <2>2
    <3>2. g[p] = p - pos /\ g[q] = la + lt + k
      BY <2>2, <3>1
    <3>3. la = s - pos
      BY <1>5, <2>0, <2>2
    <3> QED
      BY <2>0, <2>2, <3>2, <3>3
  <2>3. CASE ~(q <= s) /\ ~(p <= s)
    <3>1. PICK k \in 1..lr, j \in 1..lr : k = d[q] /\ j = d[p]
      BY <1>6, <1>7, <2>3
    <3>2. j < k
      BY <1>6, <1>7, <1>9, <2>3, <3>1
    <3>3. g[p] = la + lt + j /\ g[q] = la + lt + k
      BY <2>3, <3>1
    <3> QED
      BY <3>2, <3>3
  <2> QED
    BY <2>1, <2>2, <2>3
<1>10. g \in [P -> 1..Len(w)] /\ P \subseteq 1..Len(from)
  BY <1>2, <1>4, <1>7, <1>8
<1>11. Embeds(g, P, from, w)
  <2> HIDE DEF g, P
  <2> QED
    BY <1>8, <1>9, <1>10 DEF Embeds
<1> HIDE DEF g
<1> QED
  BY <1>1, <1>3, <1>4, <1>11

\* Behind the last hunk the base is copied.
LEMMA EmbedsEnd ==
  ASSUME NEW S, NEW from \in Seq(S), NEW U, U \subseteq 1..Len(from), NEW pos \in Nat
  PROVE  \E g : Embeds(g, Behind(U, pos), from, Copied(from, pos, Len(from)))
<1>1. PICK n \in Nat : n = Len(from)
  OBVIOUS
<1>2. /\ Len(Copied(from, pos, n)) = IF pos < n THEN n - pos ELSE 0
      /\ \A i \in 1..n - pos : Copied(from, pos, n)[i] = from[pos + i]
  <2>1. n \in 0..Len(from)
    BY <1>1
  <2> QED
    BY <2>1, CopiedFacts
<1> DEFINE P == Behind(U, pos)
           g == [p \in P |-> p - pos]
<1>3. ASSUME NEW p \in P PROVE p \in 1..n /\ pos < p /\ p - pos \in 1..n - pos /\ pos + (p - pos) = p
  BY <1>1 DEF Behind
<1>4. \A p \in P : g[p] = p - pos /\ g[p] \in 1..Len(Copied(from, pos, n)) /\ Copied(from, pos, n)[g[p]] = from[p]
  BY <1>2, <1>3
<1>5. \A p, q \in P : p < q => g[p] < g[q]
  BY <1>3
<1>6. g \in [P -> 1..Len(Copied(from, pos, n))] /\ P \subseteq 1..Len(from)
  BY <1>1, <1>3, <1>4
<1>7. Embeds(g, P, from, Copied(from, pos, n))
  <2> HIDE DEF g, P
  <2> QED
    BY <1>4, <1>5, <1>6 DEF Embeds
<1> HIDE DEF g
<1> QED
  BY <1>1, <1>7

\* The lines of the base no hunk of either side touches.
Untouched(from, mine, his) == DOMAIN from \ (Touched(mine) \cup Touched(his))

\* What no hunk touches stands in the merge in its order: by induction from the end.
LEMMA MergeKeeps ==
  ASSUME NEW S, NEW from, NEW mine, NEW his, TwoSides(from, mine, his, S)
  PROVE  \E e : Embeds(e, Untouched(from, mine, his), from, Joined(from, mine, his))
<1>1. PICK f : Joins(f, from, mine, his, S) /\ Joined(from, mine, his) = f[<<1, 1, 0>>]
  BY JoinedJoins
<1>0. from \in Seq(S) /\ InOrder(mine, S, 0, Len(from)) /\ InOrder(his, S, 0, Len(from))
  BY DEF TwoSides
<1> DEFINE X == Places(from, mine, his)
           rank == PlaceRank(from, mine, his)
           U == Untouched(from, mine, his)
           T == {c \in X : \E e : Embeds(e, Behind(U, c[3]), from, f[c])}
<1>2. /\ rank \in [X -> 0..(Len(mine) + Len(his))] /\ Len(mine) + Len(his) \in Nat /\ <<1, 1, 0>> \in X
      /\ \A c \in X : /\ c[1] \in 1..Len(mine) + 1 /\ c[2] \in 1..Len(his) + 1 /\ c[3] \in 0..Len(from)
                      /\ ~IsLast(mine, his, c) =>
                           /\ IsStep(ComingAt(mine, his, c), mine, his, c[1], c[2], Len(from), S)
                           /\ PlaceAfter(mine, his, c) \in X
                           /\ rank[PlaceAfter(mine, his, c)] < rank[c]
  BY PlaceFacts
<1>u. U \subseteq 1..Len(from)
  BY <1>0 DEF Untouched
<1>3. ASSUME NEW c \in X, \A y \in X : rank[y] < rank[c] => y \in T PROVE c \in T
  <2>0. PICK i \in Nat, j \in Nat, pos \in Nat : i = c[1] /\ j = c[2] /\ pos = c[3] /\ 1 <= i /\ 1 <= j
    <3>1. PICK lm \in Nat, lh \in Nat, n \in Nat : lm = Len(mine) /\ lh = Len(his) /\ n = Len(from)
      BY <1>0 DEF InOrder
    <3>2. c[1] \in 1..lm + 1 /\ c[2] \in 1..lh + 1 /\ c[3] \in 0..n
      BY <1>2, <3>1
    <3> HIDE DEF X
    <3> QED
      BY <3>2
  <2>1. CASE IsLast(mine, his, c)
    <3>1. f[c] = Copied(from, pos, Len(from))
      <4>1. f[c] = Copied(from, c[3], Len(from))
        <5>1. c \in Places(from, mine, his)
          OBVIOUS
        <5> HIDE DEF X, rank, T, U
        <5>2. f[c] = JoinAt(f, from, mine, his, c)
          BY <1>1, <5>1 DEF Joins
        <5> QED
          BY <2>1, <5>2 DEF JoinAt
      <4> QED
        BY <2>0, <4>1
    <3>2. \E g : Embeds(g, Behind(U, pos), from, Copied(from, pos, Len(from)))
      <4> HIDE DEF U
      <4> QED
        BY <1>0, <1>u, EmbedsEnd
    <3> QED
      BY <2>0, <3>1, <3>2
  <2>2. CASE ~IsLast(mine, his, c)
    <3>1. PICK next : next = ComingAt(mine, his, c) /\ IsStep(next, mine, his, i, j, Len(from), S)
      BY <1>2, <2>0, <2>2
    <3>2. PICK d \in X : d = PlaceAfter(mine, his, c) /\ rank[d] < rank[c]
      BY <1>2, <2>2
    <3>3. PICK h \in HunkOf(S) : h = next.hunk /\ h.start <= h.end /\ h.end <= Len(from)
      BY <3>1 DEF IsStep
    <3>4. PICK s \in Nat, e \in Nat : s = h.start /\ e = h.end /\ s <= e /\ s \in 0..Len(from)
      <4>1. h.start \in Nat /\ h.end \in Nat /\ Len(from) \in Nat
        BY <1>0 DEF HunkOf
      <4> QED
        BY <3>3, <4>1
    <3>5. d[3] = e
      BY <3>1, <3>2, <3>3, <3>4 DEF PlaceAfter
    <3>6. PICK g : Embeds(g, Behind(U, e), from, f[d])
      <4>1. d \in T
        BY <1>3, <3>2
      <4> HIDE DEF U
      <4> QED
        BY <3>5, <4>1
    <3>7. PICK t, r : t = h.text /\ r = f[d]
      OBVIOUS
    <3>8. f[c] = (Copied(from, pos, s) \o t) \o r /\ ThreeTexts(Copied(from, pos, s), t, r, S)
      <4>1. /\ f[c] = (Copied(from, c[3], ComingAt(mine, his, c).hunk.start) \o ComingAt(mine, his, c).hunk.text)
                           \o f[PlaceAfter(mine, his, c)]
            /\ Copied(from, c[3], ComingAt(mine, his, c).hunk.start) \in Seq(S)
            /\ ComingAt(mine, his, c).hunk.text \in Seq(S)
            /\ f[PlaceAfter(mine, his, c)] \in Seq(S)
        <5> HIDE DEF rank, T, U
        <5> QED
          BY <1>1, <2>2, JoinFacts
      <4> HIDE DEF X, rank, T, U
      <4> QED
        BY <2>0, <3>1, <3>2, <3>3, <3>4, <3>7, <4>1 DEF ThreeTexts
    <3>9. \A p \in U : ~(s < p /\ p <= e)
      <4> SUFFICES ASSUME NEW p \in U, s < p, p <= e PROVE FALSE
        OBVIOUS
      <4>1. p \in Nat /\ p \notin Touched(mine) /\ p \notin Touched(his)
        BY <1>u DEF Untouched
      <4> HIDE DEF U
      <4>2. \/ next.ours = 1 /\ mine[i].start < p /\ p <= mine[i].end
            \/ next.theirs = 1 /\ his[j].start < p /\ p <= his[j].end
        BY <3>1, <3>3, <3>4, <4>1 DEF IsStep
      <4>3. ASSUME next.ours = 1, mine[i].start < p, p <= mine[i].end PROVE FALSE
        <5>1. i \in 1..Len(mine) /\ i \in DOMAIN mine
          <6>1. i <= Len(mine)
            BY <3>1, <4>3 DEF IsStep
          <6>2. DOMAIN mine = 1..Len(mine) /\ Len(mine) \in Nat
            BY <1>0 DEF InOrder
          <6> QED
            BY <2>0, <6>1, <6>2
        <5>2. mine[i].start \in Nat /\ mine[i].end \in Nat
          <6>1. mine[i] \in HunkOf(S)
            BY <1>0, <5>1 DEF InOrder
          <6> QED
            BY <6>1 DEF HunkOf
        <5>3. p \in mine[i].start + 1..mine[i].end
          BY <4>1, <4>3, <5>2
        <5> QED
          BY <4>1, <5>1, <5>3 DEF Touched
      <4>4. ASSUME next.theirs = 1, his[j].start < p, p <= his[j].end PROVE FALSE
        <5>1. j \in 1..Len(his) /\ j \in DOMAIN his
          <6>1. j <= Len(his)
            BY <3>1, <4>4 DEF IsStep
          <6>2. DOMAIN his = 1..Len(his) /\ Len(his) \in Nat
            BY <1>0 DEF InOrder
          <6> QED
            BY <2>0, <6>1, <6>2
        <5>2. his[j].start \in Nat /\ his[j].end \in Nat
          <6>1. his[j] \in HunkOf(S)
            BY <1>0, <5>1 DEF InOrder
          <6> QED
            BY <6>1 DEF HunkOf
        <5>3. p \in his[j].start + 1..his[j].end
          BY <4>1, <4>4, <5>2
        <5> QED
          BY <4>1, <5>1, <5>3 DEF Touched
      <4> QED
        BY <4>2, <4>3, <4>4
    <3>10. \E q : Embeds(q, Behind(U, pos), from, (Copied(from, pos, s) \o t) \o r)
      <4>1. Embeds(g, Behind(U, e), from, r)
        BY <3>6, <3>7
      <4>2. pos \in Nat /\ s \in 0..Len(from) /\ e \in Nat
        BY <3>4
      <4> HIDE DEF U
      <4> QED
        BY ONLY <1>0, <1>u, <3>8, <3>9, <4>1, <4>2, EmbedsAcross
    <3> QED
      BY <2>0, <3>8, <3>10
  <2> QED
    BY <2>1, <2>2
<1>4. IsHereditary(X, rank, T)
  <2> HIDE DEF X, rank, T
  <2> QED
    BY <1>2, <1>3 DEF IsHereditary
<1>5. <<1, 1, 0>> \in T
  <2> HIDE DEF X, rank, T
  <2> QED
    BY <1>2, <1>4, RankInduction
<1>6. <<1, 1, 0>>[3] = 0 /\ Behind(U, 0) = U
  <2>1. \A p \in U : 0 < p
    BY <1>u
  <2> QED
    BY <2>1 DEF Behind
<1> HIDE DEF U
<1>7. PICK e : Embeds(e, U, from, f[<<1, 1, 0>>])
  BY <1>5, <1>6
<1> QED
  BY <1>1, <1>7 DEF U

\* It can be read off the merge.
LEMMA MergeKeepsUntouched ==
  ASSUME NEW S, NEW from \in Seq(S), NEW ours \in Seq(S), NEW theirs \in Seq(S)
  PROVE  /\ Merged(from, ours, theirs) \in Seq(S)
         /\ Lines(from, DOMAIN from \ (Touched(Hunks(from, ours)) \cup Touched(Hunks(from, theirs))))
              \in Subsequences(Merged(from, ours, theirs))
<1>1. PICK mine : mine = Hunks(from, ours) /\ InOrder(mine, S, 0, Len(from))
  BY HunksFacts
<1>2. PICK his : his = Hunks(from, theirs) /\ InOrder(his, S, 0, Len(from))
  BY HunksFacts
<1>3. TwoSides(from, mine, his, S)
  BY <1>1, <1>2 DEF TwoSides
<1>4. PICK w \in Seq(S) : w = Merged(from, ours, theirs) /\ w = Joined(from, mine, his)
  BY <1>1, <1>2, <1>3, MergeHolds DEF Merged
<1>5. PICK e : Embeds(e, Untouched(from, mine, his), from, w)
  BY <1>3, <1>4, MergeKeeps
<1>6. Lines(from, Untouched(from, mine, his)) \in Subsequences(w)
  BY <1>4, <1>5, EmbeddedIsRead
<1> QED
  BY <1>1, <1>2, <1>4, <1>6 DEF Untouched

-----------------------------------------------------------------------------
(***************************************************************************)
(* The texts of the host are texts, whatever is edited, reloaded, stored.  *)
(***************************************************************************)

TextsInv == current \in Seq(Line) /\ base \in Seq(Line) /\ disk \in Seq(Line)

\* An edit of a text is a text.
LEMMA EditedFacts ==
  ASSUME NEW text \in Seq(Line), NEW new \in Edited(text)
  PROVE  new \in Seq(Line)
<1>1. PICK n \in Nat : n = Len(text)
  OBVIOUS
<1>2. ASSUME NEW p \in 1..n + 1 PROVE SubSeq(text, 1, p - 1) \in Seq(Line) /\ SubSeq(text, p, n) \in Seq(Line)
  <2>1. 1 \in Int /\ p - 1 \in Int /\ p \in Int /\ n \in Int
    OBVIOUS
  <2>2. (\A i \in 1..p - 1 : text[i] \in Line) /\ (\A i \in p..n : text[i] \in Line)
    <3>1. (\A i \in 1..p - 1 : i \in 1..n) /\ (\A i \in p..n : i \in 1..n)
      OBVIOUS
    <3> QED
      BY <1>1, <3>1
  <2> QED
    BY <2>1, <2>2, SubSeqProperties
<1>3. ASSUME NEW p \in 1..n + 1, NEW line \in Line PROVE InsertAt(text, p, line) \in Seq(Line)
  <2>1. PICK x \in Seq(Line), y \in Seq(Line) : x = SubSeq(text, 1, p - 1) /\ y = SubSeq(text, p, n)
    BY <1>2
  <2>2. x \o <<line>> \o y \in Seq(Line)
    <3>1. <<line>> \in Seq(Line)
      OBVIOUS
    <3> QED
      BY <3>1
  <2> QED
    BY <1>1, <2>1, <2>2 DEF InsertAt
<1>4. ASSUME NEW p \in 1..n PROVE RemoveAt(text, p) \in Seq(Line)
  <2>0. p \in 1..n + 1 /\ p + 1 \in 1..n + 1
    OBVIOUS
  <2>1. PICK x \in Seq(Line), y \in Seq(Line) : x = SubSeq(text, 1, p - 1) /\ y = SubSeq(text, p + 1, n)
    BY <1>2, <2>0
  <2>2. x \o y \in Seq(Line)
    OBVIOUS
  <2> QED
    BY <1>1, <2>1, <2>2 DEF RemoveAt
<1>5. DOMAIN text = 1..n
  BY <1>1
<1>6. \/ \E p \in 1..n + 1 : \E line \in Line : new = InsertAt(text, p, line)
      \/ \E p \in 1..n : new = RemoveAt(text, p)
  BY <1>1, <1>5 DEF Edited
<1> QED
  BY <1>3, <1>4, <1>6

\* They are at first.
LEMMA InitTexts == Init => TextsInv
<1> SUFFICES ASSUME Init PROVE TextsInv
  OBVIOUS
<1>1. MaxStart \in Nat
  BY LimitsAssumption
<1>2. PICK k \in 0..MaxStart : base \in [1..k -> Line]
  BY DEF Init, Texts
<1>3. base \in Seq(Line)
  BY <1>1, <1>2
<1> QED
  BY <1>3 DEF Init, TextsInv

\* No step makes them anything else: a reload by what the hunks rebuild.
LEMMA NextTexts == TextsInv /\ [Next]_vars => TextsInv'
<1> SUFFICES ASSUME TextsInv, [Next]_vars PROVE TextsInv'
  OBVIOUS
<1>1. current \in Seq(Line) /\ base \in Seq(Line) /\ disk \in Seq(Line)
  BY DEF TextsInv
<1>2. CASE DocumentDispatch
  BY <1>1, <1>2, EditedFacts DEF DocumentDispatch, TextsInv
<1>3. CASE AgentWrites
  BY <1>1, <1>3, EditedFacts DEF AgentWrites, TextsInv
<1>4. CASE ReloadMirror
  <2>1. PICK target : target = IF current = base THEN disk ELSE Merged(base, current, disk)
    OBVIOUS
  <2>2. target \in Seq(Line)
    <3>1. Merged(base, current, disk) \in Seq(Line)
      BY <1>1, MergeKeepsUntouched
    <3> QED
      BY <1>1, <2>1, <3>1
  <2>3. current' = Applied(current, Hunks(current, target))
    BY <1>4, <2>1 DEF ReloadMirror
  <2>4. Applied(current, Hunks(current, target)) = target
    BY <1>1, <2>2, HunksFacts
  <2> QED
    BY <1>1, <1>4, <2>2, <2>3, <2>4 DEF ReloadMirror, TextsInv
<1>5. CASE StoreDocument
  BY <1>1, <1>5 DEF StoreDocument, TextsInv
<1>6. CASE UNCHANGED vars
  BY <1>1, <1>6 DEF vars, TextsInv
<1> QED
  BY <1>2, <1>3, <1>4, <1>5, <1>6 DEF Next

\* They are texts always.
LEMMA TextsAlways == Spec => []TextsInv
<1>1. Init => TextsInv
  BY InitTexts
<1>2. TextsInv /\ [Next]_vars => TextsInv'
  BY NextTexts
<1> QED
  BY <1>1, <1>2, PTL DEF Spec

-----------------------------------------------------------------------------
(***************************************************************************)
(* The theorems.                                                           *)
(***************************************************************************)

\* The diff of any texts is right.
LEMMA TextsDiff == TextsInv => DiffIsRight
<1> SUFFICES ASSUME TextsInv PROVE DiffIsRight
  OBVIOUS
<1>1. {current, base, disk} \subseteq Seq(Line)
  BY DEF TextsInv
<1>2. HunksRebuild
  <2> SUFFICES ASSUME NEW old \in {base, current, disk}, NEW new \in {base, current, disk}
               PROVE  Applied(old, Hunks(old, new)) = new
    BY DEF HunksRebuild
  <2>1. old \in Seq(Line) /\ new \in Seq(Line)
    BY <1>1
  <2> QED
    BY <2>1, HunksFacts
<1>3. DiffIsExact
  <2> SUFFICES ASSUME NEW old \in {base, current, disk}, NEW new \in {base, current, disk},
                      Len(old) * Len(new) <= CellCap
               PROVE  Len(Kept(old, new)) = Max({Len(part) : part \in Subsequences(old) \cap Subsequences(new)})
    BY DEF DiffIsExact
  <2>1. old \in Seq(Line) /\ new \in Seq(Line)
    BY <1>1
  <2> QED
    BY <2>1, DiffExact
<1> QED
  BY <1>2, <1>3 DEF DiffIsRight

\* The diff the host reloads with is right for every pair of texts, of any length:
\* its hunks turn the one into the other, and while the table of lcs_steps is small
\* enough to be filled no diff keeps more lines (reload.rs, hunks and lcs_steps).
THEOREM DiffIsAlwaysRight == Spec => []DiffIsRight
<1>1. Spec => []TextsInv
  BY TextsAlways
<1>2. TextsInv => DiffIsRight
  BY TextsDiff
<1> QED
  BY <1>1, <1>2, PTL

\* The merge of any texts lets what only one side changed pass.
LEMMA TextsShared == TextsInv => SharedLandsOnce
<1> SUFFICES ASSUME TextsInv PROVE SharedLandsOnce
  OBVIOUS
<1>1. current \in Seq(Line) /\ base \in Seq(Line) /\ disk \in Seq(Line)
  BY DEF TextsInv
<1>2. Merged(base, base, disk) = disk
  BY <1>1, MergeOfOne
<1>3. Merged(base, current, base) = current /\ Merged(base, current, current) = current
  BY <1>1, MergeOfOne
<1> QED
  BY <1>2, <1>3 DEF SharedLandsOnce

\* A side that changed nothing changes nothing in the merge, and what both sides
\* changed alike lands once, for all texts (reload.rs, merged).
THEOREM SharedAlwaysLandsOnce == Spec => []SharedLandsOnce
<1>1. Spec => []TextsInv
  BY TextsAlways
<1>2. TextsInv => SharedLandsOnce
  BY TextsShared
<1> QED
  BY <1>1, <1>2, PTL

\* The merge of any texts loses nothing.
LEMMA TextsMerge == TextsInv => MergeLosesNothing
<1> SUFFICES ASSUME TextsInv PROVE MergeLosesNothing
  OBVIOUS
<1>1. current \in Seq(Line) /\ base \in Seq(Line) /\ disk \in Seq(Line)
  BY DEF TextsInv
<1>2. NobodysLinesDropped
  BY <1>1, MergeDropsNobody DEF NobodysLinesDropped, Merge
<1>3. UntouchedStays
  BY <1>1, MergeKeepsUntouched DEF UntouchedStays, UntouchedLines, Merge
<1> QED
  BY <1>2, <1>3 DEF MergeLosesNothing

\* Whatever the clients and the agent wrote, the merge holds every line either wrote
\* and, in their order, every line neither touched (reload.rs, merged).
THEOREM MergeNeverLoses == Spec => []MergeLosesNothing
<1>1. Spec => []TextsInv
  BY TextsAlways
<1>2. TextsInv => MergeLosesNothing
  BY TextsMerge
<1> QED
  BY <1>1, <1>2, PTL

\* A reload leaves the mirror at the disk text if no client had edited it, and at the
\* merge otherwise: the spans computed over the mirror get it exactly there
\* (server.rs, reload_mirror; reload.rs, spans).
THEOREM ReloadReachesItsTarget ==
  Spec => [][ReloadMirror => current' = IF current = base THEN disk ELSE Merge]_vars
<1>1. TextsInv /\ [Next]_vars => [ReloadMirror => current' = IF current = base THEN disk ELSE Merge]_vars
  <2> SUFFICES ASSUME TextsInv, ReloadMirror PROVE current' = IF current = base THEN disk ELSE Merge
    OBVIOUS
  <2>1. current \in Seq(Line) /\ base \in Seq(Line) /\ disk \in Seq(Line)
    BY DEF TextsInv
  <2>2. PICK target \in Seq(Line) : target = IF current = base THEN disk ELSE Merge
    <3>1. Merged(base, current, disk) \in Seq(Line)
      BY <2>1, MergeKeepsUntouched
    <3> QED
      BY <2>1, <3>1 DEF Merge
  <2>3. current' = Applied(current, Hunks(current, target))
    BY <2>2 DEF ReloadMirror, Merge
  <2> QED
    BY <2>1, <2>2, <2>3, HunksFacts
<1>2. Spec => []TextsInv
  BY TextsAlways
<1> QED
  BY <1>1, <1>2, PTL DEF Spec
=============================================================================
