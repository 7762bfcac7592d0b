-------------------------- MODULE PreprocessProofs --------------------------
(***************************************************************************)
(* What preprocess.cpp makes of the times of a message, for every message,  *)
(* with the two lemmas on loops that this takes: a set that 0 is in and     *)
(* each n + 1 whose n it has is all of Nat, and a loop of finitely many     *)
(* rounds comes to an end.                                                  *)
(***************************************************************************)
EXTENDS Preprocess, SequenceTheorems, FiniteSetTheorems, WellFoundedInduction, TLAPS

-----------------------------------------------------------------------------
(* Loops. *)

LEMMA Least ==
  ASSUME NEW T \in SUBSET Nat, T # {}
  PROVE  \E n \in T : \A k \in T : n <= k
<1> DEFINE R == OpToRel(<, Nat)
<1>1. IsWellFoundedOn(R, Nat)
  BY NatLessThanWellFounded
<1> HIDE DEF R
<1>2. PICK n \in T : \A k \in T : ~ (<<k, n>> \in R)
  BY <1>1, WFMin
<1>3. ASSUME NEW k \in T  PROVE n <= k
  <2>1. <<k, n>> \notin R
    BY <1>2
  <2>2. ~ (k < n)
    BY <2>1 DEF R, OpToRel
  <2> QED  BY <2>2
<1> QED  BY <1>2, <1>3

LEMMA SetInduction ==
  ASSUME NEW S, 0 \in S, \A n \in Nat : n \in S => n + 1 \in S
  PROVE  Nat \subseteq S
<1> SUFFICES ASSUME Nat \ S # {}  PROVE FALSE
  OBVIOUS
<1>1. PICK n \in Nat \ S : \A k \in Nat \ S : n <= k
  <2> DEFINE T == Nat \ S
  <2>1. T \in SUBSET Nat /\ T # {}
    OBVIOUS
  <2> HIDE DEF T
  <2>2. \E m \in T : \A k \in T : m <= k
    BY <2>1, Least
  <2> QED BY <2>2 DEF T
<1>2. n # 0 /\ n - 1 \in Nat /\ n - 1 \notin Nat \ S
  BY <1>1
<1> QED  BY <1>2

\* f is made by n steps of G from a.
Loop(f, S, a, n, G) ==
  /\ f \in [0 .. n -> S] /\ f[0] = a
  /\ \A i \in 1 .. n : f[i] = G[<<i, f[i - 1]>>]

LEMMA RecursionOn ==
  ASSUME NEW S, NEW a \in S, NEW n \in Nat, NEW G \in [(1 .. n) \X S -> S]
  PROVE  \E f : Loop(f, S, a, n, G)
<1> DEFINE Good == {k \in Nat : k <= n => \E f : Loop(f, S, a, k, G)}
<1>1. 0 \in Good
  <2>1. Loop([i \in 0 .. 0 |-> a], S, a, 0, G)
    BY DEF Loop
  <2> QED BY <2>1
<1>2. ASSUME NEW k \in Nat, k \in Good  PROVE k + 1 \in Good
  <2> SUFFICES ASSUME k + 1 <= n  PROVE \E f : Loop(f, S, a, k + 1, G)
    OBVIOUS
  <2>1. PICK f : Loop(f, S, a, k, G)
    BY <1>2
  <2> DEFINE g == [i \in 0 .. k + 1 |-> IF i = k + 1 THEN G[<<k + 1, f[k]>>] ELSE f[i]]
  <2>2. f[k] \in S /\ <<k + 1, f[k]>> \in (1 .. n) \X S
    BY <2>1 DEF Loop
  <2>3. g \in [0 .. k + 1 -> S]
    BY <2>1, <2>2 DEF Loop
  <2>4. g[0] = a
    BY <2>1 DEF Loop
  <2>5. ASSUME NEW i \in 1 .. k + 1 PROVE g[i] = G[<<i, g[i - 1]>>]
    <3>1. CASE i = k + 1
      <4>1. g[i] = G[<<k + 1, f[k]>>] /\ g[i - 1] = f[k]
        BY <3>1
      <4> QED BY <3>1, <4>1
    <3>2. CASE i # k + 1
      <4>1. i \in 1 .. k /\ g[i] = f[i] /\ g[i - 1] = f[i - 1]
        BY <3>2
      <4> QED BY <4>1, <2>1 DEF Loop
    <3> QED BY <3>1, <3>2
  <2> HIDE DEF g
  <2>6. Loop(g, S, a, k + 1, G)
    BY <2>3, <2>4, <2>5 DEF Loop
  <2> QED BY <2>6
<1> HIDE DEF Good
<1>3. n \in Good
  BY <1>1, <1>2, SetInduction
<1> QED BY <1>3 DEF Good
\* The same for a loop whose first round is apart.
LoopFrom1(f, S, a, n, G) ==
  /\ f \in [1 .. n -> S] /\ (n >= 1 => f[1] = a)
  /\ \A i \in 2 .. n : f[i] = G[<<i, f[i - 1]>>]

LEMMA LoopOn ==
  ASSUME NEW S, NEW a \in S, NEW n \in Nat, NEW G \in [(2 .. n) \X S -> S]
  PROVE  \E f : LoopFrom1(f, S, a, n, G)
<1>1. CASE n = 0
  <2>1. [i \in 1 .. n |-> a] \in [1 .. n -> S]
    OBVIOUS
  <2>2. 2 .. n = {}
    BY <1>1
  <2> QED  BY <1>1, <2>1, <2>2 DEF LoopFrom1
<1>2. CASE n >= 1
  <2> DEFINE H == [p \in (1 .. n - 1) \X S |-> G[<<p[1] + 1, p[2]>>]]
  <2>1. H \in [(1 .. n - 1) \X S -> S]
    <3> SUFFICES ASSUME NEW p \in (1 .. n - 1) \X S  PROVE G[<<p[1] + 1, p[2]>>] \in S
      OBVIOUS
    <3>1. p[1] + 1 \in 2 .. n /\ p[2] \in S
      BY <1>2
    <3> QED  BY <3>1
  <2>2. \A i \in 1 .. n - 1, x \in S : H[<<i, x>>] = G[<<i + 1, x>>]
    OBVIOUS
  <2> HIDE DEF H
  <2>3. n - 1 \in Nat
    BY <1>2
  <2>4. PICK g : Loop(g, S, a, n - 1, H)
    BY <2>1, <2>3, RecursionOn
  <2> DEFINE f == [i \in 1 .. n |-> g[i - 1]]
  <2>5. f \in [1 .. n -> S] /\ f[1] = a
    BY <1>2, <2>4 DEF Loop
  <2>6. ASSUME NEW i \in 2 .. n  PROVE f[i] = G[<<i, f[i - 1]>>]
    <3>1. i - 1 \in 1 .. n - 1 /\ i - 1 \in 1 .. n /\ (i - 1) + 1 = i /\ i \in 1 .. n
      BY <2>3
    <3>2. f[i] = g[i - 1] /\ f[i - 1] = g[(i - 1) - 1]
      BY <3>1
    <3>3. g[i - 1] = H[<<i - 1, g[(i - 1) - 1]>>] /\ g[(i - 1) - 1] \in S
      BY <2>4, <3>1 DEF Loop
    <3> QED  BY <2>2, <3>1, <3>2, <3>3
  <2> HIDE DEF f
  <2> QED  BY <2>5, <2>6 DEF LoopFrom1
<1> QED  BY <1>1, <1>2

\* Select is the last of the sequences its loop makes.
LEMMA SelectSteps ==
  ASSUME NEW S, NEW q \in Seq(S), NEW T
  PROVE  \E taken :
           /\ Select(q, T) = taken[Len(q)] /\ taken[0] = <<>>
           /\ \A i \in 1 .. Len(q) :
                taken[i] = IF q[i] \in T THEN Append(taken[i - 1], q[i]) ELSE taken[i - 1]
           /\ \A i \in 0 .. Len(q) : taken[i] \in Seq(S)
<1> DEFINE taken[i \in 0 .. Len(q)] ==
             IF i = 0 THEN <<>>
             ELSE IF q[i] \in T THEN Append(taken[i - 1], q[i]) ELSE taken[i - 1]
           G == [p \in (1 .. Len(q)) \X Seq(S) |->
                   IF q[p[1]] \in T THEN Append(p[2], q[p[1]]) ELSE p[2]]
<1>1. Select(q, T) = taken[Len(q)]
  BY DEF Select
<1>2. /\ Len(q) \in Nat /\ <<>> \in Seq(S)
      /\ G \in [(1 .. Len(q)) \X Seq(S) -> Seq(S)]
  <2>1. ASSUME NEW i \in 1 .. Len(q), NEW s \in Seq(S)
        PROVE  (IF q[i] \in T THEN Append(s, q[i]) ELSE s) \in Seq(S)
    BY q[i] \in S, AppendProperties
  <2> QED  BY <2>1
<1>3. \A i \in 1 .. Len(q), s \in Seq(S) :
         G[<<i, s>>] = IF q[i] \in T THEN Append(s, q[i]) ELSE s
  OBVIOUS
<1> HIDE DEF G
<1>4. PICK g : Loop(g, Seq(S), <<>>, Len(q), G)
  BY <1>2, RecursionOn
<1>5. g = [i \in 0 .. Len(q) |->
             IF i = 0 THEN <<>>
             ELSE IF q[i] \in T THEN Append(g[i - 1], q[i]) ELSE g[i - 1]]
  <2> DEFINE SS == Seq(S)
             n == Len(q)
  <2>1. /\ g \in [0 .. n -> SS] /\ g[0] = <<>>
        /\ \A i \in 1 .. n : g[i] = G[<<i, g[i - 1]>>]
    BY <1>4, Zenon DEF Loop
  <2>2. n \in Nat
    OBVIOUS
  <2> HIDE DEF SS, n
  <2>3. ASSUME NEW i \in 1 .. n
        PROVE  g[i] = IF q[i] \in T THEN Append(g[i - 1], q[i]) ELSE g[i - 1]
    <3>1. i - 1 \in 0 .. n /\ g[i - 1] \in SS /\ g[i] = G[<<i, g[i - 1]>>]
      BY <2>1, <2>2
    <3> QED  BY <1>3, <3>1 DEF SS, n
  <2>4. g = [i \in 0 .. n |->
               IF i = 0 THEN <<>>
               ELSE IF q[i] \in T THEN Append(g[i - 1], q[i]) ELSE g[i - 1]]
    <3>1. g = [i \in 0 .. n |-> g[i]]
      BY <2>1
    <3>2. \A i \in 0 .. n : i = 0 \/ i \in 1 .. n
      BY <2>2
    <3>3. \A i \in 0 .. n : g[i] = IF i = 0 THEN <<>>
                 ELSE IF q[i] \in T THEN Append(g[i - 1], q[i]) ELSE g[i - 1]
      BY <2>1, <2>3, <3>2
    <3> QED  BY <3>1, <3>3
  <2> QED  BY <2>4 DEF n
<1>6. taken = [i \in 0 .. Len(q) |->
                 IF i = 0 THEN <<>>
                 ELSE IF q[i] \in T THEN Append(taken[i - 1], q[i]) ELSE taken[i - 1]]
  BY <1>5
<1> HIDE DEF taken
<1>7. taken[0] = <<>>
  BY <1>2, <1>6
<1>8. ASSUME NEW i \in 1 .. Len(q)
      PROVE  taken[i] = IF q[i] \in T THEN Append(taken[i - 1], q[i]) ELSE taken[i - 1]
  <2>1. i \in 0 .. Len(q) /\ i # 0
    BY <1>2
  <2> QED  BY <1>6, <2>1
<1>9. \A i \in 0 .. Len(q) : taken[i] \in Seq(S)
  <2> DEFINE Good == {k \in Nat : k <= Len(q) => taken[k] \in Seq(S)}
  <2>1. 0 \in Good
    BY <1>2, <1>7
  <2>2. ASSUME NEW k \in Nat, k \in Good  PROVE k + 1 \in Good
    <3> SUFFICES ASSUME k + 1 <= Len(q)  PROVE taken[k + 1] \in Seq(S)
      OBVIOUS
    <3>1. k + 1 \in 1 .. Len(q) /\ (k + 1) - 1 = k /\ taken[k] \in Seq(S)
      BY <1>2, <2>2
    <3>2. taken[k + 1] = IF q[k + 1] \in T THEN Append(taken[k], q[k + 1]) ELSE taken[k]
      BY <1>8, <3>1
    <3>3. q[k + 1] \in S
      BY <3>1
    <3> QED  BY <3>1, <3>2, <3>3, AppendProperties
  <2> HIDE DEF Good
  <2>3. Nat \subseteq Good
    BY <2>1, <2>2, SetInduction
  <2> QED  BY <1>2, <2>3 DEF Good
<1> QED  BY <1>1, <1>7, <1>8, <1>9

\* Select takes elements of the set, in their order.
Selected(r, q, n, T) ==
  \E at \in [1 .. Len(r) -> 1 .. n] :
    /\ \A i \in 1 .. Len(r) : r[i] = q[at[i]] /\ r[i] \in T
    /\ \A i, j \in 1 .. Len(r) : i < j => at[i] < at[j]

LEMMA SelectFacts ==
  ASSUME NEW S, NEW q \in Seq(S), NEW T
  PROVE  Select(q, T) \in Seq(S) /\ Selected(Select(q, T), q, Len(q), T)
<1>1. Len(q) \in Nat /\ <<>> \in Seq(S)
  OBVIOUS
<1>2. PICK taken :
         /\ Select(q, T) = taken[Len(q)] /\ taken[0] = <<>>
         /\ \A i \in 1 .. Len(q) :
              taken[i] = IF q[i] \in T THEN Append(taken[i - 1], q[i]) ELSE taken[i - 1]
  BY SelectSteps
<1> DEFINE Good == {i \in Nat : i <= Len(q) => taken[i] \in Seq(S) /\ Selected(taken[i], q, i, T)}
<1>3. 0 \in Good
  <2>1. taken[0] = <<>>
    BY <1>2
  <2> DEFINE at == [i \in 1 .. 0 |-> 1]
  <2>2. at \in [1 .. 0 -> 1 .. 0]
    OBVIOUS
  <2>3. Len(<<>>) = 0 /\ 1 .. 0 = {}
    OBVIOUS
  <2>4. Selected(<<>>, q, 0, T)
    BY <2>2, <2>3 DEF Selected
  <2> QED  BY <1>1, <2>1, <2>4
<1>4. ASSUME NEW n \in Nat, n \in Good  PROVE n + 1 \in Good
  <2> SUFFICES ASSUME n + 1 <= Len(q)
               PROVE  taken[n + 1] \in Seq(S) /\ Selected(taken[n + 1], q, n + 1, T)
    OBVIOUS
  <2> DEFINE r == taken[n]
             x == q[n + 1]
  <2>1. r \in Seq(S) /\ Selected(r, q, n, T) /\ n + 1 \in 1 .. Len(q) /\ x \in S
    BY <1>1, <1>4
  <2>2. taken[n + 1] = IF x \in T THEN Append(r, x) ELSE r
    <3>1. n + 1 \in 1 .. Len(q) /\ (n + 1) - 1 = n
      BY <1>1
    <3> QED  BY <1>2, <3>1
  <2> HIDE DEF r, x
  <2>3. PICK at \in [1 .. Len(r) -> 1 .. n] :
           /\ \A i \in 1 .. Len(r) : r[i] = q[at[i]] /\ r[i] \in T
           /\ \A i, j \in 1 .. Len(r) : i < j => at[i] < at[j]
    BY <2>1 DEF Selected
  <2>4. Len(r) \in Nat
    BY <2>1
  <2>5. CASE x \notin T
    <3>1. at \in [1 .. Len(r) -> 1 .. n + 1]
      BY <2>3
    <3>2. Selected(r, q, n + 1, T)
      BY <2>3, <3>1 DEF Selected
    <3> QED  BY <2>1, <2>2, <2>5, <3>2
  <2>6. CASE x \in T
    <3> DEFINE s == Append(r, x)
               to == [i \in 1 .. Len(r) + 1 |-> IF i = Len(r) + 1 THEN n + 1 ELSE at[i]]
    <3>1. s \in Seq(S) /\ Len(s) = Len(r) + 1 /\ s[Len(r) + 1] = x
          /\ \A i \in 1 .. Len(r) : s[i] = r[i]
      BY <2>1, AppendProperties
    <3>2. /\ to \in [1 .. Len(r) + 1 -> 1 .. n + 1] /\ to[Len(r) + 1] = n + 1
          /\ \A i \in 1 .. Len(r) : to[i] = at[i] /\ at[i] \in 1 .. n
      <4>1. \A i \in 1 .. Len(r) : at[i] \in 1 .. n /\ i # Len(r) + 1 /\ i \in 1 .. Len(r) + 1
        BY <2>3, <2>4
      <4>2. \A i \in 1 .. Len(r) + 1 : (IF i = Len(r) + 1 THEN n + 1 ELSE at[i]) \in 1 .. n + 1
        BY <2>4, <4>1
      <4>3. to \in [1 .. Len(r) + 1 -> 1 .. n + 1]
        BY <4>2
      <4> QED  BY <2>4, <4>1, <4>3
    <3>3. \A i \in 1 .. Len(r) + 1 : i = Len(r) + 1 \/ i \in 1 .. Len(r)
      BY <2>4
    <3> HIDE DEF s, to
    <3>4. \A i \in 1 .. Len(s) : s[i] = q[to[i]] /\ s[i] \in T
      BY <2>3, <2>6, <3>1, <3>2, <3>3 DEF x
    <3>5. ASSUME NEW i \in 1 .. Len(s), NEW j \in 1 .. Len(s), i < j  PROVE to[i] < to[j]
      <4>1. i \in 1 .. Len(r)
        BY <2>4, <3>1, <3>5
      <4>2. CASE j = Len(r) + 1
        BY <3>2, <4>1, <4>2
      <4>3. CASE j \in 1 .. Len(r)
        BY <2>3, <3>2, <3>5, <4>1, <4>3
      <4> QED  BY <3>1, <3>3, <4>2, <4>3
    <3>6. Selected(s, q, n + 1, T)
      BY <3>1, <3>2, <3>4, <3>5 DEF Selected
    <3>7. taken[n + 1] = s
      BY <2>2, <2>6 DEF s
    <3> QED  BY <3>1, <3>6, <3>7
  <2> QED  BY <2>5, <2>6
<1> HIDE DEF Good
<1>5. Len(q) \in Good
  BY <1>1, <1>3, <1>4, SetInduction
<1> QED  BY <1>1, <1>2, <1>5 DEF Good

\* All of them, if the set has all.
LEMMA SelectAll ==
  ASSUME NEW S, NEW q \in Seq(S), NEW T, \A i \in 1 .. Len(q) : q[i] \in T
  PROVE  Select(q, T) = q
<1>1. PICK taken :
         /\ Select(q, T) = taken[Len(q)] /\ taken[0] = <<>>
         /\ \A i \in 1 .. Len(q) :
              taken[i] = IF q[i] \in T THEN Append(taken[i - 1], q[i]) ELSE taken[i - 1]
  BY SelectSteps
<1>2. Len(q) \in Nat /\ \A i \in 1 .. Len(q) : q[i] \in S
  OBVIOUS
<1> DEFINE Good == {n \in Nat : n <= Len(q) =>
                      /\ taken[n] \in Seq(S) /\ Len(taken[n]) = n
                      /\ \A i \in 1 .. n : taken[n][i] = q[i]}
<1>3. 0 \in Good
  <2>1. taken[0] = <<>> /\ <<>> \in Seq(S) /\ Len(<<>>) = 0 /\ 1 .. 0 = {}
    BY <1>1
  <2>2. taken[0] \in Seq(S) /\ Len(taken[0]) = 0 /\ \A i \in 1 .. 0 : taken[0][i] = q[i]
    BY <2>1
  <2> QED  BY <2>2
<1>4. ASSUME NEW n \in Nat, n \in Good  PROVE n + 1 \in Good
  <2> DEFINE r == taken[n]
             x == q[n + 1]
  <2> SUFFICES ASSUME n + 1 <= Len(q)
               PROVE  /\ taken[n + 1] \in Seq(S) /\ Len(taken[n + 1]) = n + 1
                      /\ \A i \in 1 .. n + 1 : taken[n + 1][i] = q[i]
    OBVIOUS
  <2>1. r \in Seq(S) /\ Len(r) = n /\ \A i \in 1 .. n : r[i] = q[i]
    BY <1>2, <1>4
  <2>2. n + 1 \in 1 .. Len(q) /\ (n + 1) - 1 = n
    BY <1>2
  <2>3. taken[n + 1] = Append(r, x) /\ x \in S
    BY <1>1, <1>2, <2>2
  <2> HIDE DEF r
  <2>4. /\ Append(r, x) \in Seq(S) /\ Len(Append(r, x)) = n + 1
        /\ \A i \in 1 .. n : Append(r, x)[i] = r[i]
        /\ Append(r, x)[n + 1] = x
    BY <2>1, <2>3, AppendProperties
  <2>5. ASSUME NEW i \in 1 .. n + 1  PROVE Append(r, x)[i] = q[i]
    <3>1. i \in 1 .. n \/ i = n + 1
      OBVIOUS
    <3> QED  BY <2>1, <2>4, <3>1
  <2> QED  BY <2>3, <2>4, <2>5
<1> HIDE DEF Good
<1>5. Len(q) \in Good
  BY <1>2, <1>3, <1>4, SetInduction
<1>6. /\ taken[Len(q)] \in Seq(S) /\ Len(taken[Len(q)]) = Len(q)
      /\ \A i \in 1 .. Len(q) : taken[Len(q)][i] = q[i]
  BY <1>2, <1>5 DEF Good
<1> DEFINE r == taken[Len(q)]
<1>7. r = q
  <2> HIDE DEF r
  <2>1. r \in Seq(S) /\ Len(r) = Len(q) /\ \A i \in 1 .. Len(q) : r[i] = q[i]
    BY <1>6 DEF r
  <2> QED  BY <2>1, SeqEqual
<1> QED  BY <1>1, <1>7

\* From leaves what is behind the front elements that are less than x.
LEMMA FromFacts ==
  ASSUME NEW q \in Seq(Int), NEW x \in Int
  PROVE  \E k \in 0 .. Len(q) :
           /\ From(q, x) = SubSeq(q, k + 1, Len(q))
           /\ \A j \in 1 .. k : q[j] < x
           /\ k = Len(q) \/ q[k + 1] >= x
<1> DEFINE P(i) == /\ \A j \in 1 .. i : q[j] < x
                   /\ i = Len(q) \/ q[i + 1] >= x
           A == {i \in 0 .. Len(q) : i = Len(q) \/ q[i + 1] >= x}
<1>1. A \in SUBSET Nat /\ Len(q) \in A
  OBVIOUS
<1>2. PICK k \in A : \A j \in A : k <= j
  <2> HIDE DEF A
  <2> QED  BY <1>1, Least
<1>3. ASSUME NEW j \in 1 .. k  PROVE q[j] < x
  <2>1. k \in 0 .. Len(q) /\ Len(q) \in Nat
    OBVIOUS
  <2>2. j - 1 \in 0 .. Len(q) /\ j \in 1 .. Len(q) /\ j - 1 < k
    BY <2>1
  <2>3. j - 1 \notin A
    <3> HIDE DEF A
    <3> QED  BY <1>2, <2>1, <2>2
  <2>4. q[j] \in Int /\ ~(q[(j - 1) + 1] >= x) /\ (j - 1) + 1 = j
    BY <2>2, <2>3
  <2> QED  BY <2>4
<1>4. \E i \in 0 .. Len(q) : P(i)
  BY <1>2, <1>3
<1> DEFINE c == CHOOSE i \in 0 .. Len(q) : P(i)
<1>5. c \in 0 .. Len(q) /\ P(c)
  BY <1>4
<1>6. From(q, x) = SubSeq(q, c + 1, Len(q))
  BY DEF From
<1> QED  BY <1>5, <1>6

-----------------------------------------------------------------------------
(* avia_handler *)

\* The step that replaces a jump is 4 us, and a jump is a millisecond or more.
AviaAssumption == MsUnits \in Nat /\ Patch \in Nat /\ Patch <= MsUnits

\* Messages as the driver makes them: no point is before the header.
IsMessage(m) ==
  m \in Seq([line : Int, t : Nat, far : BOOLEAN])

\* The loop over the points gives each its time.
LEMMA CurvatureSteps ==
  ASSUME AviaAssumption, NEW m, IsMessage(m)
  PROVE  LET c == Curvature(m)
         IN  /\ c \in [1 .. Len(m) -> Int]
             /\ \A i \in 1 .. Len(m) :
                  c[i] = IF ~Valid(m[i]) THEN 0
                         ELSE IF i = 1 THEN (IF m[i].t < MsUnits THEN m[i].t ELSE 0)
                         ELSE UnlessJump(m[i].t, c[i - 1])
<1> DEFINE n == Len(m)
           First == IF n = 0 \/ ~Valid(m[1]) THEN 0 ELSE IF m[1].t < MsUnits THEN m[1].t ELSE 0
           G == [p \in (2 .. n) \X Int |->
                   IF ~Valid(m[p[1]]) THEN 0 ELSE UnlessJump(m[p[1]].t, p[2])]
           c[i \in 1 .. n] ==
             IF ~Valid(m[i]) THEN 0
             ELSE IF i = 1 THEN (IF m[i].t < MsUnits THEN m[i].t ELSE 0)
             ELSE UnlessJump(m[i].t, c[i - 1])
<1>1. Curvature(m) = c
  BY DEF Curvature
<1>2. n \in Nat /\ \A i \in 1 .. n : m[i].t \in Nat
  <2> DEFINE Rec == [line : Int, t : Nat, far : BOOLEAN]
  <2>1. m \in Seq(Rec) /\ \A r \in Rec : r.t \in Nat
    BY DEF IsMessage
  <2> HIDE DEF Rec
  <2> QED  BY <2>1
<1> HIDE DEF n
<1>3. First \in Int
  BY <1>2
<1>4. \A i \in 2 .. n, x \in Int : UnlessJump(m[i].t, x) \in Int
  BY <1>2 DEF UnlessJump, AviaAssumption
<1>5. G \in [(2 .. n) \X Int -> Int]
  BY <1>4
<1>6. \A i \in 2 .. n, x \in Int :
         G[<<i, x>>] = IF ~Valid(m[i]) THEN 0 ELSE UnlessJump(m[i].t, x)
  OBVIOUS
<1> HIDE DEF G
<1>7. PICK g : LoopFrom1(g, Int, First, n, G)
  <2> HIDE DEF First, c
  <2>1. n \in Nat
    BY <1>2
  <2> QED  BY <1>3, <1>5, <2>1, LoopOn
<1>8. \A i \in 1 .. n :
         g[i] = IF ~Valid(m[i]) THEN 0
                ELSE IF i = 1 THEN (IF m[i].t < MsUnits THEN m[i].t ELSE 0)
                ELSE UnlessJump(m[i].t, g[i - 1])
  <2> SUFFICES ASSUME NEW i \in 1 .. n
               PROVE  g[i] = IF ~Valid(m[i]) THEN 0
                             ELSE IF i = 1 THEN (IF m[i].t < MsUnits THEN m[i].t ELSE 0)
                             ELSE UnlessJump(m[i].t, g[i - 1])
    OBVIOUS
  <2>1. CASE i = 1
    BY <1>2, <1>7, <2>1 DEF LoopFrom1
  <2>2. CASE i # 1
    <3>1. i \in 2 .. n /\ i - 1 \in 1 .. n
      BY <1>2, <2>2
    <3>2. g[i] = G[<<i, g[i - 1]>>] /\ g[i - 1] \in Int
      BY <1>7, <3>1 DEF LoopFrom1
    <3> QED  BY <1>6, <2>2, <3>1, <3>2
  <2> QED  BY <2>1, <2>2
<1>9. g = [i \in 1 .. n |->
             IF ~Valid(m[i]) THEN 0
             ELSE IF i = 1 THEN (IF m[i].t < MsUnits THEN m[i].t ELSE 0)
             ELSE UnlessJump(m[i].t, g[i - 1])]
  <2>1. g = [i \in 1 .. n |-> g[i]]
    BY <1>7 DEF LoopFrom1
  <2> QED  BY <1>8, <2>1
<1>10. c = [i \in 1 .. n |->
              IF ~Valid(m[i]) THEN 0
              ELSE IF i = 1 THEN (IF m[i].t < MsUnits THEN m[i].t ELSE 0)
              ELSE UnlessJump(m[i].t, c[i - 1])]
  BY <1>9
<1> HIDE DEF c
<1>11. ASSUME NEW k \in Nat, k <= n  PROVE \A i \in 1 .. k : c[i] \in Int
  <2> DEFINE Good == {j \in Nat : j <= n => \A i \in 1 .. j : c[i] \in Int}
  <2>1. 0 \in Good
    OBVIOUS
  <2>2. ASSUME NEW j \in Nat, j \in Good  PROVE j + 1 \in Good
    <3> SUFFICES ASSUME j + 1 <= n  PROVE c[j + 1] \in Int
      BY <1>2, <2>2
    <3>1. j + 1 \in 1 .. n /\ (j # 0 => j \in 1 .. j)
      BY <1>2
    <3>2. j # 0 => c[j] \in Int /\ j + 1 \in 2 .. n /\ (j + 1) - 1 = j
      BY <1>2, <2>2, <3>1
    <3>3. c[j + 1] = IF ~Valid(m[j + 1]) THEN 0
                     ELSE IF j + 1 = 1 THEN (IF m[j + 1].t < MsUnits THEN m[j + 1].t ELSE 0)
                     ELSE UnlessJump(m[j + 1].t, c[(j + 1) - 1])
      BY <1>10, <3>1
    <3>4. CASE j = 0
      BY <1>2, <3>1, <3>3, <3>4
    <3>5. CASE j # 0
      BY <1>4, <3>2, <3>3, <3>5
    <3> QED  BY <3>4, <3>5
  <2> HIDE DEF Good
  <2>3. k \in Good
    BY <2>1, <2>2, SetInduction
  <2> QED  BY <1>11, <2>3 DEF Good
<1>12. c \in [1 .. n -> Int]
  <2>1. \A i \in 1 .. n : c[i] \in Int
    BY <1>2, <1>11
  <2>2. c = [i \in 1 .. n |-> c[i]]
    BY <1>10
  <2> QED  BY <2>1, <2>2
<1> QED  BY <1>1, <1>10, <1>12 DEF n

\* What AviaTimes says is true of every message, whatever its lines and gaps.
THEOREM AviaTimesHolds ==
  ASSUME AviaAssumption, NEW m, IsMessage(m)  PROVE AviaTimes(m)
<1> DEFINE c == Curvature(m)
           n == Len(m)
           Jump(i) == m[i].t - (IF i = 1 THEN 0 ELSE m[i - 1].t) >= MsUnits
           whole == \A i \in 1 .. n : Valid(m[i])
           Before(i) == \A k \in 1 .. i : Valid(m[k]) /\ ~Jump(k)
<1> SUFFICES ASSUME \A i \in 1 .. n - 1 : m[i].t <= m[i + 1].t
             PROVE  /\ \A i \in 1 .. n : c[i] <= m[i].t
                    /\ \A i \in 1 .. n : Before(i) => c[i] = m[i].t
                    /\ whole => \A i, k \in KeptPoints(m) : i < k => c[i] <= c[k]
  BY DEF AviaTimes
<1>1. n \in Nat /\ \A i \in 1 .. n : m[i].t \in Nat
  <2> DEFINE Rec == [line : Int, t : Nat, far : BOOLEAN]
  <2>1. m \in Seq(Rec) /\ \A r \in Rec : r.t \in Nat
    BY DEF IsMessage
  <2> HIDE DEF Rec
  <2> QED  BY <2>1
<1>2. /\ c \in [1 .. n -> Int]
      /\ \A i \in 1 .. n :
           c[i] = IF ~Valid(m[i]) THEN 0
                  ELSE IF i = 1 THEN (IF m[i].t < MsUnits THEN m[i].t ELSE 0)
                  ELSE UnlessJump(m[i].t, c[i - 1])
  BY CurvatureSteps
<1> HIDE DEF c, n
<1>3. \A i \in 2 .. n : i - 1 \in 1 .. n /\ i \in 1 .. n /\ m[i - 1].t <= m[i].t
                        /\ c[i - 1] \in Int /\ m[i].t \in Nat /\ m[i - 1].t \in Nat
  <2> SUFFICES ASSUME NEW i \in 2 .. n
               PROVE  i - 1 \in 1 .. n /\ i \in 1 .. n /\ m[i - 1].t <= m[i].t
                      /\ c[i - 1] \in Int /\ m[i].t \in Nat /\ m[i - 1].t \in Nat
    OBVIOUS
  <2>1. i - 1 \in 1 .. n - 1 /\ i - 1 \in 1 .. n /\ i \in 1 .. n /\ (i - 1) + 1 = i
    BY <1>1
  <2> QED  BY <1>1, <1>2, <2>1
\* The times after k points, by induction over k.
<1> DEFINE So(k) == /\ c[k] <= m[k].t
                    /\ Before(k) => c[k] = m[k].t
                    /\ k > 1 /\ Valid(m[k]) => c[k - 1] <= c[k]
<1>4. So(1) \/ n = 0
  <2> SUFFICES ASSUME n # 0  PROVE So(1)
    OBVIOUS
  <2>1. 1 \in 1 .. n /\ m[1].t \in Nat
    BY <1>1
  <2>2. c[1] = IF ~Valid(m[1]) THEN 0 ELSE IF m[1].t < MsUnits THEN m[1].t ELSE 0
    BY <1>2, <2>1
  <2>3. Before(1) => Valid(m[1]) /\ ~(m[1].t - 0 >= MsUnits)
    OBVIOUS
  <2> HIDE DEF Before
  <2> QED  BY <2>1, <2>2, <2>3 DEF AviaAssumption
<1>5. ASSUME NEW k \in 2 .. n, So(k - 1)  PROVE So(k)
  <2>1. c[k] = IF ~Valid(m[k]) THEN 0 ELSE UnlessJump(m[k].t, c[k - 1])
    BY <1>1, <1>2
  <2>2. /\ Before(k) => Before(k - 1)
        /\ Before(k) => Valid(m[k]) /\ ~(m[k].t - m[k - 1].t >= MsUnits)
    OBVIOUS
  <2> DEFINE x == c[k - 1]
             s == m[k - 1].t
             t == m[k].t
  <2>3. x \in Int /\ s \in Nat /\ t \in Nat /\ s <= t /\ x <= s /\ (Before(k - 1) => x = s)
    BY <1>3, <1>5
  <2> HIDE DEF x, s, t
  <2>4. c[k] = (IF ~Valid(m[k]) THEN 0 ELSE UnlessJump(t, x))
        /\ (Before(k) => Valid(m[k]) /\ ~(t - s >= MsUnits) /\ x = s)
    BY <2>1, <2>2, <2>3 DEF x, s, t
  <2>5. UnlessJump(t, x) = IF t - x < MsUnits THEN t ELSE x + Patch
    BY <2>3 DEF UnlessJump, Distance, AviaAssumption
  <2>6. UnlessJump(t, x) <= t /\ x <= UnlessJump(t, x)
        /\ (x = s /\ ~(t - s >= MsUnits) => UnlessJump(t, x) = t)
    BY <2>3, <2>5 DEF AviaAssumption
  <2> HIDE DEF Before
  <2>7. c[k] <= t /\ (Before(k) => c[k] = t) /\ (Valid(m[k]) => x <= c[k])
    BY <2>3, <2>4, <2>6
  <2> QED  BY <2>7 DEF x, t
<1> DEFINE All == {k \in Nat : k <= n => \A i \in 1 .. k : So(i)}
<1>6. n \in All
  <2>1. 0 \in All
    OBVIOUS
  <2>2. ASSUME NEW k \in Nat, k \in All  PROVE k + 1 \in All
    <3> SUFFICES ASSUME k + 1 <= n  PROVE So(k + 1)
      <4> HIDE DEF So
      <4> QED  BY <1>1, <2>2
    <3>1. CASE k = 0
      <4> HIDE DEF So
      <4>1. k + 1 = 1 /\ n # 0
        BY <1>1, <3>1
      <4> QED  BY <1>4, <4>1
    <3>2. CASE k # 0
      <4> HIDE DEF So
      <4>1. k + 1 \in 2 .. n /\ (k + 1) - 1 = k /\ k \in 1 .. k /\ k <= n
        BY <1>1, <3>2
      <4>2. So((k + 1) - 1)
        BY <2>2, <4>1
      <4> QED  BY <1>5, <4>1, <4>2
    <3> QED  BY <3>1, <3>2
  <2> HIDE DEF All
  <2> QED  BY <1>1, <2>1, <2>2, SetInduction
<1>7. \A i \in 1 .. n : So(i)
  <2> HIDE DEF So
  <2> QED  BY <1>1, <1>6
\* And so they do not turn back between points that are apart.
<1>8. ASSUME whole, NEW i \in 1 .. n, NEW k \in 1 .. n, i < k  PROVE c[i] <= c[k]
  <2> DEFINE Far == {d \in Nat : i + d <= n => c[i] <= c[i + d]}
  <2>1. 0 \in Far
    BY <1>2
  <2>2. ASSUME NEW d \in Nat, d \in Far  PROVE d + 1 \in Far
    <3> SUFFICES ASSUME i + (d + 1) <= n  PROVE c[i] <= c[i + (d + 1)]
      OBVIOUS
    <3>1. c[i] <= c[i + d] /\ i + d \in 1 .. n /\ i + (d + 1) \in 1 .. n
      BY <1>1, <2>2
    <3>2. i + (d + 1) > 1 /\ (i + (d + 1)) - 1 = i + d /\ Valid(m[i + (d + 1)])
      BY <1>8, <3>1
    <3>3. c[i + d] <= c[i + (d + 1)]
      BY <1>7, <3>1, <3>2
    <3> QED  BY <1>2, <3>1, <3>3
  <2>3. k - i \in Nat /\ i + (k - i) = k /\ k <= n
    BY <1>1, <1>8
  <2>4. k - i \in Far
    <3> HIDE DEF Far
    <3> QED  BY <2>1, <2>2, <2>3, SetInduction
  <2> QED  BY <2>3, <2>4
<1>9. KeptPoints(m) \subseteq 1 .. n
  BY DEF KeptPoints, n
<1>10. \A i \in 1 .. n : c[i] <= m[i].t /\ (Before(i) => c[i] = m[i].t)
  <2> HIDE DEF Before
  <2> QED  BY <1>7
<1> HIDE DEF Before, whole
<1> QED  BY <1>8, <1>9, <1>10

-----------------------------------------------------------------------------
(* velodyne_handler *)

SpinAssumption == Turn \in Nat \ {0} /\ Steps \subseteq Nat /\ N_SCANS \in Nat

\* A time is so many whole turns and the rest.
LEMMA WholeTurns ==
  ASSUME NEW T \in Nat \ {0}, NEW p \in Nat
  PROVE  p % T \in 0 .. T - 1 /\ \E q \in Nat : p = T * q + (p % T)
<1>1. p % T \in 0 .. T - 1 /\ p \div T \in Nat /\ p = T * (p \div T) + (p % T)
  OBVIOUS
<1> QED  BY <1>1

\* The angle turned between two times gives their distance but for whole turns.
Turned(p, o, T) == IF p % T >= o % T THEN (p % T) - (o % T) ELSE (p % T) - (o % T) + T

LEMMA TurnedIs ==
  ASSUME NEW T \in Nat \ {0}, NEW p \in Nat, NEW o \in Nat, o <= p, p - o < 2 * T
  PROVE  /\ Turned(p, o, T) \in 0 .. T - 1
         /\ Turned(p, o, T) = IF p - o < T THEN p - o ELSE p - o - T
<1>1. PICK a \in Nat : p = T * a + (p % T)
  BY WholeTurns
<1>2. PICK b \in Nat : o = T * b + (o % T)
  BY WholeTurns
<1> DEFINE y == p % T
           z == o % T
<1>3. y \in 0 .. T - 1 /\ z \in 0 .. T - 1
  BY WholeTurns
<1>4. p = T * a + y /\ o = T * b + z
  BY <1>1, <1>2
<1>5. Turned(p, o, T) = IF y >= z THEN y - z ELSE y - z + T
  BY DEF Turned
<1> HIDE DEF y, z
<1> DEFINE m == a - b
<1>6. m \in Int /\ p - o = T * m + (y - z)
  BY <1>3, <1>4
<1>7. m \in 0 .. 2
  <2>1. m >= 0
    <3> SUFFICES ASSUME m <= 0 - 1  PROVE FALSE
      BY <1>6
    <3>1. T * m <= 0 - T
      BY <1>6
    <3> QED  BY <1>3, <1>6, <3>1
  <2>2. m <= 2
    <3> SUFFICES ASSUME m >= 3  PROVE FALSE
      BY <1>6
    <3>1. T * m >= 3 * T
      BY <1>6
    <3> QED  BY <1>3, <1>6, <3>1
  <2> QED  BY <1>6, <2>1, <2>2
<1> HIDE DEF m
<1>8. CASE m = 0
  BY <1>3, <1>5, <1>6, <1>8
<1>9. CASE m = 1
  <2>1. p - o = T + (y - z)
    BY <1>6, <1>9
  <2> QED  BY <1>3, <1>5, <2>1
<1>10. CASE m = 2
  <2>1. p - o = 2 * T + (y - z)
    BY <1>6, <1>10
  <2> QED  BY <1>3, <1>5, <2>1
<1> QED  BY <1>7, <1>8, <1>9, <1>10

\* After more than a turn the angle is that much less than the distance.
LEMMA TurnedLess ==
  ASSUME NEW T \in Nat \ {0}, NEW p \in Nat, NEW o \in Nat, p - o >= T
  PROVE  Turned(p, o, T) \in 0 .. p - o - T
<1>1. PICK a \in Nat : p = T * a + (p % T)
  BY WholeTurns
<1>2. PICK b \in Nat : o = T * b + (o % T)
  BY WholeTurns
<1> DEFINE y == p % T
           z == o % T
<1>3. y \in 0 .. T - 1 /\ z \in 0 .. T - 1
  BY WholeTurns
<1>4. p = T * a + y /\ o = T * b + z
  BY <1>1, <1>2
<1>5. Turned(p, o, T) = IF y >= z THEN y - z ELSE y - z + T
  BY DEF Turned
<1> HIDE DEF y, z
<1>6. CASE y >= z
  <2> DEFINE m == a - b
  <2>1. m \in Int /\ p - o = T * m + (y - z) /\ Turned(p, o, T) = y - z
    BY <1>3, <1>4, <1>5, <1>6
  <2> HIDE DEF m
  <2>2. m >= 1
    <3> SUFFICES ASSUME m <= 0  PROVE FALSE
      BY <2>1
    <3>1. T * m <= 0
      BY <2>1
    <3> QED  BY <1>3, <2>1, <3>1
  <2>3. T * m >= T
    BY <2>1, <2>2
  <2> QED  BY <1>3, <1>6, <2>1, <2>3
<1>7. CASE y < z
  <2> DEFINE m == a - b - 1
  <2>1. m \in Int /\ p - o = T * m + (y - z + T) /\ Turned(p, o, T) = y - z + T
    BY <1>3, <1>4, <1>5, <1>7
  <2> HIDE DEF m
  <2>2. m >= 1
    <3> SUFFICES ASSUME m <= 0  PROVE FALSE
      BY <2>1
    <3>1. T * m <= 0
      BY <2>1
    <3> QED  BY <1>3, <1>7, <2>1, <3>1
  <2>3. T * m >= T
    BY <2>1, <2>2
  <2> QED  BY <1>3, <1>7, <2>1, <2>3
<1> QED  BY <1>3, <1>6, <1>7

\* The loop over the points of a line gives each its time.
LEMMA SpinSteps ==
  ASSUME SpinAssumption, NEW line, IsMessage(line)
  PROVE  \A i \in 1 .. Len(line) :
           SpinTime(line)[i] =
             IF i = 1 THEN 0
             ELSE SecondTurn(Turned(line[i].t, line[1].t, Turn), SpinTime(line)[i - 1])
<1> DEFINE n == Len(line)
           a(i) == Turned(line[i].t, line[1].t, Turn)
           G == [p \in (2 .. n) \X Int |-> SecondTurn(a(p[1]), p[2])]
           yaw_fp == YawAngle(line[1])
           t[i \in 1 .. n] ==
             LET yaw == YawAngle(line[i])
                 b == IF yaw <= yaw_fp THEN yaw_fp - yaw ELSE yaw_fp - yaw + Turn
             IN  IF i = 1 THEN 0 ELSE SecondTurn(b, t[i - 1])
<1>1. SpinTime(line) = t
  BY DEF SpinTime
<1>2. n \in Nat /\ \A i \in 1 .. n : line[i].t \in Nat
  <2> DEFINE Rec == [line : Int, t : Nat, far : BOOLEAN]
  <2>1. line \in Seq(Rec) /\ \A r \in Rec : r.t \in Nat
    BY DEF IsMessage
  <2> HIDE DEF Rec
  <2> QED  BY <2>1
<1>3. \A i \in 1 .. n :
         LET yaw == YawAngle(line[i])
         IN  a(i) = (IF yaw <= yaw_fp THEN yaw_fp - yaw ELSE yaw_fp - yaw + Turn) /\ a(i) \in Int
  <2> SUFFICES ASSUME NEW i \in 1 .. n
               PROVE  LET yaw == YawAngle(line[i])
                      IN  /\ a(i) = IF yaw <= yaw_fp THEN yaw_fp - yaw ELSE yaw_fp - yaw + Turn
                          /\ a(i) \in Int
    OBVIOUS
  <2> DEFINE y == line[i].t % Turn
             z == line[1].t % Turn
  <2>1. y \in Int /\ z \in Int /\ Turn \in Int
    <3>1. line[i].t \in Nat /\ line[1].t \in Nat /\ Turn \in Nat \ {0}
      BY <1>2 DEF SpinAssumption
    <3>2. \A T \in Nat \ {0}, p \in Nat : p % T \in Int
      <4>1. \A T \in Nat \ {0}, p \in Nat : p % T \in 0 .. T - 1
        BY WholeTurns
      <4> QED  BY <4>1
    <3>3. line[i].t % Turn \in Int /\ line[1].t % Turn \in Int
      BY <3>1, <3>2, Zenon
    <3> QED  BY <3>1, <3>3
  <2>2. /\ a(i) = IF y >= z THEN y - z ELSE y - z + Turn
        /\ YawAngle(line[i]) = -y /\ yaw_fp = -z
    BY DEF Turned, YawAngle
  <2> HIDE DEF a, y, z, yaw_fp
  <2> QED  BY <2>1, <2>2
<1> HIDE DEF n, a
<1>4. G \in [(2 .. n) \X Int -> Int]
  <2>1. ASSUME NEW i \in 2 .. n, NEW x \in Int  PROVE SecondTurn(a(i), x) \in Int
    <3>1. a(i) \in Int /\ Turn \in Int
      BY <1>2, <1>3 DEF SpinAssumption
    <3> QED  BY <3>1 DEF SecondTurn
  <2> QED  BY <2>1
<1>5. \A i \in 2 .. n, x \in Int : G[<<i, x>>] = SecondTurn(a(i), x)
  OBVIOUS
<1> HIDE DEF G
<1>6. PICK g : LoopFrom1(g, Int, 0, n, G)
  <2> HIDE DEF t
  <2>1. n \in Nat /\ 0 \in Int
    BY <1>2
  <2> QED  BY <1>4, <2>1, LoopOn
<1>7. \A i \in 1 .. n : g[i] = IF i = 1 THEN 0 ELSE SecondTurn(a(i), g[i - 1])
  <2> SUFFICES ASSUME NEW i \in 1 .. n
               PROVE  g[i] = IF i = 1 THEN 0 ELSE SecondTurn(a(i), g[i - 1])
    OBVIOUS
  <2>1. CASE i = 1
    BY <1>2, <1>6, <2>1 DEF LoopFrom1
  <2>2. CASE i # 1
    <3>1. i \in 2 .. n /\ i - 1 \in 1 .. n
      BY <1>2, <2>2
    <3>2. g[i] = G[<<i, g[i - 1]>>] /\ g[i - 1] \in Int
      BY <1>6, <3>1 DEF LoopFrom1
    <3> QED  BY <1>5, <2>2, <3>1, <3>2
  <2> QED  BY <2>1, <2>2
<1>8. g = [i \in 1 .. n |->
             LET yaw == YawAngle(line[i])
                 b == IF yaw <= yaw_fp THEN yaw_fp - yaw ELSE yaw_fp - yaw + Turn
             IN  IF i = 1 THEN 0 ELSE SecondTurn(b, g[i - 1])]
  <2>1. g = [i \in 1 .. n |-> g[i]]
    BY <1>6 DEF LoopFrom1
  <2>2. ASSUME NEW i \in 1 .. n
        PROVE  g[i] = LET yaw == YawAngle(line[i])
                          b == IF yaw <= yaw_fp THEN yaw_fp - yaw ELSE yaw_fp - yaw + Turn
                      IN  IF i = 1 THEN 0 ELSE SecondTurn(b, g[i - 1])
    BY <1>3, <1>7
  <2> QED  BY <2>1, <2>2
<1>9. t = [i \in 1 .. n |->
             LET yaw == YawAngle(line[i])
                 b == IF yaw <= yaw_fp THEN yaw_fp - yaw ELSE yaw_fp - yaw + Turn
             IN  IF i = 1 THEN 0 ELSE SecondTurn(b, t[i - 1])]
  BY <1>8
<1> HIDE DEF t
<1>10. ASSUME NEW i \in 1 .. n
       PROVE  t[i] = IF i = 1 THEN 0 ELSE SecondTurn(a(i), t[i - 1])
  BY <1>3, <1>9
<1> QED  BY <1>1, <1>10 DEF n, a

\* For the first two turns the time of a point is the time since the line's first one.
LEMMA SpinFollows ==
  ASSUME SpinAssumption, NEW line, IsMessage(line),
         \A i \in 1 .. Len(line) - 1 : line[i].t <= line[i + 1].t,
         NEW i \in 1 .. Len(line), line[i].t - line[1].t < 2 * Turn,
         \A k \in 2 .. i : line[k].t - line[k - 1].t < Turn
  PROVE  SpinTime(line)[i] = line[i].t - line[1].t
<1> DEFINE n == Len(line)
           t == SpinTime(line)
           Since(k) == line[k].t - line[1].t
<1>1. n \in Nat /\ Turn \in Nat \ {0} /\ \A k \in 1 .. n : line[k].t \in Nat
  <2> DEFINE Rec == [line : Int, t : Nat, far : BOOLEAN]
  <2>1. line \in Seq(Rec) /\ \A r \in Rec : r.t \in Nat
    BY DEF IsMessage
  <2> HIDE DEF Rec
  <2> QED  BY <2>1 DEF SpinAssumption
<1>2. \A k \in 1 .. n :
         t[k] = IF k = 1 THEN 0 ELSE SecondTurn(Turned(line[k].t, line[1].t, Turn), t[k - 1])
  BY SpinSteps
<1>3. \A k \in 1 .. n - 1 : line[k].t <= line[k + 1].t
  OBVIOUS
<1>4. i \in 1 .. n /\ Since(i) < 2 * Turn /\ \A k \in 2 .. i : line[k].t - line[k - 1].t < Turn
  OBVIOUS
<1> HIDE DEF t, n
<1> DEFINE Up == {k \in Nat : k + 1 <= n => line[1].t <= line[k + 1].t}
           Good == {k \in Nat : k + 1 <= i /\ Since(k + 1) < 2 * Turn => t[k + 1] = Since(k + 1)}
<1>5. Nat \subseteq Up
  <2>1. 0 \in Up
    <3>1. n >= 1 => line[1].t \in Nat
      BY <1>1
    <3> QED  BY <1>1, <3>1
  <2>2. ASSUME NEW k \in Nat, k \in Up  PROVE k + 1 \in Up
    <3> SUFFICES ASSUME (k + 1) + 1 <= n  PROVE line[1].t <= line[(k + 1) + 1].t
      OBVIOUS
    <3>1. k + 1 \in 1 .. n - 1 /\ k + 1 \in 1 .. n /\ (k + 1) + 1 \in 1 .. n /\ 1 \in 1 .. n
      BY <1>1
    <3> QED  BY <1>1, <1>3, <2>2, <3>1, SMTT(30)
  <2> HIDE DEF Up
  <2> QED  BY <2>1, <2>2, SetInduction
<1>6. \A k \in 1 .. n : line[1].t <= line[k].t
  <2> SUFFICES ASSUME NEW k \in 1 .. n  PROVE line[1].t <= line[k].t
    OBVIOUS
  <2>1. k - 1 \in Nat /\ (k - 1) + 1 = k /\ k <= n
    BY <1>1
  <2> QED  BY <1>5, <2>1
<1>7. 0 \in Good
  <2>1. n >= 1 /\ 1 \in 1 .. n /\ line[1].t \in Nat /\ 0 + 1 = 1
    BY <1>1, <1>4
  <2> QED  BY <1>2, <2>1
<1>8. ASSUME NEW d \in Nat, d \in Good  PROVE d + 1 \in Good
  <2> DEFINE k == (d + 1) + 1
  <2> SUFFICES ASSUME k <= i, Since(k) < 2 * Turn  PROVE t[k] = Since(k)
    OBVIOUS
  <2> DEFINE p == line[k].t
             q == line[k - 1].t
             o == line[1].t
  <2>1. /\ k \in 2 .. i /\ k \in 1 .. n /\ k - 1 \in 1 .. n - 1 /\ k - 1 \in 1 .. n
        /\ k - 1 = d + 1 /\ (k - 1) + 1 = k /\ 1 \in 1 .. n /\ k # 1
    BY <1>1, <1>4
  <2>2. p \in Nat /\ q \in Nat /\ o \in Nat /\ o <= q /\ q <= p /\ p - q < Turn
    BY <1>1, <1>3, <1>4, <1>6, <2>1
  <2>3. t[k - 1] = q - o
    <3>1. q - o < 2 * Turn
      BY <1>1, <2>2, SMTT(30)
    <3> QED  BY <1>8, <2>1, <3>1
  <2>4. p - o < 2 * Turn /\ o <= p
    BY <1>1, <2>2, SMTT(30)
  <2>5. t[k] = SecondTurn(Turned(p, o, Turn), q - o)
    BY <1>2, <2>1, <2>3
  <2> HIDE DEF p, q, o
  <2>6. /\ Turned(p, o, Turn) \in 0 .. Turn - 1
        /\ Turned(p, o, Turn) = IF p - o < Turn THEN p - o ELSE p - o - Turn
    BY <1>1, <2>2, <2>4, TurnedIs
  <2>7. SecondTurn(Turned(p, o, Turn), q - o) = p - o
    BY <1>1, <2>2, <2>4, <2>6 DEF SecondTurn
  <2> QED  BY <2>5, <2>7 DEF p, o
<1>9. i - 1 \in Good /\ i - 1 \in Nat /\ (i - 1) + 1 = i
  <2> HIDE DEF Good
  <2>1. i - 1 \in Nat /\ (i - 1) + 1 = i
    BY <1>1, <1>4
  <2> QED  BY <1>7, <1>8, <2>1, SetInduction
<1> QED  BY <1>1, <1>4, <1>9 DEF t

\* In every turn the time of a point is at most that since the line's first one.
LEMMA SpinNeverAhead ==
  ASSUME SpinAssumption, NEW line, IsMessage(line),
         \A i \in 1 .. Len(line) - 1 : line[i].t <= line[i + 1].t,
         NEW i \in 1 .. Len(line)
  PROVE  SpinTime(line)[i] \in 0 .. line[i].t - line[1].t
<1> DEFINE n == Len(line)
           t == SpinTime(line)
           Since(k) == line[k].t - line[1].t
<1>1. n \in Nat /\ Turn \in Nat \ {0} /\ \A k \in 1 .. n : line[k].t \in Nat
  <2> DEFINE Rec == [line : Int, t : Nat, far : BOOLEAN]
  <2>1. line \in Seq(Rec) /\ \A r \in Rec : r.t \in Nat
    BY DEF IsMessage
  <2> HIDE DEF Rec
  <2> QED  BY <2>1 DEF SpinAssumption
<1>2. \A k \in 1 .. n :
         t[k] = IF k = 1 THEN 0 ELSE SecondTurn(Turned(line[k].t, line[1].t, Turn), t[k - 1])
  BY SpinSteps
<1>3. \A k \in 1 .. n - 1 : line[k].t <= line[k + 1].t
  OBVIOUS
<1>4. i \in 1 .. n
  OBVIOUS
<1> HIDE DEF t, n
<1> DEFINE Good == {k \in Nat : k + 1 <= n => t[k + 1] \in 0 .. Since(k + 1)}
<1>5. 0 \in Good
  <2>1. n >= 1 /\ 1 \in 1 .. n /\ line[1].t \in Nat /\ 0 + 1 = 1
    BY <1>1, <1>4
  <2>2. t[1] = 0 /\ Since(1) = 0
    BY <1>2, <2>1
  <2> QED  BY <2>1, <2>2
<1>6. ASSUME NEW d \in Nat, d \in Good  PROVE d + 1 \in Good
  <2> DEFINE k == (d + 1) + 1
  <2> SUFFICES ASSUME k <= n  PROVE t[k] \in 0 .. Since(k)
    OBVIOUS
  <2> DEFINE p == line[k].t
             q == line[k - 1].t
             o == line[1].t
             last == t[k - 1]
  <2>1. /\ k \in 1 .. n /\ k - 1 \in 1 .. n - 1 /\ k - 1 \in 1 .. n
        /\ k - 1 = d + 1 /\ (k - 1) + 1 = k /\ 1 \in 1 .. n /\ k # 1
    BY <1>1
  <2>2. p \in Nat /\ q \in Nat /\ o \in Nat /\ q <= p
    BY <1>1, <1>3, <2>1
  <2>3. last \in 0 .. q - o
    BY <1>6, <2>1
  <2>4. t[k] = SecondTurn(Turned(p, o, Turn), last)
    BY <1>2, <2>1
  <2> HIDE DEF p, q, o, last
  <2>5. CASE p - o < Turn
    <3>1. Turned(p, o, Turn) = p - o
      BY <1>1, <2>2, <2>3, <2>5, TurnedIs
    <3> QED  BY <1>1, <2>2, <2>3, <2>4, <3>1 DEF SecondTurn, p, o
  <2>6. CASE p - o >= Turn
    <3>1. Turned(p, o, Turn) \in 0 .. p - o - Turn
      BY <1>1, <2>2, <2>6, TurnedLess
    <3>2. t[k] \in 0 .. p - o
      BY <1>1, <2>2, <2>3, <2>4, <3>1 DEF SecondTurn
    <3> QED  BY <3>2 DEF p, o
  <2> QED  BY <1>1, <2>2, <2>5, <2>6
<1>7. i - 1 \in Good /\ i - 1 \in Nat /\ (i - 1) + 1 = i
  <2> HIDE DEF Good
  <2>1. i - 1 \in Nat /\ (i - 1) + 1 = i
    BY <1>1, <1>4
  <2> QED  BY <1>5, <1>6, <2>1, SetInduction
<1> QED  BY <1>1, <1>4, <1>7 DEF t

-----------------------------------------------------------------------------
(* Messages as the LiDAR measures them. *)

\* A message has its points in the order of their times.
InOrder(m) == \A i \in 1 .. Len(m), k \in 1 .. Len(m) : i < k => m[i].t <= m[k].t

Message == IsMessage(msg) /\ InOrder(msg)

LEMMA MessageHolds ==
  ASSUME SpinAssumption  PROVE MessageSpec => []Message
<1> DEFINE Rec == [line : Int, t : Nat, far : BOOLEAN]
<1>1. MessageInit => Message
  BY DEF MessageInit, Message, IsMessage, InOrder
<1>2. Message /\ [MessageNext]_msg => Message'
  <2> SUFFICES ASSUME Message, [MessageNext]_msg  PROVE Message'
    OBVIOUS
  <2>1. CASE UNCHANGED msg
    BY <2>1 DEF Message, IsMessage, InOrder
  <2>2. ASSUME NEW line \in 0 .. N_SCANS, NEW step \in Steps, NEW far \in BOOLEAN,
               Measure(line, step, far)
        PROVE  Message'
    <3> DEFINE n == Len(msg)
               at == IF msg = <<>> THEN 0 ELSE msg[n].t + step
               x == [line |-> line, t |-> at, far |-> far]
    <3>1. msg \in Seq(Rec) /\ n \in Nat /\ step \in Nat /\ line \in Int /\ (msg # <<>> => n \in 1 .. n)
      BY DEF Message, IsMessage, SpinAssumption
    <3>2. \A i \in 1 .. n : msg[i] \in Rec /\ msg[i].t \in Nat
      <4>1. \A r \in Rec : r.t \in Nat
        OBVIOUS
      <4> HIDE DEF Rec
      <4> QED  BY <3>1, <4>1
    <3>3. at \in Nat /\ \A i \in 1 .. n : msg[i].t <= at
      <4>1. CASE msg = <<>>
        BY <4>1
      <4>2. CASE msg # <<>>
        <5>1. n \in 1 .. n /\ msg[n].t \in Nat /\ at = msg[n].t + step
          BY <3>1, <3>2, <4>2
        <5>2. ASSUME NEW i \in 1 .. n  PROVE msg[i].t <= msg[n].t
          <6>1. i < n \/ i = n
            BY <3>1
          <6> QED  BY <3>2, <5>1, <6>1 DEF Message, InOrder
        <5> QED  BY <3>1, <3>2, <5>1, <5>2
      <4> QED  BY <4>1, <4>2
    <3>4. msg' = Append(msg, x)
      BY <2>2 DEF Measure
    <3>5. x \in Rec /\ x.t = at
      BY <3>1, <3>3
    <3> HIDE DEF x, at, Rec
    <3>6. /\ msg' \in Seq(Rec) /\ Len(msg') = n + 1 /\ msg'[n + 1] = x
          /\ \A i \in 1 .. n : msg'[i] = msg[i]
      BY <3>1, <3>4, <3>5, AppendProperties
    <3>7. ASSUME NEW i \in 1 .. n + 1, NEW k \in 1 .. n + 1, i < k
          PROVE  msg'[i].t <= msg'[k].t
      <4>1. i \in 1 .. n
        BY <3>1, <3>7
      <4>2. CASE k = n + 1
        BY <3>3, <3>5, <3>6, <4>1, <4>2
      <4>3. CASE k # n + 1
        <5>1. k \in 1 .. n
          BY <3>1, <4>3
        <5> QED  BY <3>6, <3>7, <4>1, <5>1 DEF Message, InOrder
      <4> QED  BY <4>2, <4>3
    <3> QED  BY <3>6, <3>7 DEF Message, IsMessage, InOrder, Rec
  <2> QED  BY <2>1, <2>2 DEF MessageNext
<1> QED  BY <1>1, <1>2, PTL DEF MessageSpec

\* The points of a line are a message in order too.
LEMMA LineInOrder ==
  ASSUME NEW m, IsMessage(m), InOrder(m), NEW l
  PROVE  IsMessage(OfLine(m, l)) /\ InOrder(OfLine(m, l))
<1> DEFINE Rec == [line : Int, t : Nat, far : BOOLEAN]
           T == {m[i] : i \in {k \in 1 .. Len(m) : m[k].line = l}}
           r == Select(m, T)
<1>1. OfLine(m, l) = r
  BY DEF OfLine
<1>2. m \in Seq(Rec)
  BY DEF IsMessage
<1> HIDE DEF Rec, T
<1>3. r \in Seq(Rec) /\ Selected(r, m, Len(m), T)
  BY <1>2, SelectFacts
<1> HIDE DEF r
<1>4. PICK at \in [1 .. Len(r) -> 1 .. Len(m)] :
         /\ \A i \in 1 .. Len(r) : r[i] = m[at[i]] /\ r[i] \in T
         /\ \A i, j \in 1 .. Len(r) : i < j => at[i] < at[j]
  BY <1>3 DEF Selected
<1>5. ASSUME NEW i \in 1 .. Len(r), NEW k \in 1 .. Len(r), i < k  PROVE r[i].t <= r[k].t
  <2>1. at[i] < at[k] /\ at[i] \in 1 .. Len(m) /\ at[k] \in 1 .. Len(m)
    BY <1>4, <1>5
  <2> QED  BY <1>4, <2>1 DEF InOrder
<1> QED  BY <1>1, <1>3, <1>5 DEF IsMessage, InOrder, Rec

\* The points of a message have their parts, and its beginning is one too.
LEMMA PartsOf ==
  ASSUME NEW m, IsMessage(m)
  PROVE  Len(m) \in Nat /\ \A i \in 1 .. Len(m) : m[i].t \in Nat
<1> DEFINE Rec == [line : Int, t : Nat, far : BOOLEAN]
<1>1. m \in Seq(Rec) /\ \A r \in Rec : r.t \in Nat
  BY DEF IsMessage
<1> HIDE DEF Rec
<1> QED  BY <1>1

LEMMA UpTo ==
  ASSUME NEW m, IsMessage(m), InOrder(m), NEW i \in 1 .. Len(m)
  PROVE  LET s == SubSeq(m, 1, i)
         IN  IsMessage(s) /\ InOrder(s) /\ Len(s) = i /\ \A k \in 1 .. i : s[k] = m[k]
<1> DEFINE Rec == [line : Int, t : Nat, far : BOOLEAN]
           s == SubSeq(m, 1, i)
<1>1. m \in Seq(Rec) /\ Len(m) \in Nat
  BY DEF IsMessage
<1> HIDE DEF Rec
<1>2. \A k \in 1 .. i : k \in 1 .. Len(m) /\ m[k] \in Rec
  BY <1>1
<1>3. s \in Seq(Rec) /\ Len(s) = i /\ \A k \in 1 .. i - 1 + 1 : s[k] = m[1 + k - 1]
  BY <1>1, <1>2, SubSeqProperties
<1> HIDE DEF s
<1>4. \A k \in 1 .. i : s[k] = m[k]
  <2> SUFFICES ASSUME NEW k \in 1 .. i  PROVE s[k] = m[k]
    OBVIOUS
  <2>1. k \in 1 .. i - 1 + 1 /\ 1 + k - 1 = k
    BY <1>1
  <2> QED  BY <1>3, <2>1
<1>5. InOrder(s)
  BY <1>2, <1>3, <1>4 DEF InOrder
<1> QED  BY <1>3, <1>4, <1>5 DEF IsMessage, Rec, s

\* The last of the points of its line up to a point is the point itself.
LEMMA LastOfLine ==
  ASSUME NEW m, IsMessage(m), InOrder(m), NEW i \in 1 .. Len(m)
  PROVE  LET line == LineUpTo(m, i)
         IN  /\ IsMessage(line) /\ InOrder(line)
             /\ Len(line) \in Nat \ {0} /\ line[Len(line)] = m[i]
<1> DEFINE Rec == [line : Int, t : Nat, far : BOOLEAN]
           s == SubSeq(m, 1, i)
           l == m[i].line
           T == {s[k] : k \in {j \in 1 .. Len(s) : s[j].line = l}}
           line == LineUpTo(m, i)
<1>1. IsMessage(s) /\ InOrder(s) /\ Len(s) = i /\ s[i] = m[i]
  <2>1. i \in 1 .. i
    BY PartsOf
  <2> QED  BY UpTo, <2>1
<1>2. IsMessage(OfLine(s, l)) /\ InOrder(OfLine(s, l))
  BY <1>1, LineInOrder
<1>3. line = Select(s, T) /\ line = OfLine(s, l)
  BY DEF LineUpTo, OfLine
<1>4. s[i] \in T
  <2>1. i \in 1 .. Len(s) /\ s[i].line = l
    BY <1>1, PartsOf
  <2> QED  BY <2>1
<1>5. s \in Seq(Rec)
  BY <1>1 DEF IsMessage
<1> HIDE DEF Rec, T, s, l, line
<1>6. PICK taken :
         /\ Select(s, T) = taken[Len(s)] /\ taken[0] = <<>>
         /\ \A k \in 1 .. Len(s) :
              taken[k] = IF s[k] \in T THEN Append(taken[k - 1], s[k]) ELSE taken[k - 1]
         /\ \A k \in 0 .. Len(s) : taken[k] \in Seq(Rec)
  BY <1>5, SelectSteps
<1> DEFINE before == taken[i - 1]
<1>7. line = Append(before, s[i]) /\ before \in Seq(Rec) /\ s[i] \in Rec
  <2>1. i \in 1 .. Len(s) /\ i - 1 \in 0 .. Len(s)
    BY <1>1, PartsOf
  <2>2. before \in Seq(Rec)
    BY <1>6, <2>1
  <2>3. taken[i] = Append(before, s[i])
    BY <1>4, <1>6, <2>1
  <2>4. s[i] \in Rec
    BY <1>5, <2>1
  <2> HIDE DEF before
  <2> QED  BY <1>1, <1>3, <1>6, <2>2, <2>3, <2>4
<1> HIDE DEF before
<1>8. Len(line) = Len(before) + 1 /\ line[Len(before) + 1] = s[i] /\ Len(before) \in Nat
  BY <1>7, AppendProperties
<1> QED  BY <1>1, <1>2, <1>3, <1>8 DEF line

\* A cloud has points of the message, in its order, each with the time made for it.
LEMMA FunctionIsSeq ==
  ASSUME NEW n \in Nat, NEW S, NEW f \in [1 .. n -> S]
  PROVE  f \in Seq(S) /\ Len(f) = n
OBVIOUS

LEMMA CloudHas ==
  ASSUME NEW m, Len(m) \in Nat, NEW kept \in SUBSET (1 .. Len(m)), NEW time
  PROVE  LET cloud == Cloud(m, kept, time)
         IN  /\ Len(cloud) \in Nat
             /\ \A k \in 1 .. Len(cloud) :
                  cloud[k].at \in kept /\ cloud[k].time = time[cloud[k].at]
             /\ \A i, k \in 1 .. Len(cloud) : i < k => cloud[i].at < cloud[k].at
<1> DEFINE n == Len(m)
           q == [i \in 1 .. n |-> i]
           at == Select(q, kept)
           cloud == Cloud(m, kept, time)
<1>1. q \in Seq(1 .. n) /\ Len(q) = n
  BY FunctionIsSeq
<1>2. cloud = [k \in 1 .. Len(at) |-> [at |-> at[k], time |-> time[at[k]]]]
  BY DEF Cloud
<1>3. \A i \in 1 .. n : q[i] = i
  OBVIOUS
<1> HIDE DEF cloud, q
<1>4. at \in Seq(1 .. n) /\ Selected(at, q, Len(q), kept)
  BY <1>1, SelectFacts
<1> HIDE DEF at
<1>5. PICK to \in [1 .. Len(at) -> 1 .. n] :
         /\ \A i \in 1 .. Len(at) : at[i] = q[to[i]] /\ at[i] \in kept
         /\ \A i, j \in 1 .. Len(at) : i < j => to[i] < to[j]
  BY <1>1, <1>4 DEF Selected
<1>6. \A i \in 1 .. Len(at) : at[i] = to[i] /\ at[i] \in kept
  BY <1>3, <1>5
<1>7. Len(at) \in Nat /\ Len(cloud) = Len(at)
  <2>1. Len(at) \in Nat
    BY <1>4
  <2> DEFINE Rec == {[at |-> at[k], time |-> time[at[k]]] : k \in 1 .. Len(at)}
  <2>2. cloud \in [1 .. Len(at) -> Rec]
    BY <1>2
  <2> HIDE DEF Rec
  <2> QED  BY <2>1, <2>2, FunctionIsSeq
<1>8. \A k \in 1 .. Len(at) : cloud[k].at = at[k] /\ cloud[k].time = time[at[k]]
  BY <1>2
<1>9. ASSUME NEW i \in 1 .. Len(at), NEW k \in 1 .. Len(at), i < k
      PROVE  cloud[i].at < cloud[k].at
  BY <1>5, <1>6, <1>8, <1>9
<1> QED  BY <1>6, <1>7, <1>8, <1>9 DEF cloud

\* A cloud whose times are none, those of the points, or those since the first one.
LEMMA CloudIsSound ==
  ASSUME NEW m, IsMessage(m), NEW kept \in SUBSET (1 .. Len(m)), NEW time,
         \A i \in 1 .. Len(m) : time[i] \in 0 .. m[i].t
  PROVE  LET cloud == Cloud(m, kept, time)
         IN  /\ NeverAhead(cloud, m)
             /\ (\A i, k \in 1 .. Len(m) : i < k => time[i] <= time[k]) => NeverTurns(cloud)
<1> DEFINE cloud == Cloud(m, kept, time)
<1>1. Len(m) \in Nat
  BY PartsOf
<1>2. /\ Len(cloud) \in Nat
      /\ \A k \in 1 .. Len(cloud) :
           cloud[k].at \in kept /\ cloud[k].time = time[cloud[k].at]
      /\ \A i, k \in 1 .. Len(cloud) : i < k => cloud[i].at < cloud[k].at
  BY <1>1, CloudHas
<1> HIDE DEF cloud
<1>3. NeverAhead(cloud, m)
  <2> SUFFICES ASSUME NEW k \in 1 .. Len(cloud)
               PROVE  cloud[k].time \in 0 .. m[cloud[k].at].t
    BY DEF NeverAhead
  <2>1. cloud[k].at \in 1 .. Len(m) /\ cloud[k].time = time[cloud[k].at]
    BY <1>2
  <2> QED  BY <2>1
<1>4. ASSUME \A i, k \in 1 .. Len(m) : i < k => time[i] <= time[k]  PROVE NeverTurns(cloud)
  <2> SUFFICES ASSUME NEW i \in 1 .. Len(cloud), NEW k \in 1 .. Len(cloud), i < k
               PROVE  cloud[i].time <= cloud[k].time
    BY DEF NeverTurns
  <2>1. cloud[i].at \in 1 .. Len(m) /\ cloud[k].at \in 1 .. Len(m)
    BY <1>2
  <2>2. cloud[i].at < cloud[k].at
    BY <1>2
  <2> QED  BY <1>2, <1>4, <2>1, <2>2
<1> QED  BY <1>3, <1>4 DEF cloud

\* A sorted cloud has points of the unsorted one.
LEMMA SortedIsSound ==
  ASSUME NEW m, IsMessage(m), NEW cloud \in Pandar128_handler(m)
  PROVE  NeverAhead(cloud, m) /\ NeverTurns(cloud)
<1> DEFINE time == [i \in 1 .. Len(m) |-> m[i].t]
           raw == oust64_handler(m)
           n == Len(raw)
           S == {raw[k] : k \in 1 .. n}
<1>1. Len(m) \in Nat /\ \A i \in 1 .. Len(m) : m[i].t \in Nat
  BY PartsOf
<1>2. EveryNth(m) \in SUBSET (1 .. Len(m)) /\ raw = Cloud(m, EveryNth(m), time)
  BY DEF EveryNth, oust64_handler
<1>3. \A i \in 1 .. Len(m) : time[i] \in 0 .. m[i].t
  BY <1>1
<1>4. cloud \in [1 .. n -> S] /\ \A i, k \in 1 .. n : i < k => cloud[i].time <= cloud[k].time
  BY DEF Pandar128_handler, Sortings
<1> HIDE DEF raw, time
<1>5. NeverAhead(raw, m) /\ n \in Nat
  BY <1>1, <1>2, <1>3, CloudIsSound, CloudHas
<1> HIDE DEF n, S
<1>6. Len(cloud) = n
  BY <1>4, <1>5, FunctionIsSeq
<1>7. NeverTurns(cloud)
  BY <1>4, <1>6 DEF NeverTurns
<1>8. ASSUME NEW k \in 1 .. n  PROVE cloud[k].time \in 0 .. m[cloud[k].at].t
  <2>1. PICK i \in 1 .. n : cloud[k] = raw[i]
    BY <1>4 DEF S
  <2> QED  BY <1>5, <2>1 DEF NeverAhead, n
<1> QED  BY <1>6, <1>7, <1>8 DEF NeverAhead

\* The other clouds, one by one.
LEMMA EveryCloudIsSound ==
  ASSUME SpinAssumption, NEW m, IsMessage(m), InOrder(m), m # <<>>
  PROVE  /\ NeverAhead(l515_handler(m), m) /\ NeverTurns(l515_handler(m))
         /\ NeverAhead(oust64_handler(m), m) /\ NeverTurns(oust64_handler(m))
         /\ NeverAhead(xt32_handler(m), m) /\ NeverTurns(xt32_handler(m))
         /\ \A timed \in BOOLEAN :
              /\ NeverAhead(velodyne_handler(m, timed), m)
              /\ (timed /\ m[Len(m)].t > 0) => NeverTurns(velodyne_handler(m, timed))
<1> DEFINE n == Len(m)
           kept == EveryNth(m)
<1>1. n \in Nat /\ n >= 1 /\ \A i \in 1 .. n : m[i].t \in Nat
  <2>1. n \in Nat /\ \A i \in 1 .. n : m[i].t \in Nat
    BY PartsOf
  <2>2. n # 0
    BY EmptySeq DEF IsMessage
  <2> QED  BY <2>1, <2>2
<1>2. kept \in SUBSET (1 .. n)
  BY DEF EveryNth
<1>3. \A i \in 1 .. n, k \in 1 .. n : i < k => m[i].t <= m[k].t
  BY DEF InOrder
<1>4. \A i \in 1 .. n : m[1].t <= m[i].t
  <2> SUFFICES ASSUME NEW i \in 1 .. n  PROVE m[1].t <= m[i].t
    OBVIOUS
  <2>1. 1 \in 1 .. n /\ (i = 1 \/ 1 < i)
    BY <1>1
  <2> QED  BY <1>1, <1>3, <2>1
<1>5. NeverAhead(l515_handler(m), m) /\ NeverTurns(l515_handler(m))
  <2> DEFINE time == [i \in 1 .. n |-> 0]
  <2>1. l515_handler(m) = Cloud(m, kept, time)
    BY DEF l515_handler
  <2>2. \A i \in 1 .. n : time[i] \in 0 .. m[i].t
    BY <1>1
  <2>3. \A i, k \in 1 .. n : i < k => time[i] <= time[k]
    OBVIOUS
  <2> HIDE DEF time, kept
  <2> QED  BY <1>2, <2>1, <2>2, <2>3, CloudIsSound
<1>6. NeverAhead(oust64_handler(m), m) /\ NeverTurns(oust64_handler(m))
  <2> DEFINE time == [i \in 1 .. n |-> m[i].t]
  <2>1. oust64_handler(m) = Cloud(m, kept, time)
    BY DEF oust64_handler
  <2>2. \A i \in 1 .. n : time[i] \in 0 .. m[i].t
    BY <1>1
  <2>3. \A i, k \in 1 .. n : i < k => time[i] <= time[k]
    BY <1>3
  <2> HIDE DEF time, kept
  <2> QED  BY <1>2, <2>1, <2>2, <2>3, CloudIsSound
<1>7. NeverAhead(xt32_handler(m), m) /\ NeverTurns(xt32_handler(m))
  <2> DEFINE time == [i \in 1 .. n |-> m[i].t - m[1].t]
  <2>1. xt32_handler(m) = Cloud(m, kept, time)
    BY DEF xt32_handler
  <2>2. 1 \in 1 .. n
    BY <1>1
  <2>3. \A i \in 1 .. n : time[i] \in 0 .. m[i].t
    BY <1>1, <1>4, <2>2
  <2>4. \A i, k \in 1 .. n : i < k => time[i] <= time[k]
    BY <1>1, <1>3, <2>2
  <2> HIDE DEF time, kept
  <2> QED  BY <1>2, <2>1, <2>3, <2>4, CloudIsSound
<1>8. ASSUME NEW timed \in BOOLEAN
      PROVE  /\ NeverAhead(velodyne_handler(m, timed), m)
             /\ (timed /\ m[Len(m)].t > 0) => NeverTurns(velodyne_handler(m, timed))
  <2> DEFINE given == timed /\ m[Len(m)].t > 0
  <2>1. CASE given
    <3>1. velodyne_handler(m, timed) = oust64_handler(m)
      BY <2>1 DEF velodyne_handler
    <3> QED  BY <1>6, <3>1
  <2>2. CASE ~given
    <3> DEFINE line(i) == LineUpTo(m, i)
               time == [i \in 1 .. n |-> SpinTime(line(i))[Len(line(i))]]
               later == {i \in kept : Len(line(i)) > 1}
    <3>1. velodyne_handler(m, timed) = Cloud(m, later, time)
      BY <2>2 DEF velodyne_handler
    <3>2. later \in SUBSET (1 .. n)
      BY <1>2
    <3>3. ASSUME NEW i \in 1 .. n  PROVE time[i] \in 0 .. m[i].t
      <4> DEFINE l == line(i)
                 k == Len(l)
      <4>1. time[i] = SpinTime(l)[k]
        OBVIOUS
      <4>2. IsMessage(l) /\ InOrder(l) /\ k \in Nat \ {0} /\ l[k] = m[i]
        BY LastOfLine
      <4> HIDE DEF time, l
      <4>3. \A j \in 1 .. k - 1 : l[j].t <= l[j + 1].t
        <5> SUFFICES ASSUME NEW j \in 1 .. k - 1  PROVE l[j].t <= l[j + 1].t
          OBVIOUS
        <5>1. j \in 1 .. k /\ j + 1 \in 1 .. k /\ j < j + 1
          BY <4>2
        <5> QED  BY <4>2, <5>1 DEF InOrder
      <4>4. k \in 1 .. Len(l) /\ 1 \in 1 .. Len(l)
        BY <4>2
      <4>5. SpinTime(l)[k] \in 0 .. l[k].t - l[1].t
        BY <4>2, <4>3, <4>4, SpinNeverAhead
      <4>6. l[1].t \in Nat /\ m[i].t \in Nat
        BY <1>1, <4>2, <4>4, PartsOf
      <4> QED  BY <4>1, <4>2, <4>5, <4>6
    <3> HIDE DEF time, later
    <3>4. NeverAhead(Cloud(m, later, time), m)
      BY <3>2, <3>3, CloudIsSound
    <3> QED  BY <2>2, <3>1, <3>4
  <2> QED  BY <2>1, <2>2
<1> QED  BY <1>5, <1>6, <1>7, <1>8

LEMMA BackwardsIsMessage ==
  ASSUME NEW m, IsMessage(m)  PROVE IsMessage(Backwards(m))
<1> DEFINE Rec == [line : Int, t : Nat, far : BOOLEAN]
           n == Len(m)
           b == Backwards(m)
<1>1. m \in Seq(Rec) /\ n \in Nat
  BY DEF IsMessage
<1> HIDE DEF Rec
<1>2. ASSUME NEW i \in 1 .. n  PROVE m[n + 1 - i] \in Rec
  <2>1. n + 1 - i \in 1 .. n
    BY <1>1
  <2> QED  BY <1>1, <2>1
<1>3. b \in [1 .. n -> Rec]
  BY <1>2 DEF Backwards
<1> HIDE DEF n, b
<1> QED  BY <1>1, <1>3, FunctionIsSeq DEF IsMessage, Rec, b

LEMMA CloudTimesHold ==
  ASSUME SpinAssumption, Message  PROVE CloudTimes
<1> SUFFICES ASSUME msg # <<>>
             PROVE  /\ \A timed \in BOOLEAN :
                         LET clouds == process(msg, timed)
                             given(lidar) == lidar = "VELO16" => timed /\ msg[Len(msg)].t > 0
                         IN  \A lidar \in DOMAIN clouds : \A cloud \in clouds[lidar] :
                               NeverAhead(cloud, msg) /\ (given(lidar) => NeverTurns(cloud))
                    /\ \A cloud \in Pandar128_handler(Backwards(msg)) :
                         NeverAhead(cloud, Backwards(msg)) /\ NeverTurns(cloud)
  BY DEF CloudTimes
<1>1. IsMessage(msg) /\ InOrder(msg)
  BY DEF Message
<1>2. /\ NeverAhead(l515_handler(msg), msg) /\ NeverTurns(l515_handler(msg))
      /\ NeverAhead(oust64_handler(msg), msg) /\ NeverTurns(oust64_handler(msg))
      /\ NeverAhead(xt32_handler(msg), msg) /\ NeverTurns(xt32_handler(msg))
      /\ \A timed \in BOOLEAN :
           /\ NeverAhead(velodyne_handler(msg, timed), msg)
           /\ (timed /\ msg[Len(msg)].t > 0) => NeverTurns(velodyne_handler(msg, timed))
  BY <1>1, EveryCloudIsSound
<1>3. \A cloud \in Pandar128_handler(msg) : NeverAhead(cloud, msg) /\ NeverTurns(cloud)
  BY <1>1, SortedIsSound
<1>4. ASSUME NEW timed \in BOOLEAN, NEW lidar \in DOMAIN process(msg, timed),
             NEW cloud \in process(msg, timed)[lidar]
      PROVE  /\ NeverAhead(cloud, msg)
             /\ (lidar = "VELO16" => timed /\ msg[Len(msg)].t > 0) => NeverTurns(cloud)
  <2>1. lidar \in {"L515", "OUST64", "XT32", "VELO16", "PANDAR128"}
    BY DEF process
  <2>2. CASE lidar = "L515"
    <3>1. cloud = l515_handler(msg)
      BY <2>2 DEF process
    <3> QED  BY <1>2, <3>1
  <2>3. CASE lidar = "OUST64"
    <3>1. cloud = oust64_handler(msg)
      BY <2>3 DEF process
    <3> QED  BY <1>2, <3>1
  <2>4. CASE lidar = "XT32"
    <3>1. cloud = xt32_handler(msg)
      BY <2>4 DEF process
    <3> QED  BY <1>2, <3>1
  <2>5. CASE lidar = "VELO16"
    <3>1. cloud = velodyne_handler(msg, timed)
      BY <2>5 DEF process
    <3> QED  BY <1>2, <2>5, <3>1
  <2>6. CASE lidar = "PANDAR128"
    <3>1. cloud \in Pandar128_handler(msg)
      BY <2>6 DEF process
    <3> QED  BY <1>3, <3>1
  <2> QED  BY <2>1, <2>2, <2>3, <2>4, <2>5, <2>6
<1>5. \A cloud \in Pandar128_handler(Backwards(msg)) :
         NeverAhead(cloud, Backwards(msg)) /\ NeverTurns(cloud)
  <2>1. IsMessage(Backwards(msg))
    BY <1>1, BackwardsIsMessage
  <2> QED  BY <2>1, SortedIsSound
<1> QED  BY <1>4, <1>5

\* ScanTimes, of every message a LiDAR can send: the times avia_handler gives do not run
\* ahead of the message's or turn back, those velodyne_handler takes from the angle are
\* right for two turns of the LiDAR, and the clouds of the other handlers are ahead of no
\* point and end with their last.
THEOREM ScanTimesHolds ==
  ASSUME AviaAssumption, SpinAssumption  PROVE MessageSpec => []ScanTimes
<1>1. Message => ScanTimes
  <2> SUFFICES ASSUME Message  PROVE ScanTimes
    OBVIOUS
  <2>1. AviaTimes(msg)
    BY AviaTimesHolds DEF Message
  <2>2. SpinTimes
    <3> SUFFICES ASSUME NEW l \in 0 .. N_SCANS - 1
                 PROVE  LET line == OfLine(msg, l)
                            t == SpinTime(line)
                            Since(i) == line[i].t - line[1].t
                        IN  \A i \in 1 .. Len(line) :
                              (Since(i) < 2 * Turn
                               /\ \A k \in 2 .. i : line[k].t - line[k - 1].t < Turn)
                                => t[i] = Since(i)
      BY DEF SpinTimes
    <3> DEFINE line == OfLine(msg, l)
    <3>1. IsMessage(line) /\ InOrder(line)
      BY LineInOrder DEF Message
    <3> HIDE DEF line
    <3>2. \A i \in 1 .. Len(line) - 1 : line[i].t <= line[i + 1].t
      <4>1. Len(line) \in Nat
        BY <3>1 DEF IsMessage
      <4>2. ASSUME NEW i \in 1 .. Len(line) - 1  PROVE line[i].t <= line[i + 1].t
        <5>1. i \in 1 .. Len(line) /\ i + 1 \in 1 .. Len(line) /\ i < i + 1
          BY <4>1
        <5> QED  BY <3>1, <5>1 DEF InOrder
      <4> QED  BY <4>2
    <3>3. \A i \in 1 .. Len(line) :
             (line[i].t - line[1].t < 2 * Turn
              /\ \A k \in 2 .. i : line[k].t - line[k - 1].t < Turn)
               => SpinTime(line)[i] = line[i].t - line[1].t
      BY <3>1, <3>2, SpinFollows
    <3> QED  BY <3>3 DEF line
  <2>3. CloudTimes
    BY CloudTimesHold
  <2> QED  BY <2>1, <2>2, <2>3 DEF ScanTimes
<1>2. MessageSpec => []Message
  BY MessageHolds
<1> QED  BY <1>1, <1>2, PTL
=============================================================================
