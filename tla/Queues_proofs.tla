---------------------------- MODULE Queues_proofs ----------------------------
(***************************************************************************)
(* What folds over a queue, and filters of it, compute.  The facts are     *)
(* proved by induction on a set of numbers or of sequences.                *)
(***************************************************************************)
EXTENDS Queues, WellFoundedInduction, SequenceTheorems, TLAPS

-----------------------------------------------------------------------------
(* Induction.                                                              *)

LEMMA NatSet ==
    ASSUME NEW T, 0 \in T, \A n \in Nat : n \in T => n + 1 \in T
    PROVE  Nat \subseteq T
<1> SUFFICES ASSUME ~(Nat \subseteq T) PROVE FALSE
  OBVIOUS
<1> DEFINE U == Nat \ T
<1>1. PICK x \in U : \A y \in U : ~(<<y, x>> \in OpToRel(<, Nat))
  <2>1. U \in SUBSET Nat /\ U # {}
    OBVIOUS
  <2> QED
    BY <2>1, NatLessThanWellFounded, WFMin
<1>2. x \in Nat /\ x # 0 /\ x - 1 \in Nat
  OBVIOUS
<1>5. \A y \in U : ~(y < x)
  BY <1>1 DEF OpToRel
<1>6. x - 1 \notin U
  BY <1>2, <1>5
<1>3. x - 1 \in T
  BY <1>2, <1>6
<1>4. (x - 1) + 1 = x
  BY <1>2
<1> QED
  BY <1>2, <1>3, <1>4

LEMMA SeqSet ==
    ASSUME NEW S, NEW T, <<>> \in T,
           \A s \in Seq(S), e \in S : s \in T => Append(s, e) \in T
    PROVE  Seq(S) \subseteq T
<1> DEFINE N == {n \in Nat : \A s \in Seq(S) : Len(s) = n => s \in T}
<1>1. 0 \in N
  BY EmptySeq
<1>2. ASSUME NEW n \in Nat, n \in N PROVE n + 1 \in N
  <2> SUFFICES ASSUME NEW s \in Seq(S), Len(s) = n + 1 PROVE s \in T
    OBVIOUS
  <2>1. PICK t \in Seq(S), e \in S : s = Append(t, e)
    BY SequenceEmptyOrAppend, EmptySeq
  <2>2. Len(t) = n
    BY <2>1
  <2> QED
    BY <1>2, <2>1, <2>2
<1>3. Nat \subseteq N
  BY <1>1, <1>2, NatSet
<1> QED
  BY <1>3

LEMMA AppendSet ==
    ASSUME NEW S, NEW s \in Seq(S), NEW e
    PROVE  ToSet(Append(s, e)) = ToSet(s) \cup {e}
<1>1. /\ Len(s) \in Nat /\ DOMAIN s = 1..Len(s) /\ DOMAIN Append(s, e) = 1..(Len(s) + 1)
      /\ Append(s, e)[Len(s) + 1] = e /\ \A i \in 1..Len(s) : Append(s, e)[i] = s[i]
  BY LenProperties
<1>2. \A i \in 1..(Len(s) + 1) : i \in 1..Len(s) \/ i = Len(s) + 1
  BY <1>1
<1>3. Len(s) + 1 \in 1..(Len(s) + 1) /\ \A i \in 1..Len(s) : i \in 1..(Len(s) + 1)
  BY <1>1
<1> QED
  BY <1>1, <1>2, <1>3 DEF ToSet

\* The greatest of some numbers up to n.
LEMMA MaxOf ==
    ASSUME NEW n \in Nat, NEW u, u \subseteq 1..n, u # {}
    PROVE  Max(u) \in u /\ \A y \in u : Max(u) >= y
<1> DEFINE N == {k \in Nat : \A w : w \subseteq 1..k /\ w # {} =>
                                \E x \in w : \A y \in w : x >= y}
<1>1. 0 \in N
  OBVIOUS
<1>2. ASSUME NEW k \in Nat, k \in N PROVE k + 1 \in N
  <2> SUFFICES ASSUME NEW w, w \subseteq 1..(k + 1), w # {}
               PROVE  \E x \in w : \A y \in w : x >= y
    OBVIOUS
  <2>1. CASE k + 1 \in w
    BY <2>1
  <2>2. CASE k + 1 \notin w
    <3>1. w \subseteq 1..k
      BY <2>2
    <3> QED
      BY <1>2, <3>1
  <2> QED
    BY <2>1, <2>2
<1>3. Nat \subseteq N
  BY <1>1, <1>2, NatSet
<1>4. \E x \in u : \A y \in u : x >= y
  BY <1>3
<1> QED
  BY <1>4 DEF Max

-----------------------------------------------------------------------------
(* Folds.  What FoldLeft computes with an operation that is given as a     *)
(* function `f` on pairs: `g` is the fold over each set of positions.      *)

Iterates(g, f, b, s, n) ==
    \A u \in SUBSET (1..n) :
       g[u] = IF u = {} THEN b ELSE f[<<g[u \ {Max(u)}], s[Max(u)]>>]

\* An operation on A and the elements B, and where its folds start.
Folding(A, B, f, b) == f \in [A \X B -> A] /\ b \in A

Run(f, b, s) == (CHOOSE g : Iterates(g, f, b, s, Len(s)))[1..Len(s)]

LEMMA FoldExists ==
    ASSUME NEW A, NEW B, NEW f, NEW b, Folding(A, B, f, b), NEW s \in Seq(B)
    PROVE  \E g \in [SUBSET (1..Len(s)) -> A] : Iterates(g, f, b, s, Len(s))
<1> DEFINE P(n) == \E g \in [SUBSET (1..n) -> A] : Iterates(g, f, b, s, n)
           N == {n \in Nat : n <= Len(s) => P(n)}
<1>5. Len(s) \in Nat /\ f \in [A \X B -> A] /\ b \in A
  BY LenProperties DEF Folding
<1>1. P(0)
  <2> DEFINE g == [u \in SUBSET (1..0) |-> b]
  <2>2. \A u \in SUBSET (1..0) : u = {}
    OBVIOUS
  <2>1. g \in [SUBSET (1..0) -> A] /\ Iterates(g, f, b, s, 0)
    BY <1>5, <2>2 DEF Iterates
  <2> QED
    BY <2>1
<1>2. ASSUME NEW n \in Nat, n + 1 <= Len(s), P(n) PROVE P(n + 1)
  <2>1. PICK g \in [SUBSET (1..n) -> A] : Iterates(g, f, b, s, n)
    BY <1>2
  <2> DEFINE h == [u \in SUBSET (1..(n + 1)) |->
                     IF n + 1 \in u THEN f[<<g[u \ {n + 1}], s[n + 1]>>] ELSE g[u]]
  <2>2. s[n + 1] \in B
    BY <1>2, <1>5, ElementOfSeq
  <2>3. \A u \in SUBSET (1..(n + 1)) :
           /\ n + 1 \in u => u \ {n + 1} \in SUBSET (1..n)
           /\ n + 1 \notin u => u \in SUBSET (1..n)
    OBVIOUS
  <2>4. h \in [SUBSET (1..(n + 1)) -> A]
    BY <1>5, <2>2, <2>3
  <2>5. ASSUME NEW u \in SUBSET (1..(n + 1))
        PROVE  h[u] = IF u = {} THEN b ELSE f[<<h[u \ {Max(u)}], s[Max(u)]>>]
    <3>1. CASE n + 1 \in u
      <4>1. Max(u) = n + 1
        <5> HIDE DEF h
        <5>1. u \subseteq 1..(n + 1) /\ u # {} /\ n + 1 \in Nat
          BY <3>1
        <5>2. Max(u) \in u /\ \A y \in u : Max(u) >= y
          BY <5>1, MaxOf
        <5>3. Max(u) \in Nat /\ Max(u) <= n + 1 /\ Max(u) >= n + 1
          <6>1. Max(u) \in 1..(n + 1)
            BY <5>1, <5>2
          <6>2. Max(u) >= n + 1
            BY <5>2, <3>1
          <6> QED
            BY <6>1, <6>2, <5>1
        <5> QED
          BY <5>3
      <4>2. h[u \ {n + 1}] = g[u \ {n + 1}]
        BY <2>3, <3>1
      <4> QED
        BY <4>1, <4>2, <3>1
    <3>2. CASE n + 1 \notin u
      <4>1. u \in SUBSET (1..n) /\ h[u] = g[u]
        BY <3>2, <2>3
      <4>2. g[u] = IF u = {} THEN b ELSE f[<<g[u \ {Max(u)}], s[Max(u)]>>]
        BY <4>1, <2>1 DEF Iterates
      <4>3. u \ {Max(u)} \in SUBSET (1..n) /\ n + 1 \notin u \ {Max(u)}
        BY <4>1, <3>2
      <4>4. h[u \ {Max(u)}] = g[u \ {Max(u)}]
        BY <4>3
      <4> QED
        BY <4>1, <4>2, <4>4
    <3> QED
      BY <3>1, <3>2
  <2> HIDE DEF h
  <2>6. Iterates(h, f, b, s, n + 1)
    BY <2>5 DEF Iterates
  <2> QED
    BY <2>4, <2>6
<1> HIDE DEF P
<1>6. 0 \in N
  BY <1>1
<1>7. ASSUME NEW n \in Nat, n \in N PROVE n + 1 \in N
  <2>1. n + 1 <= Len(s) => n <= Len(s)
    BY <1>5
  <2> QED
    BY <1>2, <1>7, <2>1
<1>3. Nat \subseteq N
  <2> HIDE DEF N
  <2> QED
    BY <1>6, <1>7, NatSet
<1>4. P(Len(s))
  BY <1>3, <1>5
<1> QED
  BY <1>4 DEF P

LEMMA FoldUnique ==
    ASSUME NEW f, NEW b, NEW n \in Nat, NEW s, NEW t, \A i \in 1..n : s[i] = t[i],
           NEW g, NEW h, Iterates(g, f, b, s, n), Iterates(h, f, b, t, n)
    PROVE  g[1..n] = h[1..n]
<1> DEFINE P(k) == \A u \in SUBSET (1..k) : g[u] = h[u]
           N == {k \in Nat : k <= n => P(k)}
<1>1. P(0)
  <2>1. \A u \in SUBSET (1..0) : u = {} /\ u \in SUBSET (1..n)
    OBVIOUS
  <2> QED
    BY <2>1 DEF Iterates
<1>2. ASSUME NEW k \in Nat, k + 1 <= n, P(k) PROVE P(k + 1)
  <2> SUFFICES ASSUME NEW u \in SUBSET (1..(k + 1)) PROVE g[u] = h[u]
    OBVIOUS
  <2>1. u \in SUBSET (1..n)
    BY <1>2
  <2>2. CASE u = {}
    BY <2>1, <2>2 DEF Iterates
  <2>3. CASE u # {}
    <3>5. u \subseteq 1..(k + 1) /\ k + 1 \in Nat
      OBVIOUS
    <3>1. Max(u) \in u /\ \A y \in u : Max(u) >= y
      BY <3>5, <2>3, MaxOf
    <3>2. u \ {Max(u)} \in SUBSET (1..k)
      <4>1. Max(u) \in Nat /\ \A y \in u : y \in 1..(k + 1) /\ Max(u) >= y
        <5>1. Max(u) \in 1..(k + 1)
          BY <3>1, <3>5
        <5> QED
          BY <3>1, <3>5, <5>1
      <4>2. \A y \in u : y # Max(u) => y \in 1..k
        BY <4>1, <3>1, <3>5
      <4> QED
        BY <4>2
    <3>3. g[u \ {Max(u)}] = h[u \ {Max(u)}] /\ s[Max(u)] = t[Max(u)]
      <4>1. Max(u) \in 1..n
        BY <2>1, <3>1
      <4> QED
        BY <1>2, <3>2, <4>1
    <3>4. /\ g[u] = f[<<g[u \ {Max(u)}], s[Max(u)]>>]
          /\ h[u] = f[<<h[u \ {Max(u)}], t[Max(u)]>>]
      BY <2>1, <2>3 DEF Iterates
    <3> QED
      BY <3>3, <3>4
  <2> QED
    BY <2>2, <2>3
<1> HIDE DEF P
<1>6. 0 \in N
  BY <1>1
<1>7. ASSUME NEW k \in Nat, k \in N PROVE k + 1 \in N
  <2>1. k + 1 <= n => k <= n
    OBVIOUS
  <2> QED
    BY <1>2, <1>7, <2>1
<1>3. Nat \subseteq N
  <2> HIDE DEF N
  <2> QED
    BY <1>6, <1>7, NatSet
<1>4. P(n)
  BY <1>3
<1> QED
  BY <1>4 DEF P

LEMMA RunIs ==
    ASSUME NEW A, NEW B, NEW f, NEW b, Folding(A, B, f, b), NEW s \in Seq(B),
           NEW g, Iterates(g, f, b, s, Len(s))
    PROVE  Run(f, b, s) = g[1..Len(s)] /\ Run(f, b, s) \in A
<1>1. PICK h \in [SUBSET (1..Len(s)) -> A] : Iterates(h, f, b, s, Len(s))
  BY FoldExists
<1> DEFINE r == CHOOSE k : Iterates(k, f, b, s, Len(s))
<1>2. Iterates(r, f, b, s, Len(s))
  BY <1>1
<1> HIDE DEF r
<1>3. Len(s) \in Nat
  BY LenProperties
<1>4. r[1..Len(s)] = g[1..Len(s)] /\ r[1..Len(s)] = h[1..Len(s)]
  BY <1>1, <1>2, <1>3, FoldUnique
<1>5. h[1..Len(s)] \in A
  BY <1>1
<1> QED
  BY <1>4, <1>5 DEF Run, r

\* A fold whose operation agrees with f on what f yields computes what f does.
LEMMA RunAgrees ==
    ASSUME NEW A, NEW B, NEW f, NEW b, Folding(A, B, f, b), NEW s \in Seq(B),
           NEW h, \A p \in A \X B : h[p] = f[p], NEW r, Iterates(r, h, b, s, Len(s))
    PROVE  r[1..Len(s)] = Run(f, b, s)
<1>1. PICK g \in [SUBSET (1..Len(s)) -> A] : Iterates(g, f, b, s, Len(s))
  BY FoldExists
<1>2. Len(s) \in Nat /\ \A i \in 1..Len(s) : s[i] \in B
  BY LenProperties, ElementOfSeq
<1>3. Iterates(g, h, b, s, Len(s))
  <2> SUFFICES ASSUME NEW u \in SUBSET (1..Len(s)), u # {}
               PROVE  f[<<g[u \ {Max(u)}], s[Max(u)]>>] = h[<<g[u \ {Max(u)}], s[Max(u)]>>]
    BY <1>1 DEF Iterates
  <2>1. Max(u) \in u
    BY <1>2, MaxOf
  <2>2. g[u \ {Max(u)}] \in A /\ s[Max(u)] \in B
    BY <2>1, <1>1, <1>2
  <2> QED
    BY <2>2
<1>4. r[1..Len(s)] = g[1..Len(s)]
  BY <1>2, <1>3, FoldUnique
<1> QED
  BY <1>1, <1>4, RunIs

LEMMA RunSteps ==
    ASSUME NEW A, NEW B, NEW f, NEW b, Folding(A, B, f, b)
    PROVE  /\ Run(f, b, <<>>) = b
           /\ \A s \in Seq(B) : Run(f, b, s) \in A
           /\ \A s \in Seq(B), e \in B : Run(f, b, Append(s, e)) = f[<<Run(f, b, s), e>>]
<1>1. ASSUME NEW s \in Seq(B) PROVE Run(f, b, s) \in A
  BY FoldExists, RunIs
<1>2. Run(f, b, <<>>) = b
  <2>1. ASSUME NEW s \in Seq(B), Len(s) = 0 PROVE Run(f, b, s) = b
    <3>1. PICK g \in [SUBSET (1..Len(s)) -> A] : Iterates(g, f, b, s, Len(s))
      BY FoldExists
    <3>2. Run(f, b, s) = g[1..Len(s)]
      BY <3>1, RunIs
    <3>3. 1..Len(s) = {} /\ 1..Len(s) \in SUBSET (1..Len(s))
      BY <2>1
    <3> QED
      BY <3>1, <3>2, <3>3 DEF Iterates
  <2> QED
    BY <2>1, EmptySeq
<1>3. ASSUME NEW s \in Seq(B), NEW e \in B
      PROVE  Run(f, b, Append(s, e)) = f[<<Run(f, b, s), e>>]
  <2> DEFINE t == Append(s, e)
             n == Len(s)
  <2>1. /\ n \in Nat /\ t \in Seq(B) /\ Len(t) = n + 1 /\ t[n + 1] = e
        /\ \A i \in 1..n : t[i] = s[i]
    BY AppendProperties, LenProperties
  <2> HIDE DEF t, n
  <2>2. PICK h \in [SUBSET (1..(n + 1)) -> A] : Iterates(h, f, b, t, n + 1)
    <3>1. \E h \in [SUBSET (1..Len(t)) -> A] : Iterates(h, f, b, t, Len(t))
      BY <2>1, FoldExists
    <3> QED
      BY <2>1, <3>1
  <2>3. PICK g \in [SUBSET (1..n) -> A] : Iterates(g, f, b, s, n)
    BY FoldExists DEF n
  <2>4. Run(f, b, t) = h[1..(n + 1)] /\ Run(f, b, s) = g[1..n]
    <3>1. Iterates(h, f, b, t, Len(t)) /\ Iterates(g, f, b, s, Len(s))
      BY <2>1, <2>2, <2>3 DEF n
    <3>2. Run(f, b, t) = h[1..Len(t)] /\ Run(f, b, s) = g[1..Len(s)]
      BY <3>1, <2>1, RunIs
    <3> QED
      BY <3>2, <2>1 DEF n
  <2>5. Iterates(h, f, b, t, n)
    <3>1. \A u \in SUBSET (1..n) : u \in SUBSET (1..(n + 1))
      BY <2>1
    <3> QED
      BY <2>2, <3>1 DEF Iterates
  <2>6. h[1..n] = g[1..n]
    <3>1. Iterates(h, f, b, t, n) /\ Iterates(g, f, b, s, n)
      BY <2>3, <2>5
    <3> QED
      BY <2>1, <3>1, FoldUnique
  <2>7. Max(1..(n + 1)) = n + 1
    <3>1. 1..(n + 1) \subseteq 1..(n + 1) /\ n + 1 \in 1..(n + 1) /\ n + 1 \in Nat
      BY <2>1
    <3>2. Max(1..(n + 1)) \in 1..(n + 1) /\ Max(1..(n + 1)) >= n + 1
      BY <3>1, MaxOf
    <3> QED
      BY <3>2, <2>1
  <2>8. 1..(n + 1) \in SUBSET (1..(n + 1)) /\ 1..(n + 1) # {} /\ (1..(n + 1)) \ {n + 1} = 1..n
    <3>1. \A i : i \in 1..n <=> i \in 1..(n + 1) /\ i # n + 1
      BY <2>1
    <3>2. n + 1 \in 1..(n + 1)
      BY <2>1
    <3> QED
      BY <3>1, <3>2
  <2>9. h[1..(n + 1)] = f[<<h[1..n], t[n + 1]>>]
    BY <2>2, <2>7, <2>8 DEF Iterates
  <2> QED
    BY <2>1, <2>4, <2>6, <2>9 DEF t
<1> QED
  BY <1>1, <1>2, <1>3

\* A recursion along the positions of a sequence computes the fold.
LEMMA RunAlong ==
    ASSUME NEW A, NEW B, NEW f, NEW b, Folding(A, B, f, b), NEW s \in Seq(B)
    PROVE  /\ \E g \in [0..Len(s) -> A] :
                 g[0] = b /\ \A i \in 1..Len(s) : g[i] = f[<<g[i - 1], s[i]>>]
           /\ \A g : /\ g[0] = b
                     /\ \A i \in 1..Len(s) : g[i - 1] \in A => g[i] = f[<<g[i - 1], s[i]>>]
                     => g[Len(s)] = Run(f, b, s)
<1> DEFINE n == Len(s)
           r == [i \in 0..n |-> Run(f, b, SubSeq(s, 1, i))]
<1>1. n \in Nat /\ 0 \in 0..n /\ n \in 0..n /\ \A i \in 1..n : s[i] \in B
  BY LenProperties, ElementOfSeq
<1>2. \A i \in 0..n : SubSeq(s, 1, i) \in Seq(B)
  BY <1>1, SubSeqProperties
<1>3. SubSeq(s, 1, 0) = <<>> /\ SubSeq(s, 1, n) = s
  BY <1>1, SubSeqFull, SubSeqEmpty
<1>4. ASSUME NEW i \in 1..n PROVE SubSeq(s, 1, i) = Append(SubSeq(s, 1, i - 1), s[i])
  <2>1. i - 1 \in 0..n /\ SubSeq(s, 1, i - 1) \in Seq(B) /\ SubSeq(s, 1, i) \in Seq(B)
    BY <1>1, <1>2
  <2> QED
    BY <1>1, <2>1, SubSeqRecursiveSecond
<1> HIDE DEF n
<1>5. r \in [0..n -> A]
  BY <1>2, RunSteps
<1>9. r[0] = b /\ r[n] = Run(f, b, s)
  <2>1. Run(f, b, <<>>) = b
    BY RunSteps
  <2> QED
    BY <2>1, <1>1, <1>3
<1>6. ASSUME NEW i \in 1..n PROVE r[i] = f[<<r[i - 1], s[i]>>]
  <2>1. i \in 0..n /\ i - 1 \in 0..n
    BY <1>1
  <2> DEFINE t == SubSeq(s, 1, i - 1)
             e == s[i]
  <2>2. t \in Seq(B) /\ e \in B
    BY <2>1, <1>1, <1>2
  <2>3. SubSeq(s, 1, i) = Append(t, e)
    BY <1>4
  <2> HIDE DEF t, e
  <2>4. Run(f, b, Append(t, e)) = f[<<Run(f, b, t), e>>]
    BY <2>2, RunSteps
  <2>5. r[i] = Run(f, b, Append(t, e)) /\ r[i - 1] = Run(f, b, t)
    BY <2>1, <2>3 DEF t
  <2> QED
    BY <2>4, <2>5 DEF e
<1> HIDE DEF r
<1>8. ASSUME NEW g, g[0] = b, \A i \in 1..n : g[i - 1] \in A => g[i] = f[<<g[i - 1], s[i]>>]
      PROVE  g[n] = r[n]
  <2> DEFINE N == {i \in Nat : i <= n => g[i] = r[i]}
  <2>1. 0 \in N
    BY <1>1, <1>9, <1>8
  <2>2. ASSUME NEW i \in Nat, i \in N PROVE i + 1 \in N
    <3> SUFFICES ASSUME i + 1 <= n PROVE g[i + 1] = r[i + 1]
      OBVIOUS
    <3>1. i + 1 \in 1..n /\ i \in 0..n /\ (i + 1) - 1 = i /\ i <= n
      BY <1>1
    <3>2. g[i] = r[i] /\ g[i] \in A
      BY <3>1, <2>2, <1>5
    <3>3. g[i + 1] = f[<<g[i], s[i + 1]>>] /\ r[i + 1] = f[<<r[i], s[i + 1]>>]
      BY <3>1, <3>2, <1>6, <1>8
    <3> QED
      BY <3>2, <3>3
  <2> HIDE DEF N
  <2>3. Nat \subseteq N
    BY <2>1, <2>2, NatSet
  <2> QED
    BY <2>3, <1>1 DEF N
<1> QED
  BY <1>5, <1>6, <1>9, <1>8 DEF n

LEMMA RunConcat ==
    ASSUME NEW A, NEW B, NEW f, NEW b, Folding(A, B, f, b), NEW s \in Seq(B),
           NEW t \in Seq(B)
    PROVE  Run(f, b, s \o t) = Run(f, Run(f, b, s), t)
<1> DEFINE N == {u \in Seq(B) : Run(f, b, s \o u) = Run(f, Run(f, b, s), u)}
<1>1. <<>> \in N
  <2>1. s \o <<>> = s /\ <<>> \in Seq(B)
    BY ConcatEmptySeq, EmptySeq
  <2>2. Folding(A, B, f, Run(f, b, s))
    BY RunSteps DEF Folding
  <2>3. Run(f, Run(f, b, s), <<>>) = Run(f, b, s)
    BY <2>2, RunSteps
  <2> QED
    BY <2>1, <2>3
<1>2. ASSUME NEW u \in Seq(B), NEW e \in B, u \in N PROVE Append(u, e) \in N
  <2>1. s \o Append(u, e) = Append(s \o u, e) /\ s \o u \in Seq(B) /\ Append(u, e) \in Seq(B)
    OBVIOUS
  <2>2. Run(f, b, s) \in A
    BY RunSteps
  <2>3. Folding(A, B, f, Run(f, b, s))
    BY <2>2 DEF Folding
  <2>4. Run(f, Run(f, b, s), Append(u, e)) = f[<<Run(f, Run(f, b, s), u), e>>]
    BY <2>3, RunSteps
  <2>6. \A w \in Seq(B) : Run(f, b, Append(w, e)) = f[<<Run(f, b, w), e>>]
    BY RunSteps
  <2>5. Run(f, b, Append(s \o u, e)) = f[<<Run(f, b, s \o u), e>>]
    BY <2>1, <2>6
  <2> QED
    BY <1>2, <2>1, <2>4, <2>5
<1> HIDE DEF N
<1>3. Seq(B) \subseteq N
  BY <1>1, <1>2, SeqSet
<1> QED
  BY <1>3 DEF N

-----------------------------------------------------------------------------
(* Filters.                                                                *)

Keeping(S, T) == [p \in Seq(S) \X S |-> IF p[2] \in T THEN Append(p[1], p[2]) ELSE p[1]]

LEMMA OnlyIsRun ==
    ASSUME NEW S, NEW T, NEW s \in Seq(S)
    PROVE  Only(s, T) = Run(Keeping(S, T), <<>>, s)
<1> DEFINE f == Keeping(S, T)
           n == Len(s)
           Body(g, i) == IF i = 0 THEN <<>>
                         ELSE IF s[i] \in T THEN Append(g[i - 1], s[i]) ELSE g[i - 1]
           Is(g) == g = [i \in 0..n |-> Body(g, i)]
           r == CHOOSE g : Is(g)
<1>1. Only(s, T) = r[n]
  BY DEF Only
<1>2. n \in Nat /\ \A i \in 1..n : s[i] \in S
  BY LenProperties, ElementOfSeq
<1>3. Folding(Seq(S), S, f, <<>>)
  BY EmptySeq DEF Keeping, Folding
<1>4. PICK g \in [0..n -> Seq(S)] :
         g[0] = <<>> /\ \A i \in 1..n : g[i] = f[<<g[i - 1], s[i]>>]
  <2> HIDE DEF f
  <2> QED
    BY <1>3, RunAlong
<1>5. ASSUME NEW i \in 0..n
      PROVE  i = 0 \/ (i \in 1..n /\ i - 1 \in 0..n)
  BY <1>2
<1>6. Is(g)
  <2>1. \A i \in 0..n : g[i] = Body(g, i)
    BY <1>2, <1>4, <1>5 DEF Keeping
  <2> QED
    BY <2>1, <1>4
<1>7. Is(r)
  BY <1>6
<1> HIDE DEF r
<1>8. \A i \in 0..n : r[i] = Body(r, i)
  BY <1>7
<1>9. r[0] = <<>> /\ \A i \in 1..n : r[i - 1] \in Seq(S) => r[i] = f[<<r[i - 1], s[i]>>]
  BY <1>2, <1>8 DEF Keeping
<1> HIDE DEF f, n
<1>10. \A h : /\ h[0] = <<>>
              /\ \A i \in 1..n : h[i - 1] \in Seq(S) => h[i] = f[<<h[i - 1], s[i]>>]
              => h[n] = Run(f, <<>>, s)
  BY <1>3, RunAlong DEF n
<1>11. r[n] = Run(f, <<>>, s)
  BY <1>9, <1>10, Zenon
<1> QED
  BY <1>1, <1>11 DEF f

\* Append and concatenation, as symbols the provers do not look into.
Pushed(s, e) == Append(s, e)
Cat(s, t) == s \o t

LEMMA PushedIs ==
    ASSUME NEW S, NEW s \in Seq(S), NEW e \in S
    PROVE  Pushed(s, e) \in Seq(S) /\ ToSet(Pushed(s, e)) = ToSet(s) \cup {e}
BY AppendSet DEF Pushed

LEMMA CatIs ==
    ASSUME NEW S, NEW s \in Seq(S), NEW t \in Seq(S)
    PROVE  /\ Cat(s, t) \in Seq(S) /\ Cat(s, <<>>) = s /\ Cat(<<>>, s) = s
           /\ \A e \in S : Cat(s, Pushed(t, e)) = Pushed(Cat(s, t), e)
BY ConcatEmptySeq, EmptySeq DEF Pushed, Cat

LEMMA PushedSet ==
    ASSUME NEW S, NEW T, <<>> \in T,
           \A s \in Seq(S), e \in S : s \in T => Pushed(s, e) \in T
    PROVE  Seq(S) \subseteq T
BY SeqSet DEF Pushed

LEMMA CatSet ==
    ASSUME NEW S, NEW s \in Seq(S), NEW t \in Seq(S)
    PROVE  ToSet(Cat(s, t)) = ToSet(s) \cup ToSet(t)
<1> DEFINE N == {w \in Seq(S) : ToSet(Cat(s, w)) = ToSet(s) \cup ToSet(w)}
<1>1. <<>> \in N
  <2>1. ToSet(<<>>) = {} /\ <<>> \in Seq(S)
    BY EmptySeq DEF ToSet
  <2>2. Cat(s, <<>>) = s
    BY <2>1, CatIs
  <2> QED
    BY <2>1, <2>2
<1>2. ASSUME NEW w \in Seq(S), NEW e \in S, w \in N PROVE Pushed(w, e) \in N
  <2>1. Cat(s, Pushed(w, e)) = Pushed(Cat(s, w), e) /\ Cat(s, w) \in Seq(S)
    BY CatIs
  <2>2. /\ Pushed(w, e) \in Seq(S) /\ ToSet(Pushed(w, e)) = ToSet(w) \cup {e}
        /\ ToSet(Pushed(Cat(s, w), e)) = ToSet(Cat(s, w)) \cup {e}
    BY <2>1, PushedIs
  <2>3. ToSet(Cat(s, Pushed(w, e))) = ToSet(s) \cup ToSet(Pushed(w, e))
    BY <2>1, <2>2, <1>2
  <2> QED
    BY <2>2, <2>3
<1> HIDE DEF N
<1>3. Seq(S) \subseteq N
  BY <1>1, <1>2, PushedSet
<1> QED
  BY <1>3 DEF N

LEMMA OnlyEmpty ==
    ASSUME NEW T
    PROVE  Only(<<>>, T) = <<>>
<1> DEFINE f == Keeping({}, T)
<1>1. Folding(Seq({}), {}, f, <<>>)
  BY EmptySeq DEF Keeping, Folding
<1>2. <<>> \in Seq({})
  BY EmptySeq
<1>3. Only(<<>>, T) = Run(f, <<>>, <<>>)
  BY <1>2, OnlyIsRun
<1> HIDE DEF f
<1> QED
  BY <1>1, <1>3, RunSteps

LEMMA OnlyType ==
    ASSUME NEW S, NEW T, NEW s \in Seq(S)
    PROVE  Only(s, T) \in Seq(S)
<1>1. Folding(Seq(S), S, Keeping(S, T), <<>>)
  BY EmptySeq DEF Keeping, Folding
<1>2. Run(Keeping(S, T), <<>>, s) \in Seq(S)
  BY <1>1, RunSteps
<1> QED
  BY <1>2, OnlyIsRun

LEMMA OnlyPushed ==
    ASSUME NEW S, NEW T, NEW s \in Seq(S), NEW e \in S
    PROVE  /\ e \in T => Only(Pushed(s, e), T) = Pushed(Only(s, T), e)
           /\ e \notin T => Only(Pushed(s, e), T) = Only(s, T)
<1> DEFINE f == Keeping(S, T)
<1>1. Folding(Seq(S), S, f, <<>>)
  BY EmptySeq DEF Keeping, Folding
<1>2. \A u \in Seq(S) : Only(u, T) = Run(f, <<>>, u)
  BY OnlyIsRun
<1>3. \A u \in Seq(S), x \in S :
        (x \in T => f[<<u, x>>] = Pushed(u, x)) /\ (x \notin T => f[<<u, x>>] = u)
  BY DEF Keeping, Pushed
<1> HIDE DEF f
<1>4. /\ \A u \in Seq(S) : Run(f, <<>>, u) \in Seq(S)
      /\ \A u \in Seq(S), x \in S : Run(f, <<>>, Append(u, x)) = f[<<Run(f, <<>>, u), x>>]
  BY <1>1, RunSteps
<1> DEFINE R(u) == Run(f, <<>>, u)
<1>5. \A u \in Seq(S), x \in S : Pushed(u, x) \in Seq(S)
  BY PushedIs
<1>6. \A u \in Seq(S) : R(u) \in Seq(S) /\ Only(u, T) = R(u)
  BY <1>2, <1>4
<1>7. \A u \in Seq(S), x \in S : R(Pushed(u, x)) = f[<<R(u), x>>]
  BY <1>4 DEF Pushed
<1> HIDE DEF R
<1> QED
  BY <1>3, <1>5, <1>6, <1>7

\* Only the members of T among the elements matter.
LEMMA OnlySame ==
    ASSUME NEW S, NEW T, NEW U, NEW s \in Seq(S), ToSet(s) \cap T = ToSet(s) \cap U
    PROVE  Only(s, T) = Only(s, U)
<1> DEFINE N == {w \in Seq(S) : ToSet(w) \cap T = ToSet(w) \cap U => Only(w, T) = Only(w, U)}
<1>1. <<>> \in N
  BY EmptySeq, OnlyEmpty
<1>2. ASSUME NEW w \in Seq(S), NEW e \in S, w \in N PROVE Pushed(w, e) \in N
  <2>1. Pushed(w, e) \in Seq(S) /\ ToSet(Pushed(w, e)) = ToSet(w) \cup {e}
    BY PushedIs
  <2> SUFFICES ASSUME ToSet(Pushed(w, e)) \cap T = ToSet(Pushed(w, e)) \cap U
               PROVE  Only(Pushed(w, e), T) = Only(Pushed(w, e), U)
    BY <2>1
  <2>2. ToSet(w) \cap T = ToSet(w) \cap U /\ (e \in T <=> e \in U)
    BY <2>1
  <2>3. Only(w, T) = Only(w, U)
    BY <1>2, <2>2
  <2> QED
    BY <2>2, <2>3, OnlyType, OnlyPushed
<1> HIDE DEF N
<1>3. Seq(S) \subseteq N
  BY <1>1, <1>2, PushedSet
<1> QED
  BY <1>3 DEF N

LEMMA OnlyHolds ==
    ASSUME NEW S, NEW T, NEW s \in Seq(S)
    PROVE  ToSet(Only(s, T)) = ToSet(s) \cap T
<1> DEFINE N == {w \in Seq(S) : ToSet(Only(w, T)) = ToSet(w) \cap T}
<1>1. <<>> \in N
  <2>1. ToSet(<<>>) = {}
    BY DEF ToSet
  <2> QED
    BY <2>1, EmptySeq, OnlyEmpty
<1>2. ASSUME NEW w \in Seq(S), NEW e \in S, w \in N PROVE Pushed(w, e) \in N
  <2>1. Pushed(w, e) \in Seq(S) /\ ToSet(Pushed(w, e)) = ToSet(w) \cup {e}
    BY PushedIs
  <2>2. Only(w, T) \in Seq(S)
    BY OnlyType, OnlyPushed
  <2>3. ToSet(Pushed(Only(w, T), e)) = ToSet(Only(w, T)) \cup {e}
    BY <2>2, PushedIs
  <2>4. /\ e \in T => Only(Pushed(w, e), T) = Pushed(Only(w, T), e)
        /\ e \notin T => Only(Pushed(w, e), T) = Only(w, T)
    BY OnlyType, OnlyPushed
  <2>5. ToSet(Only(w, T)) = ToSet(w) \cap T
    BY <1>2
  <2>6. ToSet(Only(Pushed(w, e), T)) = ToSet(Pushed(w, e)) \cap T
    BY <2>1, <2>3, <2>4, <2>5
  <2> QED
    BY <2>1, <2>6
<1> HIDE DEF N
<1>3. Seq(S) \subseteq N
  BY <1>1, <1>2, PushedSet
<1> QED
  BY <1>3 DEF N

LEMMA OnlySplits ==
    ASSUME NEW S, NEW T, NEW s \in Seq(S), NEW t \in Seq(S)
    PROVE  Only(Cat(s, t), T) = Cat(Only(s, T), Only(t, T))
<1> DEFINE N == {w \in Seq(S) : Only(Cat(s, w), T) = Cat(Only(s, T), Only(w, T))}
<1>0. Only(s, T) \in Seq(S)
  BY OnlyType, OnlyPushed
<1>1. <<>> \in N
  <2>1. Cat(s, <<>>) = s /\ Cat(Only(s, T), <<>>) = Only(s, T) /\ <<>> \in Seq(S)
    BY <1>0, EmptySeq, CatIs
  <2> QED
    BY <2>1, OnlyEmpty
<1>2. ASSUME NEW w \in Seq(S), NEW e \in S, w \in N PROVE Pushed(w, e) \in N
  <2>1. Cat(s, Pushed(w, e)) = Pushed(Cat(s, w), e) /\ Cat(s, w) \in Seq(S) /\ Pushed(w, e) \in Seq(S)
    BY CatIs, PushedIs
  <2>2. Only(w, T) \in Seq(S)
    BY OnlyType, OnlyPushed
  <2>3. Cat(Only(s, T), Pushed(Only(w, T), e)) = Pushed(Cat(Only(s, T), Only(w, T)), e)
    BY <1>0, <2>2, CatIs
  <2>4. /\ e \in T => Only(Pushed(w, e), T) = Pushed(Only(w, T), e)
        /\ e \notin T => Only(Pushed(w, e), T) = Only(w, T)
    BY OnlyPushed
  <2>7. /\ e \in T => Only(Pushed(Cat(s, w), e), T) = Pushed(Only(Cat(s, w), T), e)
        /\ e \notin T => Only(Pushed(Cat(s, w), e), T) = Only(Cat(s, w), T)
    BY <2>1, OnlyPushed
  <2>5. Only(Cat(s, w), T) = Cat(Only(s, T), Only(w, T))
    BY <1>2
  <2>6. Only(Cat(s, Pushed(w, e)), T) = Cat(Only(s, T), Only(Pushed(w, e), T))
    <3>1. CASE e \in T
      BY <3>1, <2>1, <2>3, <2>4, <2>5, <2>7
    <3>2. CASE e \notin T
      BY <3>2, <2>1, <2>4, <2>5, <2>7
    <3> QED
      BY <3>1, <3>2
  <2> QED
    BY <2>1, <2>6
<1> HIDE DEF N
<1>3. Seq(S) \subseteq N
  BY <1>1, <1>2, PushedSet
<1> QED
  BY <1>3 DEF N

LEMMA OnlyAll ==
    ASSUME NEW S, NEW T, NEW s \in Seq(S), ToSet(s) \subseteq T
    PROVE  Only(s, T) = s
<1> DEFINE N == {w \in Seq(S) : ToSet(w) \subseteq T => Only(w, T) = w}
<1>1. <<>> \in N
  BY EmptySeq, OnlyEmpty
<1>2. ASSUME NEW w \in Seq(S), NEW e \in S, w \in N PROVE Pushed(w, e) \in N
  <2>1. Pushed(w, e) \in Seq(S) /\ ToSet(Pushed(w, e)) = ToSet(w) \cup {e}
    BY PushedIs
  <2>2. /\ e \in T => Only(Pushed(w, e), T) = Pushed(Only(w, T), e)
        /\ e \notin T => Only(Pushed(w, e), T) = Only(w, T)
    BY OnlyType, OnlyPushed
  <2> QED
    BY <1>2, <2>1, <2>2
<1> HIDE DEF N
<1>3. Seq(S) \subseteq N
  BY <1>1, <1>2, PushedSet
<1> QED
  BY <1>3 DEF N

LEMMA OnlyNone ==
    ASSUME NEW S, NEW T, NEW s \in Seq(S), ToSet(s) \cap T = {}
    PROVE  Only(s, T) = <<>>
<1> DEFINE N == {w \in Seq(S) : ToSet(w) \cap T = {} => Only(w, T) = <<>>}
<1>1. <<>> \in N
  BY EmptySeq, OnlyEmpty
<1>2. ASSUME NEW w \in Seq(S), NEW e \in S, w \in N PROVE Pushed(w, e) \in N
  <2>1. Pushed(w, e) \in Seq(S) /\ ToSet(Pushed(w, e)) = ToSet(w) \cup {e}
    BY PushedIs
  <2>2. /\ e \in T => Only(Pushed(w, e), T) = Pushed(Only(w, T), e)
        /\ e \notin T => Only(Pushed(w, e), T) = Only(w, T)
    BY OnlyType, OnlyPushed
  <2> QED
    BY <1>2, <2>1, <2>2
<1> HIDE DEF N
<1>3. Seq(S) \subseteq N
  BY <1>1, <1>2, PushedSet
<1> QED
  BY <1>3 DEF N

LEMMA OnlyTwice ==
    ASSUME NEW S, NEW T, NEW U, NEW s \in Seq(S)
    PROVE  Only(Only(s, T), U) = Only(s, T \cap U)
<1> DEFINE N == {w \in Seq(S) : Only(Only(w, T), U) = Only(w, T \cap U)}
<1>1. <<>> \in N
  BY EmptySeq, OnlyEmpty
<1>2. ASSUME NEW w \in Seq(S), NEW e \in S, w \in N PROVE Pushed(w, e) \in N
  <2>1. Pushed(w, e) \in Seq(S) /\ Only(w, T) \in Seq(S)
    BY OnlyType, PushedIs
  <2>2. /\ e \in T => Only(Pushed(w, e), T) = Pushed(Only(w, T), e)
        /\ e \notin T => Only(Pushed(w, e), T) = Only(w, T)
    BY OnlyType, OnlyPushed
  <2>3. /\ e \in T \cap U => Only(Pushed(w, e), T \cap U) = Pushed(Only(w, T \cap U), e)
        /\ e \notin T \cap U => Only(Pushed(w, e), T \cap U) = Only(w, T \cap U)
    BY OnlyType, OnlyPushed
  <2>4. /\ e \in U => Only(Pushed(Only(w, T), e), U) = Pushed(Only(Only(w, T), U), e)
        /\ e \notin U => Only(Pushed(Only(w, T), e), U) = Only(Only(w, T), U)
    BY <2>1, OnlyType, OnlyPushed
  <2>5. Only(Only(w, T), U) = Only(w, T \cap U)
    BY <1>2
  <2>6. Only(Only(Pushed(w, e), T), U) = Only(Pushed(w, e), T \cap U)
    BY <2>2, <2>3, <2>4, <2>5
  <2> QED
    BY <2>1, <2>6
<1> HIDE DEF N
<1>3. Seq(S) \subseteq N
  BY <1>1, <1>2, PushedSet
<1> QED
  BY <1>3 DEF N

LEMMA OnlyTail ==
    ASSUME NEW S, NEW T, NEW s \in Seq(S), s # <<>>
    PROVE  /\ Head(s) \in S /\ Tail(s) \in Seq(S) /\ s = <<Head(s)>> \o Tail(s)
           /\ ToSet(s) = {Head(s)} \cup ToSet(Tail(s))
           /\ Head(s) \in T => Only(s, T) = <<Head(s)>> \o Only(Tail(s), T)
           /\ Head(s) \notin T => Only(s, T) = Only(Tail(s), T)
<1>1. Head(s) \in S /\ Tail(s) \in Seq(S)
  BY HeadTailProperties
<1>2. s = <<Head(s)>> \o Tail(s) /\ <<Head(s)>> \in Seq(S)
  BY <1>1
<1>3. <<>> \in Seq(S) /\ <<Head(s)>> = Append(<<>>, Head(s))
  BY EmptySeq
<1>4. /\ Head(s) \in T => Only(<<Head(s)>>, T) = <<Head(s)>>
      /\ Head(s) \notin T => Only(<<Head(s)>>, T) = <<>>
  <2>1. /\ Head(s) \in T => Only(Pushed(<<>>, Head(s)), T) = Pushed(Only(<<>>, T), Head(s))
        /\ Head(s) \notin T => Only(Pushed(<<>>, Head(s)), T) = Only(<<>>, T)
    BY <1>1, <1>3, OnlyPushed
  <2>2. Only(<<>>, T) = <<>>
    BY OnlyEmpty
  <2>3. Pushed(<<>>, Head(s)) = <<Head(s)>>
    BY <1>3 DEF Pushed
  <2> QED
    BY <2>1, <2>2, <2>3
<1>5. Only(Tail(s), T) \in Seq(S)
  BY <1>1, OnlyType, OnlyPushed
<1>6. Only(<<Head(s)>> \o Tail(s), T) = Only(<<Head(s)>>, T) \o Only(Tail(s), T)
  BY <1>1, <1>2, OnlySplits DEF Cat
<1>7. <<>> \o Only(Tail(s), T) = Only(Tail(s), T)
  BY <1>5, ConcatEmptySeq
<1>8. ToSet(s) = {Head(s)} \cup ToSet(Tail(s))
  <2>1. Len(s) \in Nat /\ Len(s) > 0 /\ DOMAIN s = 1..Len(s) /\ DOMAIN Tail(s) = 1..(Len(s) - 1)
    BY <1>1, LenProperties, EmptySeq, HeadTailProperties
  <2>2. Head(s) = s[1] /\ \A i \in 1..(Len(s) - 1) : Tail(s)[i] = s[i + 1]
    BY HeadTailProperties
  <2>3. \A i \in 1..Len(s) : i = 1 \/ (i - 1 \in 1..(Len(s) - 1) /\ (i - 1) + 1 = i)
    BY <2>1
  <2>4. \A i \in 1..(Len(s) - 1) : i + 1 \in 1..Len(s)
    BY <2>1
  <2>5. 1 \in 1..Len(s)
    BY <2>1
  <2> QED
    <3>1. ASSUME NEW x \in ToSet(s) PROVE x \in {Head(s)} \cup ToSet(Tail(s))
      <4>1. PICK i \in 1..Len(s) : x = s[i]
        BY <2>1 DEF ToSet
      <4>2. CASE i = 1
        BY <4>1, <4>2, <2>2
      <4>3. CASE i # 1
        <5>1. i - 1 \in 1..(Len(s) - 1) /\ (i - 1) + 1 = i
          BY <4>3, <2>3
        <5>2. Tail(s)[i - 1] = x
          BY <5>1, <2>2, <4>1
        <5> QED
          BY <5>1, <5>2, <2>1 DEF ToSet
      <4> QED
        BY <4>2, <4>3
    <3>2. Head(s) \in ToSet(s)
      BY <2>1, <2>2, <2>5 DEF ToSet
    <3>3. \A x \in ToSet(Tail(s)) : x \in ToSet(s)
      <4> SUFFICES ASSUME NEW i \in 1..(Len(s) - 1) PROVE Tail(s)[i] \in ToSet(s)
        BY <2>1 DEF ToSet
      <4>1. Tail(s)[i] = s[i + 1] /\ i + 1 \in DOMAIN s
        BY <2>1, <2>2, <2>4
      <4> QED
        BY <4>1 DEF ToSet
    <3> QED
      BY <3>1, <3>2, <3>3
<1> QED
  BY <1>1, <1>2, <1>4, <1>6, <1>7, <1>8

\* What is left keeps its order.
LEMMA OnlyEmbeds ==
    ASSUME NEW S, NEW T, NEW s \in Seq(S)
    PROVE  \A i, j \in DOMAIN Only(s, T) : i < j =>
              \E k, l \in DOMAIN s : k < l /\ Only(s, T)[i] = s[k] /\ Only(s, T)[j] = s[l]
<1> DEFINE N == {w \in Seq(S) :
                   \A i, j \in DOMAIN Only(w, T) : i < j =>
                      \E k, l \in DOMAIN w :
                         k < l /\ Only(w, T)[i] = w[k] /\ Only(w, T)[j] = w[l]}
<1>1. <<>> \in N
  BY EmptySeq, OnlyEmpty
<1>2. ASSUME NEW w \in Seq(S), NEW e \in S, w \in N PROVE Append(w, e) \in N
  <2> DEFINE t == Append(w, e)
             q == Only(w, T)
             r == Only(t, T)
  <2>1. /\ t \in Seq(S) /\ Len(w) \in Nat /\ DOMAIN w = 1..Len(w)
        /\ DOMAIN t = 1..(Len(w) + 1) /\ t[Len(w) + 1] = e
        /\ \A i \in 1..Len(w) : t[i] = w[i]
    BY AppendProperties, LenProperties
  <2>2. q \in Seq(S) /\ (e \in T => r = Append(q, e)) /\ (e \notin T => r = q)
    BY OnlyType, OnlyPushed DEF Pushed
  <2>3. /\ Len(q) \in Nat /\ DOMAIN q = 1..Len(q)
        /\ e \in T => /\ DOMAIN r = 1..(Len(q) + 1) /\ r[Len(q) + 1] = e
                      /\ \A i \in 1..Len(q) : r[i] = q[i]
    BY <2>2, AppendProperties, LenProperties
  <2>4. ToSet(q) \subseteq ToSet(w)
    BY OnlyHolds
  <2>5. \A i, j \in DOMAIN q : i < j => \E k, l \in DOMAIN w : k < l /\ q[i] = w[k] /\ q[j] = w[l]
    BY <1>2
  <2> HIDE DEF t, q, r
  <2>6. \A i, j \in DOMAIN q : i < j => \E k, l \in DOMAIN t : k < l /\ q[i] = t[k] /\ q[j] = t[l]
    BY <2>1, <2>5
  <2>7. ASSUME NEW i \in DOMAIN r, NEW j \in DOMAIN r, i < j
        PROVE  \E k, l \in DOMAIN t : k < l /\ r[i] = t[k] /\ r[j] = t[l]
    <3>1. CASE e \notin T
      BY <3>1, <2>2, <2>6, <2>7
    <3>2. CASE e \in T /\ j \in DOMAIN q
      <4>1. i \in DOMAIN q
        BY <3>2, <2>3, <2>7
      <4> QED
        BY <4>1, <3>2, <2>3, <2>6, <2>7
    <3>3. CASE e \in T /\ j \notin DOMAIN q
      <4>1. j = Len(q) + 1 /\ i \in DOMAIN q
        BY <3>3, <2>3, <2>7
      <4>2. q[i] \in ToSet(w)
        BY <4>1, <2>4 DEF ToSet
      <4>3. PICK k \in DOMAIN w : q[i] = w[k]
        BY <4>2 DEF ToSet
      <4>4. k \in DOMAIN t /\ Len(w) + 1 \in DOMAIN t /\ k < Len(w) + 1
        BY <2>1, <4>3
      <4>5. r[i] = t[k] /\ r[j] = t[Len(w) + 1]
        BY <4>1, <4>3, <2>1, <2>3, <3>3
      <4> QED
        BY <4>4, <4>5
    <3> QED
      BY <3>1, <3>2, <3>3
  <2> QED
    BY <2>1, <2>7 DEF t, r
<1> HIDE DEF N
<1>3. Seq(S) \subseteq N
  BY <1>1, <1>2, SeqSet
<1> QED
  BY <1>3 DEF N

LEMMA OnlyInjective ==
    ASSUME NEW S, NEW T, NEW s \in Seq(S), IsInjective(s)
    PROVE  IsInjective(Only(s, T))
<1>1. Only(s, T) \in Seq(S)
  BY OnlyType, OnlyPushed
<1>2. /\ Len(s) \in Nat /\ DOMAIN s = 1..Len(s)
      /\ Len(Only(s, T)) \in Nat /\ DOMAIN Only(s, T) = 1..Len(Only(s, T))
  BY <1>1, LenProperties
<1>3. \A k, l \in DOMAIN s : s[k] = s[l] => k = l
  BY DEF IsInjective
<1> DEFINE q == Only(s, T)
<1>4. \A i, j \in DOMAIN q : i < j => q[i] # q[j]
  <2>1. \A i, j \in DOMAIN q : i < j => \E k, l \in DOMAIN s : k < l /\ q[i] = s[k] /\ q[j] = s[l]
    BY OnlyEmbeds
  <2> QED
    BY <2>1, <1>2, <1>3
<1> HIDE DEF q
<1>5. \A i, j \in DOMAIN q : i < j \/ j < i \/ i = j
  BY <1>2 DEF q
<1>6. \A i, j \in DOMAIN q : q[i] = q[j] => i = j
  BY <1>4, <1>5
<1> QED
  BY <1>6 DEF IsInjective, q

-----------------------------------------------------------------------------
(* Sums of bytes.                                                          *)

Adding(S) == [p \in Nat \X S |-> p[1] + p[2].bytes]

LEMMA BytesIsRun ==
    ASSUME NEW S, \A x \in S : x.bytes \in Nat, NEW s \in Seq(S)
    PROVE  Folding(Nat, S, Adding(S), 0) /\ Bytes(s) = Run(Adding(S), 0, s)
<1> DEFINE D == DOMAIN s
           Add(sum, frame) == sum + frame.bytes
           Folds(g) == g = [w \in SUBSET D |-> IF w = {} THEN 0
                                               ELSE Add(g[w \ {Max(w)}], s[Max(w)])]
           r == CHOOSE g : Folds(g)
           f == Adding(S)
<1>1. Bytes(s) = r[D]
  BY DEF Bytes, FoldLeft, MapThenFoldSet
<1>2. Folding(Nat, S, f, 0) /\ D = 1..Len(s) /\ Len(s) \in Nat
  BY LenProperties DEF Adding, Folding
<1>3. PICK g \in [SUBSET (1..Len(s)) -> Nat] : Iterates(g, f, 0, s, Len(s))
  BY <1>2, FoldExists
<1> HIDE DEF D, f
<1>4. ASSUME NEW w \in SUBSET D, w # {}
      PROVE  Max(w) \in D /\ s[Max(w)] \in S /\ w \ {Max(w)} \in SUBSET D
  <2>1. Max(w) \in w
    BY <1>2, <1>4, MaxOf
  <2> QED
    BY <2>1, <1>2, ElementOfSeq
<1>5. Folds(g)
  <2>1. ASSUME NEW w \in SUBSET D
        PROVE  g[w] = IF w = {} THEN 0 ELSE Add(g[w \ {Max(w)}], s[Max(w)])
    <3>1. CASE w = {}
      BY <3>1, <1>2, <1>3 DEF Iterates
    <3>2. CASE w # {}
      <4>1. g[w \ {Max(w)}] \in Nat /\ s[Max(w)] \in S
        BY <3>2, <1>2, <1>3, <1>4
      <4>2. g[w] = f[<<g[w \ {Max(w)}], s[Max(w)]>>]
        BY <3>2, <1>2, <1>3 DEF Iterates
      <4> QED
        BY <3>2, <4>1, <4>2 DEF Adding, f
    <3> QED
      BY <3>1, <3>2
  <2> QED
    BY <2>1, <1>2, <1>3
<1>6. Folds(r)
  BY <1>5
<1>7. \A w \in SUBSET D : r[w] = IF w = {} THEN 0 ELSE Add(r[w \ {Max(w)}], s[Max(w)])
  BY <1>6
<1> HIDE DEF r
<1> DEFINE X == Nat \cup {r[w] : w \in SUBSET D}
           h == [p \in X \X S |-> Add(p[1], p[2])]
<1>8. Iterates(r, h, 0, s, Len(s))
  <2>1. \A w \in SUBSET D : r[w] \in X
    OBVIOUS
  <2> HIDE DEF X
  <2> QED
    BY <2>1, <1>2, <1>4, <1>7 DEF Iterates
<1>9. \A p \in Nat \X S : h[p] = f[p]
  BY DEF Adding, f
<1> HIDE DEF h
<1>10. Folding(Nat, S, f, 0)
  BY <1>2
<1>11. ASSUME NEW z, z = 0, NEW A, A = Nat PROVE r[1..Len(s)] = Run(f, z, s)
  <2>1. Folding(A, S, f, z) /\ Iterates(r, h, z, s, Len(s)) /\ \A p \in A \X S : h[p] = f[p]
    BY <1>8, <1>9, <1>10, <1>11
  <2> QED
    BY <2>1, RunAgrees
<1> QED
  BY <1>1, <1>2, <1>11 DEF r, f

LEMMA BytesEmpty == Bytes(<<>>) = 0
<1>1. <<>> \in Seq({})
  BY EmptySeq
<1>2. Folding(Nat, {}, Adding({}), 0) /\ Bytes(<<>>) = Run(Adding({}), 0, <<>>)
  BY <1>1, BytesIsRun
<1> QED
  BY <1>2, RunSteps

LEMMA BytesPushed ==
    ASSUME NEW S, \A x \in S : x.bytes \in Nat, NEW s \in Seq(S), NEW e \in S
    PROVE  Bytes(s) \in Nat /\ Bytes(Pushed(s, e)) = Bytes(s) + e.bytes
<1>1. Folding(Nat, S, Adding(S), 0) /\ Bytes(s) = Run(Adding(S), 0, s)
  BY BytesIsRun
<1>2. Pushed(s, e) \in Seq(S)
  BY PushedIs
<1>3. Bytes(Pushed(s, e)) = Run(Adding(S), 0, Pushed(s, e))
  BY <1>2, BytesIsRun
<1>4. Run(Adding(S), 0, s) \in Nat
  BY <1>1, RunSteps
<1>5. Run(Adding(S), 0, Pushed(s, e)) = Adding(S)[<<Run(Adding(S), 0, s), e>>]
  BY <1>1, RunSteps DEF Pushed
<1> QED
  BY <1>1, <1>3, <1>4, <1>5 DEF Adding

LEMMA BytesType ==
    ASSUME NEW S, \A x \in S : x.bytes \in Nat, NEW s \in Seq(S)
    PROVE  Bytes(s) \in Nat
BY BytesIsRun, RunSteps

LEMMA BytesSplits ==
    ASSUME NEW S, \A x \in S : x.bytes \in Nat, NEW s \in Seq(S), NEW t \in Seq(S)
    PROVE  Bytes(Cat(s, t)) = Bytes(s) + Bytes(t)
<1> DEFINE N == {w \in Seq(S) : Bytes(Cat(s, w)) = Bytes(s) + Bytes(w)}
<1>0. Bytes(s) \in Nat
  BY BytesType
<1>1. <<>> \in N
  <2>1. Cat(s, <<>>) = s /\ <<>> \in Seq(S)
    BY CatIs, EmptySeq
  <2> QED
    BY <2>1, <1>0, BytesEmpty
<1>2. ASSUME NEW w \in Seq(S), NEW e \in S, w \in N PROVE Pushed(w, e) \in N
  <2>1. Cat(s, Pushed(w, e)) = Pushed(Cat(s, w), e) /\ Cat(s, w) \in Seq(S) /\ Pushed(w, e) \in Seq(S)
    BY CatIs, PushedIs
  <2>2. Bytes(w) \in Nat /\ Bytes(Pushed(w, e)) = Bytes(w) + e.bytes
    BY BytesPushed
  <2>3. Bytes(Pushed(Cat(s, w), e)) = Bytes(Cat(s, w)) + e.bytes
    BY <2>1, BytesPushed
  <2>4. Bytes(Cat(s, w)) = Bytes(s) + Bytes(w) /\ e.bytes \in Nat
    BY <1>2
  <2>5. Bytes(Cat(s, Pushed(w, e))) = Bytes(s) + Bytes(Pushed(w, e))
    BY <2>1, <2>2, <2>3, <2>4, <1>0
  <2> QED
    BY <2>1, <2>5
<1> HIDE DEF N
<1>3. Seq(S) \subseteq N
  BY <1>1, <1>2, PushedSet
<1> QED
  BY <1>3 DEF N

\* A filter counts no more bytes.
LEMMA BytesLess ==
    ASSUME NEW S, \A x \in S : x.bytes \in Nat, NEW T, NEW s \in Seq(S)
    PROVE  Bytes(Only(s, T)) <= Bytes(s)
<1> DEFINE N == {w \in Seq(S) : Bytes(Only(w, T)) <= Bytes(w)}
<1>1. <<>> \in N
  BY EmptySeq, OnlyEmpty, BytesEmpty
<1>2. ASSUME NEW w \in Seq(S), NEW e \in S, w \in N PROVE Pushed(w, e) \in N
  <2>1. Pushed(w, e) \in Seq(S) /\ Only(w, T) \in Seq(S)
    BY PushedIs, OnlyType
  <2>2. Bytes(w) \in Nat /\ Bytes(Pushed(w, e)) = Bytes(w) + e.bytes
    BY BytesPushed
  <2>3. /\ Bytes(Only(w, T)) \in Nat
        /\ Bytes(Pushed(Only(w, T), e)) = Bytes(Only(w, T)) + e.bytes
    BY <2>1, BytesPushed
  <2>4. /\ e \in T => Only(Pushed(w, e), T) = Pushed(Only(w, T), e)
        /\ e \notin T => Only(Pushed(w, e), T) = Only(w, T)
    BY OnlyPushed
  <2>5. Bytes(Only(w, T)) <= Bytes(w) /\ e.bytes \in Nat
    BY <1>2
  <2>6. Bytes(Only(Pushed(w, e), T)) <= Bytes(Pushed(w, e))
    <3>1. CASE e \in T
      BY <3>1, <2>2, <2>3, <2>4, <2>5
    <3>2. CASE e \notin T
      BY <3>2, <2>2, <2>3, <2>4, <2>5
    <3> QED
      BY <3>1, <3>2
  <2> QED
    BY <2>1, <2>6
<1> HIDE DEF N
<1>3. Seq(S) \subseteq N
  BY <1>1, <1>2, PushedSet
<1> QED
  BY <1>3 DEF N
=============================================================================
