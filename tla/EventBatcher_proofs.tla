------------------------ MODULE EventBatcher_proofs ------------------------
(***************************************************************************)
(* Proofs about the write path, for any events and what they say, any      *)
(* refused ones, any batch limit and any number of failures and notices.   *)
(***************************************************************************)
EXTENDS EventBatcher, Queues_proofs

-----------------------------------------------------------------------------
(* Sequences: order, repeats, and what is left of them.                    *)

LEMMA EmptyIs ==
    /\ \A S : <<>> \in Seq(S)
    /\ ToSet(<<>>) = {} /\ IsInjective(<<>>) /\ Len(<<>>) = 0 /\ DOMAIN <<>> = {}
BY EmptySeq DEF ToSet, IsInjective

LEMMA CatAssoc ==
    ASSUME NEW S, NEW s \in Seq(S), NEW t \in Seq(S), NEW u \in Seq(S)
    PROVE  Cat(Cat(s, t), u) = Cat(s, Cat(t, u))
BY ConcatAssociative DEF Cat

LEMMA CatType ==
    ASSUME NEW S
    PROVE  \A s, t \in Seq(S) : Cat(s, t) \in Seq(S) /\ ToSet(Cat(s, t)) = ToSet(s) \cup ToSet(t)
BY CatIs, CatSet

LEMMA InjectivePushed ==
    ASSUME NEW S, NEW s \in Seq(S), NEW e \in S
    PROVE  IsInjective(Pushed(s, e)) <=> IsInjective(s) /\ e \notin ToSet(s)
<1> DEFINE t == Pushed(s, e)
           n == Len(s)
<1>1. /\ n \in Nat /\ DOMAIN s = 1..n /\ DOMAIN t = 1..(n + 1)
      /\ t[n + 1] = e /\ \A i \in 1..n : t[i] = s[i]
  BY AppendProperties, LenProperties DEF Pushed
<1> HIDE DEF t, n
<1>2. \A i : i \in 1..(n + 1) <=> i \in 1..n \/ i = n + 1
  BY <1>1
<1>3. \A i \in 1..n : i # n + 1
  BY <1>1
<1>4. ToSet(s) = {s[i] : i \in 1..n}
  BY <1>1 DEF ToSet
<1> HIDE DEF t
<1>5. ASSUME IsInjective(t) PROVE IsInjective(s) /\ e \notin ToSet(s)
  <2>1. \A i, j \in 1..(n + 1) : t[i] = t[j] => i = j
    BY <1>1, <1>5 DEF IsInjective
  <2>2. \A i, j \in 1..n : s[i] = s[j] => i = j
    BY <2>1, <1>1, <1>2
  <2>3. \A i \in 1..n : s[i] # e
    BY <2>1, <1>1, <1>2, <1>3
  <2> QED
    BY <2>2, <2>3, <1>1, <1>4 DEF IsInjective
<1>6. ASSUME IsInjective(s), e \notin ToSet(s) PROVE IsInjective(t)
  <2>1. \A i, j \in 1..n : s[i] = s[j] => i = j
    BY <1>1, <1>6 DEF IsInjective
  <2>2. \A i \in 1..n : s[i] # e
    BY <1>4, <1>6
  <2>3. \A i, j \in 1..(n + 1) : t[i] = t[j] => i = j
    BY <2>1, <2>2, <1>1, <1>2
  <2> QED
    BY <2>3, <1>1 DEF IsInjective
<1> QED
  BY <1>5, <1>6 DEF t

LEMMA OneIs ==
    ASSUME NEW S, NEW e \in S
    PROVE  /\ Pushed(<<>>, e) \in Seq(S) /\ ToSet(Pushed(<<>>, e)) = {e}
           /\ IsInjective(Pushed(<<>>, e)) /\ Pushed(<<>>, e) = <<e>>
           /\ \A s \in Seq(S) : Pushed(s, e) = Cat(s, Pushed(<<>>, e))
<1> DEFINE z == <<>>
<1>1. z \in Seq(S) /\ ToSet(z) = {} /\ IsInjective(z) /\ \A s \in Seq(S) : Cat(s, z) = s
  BY EmptyIs, CatIs
<1>5. Pushed(z, e) = <<e>>
  BY DEF Pushed
<1> HIDE DEF z
<1>2. Pushed(z, e) \in Seq(S) /\ ToSet(Pushed(z, e)) = {e}
  BY <1>1, PushedIs
<1>3. IsInjective(Pushed(z, e))
  BY <1>1, InjectivePushed
<1>4. \A s \in Seq(S) : Pushed(s, e) = Cat(s, Pushed(z, e))
  BY <1>1, CatIs
<1> QED
  BY <1>2, <1>3, <1>4, <1>5 DEF z

LEMMA InjectiveCat ==
    ASSUME NEW S, NEW s \in Seq(S), NEW t \in Seq(S)
    PROVE  IsInjective(Cat(s, t)) <=>
              IsInjective(s) /\ IsInjective(t) /\ ToSet(s) \cap ToSet(t) = {}
<1> DEFINE N == {w \in Seq(S) : IsInjective(Cat(s, w)) <=>
                      IsInjective(s) /\ IsInjective(w) /\ ToSet(s) \cap ToSet(w) = {}}
<1>1. <<>> \in N
  BY EmptyIs, CatIs
<1>2. ASSUME NEW w \in Seq(S), NEW e \in S, w \in N PROVE Pushed(w, e) \in N
  <2>1. /\ Cat(s, w) \in Seq(S) /\ Cat(s, Pushed(w, e)) = Pushed(Cat(s, w), e)
        /\ Pushed(w, e) \in Seq(S) /\ ToSet(Pushed(w, e)) = ToSet(w) \cup {e}
        /\ ToSet(Cat(s, w)) = ToSet(s) \cup ToSet(w)
    BY CatIs, CatSet, PushedIs
  <2>2. IsInjective(Cat(s, Pushed(w, e))) <=>
           IsInjective(Cat(s, w)) /\ e \notin ToSet(s) \cup ToSet(w)
    BY <2>1, InjectivePushed
  <2>3. IsInjective(Pushed(w, e)) <=> IsInjective(w) /\ e \notin ToSet(w)
    BY InjectivePushed
  <2> QED
    BY <1>2, <2>1, <2>2, <2>3
<1> HIDE DEF N
<1>3. Seq(S) \subseteq N
  BY <1>1, <1>2, PushedSet
<1> QED
  BY <1>3 DEF N

\* A sequence without the elements of U.
Without(s, U) == Only(s, ToSet(s) \ U)

LEMMA SeqMembers ==
    ASSUME NEW S, NEW s \in Seq(S)
    PROVE  ToSet(s) \subseteq S /\ DOMAIN s = 1..Len(s) /\ Len(s) \in Nat
BY ElementOfSeq, LenProperties DEF ToSet

LEMMA WithoutIs ==
    ASSUME NEW S, NEW s \in Seq(S), NEW U
    PROVE  /\ Without(s, U) \in Seq(S) /\ ToSet(Without(s, U)) = ToSet(s) \ U
           /\ ToSet(s) \cap U = {} => Without(s, U) = s
           /\ ToSet(s) \subseteq U => Without(s, U) = <<>>
           /\ IsInjective(s) => IsInjective(Without(s, U))
<1> DEFINE T == ToSet(s) \ U
<1>1. /\ ToSet(s) \cap U = {} => ToSet(s) \subseteq T
      /\ ToSet(s) \subseteq U => ToSet(s) \cap T = {}
      /\ ToSet(s) \cap T = ToSet(s) \ U
  OBVIOUS
<1> HIDE DEF T
<1> QED
  BY <1>1, OnlyType, OnlyHolds, OnlyAll, OnlyNone, OnlyInjective DEF Without, T

LEMMA WithoutSame ==
    ASSUME NEW S, NEW s \in Seq(S), NEW U, NEW T, ToSet(s) \ U = ToSet(s) \cap T
    PROVE  Only(s, T) = Without(s, U)
<1> DEFINE V == ToSet(s) \ U
<1>1. ToSet(s) \cap T = ToSet(s) \cap V
  OBVIOUS
<1> HIDE DEF V
<1> QED
  BY <1>1, OnlySame DEF Without, V

LEMMA WithoutAgrees ==
    ASSUME NEW S, NEW s \in Seq(S), NEW U, NEW V, ToSet(s) \ U = ToSet(s) \ V
    PROVE  Without(s, U) = Without(s, V)
BY DEF Without

LEMMA WithoutCat ==
    ASSUME NEW S, NEW s \in Seq(S), NEW t \in Seq(S), NEW U
    PROVE  Without(Cat(s, t), U) = Cat(Without(s, U), Without(t, U))
<1> DEFINE T == ToSet(Cat(s, t)) \ U
<1>1. ToSet(Cat(s, t)) = ToSet(s) \cup ToSet(t)
  BY CatSet
<1>2. ToSet(s) \ U = ToSet(s) \cap T /\ ToSet(t) \ U = ToSet(t) \cap T
  BY <1>1
<1>3. Without(Cat(s, t), U) = Only(Cat(s, t), T)
  BY DEF Without
<1> HIDE DEF T
<1>4. Only(s, T) = Without(s, U) /\ Only(t, T) = Without(t, U)
  BY <1>2, WithoutSame
<1> QED
  BY <1>3, <1>4, OnlySplits

LEMMA WithoutTwice ==
    ASSUME NEW S, NEW s \in Seq(S), NEW U, NEW V
    PROVE  Without(Without(s, U), V) = Without(s, U \cup V)
<1> DEFINE A == ToSet(s) \ U
           B == ToSet(Without(s, U)) \ V
<1>1. Without(s, U) = Only(s, A) /\ Without(Without(s, U), V) = Only(Only(s, A), B)
  BY DEF Without
<1>2. B = ToSet(s) \ (U \cup V) /\ A \cap B = ToSet(s) \ (U \cup V)
  BY WithoutIs
<1> HIDE DEF A, B
<1> QED
  BY <1>1, <1>2, OnlyTwice DEF Without

\* A sequence cut after its n-th element.
LEMMA Cut ==
    ASSUME NEW S, NEW s \in Seq(S), NEW n \in 0..Len(s)
    PROVE  /\ SubSeq(s, 1, n) \in Seq(S) /\ SubSeq(s, n + 1, Len(s)) \in Seq(S)
           /\ s = Cat(SubSeq(s, 1, n), SubSeq(s, n + 1, Len(s)))
           /\ ToSet(SubSeq(s, 1, n)) = {s[i] : i \in 1..n}
<1>1. Len(s) \in Nat /\ \A i \in 1..Len(s) : s[i] \in S
  BY LenProperties, ElementOfSeq
<1>2. /\ SubSeq(s, 1, n) \in Seq(S) /\ SubSeq(s, n + 1, Len(s)) \in Seq(S)
      /\ Len(SubSeq(s, 1, n)) = n /\ \A i \in 1..n : SubSeq(s, 1, n)[i] = s[i]
  BY <1>1, SubSeqProperties
<1>3. SubSeq(s, 1, n) \o SubSeq(s, n + 1, Len(s)) = SubSeq(s, 1, Len(s))
  <2>1. 1 \in 1..(Len(s) + 1) /\ n \in (1 - 1)..Len(s) /\ Len(s) \in n..Len(s)
    BY <1>1
  <2> QED
    BY <2>1, ConcatAdjacentSubSeq
<1>4. SubSeq(s, 1, Len(s)) = s
  BY SubSeqFull
<1>5. DOMAIN SubSeq(s, 1, n) = 1..n
  BY <1>2, LenProperties
<1> QED
  BY <1>2, <1>3, <1>4, <1>5 DEF Cat, ToSet

\* The k-th element between what comes before it and what comes after.
LEMMA CutAt ==
    ASSUME NEW S, NEW s \in Seq(S), NEW k \in 1..Len(s)
    PROVE  /\ s[k] \in S
           /\ SubSeq(s, 1, k) = Cat(SubSeq(s, 1, k - 1), Pushed(<<>>, s[k]))
           /\ SubSeq(s, k, Len(s)) = Cat(Pushed(<<>>, s[k]), SubSeq(s, k + 1, Len(s)))
<1>1. Len(s) \in Nat /\ s[k] \in S
  BY LenProperties, ElementOfSeq
<1>2. Pushed(<<>>, s[k]) = <<s[k]>>
  BY DEF Pushed
<1>3. 1 \in 1..Len(s) /\ k \in 1..k /\ k \in 1..Len(s) /\ Len(s) \in k..Len(s)
  BY <1>1
<1>4. SubSeq(s, 1, k) = SubSeq(s, 1, k - 1) \o <<s[k]>>
  BY <1>3, SubSeqRecursiveSecond
<1>5. SubSeq(s, k, Len(s)) = <<s[k]>> \o SubSeq(s, k + 1, Len(s))
  BY <1>3, SubSeqRecursiveFirst
<1> QED
  BY <1>1, <1>2, <1>4, <1>5 DEF Cat

\* What is first in one half of an order is before the other half.
LEMMA CatOrders ==
    ASSUME NEW S, NEW s \in Seq(S), NEW t \in Seq(S), NEW x \in ToSet(s), NEW y \in ToSet(t)
    PROVE  \E i, j \in DOMAIN Cat(s, t) : i < j /\ Cat(s, t)[i] = x /\ Cat(s, t)[j] = y
<1>1. /\ Len(s) \in Nat /\ Len(t) \in Nat /\ DOMAIN s = 1..Len(s) /\ DOMAIN t = 1..Len(t)
      /\ DOMAIN Cat(s, t) = 1..(Len(s) + Len(t))
      /\ \A i \in 1..(Len(s) + Len(t)) :
            Cat(s, t)[i] = IF i <= Len(s) THEN s[i] ELSE t[i - Len(s)]
  BY ConcatProperties, LenProperties DEF Cat
<1>2. PICK k \in 1..Len(s) : s[k] = x
  BY <1>1 DEF ToSet
<1>3. PICK l \in 1..Len(t) : t[l] = y
  BY <1>1 DEF ToSet
<1> DEFINE m == Len(s)
           n == Len(t)
           z == Cat(s, t)
<1>5. /\ m \in Nat /\ n \in Nat /\ k \in 1..m /\ l \in 1..n /\ DOMAIN z = 1..(m + n)
      /\ \A i \in 1..(m + n) : z[i] = IF i <= m THEN s[i] ELSE t[i - m]
  BY <1>1, <1>2, <1>3
<1> HIDE DEF m, n, z
<1>4. /\ k \in 1..(m + n) /\ m + l \in 1..(m + n) /\ k < m + l /\ k <= m
      /\ ~(m + l <= m) /\ (m + l) - m = l
  BY <1>5
<1>6. z[k] = x /\ z[m + l] = y
  BY <1>2, <1>3, <1>4, <1>5
<1>7. \E i, j \in DOMAIN z : i < j /\ z[i] = x /\ z[j] = y
  BY <1>4, <1>5, <1>6
<1> QED
  BY <1>7 DEF z

LEMMA CatPrefix ==
    ASSUME NEW S, NEW s \in Seq(S), NEW t \in Seq(S)
    PROVE  IsPrefix(s, Cat(s, t))
<1>1. /\ Len(s) \in Nat /\ Len(t) \in Nat /\ Cat(s, t) \in Seq(S)
      /\ Len(Cat(s, t)) = Len(s) + Len(t)
      /\ \A i \in 1..(Len(s) + Len(t)) :
            Cat(s, t)[i] = IF i <= Len(s) THEN s[i] ELSE t[i - Len(s)]
  BY ConcatProperties, LenProperties DEF Cat
<1> DEFINE m == Len(s)
           z == Cat(s, t)
           n == Len(t)
<1>2. /\ m \in Nat /\ n \in Nat /\ Len(z) = m + n
      /\ \A i \in 1..(m + n) : z[i] = IF i <= m THEN s[i] ELSE t[i - m]
  BY <1>1
<1>3. (\A i \in 1..m : s[i] \in S) /\ \A i \in 1..(m + n) : z[i] \in S
  BY <1>1, ElementOfSeq
<1> HIDE DEF m, n, z
<1>4. m <= m + n /\ \A i \in 1..m : i \in 1..(m + n) /\ z[i] = s[i]
  BY <1>2
<1>5. /\ SubSeq(z, 1, m) \in Seq(S) /\ Len(SubSeq(z, 1, m)) = m
      /\ \A i \in 1..m : SubSeq(z, 1, m)[i] = s[i]
  BY <1>2, <1>3, <1>4, SubSeqProperties
<1>6. SubSeq(s, 1, m) = s
  BY SubSeqFull DEF m
<1>7. SubSeq(z, 1, m) = s
  BY <1>5, SeqEqual DEF m
<1> QED
  BY <1>2, <1>4, <1>6, <1>7 DEF IsPrefix, m, z

\* Two cuts of one sequence: the earlier one's first half starts the later's.
LEMMA TwoCuts ==
    ASSUME NEW S, NEW r \in Seq(S), NEW w \in Seq(S), NEW h \in Seq(S), NEW v \in Seq(S),
           Cat(r, w) = Cat(h, v), ToSet(h) \cap ToSet(w) = {}
    PROVE  IsPrefix(h, r) /\ \A i \in (Len(h) + 1)..Len(r) : r[i] \in ToSet(v)
<1> DEFINE a == Len(r)
           b == Len(w)
           c == Len(h)
           d == Len(v)
           z == Cat(r, w)
<1>1. /\ a \in Nat /\ b \in Nat /\ c \in Nat /\ d \in Nat
      /\ DOMAIN w = 1..b /\ DOMAIN h = 1..c /\ DOMAIN v = 1..d
  BY LenProperties
<1>2. /\ a + b = c + d
      /\ \A i \in 1..(a + b) : z[i] = IF i <= a THEN r[i] ELSE w[i - a]
      /\ \A i \in 1..(c + d) : z[i] = IF i <= c THEN h[i] ELSE v[i - c]
  BY ConcatProperties DEF Cat
<1>3. \A i \in 1..a : r[i] \in S
  BY ElementOfSeq
<1> HIDE DEF a, b, c, d, z
<1>4. ASSUME c > a PROVE FALSE
  <2>1. /\ a + 1 \in 1..(a + b) /\ a + 1 \in 1..(c + d) /\ ~(a + 1 <= a) /\ a + 1 <= c
        /\ (a + 1) - a = 1 /\ 1 \in 1..b /\ a + 1 \in 1..c
    BY <1>1, <1>2, <1>4
  <2>2. w[1] = h[a + 1]
    BY <2>1, <1>2
  <2> QED
    BY <2>1, <2>2, <1>1 DEF ToSet
<1>5. c <= a
  BY <1>1, <1>4
<1>6. \A i \in 1..c : r[i] = h[i]
  <2> SUFFICES ASSUME NEW i \in 1..c PROVE r[i] = h[i]
    OBVIOUS
  <2>1. i \in 1..(a + b) /\ i \in 1..(c + d) /\ i <= a /\ i <= c
    BY <1>1, <1>5
  <2> QED
    BY <2>1, <1>2
<1>7. IsPrefix(h, r)
  <2>1. /\ SubSeq(r, 1, c) \in Seq(S) /\ Len(SubSeq(r, 1, c)) = c
        /\ \A i \in 1..c : SubSeq(r, 1, c)[i] = h[i]
    <3>1. \A i \in 1..c : i \in 1..a
      BY <1>1, <1>5
    <3> QED
      BY <3>1, <1>1, <1>3, <1>6, SubSeqProperties
  <2>2. SubSeq(r, 1, c) = h
    BY <2>1, SeqEqual DEF c
  <2>3. SubSeq(h, 1, c) = h
    BY SubSeqFull DEF c
  <2> QED
    BY <2>2, <2>3, <1>5 DEF IsPrefix, a, c
<1>8. ASSUME NEW i \in (c + 1)..a PROVE r[i] \in ToSet(v)
  <2>1. /\ i \in 1..(a + b) /\ i \in 1..(c + d) /\ i <= a /\ ~(i <= c) /\ i - c \in 1..d
    BY <1>1, <1>2, <1>5
  <2>2. r[i] = v[i - c]
    BY <2>1, <1>2
  <2> QED
    BY <2>1, <2>2, <1>1 DEF ToSet
<1> QED
  BY <1>7, <1>8 DEF a, c

-----------------------------------------------------------------------------
(* The text of a batch.                                                    *)

Joining == [p \in Seq(Events) \X Items |-> Cat(p[1], p[2].body)]

LEMMA ItemIs ==
    ASSUME NEW x \in Items
    PROVE  x.id \in Events /\ x.body \in Seq(Events) /\ x.body # <<>> /\ ToSet(x.body) # {}
<1>1. x.id \in Events /\ x.body \in Seq(Events) /\ x.body # <<>>
  BY DEF Items
<1>2. Len(x.body) \in Nat /\ Len(x.body) # 0 /\ DOMAIN x.body = 1..Len(x.body)
  BY <1>1, LenProperties, EmptySeq
<1>3. 1 \in DOMAIN x.body
  BY <1>2
<1> QED
  BY <1>1, <1>3 DEF ToSet

LEMMA BodiesIsRun ==
    ASSUME NEW s \in Seq(Items)
    PROVE  Folding(Seq(Events), Items, Joining, <<>>) /\ Bodies(s) = Run(Joining, <<>>, s)
<1> DEFINE f == Joining
           n == Len(s)
           Body(g, i) == IF i = 0 THEN <<>> ELSE g[i - 1] \o s[i].body
           Is(g) == g = [i \in 0..n |-> Body(g, i)]
           r == CHOOSE g : Is(g)
<1>1. Bodies(s) = r[n]
  BY DEF Bodies
<1>2. n \in Nat /\ \A i \in 1..n : s[i] \in Items
  BY LenProperties, ElementOfSeq
<1>3. Folding(Seq(Events), Items, f, <<>>)
  <2>1. \A p \in Seq(Events) \X Items : f[p] \in Seq(Events)
    BY ItemIs, CatIs DEF Joining
  <2> QED
    BY <2>1, EmptySeq DEF Folding, Joining
<1>4. PICK g \in [0..n -> Seq(Events)] :
         g[0] = <<>> /\ \A i \in 1..n : g[i] = f[<<g[i - 1], s[i]>>]
  <2> HIDE DEF f
  <2> QED
    BY <1>3, RunAlong
<1>5. ASSUME NEW i \in 0..n
      PROVE  i = 0 \/ (i \in 1..n /\ i - 1 \in 0..n)
  BY <1>2
<1>6. Is(g)
  <2>1. \A i \in 0..n : g[i] = Body(g, i)
    BY <1>2, <1>4, <1>5 DEF Joining, Cat
  <2> QED
    BY <2>1, <1>4
<1>7. Is(r)
  BY <1>6
<1> HIDE DEF r
<1>8. \A i \in 0..n : r[i] = Body(r, i)
  BY <1>7
<1>9. r[0] = <<>> /\ \A i \in 1..n : r[i - 1] \in Seq(Events) => r[i] = f[<<r[i - 1], s[i]>>]
  <2>1. r[0] = <<>>
    BY <1>2, <1>8
  <2>2. ASSUME NEW i \in 1..n, r[i - 1] \in Seq(Events) PROVE r[i] = f[<<r[i - 1], s[i]>>]
    <3>1. i \in 0..n /\ i # 0
      BY <1>2
    <3>2. r[i] = r[i - 1] \o s[i].body
      BY <3>1, <1>8
    <3> QED
      BY <3>2, <2>2, <1>2 DEF Joining, Cat
  <2> QED
    BY <2>1, <2>2
<1> HIDE DEF f, n
<1>10. \A h : /\ h[0] = <<>>
              /\ \A i \in 1..n : h[i - 1] \in Seq(Events) => h[i] = f[<<h[i - 1], s[i]>>]
              => h[n] = Run(f, <<>>, s)
  BY <1>3, RunAlong DEF n
<1>11. r[n] = Run(f, <<>>, s)
  BY <1>9, <1>10, Zenon
<1> QED
  BY <1>1, <1>3, <1>11 DEF f

LEMMA BodiesSteps ==
    /\ Bodies(<<>>) = <<>>
    /\ \A s \in Seq(Items) : Bodies(s) \in Seq(Events)
    /\ \A s \in Seq(Items), x \in Items : Bodies(Pushed(s, x)) = Cat(Bodies(s), x.body)
<1>1. Folding(Seq(Events), Items, Joining, <<>>) /\ Bodies(<<>>) = Run(Joining, <<>>, <<>>)
  BY BodiesIsRun, EmptySeq
<1>2. Bodies(<<>>) = <<>>
  BY <1>1, RunSteps
<1>3. \A s \in Seq(Items) : Bodies(s) \in Seq(Events)
  BY <1>1, BodiesIsRun, RunSteps
<1>4. ASSUME NEW s \in Seq(Items), NEW x \in Items
      PROVE  Bodies(Pushed(s, x)) = Cat(Bodies(s), x.body)
  <2>1. Pushed(s, x) \in Seq(Items)
    BY PushedIs
  <2>2. Bodies(Pushed(s, x)) = Run(Joining, <<>>, Pushed(s, x)) /\ Bodies(s) = Run(Joining, <<>>, s)
    BY <2>1, BodiesIsRun
  <2>3. Run(Joining, <<>>, Append(s, x)) = Joining[<<Run(Joining, <<>>, s), x>>]
    BY <1>1, RunSteps
  <2>4. Joining[<<Bodies(s), x>>] = Cat(Bodies(s), x.body)
    BY <1>3 DEF Joining
  <2> QED
    BY <2>2, <2>3, <2>4 DEF Pushed
<1> QED
  BY <1>2, <1>3, <1>4

LEMMA BodiesCat ==
    ASSUME NEW s \in Seq(Items), NEW t \in Seq(Items)
    PROVE  Bodies(Cat(s, t)) = Cat(Bodies(s), Bodies(t))
<1> DEFINE N == {w \in Seq(Items) : Bodies(Cat(s, w)) = Cat(Bodies(s), Bodies(w))}
<1>1. <<>> \in N
  BY EmptySeq, CatIs, BodiesSteps
<1>2. ASSUME NEW w \in Seq(Items), NEW e \in Items, w \in N PROVE Pushed(w, e) \in N
  <2>1. /\ Cat(s, w) \in Seq(Items) /\ Cat(s, Pushed(w, e)) = Pushed(Cat(s, w), e)
        /\ Pushed(w, e) \in Seq(Items)
    BY CatIs, PushedIs
  <2>2. /\ Bodies(Cat(s, Pushed(w, e))) = Cat(Bodies(Cat(s, w)), e.body)
        /\ Bodies(Pushed(w, e)) = Cat(Bodies(w), e.body)
        /\ Bodies(s) \in Seq(Events) /\ Bodies(w) \in Seq(Events) /\ e.body \in Seq(Events)
    BY <2>1, BodiesSteps, ItemIs
  <2> QED
    BY <1>2, <2>1, <2>2, CatAssoc
<1> HIDE DEF N
<1>3. Seq(Items) \subseteq N
  BY <1>1, <1>2, PushedSet
<1> QED
  BY <1>3 DEF N

\* The events whose text a set of items carries.
Carried(X) == UNION {ToSet(x.body) : x \in X}

LEMMA BodiesHold ==
    ASSUME NEW s \in Seq(Items)
    PROVE  ToSet(Bodies(s)) = Carried(ToSet(s))
<1> DEFINE N == {w \in Seq(Items) : ToSet(Bodies(w)) = Carried(ToSet(w))}
<1>1. <<>> \in N
  BY EmptyIs, BodiesSteps DEF Carried
<1>2. ASSUME NEW w \in Seq(Items), NEW e \in Items, w \in N PROVE Pushed(w, e) \in N
  <2>1. /\ Pushed(w, e) \in Seq(Items) /\ ToSet(Pushed(w, e)) = ToSet(w) \cup {e}
        /\ ToSet(Bodies(Pushed(w, e))) = ToSet(Bodies(w)) \cup ToSet(e.body)
    <3>1. Bodies(Pushed(w, e)) = Cat(Bodies(w), e.body)
      BY BodiesSteps
    <3>2. Bodies(w) \in Seq(Events) /\ e.body \in Seq(Events)
      BY BodiesSteps, ItemIs
    <3> QED
      BY <3>1, <3>2, CatSet, PushedIs
  <2> QED
    BY <1>2, <2>1 DEF Carried
<1> HIDE DEF N
<1>3. Seq(Items) \subseteq N
  BY <1>1, <1>2, PushedSet
<1> QED
  BY <1>3 DEF N

\* When no event is carried twice, no item is, and no two items share any.
LEMMA BodiesApart ==
    ASSUME NEW s \in Seq(Items), IsInjective(Bodies(s))
    PROVE  /\ IsInjective(s)
           /\ \A x, y \in ToSet(s) : x # y => ToSet(x.body) \cap ToSet(y.body) = {}
<1> DEFINE Apart(w) == \A x, y \in ToSet(w) : x # y => ToSet(x.body) \cap ToSet(y.body) = {}
           N == {w \in Seq(Items) : IsInjective(Bodies(w)) => IsInjective(w) /\ Apart(w)}
<1>1. <<>> \in N
  BY EmptyIs
<1>2. ASSUME NEW w \in Seq(Items), NEW e \in Items, w \in N PROVE Pushed(w, e) \in N
  <2> SUFFICES ASSUME IsInjective(Bodies(Pushed(w, e)))
               PROVE  IsInjective(Pushed(w, e)) /\ Apart(Pushed(w, e))
    BY PushedIs
  <2>1. /\ ToSet(Pushed(w, e)) = ToSet(w) \cup {e} /\ Bodies(w) \in Seq(Events)
        /\ Bodies(Pushed(w, e)) = Cat(Bodies(w), e.body)
        /\ e.body \in Seq(Events) /\ ToSet(e.body) # {}
    BY PushedIs, BodiesSteps, ItemIs
  <2>2. IsInjective(Bodies(w)) /\ ToSet(Bodies(w)) \cap ToSet(e.body) = {}
    BY <2>1, InjectiveCat
  <2>3. IsInjective(w) /\ Apart(w)
    BY <1>2, <2>2
  <2>4. \A x \in ToSet(w) : ToSet(x.body) \cap ToSet(e.body) = {}
    BY <2>2, BodiesHold DEF Carried
  <2>5. e \notin ToSet(w)
    BY <2>1, <2>4
  <2>6. IsInjective(Pushed(w, e))
    BY <2>3, <2>5, InjectivePushed
  <2>7. Apart(Pushed(w, e))
    BY <2>1, <2>3, <2>4
  <2> QED
    BY <2>6, <2>7
<1> HIDE DEF N
<1>3. Seq(Items) \subseteq N
  BY <1>1, <1>2, PushedSet
<1> QED
  BY <1>3 DEF N

\* Taking some items away takes their text away, and nothing else.
LEMMA BodiesWithout ==
    ASSUME NEW s \in Seq(Items), IsInjective(Bodies(s)), NEW F, F \subseteq ToSet(s)
    PROVE  Bodies(Without(s, F)) = Without(Bodies(s), Carried(F))
<1> DEFINE R == Carried(F)
           N == {w \in Seq(Items) : ToSet(w) \subseteq ToSet(s) =>
                                       Bodies(Without(w, F)) = Without(Bodies(w), R)}
<1>0. \A x \in ToSet(s) : /\ x \in F => ToSet(x.body) \subseteq R
                          /\ x \notin F => ToSet(x.body) \cap R = {}
  BY BodiesApart DEF Carried
<1> HIDE DEF R
<1>1. <<>> \in N
  BY EmptyIs, BodiesSteps, WithoutIs
<1>2. ASSUME NEW w \in Seq(Items), NEW e \in Items, w \in N PROVE Pushed(w, e) \in N
  <2> DEFINE one == Pushed(<<>>, e)
  <2>1. /\ one \in Seq(Items) /\ ToSet(one) = {e} /\ Pushed(w, e) = Cat(w, one)
        /\ Pushed(w, e) \in Seq(Items) /\ ToSet(Pushed(w, e)) = ToSet(w) \cup {e}
    BY OneIs, PushedIs
  <2> SUFFICES ASSUME ToSet(w) \cup {e} \subseteq ToSet(s)
               PROVE  Bodies(Without(Pushed(w, e), F)) = Without(Bodies(Pushed(w, e)), R)
    BY <2>1
  <2>2. /\ Bodies(w) \in Seq(Events) /\ e.body \in Seq(Events)
        /\ Bodies(Pushed(w, e)) = Cat(Bodies(w), e.body)
        /\ Bodies(one) = e.body
    <3>1. Bodies(w) \in Seq(Events) /\ Bodies(Pushed(w, e)) = Cat(Bodies(w), e.body)
      BY BodiesSteps
    <3>2. e.body \in Seq(Events) /\ <<>> \in Seq(Items)
      BY ItemIs, EmptyIs
    <3>3. Bodies(one) = Cat(<<>>, e.body)
      BY <3>2, BodiesSteps
    <3> QED
      BY <3>1, <3>2, <3>3, CatIs
  <2> HIDE DEF one
  <2>3. Without(Bodies(Pushed(w, e)), R) = Cat(Without(Bodies(w), R), Without(e.body, R))
    BY <2>2, WithoutCat
  <2>4. Without(Pushed(w, e), F) = Cat(Without(w, F), Without(one, F))
    BY <2>1, WithoutCat
  <2>5. Without(w, F) \in Seq(Items) /\ Without(one, F) \in Seq(Items)
    BY <2>1, WithoutIs
  <2>6. Bodies(Without(one, F)) = Without(e.body, R)
    <3>1. CASE e \in F
      <4>1. Without(one, F) = <<>> /\ Without(e.body, R) = <<>>
        BY <3>1, <2>1, <2>2, <1>0, WithoutIs
      <4> QED
        BY <4>1, BodiesSteps
    <3>2. CASE e \notin F
      <4>1. Without(one, F) = one /\ Without(e.body, R) = e.body
        <5>1. ToSet(one) \cap F = {} /\ ToSet(e.body) \cap R = {}
          BY <3>2, <2>1, <1>0
        <5> QED
          BY <5>1, <2>1, <2>2, WithoutIs
      <4> QED
        BY <4>1, <2>2
    <3> QED
      BY <3>1, <3>2
  <2> QED
    BY <1>2, <2>3, <2>4, <2>5, <2>6, BodiesCat
<1> HIDE DEF N
<1>3. Seq(Items) \subseteq N
  BY <1>1, <1>2, PushedSet
<1> QED
  BY <1>3 DEF N, R

-----------------------------------------------------------------------------
(* A sequence without its repeats.                                         *)

Note(seen, x) == IF x \in ToSet(seen) THEN seen ELSE Append(seen, x)
Noting(S) == [p \in Seq(S) \X S |-> Note(p[1], p[2])]

LEMMA NotingFolds ==
    ASSUME NEW S
    PROVE  Folding(Seq(S), S, Noting(S), <<>>)
<1>1. \A p \in Seq(S) \X S : Note(p[1], p[2]) \in Seq(S)
  BY PushedIs DEF Note, Pushed
<1> QED
  BY <1>1, EmptySeq DEF Noting, Folding

LEMMA FirstOfIsRun ==
    ASSUME NEW S, NEW s \in Seq(S)
    PROVE  FirstOf(s) = Run(Noting(S), <<>>, s)
<1> DEFINE D == DOMAIN s
           Folds(g) == g = [w \in SUBSET D |-> IF w = {} THEN <<>>
                                               ELSE Note(g[w \ {Max(w)}], s[Max(w)])]
           r == CHOOSE g : Folds(g)
           f == Noting(S)
<1>1. FirstOf(s) = r[D]
  BY DEF FirstOf, FoldLeft, MapThenFoldSet, Note
<1>2. Folding(Seq(S), S, f, <<>>) /\ D = 1..Len(s) /\ Len(s) \in Nat
  BY NotingFolds, LenProperties
<1>3. PICK g \in [SUBSET (1..Len(s)) -> Seq(S)] : Iterates(g, f, <<>>, s, Len(s))
  BY <1>2, FoldExists
<1> HIDE DEF D, f
<1>4. ASSUME NEW w \in SUBSET D, w # {}
      PROVE  Max(w) \in D /\ s[Max(w)] \in S /\ w \ {Max(w)} \in SUBSET D
  <2>1. Max(w) \in w
    BY <1>2, <1>4, MaxOf
  <2> QED
    BY <2>1, <1>2, ElementOfSeq
<1>5. Folds(g)
  <2>1. ASSUME NEW w \in SUBSET D
        PROVE  g[w] = IF w = {} THEN <<>> ELSE Note(g[w \ {Max(w)}], s[Max(w)])
    <3>1. CASE w = {}
      BY <3>1, <1>2, <1>3 DEF Iterates
    <3>2. CASE w # {}
      <4>1. g[w \ {Max(w)}] \in Seq(S) /\ s[Max(w)] \in S
        BY <3>2, <1>2, <1>3, <1>4
      <4>2. g[w] = f[<<g[w \ {Max(w)}], s[Max(w)]>>]
        BY <3>2, <1>2, <1>3 DEF Iterates
      <4> QED
        BY <3>2, <4>1, <4>2 DEF Noting, f
    <3> QED
      BY <3>1, <3>2
  <2> QED
    BY <2>1, <1>2, <1>3
<1>6. Folds(r)
  BY <1>5
<1>7. \A w \in SUBSET D : r[w] = IF w = {} THEN <<>> ELSE Note(r[w \ {Max(w)}], s[Max(w)])
  BY <1>6
<1> HIDE DEF r
<1> DEFINE X == Seq(S) \cup {r[w] : w \in SUBSET D}
           h == [p \in X \X S |-> Note(p[1], p[2])]
<1>8. Iterates(r, h, <<>>, s, Len(s))
  <2>1. \A w \in SUBSET D : r[w] \in X
    OBVIOUS
  <2> HIDE DEF X
  <2> QED
    BY <2>1, <1>2, <1>4, <1>7 DEF Iterates
<1>9. \A p \in Seq(S) \X S : h[p] = f[p]
  BY DEF Noting, f
<1> HIDE DEF h
<1>10. Folding(Seq(S), S, f, <<>>)
  BY <1>2
<1>11. r[1..Len(s)] = Run(f, <<>>, s)
  BY <1>8, <1>9, <1>10, RunAgrees
<1> QED
  BY <1>1, <1>2, <1>11 DEF r, f

LEMMA FirstOfSteps ==
    ASSUME NEW S
    PROVE  /\ FirstOf(<<>>) = <<>>
           /\ \A s \in Seq(S) : FirstOf(s) \in Seq(S)
           /\ \A s \in Seq(S), x \in S : FirstOf(Pushed(s, x)) =
                 IF x \in ToSet(FirstOf(s)) THEN FirstOf(s) ELSE Pushed(FirstOf(s), x)
<1>1. Folding(Seq(S), S, Noting(S), <<>>) /\ FirstOf(<<>>) = Run(Noting(S), <<>>, <<>>)
  BY NotingFolds, FirstOfIsRun, EmptySeq
<1>2. FirstOf(<<>>) = <<>>
  BY <1>1, RunSteps
<1>3. \A s \in Seq(S) : FirstOf(s) \in Seq(S)
  BY <1>1, FirstOfIsRun, RunSteps
<1>4. ASSUME NEW s \in Seq(S), NEW x \in S
      PROVE  FirstOf(Pushed(s, x)) =
                IF x \in ToSet(FirstOf(s)) THEN FirstOf(s) ELSE Pushed(FirstOf(s), x)
  <2>1. Pushed(s, x) \in Seq(S)
    BY PushedIs
  <2>2. FirstOf(Pushed(s, x)) = Run(Noting(S), <<>>, Pushed(s, x)) /\ FirstOf(s) = Run(Noting(S), <<>>, s)
    BY <2>1, FirstOfIsRun
  <2>3. Run(Noting(S), <<>>, Append(s, x)) = Noting(S)[<<Run(Noting(S), <<>>, s), x>>]
    BY <1>1, RunSteps
  <2>4. Noting(S)[<<FirstOf(s), x>>] = Note(FirstOf(s), x)
    BY <1>3 DEF Noting
  <2> QED
    BY <2>2, <2>3, <2>4 DEF Pushed, Note
<1> QED
  BY <1>2, <1>3, <1>4

LEMMA FirstOfHolds ==
    ASSUME NEW S, NEW s \in Seq(S)
    PROVE  FirstOf(s) \in Seq(S) /\ ToSet(FirstOf(s)) = ToSet(s)
<1> DEFINE N == {w \in Seq(S) : ToSet(FirstOf(w)) = ToSet(w)}
<1>1. <<>> \in N
  BY EmptyIs, FirstOfSteps
<1>2. ASSUME NEW w \in Seq(S), NEW e \in S, w \in N PROVE Pushed(w, e) \in N
  <2>1. /\ Pushed(w, e) \in Seq(S) /\ ToSet(Pushed(w, e)) = ToSet(w) \cup {e}
        /\ FirstOf(w) \in Seq(S)
        /\ FirstOf(Pushed(w, e)) = IF e \in ToSet(FirstOf(w)) THEN FirstOf(w)
                                   ELSE Pushed(FirstOf(w), e)
    BY PushedIs, FirstOfSteps
  <2>2. ToSet(Pushed(FirstOf(w), e)) = ToSet(FirstOf(w)) \cup {e}
    BY <2>1, PushedIs
  <2> QED
    BY <1>2, <2>1, <2>2
<1> HIDE DEF N
<1>3. Seq(S) \subseteq N
  BY <1>1, <1>2, PushedSet
<1> QED
  BY <1>3, FirstOfSteps DEF N

\* Further elements, none of them twice, add those that were not there.
LEMMA FirstOfCat ==
    ASSUME NEW S, NEW s \in Seq(S), NEW t \in Seq(S), IsInjective(t)
    PROVE  FirstOf(Cat(s, t)) = Cat(FirstOf(s), Without(t, ToSet(s)))
<1> DEFINE U == ToSet(s)
           N == {w \in Seq(S) : IsInjective(w) =>
                       FirstOf(Cat(s, w)) = Cat(FirstOf(s), Without(w, U))}
<1>0. FirstOf(s) \in Seq(S)
  BY FirstOfSteps
<1>1. <<>> \in N
  <2>1. <<>> \in Seq(S) /\ Cat(s, <<>>) = s /\ Without(<<>>, U) = <<>>
    BY EmptyIs, CatIs, WithoutIs
  <2>2. Cat(FirstOf(s), <<>>) = FirstOf(s)
    BY <1>0, CatIs
  <2> QED
    BY <2>1, <2>2
<1> HIDE DEF U
<1>2. ASSUME NEW w \in Seq(S), NEW e \in S, w \in N PROVE Pushed(w, e) \in N
  <2> DEFINE one == Pushed(<<>>, e)
  <2>1. /\ one \in Seq(S) /\ ToSet(one) = {e} /\ Pushed(w, e) = Cat(w, one)
        /\ Pushed(w, e) \in Seq(S)
    BY OneIs, PushedIs
  <2> SUFFICES ASSUME IsInjective(Pushed(w, e))
               PROVE  FirstOf(Cat(s, Pushed(w, e))) = Cat(FirstOf(s), Without(Pushed(w, e), U))
    BY <2>1
  <2>2. IsInjective(w) /\ e \notin ToSet(w)
    BY InjectivePushed
  <2> DEFINE v == Cat(s, w)
             k == Without(w, U)
  <2>3. /\ v \in Seq(S) /\ Cat(s, Pushed(w, e)) = Pushed(v, e)
        /\ ToSet(v) = U \cup ToSet(w)
    BY CatIs, CatSet DEF U
  <2>4. FirstOf(v) = Cat(FirstOf(s), k)
    BY <1>2, <2>2
  <2>5. k \in Seq(S)
    BY WithoutIs
  <2>6. Without(Pushed(w, e), U) = Cat(k, Without(one, U))
    BY <2>1, WithoutCat
  <2>10. \A q \in Seq(S) : Pushed(q, e) = Cat(q, one)
    BY OneIs
  <2> HIDE DEF v, k, one
  <2>7. ToSet(FirstOf(v)) = ToSet(v) /\ FirstOf(v) \in Seq(S)
    BY <2>3, FirstOfHolds
  <2>8. CASE e \in U
    <3>1. Without(one, U) = <<>>
      BY <2>1, <2>8, WithoutIs
    <3>2. Cat(k, <<>>) = k
      BY <2>5, CatIs
    <3>3. FirstOf(Pushed(v, e)) = FirstOf(v)
      BY <2>3, <2>7, <2>8, FirstOfSteps
    <3> QED
      BY <2>3, <2>4, <2>6, <3>1, <3>2, <3>3
  <2>9. CASE e \notin U
    <3>1. Without(one, U) = one
      <4>1. ToSet(one) \cap U = {}
        BY <2>1, <2>9
      <4> QED
        BY <4>1, <2>1, WithoutIs
    <3>2. e \notin ToSet(FirstOf(v))
      BY <2>2, <2>3, <2>7, <2>9
    <3>3. FirstOf(Pushed(v, e)) = Pushed(FirstOf(v), e)
      BY <2>3, <3>2, FirstOfSteps
    <3>4. Cat(Cat(FirstOf(s), k), one) = Cat(FirstOf(s), Cat(k, one))
      BY <1>0, <2>1, <2>5, CatAssoc
    <3>5. Pushed(FirstOf(v), e) = Cat(FirstOf(v), one)
      BY <2>7, <2>10
    <3> QED
      BY <2>3, <2>4, <2>6, <3>1, <3>3, <3>4, <3>5
  <2> QED
    BY <2>8, <2>9
<1> HIDE DEF N
<1>3. Seq(S) \subseteq N
  BY <1>1, <1>2, PushedSet
<1> QED
  BY <1>3 DEF N, U

-----------------------------------------------------------------------------
(* Coalescing a batch.                                                     *)

\* An item has the id of its first event, and its events say the same.
Sound(x) ==
    /\ x.id = x.body[1]
    /\ \A i \in DOMAIN x.body : Ev[x.body[i]] = Ev[x.id]
    /\ Len(x.body) > 1 => Ev[x.id].kind = "delta"
Sounds == {x \in Items : Sound(x)}

Joined(a, b) == [a EXCEPT !.body = @ \o b.body]
Join(done, x) ==
    IF done # <<>> /\ Coalesces(Last(done), x)
    THEN Append(Front(done), Joined(Last(done), x))
    ELSE Append(done, x)
Merging == [p \in Seq(Sounds) \X Sounds |-> Join(p[1], p[2])]

LEMMA JoinedIs ==
    ASSUME NEW a \in Sounds, NEW b \in Sounds, Coalesces(a, b)
    PROVE  Joined(a, b) \in Sounds /\ Joined(a, b).body = Cat(a.body, b.body)
<1> DEFINE c == Joined(a, b)
           m == Len(a.body)
           n == Len(b.body)
<1>1. /\ a.id \in Events /\ a.body \in Seq(Events) /\ a.body # <<>>
      /\ b.id \in Events /\ b.body \in Seq(Events) /\ b.body # <<>>
      /\ a = [id |-> a.id, body |-> a.body]
  BY ItemIs DEF Sounds, Items
<1>2. c = [id |-> a.id, body |-> a.body \o b.body]
  <2>1. PICK p \in Events, q \in Seq(Events) : a = [id |-> p, body |-> q]
    BY <1>1
  <2> DEFINE z == q \o b.body
  <2>4. c = [a EXCEPT !.body = z]
    BY <2>1 DEF Joined
  <2>2. c = [id |-> p, body |-> z]
    <3> HIDE DEF z
    <3> QED
      BY <2>1, <2>4
  <2>3. a.id = p /\ a.body = q
    BY <2>1
  <2> QED
    BY <2>2, <2>3
<1>3. /\ m \in Nat /\ n \in Nat /\ m # 0 /\ DOMAIN a.body = 1..m /\ DOMAIN b.body = 1..n
      /\ c.body \in Seq(Events) /\ DOMAIN c.body = 1..(m + n) /\ c.body # <<>>
      /\ \A i \in 1..(m + n) : c.body[i] = IF i <= m THEN a.body[i] ELSE b.body[i - m]
  BY <1>1, <1>2, ConcatProperties, ConcatEqualIffEmpty, LenProperties, EmptySeq
<1>4. /\ Ev[a.id] = Ev[b.id] /\ Ev[a.id].kind = "delta" /\ Sound(a) /\ Sound(b)
  BY DEF Coalesces, IsStreamEvent, Sounds
<1> HIDE DEF m, n, c
<1>5. c.id = a.id /\ c.body = a.body \o b.body /\ c \in Items
  BY <1>1, <1>2, <1>3 DEF Items
<1>6. c.body[1] = a.body[1]
  BY <1>3
<1>7. ASSUME NEW i \in 1..(m + n) PROVE Ev[c.body[i]] = Ev[a.id]
  <2>1. CASE i <= m
    <3>1. i \in DOMAIN a.body /\ c.body[i] = a.body[i]
      BY <2>1, <1>3
    <3>2. \A k \in DOMAIN a.body : Ev[a.body[k]] = Ev[a.id]
      BY <1>4 DEF Sound
    <3> QED
      BY <3>1, <3>2
  <2>2. CASE ~(i <= m)
    <3>1. i - m \in 1..n
      BY <2>2, <1>3
    <3>2. i - m \in DOMAIN b.body /\ c.body[i] = b.body[i - m]
      BY <3>1, <2>2, <1>3
    <3>3. \A k \in DOMAIN b.body : Ev[b.body[k]] = Ev[b.id]
      BY <1>4 DEF Sound
    <3> QED
      BY <3>2, <3>3, <1>4
  <2> QED
    BY <2>1, <2>2
<1> QED
  BY <1>3, <1>4, <1>5, <1>6, <1>7 DEF Sound, Sounds, Cat, c

LEMMA LastOf ==
    ASSUME NEW S, NEW s \in Seq(S), s # <<>>
    PROVE  Front(s) \in Seq(S) /\ Last(s) \in S /\ s = Pushed(Front(s), Last(s))
<1>1. Len(s) \in Nat /\ Len(s) # 0
  BY LenProperties, EmptySeq
<1>2. Len(s) \in 1..Len(s) /\ 1 \in 1..Len(s)
  BY <1>1
<1>3. Last(s) \in S
  BY <1>2, ElementOfSeq DEF Last
<1>4. Front(s) \in Seq(S)
  <2>1. \A i \in 1..(Len(s) - 1) : s[i] \in S
    BY <1>1, ElementOfSeq
  <2> QED
    BY <2>1, <1>1, SubSeqProperties DEF Front
<1>5. SubSeq(s, 1, Len(s)) = SubSeq(s, 1, Len(s) - 1) \o <<s[Len(s)]>>
  BY <1>2, SubSeqRecursiveSecond
<1>6. SubSeq(s, 1, Len(s)) = s
  BY SubSeqFull
<1> QED
  BY <1>3, <1>4, <1>5, <1>6, AppendIsConcat DEF Pushed, Front, Last

LEMMA SoundSeq ==
    ASSUME NEW s \in Seq(Sounds)
    PROVE  s \in Seq(Items) /\ \A x \in ToSet(s) : x \in Items /\ Sound(x)
BY ElementOfSeq, LenProperties DEF Sounds, ToSet

LEMMA JoinIs ==
    ASSUME NEW done \in Seq(Sounds), NEW x \in Sounds
    PROVE  /\ Join(done, x) \in Seq(Sounds) /\ Join(done, x) # <<>>
           /\ Bodies(Join(done, x)) = Cat(Bodies(done), x.body)
<1>1. done \in Seq(Items) /\ x \in Items
  BY SoundSeq DEF Sounds
<1>2. CASE done # <<>> /\ Coalesces(Last(done), x)
  <2> DEFINE a == Front(done)
             b == Last(done)
             c == Joined(b, x)
  <2>1. a \in Seq(Sounds) /\ b \in Sounds /\ done = Pushed(a, b)
    BY <1>2, LastOf
  <2>2. Join(done, x) = Pushed(a, c)
    BY <1>2 DEF Join, Pushed
  <2>3. c \in Sounds /\ c.body = Cat(b.body, x.body)
    BY <1>2, <2>1, JoinedIs
  <2> HIDE DEF a, b, c
  <2>4. /\ a \in Seq(Items) /\ b \in Items /\ c \in Items
    BY <2>1, <2>3, SoundSeq DEF Sounds
  <2>5. Bodies(done) = Cat(Bodies(a), b.body) /\ Bodies(Join(done, x)) = Cat(Bodies(a), c.body)
    BY <2>1, <2>2, <2>4, BodiesSteps
  <2>6. Bodies(a) \in Seq(Events) /\ b.body \in Seq(Events) /\ x.body \in Seq(Events)
    BY <1>1, <2>4, BodiesSteps, ItemIs
  <2>7. Pushed(a, c) \in Seq(Sounds) /\ Pushed(a, c) # <<>>
    BY <2>1, <2>3, AppendProperties DEF Pushed
  <2> QED
    BY <2>2, <2>3, <2>5, <2>6, <2>7, CatAssoc
<1>3. CASE ~(done # <<>> /\ Coalesces(Last(done), x))
  <2>1. Join(done, x) = Pushed(done, x)
    BY <1>3 DEF Join, Pushed
  <2>2. Pushed(done, x) \in Seq(Sounds) /\ Pushed(done, x) # <<>>
    BY AppendProperties DEF Pushed
  <2> QED
    BY <1>1, <2>1, <2>2, BodiesSteps
<1> QED
  BY <1>2, <1>3

LEMMA MergingFolds == Folding(Seq(Sounds), Sounds, Merging, <<>>)
<1>1. \A p \in Seq(Sounds) \X Sounds : Join(p[1], p[2]) \in Seq(Sounds)
  BY JoinIs
<1> QED
  BY <1>1, EmptySeq DEF Merging, Folding

LEMMA CoalescedIsRun ==
    ASSUME NEW s \in Seq(Sounds)
    PROVE  coalesceDeltas(s) = Run(Merging, <<>>, s)
<1> DEFINE D == DOMAIN s
           Folds(g) == g = [w \in SUBSET D |-> IF w = {} THEN <<>>
                                               ELSE Join(g[w \ {Max(w)}], s[Max(w)])]
           r == CHOOSE g : Folds(g)
           f == Merging
<1>1. coalesceDeltas(s) = r[D]
  BY DEF coalesceDeltas, FoldLeft, MapThenFoldSet, Join, Joined
<1>2. Folding(Seq(Sounds), Sounds, f, <<>>) /\ D = 1..Len(s) /\ Len(s) \in Nat
  BY MergingFolds, LenProperties
<1>3. PICK g \in [SUBSET (1..Len(s)) -> Seq(Sounds)] : Iterates(g, f, <<>>, s, Len(s))
  BY <1>2, FoldExists
<1> HIDE DEF D, f
<1>4. ASSUME NEW w \in SUBSET D, w # {}
      PROVE  Max(w) \in D /\ s[Max(w)] \in Sounds /\ w \ {Max(w)} \in SUBSET D
  <2>1. Max(w) \in w
    BY <1>2, <1>4, MaxOf
  <2> QED
    BY <2>1, <1>2, ElementOfSeq
<1>5. Folds(g)
  <2>1. ASSUME NEW w \in SUBSET D
        PROVE  g[w] = IF w = {} THEN <<>> ELSE Join(g[w \ {Max(w)}], s[Max(w)])
    <3>1. CASE w = {}
      BY <3>1, <1>2, <1>3 DEF Iterates
    <3>2. CASE w # {}
      <4>1. g[w \ {Max(w)}] \in Seq(Sounds) /\ s[Max(w)] \in Sounds
        BY <3>2, <1>2, <1>3, <1>4
      <4>2. g[w] = f[<<g[w \ {Max(w)}], s[Max(w)]>>]
        BY <3>2, <1>2, <1>3 DEF Iterates
      <4> QED
        BY <3>2, <4>1, <4>2 DEF Merging, f
    <3> QED
      BY <3>1, <3>2
  <2> QED
    BY <2>1, <1>2, <1>3
<1>6. Folds(r)
  BY <1>5
<1>7. \A w \in SUBSET D : r[w] = IF w = {} THEN <<>> ELSE Join(r[w \ {Max(w)}], s[Max(w)])
  BY <1>6
<1> HIDE DEF r
<1> DEFINE X == Seq(Sounds) \cup {r[w] : w \in SUBSET D}
           h == [p \in X \X Sounds |-> Join(p[1], p[2])]
<1>8. Iterates(r, h, <<>>, s, Len(s))
  <2>1. \A w \in SUBSET D : r[w] \in X
    OBVIOUS
  <2> HIDE DEF X
  <2> QED
    BY <2>1, <1>2, <1>4, <1>7 DEF Iterates
<1>9. \A p \in Seq(Sounds) \X Sounds : h[p] = f[p]
  BY DEF Merging, f
<1> HIDE DEF h
<1>10. Folding(Seq(Sounds), Sounds, f, <<>>)
  BY <1>2
<1>11. r[1..Len(s)] = Run(f, <<>>, s)
  BY <1>8, <1>9, <1>10, RunAgrees
<1> QED
  BY <1>1, <1>2, <1>11 DEF r, f

\* A coalesced batch carries the same text.
LEMMA CoalescedIs ==
    ASSUME NEW s \in Seq(Sounds)
    PROVE  /\ coalesceDeltas(s) \in Seq(Sounds)
           /\ Bodies(coalesceDeltas(s)) = Bodies(s)
<1> DEFINE N == {w \in Seq(Sounds) : Bodies(coalesceDeltas(w)) = Bodies(w)}
<1>1. /\ coalesceDeltas(<<>>) = <<>>
      /\ \A w \in Seq(Sounds) : coalesceDeltas(w) \in Seq(Sounds)
  <2>1. <<>> \in Seq(Sounds) /\ Folding(Seq(Sounds), Sounds, Merging, <<>>)
    BY MergingFolds, EmptySeq
  <2>2. Run(Merging, <<>>, <<>>) = <<>> /\ \A w \in Seq(Sounds) : Run(Merging, <<>>, w) \in Seq(Sounds)
    BY <2>1, RunSteps
  <2>3. \A w \in Seq(Sounds) : coalesceDeltas(w) = Run(Merging, <<>>, w)
    BY CoalescedIsRun
  <2> QED
    BY <2>1, <2>2, <2>3
<1>2. <<>> \in N
  BY <1>1, EmptySeq
<1>3. ASSUME NEW w \in Seq(Sounds), NEW e \in Sounds, w \in N PROVE Pushed(w, e) \in N
  <2>1. Pushed(w, e) \in Seq(Sounds) /\ w \in Seq(Items) /\ e \in Items
    BY PushedIs, SoundSeq DEF Sounds
  <2>2. Run(Merging, <<>>, Append(w, e)) = Merging[<<Run(Merging, <<>>, w), e>>]
    BY MergingFolds, RunSteps
  <2>3. coalesceDeltas(Pushed(w, e)) = Merging[<<coalesceDeltas(w), e>>]
    BY <2>1, <2>2, CoalescedIsRun DEF Pushed
  <2>4. coalesceDeltas(Pushed(w, e)) = Join(coalesceDeltas(w), e)
    BY <1>1, <2>3 DEF Merging
  <2> QED
    BY <1>1, <1>3, <2>1, <2>4, JoinIs, BodiesSteps
<1> HIDE DEF N
<1>4. Seq(Sounds) \subseteq N
  BY <1>2, <1>3, PushedSet
<1> QED
  BY <1>1, <1>4 DEF N

-----------------------------------------------------------------------------
(* What a write does to the line of events.  The batch is b1, p, p2, d:    *)
(* b1 is settled, F of it refused; p and p2 are written but kept, p is     *)
(* published; d is kept.                                                   *)

Batch(b1, p, p2, d) == Cat(b1, Cat(p, Cat(p2, d)))
Rows(l, b1, p, p2, F) == Cat(l, Without(Cat(b1, Cat(p, p2)), ToSet(l) \cup F))
Kept(p, p2, d) == Cat(p, Cat(p2, d))
Line(l, b, q) == Cat(Bodies(l), Cat(Bodies(Without(b, ToSet(l))), Bodies(q)))

Parts(b1, p, p2, d) ==
    b1 \in Seq(Items) /\ p \in Seq(Items) /\ p2 \in Seq(Items) /\ d \in Seq(Items)
Settling(b1, p, p2, d, l, F) ==
    /\ Parts(b1, p, p2, d) /\ IsInjective(Batch(b1, p, p2, d))
    /\ l \in Seq(Items) /\ F \subseteq ToSet(b1) \ ToSet(l)

Filed(b1, p, p2, d, l, F) ==
    /\ Rows(l, b1, p, p2, F) \in Seq(Items)
    /\ ToSet(Rows(l, b1, p, p2, F)) =
          ToSet(l) \cup ((ToSet(b1) \ F) \cup ToSet(p) \cup ToSet(p2))
    /\ Without(Kept(p, p2, d), ToSet(Rows(l, b1, p, p2, F))) = Without(d, ToSet(l))
    /\ Cat(Without(Cat(b1, Cat(p, p2)), ToSet(l) \cup F), Without(d, ToSet(l)))
          = Without(Without(Batch(b1, p, p2, d), ToSet(l)), F)

LEMMA BatchParts ==
    ASSUME NEW b1, NEW p, NEW p2, NEW d, Parts(b1, p, p2, d)
    PROVE  /\ Batch(b1, p, p2, d) \in Seq(Items) /\ Kept(p, p2, d) \in Seq(Items)
           /\ Cat(b1, Cat(p, p2)) \in Seq(Items)
           /\ Batch(b1, p, p2, d) = Cat(b1, Kept(p, p2, d))
           /\ Batch(b1, p, p2, d) = Cat(Cat(b1, Cat(p, p2)), d)
           /\ ToSet(Batch(b1, p, p2, d)) = ToSet(b1) \cup ToSet(p) \cup ToSet(p2) \cup ToSet(d)
           /\ ToSet(Kept(p, p2, d)) = ToSet(p) \cup ToSet(p2) \cup ToSet(d)
           /\ ToSet(Cat(b1, Cat(p, p2))) = ToSet(b1) \cup ToSet(p) \cup ToSet(p2)
<1> USE DEF Parts
<1>0. \A s, t \in Seq(Items) : Cat(s, t) \in Seq(Items) /\ ToSet(Cat(s, t)) = ToSet(s) \cup ToSet(t)
  BY CatType
<1>1. /\ Cat(p2, d) \in Seq(Items) /\ Cat(p, p2) \in Seq(Items)
      /\ ToSet(Cat(p2, d)) = ToSet(p2) \cup ToSet(d) /\ ToSet(Cat(p, p2)) = ToSet(p) \cup ToSet(p2)
  BY <1>0
<1>2. /\ Kept(p, p2, d) \in Seq(Items) /\ ToSet(Kept(p, p2, d)) = ToSet(p) \cup ToSet(p2) \cup ToSet(d)
      /\ Cat(b1, Cat(p, p2)) \in Seq(Items)
      /\ ToSet(Cat(b1, Cat(p, p2))) = ToSet(b1) \cup ToSet(p) \cup ToSet(p2)
  BY <1>0, <1>1 DEF Kept
<1>3. Batch(b1, p, p2, d) = Cat(b1, Kept(p, p2, d))
  BY DEF Batch, Kept
<1>4. /\ Batch(b1, p, p2, d) \in Seq(Items)
      /\ ToSet(Batch(b1, p, p2, d)) = ToSet(b1) \cup ToSet(p) \cup ToSet(p2) \cup ToSet(d)
  BY <1>0, <1>2, <1>3
<1>5. Kept(p, p2, d) = Cat(Cat(p, p2), d)
  BY CatAssoc DEF Kept
<1>6. Cat(Cat(b1, Cat(p, p2)), d) = Cat(b1, Cat(Cat(p, p2), d))
  BY <1>1, CatAssoc
<1> QED
  BY <1>2, <1>3, <1>4, <1>5, <1>6

LEMMA BatchApart ==
    ASSUME NEW b1, NEW p, NEW p2, NEW d, Parts(b1, p, p2, d),
           IsInjective(Batch(b1, p, p2, d))
    PROVE  /\ IsInjective(b1) /\ IsInjective(p) /\ IsInjective(p2) /\ IsInjective(d)
           /\ IsInjective(Kept(p, p2, d))
           /\ ToSet(b1) \cap (ToSet(p) \cup ToSet(p2) \cup ToSet(d)) = {}
           /\ ToSet(p) \cap (ToSet(p2) \cup ToSet(d)) = {}
           /\ ToSet(p2) \cap ToSet(d) = {}
<1> USE DEF Parts
<1>1. Cat(p2, d) \in Seq(Items) /\ ToSet(Cat(p2, d)) = ToSet(p2) \cup ToSet(d)
  BY CatType
<1>2. Kept(p, p2, d) \in Seq(Items) /\ ToSet(Kept(p, p2, d)) = ToSet(p) \cup ToSet(p2) \cup ToSet(d)
  BY <1>1, CatType DEF Kept
<1>3. Batch(b1, p, p2, d) = Cat(b1, Kept(p, p2, d)) /\ Kept(p, p2, d) = Cat(p, Cat(p2, d))
  BY DEF Batch, Kept
<1>4. IsInjective(b1) /\ IsInjective(Kept(p, p2, d)) /\ ToSet(b1) \cap ToSet(Kept(p, p2, d)) = {}
  BY <1>2, <1>3, InjectiveCat
<1>5. IsInjective(p) /\ IsInjective(Cat(p2, d)) /\ ToSet(p) \cap ToSet(Cat(p2, d)) = {}
  BY <1>1, <1>3, <1>4, InjectiveCat
<1>6. IsInjective(p2) /\ IsInjective(d) /\ ToSet(p2) \cap ToSet(d) = {}
  BY <1>5, InjectiveCat
<1> QED
  BY <1>1, <1>2, <1>4, <1>5, <1>6

LEMMA RowsAre ==
    ASSUME NEW b1, NEW p, NEW p2, NEW d, NEW l, NEW F, Settling(b1, p, p2, d, l, F)
    PROVE  Filed(b1, p, p2, d, l, F)
<1>z. /\ b1 \in Seq(Items) /\ p \in Seq(Items) /\ p2 \in Seq(Items) /\ d \in Seq(Items)
      /\ Parts(b1, p, p2, d) /\ IsInjective(Batch(b1, p, p2, d))
      /\ l \in Seq(Items) /\ F \subseteq ToSet(b1) \ ToSet(l)
  BY DEF Settling, Parts
<1> USE <1>z
<1> DEFINE L == ToSet(l)
           w == Cat(b1, Cat(p, p2))
           b == Batch(b1, p, p2, d)
           v == Without(w, L \cup F)
           m == Rows(l, b1, p, p2, F)
           k == Kept(p, p2, d)
           c == Cat(p, p2)
<1>1. /\ b \in Seq(Items) /\ k \in Seq(Items) /\ w \in Seq(Items) /\ b = Cat(w, d)
      /\ ToSet(w) = ToSet(b1) \cup ToSet(p) \cup ToSet(p2)
  BY BatchParts
<1>2. /\ ToSet(b1) \cap (ToSet(p) \cup ToSet(p2) \cup ToSet(d)) = {}
      /\ ToSet(p) \cap (ToSet(p2) \cup ToSet(d)) = {}
      /\ ToSet(p2) \cap ToSet(d) = {}
  BY BatchApart
<1>3. m = Cat(l, v) /\ c \in Seq(Items) /\ ToSet(c) = ToSet(p) \cup ToSet(p2) /\ k = Cat(c, d)
  BY CatAssoc, CatIs, CatSet DEF Rows, Kept
<1> HIDE DEF w, b, v, m, k, c
<1>4. v \in Seq(Items) /\ ToSet(v) = ToSet(w) \ (L \cup F)
  BY <1>1, WithoutIs DEF v
<1>5. m \in Seq(Items) /\ ToSet(m) = L \cup ToSet(v)
  BY <1>3, <1>4, CatType
<1>6. ToSet(m) = L \cup ((ToSet(b1) \ F) \cup ToSet(p) \cup ToSet(p2))
  BY <1>1, <1>2, <1>4, <1>5
<1>7. Without(k, ToSet(m)) = Without(d, L)
  <2>1. ToSet(c) \subseteq ToSet(m) /\ ToSet(d) \ ToSet(m) = ToSet(d) \ L
    BY <1>2, <1>3, <1>6
  <2>2. Without(k, ToSet(m)) = Cat(Without(c, ToSet(m)), Without(d, ToSet(m)))
    BY <1>3, WithoutCat
  <2>3. Without(c, ToSet(m)) = <<>>
    BY <2>1, <1>3, WithoutIs
  <2>4. Without(d, ToSet(m)) = Without(d, L)
    BY <2>1, WithoutAgrees
  <2>5. Without(d, L) \in Seq(Items)
    BY WithoutIs
  <2> QED
    BY <2>2, <2>3, <2>4, <2>5, CatIs
<1>8. Cat(v, Without(d, L)) = Without(Without(b, L), F)
  <2>1. Without(Without(b, L), F) = Without(b, L \cup F)
    BY <1>1, WithoutTwice
  <2>2. Without(b, L \cup F) = Cat(v, Without(d, L \cup F))
    BY <1>1, WithoutCat DEF v
  <2>3. ToSet(d) \ (L \cup F) = ToSet(d) \ L
    BY <1>2
  <2>4. Without(d, L \cup F) = Without(d, L)
    BY <2>3, WithoutAgrees
  <2> QED
    BY <2>1, <2>2, <2>4
<1> QED
  BY <1>5, <1>6, <1>7, <1>8 DEF w, b, v, m, k, L, Filed

\* The line loses what is refused, keeps its order, and its written half grows.
LEMMA SettledLine ==
    ASSUME NEW b1, NEW p, NEW p2, NEW d, NEW l, NEW F, Settling(b1, p, p2, d, l, F),
           NEW q \in Seq(Items), IsInjective(Line(l, Batch(b1, p, p2, d), q))
    PROVE  /\ Line(Rows(l, b1, p, p2, F), Kept(p, p2, d), q)
                 = Without(Line(l, Batch(b1, p, p2, d), q), Carried(F))
           /\ Carried(F) \subseteq ToSet(Line(l, Batch(b1, p, p2, d), q))
           /\ Carried(F) \cap ToSet(Bodies(l)) = {}
           /\ Carried(F) \cap ToSet(Bodies(q)) = {}
<1>y. Parts(b1, p, p2, d)
  BY DEF Settling
<1>x. Filed(b1, p, p2, d, l, F)
  BY RowsAre
<1>a. Batch(b1, p, p2, d) \in Seq(Items)
  BY <1>y, BatchParts
<1>b. Cat(b1, Cat(p, p2)) \in Seq(Items)
  BY <1>y, BatchParts
<1>e. ToSet(Batch(b1, p, p2, d)) = ToSet(b1) \cup ToSet(p) \cup ToSet(p2) \cup ToSet(d)
  BY <1>y, BatchParts
<1>c. ToSet(b1) \subseteq ToSet(Batch(b1, p, p2, d))
  BY <1>e
<1>f. Without(Kept(p, p2, d), ToSet(Rows(l, b1, p, p2, F))) = Without(d, ToSet(l))
  BY <1>x DEF Filed
<1>d. Cat(Without(Cat(b1, Cat(p, p2)), ToSet(l) \cup F), Without(d, ToSet(l)))
         = Without(Without(Batch(b1, p, p2, d), ToSet(l)), F)
  BY <1>x DEF Filed
<1>z. /\ b1 \in Seq(Items) /\ p \in Seq(Items) /\ p2 \in Seq(Items) /\ d \in Seq(Items)
      /\ Parts(b1, p, p2, d) /\ IsInjective(Batch(b1, p, p2, d))
      /\ l \in Seq(Items) /\ F \subseteq ToSet(b1) \ ToSet(l)
  BY DEF Settling, Parts
<1> USE <1>z
<1> DEFINE L == ToSet(l)
           b == Batch(b1, p, p2, d)
           v == Without(Cat(b1, Cat(p, p2)), L \cup F)
           m == Rows(l, b1, p, p2, F)
           k == Kept(p, p2, d)
           u == Without(b, L)
           e == Without(d, L)
           R == Carried(F)
           bl == Bodies(l)
           bq == Bodies(q)
<1>1. /\ b \in Seq(Items) /\ Cat(b1, Cat(p, p2)) \in Seq(Items)
      /\ ToSet(b1) \subseteq ToSet(b)
  BY <1>a, <1>b, <1>c
<1>2. /\ m = Cat(l, v) /\ Without(k, ToSet(m)) = e /\ Cat(v, e) = Without(u, F)
  BY <1>d, <1>f DEF Rows
<1>3. u \in Seq(Items) /\ v \in Seq(Items) /\ e \in Seq(Items) /\ ToSet(u) = ToSet(b) \ L
  BY <1>1, WithoutIs
<1>4. /\ bl \in Seq(Events) /\ bq \in Seq(Events) /\ Bodies(u) \in Seq(Events)
      /\ Bodies(v) \in Seq(Events) /\ Bodies(e) \in Seq(Events)
  BY <1>3, BodiesSteps
<1>5. Line(l, b, q) = Cat(bl, Cat(Bodies(u), bq)) /\ Line(m, k, q) = Cat(Bodies(m), Cat(Bodies(e), bq))
  BY <1>2 DEF Line
<1>6. Cat(Bodies(u), bq) \in Seq(Events) /\ ToSet(Cat(Bodies(u), bq)) = ToSet(Bodies(u)) \cup ToSet(bq)
  BY <1>4, CatIs, CatSet
<1>7. /\ IsInjective(Cat(Bodies(u), bq)) /\ ToSet(bl) \cap ToSet(Cat(Bodies(u), bq)) = {}
      /\ ToSet(Line(l, b, q)) = ToSet(bl) \cup ToSet(Bodies(u)) \cup ToSet(bq)
  BY <1>4, <1>5, <1>6, InjectiveCat, CatSet
<1>8. IsInjective(Bodies(u)) /\ ToSet(Bodies(u)) \cap ToSet(bq) = {}
  BY <1>4, <1>7, InjectiveCat
<1>9. F \subseteq ToSet(u)
  BY <1>1, <1>3
<1> HIDE DEF u, v, e, m, k, b, bl, bq
<1>10. R \subseteq ToSet(Bodies(u)) /\ Bodies(Without(u, F)) = Without(Bodies(u), R)
  <2>1. Bodies(Without(u, F)) = Without(Bodies(u), R)
    BY <1>3, <1>8, <1>9, BodiesWithout
  <2>2. ToSet(Bodies(u)) = Carried(ToSet(u))
    BY <1>3, BodiesHold
  <2>3. Carried(F) \subseteq Carried(ToSet(u))
    BY <1>9 DEF Carried
  <2> QED
    BY <2>1, <2>2, <2>3
<1>11. ToSet(bl) \cap R = {} /\ ToSet(bq) \cap R = {}
  BY <1>6, <1>7, <1>8, <1>10
<1> HIDE DEF R
<1>12. Without(Line(l, b, q), R) = Cat(bl, Cat(Without(Bodies(u), R), bq))
  <2>1. Without(bl, R) = bl /\ Without(bq, R) = bq
    BY <1>4, <1>11, WithoutIs
  <2>2. Without(Cat(Bodies(u), bq), R) = Cat(Without(Bodies(u), R), Without(bq, R))
    BY <1>4, WithoutCat
  <2>3. Without(Line(l, b, q), R) = Cat(Without(bl, R), Without(Cat(Bodies(u), bq), R))
    BY <1>4, <1>5, <1>6, WithoutCat
  <2> QED
    BY <2>1, <2>2, <2>3
<1>13. Line(m, k, q) = Cat(bl, Cat(Bodies(Without(u, F)), bq))
  <2>1. Bodies(m) = Cat(bl, Bodies(v))
    BY <1>2, <1>3, BodiesCat DEF bl
  <2>2. Bodies(Without(u, F)) = Cat(Bodies(v), Bodies(e))
    BY <1>2, <1>3, BodiesCat
  <2> DEFINE y == Bodies(v)
             z == Bodies(e)
  <2> HIDE DEF y, z
  <2>3. y \in Seq(Events) /\ z \in Seq(Events) /\ Cat(z, bq) \in Seq(Events)
    BY <1>4, CatIs DEF y, z
  <2>4. Cat(Cat(bl, y), Cat(z, bq)) = Cat(bl, Cat(y, Cat(z, bq)))
    BY <2>3, <1>4, CatAssoc
  <2>5. Cat(Cat(y, z), bq) = Cat(y, Cat(z, bq))
    BY <2>3, <1>4, CatAssoc
  <2> QED
    BY <2>1, <2>2, <2>4, <2>5, <1>5 DEF y, z
<1> QED
  BY <1>7, <1>10, <1>11, <1>12, <1>13 DEF b, m, k, R, bl, bq

\* What is published is always the first part of the rows and of the batch.
LEMMA SettledHeard ==
    ASSUME NEW b1, NEW p, NEW p2, NEW d, NEW l, NEW F, Settling(b1, p, p2, d, l, F),
           NEW pub \in Seq(Items), NEW Z, Z \subseteq ToSet(l), ToSet(Batch(b1, p, p2, d)) \cap Z = {},
           ToSet(pub) \subseteq ToSet(l),
           Cat(Without(l, Z), Without(Batch(b1, p, p2, d), ToSet(l)))
              = Cat(FirstOf(Without(pub, Z)),
                    Without(Batch(b1, p, p2, d), ToSet(FirstOf(Without(pub, Z))))),
           NEW pub2, pub2 = Cat(pub, Cat(Without(b1, F), p)),
           NEW m, m = Rows(l, b1, p, p2, F)
    PROVE  /\ pub2 \in Seq(Items) /\ ToSet(pub2) \subseteq ToSet(m) /\ Z \subseteq ToSet(m)
           /\ ToSet(Kept(p, p2, d)) \cap Z = {}
           /\ Cat(Without(m, Z), Without(Kept(p, p2, d), ToSet(m)))
                 = Cat(FirstOf(Without(pub2, Z)),
                       Without(Kept(p, p2, d), ToSet(FirstOf(Without(pub2, Z)))))
<1>y. Parts(b1, p, p2, d)
  BY DEF Settling
<1>x. Filed(b1, p, p2, d, l, F)
  BY RowsAre
<1>a. Batch(b1, p, p2, d) \in Seq(Items) /\ Kept(p, p2, d) \in Seq(Items)
  BY <1>y, BatchParts
<1>b. Cat(b1, Cat(p, p2)) \in Seq(Items) /\ Batch(b1, p, p2, d) = Cat(b1, Kept(p, p2, d))
  BY <1>y, BatchParts
<1>c. ToSet(Batch(b1, p, p2, d)) = ToSet(b1) \cup ToSet(p) \cup ToSet(p2) \cup ToSet(d)
  BY <1>y, BatchParts
<1>d. ToSet(Kept(p, p2, d)) = ToSet(p) \cup ToSet(p2) \cup ToSet(d)
  BY <1>y, BatchParts
<1>e. ToSet(Cat(b1, Cat(p, p2))) = ToSet(b1) \cup ToSet(p) \cup ToSet(p2)
  BY <1>y, BatchParts
<1>f. Without(Kept(p, p2, d), ToSet(Rows(l, b1, p, p2, F))) = Without(d, ToSet(l))
  BY <1>x DEF Filed
<1>g. Cat(Without(Cat(b1, Cat(p, p2)), ToSet(l) \cup F), Without(d, ToSet(l)))
         = Without(Without(Batch(b1, p, p2, d), ToSet(l)), F)
  BY <1>x DEF Filed
<1>h. Rows(l, b1, p, p2, F) \in Seq(Items)
  BY <1>x DEF Filed
<1>i. ToSet(Rows(l, b1, p, p2, F))
         = ToSet(l) \cup ((ToSet(b1) \ F) \cup ToSet(p) \cup ToSet(p2))
  BY <1>x DEF Filed
<1>z. /\ b1 \in Seq(Items) /\ p \in Seq(Items) /\ p2 \in Seq(Items) /\ d \in Seq(Items)
      /\ Parts(b1, p, p2, d) /\ IsInjective(Batch(b1, p, p2, d))
      /\ l \in Seq(Items) /\ F \subseteq ToSet(b1) \ ToSet(l)
  BY DEF Settling, Parts
<1> USE <1>z
<1> DEFINE L == ToSet(l)
           b == Batch(b1, p, p2, d)
           w == Cat(b1, Cat(p, p2))
           v == Without(w, L \cup F)
           k == Kept(p, p2, d)
           u == Without(b, L)
           e == Without(d, L)
           h == FirstOf(Without(pub, Z))
           H == ToSet(h)
           a == Without(b1, F)
           n == Cat(a, p)
           rows == Without(l, Z)
           c == Cat(p2, d)
<1>1. /\ b \in Seq(Items) /\ w \in Seq(Items) /\ k \in Seq(Items)
      /\ ToSet(b) = ToSet(b1) \cup ToSet(p) \cup ToSet(p2) \cup ToSet(d)
      /\ ToSet(w) = ToSet(b1) \cup ToSet(p) \cup ToSet(p2)
      /\ ToSet(k) = ToSet(p) \cup ToSet(p2) \cup ToSet(d)
      /\ b = Cat(b1, k)
  BY <1>a, <1>b, <1>c, <1>d, <1>e
<1>2. /\ IsInjective(b1) /\ IsInjective(p)
      /\ ToSet(b1) \cap (ToSet(p) \cup ToSet(p2) \cup ToSet(d)) = {}
      /\ ToSet(p) \cap (ToSet(p2) \cup ToSet(d)) = {}
      /\ ToSet(p2) \cap ToSet(d) = {}
  BY BatchApart
<1>3. /\ m = Cat(l, v) /\ Without(k, ToSet(m)) = e /\ Cat(v, e) = Without(u, F) /\ m \in Seq(Items)
      /\ ToSet(m) = L \cup ((ToSet(b1) \ F) \cup ToSet(p) \cup ToSet(p2))
  BY <1>f, <1>g, <1>h, <1>i DEF Rows
<1>4. Without(pub, Z) \in Seq(Items) /\ ToSet(Without(pub, Z)) = ToSet(pub) \ Z
  BY WithoutIs
<1>5. h \in Seq(Items) /\ H = ToSet(pub) \ Z
  BY <1>4, FirstOfHolds
<1>6. a \in Seq(Items) /\ ToSet(a) = ToSet(b1) \ F /\ IsInjective(a)
  BY <1>2, WithoutIs
<1>7. n \in Seq(Items) /\ ToSet(n) = (ToSet(b1) \ F) \cup ToSet(p) /\ IsInjective(n)
  <2>1. ToSet(a) \cap ToSet(p) = {}
    BY <1>2, <1>6
  <2> QED
    BY <2>1, <1>2, <1>6, CatType, InjectiveCat
<1>8. /\ k = Cat(p, c) /\ c \in Seq(Items) /\ ToSet(c) = ToSet(p2) \cup ToSet(d)
      /\ Cat(rows, u) = Cat(h, Without(b, H)) /\ pub2 = Cat(pub, n)
  BY CatType DEF Kept
<1>9. /\ u \in Seq(Items) /\ v \in Seq(Items) /\ e \in Seq(Items) /\ rows \in Seq(Items)
      /\ ToSet(v) = ToSet(w) \ (L \cup F) /\ ToSet(rows) = L \ Z
  BY <1>1, WithoutIs
<1> HIDE DEF b, w, v, k, u, e, h, H, a, n, rows, c
<1>10. pub2 \in Seq(Items) /\ ToSet(pub2) = ToSet(pub) \cup ToSet(n)
  BY <1>7, <1>8, CatType
<1>11. ToSet(pub2) \subseteq ToSet(m) /\ Z \subseteq ToSet(m) /\ ToSet(k) \cap Z = {}
  BY <1>1, <1>3, <1>7, <1>10 DEF b
<1>12. Without(m, Z) = Cat(rows, v)
  <2>1. ToSet(v) \cap Z = {}
    BY <1>9
  <2>2. Without(v, Z) = v
    BY <2>1, <1>9, WithoutIs
  <2>3. Without(Cat(l, v), Z) = Cat(Without(l, Z), Without(v, Z))
    BY <1>9, WithoutCat
  <2> QED
    BY <2>2, <2>3, <1>3 DEF rows
<1>13. Cat(Without(m, Z), e) = Cat(h, Without(b, H \cup F))
  <2>1. Cat(Cat(rows, v), e) = Cat(rows, Without(u, F))
    BY <1>3, <1>9, CatAssoc
  <2>2. ToSet(rows) \cap F = {} /\ ToSet(h) \cap F = {}
    BY <1>5, <1>9 DEF H
  <2>3. Without(rows, F) = rows /\ Without(h, F) = h
    BY <2>2, <1>5, <1>9, WithoutIs
  <2>4. Without(Cat(rows, u), F) = Cat(rows, Without(u, F))
    BY <2>3, <1>9, WithoutCat
  <2>5. Without(b, H) \in Seq(Items)
    BY <1>1, WithoutIs
  <2>6. Without(Cat(h, Without(b, H)), F) = Cat(h, Without(Without(b, H), F))
    BY <2>3, <2>5, <1>5, WithoutCat
  <2>7. Without(Without(b, H), F) = Without(b, H \cup F)
    BY <1>1, WithoutTwice
  <2> QED
    BY <2>1, <2>4, <2>6, <2>7, <1>8, <1>12
<1> DEFINE h2 == FirstOf(Without(pub2, Z))
<1>14. h2 = Cat(h, Without(n, H))
  <2>1. ToSet(n) \cap Z = {}
    BY <1>1, <1>7 DEF b
  <2>2. Without(pub2, Z) = Cat(Without(pub, Z), n)
    <3>1. Without(n, Z) = n
      BY <2>1, <1>7, WithoutIs
    <3> QED
      BY <3>1, <1>7, <1>8, WithoutCat
  <2>3. FirstOf(Cat(Without(pub, Z), n)) = Cat(h, Without(n, ToSet(pub) \ Z))
    BY <1>4, <1>7, FirstOfCat DEF h
  <2> QED
    BY <2>2, <2>3, <1>5
<1>15. Without(n, H) \in Seq(Items) /\ ToSet(h2) = H \cup ToSet(n)
  <2>1. Without(n, H) \in Seq(Items) /\ ToSet(Without(n, H)) = ToSet(n) \ H
    BY <1>7, WithoutIs
  <2>4. \A s, t \in Seq(Items) : ToSet(Cat(s, t)) = ToSet(s) \cup ToSet(t)
    BY CatSet
  <2>2. ToSet(Cat(h, Without(n, H))) = ToSet(h) \cup ToSet(Without(n, H))
    BY <2>1, <2>4, <1>5
  <2>3. ToSet(h) = H
    BY DEF H
  <2> QED
    BY <2>1, <2>2, <2>3, <1>14
<1> HIDE DEF h2
<1>16. Without(k, ToSet(h2)) = Without(c, H)
  <2>1. ToSet(p) \subseteq ToSet(h2) /\ ToSet(c) \ ToSet(h2) = ToSet(c) \ H
    BY <1>2, <1>7, <1>8, <1>15
  <2>2. Without(p, ToSet(h2)) = <<>> /\ Without(c, ToSet(h2)) = Without(c, H)
    <3>1. Without(p, ToSet(h2)) = <<>>
      BY <2>1, WithoutIs
    <3> QED
      BY <3>1, <2>1, <1>8, WithoutAgrees
  <2>3. Without(k, ToSet(h2)) = Cat(Without(p, ToSet(h2)), Without(c, ToSet(h2)))
    BY <1>8, WithoutCat
  <2>4. Without(c, H) \in Seq(Items)
    BY <1>8, WithoutIs
  <2> QED
    BY <2>2, <2>3, <2>4, CatIs
<1>17. Without(b, H \cup F) = Cat(Without(n, H), Without(c, H))
  <2>1. Without(b, H \cup F) = Cat(Without(b1, H \cup F), Without(k, H \cup F))
    BY <1>1, WithoutCat
  <2>2. F \cup H = H \cup F
    OBVIOUS
  <2>3. Without(b1, H \cup F) = Without(a, H)
    BY <2>2, WithoutTwice DEF a
  <2>4. ToSet(k) \ (H \cup F) = ToSet(k) \ H
    BY <1>1, <1>2
  <2>5. Without(k, H \cup F) = Without(k, H)
    BY <2>4, <1>1, WithoutAgrees
  <2>6. Without(k, H) = Cat(Without(p, H), Without(c, H))
    BY <1>8, WithoutCat
  <2>7. Without(n, H) = Cat(Without(a, H), Without(p, H))
    BY <1>6, WithoutCat DEF n
  <2>8. /\ Without(a, H) \in Seq(Items) /\ Without(p, H) \in Seq(Items)
        /\ Without(c, H) \in Seq(Items)
    BY <1>6, <1>8, WithoutIs
  <2> QED
    BY <2>1, <2>3, <2>5, <2>6, <2>7, <2>8, CatAssoc
<1>18. Cat(h2, Without(c, H)) = Cat(h, Cat(Without(n, H), Without(c, H)))
  <2>1. Without(c, H) \in Seq(Items)
    BY <1>8, WithoutIs
  <2> QED
    BY <2>1, <1>5, <1>14, <1>15, CatAssoc
<1>19. Cat(Without(m, Z), Without(k, ToSet(m))) = Cat(h2, Without(k, ToSet(h2)))
  BY <1>3, <1>13, <1>16, <1>17, <1>18
<1> QED
  BY <1>10, <1>11, <1>19 DEF h2, k

-----------------------------------------------------------------------------
(* How a write can end, said of the parts of its batch.                    *)

Ended(r, b1, p, p2, d, F) ==
    /\ F \subseteq {x \in ToSet(b1) : RefusedAlone(x)}
    /\ r.log = Rows(log, b1, p, p2, F)
    /\ r.published = Cat(published, Cat(Without(b1, F), p))
    /\ r.keep = Kept(p, p2, d) /\ r.refused = Carried(F)
    /\ r.end \in {"ok", "dropped", "failed"} /\ (r.end = "failed" => CanFail)
Settles(b, r) ==
    \E b1, p, p2, d \in Seq(Items) : \E F :
       b = Batch(b1, p, p2, d) /\ Ended(r, b1, p, p2, d, F)

\* What isolate has done with the first n items.
Taken(b, n) == Only(SubSeq(b, 1, n), {item \in ToSet(b) : ~RefusedAlone(item)})
Reported(b, n) == UNION {ToSet(b[i].body) : i \in {j \in 1..n : RefusedAlone(b[j])}}
Complete(b) ==
    [log |-> Written(Taken(b, Len(b))), published |-> published \o Taken(b, Len(b)),
     keep |-> <<>>, refused |-> Reported(b, Len(b)), end |-> "dropped"]
Stopped(b, k, rows) ==
    [log |-> Written(rows), published |-> published \o Taken(b, k - 1),
     keep |-> SubSeq(b, k, Len(b)), refused |-> Reported(b, k - 1), end |-> "failed"]
Refusals(a) == {x \in ToSet(a) : RefusedAlone(x)}

LEMMA UnwrittenIs ==
    ASSUME NEW b
    PROVE  Unwritten(b) = Without(b, ToSet(log)) /\ Written(b) = Cat(log, Without(b, ToSet(log)))
<1>1. {x \in ToSet(b) : ~InLog(x)} = ToSet(b) \ ToSet(log)
  BY DEF InLog
<1> QED
  BY <1>1 DEF Unwritten, Written, Without, Cat

LEMMA CarriedNone == Carried({}) = {}
BY DEF Carried

LEMMA TakenIs ==
    ASSUME NEW b \in Seq(Items), NEW n \in 0..Len(b)
    PROVE  /\ Taken(b, n) = Without(SubSeq(b, 1, n), Refusals(SubSeq(b, 1, n)))
           /\ Reported(b, n) = Carried(Refusals(SubSeq(b, 1, n)))
<1> DEFINE a == SubSeq(b, 1, n)
           T == {x \in ToSet(b) : ~RefusedAlone(x)}
<1>1. a \in Seq(Items) /\ ToSet(a) = {b[i] : i \in 1..n}
  BY Cut
<1>2. DOMAIN b = 1..Len(b) /\ Len(b) \in Nat
  BY SeqMembers
<1>3. 1..n \subseteq 1..Len(b)
  BY <1>2
<1> HIDE DEF a
<1>4. ToSet(a) \subseteq ToSet(b)
  BY <1>1, <1>2, <1>3 DEF ToSet
<1>5. ToSet(a) \ Refusals(a) = ToSet(a) \cap T
  BY <1>4 DEF Refusals
<1> HIDE DEF T
<1>6. Only(a, T) = Without(a, Refusals(a))
  BY <1>1, <1>5, WithoutSame
<1>7. Reported(b, n) = Carried(Refusals(a))
  BY <1>1 DEF Reported, Carried, Refusals
<1> QED
  BY <1>6, <1>7 DEF Taken, a, T

LEMMA BatchWhole ==
    ASSUME NEW b \in Seq(Items)
    PROVE  /\ <<>> \in Seq(Items) /\ Batch(b, <<>>, <<>>, <<>>) = b
           /\ Kept(<<>>, <<>>, b) = b /\ Kept(<<>>, <<>>, <<>>) = <<>>
           /\ Batch(<<>>, <<>>, <<>>, b) = b
           /\ \A F : Rows(log, b, <<>>, <<>>, F) = Cat(log, Without(b, ToSet(log) \cup F))
<1>1. <<>> \in Seq(Items)
  BY EmptyIs
<1>2. Cat(b, <<>>) = b /\ Cat(<<>>, b) = b /\ Cat(<<>>, <<>>) = <<>>
  BY <1>1, CatIs
<1> QED
  BY <1>1, <1>2 DEF Batch, Kept, Rows

\* A write that was not refused: committed and published, not committed, or
\* committed and published up to its n-th item.
LEMMA AttemptSettles ==
    ASSUME NEW b \in Seq(Items), log \in Seq(Items), published \in Seq(Items), NEW t \in Attempts(b),
           NEW r, r.log = t.log, r.published = t.published, r.refused = {}, r.end = t.end,
           r.keep = IF t.end = "ok" THEN <<>> ELSE b
    PROVE  Settles(b, r)
<1> DEFINE L == ToSet(log)
<1>0. <<>> \in Seq(Items) /\ Without(<<>>, {}) = <<>> /\ ToSet(<<>>) = {} /\ Without(<<>>, L) = <<>>
  BY EmptyIs, WithoutIs
<1>1. CASE t = [log |-> Written(b), published |-> published \o b, end |-> "ok"]
  <2>1. /\ t.log = Written(b) /\ t.published = Cat(published, b) /\ t.end = "ok"
    BY <1>1 DEF Cat
  <2>2. L \cup {} = L /\ Without(b, {}) = b /\ Cat(b, <<>>) = b
    <3>1. L \cup {} = L /\ ToSet(b) \cap {} = {}
      OBVIOUS
    <3>2. Without(b, {}) = b
      BY <3>1, WithoutIs
    <3> QED
      BY <3>1, <3>2, CatIs
  <2>3. Ended(r, b, <<>>, <<>>, <<>>, {})
    <3>1. r.log = Rows(log, b, <<>>, <<>>, {})
      BY <2>1, <2>2, UnwrittenIs, BatchWhole
    <3>2. r.published = Cat(published, Cat(Without(b, {}), <<>>))
      BY <2>1, <2>2
    <3>3. r.keep = Kept(<<>>, <<>>, <<>>) /\ r.refused = Carried({})
      BY <2>1, BatchWhole, CarriedNone
    <3> QED
      BY <2>1, <3>1, <3>2, <3>3 DEF Ended
  <2> QED
    BY <1>0, <2>3, BatchWhole DEF Settles
<1>2. CASE t = [log |-> log, published |-> published, end |-> "failed"] /\ CanFail
  <2>1. Cat(log, <<>>) = log /\ Cat(published, <<>>) = published /\ Cat(<<>>, <<>>) = <<>>
    BY <1>0, CatIs
  <2>2. Rows(log, <<>>, <<>>, <<>>, {}) = log
    <3>1. Rows(log, <<>>, <<>>, <<>>, {}) = Cat(log, Without(<<>>, L \cup {}))
      BY <1>0, BatchWhole
    <3>2. L \cup {} = L
      OBVIOUS
    <3> QED
      BY <1>0, <2>1, <3>1, <3>2
  <2>3. Ended(r, <<>>, <<>>, <<>>, b, {})
    <3>1. r.log = log /\ r.published = published /\ r.end = "failed" /\ r.keep = b
      BY <1>2
    <3>2. r.keep = Kept(<<>>, <<>>, b) /\ r.refused = Carried({})
      BY <3>1, BatchWhole, CarriedNone
    <3> QED
      BY <1>0, <1>2, <2>1, <2>2, <3>1, <3>2 DEF Ended
  <2> QED
    BY <1>0, <2>3, BatchWhole DEF Settles
<1>3. ASSUME NEW n \in 0..(Len(b) - 1), CanFail,
             t = [log |-> Written(b), published |-> published \o SubSeq(b, 1, n), end |-> "failed"]
      PROVE  Settles(b, r)
  <2> DEFINE p == SubSeq(b, 1, n)
             c == SubSeq(b, n + 1, Len(b))
  <2>1. n \in 0..Len(b)
    BY SeqMembers
  <2>2. p \in Seq(Items) /\ c \in Seq(Items) /\ b = Cat(p, c)
    BY <2>1, Cut
  <2>3. t.log = Written(b) /\ t.published = Cat(published, p) /\ t.end = "failed"
    BY <1>3 DEF Cat
  <2> HIDE DEF p, c
  <2>4. /\ Cat(c, <<>>) = c /\ Cat(<<>>, p) = p /\ Cat(<<>>, b) = b
    BY <1>0, <2>2, CatIs
  <2>5. Kept(p, c, <<>>) = b /\ Batch(<<>>, p, c, <<>>) = b
    BY <2>2, <2>4 DEF Batch, Kept
  <2>6. Rows(log, <<>>, p, c, {}) = Written(b)
    <3>1. L \cup {} = L
      OBVIOUS
    <3> QED
      BY <3>1, <2>2, <2>4, UnwrittenIs DEF Rows
  <2>7. Ended(r, <<>>, p, c, <<>>, {})
    <3>1. r.log = Written(b) /\ r.published = Cat(published, p) /\ r.end = "failed" /\ r.keep = b
      BY <2>3
    <3>2. r.refused = Carried({})
      BY CarriedNone
    <3> QED
      BY <1>0, <1>3, <2>4, <2>5, <2>6, <3>1, <3>2 DEF Ended
  <2> QED
    BY <1>0, <2>2, <2>5, <2>7 DEF Settles
<1> QED
  BY <1>1, <1>2, <1>3 DEF Attempts

\* isolate that came to its end.
LEMMA CompleteSettles ==
    ASSUME NEW b \in Seq(Items), log \in Seq(Items), published \in Seq(Items)
    PROVE  Settles(b, Complete(b))
<1> DEFINE F == Refusals(b)
           L == ToSet(log)
           n == Len(b)
<1>1. SubSeq(b, 1, n) = b /\ n \in 0..n
  <2>1. n \in Nat
    BY SeqMembers
  <2> QED
    BY <2>1, SubSeqProperties
<1>2. Taken(b, n) = Without(b, F) /\ Reported(b, n) = Carried(F)
  BY <1>1, TakenIs
<1>3. Without(b, F) \in Seq(Items) /\ Cat(Without(b, F), <<>>) = Without(b, F)
  BY WithoutIs, CatIs
<1>4. Written(Without(b, F)) = Rows(log, b, <<>>, <<>>, F)
  <2>1. Without(Without(b, F), L) = Without(b, F \cup L)
    BY WithoutTwice
  <2>2. F \cup L = L \cup F
    OBVIOUS
  <2> QED
    BY <2>1, <2>2, UnwrittenIs, BatchWhole
<1>5. Ended(Complete(b), b, <<>>, <<>>, <<>>, F)
  <2>1. Kept(<<>>, <<>>, <<>>) = <<>>
    BY BatchWhole
  <2>2. published \o Without(b, F) = Cat(published, Cat(Without(b, F), <<>>))
    BY <1>3 DEF Cat
  <2>3. F \subseteq {x \in ToSet(b) : RefusedAlone(x)}
    BY DEF Refusals
  <2> HIDE DEF F, n
  <2> QED
    BY <1>2, <1>4, <2>1, <2>2, <2>3 DEF Ended, Complete, n
<1> QED
  BY <1>5, BatchWhole DEF Settles

\* isolate that failed at the k-th item, before or after writing it.
LEMMA StoppedSettles ==
    ASSUME NEW b \in Seq(Items), log \in Seq(Items), published \in Seq(Items), CanFail,
           NEW k \in 1..Len(b), NEW j \in {k - 1, k}
    PROVE  Settles(b, Stopped(b, k, Taken(b, j)))
<1> DEFINE a == SubSeq(b, 1, k - 1)
           x == b[k]
           o == Pushed(<<>>, x)
           d == SubSeq(b, k + 1, Len(b))
           F == Refusals(a)
           L == ToSet(log)
<1>0. Len(b) \in Nat /\ k - 1 \in 0..Len(b) /\ k \in 0..Len(b) /\ (k - 1) + 1 = k
  BY SeqMembers
<1>1. /\ x \in Items /\ SubSeq(b, 1, k) = Cat(a, o) /\ SubSeq(b, k, Len(b)) = Cat(o, d)
  BY CutAt
<1>2. a \in Seq(Items) /\ b = Cat(a, SubSeq(b, k, Len(b)))
  BY <1>0, Cut
<1>3. d \in Seq(Items)
  BY <1>0, Cut
<1>4. /\ Taken(b, k - 1) = Without(a, F) /\ Reported(b, k - 1) = Carried(F)
      /\ Taken(b, k) = Without(Cat(a, o), Refusals(Cat(a, o)))
  BY <1>0, <1>1, TakenIs
<1> DEFINE c == Cat(o, d)
<1>5. o \in Seq(Items) /\ ToSet(o) = {x}
  BY <1>1, OneIs
<1> HIDE DEF a, x, o, d, F
<1>6. /\ Cat(a, o) \in Seq(Items) /\ c \in Seq(Items) /\ b = Cat(a, c) /\ ToSet(Cat(a, o)) = ToSet(a) \cup {x}
  BY <1>1, <1>2, <1>3, <1>5, CatType
<1>7. Without(a, F) \in Seq(Items) /\ <<>> \in Seq(Items)
  BY <1>2, WithoutIs, EmptyIs
<1>8. /\ Cat(Without(a, F), <<>>) = Without(a, F) /\ Cat(<<>>, c) = c /\ Cat(<<>>, o) = o
      /\ Cat(<<>>, <<>>) = <<>> /\ Cat(a, <<>>) = a
  BY <1>2, <1>5, <1>6, <1>7, CatIs
<1>9. F \subseteq {y \in ToSet(a) : RefusedAlone(y)}
  BY DEF F, Refusals
<1>10. ASSUME NEW rows, NEW p2 \in Seq(Items), NEW e \in Seq(Items),
              Cat(p2, e) = c, Written(rows) = Rows(log, a, <<>>, p2, F)
       PROVE  Settles(b, Stopped(b, k, rows))
  <2> DEFINE r == Stopped(b, k, rows)
  <2>1. Kept(<<>>, p2, e) = c /\ Batch(a, <<>>, p2, e) = b
    BY <1>6, <1>8, <1>10 DEF Kept, Batch
  <2>2. /\ r.log = Written(rows) /\ r.published = Cat(published, Without(a, F)) /\ r.keep = c
        /\ r.refused = Carried(F) /\ r.end = "failed"
    BY <1>1, <1>4 DEF Stopped, Cat
  <2> HIDE DEF r, c
  <2>3. Ended(r, a, <<>>, p2, e, F)
    BY <1>8, <1>9, <1>10, <2>1, <2>2 DEF Ended
  <2> QED
    BY <1>2, <1>7, <2>1, <2>3 DEF Settles, r
<1> HIDE DEF c
<1>11. Written(Without(a, F)) = Rows(log, a, <<>>, <<>>, F)
  <2>1. Without(Without(a, F), L) = Without(a, F \cup L) /\ F \cup L = L \cup F
    BY <1>2, WithoutTwice
  <2> QED
    BY <2>1, <1>2, UnwrittenIs, BatchWhole
<1>12. Settles(b, Stopped(b, k, Without(a, F)))
  BY <1>6, <1>7, <1>8, <1>10, <1>11
<1>13. ASSUME RefusedAlone(x) PROVE Taken(b, k) = Without(a, F)
  <2> DEFINE G == Refusals(Cat(a, o))
  <2>1. ToSet(a) \ G = ToSet(a) \ F /\ ToSet(o) \subseteq G
    BY <1>5, <1>6, <1>13 DEF Refusals, F
  <2> HIDE DEF G
  <2>2. Without(a, G) = Without(a, F) /\ Without(o, G) = <<>>
    <3>1. Without(a, G) = Without(a, F)
      BY <2>1, <1>2, WithoutAgrees
    <3> QED
      BY <3>1, <2>1, <1>5, WithoutIs
  <2>3. Without(Cat(a, o), G) = Cat(Without(a, G), Without(o, G))
    BY <1>2, <1>5, WithoutCat
  <2> QED
    BY <2>2, <2>3, <1>4, <1>8 DEF G
<1>14. ASSUME ~RefusedAlone(x) PROVE Settles(b, Stopped(b, k, Taken(b, k)))
  <2>1. Refusals(Cat(a, o)) = F
    BY <1>6, <1>14 DEF Refusals, F
  <2>2. Without(Without(Cat(a, o), F), L) = Without(Cat(a, o), F \cup L) /\ F \cup L = L \cup F
    BY <1>6, WithoutTwice
  <2>3. Written(Taken(b, k)) = Rows(log, a, <<>>, o, F)
    BY <2>1, <2>2, <1>4, <1>8, UnwrittenIs DEF Rows
  <2> QED
    BY <2>3, <1>3, <1>5, <1>10 DEF c
<1> QED
  BY <1>4, <1>12, <1>13, <1>14

\* Every way flushBuffered can end settles its batch.
LEMMA FlushSettles ==
    ASSUME NEW b \in Seq(Items), log \in Seq(Items), published \in Seq(Items),
           NEW r \in FlushResults(b)
    PROVE  Settles(b, r)
<1>1. CASE RefusedWhole(b)
  <2>1. r \in Isolated(b)
    BY <1>1 DEF FlushResults
  <2>2. Isolated(b) = {Complete(b)} \cup
           (IF ~CanFail THEN {} ELSE
              UNION {{Stopped(b, k, Taken(b, k - 1)), Stopped(b, k, Taken(b, k))} : k \in DOMAIN b})
    BY Zenon DEF Isolated, Complete, Stopped, Taken, Reported
  <2>3. \/ r = Complete(b)
        \/ CanFail /\ (\E k \in DOMAIN b : \E j \in {k - 1, k} : r = Stopped(b, k, Taken(b, j)))
    BY <2>1, <2>2
  <2>4. DOMAIN b = 1..Len(b)
    BY SeqMembers
  <2> QED
    BY <2>3, <2>4, CompleteSettles, StoppedSettles
<1>2. CASE ~RefusedWhole(b)
  <2>1. PICK t \in Attempts(b) :
           r = [log |-> t.log, published |-> t.published, refused |-> {}, end |-> t.end,
                keep |-> IF t.end = "ok" THEN <<>> ELSE b]
    BY <1>2 DEF FlushResults
  <2> QED
    BY <2>1, AttemptSettles
<1> QED
  BY <1>1, <1>2

-----------------------------------------------------------------------------
(* The inductive invariant.                                                *)

\* No event is produced twice, and only produced events are dropped or lost.
Once ==
    /\ IsInjective(produced)
    /\ dropped \subseteq ToSet(produced) /\ lost \subseteq ToSet(produced)

\* What a direct write carries is new, and a notice has its place.
Running ==
    /\ phase = "direct" =>
          arg \in Events /\ arg \notin ToSet(produced) /\ Ev[arg].kind # "delta"
    /\ phase = "notice" => notices < MaxNotices

\* The frozen batch is the buffer; a buffer that is not frozen is not on disk.
Frozen ==
    IF pending # <<>> THEN buffered = pending /\ IsInjective(pending)
    ELSE Without(buffered, ToSet(log)) = buffered

Sounded == queued \in Seq(Sounds) /\ buffered \in Seq(Sounds) /\ log \in Seq(Sounds)

\* What was accepted is on disk, in the buffer or in the queue, in its order.
Lined == Accepted = Line(log, buffered, queued)

\* What is heard, and then the frozen batch without it, is what is on disk,
\* and then the frozen batch without that.
Voices(l, b, pub, Z) ==
    /\ Z \subseteq ToSet(l) /\ ToSet(b) \cap Z = {} /\ ToSet(pub) \subseteq ToSet(l)
    /\ Cat(Without(l, Z), Without(b, ToSet(l)))
          = Cat(FirstOf(Without(pub, Z)), Without(b, ToSet(FirstOf(Without(pub, Z)))))
Heard == Voices(log, pending, published, silent)

IInv ==
    /\ TypeOK /\ Once /\ Running /\ Frozen /\ Sounded /\ Lined
    /\ Heard /\ DroppedForCause

-----------------------------------------------------------------------------
(* Facts about its parts.                                                  *)

LEMMA SeqWithin ==
    ASSUME NEW S, NEW T, NEW s \in Seq(S), ToSet(s) \subseteq T
    PROVE  s \in Seq(T)
<1> DEFINE N == {w \in Seq(S) : ToSet(w) \subseteq T => w \in Seq(T)}
<1>1. <<>> \in N
  BY EmptyIs
<1>2. ASSUME NEW w \in Seq(S), NEW e \in S, w \in N PROVE Pushed(w, e) \in N
  <2>1. Pushed(w, e) \in Seq(S) /\ ToSet(Pushed(w, e)) = ToSet(w) \cup {e}
    BY PushedIs
  <2>2. ASSUME ToSet(Pushed(w, e)) \subseteq T PROVE Pushed(w, e) \in Seq(T)
    BY <1>2, <2>1, <2>2, PushedIs
  <2> QED
    BY <2>1, <2>2
<1> HIDE DEF N
<1>3. Seq(S) \subseteq N
  BY <1>1, <1>2, PushedSet
<1> QED
  BY <1>3 DEF N

LEMMA Types ==
    ASSUME TypeOK
    PROVE  /\ queued \in Seq(Items) /\ buffered \in Seq(Items) /\ pending \in Seq(Items)
           /\ log \in Seq(Items) /\ published \in Seq(Items) /\ produced \in Seq(Events)
           /\ dropped \subseteq Events /\ lost \subseteq Events
BY DEF TypeOK

LEMMA AcceptedIs ==
    ASSUME NEW s \in Seq(Events), NEW X
    PROVE  Only(s, Events \ X) = Without(s, X)
<1>1. ToSet(s) \ X = ToSet(s) \cap (Events \ X)
  BY SeqMembers
<1> QED
  BY <1>1, WithoutSame

\* The accepted events, none of them twice, all of them produced.
LEMMA AcceptedOnce ==
    ASSUME TypeOK, Once
    PROVE  /\ Accepted = Without(produced, dropped \cup lost)
           /\ Accepted \in Seq(Events) /\ IsInjective(Accepted)
           /\ ToSet(Accepted) = ToSet(produced) \ (dropped \cup lost)
<1>1. produced \in Seq(Events)
  BY Types
<1>2. Accepted = Without(produced, dropped \cup lost)
  BY <1>1, AcceptedIs DEF Accepted
<1>3. IsInjective(produced)
  BY DEF Once
<1> QED
  BY <1>1, <1>2, <1>3, WithoutIs

\* The three places of the line share no event.
LEMMA LineIs ==
    ASSUME NEW l \in Seq(Items), NEW b \in Seq(Items), NEW q \in Seq(Items)
    PROVE  /\ Line(l, b, q) \in Seq(Events)
           /\ ToSet(Line(l, b, q)) =
                 Carried(ToSet(l)) \cup (Carried(ToSet(b) \ ToSet(l)) \cup Carried(ToSet(q)))
           /\ IsInjective(Line(l, b, q)) =>
                 /\ IsInjective(Bodies(l))
                 /\ IsInjective(Bodies(Without(b, ToSet(l))))
                 /\ Carried(ToSet(l)) \cap Carried(ToSet(b) \ ToSet(l)) = {}
                 /\ Carried(ToSet(l)) \cap Carried(ToSet(q)) = {}
                 /\ Carried(ToSet(b) \ ToSet(l)) \cap Carried(ToSet(q)) = {}
<1> DEFINE u == Without(b, ToSet(l))
           x == Bodies(l)
           y == Bodies(u)
           z == Bodies(q)
<1>1. u \in Seq(Items) /\ ToSet(u) = ToSet(b) \ ToSet(l)
  BY WithoutIs
<1>2. x \in Seq(Events) /\ y \in Seq(Events) /\ z \in Seq(Events)
  BY <1>1, BodiesSteps
<1>3. /\ ToSet(x) = Carried(ToSet(l)) /\ ToSet(y) = Carried(ToSet(b) \ ToSet(l))
      /\ ToSet(z) = Carried(ToSet(q))
  BY <1>1, BodiesHold
<1>4. Line(l, b, q) = Cat(x, Cat(y, z))
  BY DEF Line
<1> HIDE DEF u, x, y, z
<1>5. Cat(y, z) \in Seq(Events) /\ ToSet(Cat(y, z)) = ToSet(y) \cup ToSet(z)
  BY <1>2, CatType
<1>6. /\ Line(l, b, q) \in Seq(Events)
      /\ ToSet(Line(l, b, q)) = ToSet(x) \cup (ToSet(y) \cup ToSet(z))
  BY <1>2, <1>4, <1>5, CatType
<1>7. ASSUME IsInjective(Line(l, b, q))
      PROVE  /\ IsInjective(x) /\ IsInjective(y)
             /\ ToSet(x) \cap (ToSet(y) \cup ToSet(z)) = {} /\ ToSet(y) \cap ToSet(z) = {}
  <2>1. IsInjective(x) /\ IsInjective(Cat(y, z)) /\ ToSet(x) \cap ToSet(Cat(y, z)) = {}
    BY <1>2, <1>4, <1>5, <1>7, InjectiveCat
  <2>2. IsInjective(y) /\ ToSet(y) \cap ToSet(z) = {}
    BY <1>2, <2>1, InjectiveCat
  <2> QED
    BY <2>1, <2>2, <1>5
<1> QED
  BY <1>3, <1>6, <1>7 DEF x, y, u

\* An item carries an event, so items that share none are not equal.
LEMMA CarriedApart ==
    ASSUME NEW X, NEW Y, X \subseteq Items, Carried(X) \cap Carried(Y) = {}
    PROVE  X \cap Y = {}
<1>1. ASSUME NEW x \in X, x \in Y PROVE FALSE
  <2>1. PICK e : e \in ToSet(x.body)
    BY ItemIs
  <2> QED
    BY <1>1, <2>1 DEF Carried
<1> QED
  BY <1>1

\* A batch that may be written, and the queue behind it.
Ready(b, q) ==
    /\ b \in Seq(Sounds) /\ q \in Seq(Sounds) /\ IsInjective(b)
    /\ Accepted = Line(log, b, q) /\ Voices(log, b, published, silent)

LEMMA ReadyFrozen ==
    ASSUME IInv, pending # <<>>
    PROVE  Ready(pending, queued)
BY DEF IInv, Frozen, Sounded, Lined, Heard, Ready

\* Text that is not on disk, coalesced.
LEMMA ReadyFresh ==
    ASSUME IInv, pending = <<>>, NEW items \in Seq(Sounds), NEW q \in Seq(Sounds),
           Accepted = Cat(Bodies(log), Cat(Bodies(items), Bodies(q)))
    PROVE  Ready(coalesceDeltas(items), q)
<1> DEFINE b == coalesceDeltas(items)
           L == ToSet(log)
           h == FirstOf(Without(published, silent))
           rows == Without(log, silent)
<1>1. b \in Seq(Sounds) /\ Bodies(b) = Bodies(items)
  BY CoalescedIs
<1> HIDE DEF b
<1>2. /\ b \in Seq(Items) /\ q \in Seq(Items) /\ log \in Seq(Items) /\ published \in Seq(Items)
      /\ <<>> \in Seq(Items) /\ ToSet(<<>>) = {}
  BY <1>1, SoundSeq, Types, EmptyIs DEF IInv
<1>3. Bodies(log) \in Seq(Events) /\ Bodies(b) \in Seq(Events) /\ Bodies(q) \in Seq(Events)
  BY <1>2, BodiesSteps
<1>4. IsInjective(Accepted)
  BY AcceptedOnce DEF IInv
<1>5. /\ IsInjective(Bodies(b)) /\ ToSet(Bodies(log)) \cap ToSet(Bodies(b)) = {}
  <2>1. Cat(Bodies(b), Bodies(q)) \in Seq(Events)
        /\ ToSet(Cat(Bodies(b), Bodies(q))) = ToSet(Bodies(b)) \cup ToSet(Bodies(q))
    BY <1>3, CatType
  <2>2. /\ IsInjective(Cat(Bodies(b), Bodies(q)))
        /\ ToSet(Bodies(log)) \cap ToSet(Cat(Bodies(b), Bodies(q))) = {}
    BY <2>1, <1>1, <1>3, <1>4, InjectiveCat
  <2>3. IsInjective(Bodies(b))
    BY <2>2, <1>3, InjectiveCat
  <2> QED
    BY <2>1, <2>2, <2>3
<1>6. IsInjective(b)
  BY <1>2, <1>5, BodiesApart
<1>7. ToSet(b) \cap L = {}
  <2>1. Carried(L) \cap Carried(ToSet(b)) = {} /\ L \subseteq Items
    BY <1>2, <1>5, BodiesHold, SeqMembers
  <2> HIDE DEF L
  <2>2. L \cap ToSet(b) = {}
    BY <2>1, CarriedApart
  <2> QED
    BY <2>2
<1>8. Without(b, L) = b
  BY <1>2, <1>7, WithoutIs
<1>9. Accepted = Line(log, b, q)
  BY <1>1, <1>8 DEF Line
<1>10. Voices(log, b, published, silent)
  <2>1. /\ silent \subseteq L /\ ToSet(published) \subseteq L
        /\ Cat(rows, Without(<<>>, L)) = Cat(h, Without(<<>>, ToSet(h)))
    BY DEF IInv, Heard, Voices
  <2>2. Without(<<>>, L) = <<>> /\ Without(<<>>, ToSet(h)) = <<>>
    BY <1>2, WithoutIs
  <2>3. rows \in Seq(Items) /\ ToSet(rows) = L \ silent
    BY <1>2, WithoutIs
  <2>4. h \in Seq(Items)
    <3>1. Without(published, silent) \in Seq(Items)
      BY <1>2, WithoutIs
    <3> QED
      BY <3>1, FirstOfHolds
  <2> HIDE DEF rows, h
  <2>8. Cat(rows, <<>>) = rows /\ Cat(h, <<>>) = h
    BY <1>2, <2>3, <2>4, CatIs
  <2>5. rows = h
    BY <2>1, <2>2, <2>8
  <2>6. ToSet(b) \cap ToSet(h) = {} /\ ToSet(b) \cap silent = {}
    BY <1>7, <2>1, <2>3, <2>5
  <2>7. Without(b, ToSet(h)) = b
    BY <2>6, <1>2, WithoutIs
  <2> QED
    BY <1>8, <2>1, <2>5, <2>6, <2>7 DEF Voices, rows, h
<1> QED
  BY <1>1, <1>6, <1>9, <1>10 DEF Ready, b

-----------------------------------------------------------------------------
(* A write preserves the invariant.                                        *)

LEMMA FlushParts ==
    ASSUME IInv, NEW b, NEW q, Ready(b, q), NEW r \in FlushResults(b)
    PROVE  \E b1, p, p2, d, F :
              /\ b = Batch(b1, p, p2, d) /\ Ended(r, b1, p, p2, d, F)
              /\ Settling(b1, p, p2, d, log, F)
<1>1. log \in Seq(Items) /\ published \in Seq(Items) /\ b \in Seq(Items) /\ IsInjective(b)
  BY Types, SoundSeq DEF IInv, Ready
<1>2. Settles(b, r)
  BY <1>1, FlushSettles
<1>3. PICK b1 \in Seq(Items), p \in Seq(Items), p2 \in Seq(Items), d \in Seq(Items) :
         \E F : b = Batch(b1, p, p2, d) /\ Ended(r, b1, p, p2, d, F)
  BY <1>2, Zenon DEF Settles
<1>4. PICK F : b = Batch(b1, p, p2, d) /\ Ended(r, b1, p, p2, d, F)
  BY <1>3, Zenon
<1>5. F \subseteq ToSet(b1) \ ToSet(log)
  BY <1>4 DEF Ended, RefusedAlone, InLog
<1>6. Settling(b1, p, p2, d, log, F)
  BY <1>1, <1>4, <1>5 DEF Settling, Parts
<1> QED
  BY <1>4, <1>6, Zenon

Cause(e) ==
    \/ e \in Refusable
    \/ \E i, j \in DOMAIN produced :
          /\ i < j
          /\ produced[j] = e
          /\ Ev[produced[i]].kind = "terminal"
          /\ Ev[produced[i]].turn = Ev[e].turn

LEMMA SoundIs ==
    ASSUME NEW x \in Sounds
    PROVE  /\ x \in Items /\ x.id \in ToSet(x.body) /\ x.id = x.body[1]
           /\ \A e \in ToSet(x.body) : e \in Events /\ Ev[e] = Ev[x.id]
           /\ \A e, f \in ToSet(x.body) : e = f \/ Ev[x.id].kind = "delta"
<1>1. x \in Items /\ Sound(x)
  BY DEF Sounds
<1>2. x.body \in Seq(Events) /\ x.body # <<>>
  BY <1>1, ItemIs
<1>3. DOMAIN x.body = 1..Len(x.body) /\ Len(x.body) \in Nat /\ Len(x.body) > 0
  BY <1>2, SeqMembers, EmptySeq
<1>4. x.id \in ToSet(x.body)
  BY <1>1, <1>3 DEF Sound, ToSet
<1>5. \A e \in ToSet(x.body) : e \in Events /\ Ev[e] = Ev[x.id]
  BY <1>1, <1>2, SeqMembers DEF Sound, ToSet
<1>6. \A e, f \in ToSet(x.body) : e = f \/ Ev[x.id].kind = "delta"
  <2>1. ASSUME NEW i \in DOMAIN x.body, NEW j \in DOMAIN x.body
        PROVE  x.body[i] = x.body[j] \/ Ev[x.id].kind = "delta"
    <3>1. CASE i = j
      BY <3>1
    <3>2. CASE i # j
      BY <1>1, <1>3, <3>2 DEF Sound
    <3> QED
      BY <3>1, <3>2
  <2> QED
    BY <2>1 DEF ToSet
<1> QED
  BY <1>1, <1>4, <1>5, <1>6 DEF Sound

\* What is refused has cause: its own retry and a later end of its turn are none.
LEMMA RefusedForCause ==
    ASSUME IInv, NEW b, NEW q, Ready(b, q), NEW x \in ToSet(b) \ ToSet(log), RefusedAlone(x),
           NEW e \in ToSet(x.body)
    PROVE  Cause(e)
<1> DEFINE L == ToSet(log)
           y == Cat(Bodies(Without(b, L)), Bodies(q))
<1>1. /\ b \in Seq(Items) /\ q \in Seq(Items) /\ log \in Seq(Items) /\ produced \in Seq(Events)
      /\ ToSet(b) \subseteq Sounds /\ L \subseteq Sounds
  BY Types, SoundSeq, SeqMembers DEF IInv, Ready, Sounded
<1>2. /\ x \in Items /\ x.id \in ToSet(x.body) /\ e \in Events /\ Ev[e] = Ev[x.id]
      /\ \A f \in ToSet(x.body) : f \in Events /\ Ev[f] = Ev[x.id]
      /\ \A f, g \in ToSet(x.body) : f = g \/ Ev[x.id].kind = "delta"
  BY <1>1, SoundIs
<1>3. Accepted = Line(log, b, q) /\ IsInjective(Accepted)
  BY AcceptedOnce DEF IInv, Ready
<1>4. Carried(L) \cap Carried(ToSet(b) \ L) = {}
  BY <1>1, <1>3, LineIs
<1>5. ToSet(x.body) \subseteq Carried(ToSet(b) \ L)
  BY DEF Carried
<1>6. \A i \in DOMAIN log : log[i] \in L /\ log[i].id \in ToSet(log[i].body) /\ log[i].id \in Carried(L)
  <2>1. ASSUME NEW z \in L PROVE z.id \in ToSet(z.body) /\ z.id \in Carried(L)
    BY <1>1, SoundIs DEF Carried
  <2> QED
    BY <2>1 DEF ToSet
<1>7. CASE \E i \in DOMAIN x.body : x.body[i] \in Refusable
  <2>1. PICK f \in ToSet(x.body) : f \in Refusable
    BY <1>7 DEF ToSet
  <2>2. CASE f = e
    BY <2>1, <2>2 DEF Cause
  <2>3. CASE f # e
    <3>1. Ev[f].kind = "delta" /\ Ev[f] = Ev[e] /\ f \in Events
      BY <1>2, <2>3
    <3>2. e \in Refusable
      BY <1>2, <2>1, <3>1, EventAssumption
    <3> QED
      BY <3>2 DEF Cause
  <2> QED
    BY <2>2, <2>3
<1>8. CASE \E i \in DOMAIN log : log[i].id = x.id
  <2>1. x.id \in Carried(L)
    BY <1>6, <1>8
  <2> QED
    BY <2>1, <1>2, <1>4, <1>5
<1>9. CASE TurnEnded(Ev[x.id].turn)
  <2>1. PICK f \in Carried(L) : Ev[f].kind = "terminal" /\ Ev[f].turn = Ev[x.id].turn
    BY <1>6, <1>9 DEF TurnEnded, IsTerminal
  <2>2. Without(b, L) \in Seq(Items) /\ ToSet(Without(b, L)) = ToSet(b) \ L
    BY <1>1, WithoutIs
  <2>3. /\ Bodies(Without(b, L)) \in Seq(Events) /\ Bodies(q) \in Seq(Events)
        /\ Bodies(log) \in Seq(Events)
        /\ e \in ToSet(Bodies(Without(b, L))) /\ f \in ToSet(Bodies(log))
    BY <1>1, <1>5, <2>1, <2>2, BodiesSteps, BodiesHold
  <2>4. y \in Seq(Events) /\ e \in ToSet(y)
    BY <2>3, CatType
  <2>5. Accepted = Cat(Bodies(log), y)
    BY <1>3 DEF Line
  <2> HIDE DEF y
  <2>6. PICK i, j \in DOMAIN Accepted : i < j /\ Accepted[i] = f /\ Accepted[j] = e
    BY <2>3, <2>4, <2>5, CatOrders
  <2>7. \E k, m \in DOMAIN produced : k < m /\ Accepted[i] = produced[k] /\ Accepted[j] = produced[m]
    BY <1>1, <2>6, OnlyEmbeds DEF Accepted
  <2>8. PICK k, m \in DOMAIN produced : k < m /\ f = produced[k] /\ e = produced[m]
    BY <2>6, <2>7
  <2> QED
    BY <1>2, <2>1, <2>8 DEF Cause
<1> QED
  BY <1>7, <1>8, <1>9 DEF RefusedAlone

\* The rest of a write, whatever its caller does next.
Moved(r, q) ==
    /\ log' = r.log /\ published' = r.published
    /\ dropped' = dropped \cup r.refused
    /\ timer' = FALSE /\ pending' = r.keep /\ buffered' = r.keep
    /\ fails' = IF r.end = "failed" THEN fails + 1 ELSE fails
    /\ queued' = q
    /\ produced' = produced /\ lost' = lost /\ silent' = silent

LEMMA FlushKeeps ==
    ASSUME IInv, NEW b, NEW q, Ready(b, q), NEW r \in FlushResults(b), Moved(r, q),
           phase' \in {"idle", "append", "flush", "timer", "direct", "notice"},
           arg' \in Events \cup {None}, notices' \in 0..MaxNotices, Running'
    PROVE  IInv'
<1>1. PICK b1, p, p2, d, F :
         /\ b = Batch(b1, p, p2, d) /\ Ended(r, b1, p, p2, d, F)
         /\ Settling(b1, p, p2, d, log, F)
  BY FlushParts
<1>2. Parts(b1, p, p2, d) /\ Filed(b1, p, p2, d, log, F)
  BY <1>1, RowsAre DEF Settling
<1> DEFINE L == ToSet(log)
           R == Carried(F)
           k == Kept(p, p2, d)
           m == Rows(log, b1, p, p2, F)
<1>3. /\ k \in Seq(Items) /\ ToSet(k) \subseteq ToSet(b)
      /\ F \subseteq ToSet(b) \ L
  <2>1. ToSet(b) = ToSet(b1) \cup ToSet(p) \cup ToSet(p2) \cup ToSet(d)
    BY <1>1, <1>2, BatchParts
  <2>2. k \in Seq(Items) /\ ToSet(k) = ToSet(p) \cup ToSet(p2) \cup ToSet(d)
    BY <1>2, BatchParts
  <2>3. F \subseteq ToSet(b1) \ L
    BY <1>1 DEF Settling
  <2> QED
    BY <2>1, <2>2, <2>3
<1>4. /\ m \in Seq(Items) /\ ToSet(m) \subseteq L \cup ToSet(b)
  <2>1. ToSet(b) = ToSet(b1) \cup ToSet(p) \cup ToSet(p2) \cup ToSet(d)
    BY <1>1, <1>2, BatchParts
  <2>2. m \in Seq(Items) /\ ToSet(m) = L \cup ((ToSet(b1) \ F) \cup ToSet(p) \cup ToSet(p2))
    BY <1>2 DEF Filed
  <2> QED
    BY <2>1, <2>2
<1>5. /\ log' = m /\ pending' = k /\ buffered' = k /\ dropped' = dropped \cup R /\ queued' = q
      /\ produced' = produced /\ lost' = lost /\ silent' = silent
      /\ published' = Cat(published, Cat(Without(b1, F), p))
  BY <1>1 DEF Ended, Moved
<1>6. \A x \in F : RefusedAlone(x)
  BY <1>1 DEF Ended
<1>7. /\ b \in Seq(Items) /\ q \in Seq(Items) /\ log \in Seq(Items) /\ published \in Seq(Items)
      /\ produced \in Seq(Events) /\ dropped \subseteq Events /\ lost \subseteq Events
      /\ ToSet(b) \subseteq Sounds /\ L \subseteq Sounds /\ q \in Seq(Sounds)
  BY Types, SoundSeq, SeqMembers DEF IInv, Ready, Sounded
<1>8. Accepted = Line(log, b, q) /\ IsInjective(Accepted) /\ Voices(log, b, published, silent)
  BY AcceptedOnce DEF IInv, Ready
<1>9. IsInjective(k)
  BY <1>1, BatchApart DEF Settling
<1>10. /\ Line(m, k, q) = Without(Accepted, R) /\ R \subseteq ToSet(Accepted)
  BY <1>1, <1>7, <1>8, SettledLine
<1>11. Voices(m, k, published', silent) /\ published' \in Seq(Items)
  BY <1>1, <1>5, <1>7, <1>8, SettledHeard DEF Voices
<1>12. ToSet(Accepted) \subseteq ToSet(produced) /\ ToSet(produced) \subseteq Events
       /\ Accepted = Without(produced, dropped \cup lost)
  BY <1>7, AcceptedOnce, SeqMembers DEF IInv
<1> HIDE DEF L, R, k, m
<1>13. fails' \in 0..MaxFailures /\ timer' \in BOOLEAN
  <2>1. fails \in 0..MaxFailures
    BY DEF IInv, TypeOK
  <2>2. r.end = "failed" => fails < MaxFailures
    BY <1>1 DEF Ended, CanFail
  <2>3. fails' = (IF r.end = "failed" THEN fails + 1 ELSE fails)
    BY DEF Moved
  <2>4. MaxFailures \in Nat
    BY EventAssumption
  <2>5. fails' \in 0..MaxFailures
    BY <2>1, <2>2, <2>3, <2>4
  <2> QED
    BY <2>5, Zenon DEF Moved
<1>14. TypeOK'
  BY <1>3, <1>4, <1>5, <1>7, <1>10, <1>11, <1>12, <1>13 DEF TypeOK
<1>15. Once'
  BY <1>5, <1>10, <1>12 DEF IInv, Once
<1>16. Frozen'
  <2>1. Without(<<>>, ToSet(m)) = <<>>
    BY EmptyIs, WithoutIs
  <2> QED
    BY <2>1, <1>5, <1>9 DEF Frozen
<1>17. Sounded'
  <2>1. k \in Seq(Sounds) /\ m \in Seq(Sounds)
    BY <1>3, <1>4, <1>7, SeqWithin
  <2> QED
    BY <2>1, <1>5, <1>7 DEF Sounded
<1>18. Lined'
  <2>1. Accepted' = Only(produced, Events \ ((dropped \cup R) \cup lost))
    BY <1>5 DEF Accepted
  <2>2. Accepted' = Without(produced, (dropped \cup R) \cup lost)
    BY <2>1, <1>7, AcceptedIs
  <2>3. (dropped \cup R) \cup lost = (dropped \cup lost) \cup R
    OBVIOUS
  <2>4. Without(Accepted, R) = Without(produced, (dropped \cup lost) \cup R)
    BY <1>7, <1>12, WithoutTwice
  <2>5. Accepted' = Line(m, k, q)
    BY <2>2, <2>3, <2>4, <1>10
  <2>6. Line(m, k, q) = Line(log', buffered', queued')
    BY <1>5
  <2> QED
    BY <2>5, <2>6 DEF Lined
<1>19. Heard'
  BY <1>5, <1>11 DEF Heard
<1>20. DroppedForCause'
  <2>1. \A e \in dropped : Cause(e)
    BY DEF IInv, DroppedForCause, Cause
  <2>2. ASSUME NEW x \in F, NEW e \in ToSet(x.body) PROVE Cause(e)
    BY <1>3, <1>6, RefusedForCause DEF L
  <2>3. \A e \in R : Cause(e)
    BY <2>2 DEF R, Carried
  <2>4. \A e \in dropped' : Cause(e)
    BY <2>1, <2>3, <1>5
  <2> QED
    BY <2>4, <1>5 DEF DroppedForCause, Cause
<1> QED
  BY <1>14, <1>15, <1>16, <1>17, <1>18, <1>19, <1>20 DEF IInv

-----------------------------------------------------------------------------
(* The steps of a call preserve the invariant.                             *)

LEMMA Phases ==
    ASSUME IInv, Throw \/ Stay \/ Return, produced' = produced
    PROVE  /\ phase' \in {"idle", "append", "flush", "timer", "direct", "notice"}
           /\ arg' \in Events \cup {None} /\ notices' \in 0..MaxNotices /\ Running'
<1>1. /\ phase \in {"idle", "append", "flush", "timer", "direct", "notice"}
      /\ arg \in Events \cup {None} /\ notices \in 0..MaxNotices
  BY DEF IInv, TypeOK
<1>2. MaxNotices \in Nat
  BY EventAssumption
<1>3. Running
  BY DEF IInv
<1>4. CASE Throw
  <2>1. phase' = "idle" /\ arg' = None
    BY <1>4 DEF Throw
  <2>2. notices' = (IF phase = "notice" THEN notices + 1 ELSE notices)
    BY <1>4 DEF Throw
  <2>3. phase = "notice" => notices < MaxNotices
    BY <1>3 DEF Running
  <2>4. notices' \in 0..MaxNotices
    BY <1>1, <1>2, <2>2, <2>3
  <2> QED
    BY <2>1, <2>4 DEF Running
<1>5. CASE Stay
  BY <1>1, <1>3, <1>5 DEF Stay, Running
<1>6. CASE Return
  BY <1>1, <1>6 DEF Return, Running
<1> QED
  BY <1>4, <1>5, <1>6

\* One write of a call.
Writes(b, q) ==
    \E r \in FlushResults(b) : Moved(r, q) /\ (Throw \/ Stay \/ Return)

LEMMA WritesKeeps ==
    ASSUME IInv, NEW b, NEW q, Ready(b, q), Writes(b, q)
    PROVE  IInv'
<1>1. PICK r \in FlushResults(b) : Moved(r, q) /\ (Throw \/ Stay \/ Return)
  BY DEF Writes
<1>2. produced' = produced
  BY <1>1 DEF Moved
<1> QED
  BY <1>1, <1>2, Phases, FlushKeeps

LEMMA Disk ==
    ASSUME IInv
    PROVE  /\ log \in Seq(Items) /\ buffered \in Seq(Items) /\ queued \in Seq(Items)
           /\ produced \in Seq(Events) /\ published \in Seq(Items)
           /\ buffered \in Seq(Sounds) /\ queued \in Seq(Sounds) /\ log \in Seq(Sounds)
           /\ Accepted = Line(log, buffered, queued) /\ IsInjective(Accepted)
           /\ Accepted \in Seq(Events)
BY Types, AcceptedOnce DEF IInv, Sounded, Lined

\* With nothing frozen, the buffer is not on disk.
LEMMA Unfrozen ==
    ASSUME IInv, pending = <<>>
    PROVE  /\ Without(buffered, ToSet(log)) = buffered
           /\ Accepted = Cat(Bodies(log), Cat(Bodies(buffered), Bodies(queued)))
BY Disk DEF IInv, Frozen, Line

LEMMA DrainWrites ==
    ASSUME IInv, DrainPending
    PROVE  Ready(pending, queued) /\ Writes(pending, queued)
<1>1. pending # <<>>
  BY DEF DrainPending
<1>2. BatchOf(buffered) = pending
  BY <1>1 DEF BatchOf
<1>3. Writes(pending, queued)
  BY <1>2 DEF DrainPending, flushBuffered, Writes, Moved
<1> QED
  BY <1>1, <1>3, ReadyFrozen

LEMMA BufferWrites ==
    ASSUME IInv, TakeBarrier \/ FlushLast
    PROVE  Ready(coalesceDeltas(buffered), queued) /\ Writes(coalesceDeltas(buffered), queued)
<1>1. pending = <<>>
  BY DEF TakeBarrier, FlushLast, Drained
<1>2. BatchOf(buffered) = coalesceDeltas(buffered)
  BY <1>1 DEF BatchOf
<1>3. Writes(coalesceDeltas(buffered), queued)
  <2>1. CASE TakeBarrier
    BY <2>1, <1>2 DEF TakeBarrier, flushBuffered, Writes, Moved
  <2>2. CASE FlushLast
    BY <2>2, <1>2 DEF FlushLast, flushBuffered, Writes, Moved
  <2> QED
    BY <2>1, <2>2
<1>4. Ready(coalesceDeltas(buffered), queued)
  BY <1>1, Disk, Unfrozen, ReadyFresh
<1> QED
  BY <1>3, <1>4

\* The head of the queue joins the batch.
LEMMA TakenOver ==
    ASSUME IInv, pending = <<>>, queued # <<>>
    PROVE  /\ Append(buffered, queued[1]) \in Seq(Sounds) /\ Tail(queued) \in Seq(Sounds)
           /\ Append(buffered, queued[1]) \in Seq(Items) /\ Tail(queued) \in Seq(Items)
           /\ Accepted = Cat(Bodies(log), Cat(Bodies(Append(buffered, queued[1])), Bodies(Tail(queued))))
           /\ Without(Append(buffered, queued[1]), ToSet(log)) = Append(buffered, queued[1])
<1> DEFINE x == Head(queued)
           o == Pushed(<<>>, x)
           t == Tail(queued)
           items == Pushed(buffered, x)
           L == ToSet(log)
<1>1. x \in Sounds /\ t \in Seq(Sounds) /\ queued = <<x>> \o t /\ x = queued[1]
  BY Disk, OnlyTail, HeadTailProperties
<1>2. o \in Seq(Sounds) /\ o = <<x>> /\ items = Cat(buffered, o) /\ items \in Seq(Sounds)
  BY <1>1, Disk, OneIs, PushedIs
<1>3. queued = Cat(o, t)
  BY <1>1, <1>2 DEF Cat
<1>4. items = Append(buffered, queued[1])
  BY <1>1 DEF Pushed
<1> HIDE DEF x, o, t, items
<1>5. /\ o \in Seq(Items) /\ t \in Seq(Items) /\ items \in Seq(Items)
      /\ ToSet(queued) = ToSet(o) \cup ToSet(t)
  BY <1>1, <1>2, <1>3, SoundSeq, CatType
<1>6. /\ Bodies(queued) = Cat(Bodies(o), Bodies(t)) /\ Bodies(items) = Cat(Bodies(buffered), Bodies(o))
      /\ Bodies(o) \in Seq(Events) /\ Bodies(t) \in Seq(Events) /\ Bodies(buffered) \in Seq(Events)
  BY <1>2, <1>3, <1>5, Disk, BodiesCat, BodiesSteps
<1>7. Cat(Bodies(buffered), Bodies(queued)) = Cat(Bodies(items), Bodies(t))
  BY <1>6, CatAssoc
<1>8. Accepted = Cat(Bodies(log), Cat(Bodies(items), Bodies(t)))
  BY <1>7, Unfrozen
<1>9. Without(items, L) = items
  <2>1. Carried(L) \cap Carried(ToSet(queued)) = {}
    <3>1. IsInjective(Line(log, buffered, queued)) /\ log \in Seq(Items)
          /\ buffered \in Seq(Items) /\ queued \in Seq(Items)
      BY Disk
    <3> QED
      BY <3>1, LineIs
  <2>2. L \subseteq Items
    BY Disk, SeqMembers
  <2>3. L \cap ToSet(queued) = {}
    BY <2>1, <2>2, CarriedApart
  <2>4. L \cap ToSet(o) = {}
    BY <2>3, <1>5
  <2>5. Without(o, L) = o
    BY <2>4, <1>5, WithoutIs
  <2>6. Without(Cat(buffered, o), L) = Cat(Without(buffered, L), Without(o, L))
    BY <1>5, Disk, WithoutCat
  <2> QED
    BY <2>5, <2>6, <1>2, Unfrozen
<1> QED
  BY <1>1, <1>2, <1>4, <1>5, <1>8, <1>9 DEF t

\* take either writes the batch with the event in it, or lets it wait.
TakeWrites == Writes(coalesceDeltas(Append(buffered, queued[1])), Tail(queued))
TakeWaits ==
    /\ queued' = Tail(queued) /\ buffered' = Append(buffered, queued[1])
    /\ timer' = TRUE
    /\ UNCHANGED <<pending, disk, dropped, fails, produced, lost, silent>>
    /\ Stay

LEMMA TakeEither ==
    ASSUME take
    PROVE  pending = <<>> /\ queued # <<>> /\ (TakeWrites \/ TakeWaits)
<1> DEFINE items == Append(buffered, queued[1])
<1>1. /\ pending = <<>> /\ queued # <<>> /\ queued' = Tail(queued)
      /\ produced' = produced /\ lost' = lost /\ silent' = silent
  BY DEF take
<1>2. \/ flushBuffered(items, Throw, Stay)
      \/ /\ buffered' = items /\ timer' = TRUE
         /\ UNCHANGED <<pending, disk, dropped, fails>> /\ Stay
  BY DEF take
<1> HIDE DEF items
<1>3. CASE flushBuffered(items, Throw, Stay)
  <2>1. BatchOf(items) = coalesceDeltas(items)
    BY <1>1 DEF BatchOf
  <2>2. Writes(coalesceDeltas(items), Tail(queued))
    BY <1>1, <1>3, <2>1 DEF flushBuffered, Writes, Moved
  <2> QED
    BY <1>1, <2>2 DEF TakeWrites, items
<1>4. CASE /\ buffered' = items /\ timer' = TRUE
           /\ UNCHANGED <<pending, disk, dropped, fails>> /\ Stay
  BY <1>1, <1>4 DEF TakeWaits, items
<1> QED
  BY <1>2, <1>3, <1>4

LEMMA TakeKeeps ==
    ASSUME IInv, take
    PROVE  IInv'
<1>1. pending = <<>> /\ queued # <<>> /\ (TakeWrites \/ TakeWaits)
  BY TakeEither
<1> DEFINE items == Append(buffered, queued[1])
           t == Tail(queued)
<1>2. /\ items \in Seq(Sounds) /\ t \in Seq(Sounds) /\ items \in Seq(Items) /\ t \in Seq(Items)
      /\ Accepted = Cat(Bodies(log), Cat(Bodies(items), Bodies(t)))
      /\ Without(items, ToSet(log)) = items
  BY <1>1, TakenOver
<1>3. CASE TakeWrites
  <2> HIDE DEF items, t
  <2>1. Ready(coalesceDeltas(items), t)
    BY <1>1, <1>2, ReadyFresh
  <2> QED
    BY <1>3, <2>1, WritesKeeps DEF TakeWrites, items, t
<1>4. CASE TakeWaits
  <2>1. /\ queued' = t /\ buffered' = items /\ timer' = TRUE /\ pending' = pending
        /\ log' = log /\ published' = published /\ dropped' = dropped /\ fails' = fails
        /\ produced' = produced /\ lost' = lost /\ silent' = silent /\ Stay
    BY <1>4 DEF TakeWaits, disk
  <2> HIDE DEF items, t
  <2>2. /\ phase' \in {"idle", "append", "flush", "timer", "direct", "notice"}
        /\ arg' \in Events \cup {None} /\ notices' \in 0..MaxNotices /\ Running'
    BY <2>1, Phases
  <2>3. TypeOK'
    BY <1>1, <1>2, <2>1, <2>2 DEF IInv, TypeOK
  <2>4. Once'
    BY <2>1 DEF IInv, Once
  <2>5. Frozen'
    BY <1>1, <1>2, <2>1 DEF Frozen
  <2>6. Sounded'
    BY <1>2, <2>1, Disk DEF Sounded
  <2>7. Lined'
    <3>1. Accepted' = Accepted
      BY <2>1 DEF Accepted
    <3>2. Line(log', buffered', queued') = Line(log, items, t)
      BY <2>1
    <3>3. Line(log, items, t) = Accepted
      BY <1>2 DEF Line
    <3> QED
      BY <3>1, <3>2, <3>3 DEF Lined
  <2>8. Heard'
    BY <2>1 DEF IInv, Heard
  <2>9. DroppedForCause'
    BY <2>1 DEF IInv, DroppedForCause
  <2> QED
    BY <2>2, <2>3, <2>4, <2>5, <2>6, <2>7, <2>8, <2>9 DEF IInv
<1> QED
  BY <1>1, <1>3, <1>4

\* Steps that move only the calls.
Idles ==
    /\ UNCHANGED <<queued, buffered, pending, log, published, fails>>
    /\ UNCHANGED <<produced, dropped, lost, silent>>
    /\ timer' \in BOOLEAN

LEMMA IdlesKeeps ==
    ASSUME IInv, Idles,
           phase' \in {"idle", "append", "flush", "timer", "direct", "notice"},
           arg' \in Events \cup {None}, notices' \in 0..MaxNotices, Running'
    PROVE  IInv'
<1>1. /\ queued' = queued /\ buffered' = buffered /\ pending' = pending /\ log' = log
      /\ published' = published /\ fails' = fails /\ produced' = produced
      /\ dropped' = dropped /\ lost' = lost /\ silent' = silent /\ timer' \in BOOLEAN
  BY DEF Idles
<1>2. TypeOK'
  BY <1>1 DEF IInv, TypeOK
<1>3. Once' /\ Frozen' /\ Sounded'
  BY <1>1 DEF IInv, Once, Frozen, Sounded
<1>4. Lined' /\ Heard'
  BY <1>1 DEF IInv, Lined, Heard, Accepted
<1>5. DroppedForCause'
  BY <1>1 DEF IInv, DroppedForCause
<1> QED
  BY <1>2, <1>3, <1>4, <1>5 DEF IInv

LEMMA EndsKeep ==
    ASSUME IInv, EndAppend \/ EndFlush \/ EndNotice
    PROVE  IInv'
<1>1. Idles /\ (Throw \/ Return)
  <2>1. timer \in BOOLEAN
    BY DEF IInv, TypeOK
  <2> QED
    BY <2>1 DEF EndAppend, EndFlush, EndNotice, Idles, memory, disk, history
<1>2. produced' = produced
  BY <1>1 DEF Idles
<1> QED
  BY <1>1, <1>2, Phases, IdlesKeeps

LEMMA FlushAllKeeps ==
    ASSUME IInv, flushAll \/ TimerFires \/ publishTransient
    PROVE  IInv'
<1>1. /\ phase \in {"idle", "append", "flush", "timer", "direct", "notice"} /\ timer \in BOOLEAN
      /\ arg \in Events \cup {None} /\ notices \in 0..MaxNotices
  BY DEF IInv, TypeOK
<1>2. Idles
  BY <1>1 DEF flushAll, TimerFires, publishTransient, Idles, memory, disk, history
<1>3. notices' = notices /\ produced' = produced /\ arg' = arg
  BY DEF flushAll, TimerFires, publishTransient, history
<1>4. \/ phase' = "flush"
      \/ phase' = "timer"
      \/ phase' = "notice" /\ notices < MaxNotices
  BY DEF flushAll, TimerFires, publishTransient, Begin
<1>5. Running'
  BY <1>3, <1>4 DEF Running
<1>6. /\ phase' \in {"idle", "append", "flush", "timer", "direct", "notice"}
      /\ arg' \in Events \cup {None} /\ notices' \in 0..MaxNotices
  BY <1>1, <1>3, <1>4
<1> QED
  BY <1>2, <1>5, <1>6, IdlesKeeps

LEMMA AtomicKeeps ==
    ASSUME IInv, NEW e \in {f \in New : Ev[f].kind # "delta"}, appendAtomic(e)
    PROVE  IInv'
<1>1. /\ timer \in BOOLEAN /\ arg \in Events \cup {None} /\ notices \in 0..MaxNotices
  BY DEF IInv, TypeOK
<1>2. Idles /\ notices' = notices /\ produced' = produced /\ phase' = "direct" /\ arg' = e
  BY <1>1 DEF appendAtomic, Begin, Idles, memory, disk, history
<1>3. e \in Events /\ e \notin ToSet(produced) /\ Ev[e].kind # "delta"
  BY DEF New
<1>4. Running'
  BY <1>2, <1>3 DEF Running
<1> QED
  BY <1>1, <1>2, <1>3, <1>4, IdlesKeeps

-----------------------------------------------------------------------------
(* New events, direct writes and kills preserve the invariant.             *)

LEMMA OneItem ==
    ASSUME NEW e \in Events
    PROVE  /\ Item(e) \in Sounds /\ Item(e) \in Items /\ Item(e).body = Pushed(<<>>, e)
           /\ Bodies(<<Item(e)>>) = <<e>> /\ Carried({Item(e)}) = {e}
           /\ \A s \in Seq(Items) : Bodies(Pushed(s, Item(e))) = Pushed(Bodies(s), e)
<1>1. Item(e).id = e /\ Item(e).body = <<e>>
  BY DEF Item
<1>2. /\ <<e>> \in Seq(Events) /\ <<e>> # <<>> /\ ToSet(<<e>>) = {e} /\ <<e>> = Pushed(<<>>, e)
      /\ Len(<<e>>) = 1 /\ DOMAIN <<e>> = {1} /\ <<e>>[1] = e
  <2>1. <<e>> = Pushed(<<>>, e) /\ <<e>> \in Seq(Events) /\ ToSet(<<e>>) = {e}
    BY OneIs
  <2> QED
    BY <2>1
<1>3. Item(e) \in Items
  BY <1>2 DEF Item, Items
<1>4. Sound(Item(e))
  BY <1>1, <1>2 DEF Sound
<1>5. \A s \in Seq(Items) : Bodies(Pushed(s, Item(e))) = Pushed(Bodies(s), e)
  <2>1. ASSUME NEW s \in Seq(Items) PROVE Bodies(Pushed(s, Item(e))) = Pushed(Bodies(s), e)
    <3>1. Bodies(s) \in Seq(Events) /\ Bodies(Pushed(s, Item(e))) = Cat(Bodies(s), <<e>>)
      BY <1>1, <1>3, BodiesSteps
    <3> QED
      BY <3>1, <1>2, OneIs
  <2> QED
    BY <2>1
<1>6. Bodies(<<Item(e)>>) = <<e>>
  <2>1. Pushed(<<>>, Item(e)) = <<Item(e)>> /\ <<>> \in Seq(Items) /\ Bodies(<<>>) = <<>>
    BY <1>3, OneIs, EmptyIs, BodiesSteps
  <2> QED
    BY <2>1, <1>2, <1>5
<1>7. Carried({Item(e)}) = {e}
  BY <1>1, <1>2 DEF Carried
<1> QED
  BY <1>1, <1>2, <1>3, <1>4, <1>5, <1>6, <1>7 DEF Sounds

\* A new event ends the line of what is accepted.
LEMMA NewAccepted ==
    ASSUME IInv, NEW e \in Events, e \notin ToSet(produced), produced' = Pushed(produced, e),
           dropped' = dropped, lost' = lost
    PROVE  /\ produced' \in Seq(Events) /\ Once' /\ Accepted' = Pushed(Accepted, e)
           /\ DroppedForCause' /\ e \notin ToSet(Accepted)
<1>1. /\ produced \in Seq(Events) /\ IsInjective(produced)
      /\ dropped \subseteq ToSet(produced) /\ lost \subseteq ToSet(produced)
  BY Disk DEF IInv, Once
<1>2. /\ Pushed(produced, e) \in Seq(Events)
      /\ ToSet(Pushed(produced, e)) = ToSet(produced) \cup {e}
      /\ IsInjective(Pushed(produced, e))
  BY <1>1, PushedIs, InjectivePushed
<1>3. Once'
  BY <1>1, <1>2 DEF Once
<1>4. Only(Pushed(produced, e), Events \ (dropped \cup lost))
         = Pushed(Only(produced, Events \ (dropped \cup lost)), e)
  BY <1>1, OnlyPushed
<1>5. Accepted' = Pushed(Accepted, e)
  BY <1>4 DEF Accepted
<1>6. \A i \in DOMAIN produced : i \in DOMAIN produced' /\ produced'[i] = produced[i]
  BY <1>1, AppendProperties DEF Pushed
<1>7. DroppedForCause'
  <2>1. ASSUME NEW c \in dropped
        PROVE  \/ c \in Refusable
               \/ \E i, j \in DOMAIN produced' :
                     /\ i < j
                     /\ produced'[j] = c
                     /\ Ev[produced'[i]].kind = "terminal"
                     /\ Ev[produced'[i]].turn = Ev[c].turn
    <3>1. CASE c \in Refusable
      BY <3>1
    <3>2. CASE \E i, j \in DOMAIN produced :
                  /\ i < j
                  /\ produced[j] = c
                  /\ Ev[produced[i]].kind = "terminal"
                  /\ Ev[produced[i]].turn = Ev[c].turn
      <4>1. PICK i, j \in DOMAIN produced :
               /\ i < j
               /\ produced[j] = c
               /\ Ev[produced[i]].kind = "terminal"
               /\ Ev[produced[i]].turn = Ev[c].turn
        BY <3>2
      <4>2. /\ i \in DOMAIN produced' /\ produced'[i] = produced[i]
            /\ j \in DOMAIN produced' /\ produced'[j] = produced[j]
        BY <1>6
      <4> QED
        BY <4>1, <4>2
    <3> QED
      BY <3>1, <3>2 DEF IInv, DroppedForCause
  <2> QED
    <3>1. dropped' = dropped
      OBVIOUS
    <3> QED
      BY <2>1, <3>1 DEF DroppedForCause
<1>8. e \notin ToSet(Accepted)
  BY AcceptedOnce DEF IInv
<1> QED
  BY <1>2, <1>3, <1>5, <1>7, <1>8

LEMMA AppendKeeps ==
    ASSUME IInv, NEW e \in New, append(e)
    PROVE  IInv'
<1>1. e \in Events /\ e \notin ToSet(produced)
  BY DEF New
<1>2. /\ queued' = Pushed(queued, Item(e)) /\ produced' = Pushed(produced, e)
      /\ buffered' = buffered /\ pending' = pending /\ timer' = timer /\ arg' = arg
      /\ log' = log /\ published' = published /\ notices' = notices /\ fails' = fails
      /\ dropped' = dropped /\ lost' = lost /\ silent' = silent /\ phase' = "append"
  BY DEF append, Begin, Pushed, disk
<1>3. /\ produced' \in Seq(Events) /\ Once' /\ Accepted' = Pushed(Accepted, e)
      /\ DroppedForCause'
  BY <1>1, <1>2, NewAccepted
<1>4. queued' \in Seq(Sounds) /\ queued' \in Seq(Items)
  BY <1>1, <1>2, Disk, OneItem, PushedIs
<1>5. TypeOK'
  BY <1>2, <1>3, <1>4 DEF IInv, TypeOK
<1>6. Running' /\ Frozen' /\ Sounded' /\ Heard'
  BY <1>2, <1>4 DEF IInv, Running, Frozen, Sounded, Heard
<1>7. Lined'
  <2> DEFINE u == Without(buffered, ToSet(log))
             x == Bodies(log)
             y == Bodies(u)
             z == Bodies(queued)
  <2>1. u \in Seq(Items)
    BY Disk, WithoutIs
  <2>2. x \in Seq(Events) /\ y \in Seq(Events) /\ z \in Seq(Events)
    BY <2>1, Disk, BodiesSteps
  <2>3. Bodies(queued') = Pushed(z, e)
    BY <1>1, <1>2, Disk, OneItem
  <2>4. Accepted = Cat(x, Cat(y, z))
    BY Disk DEF Line
  <2>5. Line(log', buffered', queued') = Cat(x, Cat(y, Pushed(z, e)))
    BY <1>2, <2>3 DEF Line
  <2> HIDE DEF u, x, y, z
  <2>6. Cat(y, Pushed(z, e)) = Pushed(Cat(y, z), e) /\ Cat(y, z) \in Seq(Events)
    BY <1>1, <2>2, CatIs
  <2>7. Cat(x, Pushed(Cat(y, z), e)) = Pushed(Cat(x, Cat(y, z)), e)
    BY <1>1, <2>2, <2>6, CatIs
  <2> QED
    BY <1>3, <2>4, <2>5, <2>6, <2>7 DEF Lined
<1> QED
  BY <1>3, <1>5, <1>6, <1>7 DEF IInv

\* The rows of a direct write, and what is heard of it: all of it, or none.
LEMMA OneHeard ==
    ASSUME NEW l \in Seq(Items), NEW pub \in Seq(Items), NEW Z, Voices(l, <<>>, pub, Z),
           NEW x \in Items, x \notin ToSet(l)
    PROVE  /\ Voices(Pushed(l, x), <<>>, Pushed(pub, x), Z)
           /\ Voices(Pushed(l, x), <<>>, pub, Z \cup {x})
<1> DEFINE o == Pushed(<<>>, x)
           rows == Without(l, Z)
           h == FirstOf(Without(pub, Z))
<1>0. <<>> \in Seq(Items) /\ ToSet(<<>>) = {} /\ \A U : Without(<<>>, U) = <<>>
  <2>1. <<>> \in Seq(Items) /\ ToSet(<<>>) = {}
    BY EmptyIs
  <2>2. ASSUME NEW U PROVE Without(<<>>, U) = <<>>
    BY <2>1, WithoutIs
  <2> QED
    BY <2>1, <2>2
<1>1. /\ o \in Seq(Items) /\ ToSet(o) = {x} /\ Pushed(l, x) = Cat(l, o)
      /\ Pushed(pub, x) = Cat(pub, o) /\ IsInjective(o)
  BY OneIs
<1>2. /\ Z \subseteq ToSet(l) /\ ToSet(pub) \subseteq ToSet(l)
      /\ Cat(rows, <<>>) = Cat(h, <<>>)
  BY <1>0 DEF Voices
<1>3. rows \in Seq(Items) /\ Without(pub, Z) \in Seq(Items) /\ ToSet(Without(pub, Z)) = ToSet(pub) \ Z
  BY WithoutIs
<1>4. h \in Seq(Items)
  BY <1>3, FirstOfHolds
<1>5. rows = h
  <2>1. Cat(rows, <<>>) = rows
    BY <1>3, CatIs
  <2>2. Cat(h, <<>>) = h
    BY <1>4, CatIs
  <2> QED
    BY <1>2, <2>1, <2>2
<1> HIDE DEF o
<1>6. ToSet(Cat(l, o)) = ToSet(l) \cup {x} /\ ToSet(Cat(pub, o)) = ToSet(pub) \cup {x}
  BY <1>1, CatType
<1>7. Without(o, Z) = o /\ Without(o, Z \cup {x}) = <<>>
  <2>1. ToSet(o) \cap Z = {} /\ ToSet(o) \subseteq Z \cup {x}
    BY <1>1, <1>2
  <2>2. Without(o, Z) = o
    BY <1>1, <2>1, WithoutIs
  <2>3. Without(o, Z \cup {x}) = <<>>
    BY <1>1, <2>1, WithoutIs
  <2> QED
    BY <2>2, <2>3
<1>8. Voices(Cat(l, o), <<>>, Cat(pub, o), Z)
  <2>1. Without(Cat(l, o), Z) = Cat(rows, o) /\ Without(Cat(pub, o), Z) = Cat(Without(pub, Z), o)
    BY <1>1, <1>7, WithoutCat
  <2>2. FirstOf(Cat(Without(pub, Z), o)) = Cat(h, Without(o, ToSet(Without(pub, Z))))
    BY <1>1, <1>3, FirstOfCat
  <2>3. ToSet(o) \cap ToSet(Without(pub, Z)) = {}
    BY <1>1, <1>2, <1>3
  <2>4. Without(o, ToSet(Without(pub, Z))) = o
    BY <1>1, <2>3, WithoutIs
  <2> HIDE DEF rows, h
  <2>5. FirstOf(Without(Cat(pub, o), Z)) = Without(Cat(l, o), Z)
    BY <2>1, <2>2, <2>4, <1>5
  <2>6. Z \subseteq ToSet(Cat(l, o)) /\ ToSet(Cat(pub, o)) \subseteq ToSet(Cat(l, o))
    BY <1>2, <1>6
  <2> QED
    BY <1>0, <2>5, <2>6 DEF Voices
<1>9. Voices(Cat(l, o), <<>>, pub, Z \cup {x})
  <2>1. Without(Cat(l, o), Z \cup {x}) = Cat(Without(l, Z \cup {x}), <<>>)
    BY <1>1, <1>7, WithoutCat
  <2>2. ToSet(l) \ (Z \cup {x}) = ToSet(l) \ Z /\ ToSet(pub) \ (Z \cup {x}) = ToSet(pub) \ Z
    BY <1>2
  <2>3. Without(l, Z \cup {x}) = rows
    BY <2>2, WithoutAgrees
  <2>4. Without(pub, Z \cup {x}) = Without(pub, Z)
    BY <2>2, WithoutAgrees
  <2>5. Cat(rows, <<>>) = rows
    BY <1>3, CatIs
  <2> HIDE DEF rows, h
  <2>6. Without(Cat(l, o), Z \cup {x}) = FirstOf(Without(pub, Z \cup {x}))
    BY <2>1, <2>3, <2>4, <2>5, <1>5 DEF h
  <2>7. Z \cup {x} \subseteq ToSet(Cat(l, o)) /\ ToSet(pub) \subseteq ToSet(Cat(l, o))
    BY <1>2, <1>6
  <2> QED
    BY <1>0, <2>6, <2>7 DEF Voices
<1> QED
  BY <1>1, <1>8, <1>9

\* A direct write: refused or failed it leaves no trace; committed, it is
\* published, or silent.
DirectNot ==
    /\ log' = log /\ published' = published /\ produced' = produced /\ silent' = silent
    /\ fails' \in 0..MaxFailures
DirectDone ==
    /\ log' = Pushed(log, Item(arg)) /\ produced' = Pushed(produced, arg)
    /\ \/ published' = Pushed(published, Item(arg)) /\ silent' = silent
       \/ published' = published /\ silent' = silent \cup {Item(arg)}
    /\ fails' \in 0..MaxFailures

LEMMA DirectEither ==
    ASSUME IInv, WriteDirect
    PROVE  /\ arg \in Events /\ arg \notin ToSet(produced)
           /\ Item(arg) \in Items /\ Item(arg) \notin ToSet(log)
           /\ pending = <<>> /\ queued = <<>> /\ buffered = <<>>
           /\ Accepted = Bodies(log) /\ Return
           /\ timer' = FALSE /\ UNCHANGED <<queued, buffered, pending, dropped, lost>>
           /\ DirectNot \/ DirectDone
<1>1. /\ arg \in Events /\ arg \notin ToSet(produced)
      /\ pending = <<>> /\ queued = <<>> /\ buffered = <<>> /\ Return
      /\ timer' = FALSE /\ UNCHANGED <<queued, buffered, pending, dropped, lost>>
  BY DEF IInv, Running, WriteDirect, Drained
<1> DEFINE x == Item(arg)
           w == <<x>>
<1>2. x \in Items /\ Carried({x}) = {arg}
  BY <1>1, OneItem
<1>3. <<>> \in Seq(Items) /\ <<>> \in Seq(Events) /\ Bodies(<<>>) = <<>> /\ ToSet(<<>>) = {}
  BY EmptyIs, BodiesSteps
<1>4. log \in Seq(Items) /\ Bodies(log) \in Seq(Events) /\ published \in Seq(Items)
  BY Disk, BodiesSteps
<1>5. Accepted = Bodies(log)
  <2>1. Accepted = Cat(Bodies(log), Cat(<<>>, <<>>))
    BY <1>1, <1>3, Unfrozen
  <2> QED
    BY <2>1, <1>3, <1>4, CatIs
<1>6. x \notin ToSet(log)
  <2>1. ToSet(Bodies(log)) \subseteq ToSet(produced)
    BY <1>5, AcceptedOnce DEF IInv
  <2>2. ToSet(Bodies(log)) = Carried(ToSet(log))
    BY <1>4, BodiesHold
  <2>3. ASSUME x \in ToSet(log) PROVE arg \in Carried(ToSet(log))
    BY <1>2, <2>3 DEF Carried
  <2> QED
    BY <1>1, <2>1, <2>2, <2>3
<1>7. w \in Seq(Items) /\ ToSet(w) = {x} /\ w = Pushed(<<>>, x) /\ Len(w) = 1
  <2>1. w \in Seq(Items) /\ ToSet(w) = {x} /\ w = Pushed(<<>>, x)
    BY <1>2, OneIs
  <2> QED
    BY <2>1
<1>8. fails \in 0..MaxFailures /\ MaxFailures \in Nat
  <2>1. fails \in 0..MaxFailures
    BY DEF IInv, TypeOK
  <2> QED
    BY <2>1, EventAssumption
<1>9. CASE RefusedWhole(w)
  <2>1. UNCHANGED <<disk, fails, produced, silent>>
    BY <1>9 DEF WriteDirect
  <2> QED
    BY <2>1, <1>1, <1>2, <1>5, <1>6, <1>8 DEF DirectNot, disk
<1>10. CASE ~RefusedWhole(w)
  <2>1. PICK a \in Attempts(w) :
           /\ log' = a.log
           /\ published' = a.published
           /\ fails' = IF a.end = "failed" THEN fails + 1 ELSE fails
           /\ produced' = IF a.log = log THEN produced ELSE Append(produced, arg)
           /\ silent' = IF a.log # log /\ a.end = "failed" THEN silent \cup {x} ELSE silent
    BY <1>10 DEF WriteDirect
  <2>2. Written(w) = Pushed(log, x) /\ Written(w) # log
    <3>1. ToSet(w) \cap ToSet(log) = {}
      BY <1>6, <1>7
    <3>2. Without(w, ToSet(log)) = w
      BY <3>1, <1>7, WithoutIs
    <3>3. Written(w) = Cat(log, w) /\ Cat(log, w) = Pushed(log, x)
      BY <3>2, <1>2, <1>4, <1>7, UnwrittenIs, OneIs
    <3>4. ToSet(Pushed(log, x)) = ToSet(log) \cup {x}
      BY <1>2, <1>4, PushedIs
    <3> QED
      BY <3>3, <3>4, <1>6
  <2>3. \/ a = [log |-> Written(w), published |-> published \o w, end |-> "ok"]
        \/ CanFail /\ a = [log |-> log, published |-> published, end |-> "failed"]
        \/ /\ CanFail
           /\ \E n \in 0..(Len(w) - 1) :
                 a = [log |-> Written(w), published |-> published \o SubSeq(w, 1, n),
                      end |-> "failed"]
    BY <2>1 DEF Attempts
  <2>4. CASE a = [log |-> Written(w), published |-> published \o w, end |-> "ok"]
    <3>1. a.log = Written(w) /\ a.published = Cat(published, w) /\ a.end = "ok"
      BY <2>4 DEF Cat
    <3>2. a.published = Pushed(published, x)
      BY <3>1, <1>2, <1>4, <1>7, OneIs
    <3>3. DirectDone
      BY <1>8, <2>1, <2>2, <3>1, <3>2 DEF DirectDone, Pushed
    <3> QED
      BY <3>3, <1>1, <1>2, <1>5, <1>6
  <2>5. CASE CanFail /\ a = [log |-> log, published |-> published, end |-> "failed"]
    <3>1. a.log = log /\ a.published = published /\ a.end = "failed" /\ fails < MaxFailures
      BY <2>5 DEF CanFail
    <3>2. fails' \in 0..MaxFailures
      BY <3>1, <2>1, <1>8
    <3>3. DirectNot
      BY <2>1, <3>1, <3>2 DEF DirectNot
    <3> QED
      BY <3>3, <1>1, <1>2, <1>5, <1>6
  <2>6. CASE /\ CanFail
             /\ \E n \in 0..(Len(w) - 1) :
                   a = [log |-> Written(w), published |-> published \o SubSeq(w, 1, n),
                        end |-> "failed"]
    <3>1. PICK n \in 0..(Len(w) - 1) :
             a = [log |-> Written(w), published |-> published \o SubSeq(w, 1, n), end |-> "failed"]
      BY <2>6
    <3>2. n = 0
      BY <1>7
    <3>3. SubSeq(w, 1, n) = <<>>
      BY <3>2, <1>7, EmptySeq, SubSeqProperties
    <3>4. a.log = Written(w) /\ a.published = Cat(published, <<>>) /\ a.end = "failed" /\ fails < MaxFailures
      BY <2>6, <3>1, <3>3 DEF CanFail, Cat
    <3>5. a.published = published
      BY <3>4, <1>3, <1>4, CatIs
    <3>6. fails' \in 0..MaxFailures
      BY <3>4, <2>1, <1>8
    <3>7. DirectDone
      BY <2>1, <2>2, <3>4, <3>5, <3>6 DEF DirectDone, Pushed
    <3> QED
      BY <3>7, <1>1, <1>2, <1>5, <1>6
  <2> QED
    BY <2>3, <2>4, <2>5, <2>6
<1> QED
  BY <1>9, <1>10

LEMMA DirectKeeps ==
    ASSUME IInv, WriteDirect
    PROVE  IInv'
<1>1. /\ arg \in Events /\ arg \notin ToSet(produced)
      /\ Item(arg) \in Items /\ Item(arg) \notin ToSet(log)
      /\ pending = <<>> /\ queued = <<>> /\ buffered = <<>>
      /\ Accepted = Bodies(log) /\ Return
      /\ timer' = FALSE /\ queued' = <<>> /\ buffered' = <<>> /\ pending' = <<>>
      /\ dropped' = dropped /\ lost' = lost /\ (DirectNot \/ DirectDone)
  BY DirectEither
<1> DEFINE x == Item(arg)
<1>2. /\ phase' = "idle" /\ arg' = None /\ notices' = notices
  BY <1>1 DEF Return
<1>3. Running'
  BY <1>2 DEF Running
<1>4. /\ phase' \in {"idle", "append", "flush", "timer", "direct", "notice"}
      /\ arg' \in Events \cup {None} /\ notices' \in 0..MaxNotices
  BY <1>2 DEF IInv, TypeOK
<1>5. CASE DirectNot
  <2>0. timer' \in BOOLEAN
    BY <1>1
  <2>1. /\ log' = log /\ published' = published /\ produced' = produced /\ silent' = silent
        /\ fails' \in 0..MaxFailures /\ queued' = queued /\ buffered' = buffered /\ pending' = pending
        /\ dropped' = dropped /\ lost' = lost
    BY <1>1, <1>5 DEF DirectNot
  <2>2. TypeOK'
    BY <2>0, <2>1, <1>4 DEF IInv, TypeOK
  <2>3. Once' /\ Frozen' /\ Sounded'
    BY <2>1 DEF IInv, Once, Frozen, Sounded
  <2>4. Lined' /\ Heard'
    BY <2>1 DEF IInv, Lined, Heard, Accepted
  <2>5. DroppedForCause'
    BY <2>1 DEF IInv, DroppedForCause
  <2> QED
    BY <1>3, <2>2, <2>3, <2>4, <2>5 DEF IInv
<1>6. CASE DirectDone
  <2>1. /\ log' = Pushed(log, x) /\ produced' = Pushed(produced, arg)
        /\ \/ published' = Pushed(published, x) /\ silent' = silent
           \/ published' = published /\ silent' = silent \cup {x}
        /\ fails' \in 0..MaxFailures
    BY <1>6 DEF DirectDone
  <2>2. /\ produced' \in Seq(Events) /\ Once' /\ Accepted' = Pushed(Accepted, arg)
        /\ DroppedForCause'
    BY <1>1, <2>1, NewAccepted
  <2>3. /\ x \in Sounds /\ log \in Seq(Items) /\ log \in Seq(Sounds) /\ published \in Seq(Items)
        /\ Bodies(Pushed(log, x)) = Pushed(Bodies(log), arg)
    BY <1>1, OneItem, Disk
  <2>4. log' \in Seq(Items) /\ log' \in Seq(Sounds) /\ published' \in Seq(Items)
    <3>1. Pushed(log, x) \in Seq(Items) /\ Pushed(published, x) \in Seq(Items)
      BY <1>1, <2>3, PushedIs
    <3>2. Pushed(log, x) \in Seq(Sounds)
      BY <2>3, PushedIs
    <3> QED
      BY <2>1, <2>3, <3>1, <3>2
  <2>5. /\ <<>> \in Seq(Items) /\ <<>> \in Seq(Sounds) /\ <<>> \in Seq(Events)
        /\ Bodies(<<>>) = <<>> /\ ToSet(<<>>) = {}
    BY EmptyIs, BodiesSteps
  <2>6. Without(<<>>, ToSet(log')) = <<>>
    BY <2>5, WithoutIs
  <2>7. timer' \in BOOLEAN
    BY <1>1
  <2>8. TypeOK'
    <3>1. /\ queued' \in Seq(Items) /\ buffered' \in Seq(Items) /\ pending' \in Seq(Items)
          /\ log' \in Seq(Items) /\ published' \in Seq(Items) /\ pending' = <<>>
      BY <1>1, <2>4, <2>5
    <3>2. dropped' \subseteq Events /\ lost' \subseteq Events
      BY <1>1 DEF IInv, TypeOK
    <3> QED
      BY <1>4, <2>1, <2>2, <2>7, <3>1, <3>2 DEF TypeOK
  <2>9. Frozen' /\ Sounded'
    BY <1>1, <2>4, <2>5, <2>6 DEF Frozen, Sounded
  <2>10. Lined'
    <3>1. Bodies(log') \in Seq(Events) /\ Bodies(log') = Accepted'
      BY <1>1, <2>1, <2>2, <2>3, <2>4, BodiesSteps
    <3>2. Line(log', buffered', queued') = Cat(Bodies(log'), Cat(<<>>, <<>>))
      BY <1>1, <2>5, <2>6 DEF Line
    <3>3. Cat(<<>>, <<>>) = <<>> /\ Cat(Bodies(log'), <<>>) = Bodies(log')
      BY <2>5, <3>1, CatIs
    <3> QED
      BY <3>1, <3>2, <3>3 DEF Lined
  <2>11. Heard'
    <3>1. Voices(log, <<>>, published, silent)
      BY <1>1 DEF IInv, Heard
    <3> HIDE DEF x
    <3>2. /\ Voices(Pushed(log, x), <<>>, Pushed(published, x), silent)
          /\ Voices(Pushed(log, x), <<>>, published, silent \cup {x})
      BY <1>1, <2>3, <3>1, OneHeard DEF x
    <3>3. Voices(log', pending', published', silent')
      BY <1>1, <2>1, <3>2
    <3> QED
      BY <3>3 DEF Heard
  <2> QED
    BY <1>3, <2>2, <2>8, <2>9, <2>10, <2>11 DEF IInv
<1> QED
  BY <1>1, <1>5, <1>6

\* A kill takes the line's tail, and nothing that is on disk.
LEMMA CrashKeeps ==
    ASSUME IInv, Crash
    PROVE  IInv' /\ Accepted' = Bodies(log)
<1> DEFINE L == ToSet(log)
           u == Without(buffered, L)
           x == Bodies(log)
           y == Bodies(u)
           z == Bodies(queued)
           X == ToSet(Bodies(buffered \o queued)) \ ToSet(x)
<1>1. /\ phase' = "idle" /\ arg' = None /\ lost' = lost \cup X
      /\ queued' = <<>> /\ buffered' = <<>> /\ pending' = <<>> /\ timer' = FALSE
      /\ published' = log /\ silent' = {} /\ log' = log /\ notices' = notices /\ fails' = fails
      /\ produced' = produced /\ dropped' = dropped
  BY DEF Crash
<1>2. /\ log \in Seq(Items) /\ buffered \in Seq(Items) /\ queued \in Seq(Items)
      /\ log \in Seq(Sounds) /\ produced \in Seq(Events)
      /\ Accepted = Line(log, buffered, queued) /\ IsInjective(Accepted)
  BY Disk
<1>3. u \in Seq(Items) /\ ToSet(u) = ToSet(buffered) \ L
  BY <1>2, WithoutIs
<1>4. /\ x \in Seq(Events) /\ y \in Seq(Events) /\ z \in Seq(Events)
      /\ ToSet(x) = Carried(L) /\ ToSet(y) = Carried(ToSet(buffered) \ L)
      /\ ToSet(z) = Carried(ToSet(queued))
  BY <1>2, <1>3, BodiesSteps, BodiesHold
<1>5. /\ ToSet(x) \cap ToSet(y) = {} /\ ToSet(x) \cap ToSet(z) = {} /\ IsInjective(x)
  <2>1. IsInjective(Line(log, buffered, queued))
    BY <1>2
  <2>2. /\ IsInjective(Bodies(log))
        /\ Carried(ToSet(log)) \cap Carried(ToSet(buffered) \ ToSet(log)) = {}
        /\ Carried(ToSet(log)) \cap Carried(ToSet(queued)) = {}
    <3>1. log \in Seq(Items) /\ buffered \in Seq(Items) /\ queued \in Seq(Items)
      BY <1>2
    <3> QED
      BY <2>1, <3>1, LineIs
  <2> QED
    BY <2>2, <1>4
<1>6. X = ToSet(y) \cup ToSet(z)
  <2>1. Cat(buffered, queued) \in Seq(Items)
        /\ ToSet(Cat(buffered, queued)) = ToSet(buffered) \cup ToSet(queued)
    BY <1>2, CatType
  <2>2. ToSet(Bodies(Cat(buffered, queued))) = Carried(ToSet(buffered) \cup ToSet(queued))
    BY <2>1, BodiesHold
  <2>3. Carried(ToSet(buffered) \cup ToSet(queued)) \ Carried(L)
           = (Carried(ToSet(buffered) \ L) \cup Carried(ToSet(queued))) \ Carried(L)
    BY DEF Carried
  <2>4. ToSet(Bodies(buffered \o queued)) = Carried(ToSet(buffered) \cup ToSet(queued))
    BY <2>2 DEF Cat
  <2> QED
    BY <2>3, <2>4, <1>4, <1>5
<1>7. Accepted = Cat(x, Cat(y, z))
  BY <1>2 DEF Line
<1> HIDE DEF u, x, y, z, X
<1>8. Without(Accepted, X) = x
  <2>1. Cat(y, z) \in Seq(Events) /\ ToSet(Cat(y, z)) = ToSet(y) \cup ToSet(z)
    BY <1>4, CatType
  <2>2. Without(Cat(y, z), X) = <<>>
    BY <2>1, <1>6, WithoutIs
  <2>3. ToSet(x) \cap X = {}
    BY <1>5, <1>6
  <2>4. Without(x, X) = x
    BY <2>3, <1>4, WithoutIs
  <2>5. Without(Accepted, X) = Cat(Without(x, X), Without(Cat(y, z), X))
    BY <2>1, <1>4, <1>7, WithoutCat
  <2> QED
    BY <2>2, <2>4, <2>5, <1>4, CatIs
<1>9. /\ Accepted = Without(produced, dropped \cup lost) /\ X \subseteq ToSet(produced)
      /\ ToSet(produced) \subseteq Events
  <2>1. X \subseteq ToSet(Accepted)
    <3>1. Cat(y, z) \in Seq(Events) /\ ToSet(Cat(y, z)) = ToSet(y) \cup ToSet(z)
      BY <1>4, CatType
    <3>2. ToSet(Accepted) = ToSet(x) \cup ToSet(Cat(y, z))
      BY <3>1, <1>4, <1>7, CatType
    <3> QED
      BY <3>1, <3>2, <1>6
  <2> QED
    BY <2>1, <1>2, AcceptedOnce, SeqMembers DEF IInv
<1>10. Accepted' = x
  <2>1. Accepted' = Only(produced, Events \ (dropped \cup (lost \cup X)))
    BY <1>1 DEF Accepted
  <2>2. Accepted' = Without(produced, dropped \cup (lost \cup X))
    BY <2>1, <1>2, AcceptedIs
  <2>3. dropped \cup (lost \cup X) = (dropped \cup lost) \cup X
    OBVIOUS
  <2>4. Without(Accepted, X) = Without(produced, (dropped \cup lost) \cup X)
    BY <1>2, <1>9, WithoutTwice
  <2> QED
    BY <2>2, <2>3, <2>4, <1>8
<1>11. /\ <<>> \in Seq(Items) /\ <<>> \in Seq(Sounds) /\ <<>> \in Seq(Events)
       /\ Bodies(<<>>) = <<>> /\ ToSet(<<>>) = {}
  BY EmptyIs, BodiesSteps
<1>12. \A U : Without(<<>>, U) = <<>>
  <2>1. ASSUME NEW U PROVE Without(<<>>, U) = <<>>
    BY <1>11, WithoutIs
  <2> QED
    BY <2>1
<1>13. lost' \subseteq Events
  BY <1>1, <1>9 DEF IInv, TypeOK
<1>14. TypeOK'
  <2>1. timer' \in BOOLEAN
    BY <1>1
  <2> QED
    BY <2>1, <1>1, <1>2, <1>11, <1>13 DEF IInv, TypeOK
<1>15. Once'
  BY <1>1, <1>9 DEF IInv, Once
<1>16. Running' /\ Frozen' /\ Sounded'
  BY <1>1, <1>2, <1>11, <1>12 DEF Running, Frozen, Sounded
<1>17. Lined'
  <2>1. Line(log', buffered', queued') = Cat(x, Cat(<<>>, <<>>))
    BY <1>1, <1>11, <1>12 DEF Line, x
  <2>2. Cat(<<>>, <<>>) = <<>> /\ Cat(x, <<>>) = x
    BY <1>4, <1>11, CatIs
  <2> QED
    BY <2>1, <2>2, <1>10 DEF Lined
<1>18. Heard'
  <2>1. IsInjective(log)
    BY <1>2, <1>5, BodiesApart DEF x
  <2>2. ToSet(log) \cap {} = {}
    OBVIOUS
  <2>3. Without(log, {}) = log
    BY <1>2, <2>2, WithoutIs
  <2>4. FirstOf(Cat(<<>>, log)) = Cat(FirstOf(<<>>), Without(log, ToSet(<<>>)))
    BY <1>2, <1>11, <2>1, FirstOfCat
  <2>5. FirstOf(<<>>) = <<>> /\ Cat(<<>>, log) = log
    BY <1>2, <1>11, FirstOfSteps, CatIs
  <2>6. FirstOf(log) = log
    BY <2>3, <2>4, <2>5, <1>11
  <2>7. Voices(log, <<>>, log, {})
    BY <1>11, <1>12, <2>3, <2>6 DEF Voices
  <2> QED
    BY <1>1, <2>7 DEF Heard
<1>19. DroppedForCause'
  BY <1>1 DEF IInv, DroppedForCause
<1> QED
  BY <1>10, <1>14, <1>15, <1>16, <1>17, <1>18, <1>19 DEF IInv, x

-----------------------------------------------------------------------------
(* The theorems about the write path.                                      *)

LEMMA InitHolds ==
    ASSUME Init
    PROVE  IInv
<1>1. /\ queued = <<>> /\ buffered = <<>> /\ pending = <<>> /\ timer = FALSE
      /\ phase = "idle" /\ arg = None /\ log = <<>> /\ published = <<>>
      /\ notices = 0 /\ fails = 0 /\ produced = <<>> /\ dropped = {} /\ lost = {} /\ silent = {}
  BY DEF Init
<1>2. /\ <<>> \in Seq(Items) /\ <<>> \in Seq(Sounds) /\ <<>> \in Seq(Events)
      /\ Bodies(<<>>) = <<>> /\ ToSet(<<>>) = {} /\ IsInjective(<<>>)
  BY EmptyIs, BodiesSteps
<1>3. \A U : Without(<<>>, U) = <<>>
  <2>1. ASSUME NEW U PROVE Without(<<>>, U) = <<>>
    BY <1>2, WithoutIs
  <2> QED
    BY <2>1
<1>4. Cat(<<>>, <<>>) = <<>> /\ FirstOf(<<>>) = <<>>
  BY <1>2, CatIs, FirstOfSteps
<1>5. TypeOK
  <2>1. MaxNotices \in Nat /\ MaxFailures \in Nat
    BY EventAssumption
  <2>2. notices \in 0..MaxNotices /\ fails \in 0..MaxFailures
    BY <1>1, <2>1
  <2>3. timer \in BOOLEAN
    BY <1>1
  <2> QED
    BY <1>1, <1>2, <2>2, <2>3 DEF TypeOK
<1>6. Once /\ Running /\ Frozen /\ Sounded
  BY <1>1, <1>2, <1>3 DEF Once, Running, Frozen, Sounded
<1>7. Lined
  <2>1. Accepted = <<>>
    BY <1>1, OnlyEmpty DEF Accepted
  <2>2. Line(log, buffered, queued) = <<>>
    BY <1>1, <1>2, <1>3, <1>4 DEF Line
  <2> QED
    BY <2>1, <2>2 DEF Lined
<1>8. Heard
  BY <1>1, <1>2, <1>3, <1>4 DEF Heard, Voices
<1>9. DroppedForCause
  BY <1>1 DEF DroppedForCause
<1> QED
  BY <1>5, <1>6, <1>7, <1>8, <1>9 DEF IInv

LEMMA UnchangedIs ==
    ASSUME UNCHANGED vars
    PROVE  /\ queued' = queued /\ buffered' = buffered /\ pending' = pending /\ timer' = timer
           /\ phase' = phase /\ arg' = arg /\ log' = log /\ published' = published
           /\ notices' = notices /\ fails' = fails /\ produced' = produced
           /\ dropped' = dropped /\ lost' = lost /\ silent' = silent
BY DEF vars, memory, disk, history

LEMMA StutterKeeps ==
    ASSUME IInv, UNCHANGED vars
    PROVE  IInv'
<1>1. /\ timer \in BOOLEAN /\ arg \in Events \cup {None} /\ notices \in 0..MaxNotices
      /\ phase \in {"idle", "append", "flush", "timer", "direct", "notice"}
  BY DEF IInv, TypeOK
<1>2. Idles
  BY <1>1, UnchangedIs DEF Idles
<1>3. Running'
  BY UnchangedIs DEF IInv, Running
<1> QED
  BY <1>1, <1>2, <1>3, UnchangedIs, IdlesKeeps

LEMMA NextKeeps ==
    ASSUME IInv, [Next]_vars
    PROVE  IInv'
<1>1. CASE Call
  <2>1. CASE \E e \in New : append(e)
    BY <2>1, AppendKeeps
  <2>2. CASE \E e \in {f \in New : Ev[f].kind # "delta"} : appendAtomic(e)
    BY <2>2, AtomicKeeps
  <2> QED
    BY <1>1, <2>1, <2>2, FlushAllKeeps DEF Call
<1>2. CASE TimerFires
  BY <1>2, FlushAllKeeps
<1>3. CASE Step
  <2>1. CASE DrainPending
    BY <2>1, DrainWrites, WritesKeeps
  <2>2. CASE TakeBarrier \/ FlushLast
    BY <2>2, BufferWrites, WritesKeeps
  <2> QED
    BY <1>3, <2>1, <2>2, TakeKeeps, EndsKeep, DirectKeeps DEF Step
<1>4. CASE Crash
  BY <1>4, CrashKeeps
<1> QED
  BY <1>1, <1>2, <1>3, <1>4, StutterKeeps DEF Next

\* The strengthened invariant of the write path holds in every state.
THEOREM Inductive == Spec => []IInv
<1>1. Init => IInv
  BY InitHolds
<1>2. IInv /\ [Next]_vars => IInv'
  BY NextKeeps
<1> QED
  BY <1>1, <1>2, PTL DEF Spec

\* Every variable keeps its type, and a frozen batch carries the text of the
\* buffer it was made from (event-batcher.ts, pending and buffered).
THEOREM TypeCorrect == Spec => []TypeOK
<1>1. IInv => TypeOK
  BY DEF IInv
<1> QED
  BY <1>1, Inductive, PTL

\* event-batcher.ts:75-85: an event that was appended and not refused is on
\* disk, in the batch or in the queue, in the order the events were appended,
\* whatever failed, was retried, was isolated or was killed.
THEOREM LineIsKept == Spec => []NothingLostOrReordered
<1>1. IInv => NothingLostOrReordered
  <2> SUFFICES ASSUME IInv PROVE NothingLostOrReordered
    OBVIOUS
  <2> DEFINE u == Unwritten(buffered)
  <2>1. (IF pending # <<>> THEN pending ELSE buffered) = buffered
    BY DEF IInv, Frozen
  <2>2. u \in Seq(Items)
    BY Disk, UnwrittenIs, WithoutIs
  <2>3. Accepted = Cat(Bodies(log), Cat(Bodies(u), Bodies(queued)))
    BY Disk, UnwrittenIs DEF Line
  <2>4. Bodies(log) \in Seq(Events) /\ Bodies(u) \in Seq(Events) /\ Bodies(queued) \in Seq(Events)
    BY <2>2, Disk, BodiesSteps
  <2> HIDE DEF u
  <2>5. Accepted = Cat(Cat(Bodies(log), Bodies(u)), Bodies(queued))
    BY <2>3, <2>4, CatAssoc
  <2> QED
    BY <2>1, <2>5, Zenon DEF NothingLostOrReordered, u, Cat
<1> QED
  BY <1>1, Inductive, PTL

\* event-batcher.ts:82-85: an event is dropped only for what it says, or for an
\* end of its turn that was produced before it; never for its own retry.
THEOREM OnlyRefusedDropped == Spec => []DroppedForCause
<1>1. IInv => DroppedForCause
  BY DEF IInv
<1> QED
  BY <1>1, Inductive, PTL

\* event-batcher.ts:65-67 and 141: rows reach the delivery queue in commit
\* order and none is skipped, for any failures in or after the commit.
THEOREM CommitOrderIsHeard == Spec => []PublishedInOrder
<1>1. IInv => PublishedInOrder
  <2> SUFFICES ASSUME IInv PROVE PublishedInOrder
    OBVIOUS
  <2> DEFINE rows == Without(log, silent)
             h == FirstOf(Without(published, silent))
             w == Without(pending, ToSet(log))
             v == Without(pending, ToSet(h))
  <2>1. log \in Seq(Items) /\ published \in Seq(Items) /\ pending \in Seq(Items)
    BY Types DEF IInv
  <2>2. ToSet(published) \subseteq ToSet(log) /\ Cat(rows, w) = Cat(h, v)
    BY DEF IInv, Heard, Voices
  <2>3. /\ rows \in Seq(Items) /\ w \in Seq(Items) /\ ToSet(w) = ToSet(pending) \ ToSet(log)
        /\ Without(published, silent) \in Seq(Items)
        /\ ToSet(Without(published, silent)) = ToSet(published) \ silent
    BY <2>1, WithoutIs
  <2>4. h \in Seq(Items) /\ ToSet(h) = ToSet(published) \ silent
    BY <2>3, FirstOfHolds
  <2>5. v \in Seq(Items) /\ ToSet(v) \subseteq ToSet(pending)
    BY <2>1, WithoutIs
  <2>6. ToSet(h) \cap ToSet(w) = {}
    BY <2>2, <2>3, <2>4
  <2>7. rows = Voiced(log) /\ h = FirstOf(Voiced(published))
    BY DEF Voiced, Without
  <2> HIDE DEF rows, h, w, v
  <2>8. IsPrefix(h, rows) /\ \A i \in (Len(h) + 1)..Len(rows) : rows[i] \in ToSet(v)
    BY <2>2, <2>3, <2>4, <2>5, <2>6, TwoCuts
  <2>9. \A i \in (Len(h) + 1)..Len(rows) : \E j \in DOMAIN pending : pending[j] = rows[i]
    BY <2>5, <2>8 DEF ToSet
  <2> QED
    BY <2>7, <2>8, <2>9, Zenon DEF PublishedInOrder
<1> QED
  BY <1>1, Inductive, PTL

-----------------------------------------------------------------------------
(* The write path implements ordered durability.                           *)

\* The refinement's own filter and prefix are the ones of Queues.
LEMMA SameQueues ==
    /\ \A s, T : Durability!Only(s, T) = Only(s, T)
    /\ \A s, t : Durability!IsPrefix(s, t) = IsPrefix(s, t)
    /\ \A s : Durability!ToSet(s) = ToSet(s)
<1>1. \A s, T : Durability!Only(s, T) = Only(s, T)
  BY Zenon DEF Durability!Only, Only
<1>2. \A s, t : Durability!IsPrefix(s, t) = IsPrefix(s, t)
  BY Zenon DEF Durability!IsPrefix, IsPrefix
<1>3. \A s : Durability!ToSet(s) = ToSet(s)
  BY Zenon DEF Durability!ToSet, ToSet
<1> QED
  BY <1>1, <1>2, <1>3

\* A write takes what it refuses out of the line, and adds rows.
LEMMA WriteMoves ==
    ASSUME IInv, NEW b, NEW q, Ready(b, q), Writes(b, q)
    PROVE  /\ Accepted' = Only(Accepted, ToSet(Accepted'))
           /\ IsPrefix(Bodies(log), Bodies(log'))
<1>1. PICK r \in FlushResults(b) : Moved(r, q)
  BY DEF Writes
<1>2. PICK b1, p, p2, d, F :
         /\ b = Batch(b1, p, p2, d) /\ Ended(r, b1, p, p2, d, F)
         /\ Settling(b1, p, p2, d, log, F)
  BY FlushParts
<1> DEFINE X == dropped \cup lost
           R == Carried(F)
           v == Without(Cat(b1, Cat(p, p2)), ToSet(log) \cup F)
<1>3. /\ dropped' = dropped \cup R /\ lost' = lost /\ produced' = produced
      /\ log' = Cat(log, v)
  BY <1>1, <1>2 DEF Moved, Ended, Rows
<1>4. produced \in Seq(Events) /\ log \in Seq(Items) /\ Accepted \in Seq(Events)
  BY Disk
<1>5. v \in Seq(Items)
  <2>1. Parts(b1, p, p2, d)
    BY <1>2 DEF Settling
  <2>2. Cat(b1, Cat(p, p2)) \in Seq(Items)
    BY <2>1, BatchParts
  <2> QED
    BY <2>2, WithoutIs
<1> HIDE DEF R, v
<1>6. Accepted = Without(produced, X)
  BY AcceptedOnce DEF IInv
<1>7. Accepted' = Without(Accepted, R)
  <2>1. Accepted' = Only(produced, Events \ ((dropped \cup R) \cup lost))
    BY <1>3 DEF Accepted
  <2>2. Accepted' = Without(produced, (dropped \cup R) \cup lost)
    BY <2>1, <1>4, AcceptedIs
  <2>3. (dropped \cup R) \cup lost = X \cup R
    OBVIOUS
  <2> HIDE DEF X
  <2>4. Without(Without(produced, X), R) = Without(produced, X \cup R)
    BY <1>4, WithoutTwice
  <2> QED
    BY <2>2, <2>3, <2>4, <1>6
<1>8. ToSet(Accepted') = ToSet(Accepted) \ R
  BY <1>4, <1>7, WithoutIs
<1>9. Accepted' = Only(Accepted, ToSet(Accepted'))
  BY <1>7, <1>8 DEF Without
<1>10. IsPrefix(Bodies(log), Bodies(log'))
  <2>1. Bodies(log') = Cat(Bodies(log), Bodies(v))
    BY <1>3, <1>4, <1>5, BodiesCat
  <2>2. Bodies(log) \in Seq(Events) /\ Bodies(v) \in Seq(Events)
    BY <1>4, <1>5, BodiesSteps
  <2> QED
    BY <2>1, <2>2, CatPrefix
<1> QED
  BY <1>9, <1>10

\* What is on disk begins the line.
LEMMA DiskFirst ==
    ASSUME NEW l \in Seq(Items), NEW b \in Seq(Items), NEW q \in Seq(Items)
    PROVE  IsPrefix(Bodies(l), Line(l, b, q))
<1> DEFINE u == Without(b, ToSet(l))
           y == Cat(Bodies(u), Bodies(q))
<1>1. u \in Seq(Items)
  BY WithoutIs
<1>2. Bodies(u) \in Seq(Events) /\ Bodies(q) \in Seq(Events) /\ Bodies(l) \in Seq(Events)
  BY <1>1, BodiesSteps
<1>3. y \in Seq(Events)
  BY <1>2, CatType
<1>4. Line(l, b, q) = Cat(Bodies(l), y)
  BY DEF Line
<1> QED
  BY <1>2, <1>3, <1>4, CatPrefix

Rests == Accepted' = Accepted /\ Bodies(log') = Bodies(log)

LEMMA IdlesRest ==
    ASSUME Idles \/ UNCHANGED vars
    PROVE  Rests
<1>1. log' = log /\ produced' = produced /\ dropped' = dropped /\ lost' = lost
  BY UnchangedIs DEF Idles
<1> QED
  BY <1>1 DEF Rests, Accepted

LEMMA StepRests ==
    ASSUME Rests
    PROVE  UNCHANGED Durability!vars
BY DEF Rests, Durability!vars

LEMMA WriteSettles ==
    ASSUME IInv, IInv', NEW b, NEW q, Ready(b, q), Writes(b, q)
    PROVE  Durability!Next
<1>1. /\ Accepted' = Only(Accepted, ToSet(Accepted'))
      /\ IsPrefix(Bodies(log), Bodies(log'))
  BY WriteMoves
<1>2. IsPrefix(Bodies(log'), Accepted')
  <2>1. log' \in Seq(Items) /\ buffered' \in Seq(Items) /\ queued' \in Seq(Items)
    BY DEF IInv, TypeOK
  <2>2. Accepted' = Line(log', buffered', queued')
    BY DEF IInv, Lined
  <2> QED
    BY <2>1, <2>2, DiskFirst
<1>3. Durability!Settle
  BY <1>1, <1>2, SameQueues DEF Durability!Settle
<1> QED
  BY <1>3 DEF Durability!Next

LEMMA DirectMoves ==
    ASSUME IInv, WriteDirect
    PROVE  Durability!Next \/ Rests
<1>1. /\ arg \in Events /\ arg \notin ToSet(produced)
      /\ Item(arg) \in Items /\ Accepted = Bodies(log)
      /\ dropped' = dropped /\ lost' = lost /\ (DirectNot \/ DirectDone)
  BY DirectEither
<1>2. CASE DirectNot
  BY <1>1, <1>2 DEF DirectNot, Rests, Accepted
<1>3. CASE DirectDone
  <2>1. log' = Pushed(log, Item(arg)) /\ produced' = Pushed(produced, arg)
    BY <1>3 DEF DirectDone
  <2>2. Accepted' = Pushed(Accepted, arg) /\ arg \notin ToSet(Accepted)
    BY <1>1, <2>1, NewAccepted
  <2>3. Bodies(log') = Pushed(Bodies(log), arg)
    BY <1>1, <2>1, Disk, OneItem
  <2>4. Durability!AcceptDurably(arg)
    BY <1>1, <2>2, <2>3 DEF Durability!AcceptDurably, Pushed
  <2>5. arg \in Events \ Durability!ToSet(Accepted)
    BY <1>1, <2>2, SameQueues
  <2> QED
    BY <2>4, <2>5 DEF Durability!Next
<1> QED
  BY <1>1, <1>2, <1>3

LEMMA CallMoves ==
    ASSUME IInv, Call
    PROVE  Durability!Next \/ Rests
<1>1. ASSUME NEW e \in New, append(e) PROVE Durability!Next
  <2>1. e \in Events /\ e \notin ToSet(produced)
    BY DEF New
  <2>2. /\ produced' = Pushed(produced, e) /\ log' = log /\ dropped' = dropped /\ lost' = lost
    BY <1>1 DEF append, Pushed, disk
  <2>3. Accepted' = Pushed(Accepted, e) /\ e \notin ToSet(Accepted)
    BY <2>1, <2>2, NewAccepted
  <2>4. Durability!Accept(e)
    BY <2>2, <2>3 DEF Durability!Accept, Pushed
  <2>5. e \in Events \ Durability!ToSet(Accepted)
    BY <2>1, <2>3, SameQueues
  <2> QED
    BY <2>4, <2>5 DEF Durability!Next
<1>2. CASE flushAll \/ publishTransient \/ \E e \in {f \in New : Ev[f].kind # "delta"} : appendAtomic(e)
  <2>1. log' = log /\ produced' = produced /\ dropped' = dropped /\ lost' = lost
    BY <1>2 DEF flushAll, publishTransient, appendAtomic, disk, history
  <2> QED
    BY <2>1 DEF Rests, Accepted
<1> QED
  BY <1>1, <1>2 DEF Call

LEMMA TakeMoves ==
    ASSUME IInv, IInv', take
    PROVE  Durability!Next \/ Rests
<1>1. pending = <<>> /\ queued # <<>> /\ (TakeWrites \/ TakeWaits)
  BY TakeEither
<1>2. CASE TakeWaits
  <2>1. log' = log /\ produced' = produced /\ dropped' = dropped /\ lost' = lost
    BY <1>2 DEF TakeWaits, disk
  <2> QED
    BY <2>1 DEF Rests, Accepted
<1>3. CASE TakeWrites
  <2> DEFINE items == Append(buffered, queued[1])
             t == Tail(queued)
  <2>1. /\ items \in Seq(Sounds) /\ t \in Seq(Sounds)
        /\ Accepted = Cat(Bodies(log), Cat(Bodies(items), Bodies(t)))
    BY <1>1, TakenOver
  <2> HIDE DEF items, t
  <2>2. Ready(coalesceDeltas(items), t)
    BY <1>1, <2>1, ReadyFresh
  <2> QED
    BY <1>3, <2>2, WriteSettles DEF TakeWrites, items, t
<1> QED
  BY <1>1, <1>2, <1>3

LEMMA StepMoves ==
    ASSUME IInv, IInv', [Next]_vars
    PROVE  Durability!Next \/ UNCHANGED Durability!vars
<1>1. CASE Step
  <2>1. CASE DrainPending
    BY <2>1, DrainWrites, WriteSettles
  <2>2. CASE TakeBarrier \/ FlushLast
    BY <2>2, BufferWrites, WriteSettles
  <2>3. CASE EndAppend \/ EndFlush \/ EndNotice
    <3>1. log' = log /\ produced' = produced /\ dropped' = dropped /\ lost' = lost
      BY <2>3 DEF EndAppend, EndFlush, EndNotice, disk, history
    <3>2. Rests
      BY <3>1 DEF Rests, Accepted
    <3> QED
      BY <3>2, StepRests
  <2> QED
    BY <1>1, <2>1, <2>2, <2>3, TakeMoves, DirectMoves, StepRests DEF Step
<1>2. CASE TimerFires
  <2>1. log' = log /\ produced' = produced /\ dropped' = dropped /\ lost' = lost
    BY <1>2 DEF TimerFires, disk, history
  <2>2. Rests
    BY <2>1 DEF Rests, Accepted
  <2> QED
    BY <2>2, StepRests
<1>3. CASE Crash
  <2>1. Accepted' = Bodies(log) /\ log' = log
    BY <1>3, CrashKeeps DEF Crash
  <2>2. Durability!Crash
    BY <2>1 DEF Durability!Crash
  <2> QED
    BY <2>2 DEF Durability!Next
<1>4. CASE UNCHANGED vars
  BY <1>4, IdlesRest, StepRests
<1> QED
  BY <1>1, <1>2, <1>3, <1>4, CallMoves, StepRests DEF Next

\* event-batcher.ts:75-85 and docs/sync-foundations.md I11: the write path is
\* ordered durability.  Each of its steps accepts an event, settles some of the
\* line, writes one event behind all the others, is a kill that leaves what is
\* on disk, or changes neither the line nor the disk.
THEOREM OrderedAndDurable == Spec => ImplementsOrderedDurability
<1>1. Init => Durability!Init
  <2> SUFFICES ASSUME Init PROVE Durability!Init
    OBVIOUS
  <2>1. produced = <<>> /\ log = <<>>
    BY DEF Init
  <2>2. Accepted = <<>> /\ Bodies(log) = <<>>
    BY <2>1, OnlyEmpty, BodiesSteps DEF Accepted
  <2> QED
    BY <2>2 DEF Durability!Init
<1>2. IInv /\ IInv' /\ [Next]_vars => [Durability!Next]_Durability!vars
  BY StepMoves
<1> QED
  BY <1>1, <1>2, Inductive, PTL DEF Spec, ImplementsOrderedDurability, Durability!Spec
=============================================================================
