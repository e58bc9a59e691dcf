-------------------------- MODULE Connection_proofs --------------------------
(***************************************************************************)
(* Proofs about one connection, for any scopes and subscriptions, windows, *)
(* frame sizes and backlog bound, and any number of records.               *)
(***************************************************************************)
EXTENDS Connection, Queues_proofs, FiniteSetTheorems

-----------------------------------------------------------------------------
(* The inductive invariant.                                                *)

Parts == {"pump", "drain", "catchUp", "answer"}
Deliveries == [kind : {"record", "transient", "reading"}, scope : Scopes \cup {None},
               to : Cursors]
Frames == [part : {"whole", "more", "last"}, bytes : Nat]

Logged ==
    /\ head \in [Scopes -> 0..MaxHead] /\ gone \subseteq Scopes
    /\ deliveries \in Seq(Deliveries)

\* An id that was not given out is not registered.
Registered ==
    /\ active \in BOOLEAN /\ ids \in [Subs -> {"fresh", "given", "ended"}]
    /\ subscriptions \in Seq(Subs) /\ IsInjective(subscriptions)
    /\ \A s \in ToSet(subscriptions) : ids[s] # "fresh"

Queued ==
    /\ queue \in Seq(Items)
    /\ queuedScopedBytes = ScopedBytes(queue)
    /\ queuedScopedBytes <= backlogBytes
    /\ DOMAIN lagging \subseteq Subs /\ lagging \in [DOMAIN lagging -> Cursors]
    /\ \A x \in ToSet(queue) : Scoped(x) => x.sub \in Subs \ DOMAIN lagging

Told == promised \in [Subs -> Cursors] /\ reader \in [Subs -> Cursors]

Linked ==
    /\ partial = None \/ partial \in Nat \ {0}
    /\ inFlight \in Nat /\ window \in Windows /\ wire \in Seq(Frames)

\* The answer of a command is the bottom of its call; a catch-up's ids lag.
Called ==
    /\ stack \in Seq(Parts)
    /\ \A i \in DOMAIN stack : stack[i] = "answer" => i = Len(stack)
    /\ owed # None <=> Within("answer")
    /\ owed # None => owed \in Items /\ owed.sub \in Subs /\ owed.kind = "answer"
    /\ due = {} \/ Within("catchUp")
    /\ due \subseteq DOMAIN lagging

\* A cursor is promised on the command's behalf once it is answered.
Answers ==
    owed # None /\ owed.to # None =>
       ScopeOf[owed.sub] \notin gone /\ (active => owed.sub \in ToSet(subscriptions))

Lives ==
    active =>
       /\ \A s \in Subs : promised[s] # None => s \in ToSet(subscriptions)
       /\ DOMAIN lagging \subseteq ToSet(subscriptions)
       /\ \A x \in ToSet(queue) : Scoped(x) => x.sub \in ToSet(subscriptions)

IInv == Logged /\ Registered /\ Queued /\ Told /\ Linked /\ Called /\ Answers /\ Lives

-----------------------------------------------------------------------------
(* Items.                                                                  *)

ScopedItems == {x \in Items : Scoped(x)}

LEMMA ItemFacts ==
    /\ \A x \in Items : x.bytes \in Nat
    /\ \A sub \in Subs \cup {None}, from \in Cursors, to \in Cursors, bytes \in Sizes \cup {1},
          kind \in {"answer", "catchup", "lagging", "record", "transient", "reading"} :
          Item(kind, sub, from, to, bytes) \in Items
    /\ None \in Cursors /\ 1 \in Sizes \cup {1} /\ 0..MaxHead \subseteq Cursors
<1>1. Sizes \cup {1} \subseteq Nat
  BY ConnectionAssumption
<1> QED
  BY <1>1 DEF Items, Item, Cursors

LEMMA Scoping ==
    ASSUME NEW q \in Seq(Items)
    PROVE  ScopedBytes(q) = Bytes(Only(q, ScopedItems)) /\ ScopedBytes(q) \in Nat
<1> DEFINE T == {x \in ToSet(q) : Scoped(x)}
<1>1. ToSet(q) \cap T = ToSet(q) \cap ScopedItems
  <2>1. ToSet(q) \subseteq Items
    BY ElementOfSeq, LenProperties DEF ToSet
  <2> QED
    BY <2>1 DEF ScopedItems
<1> HIDE DEF T
<1>2. Only(q, T) = Only(q, ScopedItems)
  BY <1>1, OnlySame
<1>3. ScopedBytes(q) = Bytes(Only(q, T))
  BY DEF ScopedBytes, T
<1>4. Only(q, ScopedItems) \in Seq(Items)
  BY OnlyType
<1> QED
  BY <1>2, <1>3, <1>4, ItemFacts, BytesType

LEMMA ScopedPush ==
    ASSUME NEW q \in Seq(Items), NEW x \in Items
    PROVE  /\ Scoped(x) => ScopedBytes(Append(q, x)) = ScopedBytes(q) + x.bytes
           /\ ~Scoped(x) => ScopedBytes(Append(q, x)) = ScopedBytes(q)
<1>1. Pushed(q, x) \in Seq(Items)
  BY PushedIs
<1>2. Only(q, ScopedItems) \in Seq(Items)
  BY OnlyType
<1>3. /\ ScopedBytes(q) = Bytes(Only(q, ScopedItems))
      /\ ScopedBytes(Pushed(q, x)) = Bytes(Only(Pushed(q, x), ScopedItems))
  BY <1>1, Scoping
<1>4. /\ x \in ScopedItems => Only(Pushed(q, x), ScopedItems) = Pushed(Only(q, ScopedItems), x)
      /\ x \notin ScopedItems => Only(Pushed(q, x), ScopedItems) = Only(q, ScopedItems)
  BY OnlyPushed
<1>5. Bytes(Pushed(Only(q, ScopedItems), x)) = Bytes(Only(q, ScopedItems)) + x.bytes
  BY <1>2, ItemFacts, BytesPushed
<1>6. x \in ScopedItems <=> Scoped(x)
  BY DEF ScopedItems
<1>7. /\ Scoped(x) => ScopedBytes(Pushed(q, x)) = ScopedBytes(q) + x.bytes
      /\ ~Scoped(x) => ScopedBytes(Pushed(q, x)) = ScopedBytes(q)
  BY <1>3, <1>4, <1>5, <1>6
<1> QED
  BY <1>7 DEF Pushed

LEMMA ScopedNone ==
    ASSUME NEW q \in Seq(Items), \A x \in ToSet(q) : ~Scoped(x)
    PROVE  ScopedBytes(q) = 0
<1>1. ToSet(q) \cap ScopedItems = {}
  BY DEF ScopedItems
<1>2. Only(q, ScopedItems) = <<>>
  BY <1>1, OnlyNone
<1> QED
  BY <1>2, Scoping, BytesEmpty

LEMMA ScopedPop ==
    ASSUME NEW q \in Seq(Items), q # <<>>
    PROVE  /\ Scoped(Head(q)) => ScopedBytes(Tail(q)) = ScopedBytes(q) - Head(q).bytes
           /\ ~Scoped(Head(q)) => ScopedBytes(Tail(q)) = ScopedBytes(q)
<1> DEFINE T == ScopedItems
           x == Head(q)
           r == Tail(q)
<1>1. /\ x \in Items /\ r \in Seq(Items)
      /\ x \in T => Only(q, T) = <<x>> \o Only(r, T)
      /\ x \notin T => Only(q, T) = Only(r, T)
  BY OnlyTail
<1>2. <<>> \in Seq(Items) /\ Pushed(<<>>, x) = <<x>> /\ Pushed(<<>>, x) \in Seq(Items)
  BY <1>1, EmptySeq, PushedIs DEF Pushed
<1> HIDE DEF x, r
<1>3. Bytes(Pushed(<<>>, x)) = 0 + x.bytes
  BY <1>1, <1>2, ItemFacts, BytesPushed, BytesEmpty
<1>4. Only(r, T) \in Seq(Items) /\ Only(q, T) \in Seq(Items)
  BY <1>1, OnlyType
<1>5. Bytes(Cat(Pushed(<<>>, x), Only(r, T))) = Bytes(Pushed(<<>>, x)) + Bytes(Only(r, T))
  BY <1>2, <1>4, ItemFacts, BytesSplits
<1>6. x \in T => Only(q, T) = Cat(Pushed(<<>>, x), Only(r, T))
  BY <1>1, <1>2 DEF Cat
<1>7. ScopedBytes(q) = Bytes(Only(q, T)) /\ ScopedBytes(r) = Bytes(Only(r, T))
      /\ ScopedBytes(r) \in Nat
  BY <1>1, Scoping
<1>8. x \in T <=> Scoped(x)
  BY <1>1 DEF ScopedItems
<1>9. x.bytes \in Nat
  BY <1>1, ItemFacts
<1>10. CASE Scoped(x)
  <2>1. ScopedBytes(q) = x.bytes + ScopedBytes(r)
    BY <1>10, <1>3, <1>5, <1>6, <1>7, <1>8, <1>9
  <2>2. ScopedBytes(r) = ScopedBytes(q) - x.bytes
    BY <2>1, <1>7, <1>9
  <2> QED
    BY <1>10, <2>2 DEF x, r
<1>11. CASE ~Scoped(x)
  <2>1. ScopedBytes(r) = ScopedBytes(q)
    BY <1>11, <1>1, <1>7, <1>8
  <2> QED
    BY <1>11, <2>1 DEF x, r
<1> QED
  BY <1>10, <1>11

\* Filtering the queue: what it leaves, and that it counts no more bytes.
LEMMA ScopedFilter ==
    ASSUME NEW q \in Seq(Items), NEW T
    PROVE  /\ Only(q, T) \in Seq(Items) /\ ToSet(Only(q, T)) = ToSet(q) \cap T
           /\ (\A x \in ToSet(q) : Scoped(x) => x \in T) =>
                 ScopedBytes(Only(q, T)) = ScopedBytes(q)
<1>1. Only(q, T) \in Seq(Items) /\ ToSet(Only(q, T)) = ToSet(q) \cap T
  BY OnlyType, OnlyHolds
<1>2. ASSUME \A x \in ToSet(q) : Scoped(x) => x \in T
      PROVE  ScopedBytes(Only(q, T)) = ScopedBytes(q)
  <2>1. Only(Only(q, T), ScopedItems) = Only(q, T \cap ScopedItems)
    BY OnlyTwice
  <2>2. ToSet(q) \cap (T \cap ScopedItems) = ToSet(q) \cap ScopedItems
    BY <1>2 DEF ScopedItems
  <2>3. Only(q, T \cap ScopedItems) = Only(q, ScopedItems)
    BY <2>2, OnlySame
  <2> QED
    BY <1>1, <2>1, <2>3, Scoping
<1> QED
  BY <1>1, <1>2

-----------------------------------------------------------------------------
(* What the running call has left to do.                                   *)

In(st, part) == \E i \in DOMAIN st : st[i] = part
AnswerLast(st) == \A i \in DOMAIN st : st[i] = "answer" => i = Len(st)

LEMMA Pushing ==
    ASSUME NEW st \in Seq(Parts), AnswerLast(st), NEW parts \in Seq(Parts \ {"answer"}),
           NEW new, new = parts \o st
    PROVE  /\ new \in Seq(Parts) /\ AnswerLast(new)
           /\ In(new, "answer") <=> In(st, "answer")
           /\ \A p : In(parts, p) \/ In(st, p) => In(new, p)
<1>1. parts \in Seq(Parts)
  <2>1. /\ Len(parts) \in Nat /\ DOMAIN parts = 1..Len(parts)
        /\ \A i \in 1..Len(parts) : parts[i] \in Parts
    BY LenProperties, ElementOfSeq
  <2> QED
    BY <2>1, IsASeq
<1>2. /\ new \in Seq(Parts) /\ Len(new) = Len(parts) + Len(st)
      /\ \A i \in 1..Len(new) : new[i] = IF i <= Len(parts) THEN parts[i]
                                         ELSE st[i - Len(parts)]
  BY <1>1, ConcatProperties
<1>3. /\ Len(parts) \in Nat /\ DOMAIN parts = 1..Len(parts)
      /\ Len(st) \in Nat /\ DOMAIN st = 1..Len(st) /\ DOMAIN new = 1..Len(new)
  BY <1>1, <1>2, LenProperties
<1>4. \A i \in 1..Len(parts) : parts[i] # "answer" /\ i \in DOMAIN new /\ new[i] = parts[i]
  BY <1>2, <1>3, ElementOfSeq
<1>5. \A i \in 1..Len(st) : i + Len(parts) \in DOMAIN new /\ new[i + Len(parts)] = st[i]
  BY <1>2, <1>3
<1>6. ASSUME NEW i \in DOMAIN new, new[i] = "answer"
      PROVE  i - Len(parts) \in 1..Len(st) /\ st[i - Len(parts)] = "answer"
  <2>1. ~(i <= Len(parts))
    BY <1>3, <1>4, <1>6
  <2> QED
    BY <2>1, <1>2, <1>3, <1>6
<1>7. AnswerLast(new)
  BY <1>2, <1>3, <1>6 DEF AnswerLast
<1>8. In(new, "answer") <=> In(st, "answer")
  BY <1>3, <1>5, <1>6 DEF In
<1>9. \A p : In(parts, p) \/ In(st, p) => In(new, p)
  BY <1>3, <1>4, <1>5 DEF In
<1> QED
  BY <1>2, <1>7, <1>8, <1>9

LEMMA Popping ==
    ASSUME NEW st \in Seq(Parts), AnswerLast(st), NEW parts \in Seq(Parts \ {"answer"}),
           NEW new, st # <<>>, Head(st) # "answer", new = parts \o Tail(st)
    PROVE  /\ new \in Seq(Parts) /\ AnswerLast(new)
           /\ In(new, "answer") <=> In(st, "answer")
           /\ \A p : In(parts, p) => In(new, p)
           /\ \A p : In(st, p) /\ p # Head(st) => In(new, p)
<1> DEFINE t == Tail(st)
<1>1. /\ t \in Seq(Parts) /\ Len(t) = Len(st) - 1
      /\ \A i \in 1..Len(t) : t[i] = st[i + 1]
      /\ Head(st) = st[1]
  BY HeadTailProperties
<1>2. /\ Len(st) \in Nat /\ Len(st) > 0 /\ DOMAIN st = 1..Len(st)
      /\ DOMAIN t = 1..(Len(st) - 1)
  BY <1>1, LenProperties, EmptySeq
<1>8. new = parts \o t
  OBVIOUS
<1> HIDE DEF t
<1>9. ASSUME NEW i \in DOMAIN t
      PROVE  \E j \in DOMAIN st : t[i] = st[j] /\ (j = Len(st) => i = Len(t))
  <2>1. /\ i \in 1..(Len(st) - 1) /\ i \in 1..Len(t) /\ i + 1 \in 1..Len(st)
        /\ i + 1 = Len(st) => i = Len(t)
    BY <1>1, <1>2, <1>9
  <2>2. t[i] = st[i + 1]
    BY <2>1, <1>1
  <2> QED
    BY <2>1, <2>2, <1>2
<1>3. AnswerLast(t)
  <2> SUFFICES ASSUME NEW i \in DOMAIN t, t[i] = "answer" PROVE i = Len(t)
    BY DEF AnswerLast
  <2>1. PICK j \in DOMAIN st : t[i] = st[j] /\ (j = Len(st) => i = Len(t))
    BY <1>9
  <2> QED
    BY <2>1 DEF AnswerLast
<1>4. \A p : In(t, p) => In(st, p)
  <2> SUFFICES ASSUME NEW i \in DOMAIN t PROVE In(st, t[i])
    BY DEF In
  <2>1. \E j \in DOMAIN st : t[i] = st[j]
    BY <1>9
  <2> QED
    BY <2>1 DEF In
<1>5. ASSUME NEW p, In(st, p), p # Head(st) PROVE In(t, p)
  <2>1. PICK i \in DOMAIN st : st[i] = p
    BY <1>5 DEF In
  <2>2. i - 1 \in DOMAIN t /\ t[i - 1] = p
    BY <2>1, <1>1, <1>2, <1>5
  <2> QED
    BY <2>2 DEF In
<1>6. /\ new \in Seq(Parts) /\ AnswerLast(new)
      /\ In(new, "answer") <=> In(t, "answer")
      /\ \A p : In(parts, p) \/ In(t, p) => In(new, p)
  BY <1>1, <1>3, <1>8, Pushing
<1>7. In(t, "answer") <=> In(st, "answer")
  BY <1>4, <1>5
<1> QED
  BY <1>5, <1>6, <1>7

\* The lists of parts that calls begin with.
LEMMA PartLists ==
    /\ <<>> \in Seq(Parts \ {"answer"})
    /\ <<"pump">> \in Seq(Parts \ {"answer"}) /\ <<"drain">> \in Seq(Parts \ {"answer"})
    /\ <<"pump", "drain">> \in Seq(Parts \ {"answer"})
    /\ <<"catchUp">> \in Seq(Parts \ {"answer"}) /\ In(<<"catchUp">>, "catchUp")
<1>1. /\ "pump" \in Parts \ {"answer"} /\ "drain" \in Parts \ {"answer"}
      /\ "catchUp" \in Parts \ {"answer"}
  BY DEF Parts
<1>2. 1 \in DOMAIN <<"catchUp">> /\ <<"catchUp">>[1] = "catchUp"
  OBVIOUS
<1> QED
  BY <1>1, <1>2, EmptySeq DEF In

\* The call goes on with some parts in place of the one that ran.
LEMMA Goes ==
    ASSUME Called, NEW p, p # "answer", Running(p), NEW parts \in Seq(Parts \ {"answer"}),
           Then(parts), owed' = owed,
           due' = {} \/ (p # "catchUp" /\ due' = due) \/ In(parts, "catchUp"),
           due' \subseteq DOMAIN lagging'
    PROVE  Called'
<1>1. /\ stack \in Seq(Parts) /\ AnswerLast(stack) /\ stack # <<>> /\ Head(stack) = p
      /\ stack' = parts \o Tail(stack)
  BY DEF Called, Running, Idle, Then, AnswerLast
<1>2. /\ stack' \in Seq(Parts) /\ AnswerLast(stack')
      /\ In(stack', "answer") <=> In(stack, "answer")
      /\ \A q : In(parts, q) => In(stack', q)
      /\ \A q : In(stack, q) /\ q # Head(stack) => In(stack', q)
  BY <1>1, Popping
<1>3. \A q : (Within(q) <=> In(stack, q)) /\ (Within(q)' <=> In(stack', q))
  BY DEF Within, In
<1>4. due' = {} \/ Within("catchUp")'
  BY <1>1, <1>2, <1>3 DEF Called
<1>5. owed' # None <=> Within("answer")'
  BY <1>2, <1>3 DEF Called
<1> QED
  BY <1>2, <1>4, <1>5 DEF Called, AnswerLast

\* The call puts some parts before the one that runs.
LEMMA Nests ==
    ASSUME Called, NEW parts \in Seq(Parts \ {"answer"}), stack' = parts \o stack,
           owed' = owed, due' \subseteq due, due' \subseteq DOMAIN lagging'
    PROVE  Called'
<1>1. stack \in Seq(Parts) /\ AnswerLast(stack)
  BY DEF Called, AnswerLast
<1>2. /\ stack' \in Seq(Parts) /\ AnswerLast(stack')
      /\ In(stack', "answer") <=> In(stack, "answer")
      /\ \A q : In(parts, q) \/ In(stack, q) => In(stack', q)
  BY <1>1, Pushing
<1>3. \A q : (Within(q) <=> In(stack, q)) /\ (Within(q)' <=> In(stack', q))
  BY DEF Within, In
<1>4. due' = {} \/ Within("catchUp")'
  BY <1>2, <1>3 DEF Called
<1>5. owed' # None <=> Within("answer")'
  BY <1>2, <1>3 DEF Called
<1> QED
  BY <1>2, <1>4, <1>5 DEF Called, AnswerLast

-----------------------------------------------------------------------------
(* The initial states.                                                     *)

LEMMA Starts == Init => IInv
<1> SUFFICES ASSUME Init PROVE IInv
  OBVIOUS
<1>1. <<>> \in Seq(Deliveries) /\ <<>> \in Seq(Subs) /\ <<>> \in Seq(Items)
      /\ <<>> \in Seq(Frames) /\ <<>> \in Seq(Parts)
  BY EmptySeq
<1>2. ToSet(<<>>) = {} /\ IsInjective(<<>>) /\ DOMAIN <<>> = {} /\ Len(<<>>) = 0
  BY DEF ToSet, IsInjective
<1>3. Logged
  BY <1>1, ConnectionAssumption DEF Init, Logged
<1>4. Registered
  BY <1>1, <1>2 DEF Init, Registered
<1>5. Queued
  <2>1. ScopedBytes(<<>>) = 0
    BY <1>1, <1>2, ScopedNone
  <2>2. queue \in Seq(Items) /\ queuedScopedBytes = ScopedBytes(queue)
    BY <1>1, <2>1 DEF Init
  <2>3. queuedScopedBytes <= backlogBytes
    BY ConnectionAssumption DEF Init
  <2>4. DOMAIN lagging = {} /\ ToSet(queue) = {}
    BY <1>2 DEF Init
  <2>5. lagging \in [DOMAIN lagging -> Cursors]
    BY <2>4 DEF Init
  <2> QED
    BY <2>2, <2>3, <2>4, <2>5 DEF Queued
<1>6. Told
  BY ItemFacts DEF Init, Told
<1>7. Linked
  <2>1. Min(Windows) \in Windows
    <3>1. Windows \in SUBSET Nat /\ Windows # {}
      BY ConnectionAssumption
    <3>2. PICK x \in Windows : \A y \in Windows : ~(<<y, x>> \in OpToRel(<, Nat))
      BY <3>1, NatLessThanWellFounded, WFMin
    <3>3. \A y \in Windows : ~(y < x)
      BY <3>1, <3>2 DEF OpToRel
    <3>4. \A y \in Windows : x <= y
      BY <3>1, <3>3
    <3> QED
      BY <3>4 DEF Min
  <2> QED
    BY <1>1, <2>1 DEF Init, Linked
<1>8. Called
  <2>1. ~Within("answer")
    BY <1>2 DEF Within, Init
  <2> QED
    BY <1>1, <1>2, <2>1 DEF Init, Called
<1>9. Answers /\ Lives
  BY <1>2 DEF Init, Answers, Lives
<1> QED
  BY <1>3, <1>4, <1>5, <1>6, <1>7, <1>8, <1>9 DEF IInv

-----------------------------------------------------------------------------
(* Commits and the delivery queue.                                         *)

LEMMA AtRest ==
    ASSUME Called, Idle
    PROVE  owed = None /\ due = {} /\ \A p : ~Within(p)
<1>1. DOMAIN stack = {}
  BY DEF Idle
<1> QED
  BY <1>1 DEF Called, Within

LEMMA Deliverable ==
    /\ \A s \in Scopes : Delivery("transient", s, None) \in Deliveries
    /\ \A s \in Scopes, to \in 0..MaxHead : Delivery("record", s, to) \in Deliveries
    /\ Delivery("reading", None, None) \in Deliveries
BY DEF Delivery, Deliveries, Cursors

LEMMA PublishKeeps == ASSUME IInv, NEW s \in Scopes, Publish(s) PROVE IInv'
<1>1. UNCHANGED <<gone, notices, registry, writer, link, call, shared>> /\ owed = None
  BY AtRest DEF Publish, IInv
<1>2. head[s] + 1 \in 0..MaxHead
  BY ConnectionAssumption DEF IInv, Logged, Publish
<1>3. Logged'
  BY <1>1, <1>2, Deliverable, AppendProperties DEF IInv, Logged, Publish
<1>4. Registered' /\ Told' /\ Linked' /\ Answers' /\ Lives' /\ Queued'
  BY <1>1 DEF IInv, Registered, Told, Linked, Answers, Lives, Queued, registry, writer, link, call
<1>5. Called'
  BY <1>1 DEF IInv, Called, writer, call, Within
<1> QED
  BY <1>3, <1>4, <1>5 DEF IInv

LEMMA NotifyKeeps == ASSUME IInv, NEW d \in Deliveries, Notify(d) PROVE IInv'
<1>1. UNCHANGED <<head, gone, registry, writer, link, call, shared>>
  BY DEF Notify
<1>3. Logged'
  BY <1>1, AppendProperties DEF IInv, Logged, Notify
<1>4. Registered' /\ Told' /\ Linked' /\ Answers' /\ Lives' /\ Queued'
  BY <1>1 DEF IInv, Registered, Told, Linked, Answers, Lives, Queued, registry, writer, link, call
<1>5. Called'
  BY <1>1 DEF IInv, Called, writer, call, Within
<1> QED
  BY <1>3, <1>4, <1>5 DEF IInv

LEMMA DeleteScopeKeeps == ASSUME IInv, NEW s \in Scopes, DeleteScope(s) PROVE IInv'
<1>1. UNCHANGED <<head, notices, deliveries, registry, writer, link, call, shared>> /\ owed = None
  BY AtRest DEF DeleteScope, IInv
<1>3. Logged'
  BY <1>1 DEF IInv, Logged, DeleteScope
<1>4. Registered' /\ Told' /\ Linked' /\ Answers' /\ Lives' /\ Queued'
  BY <1>1 DEF IInv, Registered, Told, Linked, Answers, Lives, Queued, registry, writer, link, call
<1>5. Called'
  BY <1>1 DEF IInv, Called, writer, call, Within
<1> QED
  BY <1>3, <1>4, <1>5 DEF IInv

LEMMA drainKeeps == ASSUME IInv, drain PROVE IInv'
<1>1. UNCHANGED <<log, deliveries, registry, writer, link, due, owed, shared>>
  BY DEF drain
<1>3. Logged' /\ Registered' /\ Told' /\ Linked' /\ Answers' /\ Lives' /\ Queued'
  BY <1>1 DEF IInv, Logged, Registered, Told, Linked, Answers, Lives, Queued, registry, writer,
              link, log
<1>4. stack \in Seq(Parts) /\ stack = <<>>
  BY DEF drain, Idle, IInv, Called
<1>5. <<"drain">> \o <<>> = <<"drain">>
  OBVIOUS
<1>6. stack' = <<"drain">> \o stack /\ due' = due /\ owed' = owed /\ lagging' = lagging
  BY <1>1, <1>4, <1>5 DEF drain, writer
<1>7. Called'
  BY <1>6, PartLists, Nests DEF IInv, Called
<1> QED
  BY <1>3, <1>7 DEF IInv

LEMMA DrainEndsKeeps == ASSUME IInv, DrainEnds PROVE IInv'
<1>1. UNCHANGED <<log, deliveries, registry, writer, link, due, owed, shared>>
  BY DEF DrainEnds
<1>3. Logged' /\ Registered' /\ Told' /\ Linked' /\ Answers' /\ Lives' /\ Queued'
  BY <1>1 DEF IInv, Logged, Registered, Told, Linked, Answers, Lives, Queued, registry, writer,
              link, log
<1>6. /\ Called /\ Running("drain") /\ Then(<<>>) /\ due' = due /\ owed' = owed
      /\ due' \subseteq DOMAIN lagging'
  BY <1>1 DEF DrainEnds, writer, IInv, Called
<1>7. Called'
  <2>1. "drain" # "answer" /\ "drain" # "catchUp" /\ <<>> \in Seq(Parts \ {"answer"})
    BY PartLists
  <2> QED
    BY <1>6, <2>1, Goes
<1> QED
  BY <1>3, <1>7 DEF IInv

LEMMA Receives ==
    ASSUME Registered, NEW s, Receiver(s) # None
    PROVE  Receiver(s) \in ToSet(subscriptions) /\ ScopeOf[Receiver(s)] = s
<1> DEFINE of == Only(subscriptions, ScopesWith(s))
<1>1. of \in Seq(Subs) /\ ToSet(of) = ToSet(subscriptions) \cap ScopesWith(s)
  BY OnlyType, OnlyHolds DEF Registered
<1>2. of # <<>> /\ Receiver(s) = Last(of)
  BY DEF Receiver
<1> HIDE DEF of
<1>3. Len(of) \in Nat /\ Len(of) > 0 /\ DOMAIN of = 1..Len(of)
  BY <1>1, <1>2, LenProperties, EmptySeq
<1>4. Last(of) \in ToSet(of)
  BY <1>3 DEF Last, ToSet
<1> QED
  BY <1>1, <1>2, <1>4 DEF ScopesWith

LEMMA Members ==
    ASSUME NEW S, NEW q \in Seq(S)
    PROVE  ToSet(q) \subseteq S /\ DOMAIN q = 1..Len(q) /\ Len(q) \in Nat
BY LenProperties, ElementOfSeq DEF ToSet

\* What a cut makes of the queue.
LEMMA Cuts ==
    ASSUME Queued, Told, NEW also \in Subs, cut(also)
    PROVE  LET affected == {also} \cup {x.sub : x \in {y \in ToSet(queue) : Scoped(y)}}
           IN  /\ affected \subseteq Subs
               /\ queue' \in Seq(Items) /\ queuedScopedBytes' = 0
               /\ \A x \in ToSet(queue') : ~Scoped(x)
               /\ DOMAIN lagging' = DOMAIN lagging \cup affected
               /\ lagging' \in [DOMAIN lagging' -> Cursors]
               /\ \A t \in DOMAIN lagging' :
                     lagging'[t] = IF t \in affected THEN promised[t] ELSE lagging[t]
               /\ \E n \in Seq(Items) :
                     /\ queue' = Cat(Unscoped(queue), n)
                     /\ \A x \in ToSet(n) : x.kind = "lagging" /\ x.sub \in affected
<1> DEFINE affected == {also} \cup {x.sub : x \in {y \in ToSet(queue) : Scoped(y)}}
           J == {j \in DOMAIN queue : Scoped(queue[j])}
           notice(s) == Item("lagging", s, promised[s], None, 1)
<1>1. affected = {also} \cup {queue[i].sub : i \in J}
  BY DEF ToSet
<1>2. affected \subseteq Subs
  BY DEF Queued
<1>3. IsFiniteSet(affected)
  <2>1. DOMAIN queue = 1..Len(queue) /\ Len(queue) \in Nat
    BY Members DEF Queued
  <2>2. IsFiniteSet(1..Len(queue))
    BY <2>1, FS_Interval
  <2>3. IsFiniteSet(J)
    BY <2>1, <2>2, FS_Subset
  <2>4. IsFiniteSet({queue[i].sub : i \in J})
    <3> DEFINE f == [i \in J |-> queue[i].sub]
               T == {queue[i].sub : i \in J}
    <3>1. f \in Surjection(J, T)
      BY DEF Surjection
    <3> HIDE DEF f, T
    <3>2. IsFiniteSet(T)
      BY <3>1, <2>3, FS_Surjection
    <3> QED
      BY <3>2 DEF T
  <2> QED
    BY <1>1, <2>4, FS_AddElement, FS_Union, FS_Singleton
<1>4. PICK order \in SetToSeqs(affected) :
         queue' = Unscoped(queue) \o [i \in DOMAIN order |-> notice(order[i])]
  BY <1>1 DEF cut
<1> HIDE DEF affected, J
<1>5. /\ DOMAIN lagging' = DOMAIN lagging \cup affected
      /\ \A t \in DOMAIN lagging' :
            lagging'[t] = IF t \in affected THEN promised[t] ELSE lagging[t]
      /\ lagging' = [t \in DOMAIN lagging \cup affected |->
                       IF t \in affected THEN promised[t] ELSE lagging[t]]
      /\ queuedScopedBytes' = 0
  BY <1>1 DEF cut, J
<1>6. lagging' \in [DOMAIN lagging' -> Cursors]
  <2>1. \A t \in DOMAIN lagging' : lagging'[t] \in Cursors
    BY <1>2, <1>5 DEF Queued, Told
  <2> QED
    BY <1>5, <2>1
<1> DEFINE n == Cardinality(affected)
           N == [i \in DOMAIN order |-> notice(order[i])]
<1>7. n \in Nat
  BY <1>3, FS_CardinalityType
<1>8. order \in [1..n -> affected] /\ DOMAIN order = 1..n
  BY <1>4 DEF SetToSeqs
<1> HIDE DEF n
<1>9. /\ N \in Seq(Items)
      /\ \A x \in ToSet(N) : ~Scoped(x) /\ x.kind = "lagging" /\ x.sub \in affected
  <2>1. \A i \in 1..n : /\ notice(order[i]) \in Items /\ ~Scoped(notice(order[i]))
                       /\ notice(order[i]).kind = "lagging"
                       /\ notice(order[i]).sub \in affected
    <3> SUFFICES ASSUME NEW s \in affected
                 PROVE  /\ notice(s) \in Items /\ ~Scoped(notice(s))
                        /\ notice(s).kind = "lagging" /\ notice(s).sub \in affected
      BY <1>8
    <3>0. s \in Subs
      BY <1>2
    <3>1. promised[s] \in Cursors
      BY <3>0 DEF Told
    <3>2. notice(s) \in Items
      BY <3>0, <3>1, ItemFacts
    <3> QED
      BY <3>2 DEF Scoped, Item
  <2> HIDE DEF notice
  <2>2. N \in [1..n -> Items] /\ DOMAIN N = 1..n /\ \A i \in 1..n : N[i] = notice(order[i])
    BY <1>8, <2>1
  <2> HIDE DEF N
  <2>3. N \in Seq(Items)
    BY <1>7, <2>2, SeqDef
  <2> QED
    BY <2>1, <2>2, <2>3 DEF ToSet
<1> HIDE DEF N
<1>10. Unscoped(queue) \in Seq(Items) /\ \A x \in ToSet(Unscoped(queue)) : ~Scoped(x)
  BY ScopedFilter DEF Unscoped, Queued
<1>11. queue' = Cat(Unscoped(queue), N)
  BY <1>4 DEF Cat, N
<1>12. queue' \in Seq(Items) /\ ToSet(queue') = ToSet(Unscoped(queue)) \cup ToSet(N)
  <2>1. /\ Cat(Unscoped(queue), N) \in Seq(Items)
        /\ ToSet(Cat(Unscoped(queue), N)) = ToSet(Unscoped(queue)) \cup ToSet(N)
    BY <1>9, <1>10, CatIs, CatSet
  <2> QED
    BY <2>1, <1>11
<1> QED
  BY <1>2, <1>5, <1>6, <1>9, <1>10, <1>11, <1>12 DEF affected

\* A call that takes a record's or a transient's frame to the writer.
LEMMA Enqueues ==
    ASSUME Queued, Told, Registered, Lives, Called, active, Running("drain"),
           NEW item \in Items, Scoped(item), item.sub \in ToSet(subscriptions),
           enqueueScoped(item), UNCHANGED <<registry, link, due, owed>>
    PROVE  Queued' /\ Told' /\ Lives' /\ Called'
<1>1. item.sub \in Subs
  BY Members DEF Registered
<1>2. CASE item.sub \in DOMAIN lagging /\ Then(<<"drain">>) /\ UNCHANGED writer
  <2>1. Queued' /\ Told' /\ Lives'
    BY <1>2 DEF Queued, Told, Lives, writer, registry
  <2>2. owed' = owed /\ due' = due /\ due' \subseteq DOMAIN lagging'
    BY <1>2 DEF writer, Called
  <2>3. Called'
    <3>1. "drain" # "answer" /\ "drain" # "catchUp" /\ <<"drain">> \in Seq(Parts \ {"answer"})
      BY PartLists
    <3> QED
      BY <1>2, <2>2, <3>1, Goes
  <2> QED
    BY <2>1, <2>3
<1>3. CASE /\ item.sub \notin DOMAIN lagging /\ Then(<<"pump", "drain">>)
           /\ UNCHANGED <<promised, reader>>
           /\ queuedScopedBytes + item.bytes > backlogBytes /\ cut(item.sub)
  <2> DEFINE affected == {item.sub} \cup {x.sub : x \in {y \in ToSet(queue) : Scoped(y)}}
  <2>1. /\ affected \subseteq Subs
        /\ queue' \in Seq(Items) /\ queuedScopedBytes' = 0
        /\ \A x \in ToSet(queue') : ~Scoped(x)
        /\ DOMAIN lagging' = DOMAIN lagging \cup affected
        /\ lagging' \in [DOMAIN lagging' -> Cursors]
    BY <1>1, <1>3, Cuts
  <2>2. affected \subseteq ToSet(subscriptions)
    BY DEF Lives
  <2> HIDE DEF affected
  <2>3. queuedScopedBytes' = ScopedBytes(queue')
    BY <2>1, ScopedNone
  <2>4. Queued'
    BY <2>1, <2>3, ConnectionAssumption DEF Queued
  <2>5. Told'
    BY <1>3 DEF Told
  <2>6. Lives'
    BY <1>3, <2>1, <2>2 DEF Lives, registry
  <2>7. owed' = owed /\ due' = due /\ due' \subseteq DOMAIN lagging'
    BY <2>1 DEF Called
  <2>8. Called'
    <3>1. "drain" # "answer" /\ "drain" # "catchUp"
          /\ <<"pump", "drain">> \in Seq(Parts \ {"answer"})
      BY PartLists
    <3> QED
      BY <1>3, <2>7, <3>1, Goes
  <2> QED
    BY <2>4, <2>5, <2>6, <2>8
<1>4. CASE /\ item.sub \notin DOMAIN lagging /\ Then(<<"pump", "drain">>)
           /\ UNCHANGED <<promised, reader, lagging>>
           /\ ~(queuedScopedBytes + item.bytes > backlogBytes) /\ Push(item)
           /\ queuedScopedBytes' = queuedScopedBytes + item.bytes
  <2>1. queue' = Pushed(queue, item)
    BY <1>4 DEF Push, Pushed
  <2>2. queue' \in Seq(Items) /\ ToSet(queue') = ToSet(queue) \cup {item}
    BY <2>1, PushedIs DEF Queued
  <2>3. ScopedBytes(queue') = ScopedBytes(queue) + item.bytes
    BY <2>1, ScopedPush DEF Queued, Pushed
  <2>4. queuedScopedBytes' <= backlogBytes
    <3>1. ScopedBytes(queue) \in Nat /\ item.bytes \in Nat /\ backlogBytes \in Nat
      BY Scoping, ItemFacts, ConnectionAssumption DEF Queued
    <3> QED
      BY <1>4, <3>1 DEF Queued
  <2>5. Queued'
    BY <1>1, <1>4, <2>2, <2>3, <2>4 DEF Queued
  <2>6. Told' /\ Lives'
    BY <1>4, <2>2 DEF Told, Lives, registry
  <2>7. owed' = owed /\ due' = due /\ due' \subseteq DOMAIN lagging'
    BY <1>4 DEF Called
  <2>8. Called'
    <3>1. "drain" # "answer" /\ "drain" # "catchUp"
          /\ <<"pump", "drain">> \in Seq(Parts \ {"answer"})
      BY PartLists
    <3> QED
      BY <1>4, <2>7, <3>1, Goes
  <2> QED
    BY <2>5, <2>6, <2>8
<1> QED
  BY <1>2, <1>3, <1>4 DEF enqueueScoped

LEMMA EnqueuesReading ==
    ASSUME Queued, Told, Lives, Called, Running("drain"),
           enqueueReading(Item("reading", None, None, None, 1)),
           UNCHANGED <<registry, link, due, owed>>
    PROVE  Queued' /\ Told' /\ Lives' /\ Called'
<1> DEFINE T == {old \in ToSet(queue) : old.kind # "reading"}
           item == Item("reading", None, None, None, 1)
           q == Only(queue, T)
<1>1. item \in Items /\ ~Scoped(item)
  <2>1. item \in Items
    BY ItemFacts
  <2> QED
    BY <2>1 DEF Scoped, Item
<1>2. /\ q \in Seq(Items) /\ ToSet(q) = ToSet(queue) \cap T
      /\ ScopedBytes(q) = ScopedBytes(queue)
  <2>1. \A x \in ToSet(queue) : Scoped(x) => x \in T
    BY DEF Scoped
  <2> HIDE DEF T
  <2> QED
    BY <2>1, ScopedFilter DEF Queued
<1>3. queue' = Pushed(q, item) /\ Then(<<"pump", "drain">>)
      /\ UNCHANGED <<queuedScopedBytes, promised, lagging, reader>>
  BY DEF enqueueReading, Pushed
<1> HIDE DEF item, q, T
<1>4. queue' \in Seq(Items) /\ ToSet(queue') = ToSet(q) \cup {item}
  BY <1>1, <1>2, <1>3, PushedIs
<1>5. ScopedBytes(queue') = ScopedBytes(queue)
  BY <1>1, <1>2, <1>3, ScopedPush DEF Pushed
<1>6. Queued'
  BY <1>1, <1>2, <1>3, <1>4, <1>5 DEF Queued
<1>7. Told' /\ Lives'
  BY <1>1, <1>2, <1>3, <1>4 DEF Told, Lives, registry
<1>8. owed' = owed /\ due' = due /\ due' \subseteq DOMAIN lagging'
  BY <1>3 DEF Called
<1>9. Called'
  <2>1. "drain" # "answer" /\ "drain" # "catchUp"
        /\ <<"pump", "drain">> \in Seq(Parts \ {"answer"})
    BY PartLists
  <2> QED
    BY <1>3, <1>8, <2>1, Goes
<1> QED
  BY <1>6, <1>7, <1>9

LEMMA deliverKeeps == ASSUME IInv, deliver PROVE IInv'
<1> DEFINE next == Head(deliveries)
           to == Receiver(next.scope)
<1>1. UNCHANGED <<log, registry, link, due, owed, shared>> /\ Running("drain")
      /\ deliveries # <<>> /\ deliveries' = Tail(deliveries)
  BY DEF deliver
<1>2. next \in Deliveries /\ Logged'
  BY <1>1, HeadTailProperties DEF IInv, Logged, log
<1>3. Registered' /\ Linked' /\ Answers'
  BY <1>1 DEF IInv, Registered, Linked, Answers, registry, link, log
<1>4. Queued /\ Told /\ Registered /\ Lives /\ Called
  BY DEF IInv
<1>5. CASE UNCHANGED <<writer, stack>>
  <2>1. Queued' /\ Told' /\ Lives' /\ Called'
    BY <1>1, <1>4, <1>5 DEF Queued, Told, Lives, Called, Within, writer, registry
  <2> QED
    BY <1>2, <1>3, <2>1 DEF IInv
<1>6. ASSUME active, next.kind # "reading", to # None, NEW bytes \in Sizes,
             enqueueScoped(Item(next.kind, to, None, next.to, bytes))
      PROVE  IInv'
  <2> DEFINE item == Item(next.kind, to, None, next.to, bytes)
  <2>1. to \in ToSet(subscriptions) /\ to \in Subs
    BY <1>4, <1>6, Receives, Members DEF Registered
  <2>2. next.kind \in {"record", "transient"} /\ next.to \in Cursors
    BY <1>2, <1>6 DEF Deliveries
  <2> HIDE DEF next, to
  <2>3. item \in Items
    BY <2>1, <2>2, ItemFacts
  <2>4. Scoped(item) /\ item.sub \in ToSet(subscriptions) /\ enqueueScoped(item)
    BY <1>6, <2>1, <2>2 DEF Scoped, Item
  <2> HIDE DEF item
  <2>5. Queued' /\ Told' /\ Lives' /\ Called'
    BY <1>1, <1>4, <1>6, <2>3, <2>4, Enqueues
  <2> QED
    BY <1>2, <1>3, <2>5 DEF IInv
<1>7. CASE enqueueReading(Item("reading", None, None, None, 1))
  <2>1. Queued' /\ Told' /\ Lives' /\ Called'
    BY <1>1, <1>4, <1>7, EnqueuesReading
  <2> QED
    BY <1>2, <1>3, <2>1 DEF IInv
<1> QED
  BY <1>5, <1>6, <1>7 DEF deliver

-----------------------------------------------------------------------------
(* Writing.                                                                *)

LEMMA Sends ==
    ASSUME Linked, NEW part \in {"whole", "more", "last"}, NEW bytes \in Nat, Send(part, bytes)
    PROVE  inFlight' \in Nat /\ wire' \in Seq(Frames)
<1>1. inFlight' \in Nat
  BY DEF Linked, Send
<1>2. [part |-> part, bytes |-> bytes] \in Frames
  BY DEF Frames
<1> QED
  BY <1>1, <1>2, AppendProperties DEF Linked, Send

LEMMA SizeFacts == \A b \in Sizes : b \in Nat \ {0}
BY ConnectionAssumption

LEMMA WriteFragmentKeeps == ASSUME IInv, WriteFragment PROVE IInv'
<1>1. UNCHANGED <<log, deliveries, registry, writer, window, keepalives, call, shared>>
  BY DEF WriteFragment
<1>2. Logged' /\ Registered' /\ Queued' /\ Told' /\ Answers' /\ Lives'
  BY <1>1 DEF IInv, Logged, Registered, Queued, Told, Answers, Lives, log, registry, writer, call
<1>3. Called'
  BY <1>1 DEF IInv, Called, Within, writer, call
<1>4. Linked'
  <2>1. PICK bytes \in Sizes :
          LET slice == IF bytes < partial THEN bytes ELSE partial
          IN  /\ Send(IF slice < partial THEN "more" ELSE "last", slice)
              /\ partial' = IF slice < partial THEN partial - slice ELSE None
    BY DEF WriteFragment
  <2> DEFINE slice == IF bytes < partial THEN bytes ELSE partial
             part == IF slice < partial THEN "more" ELSE "last"
  <2>2. partial \in Nat \ {0} /\ bytes \in Nat \ {0}
    BY SizeFacts DEF IInv, Linked, WriteFragment
  <2>3. slice \in Nat /\ part \in {"whole", "more", "last"} /\ Send(part, slice)
    BY <2>1, <2>2
  <2>4. partial' = None \/ partial' \in Nat \ {0}
    BY <2>1, <2>2
  <2> HIDE DEF slice, part
  <2>5. inFlight' \in Nat /\ wire' \in Seq(Frames)
    BY <2>3, Sends DEF IInv
  <2> QED
    BY <1>1, <2>4, <2>5 DEF IInv, Linked
<1> QED
  BY <1>2, <1>3, <1>4 DEF IInv

LEMMA ReadsType ==
    ASSUME NEW at \in Cursors, NEW item \in Items
    PROVE  Reads(at, item) \in Cursors
BY DEF Reads, Items

LEMMA WriteItemKeeps == ASSUME IInv, WriteItem PROVE IInv'
<1> DEFINE item == Head(queue)
<1>1. /\ UNCHANGED <<log, deliveries, registry, lagging, window, keepalives, call, shared>>
      /\ queue # <<>> /\ queue' = Tail(queue)
      /\ queuedScopedBytes' = IF Scoped(item) THEN queuedScopedBytes - item.bytes
                              ELSE queuedScopedBytes
      /\ promised' = IF item.kind = "record"
                     THEN [promised EXCEPT ![item.sub] = item.to] ELSE promised
      /\ reader' = IF item.sub = None THEN reader
                   ELSE [reader EXCEPT ![item.sub] = Reads(@, item)]
  BY DEF WriteItem
<1>2. Logged' /\ Registered' /\ Answers'
  BY <1>1 DEF IInv, Logged, Registered, Answers, log, registry, call
<1>3. Called'
  BY <1>1 DEF IInv, Called, Within, call
<1>4. /\ item \in Items /\ queue' \in Seq(Items)
      /\ ToSet(queue) = {item} \cup ToSet(queue')
  BY <1>1, OnlyTail DEF IInv, Queued
<1>5. Queued'
  <2>1. /\ Scoped(item) => ScopedBytes(Tail(queue)) = ScopedBytes(queue) - item.bytes
        /\ ~Scoped(item) => ScopedBytes(Tail(queue)) = ScopedBytes(queue)
    BY <1>1, ScopedPop DEF IInv, Queued
  <2> HIDE DEF item
  <2>2. queuedScopedBytes' = ScopedBytes(queue')
    BY <1>1, <2>1 DEF IInv, Queued
  <2>3. /\ ScopedBytes(queue) \in Nat /\ item.bytes \in Nat /\ backlogBytes \in Nat
        /\ queuedScopedBytes = ScopedBytes(queue) /\ queuedScopedBytes <= backlogBytes
    BY <1>4, Scoping, ItemFacts, ConnectionAssumption DEF IInv, Queued
  <2>4. queuedScopedBytes' <= backlogBytes
    BY <1>1, <2>3
  <2> QED
    BY <1>1, <1>4, <2>2, <2>4 DEF IInv, Queued
<1>6. Told'
  <2>1. item.to \in Cursors
    BY <1>4 DEF Items
  <2>2. \A s \in Subs : Reads(reader[s], item) \in Cursors
    BY <1>4, ReadsType DEF IInv, Told
  <2> HIDE DEF item
  <2>3. promised' \in [Subs -> Cursors]
    BY <1>1, <2>1 DEF IInv, Told
  <2>4. reader' \in [Subs -> Cursors]
    BY <1>1, <2>2 DEF IInv, Told
  <2> QED
    BY <2>3, <2>4 DEF Told
<1>7. Linked'
  <2>1. item.bytes \in Nat
    BY <1>4, ItemFacts
  <2>2. /\ partial = None
        /\ \/ Send("whole", item.bytes) /\ UNCHANGED partial
           \/ \E slice \in Sizes :
                 slice < item.bytes /\ Send("more", slice) /\ partial' = item.bytes - slice
    BY DEF WriteItem
  <2> HIDE DEF item
  <2>3. inFlight' \in Nat /\ wire' \in Seq(Frames)
    BY <2>1, <2>2, Sends, SizeFacts DEF IInv
  <2>4. partial' = None \/ partial' \in Nat \ {0}
    BY <2>1, <2>2, SizeFacts
  <2> QED
    BY <1>1, <2>3, <2>4 DEF IInv, Linked
<1>8. Lives'
  <2>1. item.kind = "record" /\ active => item.sub \in ToSet(subscriptions)
    BY <1>4 DEF IInv, Lives, Scoped
  <2> HIDE DEF item
  <2>2. \A s \in Subs : promised'[s] # None =>
           promised[s] # None \/ (item.kind = "record" /\ s = item.sub)
    BY <1>1 DEF IInv, Told
  <2> QED
    BY <1>1, <1>4, <2>1, <2>2 DEF IInv, Lives, registry
<1> QED
  BY <1>2, <1>3, <1>5, <1>6, <1>7, <1>8 DEF IInv

LEMMA PumpEndsKeeps == ASSUME IInv, PumpEnds PROVE IInv'
<1>1. UNCHANGED <<log, deliveries, registry, writer, link, owed, shared>> /\ Running("pump")
      /\ Then(IF CanCatchUp THEN <<"catchUp">> ELSE <<>>)
      /\ due' = IF CanCatchUp THEN DOMAIN lagging ELSE due
  BY DEF PumpEnds
<1>2. Logged' /\ Registered' /\ Queued' /\ Told' /\ Linked' /\ Answers' /\ Lives'
  BY <1>1 DEF IInv, Logged, Registered, Queued, Told, Linked, Answers, Lives, log, registry,
              writer, link
<1>3. /\ Called /\ "pump" # "answer" /\ "pump" # "catchUp" /\ owed' = owed
      /\ due' \subseteq DOMAIN lagging'
  BY <1>1 DEF IInv, Called, writer
<1>4. Called'
  <2>1. CASE CanCatchUp
    <3>1. Then(<<"catchUp">>) /\ <<"catchUp">> \in Seq(Parts \ {"answer"})
          /\ In(<<"catchUp">>, "catchUp")
      BY <1>1, <2>1, PartLists
    <3> QED
      BY <1>1, <1>3, <3>1, Goes
  <2>2. CASE ~CanCatchUp
    <3>1. Then(<<>>) /\ <<>> \in Seq(Parts \ {"answer"}) /\ due' = due
      BY <1>1, <2>2, PartLists
    <3> QED
      BY <1>1, <1>3, <3>1, Goes
  <2> QED
    BY <2>1, <2>2
<1> QED
  BY <1>2, <1>4 DEF IInv

-----------------------------------------------------------------------------
(* Catch-ups.                                                              *)

\* What a release leaves, but for the registrations.
LEMMA Releases ==
    ASSUME Queued, Told, NEW s \in Subs, release(s)
    PROVE  /\ Queued' /\ Told'
           /\ DOMAIN lagging' = DOMAIN lagging \ {s}
           /\ promised'[s] = None /\ \A t \in Subs \ {s} : promised'[t] = promised[t]
           /\ ToSet(queue') \subseteq ToSet(queue)
           /\ \A x \in ToSet(queue') : Scoped(x) => x.sub # s
<1> DEFINE T == {item \in ToSet(queue) : ~(Scoped(item) /\ item.sub = s)}
<1>1. queue' = Only(queue, T) /\ queuedScopedBytes' = ScopedBytes(queue') /\ reader' = reader
      /\ lagging' = [t \in DOMAIN lagging \ {s} |-> lagging[t]]
      /\ promised' = [promised EXCEPT ![s] = None]
  BY DEF release, WithoutFramesOf
<1>2. \A x \in T : x \in ToSet(queue) /\ (Scoped(x) => x.sub # s)
  OBVIOUS
<1> HIDE DEF T
<1>3. queue' \in Seq(Items) /\ ToSet(queue') = ToSet(queue) \cap T
  BY <1>1, ScopedFilter DEF Queued
<1>4. ScopedBytes(queue') <= ScopedBytes(queue)
  <2>1. Only(Only(queue, T), ScopedItems) = Only(queue, ScopedItems \cap T)
    <3>1. T \cap ScopedItems = ScopedItems \cap T
      OBVIOUS
    <3> QED
      BY <3>1, OnlyTwice DEF Queued
  <2>2. Only(Only(queue, ScopedItems), T) = Only(queue, ScopedItems \cap T)
    BY OnlyTwice DEF Queued
  <2>3. Only(queue, ScopedItems) \in Seq(Items)
    BY OnlyType DEF Queued
  <2>4. Bytes(Only(Only(queue, ScopedItems), T)) <= Bytes(Only(queue, ScopedItems))
    BY <2>3, ItemFacts, BytesLess
  <2>5. /\ ScopedBytes(queue') = Bytes(Only(queue', ScopedItems))
        /\ ScopedBytes(queue) = Bytes(Only(queue, ScopedItems))
    BY <1>3, Scoping DEF Queued
  <2> QED
    BY <1>1, <2>1, <2>2, <2>4, <2>5
<1>5. queuedScopedBytes' <= backlogBytes
  <2>1. ScopedBytes(queue) \in Nat /\ ScopedBytes(queue') \in Nat /\ backlogBytes \in Nat
    BY <1>3, Scoping, ConnectionAssumption DEF Queued
  <2> QED
    BY <1>1, <1>4, <2>1 DEF Queued
<1>6. Queued'
  BY <1>1, <1>2, <1>3, <1>5 DEF Queued
<1>7. Told'
  BY <1>1, ItemFacts DEF Told
<1> QED
  BY <1>1, <1>2, <1>3, <1>6, <1>7 DEF Told

LEMMA DrainFirstKeeps == ASSUME IInv, DrainFirst PROVE IInv'
<1>1. UNCHANGED <<log, deliveries, registry, writer, link, due, owed, shared>>
      /\ stack' = <<"drain">> \o stack
  BY DEF DrainFirst
<1>2. Logged' /\ Registered' /\ Queued' /\ Told' /\ Linked' /\ Answers' /\ Lives'
  BY <1>1 DEF IInv, Logged, Registered, Queued, Told, Linked, Answers, Lives, log, registry,
              writer, link
<1>3. Called /\ owed' = owed /\ due' \subseteq due /\ due' \subseteq DOMAIN lagging'
  BY <1>1 DEF IInv, Called, writer
<1>4. Called'
  BY <1>1, <1>3, PartLists, Nests
<1> QED
  BY <1>2, <1>4 DEF IInv

LEMMA CatchUpKeeps == ASSUME IInv, NEW s, CatchUp(s) PROVE IInv'
<1>1. /\ UNCHANGED <<log, deliveries, registry, queuedScopedBytes, reader, link, owed, shared>>
      /\ active /\ s \in due /\ due' = due \ {s}
      /\ lagging' = [t \in DOMAIN lagging \ {s} |-> lagging[t]]
      /\ promised' = [promised EXCEPT ![s] = head[ScopeOf[s]]]
      /\ stack' = <<"pump">> \o stack
  BY DEF CatchUp, CatchesUp
<1>2. Logged' /\ Registered' /\ Linked' /\ Answers'
  BY <1>1 DEF IInv, Logged, Registered, Linked, Answers, log, registry, link
<1>3. s \in DOMAIN lagging /\ s \in Subs
  BY <1>1 DEF IInv, Called, Queued
<1>4. head[ScopeOf[s]] \in Cursors
  BY <1>3, ConnectionAssumption DEF IInv, Logged, Cursors
<1>5. PICK from \in {lagging[s], None}, bytes \in Sizes :
         Push(Item("catchup", s, from, head[ScopeOf[s]], bytes))
  BY DEF CatchUp
<1> DEFINE item == Item("catchup", s, from, head[ScopeOf[s]], bytes)
<1>6. item \in Items /\ ~Scoped(item) /\ queue' = Pushed(queue, item)
  <2>1. from \in Cursors
    BY <1>3, <1>5, ItemFacts DEF IInv, Queued
  <2>2. item \in Items
    BY <2>1, <1>3, <1>4, <1>5, ItemFacts
  <2> QED
    BY <2>2, <1>5 DEF Push, Pushed, Scoped, Item
<1> HIDE DEF item
<1>7. queue' \in Seq(Items) /\ ToSet(queue') = ToSet(queue) \cup {item}
  BY <1>6, PushedIs DEF IInv, Queued
<1>8. Queued'
  <2>1. ScopedBytes(queue') = ScopedBytes(queue)
    BY <1>6, ScopedPush DEF IInv, Queued, Pushed
  <2> QED
    BY <1>1, <1>6, <1>7, <2>1 DEF IInv, Queued
<1>9. Told'
  BY <1>1, <1>4 DEF IInv, Told
<1>10. Called'
  <2>1. Called /\ owed' = owed /\ due' \subseteq due /\ due' \subseteq DOMAIN lagging'
    BY <1>1 DEF IInv, Called
  <2> QED
    BY <1>1, <2>1, PartLists, Nests
<1>11. Lives'
  BY <1>1, <1>3, <1>6, <1>7 DEF IInv, Lives, Told, registry
<1> QED
  BY <1>2, <1>8, <1>9, <1>10, <1>11 DEF IInv

\* The registrations without one of them.
LEMMA Unregisters ==
    ASSUME Registered, NEW s \in Subs, subscriptions' = Only(subscriptions, Subs \ {s}),
           active' = active, ids' = ids \/ (ids' = [ids EXCEPT ![s] = "ended"])
    PROVE  Registered' /\ ToSet(subscriptions') = ToSet(subscriptions) \ {s}
<1>1. /\ subscriptions' \in Seq(Subs) /\ IsInjective(subscriptions')
      /\ ToSet(subscriptions') = ToSet(subscriptions) \cap (Subs \ {s})
  BY OnlyType, OnlyHolds, OnlyInjective DEF Registered
<1>2. ToSet(subscriptions) \subseteq Subs
  BY Members DEF Registered
<1>3. ids' \in [Subs -> {"fresh", "given", "ended"}]
  BY DEF Registered
<1>4. \A t \in ToSet(subscriptions') : ids'[t] # "fresh"
  BY <1>1 DEF Registered
<1> QED
  BY <1>1, <1>2, <1>3, <1>4 DEF Registered

LEMMA CatchUpMissingKeeps == ASSUME IInv, NEW s, CatchUpMissing(s) PROVE IInv'
<1>1. /\ UNCHANGED <<log, deliveries, active, ids, link, stack, owed, shared>>
      /\ s \in due /\ due' = due \ {s} /\ ScopeOf[s] \in gone /\ release(s)
      /\ subscriptions' = Only(subscriptions, Subs \ {s})
  BY DEF CatchUpMissing, CatchesUp
<1>2. s \in DOMAIN lagging /\ s \in Subs
  BY <1>1 DEF IInv, Called, Queued
<1>3. Registered' /\ ToSet(subscriptions') = ToSet(subscriptions) \ {s}
  BY <1>1, <1>2, Unregisters DEF IInv
<1>4. /\ Queued' /\ Told'
      /\ DOMAIN lagging' = DOMAIN lagging \ {s}
      /\ promised'[s] = None /\ \A t \in Subs \ {s} : promised'[t] = promised[t]
      /\ ToSet(queue') \subseteq ToSet(queue)
      /\ \A x \in ToSet(queue') : Scoped(x) => x.sub # s
  BY <1>1, <1>2, Releases DEF IInv
<1>5. Logged' /\ Linked'
  BY <1>1 DEF IInv, Logged, Linked, log, link
<1>6. Called'
  BY <1>1, <1>4 DEF IInv, Called, Within
<1>7. Answers'
  BY <1>1, <1>3 DEF IInv, Answers, log
<1>8. Lives'
  BY <1>1, <1>3, <1>4 DEF IInv, Lives
<1> QED
  BY <1>3, <1>4, <1>5, <1>6, <1>7, <1>8 DEF IInv

LEMMA Closes ==
    ASSUME IInv, Closed, UNCHANGED <<owed, log>>
    PROVE  Registered' /\ Answers'
<1>1. <<>> \in Seq(Subs) /\ ToSet(<<>>) = {} /\ IsInjective(<<>>)
  BY EmptySeq DEF ToSet, IsInjective
<1> QED
  BY <1>1 DEF IInv, Registered, Answers, Closed, log

LEMMA CatchUpThrowsKeeps == ASSUME IInv, NEW s, CatchUpThrows(s) PROVE IInv'
<1>1. UNCHANGED <<log, deliveries, writer, link, stack, owed, shared>> /\ Closed
      /\ due' \subseteq due
  BY DEF CatchUpThrows, CatchesUp
<1>2. Logged' /\ Queued' /\ Told' /\ Linked'
  BY <1>1 DEF IInv, Logged, Queued, Told, Linked, log, writer, link
<1>3. Registered' /\ Answers'
  BY <1>1, Closes
<1>4. Called'
  BY <1>1 DEF IInv, Called, Within, writer
<1>5. Lives'
  BY <1>1 DEF Lives, Closed
<1> QED
  BY <1>2, <1>3, <1>4, <1>5 DEF IInv

LEMMA CatchUpEndsKeeps == ASSUME IInv, CatchUpEnds PROVE IInv'
<1>1. UNCHANGED <<log, deliveries, registry, writer, link, owed, shared>> /\ Running("catchUp")
      /\ Then(<<"pump">>) /\ due' = {}
  BY DEF CatchUpEnds
<1>2. Logged' /\ Registered' /\ Queued' /\ Told' /\ Linked' /\ Answers' /\ Lives'
  BY <1>1 DEF IInv, Logged, Registered, Queued, Told, Linked, Answers, Lives, log, registry,
              writer, link
<1>3. Called /\ "catchUp" # "answer" /\ owed' = owed /\ due' \subseteq DOMAIN lagging'
      /\ <<"pump">> \in Seq(Parts \ {"answer"})
  BY <1>1, PartLists DEF IInv
<1>4. Called'
  BY <1>1, <1>3, Goes
<1> QED
  BY <1>2, <1>4 DEF IInv

-----------------------------------------------------------------------------
(* Commands and acknowledgements.                                          *)

LEMMA CommandCalls ==
    ASSUME Called, Command, due' = due, owed' \in Items, owed'.sub \in Subs,
           owed'.kind = "answer", due' \subseteq DOMAIN lagging'
    PROVE  Called'
<1> DEFINE st == <<"drain", "answer">>
<1>1. stack' = st
  BY DEF Command
<1>2. /\ st \in Seq(Parts) /\ Len(st) = 2 /\ DOMAIN st = 1..2
      /\ st[1] = "drain" /\ st[2] = "answer"
  BY DEF Parts
<1> HIDE DEF st
<1>3. AnswerLast(st) /\ In(st, "answer")
  BY <1>2 DEF AnswerLast, In
<1>4. owed' # None
  BY NoneAssumption
<1>5. due' = {}
  BY AtRest DEF Command
<1> QED
  BY <1>1, <1>2, <1>3, <1>4, <1>5 DEF Called, Within, AnswerLast, In

LEMMA Registers ==
    ASSUME Registered, NEW s \in Subs, ids[s] = "fresh", Register(s)
    PROVE  /\ Registered' /\ active' = active
           /\ ToSet(subscriptions') = ToSet(subscriptions) \cup {s}
           /\ s \notin ToSet(subscriptions)
<1>1. subscriptions' = Append(subscriptions, s) /\ ids' = [ids EXCEPT ![s] = "given"]
      /\ active' = active /\ s \notin ToSet(subscriptions)
  BY DEF Register, Registered
<1>2. /\ subscriptions' \in Seq(Subs)
      /\ ToSet(subscriptions') = ToSet(subscriptions) \cup {s}
  BY <1>1, PushedIs DEF Registered, Pushed
<1>3. IsInjective(subscriptions')
  <2>1. /\ Len(subscriptions) \in Nat /\ DOMAIN subscriptions = 1..Len(subscriptions)
        /\ DOMAIN subscriptions' = 1..(Len(subscriptions) + 1)
        /\ subscriptions'[Len(subscriptions) + 1] = s
        /\ \A i \in DOMAIN subscriptions : subscriptions'[i] = subscriptions[i]
    BY <1>1, AppendProperties, LenProperties DEF Registered
  <2>2. \A i \in DOMAIN subscriptions : subscriptions[i] # s
    BY <1>1 DEF ToSet
  <2>3. \A i, j \in DOMAIN subscriptions : subscriptions[i] = subscriptions[j] => i = j
    BY DEF Registered, IsInjective
  <2>4. \A i \in DOMAIN subscriptions' : i \in DOMAIN subscriptions \/ i = Len(subscriptions) + 1
    BY <2>1
  <2> QED
    BY <2>1, <2>2, <2>3, <2>4 DEF IsInjective
<1>4. \A t \in ToSet(subscriptions') : ids'[t] # "fresh"
  BY <1>1, <1>2, Members DEF Registered
<1> QED
  BY <1>1, <1>2, <1>3, <1>4 DEF Registered

LEMMA replayKeeps == ASSUME IInv, NEW s \in Subs, replay(s) PROVE IInv'
<1>1. /\ Command /\ ids[s] = "fresh" /\ ScopeOf[s] \notin gone /\ Register(s)
      /\ UNCHANGED <<log, deliveries, writer, link, due>>
  BY DEF replay
<1>2. PICK bytes \in Sizes : owed' = Item("answer", s, None, head[ScopeOf[s]], bytes)
  BY DEF replay
<1>3. Logged' /\ Queued' /\ Told' /\ Linked'
  BY <1>1 DEF IInv, Logged, Queued, Told, Linked, log, writer, link
<1>4. /\ Registered' /\ active' = active
      /\ ToSet(subscriptions') = ToSet(subscriptions) \cup {s}
  BY <1>1, Registers DEF IInv
<1>5. owed' \in Items /\ owed'.sub = s /\ owed'.kind = "answer"
  <2>1. head[ScopeOf[s]] \in Cursors
    BY ConnectionAssumption DEF IInv, Logged, Cursors
  <2>2. owed' \in Items
    BY <1>2, <2>1, ItemFacts
  <2> QED
    BY <1>2, <2>2 DEF Item
<1>6. Called'
  <2>1. due' = due /\ due' \subseteq DOMAIN lagging' /\ Called
    BY <1>1 DEF IInv, Called, writer
  <2> QED
    BY <1>1, <1>5, <2>1, CommandCalls
<1>7. Answers'
  BY <1>1, <1>4, <1>5 DEF Answers, log
<1>8. Lives'
  BY <1>1, <1>4 DEF IInv, Lives, writer
<1> QED
  BY <1>3, <1>4, <1>6, <1>7, <1>8 DEF IInv

LEMMA subscribeKeeps == ASSUME IInv, NEW s \in Subs, subscribe(s) PROVE IInv'
<1>1. /\ Command /\ ids[s] = "fresh" /\ Register(s)
      /\ UNCHANGED <<log, deliveries, writer, link, due>>
      /\ owed' = Item("answer", s, None, None, 1)
  BY DEF subscribe
<1>3. Logged' /\ Queued' /\ Told' /\ Linked'
  BY <1>1 DEF IInv, Logged, Queued, Told, Linked, log, writer, link
<1>4. /\ Registered' /\ active' = active
      /\ ToSet(subscriptions') = ToSet(subscriptions) \cup {s}
  BY <1>1, Registers DEF IInv
<1>5. owed' \in Items /\ owed'.sub = s /\ owed'.kind = "answer" /\ owed'.to = None
  <2>1. owed' \in Items
    BY <1>1, ItemFacts
  <2> QED
    BY <1>1, <2>1 DEF Item
<1>6. Called'
  <2>1. due' = due /\ due' \subseteq DOMAIN lagging' /\ Called
    BY <1>1 DEF IInv, Called, writer
  <2> QED
    BY <1>1, <1>5, <2>1, CommandCalls
<1>7. Answers'
  BY <1>5 DEF Answers
<1>8. Lives'
  BY <1>1, <1>4 DEF IInv, Lives, writer
<1> QED
  BY <1>3, <1>4, <1>6, <1>7, <1>8 DEF IInv

LEMMA unsubscribeKeeps == ASSUME IInv, NEW s \in Subs, unsubscribe(s) PROVE IInv'
<1>1. /\ Command /\ release(s) /\ ids' = [ids EXCEPT ![s] = "ended"]
      /\ subscriptions' = Only(subscriptions, Subs \ {s})
      /\ UNCHANGED <<log, deliveries, active, link, due, shared>>
      /\ owed' = Item("answer", s, None, None, 1)
  BY DEF unsubscribe
<1>2. Registered' /\ ToSet(subscriptions') = ToSet(subscriptions) \ {s}
  BY <1>1, Unregisters DEF IInv
<1>3. /\ Queued' /\ Told'
      /\ DOMAIN lagging' = DOMAIN lagging \ {s}
      /\ promised'[s] = None /\ \A t \in Subs \ {s} : promised'[t] = promised[t]
      /\ ToSet(queue') \subseteq ToSet(queue)
      /\ \A x \in ToSet(queue') : Scoped(x) => x.sub # s
  BY <1>1, Releases DEF IInv
<1>4. Logged' /\ Linked'
  BY <1>1 DEF IInv, Logged, Linked, log, link
<1>5. owed' \in Items /\ owed'.sub = s /\ owed'.kind = "answer" /\ owed'.to = None
  <2>1. owed' \in Items
    BY <1>1, ItemFacts
  <2> QED
    BY <1>1, <2>1 DEF Item
<1>6. Called'
  <2>1. due' = due /\ due' = {} /\ Called
    BY <1>1, AtRest DEF IInv, Command
  <2> QED
    BY <1>1, <1>5, <2>1, CommandCalls
<1>7. Answers'
  BY <1>5 DEF Answers
<1>8. Lives'
  BY <1>1, <1>2, <1>3 DEF IInv, Lives
<1> QED
  BY <1>2, <1>3, <1>4, <1>6, <1>7, <1>8 DEF IInv

LEMMA answerKeeps == ASSUME IInv, answer PROVE IInv'
<1>1. /\ UNCHANGED <<log, deliveries, registry, queuedScopedBytes, lagging, reader, link, due,
                     shared>>
      /\ Running("answer") /\ owed' = None
  BY DEF answer
<1>2. Logged' /\ Registered' /\ Linked' /\ Answers'
  BY <1>1 DEF IInv, Logged, Registered, Linked, Answers, log, registry, link
<1>3. /\ stack \in Seq(Parts) /\ stack # <<>> /\ Head(stack) = "answer"
      /\ Len(stack) = 1 /\ Tail(stack) = <<>>
  <2>1. stack \in Seq(Parts) /\ stack # <<>> /\ Head(stack) = "answer"
    BY <1>1 DEF IInv, Called, Running, Idle
  <2>2. 1 \in DOMAIN stack /\ stack[1] = "answer"
    BY <2>1, LenProperties, EmptySeq, HeadTailProperties
  <2>3. Len(stack) = 1
    BY <2>2 DEF IInv, Called
  <2> QED
    <3>1. Tail(stack) \in Seq(Parts) /\ Len(Tail(stack)) = 0
      BY <2>1, <2>3, HeadTailProperties
    <3> QED
      BY <2>1, <2>3, <3>1, EmptySeq
<1>4. owed \in Items /\ owed.sub \in Subs /\ owed.kind = "answer" /\ due = {}
  <2>1. Within("answer") /\ ~Within("catchUp")
    <3>1. DOMAIN stack = {1} /\ stack[1] = "answer"
      BY <1>3, LenProperties, HeadTailProperties
    <3> QED
      BY <3>1 DEF Within
  <2> QED
    BY <2>1 DEF IInv, Called
<1>5. Called'
  <2>1. stack' \in {<<"pump">>, <<>>}
    <3>1. <<"pump">> \o <<>> = <<"pump">> /\ <<>> \o <<>> = <<>>
      OBVIOUS
    <3> QED
      BY <1>3, <3>1 DEF answer, Then
  <2>2. stack' \in Seq(Parts) /\ ~In(stack', "answer")
    <3>1. <<"pump">> \in Seq(Parts) /\ <<>> \in Seq(Parts)
      BY DEF Parts
    <3>2. ~In(<<"pump">>, "answer") /\ ~In(<<>>, "answer")
      BY DEF In
    <3> QED
      BY <2>1, <3>1, <3>2
  <2>3. \A i \in DOMAIN stack' : stack'[i] # "answer"
    BY <2>2 DEF In
  <2> QED
    BY <1>1, <1>4, <2>2, <2>3 DEF IInv, Called, Within
<1>6. CASE active
  <2>1. /\ queue' = Pushed(queue, owed)
        /\ promised' = IF owed.to = None THEN promised ELSE [promised EXCEPT ![owed.sub] = owed.to]
    BY <1>6 DEF answer, Push, Pushed
  <2>2. ~Scoped(owed)
    BY <1>4 DEF Scoped
  <2>3. queue' \in Seq(Items) /\ ToSet(queue') = ToSet(queue) \cup {owed}
    BY <1>4, <2>1, PushedIs DEF IInv, Queued
  <2>4. ScopedBytes(queue') = ScopedBytes(queue)
    BY <1>4, <2>1, <2>2, ScopedPush DEF IInv, Queued, Pushed
  <2>5. Queued'
    BY <1>1, <2>2, <2>3, <2>4 DEF IInv, Queued
  <2>6. owed.to \in Cursors
    BY <1>4 DEF Items
  <2>7. Told'
    BY <1>1, <2>1, <2>6 DEF IInv, Told
  <2>8. owed.to # None => owed.sub \in ToSet(subscriptions)
    BY <1>4, <1>6, NoneAssumption DEF IInv, Answers
  <2>9. Lives'
    BY <1>1, <2>1, <2>2, <2>3, <2>8 DEF IInv, Lives, Told, registry
  <2> QED
    BY <1>2, <1>5, <2>5, <2>7, <2>9 DEF IInv
<1>7. CASE ~active
  <2>1. UNCHANGED <<queue, promised>>
    BY <1>7 DEF answer
  <2>2. Queued' /\ Told' /\ Lives'
    BY <1>1, <2>1 DEF IInv, Queued, Told, Lives, registry
  <2> QED
    BY <1>2, <1>5, <2>2 DEF IInv
<1> QED
  BY <1>6, <1>7 DEF IInv, Registered

LEMMA ackKeeps == ASSUME IInv, NEW n \in DOMAIN wire, ack(n) PROVE IInv'
<1>1. /\ UNCHANGED <<log, deliveries, registry, writer, keepalives, partial, due, owed, shared>>
      /\ n \in 1..Len(wire) /\ wire' = SubSeq(wire, n + 1, Len(wire))
      /\ inFlight' = Bytes(wire') /\ window' \in Windows /\ stack' = <<"pump">> /\ Idle
  BY DEF ack
<1>2. Logged' /\ Registered' /\ Queued' /\ Told' /\ Answers' /\ Lives'
  BY <1>1 DEF IInv, Logged, Registered, Queued, Told, Answers, Lives, log, registry, writer
<1>3. Linked'
  <2>1. wire \in Seq(Frames) /\ Len(wire) \in Nat
    BY LenProperties DEF IInv, Linked
  <2>2. wire' \in Seq(Frames)
    <3>1. \A i \in (n + 1)..Len(wire) : i \in 1..Len(wire)
      BY <1>1, <2>1
    <3>2. \A i \in (n + 1)..Len(wire) : wire[i] \in Frames
      BY <2>1, <3>1, ElementOfSeq
    <3> QED
      BY <1>1, <2>1, <3>2, SubSeqProperties
  <2>3. \A x \in Frames : x.bytes \in Nat
    BY DEF Frames
  <2>4. inFlight' \in Nat
    BY <1>1, <2>2, <2>3, BytesType
  <2> QED
    BY <1>1, <2>2, <2>4 DEF IInv, Linked
<1>4. Called'
  <2>1. Called /\ stack = <<>> /\ stack \in Seq(Parts)
    BY <1>1 DEF IInv, Called, Idle
  <2>2. stack' = <<"pump">> \o stack /\ owed' = owed /\ due' \subseteq due
    BY <1>1, <2>1
  <2>3. due' \subseteq DOMAIN lagging'
    BY <1>1, <2>1 DEF Called, writer
  <2> QED
    BY <2>1, <2>2, <2>3, PartLists, Nests
<1> QED
  BY <1>2, <1>3, <1>4 DEF IInv

LEMMA keepaliveKeeps == ASSUME IInv, keepalive PROVE IInv'
<1>1. /\ UNCHANGED <<log, deliveries, registry, writer, window, partial, call, shared>>
      /\ Send("whole", 1)
  BY DEF keepalive
<1>2. Logged' /\ Registered' /\ Queued' /\ Told' /\ Answers' /\ Lives'
  BY <1>1 DEF IInv, Logged, Registered, Queued, Told, Answers, Lives, log, registry, writer, call
<1>3. Called'
  BY <1>1 DEF IInv, Called, Within, writer, call
<1>4. inFlight' \in Nat /\ wire' \in Seq(Frames)
  BY <1>1, Sends DEF IInv
<1>5. Linked'
  BY <1>1, <1>4 DEF IInv, Linked
<1> QED
  BY <1>2, <1>3, <1>5 DEF IInv

LEMMA closeKeeps == ASSUME IInv, close PROVE IInv'
<1>1. UNCHANGED <<log, deliveries, writer, link, call, shared>> /\ Closed
  BY DEF close
<1>2. Logged' /\ Queued' /\ Told' /\ Linked'
  BY <1>1 DEF IInv, Logged, Queued, Told, Linked, log, writer, link
<1>3. Registered' /\ Answers'
  BY <1>1, Closes DEF call
<1>4. Called'
  BY <1>1 DEF IInv, Called, Within, writer, call
<1>5. Lives'
  BY <1>1 DEF Lives, Closed
<1> QED
  BY <1>2, <1>3, <1>4, <1>5 DEF IInv

-----------------------------------------------------------------------------
(* The theorems.                                                           *)

LEMMA StepKeeps == IInv /\ [Next]_vars => IInv'
<1> SUFFICES ASSUME IInv, [Next]_vars PROVE IInv'
  OBVIOUS
<1>1. CASE UNCHANGED vars
  BY <1>1 DEF vars, log, registry, link, writer, call, IInv, Logged, Registered, Queued, Told,
              Linked, Called, Within, Answers, Lives
<1>2. CASE \E s \in Scopes : Publish(s) \/ DeleteScope(s) \/ Notify(Delivery("transient", s, None))
  BY <1>2, PublishKeeps, DeleteScopeKeeps, NotifyKeeps, Deliverable
<1>3. CASE Notify(Delivery("reading", None, None))
  BY <1>3, NotifyKeeps, Deliverable
<1>4. CASE drain
  BY <1>4, drainKeeps
<1>5. CASE \E s \in Subs : replay(s) \/ subscribe(s) \/ unsubscribe(s)
  BY <1>5, replayKeeps, subscribeKeeps, unsubscribeKeeps
<1>6. CASE Acked
  BY <1>6, ackKeeps DEF Acked
<1>7. CASE keepalive \/ close
  BY <1>7, keepaliveKeeps, closeKeeps
<1>8. CASE DrainEnds \/ deliver
  BY <1>8, DrainEndsKeeps, deliverKeeps
<1>9. CASE WriteFragment \/ WriteItem \/ PumpEnds
  BY <1>9, WriteFragmentKeeps, WriteItemKeeps, PumpEndsKeeps
<1>10. CASE DrainFirst \/ CatchingUp \/ CatchUpEnds
  BY <1>10, DrainFirstKeeps, CatchUpKeeps, CatchUpMissingKeeps, CatchUpThrowsKeeps, CatchUpEndsKeeps
     DEF CatchingUp
<1>11. CASE answer
  BY <1>11, answerKeeps
<1> QED
  BY <1>1, <1>2, <1>3, <1>4, <1>5, <1>6, <1>7, <1>8, <1>9, <1>10, <1>11 DEF Next, Step

\* What the four theorems below rest on.
THEOREM Inductive == Spec => []IInv
<1>1. Init => IInv
  BY Starts
<1>2. IInv /\ [Next]_vars => IInv'
  BY StepKeeps
<1> QED
  BY <1>1, <1>2, PTL DEF Spec

\* Every variable keeps its type, and the counter counts the bytes of the live
\* frames in the queue (connection-writer.ts, queuedScopedBytes).
THEOREM TypeCorrect == Spec => []TypeOK
<1>1. IInv => TypeOK
  <2> SUFFICES ASSUME IInv PROVE TypeOK
    OBVIOUS
  <2>1. \A i \in DOMAIN deliveries : deliveries[i] \in Deliveries
    BY Members, ElementOfSeq DEF IInv, Logged
  <2>2. \A i \in DOMAIN deliveries : deliveries[i].kind \in {"record", "transient", "reading"}
    BY <2>1 DEF Deliveries
  <2>3. \A i \in DOMAIN wire : wire[i] \in Frames
    BY Members, ElementOfSeq DEF IInv, Linked
  <2>4. \A i \in DOMAIN wire : wire[i].part \in {"whole", "more", "last"}
    BY <2>3 DEF Frames
  <2>5. ToSet(subscriptions) \subseteq Subs /\ ToSet(queue) \subseteq Items
    BY Members DEF IInv, Registered, Queued
  <2>6. ToSet(stack) \subseteq {"pump", "drain", "catchUp", "answer"}
    BY Members DEF IInv, Called, Parts
  <2>7. /\ head \in [Scopes -> 0..MaxHead] /\ gone \subseteq Scopes
        /\ ids \in [Subs -> {"fresh", "given", "ended"}] /\ IsInjective(subscriptions)
        /\ partial = None \/ partial \in Nat \ {0}
        /\ inFlight \in Nat /\ window \in Windows
        /\ promised \in [Subs -> Cursors]
    BY DEF IInv, Logged, Registered, Linked, Told
  <2>8. /\ queuedScopedBytes = ScopedBytes(queue)
        /\ DOMAIN lagging \subseteq Subs /\ \A s \in DOMAIN lagging : lagging[s] \in Cursors
    BY DEF IInv, Queued
  <2>9. due \subseteq Subs /\ (owed = None \/ owed \in Items)
    BY DEF IInv, Called, Queued
  <2> QED
    BY <2>2, <2>4, <2>5, <2>6, <2>7, <2>8, <2>9 DEF TypeOK
<1> QED
  BY <1>1, Inductive, PTL

\* docs/sync-foundations.md 7.2: live frames waiting for the window are bounded,
\* and a lagging subscription has none of them, whatever the client acknowledges.
THEOREM BoundedBacklog == Spec => []BacklogIsBounded
<1>1. IInv => BacklogIsBounded
  <2> SUFFICES ASSUME IInv PROVE BacklogIsBounded
    OBVIOUS
  <2>1. \A i \in DOMAIN queue : queue[i] \in ToSet(queue)
    BY DEF ToSet
  <2> QED
    BY <2>1 DEF IInv, Queued, BacklogIsBounded
<1> QED
  BY <1>1, Inductive, PTL

\* connection-writer.ts:301-305: nothing is promised to, caught up for or queued
\* for a subscription that ended, whichever call ended it.
THEOREM LiveOnly == Spec => []OnlyLiveSubscriptions
<1>1. IInv => OnlyLiveSubscriptions
  <2> SUFFICES ASSUME IInv PROVE OnlyLiveSubscriptions
    OBVIOUS
  <2>1. \A i \in DOMAIN queue : queue[i] \in ToSet(queue)
    BY DEF ToSet
  <2> QED
    BY <2>1 DEF IInv, Lives, OnlyLiveSubscriptions
<1> QED
  BY <1>1, Inductive, PTL

-----------------------------------------------------------------------------
(***************************************************************************)
(* Proof that what a subscription is sent leads its reader, without a gap, *)
(* to every record the delivery queue has handed over.                     *)
(***************************************************************************)

(* The invariant of the feeds.                                             *)

\* A closed connection has no registrations; two of one scope are shared.
Apart ==
    /\ ~active => subscriptions = <<>>
    /\ \A s, t \in ToSet(subscriptions) :
          s # t /\ ScopeOf[s] = ScopeOf[t] => s \in shared

\* An id that was not given out has left no trace.
Untraced ==
    \A s \in Subs : ids[s] = "fresh" =>
       /\ promised[s] = None /\ reader[s] = None
       /\ s \notin DOMAIN lagging /\ s \notin shared
       /\ \A x \in ToSet(queue) : x.sub # s
       /\ owed # None => owed.sub # s

\* No cursor lies ahead of its scope, and an answer owed is its scope's head.
Behind(s, cursor) == cursor # None => cursor <= head[ScopeOf[s]]

Current ==
    /\ \A s \in Subs : Behind(s, promised[s])
    /\ \A s \in DOMAIN lagging : Behind(s, lagging[s])
    /\ \A x \in ToSet(queue) : x.kind = "record" => x.to # None /\ Behind(x.sub, x.to)
    /\ owed # None /\ owed.to # None => owed.to = head[ScopeOf[owed.sub]]

\* A record does not outrun an answer or a catch-up that was queued after it.
Leads(item) == item.kind \in {"answer", "catchup"} /\ item.to # None

Ascends(q) ==
    \A i, j \in DOMAIN q :
       i < j /\ q[i].kind = "record" /\ Leads(q[j]) /\ q[j].sub = q[i].sub =>
          q[i].to <= q[j].to

Rising == Ascends(queue)

\* A reading is nobody's in particular.
Readings == \A x \in ToSet(queue) : x.kind = "reading" => x.sub = None

\* The records of a scope that wait for delivery are its last ones.
Records(c) == {d \in Deliveries : d.kind = "record" /\ d.scope = c}
Waiting(c) == Only(deliveries, Records(c))

Consecutive ==
    \A c \in Scopes : \A i \in DOMAIN Waiting(c) :
       /\ Waiting(c)[i].to # None
       /\ Waiting(c)[i].to + Len(Waiting(c)) = head[c] + i

\* The feed of a subscription holds together with its live frames and without
\* them, and without them it reaches what was promised: a cut drops them.
Fine(s) ==
    LET feed == Feed(s)
        rest == FeedOf(reader[s], s, Unscoped(queue))
    IN  /\ feed.whole /\ rest.whole
        /\ promised[s] # None => rest.at # None /\ promised[s] <= rest.at
        /\ s \in DOMAIN lagging /\ lagging[s] # None =>
              feed.at # None /\ lagging[s] <= feed.at
        /\ s \notin DOMAIN lagging /\ feed.at # None =>
              feed.at + Len(Waiting(ScopeOf[s])) >= head[ScopeOf[s]]

Feeds == \A s \in Sole : Fine(s)

Traces == Apart /\ Untraced /\ Current /\ Rising /\ Readings /\ Consecutive

FInv == IInv /\ Traces /\ Feeds

-----------------------------------------------------------------------------
(* Feeds.  `Fed(at, q)` is where the items q lead a reader that is at `at`. *)

States == [at : Cursors, whole : BOOLEAN]
Start(at) == [at |-> at, whole |-> TRUE]
Following == [p \in States \X Items |-> Follow(p[1], p[2])]
Fed(at, q) == Run(Following, Start(at), q)

Of(s) == {x \in Items : x.sub = s}
Calm(s) == {x \in Items : x.sub = s /\ ~Scoped(x)}

LEMMA CursorFacts ==
    /\ MaxHead \in Nat /\ None \notin Nat /\ None \in Cursors
    /\ \A c \in Cursors : c = None \/ c \in Nat
BY ConnectionAssumption DEF Cursors

LEMMA FollowType ==
    ASSUME NEW state \in States, NEW item \in Items
    PROVE  Follow(state, item) \in States
<1>1. state.at \in Cursors /\ state.whole \in BOOLEAN
  BY DEF States
<1>2. Reads(state.at, item) \in Cursors
  BY <1>1, ReadsType
<1> QED
  BY <1>2 DEF Follow, States

LEMMA FollowFolds ==
    ASSUME NEW at \in Cursors
    PROVE  Folding(States, Items, Following, Start(at))
BY FollowType DEF Folding, Following, States, Start

LEMMA FedSteps ==
    ASSUME NEW at \in Cursors, NEW q \in Seq(Items)
    PROVE  /\ Fed(at, q) \in States /\ Fed(at, q).at \in Cursors
           /\ Fed(at, q).whole \in BOOLEAN
           /\ \A x \in Items : Fed(at, Pushed(q, x)) = Follow(Fed(at, q), x)
<1>1. Folding(States, Items, Following, Start(at))
  BY FollowFolds
<1>2. Fed(at, q) \in States
  BY <1>1, RunSteps DEF Fed
<1>3. \A x \in Items : Fed(at, Pushed(q, x)) = Following[<<Fed(at, q), x>>]
  BY <1>1, RunSteps DEF Fed, Pushed
<1>4. Fed(at, q).at \in Cursors /\ Fed(at, q).whole \in BOOLEAN
  BY <1>2 DEF States
<1> QED
  BY <1>2, <1>3, <1>4 DEF Following

LEMMA FedEmpty ==
    ASSUME NEW at \in Cursors
    PROVE  Fed(at, <<>>).at = at /\ Fed(at, <<>>).whole
<1>1. Folding(States, Items, Following, Start(at))
  BY FollowFolds
<1>2. Run(Following, Start(at), <<>>) = Start(at)
  BY <1>1, RunSteps
<1> QED
  BY <1>2 DEF Fed, Start

LEMMA FeedIsFed ==
    ASSUME NEW at \in Cursors, NEW s, NEW q \in Seq(Items)
    PROVE  FeedOf(at, s, q) = Fed(at, Only(q, Of(s)))
<1> DEFINE T == {x \in ToSet(q) : x.sub = s}
           U == Of(s)
           o == Only(q, T)
           D == DOMAIN o
           base == Start(at)
           Folds(g) == g = [w \in SUBSET D |-> IF w = {} THEN base
                                               ELSE Follow(g[w \ {Max(w)}], o[Max(w)])]
           r == CHOOSE g : Folds(g)
           f == Following
<1>1. FeedOf(at, s, q) = r[D]
  BY DEF FeedOf, FoldLeft, MapThenFoldSet, Start
<1>0. o \in Seq(Items) /\ o = Only(q, U)
  <2>1. ToSet(q) \cap T = ToSet(q) \cap U
    BY Members DEF Of
  <2> HIDE DEF T, U
  <2> QED
    BY <2>1, OnlyType, OnlySame
<1> HIDE DEF o
<1>2. Folding(States, Items, f, base) /\ D = 1..Len(o) /\ Len(o) \in Nat
  BY <1>0, FollowFolds, LenProperties
<1>3. PICK g \in [SUBSET (1..Len(o)) -> States] : Iterates(g, f, base, o, Len(o))
  BY <1>0, <1>2, FoldExists
<1> HIDE DEF D, f, base
<1>4. ASSUME NEW w \in SUBSET D, w # {}
      PROVE  Max(w) \in D /\ o[Max(w)] \in Items /\ w \ {Max(w)} \in SUBSET D
  <2>1. Max(w) \in w
    BY <1>2, <1>4, MaxOf
  <2> QED
    BY <2>1, <1>0, <1>2, ElementOfSeq
<1>5. Folds(g)
  <2>1. ASSUME NEW w \in SUBSET D
        PROVE  g[w] = IF w = {} THEN base ELSE Follow(g[w \ {Max(w)}], o[Max(w)])
    <3>1. CASE w = {}
      BY <3>1, <1>2, <1>3 DEF Iterates
    <3>2. CASE w # {}
      <4>1. g[w \ {Max(w)}] \in States /\ o[Max(w)] \in Items
        BY <3>2, <1>2, <1>3, <1>4
      <4>2. g[w] = f[<<g[w \ {Max(w)}], o[Max(w)]>>]
        BY <3>2, <1>2, <1>3 DEF Iterates
      <4> QED
        BY <3>2, <4>1, <4>2 DEF Following, f
    <3> QED
      BY <3>1, <3>2
  <2> QED
    BY <2>1, <1>2, <1>3
<1>6. Folds(r)
  BY <1>5
<1>7. \A w \in SUBSET D : r[w] = IF w = {} THEN base ELSE Follow(r[w \ {Max(w)}], o[Max(w)])
  BY <1>6
<1> HIDE DEF r
<1> DEFINE X == States \cup {r[w] : w \in SUBSET D}
           h == [p \in X \X Items |-> Follow(p[1], p[2])]
<1>8. Iterates(r, h, base, o, Len(o))
  <2>1. \A w \in SUBSET D : r[w] \in X
    OBVIOUS
  <2> HIDE DEF X
  <2> QED
    BY <2>1, <1>2, <1>4, <1>7 DEF Iterates
<1>9. \A p \in States \X Items : h[p] = f[p]
  BY DEF Following, f
<1> HIDE DEF h
<1>10. Folding(States, Items, f, base)
  BY <1>2
<1>11. r[1..Len(o)] = Run(f, base, o)
  BY <1>0, <1>8, <1>9, <1>10, RunAgrees
<1> QED
  BY <1>0, <1>1, <1>2, <1>11 DEF r, f, base, Fed

\* The first item is read first; a feed that is whole is whole from there.
LEMMA FedPop ==
    ASSUME NEW at \in Cursors, NEW x \in Items, NEW q \in Seq(Items)
    PROVE  /\ Reads(at, x) \in Cursors
           /\ Fed(at, Cat(Pushed(<<>>, x), q)).at = Fed(Reads(at, x), q).at
           /\ Fed(at, Cat(Pushed(<<>>, x), q)).whole => Fed(Reads(at, x), q).whole
<1> DEFINE one == Pushed(<<>>, x)
           to == Reads(at, x)
           N == {w \in Seq(Items) : /\ Fed(at, Cat(one, w)).at = Fed(to, w).at
                                    /\ Fed(at, Cat(one, w)).whole => Fed(to, w).whole}
<1>1. to \in Cursors
  BY ReadsType
<1>2. <<>> \in Seq(Items) /\ one \in Seq(Items)
  BY EmptySeq, PushedIs
<1>3. <<>> \in N
  <2>1. Cat(one, <<>>) = one
    BY <1>2, CatIs
  <2>2. Fed(at, one) = Follow(Fed(at, <<>>), x)
    BY <1>2, FedSteps
  <2>3. Fed(at, one).at = to
    BY <2>2, FedEmpty DEF Follow
  <2> QED
    BY <1>1, <1>2, <2>1, <2>3, FedEmpty
<1> HIDE DEF one, to
<1>4. ASSUME NEW w \in Seq(Items), NEW e \in Items, w \in N PROVE Pushed(w, e) \in N
  <2>0. Pushed(w, e) \in Seq(Items)
    BY PushedIs
  <2>1. Cat(one, Pushed(w, e)) = Pushed(Cat(one, w), e) /\ Cat(one, w) \in Seq(Items)
    BY <1>2, CatIs
  <2>2. /\ Fed(at, Pushed(Cat(one, w), e)) = Follow(Fed(at, Cat(one, w)), e)
        /\ Fed(to, Pushed(w, e)) = Follow(Fed(to, w), e)
    BY <1>1, <2>1, FedSteps
  <2>3. /\ Fed(at, Cat(one, w)).at = Fed(to, w).at
        /\ Fed(at, Cat(one, w)).whole => Fed(to, w).whole
    BY <1>4
  <2>4. /\ Follow(Fed(at, Cat(one, w)), e).at = Follow(Fed(to, w), e).at
        /\ Follow(Fed(at, Cat(one, w)), e).whole => Follow(Fed(to, w), e).whole
    BY <2>3 DEF Follow
  <2> QED
    BY <2>0, <2>1, <2>2, <2>4
<1> HIDE DEF N
<1>5. Seq(Items) \subseteq N
  BY <1>3, <1>4, PushedSet
<1> QED
  BY <1>1, <1>5 DEF N, one, to

\* Items that neither carry a record nor start again leave the feed as it is.
LEMMA FedQuiet ==
    ASSUME NEW at \in Cursors, NEW q \in Seq(Items), NEW n \in Seq(Items),
           \A x \in ToSet(n) : x.kind = "lagging"
    PROVE  /\ Fed(at, Cat(q, n)).at = Fed(at, q).at
           /\ Fed(at, Cat(q, n)).whole = Fed(at, q).whole
<1> DEFINE N == {w \in Seq(Items) : (\A x \in ToSet(w) : x.kind = "lagging") =>
                    /\ Fed(at, Cat(q, w)).at = Fed(at, q).at
                    /\ Fed(at, Cat(q, w)).whole = Fed(at, q).whole}
<1>1. <<>> \in N
  BY EmptySeq, CatIs
<1>2. ASSUME NEW w \in Seq(Items), NEW e \in Items, w \in N PROVE Pushed(w, e) \in N
  <2>1. Cat(q, Pushed(w, e)) = Pushed(Cat(q, w), e) /\ Cat(q, w) \in Seq(Items)
        /\ Pushed(w, e) \in Seq(Items) /\ ToSet(Pushed(w, e)) = ToSet(w) \cup {e}
    BY CatIs, PushedIs
  <2> SUFFICES ASSUME \A x \in ToSet(Pushed(w, e)) : x.kind = "lagging"
               PROVE  /\ Fed(at, Cat(q, Pushed(w, e))).at = Fed(at, q).at
                      /\ Fed(at, Cat(q, Pushed(w, e))).whole = Fed(at, q).whole
    BY <2>1
  <2>2. Fed(at, Pushed(Cat(q, w), e)) = Follow(Fed(at, Cat(q, w)), e)
    BY <2>1, FedSteps
  <2>3. /\ Fed(at, Cat(q, w)).at = Fed(at, q).at
        /\ Fed(at, Cat(q, w)).whole = Fed(at, q).whole
    BY <1>2, <2>1
  <2>4. e.kind = "lagging" /\ Fed(at, Cat(q, w)).whole \in BOOLEAN
    BY <2>1, FedSteps
  <2>5. /\ Follow(Fed(at, Cat(q, w)), e).at = Fed(at, Cat(q, w)).at
        /\ Follow(Fed(at, Cat(q, w)), e).whole = Fed(at, Cat(q, w)).whole
    BY <2>4 DEF Follow, Reads
  <2> QED
    BY <2>1, <2>2, <2>3, <2>5
<1> HIDE DEF N
<1>3. Seq(Items) \subseteq N
  BY <1>1, <1>2, PushedSet
<1> QED
  BY <1>3 DEF N

\* A reader that is further on loses nothing by items that are no records.
Reaches(a, b) == a = None \/ (b # None /\ a <= b)

LEMMA FedFurther ==
    ASSUME NEW a \in Cursors, NEW b \in Cursors, Reaches(a, b),
           NEW q \in Seq(Items), \A x \in ToSet(q) : ~Scoped(x)
    PROVE  /\ Fed(a, q).whole => Fed(b, q).whole
           /\ \/ Fed(a, q).at = a /\ Fed(b, q).at = b
              \/ \E y \in ToSet(q) : Leads(y) /\ Fed(a, q).at = y.to /\ Fed(b, q).at = y.to
<1> DEFINE Same(w) == \/ Fed(a, w).at = a /\ Fed(b, w).at = b
                      \/ \E y \in ToSet(w) : /\ Leads(y) /\ Fed(a, w).at = y.to
                                             /\ Fed(b, w).at = y.to
           N == {w \in Seq(Items) : (\A x \in ToSet(w) : ~Scoped(x)) =>
                   (Fed(a, w).whole => Fed(b, w).whole) /\ Same(w)}
<1>1. <<>> \in N
  BY EmptySeq, FedEmpty
<1> HIDE DEF Same
<1>2. ASSUME NEW w \in Seq(Items), NEW e \in Items, w \in N PROVE Pushed(w, e) \in N
  <2>1. Pushed(w, e) \in Seq(Items) /\ ToSet(Pushed(w, e)) = ToSet(w) \cup {e}
    BY PushedIs
  <2> SUFFICES ASSUME \A x \in ToSet(Pushed(w, e)) : ~Scoped(x)
               PROVE  /\ Fed(a, Pushed(w, e)).whole => Fed(b, Pushed(w, e)).whole
                      /\ Same(Pushed(w, e))
    BY <2>1
  <2>2. /\ Fed(a, Pushed(w, e)) = Follow(Fed(a, w), e)
        /\ Fed(b, Pushed(w, e)) = Follow(Fed(b, w), e)
    BY FedSteps
  <2>3. (Fed(a, w).whole => Fed(b, w).whole) /\ Same(w) /\ ~Scoped(e)
    BY <1>2, <2>1
  <2>4. Reaches(Fed(a, w).at, Fed(b, w).at)
    <3>1. CASE Fed(a, w).at = a /\ Fed(b, w).at = b
      BY <3>1
    <3>2. CASE \E y \in ToSet(w) : Leads(y) /\ Fed(a, w).at = y.to /\ Fed(b, w).at = y.to
      <4>1. Fed(a, w).at = Fed(b, w).at /\ Fed(a, w).at \in Cursors
        BY <3>2, FedSteps
      <4> QED
        BY <4>1, CursorFacts DEF Reaches
    <3> QED
      BY <2>3, <3>1, <3>2 DEF Same
  <2>5. Fed(a, Pushed(w, e)).whole => Fed(b, Pushed(w, e)).whole
    <3>1. e.kind # "record" /\ e.from \in Cursors /\ Fed(a, w).at \in Cursors
          /\ Fed(b, w).at \in Cursors
      BY <2>3, FedSteps DEF Scoped, Items
    <3>2. e.kind = "catchup" /\ e.from # None /\ Fed(a, w).at # None /\ e.from <= Fed(a, w).at
            => Fed(b, w).at # None /\ e.from <= Fed(b, w).at
      BY <3>1, <2>4, CursorFacts DEF Reaches
    <3> QED
      BY <2>2, <2>3, <3>1, <3>2 DEF Follow
  <2>6. Same(Pushed(w, e))
    <3>1. CASE Leads(e)
      <4>1. Fed(a, Pushed(w, e)).at = e.to /\ Fed(b, Pushed(w, e)).at = e.to
        BY <3>1, <2>2 DEF Follow, Reads, Leads
      <4> QED
        BY <3>1, <4>1, <2>1 DEF Same
    <3>2. CASE ~Leads(e)
      <4>1. Fed(a, Pushed(w, e)).at = Fed(a, w).at /\ Fed(b, Pushed(w, e)).at = Fed(b, w).at
        BY <3>2, <2>2, <2>3 DEF Follow, Reads, Leads, Scoped
      <4> QED
        BY <4>1, <2>1, <2>3 DEF Same
    <3> QED
      BY <3>1, <3>2
  <2> QED
    BY <2>5, <2>6
<1> HIDE DEF N
<1>3. Seq(Items) \subseteq N
  BY <1>1, <1>2, PushedSet
<1> QED
  BY <1>3 DEF N, Same

-----------------------------------------------------------------------------
(* A subscription's feed, from one state to the next.                      *)

LEMMA FeedsAre ==
    ASSUME NEW at \in Cursors, NEW s, NEW q \in Seq(Items)
    PROVE  /\ FeedOf(at, s, q) = Fed(at, Only(q, Of(s)))
           /\ FeedOf(at, s, Unscoped(q)) = Fed(at, Only(q, Calm(s)))
<1> DEFINE T == {item \in ToSet(q) : ~Scoped(item)}
<1>1. Only(q, T) \in Seq(Items)
  BY OnlyType
<1>2. FeedOf(at, s, Only(q, T)) = Fed(at, Only(Only(q, T), Of(s)))
  BY <1>1, FeedIsFed
<1>3. Only(Only(q, T), Of(s)) = Only(q, T \cap Of(s))
  BY OnlyTwice
<1>4. ToSet(q) \cap (T \cap Of(s)) = ToSet(q) \cap Calm(s)
  BY Members DEF Of, Calm
<1>5. Only(q, T \cap Of(s)) = Only(q, Calm(s))
  BY <1>4, OnlySame
<1>6. Unscoped(q) = Only(q, T)
  BY DEF Unscoped
<1> QED
  BY <1>2, <1>3, <1>5, <1>6, FeedIsFed

\* Fine, of the feed with live frames and the feed without them.
Fits(feed, rest, sure, lags, from, waiting, last) ==
    /\ feed.whole /\ rest.whole
    /\ sure # None => rest.at # None /\ sure <= rest.at
    /\ lags /\ from # None => feed.at # None /\ from <= feed.at
    /\ ~lags /\ feed.at # None => feed.at + waiting >= last

Full(s) == Fed(reader[s], Only(queue, Of(s)))
Rest(s) == Fed(reader[s], Only(queue, Calm(s)))
Fitting(s) == Fits(Full(s), Rest(s), promised[s], s \in DOMAIN lagging, lagging[s],
                   Len(Waiting(ScopeOf[s])), head[ScopeOf[s]])

LEMMA FineIs ==
    ASSUME IInv, NEW s \in Subs
    PROVE  Fine(s) <=> Fitting(s)
<1>1. reader[s] \in Cursors /\ queue \in Seq(Items)
  BY DEF IInv, Told, Queued
<1> QED
  BY <1>1, FeedsAre DEF Fine, Feed, Fitting, Fits, Full, Rest

LEMMA FineIsNext ==
    ASSUME IInv', NEW s \in Subs
    PROVE  Fine(s)' <=> Fitting(s)'
<1>1. reader'[s] \in Cursors /\ queue' \in Seq(Items)
  BY DEF IInv, Told, Queued
<1> QED
  BY <1>1, FeedsAre DEF Fine, Feed, Fitting, Fits, Full, Rest

LEMMA Soles ==
    ASSUME FInv
    PROVE  /\ Sole \subseteq Subs /\ Sole \subseteq ToSet(subscriptions)
           /\ ToSet(subscriptions) \subseteq Subs
           /\ \A s \in Sole : Fitting(s) /\ active
           /\ \A s \in Sole, t \in ToSet(subscriptions) : ScopeOf[s] = ScopeOf[t] => s = t
           /\ \A s \in ToSet(subscriptions) : ids[s] # "fresh"
<1>1. ToSet(subscriptions) \subseteq Subs /\ \A s \in ToSet(subscriptions) : ids[s] # "fresh"
  BY Members DEF FInv, IInv, Registered
<1>2. ~active => ToSet(subscriptions) = {}
  BY DEF FInv, Traces, Apart, ToSet
<1>3. \A s \in Sole : Fitting(s)
  BY <1>1, FineIs DEF FInv, Feeds, Sole
<1> QED
  BY <1>1, <1>2, <1>3 DEF FInv, Traces, Apart, Sole, IInv, Registered

\* A step that leaves what a feed is made of leaves it fine.
Kept(s) ==
    /\ reader'[s] = reader[s]
    /\ Only(queue', Of(s)) = Only(queue, Of(s))
    /\ Only(queue', Calm(s)) = Only(queue, Calm(s))
    /\ promised'[s] = promised[s]
    /\ s \in DOMAIN lagging' <=> s \in DOMAIN lagging
    /\ s \in DOMAIN lagging => lagging'[s] = lagging[s]

LEMMA Stays ==
    ASSUME IInv', NEW s \in Subs, Fitting(s), Kept(s),
           Len(Waiting(ScopeOf[s]))' = Len(Waiting(ScopeOf[s])),
           head'[ScopeOf[s]] = head[ScopeOf[s]]
    PROVE  Fine(s)'
<1>1. Fitting(s)'
  BY DEF Fitting, Fits, Full, Rest, Kept
<1> QED
  BY <1>1, FineIsNext

LEMMA Waits ==
    ASSUME IInv
    PROVE  \A c : Waiting(c) \in Seq(Deliveries) /\ Len(Waiting(c)) \in Nat
BY OnlyType, LenProperties DEF Waiting, IInv, Logged

\* A step that leaves the feeds and the delivery queue alone.
LEMMA Undisturbed ==
    ASSUME FInv, IInv', UNCHANGED <<head, deliveries, registry, writer, shared>>,
           owed' = owed \/ owed' = None
    PROVE  Traces' /\ Feeds'
<1> USE DEF registry, writer
<1>1. Apart'
  BY DEF FInv, Traces, Apart
<1>2. Untraced'
  BY DEF FInv, Traces, Untraced
<1>3. Current'
  BY DEF FInv, Traces, Current, Behind
<1>4. Rising' /\ Readings'
  BY DEF FInv, Traces, Rising, Readings
<1>5. Consecutive'
  BY DEF FInv, Traces, Consecutive, Waiting
<1>6. ASSUME NEW s \in Sole' PROVE Fine(s)'
  <2>1. s \in Sole
    BY DEF Sole
  <2> QED
    BY <2>1, Soles, Stays DEF Kept, Waiting
<1> QED
  BY <1>1, <1>2, <1>3, <1>4, <1>5, <1>6 DEF Traces, Feeds

-----------------------------------------------------------------------------
(* Commits and the delivery queue.                                         *)

LEMMA PublishFeeds ==
    ASSUME FInv, IInv', NEW c \in Scopes, Publish(c)
    PROVE  Traces' /\ Feeds'
<1> DEFINE d == Delivery("record", c, head[c] + 1)
<1> USE DEF registry, writer, call
<1>1. /\ head \in [Scopes -> 0..MaxHead] /\ head[c] \in Nat /\ d \in Deliveries
      /\ deliveries \in Seq(Deliveries)
  BY CursorFacts DEF FInv, IInv, Logged, Publish, Delivery, Deliveries, Cursors
<1>2. owed' = None
  BY AtRest DEF FInv, IInv, Publish
<1>3. /\ head' = [head EXCEPT ![c] = @ + 1] /\ deliveries' = Pushed(deliveries, d)
      /\ UNCHANGED <<registry, writer, shared>>
  BY DEF Publish, Pushed
<1>4. /\ Waiting(c)' = Pushed(Waiting(c), d)
      /\ \A t \in Scopes \ {c} : Waiting(t)' = Waiting(t)
  BY <1>1, <1>3, OnlyPushed DEF Waiting, Records, Delivery
<1>5. /\ Waiting(c) \in Seq(Deliveries) /\ Len(Waiting(c)) \in Nat
      /\ Len(Waiting(c)') = Len(Waiting(c)) + 1
      /\ DOMAIN Waiting(c)' = 1..(Len(Waiting(c)) + 1)
      /\ DOMAIN Waiting(c) = 1..Len(Waiting(c))
      /\ Waiting(c)'[Len(Waiting(c)) + 1] = d
      /\ \A i \in 1..Len(Waiting(c)) : Waiting(c)'[i] = Waiting(c)[i]
  BY <1>1, <1>4, Waits DEF Pushed, FInv
<1>6. \A s \in Subs : ScopeOf[s] \in Scopes /\ head[ScopeOf[s]] \in Nat
  BY <1>1, ConnectionAssumption
<1>7. Apart' /\ Untraced' /\ Rising' /\ Readings'
  BY <1>2, <1>3 DEF FInv, Traces, Apart, Untraced, Rising, Readings
<1>8. Current'
  <2>1. ASSUME NEW s \in Subs, NEW cursor \in Cursors, Behind(s, cursor) PROVE Behind(s, cursor)'
    BY <2>1, <1>1, <1>3, <1>6, CursorFacts DEF Behind
  <2>2. /\ promised \in [Subs -> Cursors] /\ DOMAIN lagging \subseteq Subs
        /\ lagging \in [DOMAIN lagging -> Cursors] /\ queue \in Seq(Items)
        /\ \A x \in ToSet(queue) : x \in Items /\ (Scoped(x) => x.sub \in Subs)
    BY Members DEF FInv, IInv, Told, Queued
  <2>3. \A x \in ToSet(queue) : x.kind = "record" => x.sub \in Subs /\ x.to \in Cursors
    BY <2>2 DEF Scoped, Items
  <2>4. \A s \in Subs : Behind(s, promised[s])'
    BY <1>3, <2>1, <2>2 DEF FInv, Traces, Current, Behind
  <2>5. \A s \in DOMAIN lagging : Behind(s, lagging[s])'
    BY <1>3, <2>1, <2>2 DEF FInv, Traces, Current, Behind
  <2>6. \A x \in ToSet(queue) : x.kind = "record" => x.to # None /\ Behind(x.sub, x.to)'
    BY <1>3, <2>1, <2>3 DEF FInv, Traces, Current
  <2> QED
    BY <1>2, <1>3, <2>4, <2>5, <2>6 DEF Current
<1>9. Consecutive'
  <2>1. ASSUME NEW t \in Scopes, NEW i \in DOMAIN Waiting(t)'
        PROVE  Waiting(t)'[i].to # None /\ Waiting(t)'[i].to + Len(Waiting(t)') = head'[t] + i
    <3>1. CASE t # c
      BY <3>1, <1>1, <1>3, <1>4 DEF FInv, Traces, Consecutive
    <3>2. CASE t = c /\ i = Len(Waiting(c)) + 1
      BY <3>2, <1>1, <1>3, <1>5, CursorFacts DEF Delivery
    <3>3. CASE t = c /\ i \in 1..Len(Waiting(c))
      <4>0. i \in DOMAIN Waiting(c)
        BY <3>3, <1>5
      <4>1. /\ Waiting(c)[i].to # None
            /\ Waiting(c)[i].to + Len(Waiting(c)) = head[c] + i
        BY <4>0, Zenon DEF FInv, Traces, Consecutive
      <4>2. Waiting(c)[i] \in Deliveries
        BY <3>3, <1>5, ElementOfSeq
      <4>3. Waiting(c)[i].to \in Nat
        BY <4>1, <4>2, CursorFacts DEF Deliveries
      <4> QED
        <5>1. Waiting(c)'[i] = Waiting(c)[i] /\ Len(Waiting(c)') = Len(Waiting(c)) + 1
          BY <3>3, <1>5
        <5>2. head'[c] = head[c] + 1 /\ head[c] \in Nat /\ i \in Nat /\ Len(Waiting(c)) \in Nat
          BY <3>3, <1>1, <1>3, <1>5
        <5>3. Waiting(c)'[i].to + Len(Waiting(c)') = head'[c] + i
          <6>1. \A a, b, h, k \in Nat : a + b = h + k => a + (b + 1) = (h + 1) + k
            OBVIOUS
          <6>2. (head[c] + 1) + i = Waiting(c)[i].to + (Len(Waiting(c)) + 1)
            BY <6>1, <5>2, <4>1, <4>3
          <6> QED
            BY <6>2, <5>1, <5>2, Zenon
        <5> QED
          BY <3>3, <4>1, <5>1, <5>3
    <3> QED
      BY <2>1, <3>1, <3>2, <3>3, <1>5
  <2> QED
    BY <2>1 DEF Consecutive
<1>10. ASSUME NEW s \in Sole' PROVE Fine(s)'
  <2>1. s \in Sole /\ s \in Subs /\ Fitting(s)
    BY <1>3, Soles DEF Sole
  <2>2. CASE ScopeOf[s] # c
    BY <2>1, <2>2, <1>1, <1>3, <1>4, <1>6, Stays DEF Kept
  <2>3. CASE ScopeOf[s] = c
    <3>1. Full(s) \in States
      BY <2>1, FedSteps, OnlyType DEF Full, FInv, IInv, Told, Queued
    <3>2. Full(s).at = None \/ Full(s).at \in Nat
      BY <3>1, CursorFacts DEF States
    <3>3. Full(s)' = Full(s) /\ Rest(s)' = Rest(s)
      BY <1>3 DEF Full, Rest
    <3>4. Fitting(s)'
      BY <2>1, <2>3, <3>2, <3>3, <1>1, <1>3, <1>5 DEF Fitting, Fits
    <3> QED
      BY <2>1, <3>4, FineIsNext
  <2> QED
    BY <2>2, <2>3
<1> QED
  BY <1>7, <1>8, <1>9, <1>10 DEF Traces, Feeds

\* The delivery queue hands over its next item.
LEMMA Hands ==
    ASSUME FInv, UNCHANGED head, deliveries # <<>>, deliveries' = Tail(deliveries)
    PROVE  LET next == Head(deliveries)
           IN  /\ next \in Deliveries /\ Consecutive'
               /\ \A c \in Scopes :
                     IF next \in Records(c)
                     THEN /\ Len(Waiting(c)) \in Nat \ {0}
                          /\ Len(Waiting(c))' = Len(Waiting(c)) - 1
                          /\ next.to # None /\ next.to + Len(Waiting(c)) = head[c] + 1
                     ELSE Waiting(c)' = Waiting(c)
<1> DEFINE next == Head(deliveries)
<1>1. deliveries \in Seq(Deliveries) /\ next \in Deliveries
  BY OnlyTail DEF FInv, IInv, Logged
<1>2. ASSUME NEW c \in Scopes, next \notin Records(c)
      PROVE  Waiting(c)' = Waiting(c)
  BY <1>1, <1>2, OnlyTail DEF Waiting
<1>3. ASSUME NEW c \in Scopes, next \in Records(c)
      PROVE  Waiting(c) = <<next>> \o Waiting(c)'
  BY <1>1, <1>3, OnlyTail DEF Waiting
<1>4. Tail(deliveries) \in Seq(Deliveries)
  BY <1>1, OnlyTail
<1>5. \A c : Waiting(c)' \in Seq(Deliveries)
  BY <1>4, OnlyType DEF Waiting
<1> HIDE DEF next
<1>6. ASSUME NEW c \in Scopes, next \in Records(c)
      PROVE  /\ Len(Waiting(c)') \in Nat /\ Len(Waiting(c)) = Len(Waiting(c)') + 1
             /\ Len(Waiting(c))' = Len(Waiting(c)')
             /\ Waiting(c)[1] = next
             /\ DOMAIN Waiting(c)' = 1..Len(Waiting(c)')
             /\ DOMAIN Waiting(c) = 1..Len(Waiting(c))
             /\ \A i \in DOMAIN Waiting(c)' : Waiting(c)'[i] = Waiting(c)[i + 1]
  <2> DEFINE w == Waiting(c)'
  <2>1. w \in Seq(Deliveries) /\ Waiting(c) = <<next>> \o w
    BY <1>3, <1>5, <1>6
  <2> HIDE DEF w
  <2>2. /\ Len(w) \in Nat /\ Len(Waiting(c)) = Len(w) + 1 /\ Waiting(c)[1] = next
        /\ DOMAIN w = 1..Len(w) /\ DOMAIN Waiting(c) = 1..Len(Waiting(c))
        /\ \A i \in DOMAIN w : Waiting(c)[i + 1] = w[i]
    BY <1>1, <2>1
  <2> QED
    BY <2>2 DEF w
<1>7. \A c \in Scopes : head[c] \in Nat
  BY CursorFacts DEF FInv, IInv, Logged
<1>8. ASSUME NEW c \in Scopes, NEW i \in DOMAIN Waiting(c)'
      PROVE  Waiting(c)'[i].to # None /\ Waiting(c)'[i].to + Len(Waiting(c)') = head'[c] + i
  <2>1. CASE next \notin Records(c)
    BY <1>2, <1>8, <2>1 DEF FInv, Traces, Consecutive
  <2>2. CASE next \in Records(c)
    <3>1. i \in Nat /\ i + 1 \in DOMAIN Waiting(c) /\ Waiting(c)'[i] = Waiting(c)[i + 1]
      BY <1>6, <1>8, <2>2
    <3>2. /\ Waiting(c)[i + 1].to # None
          /\ Waiting(c)[i + 1].to + Len(Waiting(c)) = head[c] + (i + 1)
      BY <3>1, Zenon DEF FInv, Traces, Consecutive
    <3>3. Waiting(c)[i + 1] \in Deliveries
      BY <3>1, Waits, ElementOfSeq, <1>6, <2>2 DEF FInv
    <3>4. Waiting(c)[i + 1].to \in Nat /\ head[c] \in Nat /\ Len(Waiting(c)') \in Nat
          /\ Len(Waiting(c)) = Len(Waiting(c)') + 1
      BY <3>2, <3>3, <1>6, <1>7, <2>2, CursorFacts DEF Deliveries
    <3>5. Waiting(c)[i + 1].to + Len(Waiting(c)') = head[c] + i
      <4>1. Waiting(c)[i + 1].to + (Len(Waiting(c)') + 1) = head[c] + (i + 1)
        BY <3>2, <3>4, Zenon
      <4> DEFINE a == Waiting(c)[i + 1].to
                 b == Len(Waiting(c)')
                 h == head[c]
      <4>2. a \in Nat /\ b \in Nat /\ h \in Nat /\ i \in Nat /\ a + (b + 1) = h + (i + 1)
        BY <3>1, <3>4, <4>1
      <4> HIDE DEF a, b, h
      <4>3. a + b = h + i
        BY <4>2
      <4> QED
        BY <4>3 DEF a, b, h
    <3> QED
      BY <3>1, <3>2, <3>5
  <2> QED
    BY <2>1, <2>2
<1>9. Consecutive'
  BY <1>8 DEF Consecutive
<1>10. ASSUME NEW c \in Scopes, next \in Records(c)
       PROVE  /\ Len(Waiting(c)) \in Nat \ {0} /\ Len(Waiting(c))' = Len(Waiting(c)) - 1
              /\ next.to # None /\ next.to + Len(Waiting(c)) = head[c] + 1
  <2>1. Len(Waiting(c)) \in Nat \ {0} /\ Len(Waiting(c))' = Len(Waiting(c)) - 1
    BY <1>6, <1>10
  <2>2. 1 \in DOMAIN Waiting(c) /\ Waiting(c)[1] = next
    BY <1>6, <1>10
  <2>3. Waiting(c)[1].to # None /\ Waiting(c)[1].to + Len(Waiting(c)) = head[c] + 1
    BY <2>2, Zenon DEF FInv, Traces, Consecutive
  <2> QED
    BY <2>1, <2>2, <2>3
<1> QED
  BY <1>1, <1>2, <1>9, <1>10 DEF next

LEMMA Unheard ==
    ASSUME FInv, NEW c, Receiver(c) = None
    PROVE  \A t \in ToSet(subscriptions) : ScopeOf[t] # c
<1> DEFINE of == Only(subscriptions, ScopesWith(c))
<1>1. of \in Seq(Subs) /\ ToSet(of) = ToSet(subscriptions) \cap ScopesWith(c)
  BY OnlyType, OnlyHolds DEF FInv, IInv, Registered
<1>2. of # <<>> => Receiver(c) = Last(of)
  BY DEF Receiver
<1> HIDE DEF of
<1>3. of # <<>> => Last(of) \in Subs
  BY <1>1, LenProperties, EmptySeq, ElementOfSeq DEF Last
<1>4. of = <<>>
  BY <1>2, <1>3, ConnectionAssumption
<1>5. ToSet(of) = {}
  BY <1>4 DEF ToSet
<1> QED
  BY <1>1, <1>5 DEF ScopesWith

\* What nobody is there to receive, or only somebody who lags.
LEMMA LostFeeds ==
    ASSUME FInv, IInv', UNCHANGED <<log, registry, writer, owed, shared>>,
           deliveries # <<>>, deliveries' = Tail(deliveries),
           \A s \in Sole : Head(deliveries) \in Records(ScopeOf[s]) => s \in DOMAIN lagging
    PROVE  Traces' /\ Feeds'
<1> USE DEF log, registry, writer
<1>1. Apart' /\ Untraced' /\ Rising' /\ Readings'
  BY DEF FInv, Traces, Apart, Untraced, Rising, Readings
<1>2. Current'
  BY DEF FInv, Traces, Current, Behind
<1>3. Consecutive'
  BY Hands
<1>4. ASSUME NEW s \in Sole' PROVE Fine(s)'
  <2>1. s \in Sole /\ s \in Subs /\ Fitting(s) /\ ScopeOf[s] \in Scopes
    BY Soles, ConnectionAssumption DEF Sole
  <2>2. CASE s \in DOMAIN lagging
    <3>1. Fitting(s)'
      BY <2>1, <2>2 DEF Fitting, Fits, Full, Rest
    <3> QED
      BY <2>1, <3>1, FineIsNext
  <2>3. CASE s \notin DOMAIN lagging
    <3>1. Waiting(ScopeOf[s])' = Waiting(ScopeOf[s])
      BY <2>1, <2>3, Hands
    <3> QED
      BY <2>1, <3>1, Stays DEF Kept
  <2> QED
    BY <2>2, <2>3
<1> QED
  BY <1>1, <1>2, <1>3, <1>4 DEF Traces, Feeds

\* An item at the end of the queue, in one feed and not in the others.
LEMMA Appends ==
    ASSUME FInv, NEW x \in Items, queue' = Append(queue, x), UNCHANGED reader,
           NEW s \in Subs
    PROVE  /\ queue' = Pushed(queue, x) /\ ToSet(queue') = ToSet(queue) \cup {x}
           /\ x.sub = s => Full(s)' = Follow(Full(s), x)
           /\ x.sub = s /\ ~Scoped(x) => Rest(s)' = Follow(Rest(s), x)
           /\ Scoped(x) => Rest(s)' = Rest(s)
           /\ x.sub # s => Full(s)' = Full(s) /\ Rest(s)' = Rest(s)
           /\ Full(s) \in States /\ Rest(s) \in States
<1>1. queue \in Seq(Items) /\ reader[s] \in Cursors
  BY DEF FInv, IInv, Told, Queued
<1>2. Only(queue, Of(s)) \in Seq(Items) /\ Only(queue, Calm(s)) \in Seq(Items)
  BY <1>1, OnlyType
<1>3. queue' = Pushed(queue, x) /\ ToSet(queue') = ToSet(queue) \cup {x}
  BY <1>1, PushedIs DEF Pushed
<1>4. /\ x \in Of(s) => Only(queue', Of(s)) = Pushed(Only(queue, Of(s)), x)
      /\ x \notin Of(s) => Only(queue', Of(s)) = Only(queue, Of(s))
      /\ x \in Calm(s) => Only(queue', Calm(s)) = Pushed(Only(queue, Calm(s)), x)
      /\ x \notin Calm(s) => Only(queue', Calm(s)) = Only(queue, Calm(s))
  BY <1>1, <1>3, OnlyPushed
<1>5. (x \in Of(s) <=> x.sub = s) /\ (x \in Calm(s) <=> x.sub = s /\ ~Scoped(x))
  BY DEF Of, Calm
<1> QED
  BY <1>1, <1>2, <1>3, <1>4, <1>5, FedSteps DEF Full, Rest

LEMMA AscendsBy ==
    ASSUME NEW q \in Seq(Items), Ascends(q), NEW x \in Items,
           Leads(x) => \A y \in ToSet(q) : y.kind = "record" /\ y.sub = x.sub => y.to <= x.to
    PROVE  Ascends(Append(q, x))
<1> DEFINE r == Append(q, x)
<1>1. /\ Len(q) \in Nat /\ DOMAIN q = 1..Len(q)
      /\ DOMAIN r = 1..(Len(q) + 1) /\ r[Len(q) + 1] = x
      /\ \A i \in 1..Len(q) : r[i] = q[i] /\ q[i] \in ToSet(q)
  BY LenProperties, AppendProperties DEF ToSet
<1> HIDE DEF r
<1>2. ASSUME NEW i \in DOMAIN r, NEW j \in DOMAIN r, i < j,
             r[i].kind = "record", Leads(r[j]), r[j].sub = r[i].sub
      PROVE  r[i].to <= r[j].to
  <2>1. i \in 1..Len(q)
    BY <1>1, <1>2
  <2>2. CASE j = Len(q) + 1
    BY <1>1, <1>2, <2>1, <2>2
  <2>3. CASE j \in 1..Len(q)
    BY <1>1, <1>2, <2>1, <2>3 DEF Ascends
  <2> QED
    BY <1>1, <1>2, <2>2, <2>3
<1> QED
  BY <1>2 DEF Ascends, r

LEMMA AscendsOnly ==
    ASSUME NEW q \in Seq(Items), Ascends(q), NEW T
    PROVE  Ascends(Only(q, T))
<1> DEFINE r == Only(q, T)
<1>1. \A i, j \in DOMAIN r : i < j =>
         \E k, l \in DOMAIN q : k < l /\ r[i] = q[k] /\ r[j] = q[l]
  BY OnlyEmbeds
<1> HIDE DEF r
<1>2. Ascends(r)
  BY <1>1 DEF Ascends
<1> QED
  BY <1>2 DEF r

LEMMA AscendsTail ==
    ASSUME NEW q \in Seq(Items), Ascends(q), q # <<>>
    PROVE  /\ Ascends(Tail(q))
           /\ Head(q).kind = "record" =>
                 \A y \in ToSet(Tail(q)) :
                    Leads(y) /\ y.sub = Head(q).sub => Head(q).to <= y.to
<1>1. /\ Len(q) \in Nat /\ DOMAIN q = 1..Len(q) /\ Head(q) = q[1] /\ 1 \in DOMAIN q
      /\ DOMAIN Tail(q) = 1..(Len(q) - 1)
      /\ \A i \in 1..(Len(q) - 1) : Tail(q)[i] = q[i + 1] /\ i + 1 \in DOMAIN q
  BY LenProperties, HeadTailProperties, EmptySeq
<1>2. Ascends(Tail(q))
  BY <1>1 DEF Ascends
<1>3. ASSUME NEW y \in ToSet(Tail(q)), Head(q).kind = "record", Leads(y), y.sub = Head(q).sub
      PROVE  Head(q).to <= y.to
  <2>1. PICK i \in 1..(Len(q) - 1) : y = q[i + 1] /\ i + 1 \in DOMAIN q
    BY <1>1, <1>3 DEF ToSet
  <2>2. 1 < i + 1
    BY <1>1, <2>1
  <2> QED
    BY <1>1, <1>3, <2>1, <2>2 DEF Ascends
<1> QED
  BY <1>2, <1>3

LEMMA FrameFeeds ==
    ASSUME FInv, IInv', UNCHANGED <<log, registry, owed, shared, lagging, promised, reader>>,
           deliveries # <<>>, deliveries' = Tail(deliveries),
           NEW to \in ToSet(subscriptions), ScopeOf[to] = Head(deliveries).scope,
           to \notin DOMAIN lagging,
           NEW bytes,
           NEW x \in Items, x = Item(Head(deliveries).kind, to, None, Head(deliveries).to, bytes),
           Scoped(x), queue' = Append(queue, x)
    PROVE  Traces' /\ Feeds'
<1> DEFINE next == Head(deliveries)
<1> USE DEF log, registry
<1>1. /\ x.kind = next.kind /\ x.sub = to /\ x.to = next.to /\ ~Leads(x)
      /\ x.kind # "reading" /\ next \in Deliveries
  BY Hands DEF Item, Leads, Scoped
<1>2. /\ to \in Subs /\ ScopeOf[to] \in Scopes /\ head[ScopeOf[to]] \in Nat
      /\ ids[to] # "fresh"
  BY Soles, ConnectionAssumption, CursorFacts DEF FInv, IInv, Logged
<1>3. /\ next.kind = "record" <=> next \in Records(ScopeOf[to])
      /\ \A c : c # ScopeOf[to] => next \notin Records(c)
  BY <1>1 DEF Records
<1>4. ToSet(queue') = ToSet(queue) \cup {x}
  BY <1>2, Appends
<1>5. /\ Len(Waiting(ScopeOf[to])) \in Nat
      /\ next.kind = "record" =>
           /\ Len(Waiting(ScopeOf[to])) # 0
           /\ Len(Waiting(ScopeOf[to]))' = Len(Waiting(ScopeOf[to])) - 1
           /\ next.to \in Nat /\ next.to # None
           /\ next.to + Len(Waiting(ScopeOf[to])) = head[ScopeOf[to]] + 1
      /\ next.kind # "record" => Waiting(ScopeOf[to])' = Waiting(ScopeOf[to])
      /\ Consecutive'
  <2>1. next.to \in Cursors
    BY <1>1 DEF Deliveries
  <2> QED
    BY <2>1, <1>2, <1>3, Hands, Waits, CursorFacts DEF FInv
<1> HIDE DEF next
<1>6. Apart' /\ Untraced' /\ Readings'
  BY <1>1, <1>2, <1>4 DEF FInv, Traces, Apart, Untraced, Readings
<1>7. Rising'
  BY <1>1, AscendsBy DEF FInv, IInv, Queued, Traces, Rising
<1>8. Current'
  <2>1. x.kind = "record" => x.to # None /\ x.to <= head[ScopeOf[to]]
    BY <1>1, <1>2, <1>5
  <2> QED
    BY <2>1, <1>1, <1>4 DEF FInv, Traces, Current, Behind
<1>9. ASSUME NEW s \in Sole' PROVE Fine(s)'
  <2>1. s \in Sole /\ s \in Subs /\ Fitting(s) /\ ScopeOf[s] \in Scopes
    BY Soles, ConnectionAssumption DEF Sole
  <2>2. CASE s # to
    <3>1. ScopeOf[s] # ScopeOf[to]
      BY <2>1, <2>2, Soles
    <3>2. Waiting(ScopeOf[s])' = Waiting(ScopeOf[s])
      BY <3>1, <2>1, <1>3, Hands DEF next
    <3>3. Full(s)' = Full(s) /\ Rest(s)' = Rest(s)
      BY <2>1, <2>2, <1>1, Appends
    <3>4. Fitting(s)'
      BY <2>1, <3>2, <3>3 DEF Fitting, Fits
    <3> QED
      BY <2>1, <3>4, FineIsNext
  <2>3. CASE s = to
    <3>1. /\ Full(to)' = Follow(Full(to), x) /\ Rest(to)' = Rest(to)
          /\ Full(to).at \in Cursors /\ Full(to).whole
      BY <1>1, <1>2, <2>1, <2>3, Appends DEF States, Fitting, Fits
    <3>2. Full(to).at = None \/ (Full(to).at \in Nat /\ Full(to).at # None)
      BY <3>1, CursorFacts
    <3>3. Full(to).at # None =>
             Full(to).at + Len(Waiting(ScopeOf[to])) >= head[ScopeOf[to]]
      BY <2>1, <2>3 DEF Fitting, Fits
    <3>4. /\ Full(to)'.whole
          /\ Full(to)'.at # None =>
                Full(to)'.at + Len(Waiting(ScopeOf[to]))' >= head[ScopeOf[to]]
      <4>1. CASE x.kind = "record"
        <5>1. /\ x.to \in Nat /\ x.to + Len(Waiting(ScopeOf[to])) = head[ScopeOf[to]] + 1
              /\ Len(Waiting(ScopeOf[to]))' = Len(Waiting(ScopeOf[to])) - 1
              /\ Len(Waiting(ScopeOf[to])) \in Nat
          BY <4>1, <1>1, <1>5
        <5> DEFINE a == Full(to).at
                   n == Len(Waiting(ScopeOf[to]))
                   h == head[ScopeOf[to]]
        <5>2. /\ Full(to)'.whole <=> (a # None => x.to <= a + 1)
              /\ Full(to)'.at = IF a = None \/ x.to > a THEN x.to ELSE a
          BY <3>1, <4>1 DEF Follow, Reads
        <5>3. /\ a = None \/ (a \in Nat /\ a + n >= h)
              /\ n \in Nat /\ h \in Nat /\ x.to \in Nat /\ x.to + n = h + 1
              /\ Len(Waiting(ScopeOf[to]))' = n - 1
          BY <3>2, <3>3, <5>1, <1>2
        <5> HIDE DEF a, n, h
        <5>4. a # None => x.to <= a + 1
          BY <5>3
        <5>5. (IF a = None \/ x.to > a THEN x.to ELSE a) + (n - 1) >= h
          BY <5>3
        <5> QED
          BY <5>2, <5>3, <5>4, <5>5 DEF h
      <4>2. CASE x.kind # "record"
        <5>1. Full(to)'.whole /\ Full(to)'.at = Full(to).at
          BY <3>1, <4>2, <1>1 DEF Follow, Reads, Scoped
        <5> QED
          BY <5>1, <4>2, <3>3, <1>1, <1>5
      <4> QED
        BY <4>1, <4>2
    <3>5. Fitting(to)'
      BY <2>1, <2>3, <3>1, <3>4 DEF Fitting, Fits
    <3> QED
      BY <2>3, <1>2, <3>5, FineIsNext
  <2> QED
    BY <2>2, <2>3
<1> QED
  BY <1>5, <1>6, <1>7, <1>8, <1>9 DEF Traces, Feeds

\* A cut leaves each subscription the feed it has without its live frames.
LEMMA CutFeeds ==
    ASSUME FInv, IInv', UNCHANGED <<log, registry, owed, shared, promised, reader>>,
           deliveries # <<>>, deliveries' = Tail(deliveries),
           NEW to \in ToSet(subscriptions), ScopeOf[to] = Head(deliveries).scope, cut(to)
    PROVE  Traces' /\ Feeds'
<1> DEFINE affected == {to} \cup {x.sub : x \in {y \in ToSet(queue) : Scoped(y)}}
<1> USE DEF log, registry
<1>1. to \in Subs /\ queue \in Seq(Items) /\ ids[to] # "fresh"
  BY Soles DEF FInv, IInv, Queued
<1>2. PICK n \in Seq(Items) :
         /\ queue' = Cat(Unscoped(queue), n)
         /\ \A x \in ToSet(n) : x.kind = "lagging" /\ x.sub \in affected
  BY <1>1, Cuts DEF FInv, IInv
<1>3. /\ affected \subseteq Subs /\ DOMAIN lagging' = DOMAIN lagging \cup affected
      /\ \A x \in ToSet(queue') : ~Scoped(x)
      /\ \A t \in DOMAIN lagging' :
            lagging'[t] = IF t \in affected THEN promised[t] ELSE lagging[t]
  BY <1>1, Cuts DEF FInv, IInv
<1>4. \A t \in affected : ids[t] # "fresh"
  BY <1>1, <1>3 DEF FInv, Traces, Untraced
<1>5. /\ Unscoped(queue) \in Seq(Items) /\ ToSet(Unscoped(queue)) \subseteq ToSet(queue)
      /\ ToSet(queue') = ToSet(Unscoped(queue)) \cup ToSet(n)
  <2>1. Unscoped(queue) \in Seq(Items) /\ ToSet(Unscoped(queue)) \subseteq ToSet(queue)
    BY <1>1, ScopedFilter DEF Unscoped
  <2> QED
    BY <2>1, <1>2, CatSet
<1>6. \A t \in Subs \ affected : \A x \in ToSet(queue) : x.sub = t => ~Scoped(x)
  OBVIOUS
<1> HIDE DEF affected
<1>7. Apart' /\ Consecutive'
  BY Hands DEF FInv, Traces, Apart
<1>8. Untraced'
  BY <1>2, <1>3, <1>4, <1>5 DEF FInv, Traces, Untraced
<1>9. Readings'
  BY <1>2, <1>5 DEF FInv, Traces, Readings
<1>10. Rising'
  BY <1>3 DEF Rising, Ascends, ToSet, Scoped
<1>11. Current'
  BY <1>3 DEF FInv, Traces, Current, Behind, Scoped
<1>12. ASSUME NEW s \in Sole' PROVE Fine(s)'
  <2>1. s \in Sole /\ s \in Subs /\ Fitting(s) /\ ScopeOf[s] \in Scopes
    BY Soles, ConnectionAssumption DEF Sole
  <2>2. reader[s] \in Cursors
    BY <2>1 DEF FInv, IInv, Told
  <2>3. Only(n, Of(s)) \in Seq(Items) /\ Only(n, Calm(s)) \in Seq(Items)
        /\ Only(queue, Calm(s)) \in Seq(Items)
    BY <1>1, <1>2, OnlyType
  <2>4. \A T : Only(queue', T) = Cat(Only(Unscoped(queue), T), Only(n, T))
    BY <1>2, <1>5, OnlySplits
  <2>5. Only(Unscoped(queue), Of(s)) = Only(queue, Calm(s))
        /\ Only(Unscoped(queue), Calm(s)) = Only(queue, Calm(s))
    <3> DEFINE T == {item \in ToSet(queue) : ~Scoped(item)}
    <3>1. Unscoped(queue) = Only(queue, T)
      BY DEF Unscoped
    <3>2. /\ ToSet(queue) \cap (T \cap Of(s)) = ToSet(queue) \cap Calm(s)
          /\ ToSet(queue) \cap (T \cap Calm(s)) = ToSet(queue) \cap Calm(s)
      BY <1>1, Members DEF Of, Calm
    <3> HIDE DEF T
    <3>3. /\ Only(Only(queue, T), Of(s)) = Only(queue, T \cap Of(s))
          /\ Only(Only(queue, T), Calm(s)) = Only(queue, T \cap Calm(s))
      BY <1>1, OnlyTwice
    <3>4. /\ Only(queue, T \cap Of(s)) = Only(queue, Calm(s))
          /\ Only(queue, T \cap Calm(s)) = Only(queue, Calm(s))
      BY <1>1, <3>2, OnlySame
    <3> QED
      BY <3>1, <3>3, <3>4
  <2>6. /\ Only(queue', Of(s)) = Cat(Only(queue, Calm(s)), Only(n, Of(s)))
        /\ Only(queue', Calm(s)) = Cat(Only(queue, Calm(s)), Only(n, Calm(s)))
    BY <2>4, <2>5
  <2>7. /\ \A x \in ToSet(Only(n, Of(s))) : x.kind = "lagging"
        /\ \A x \in ToSet(Only(n, Calm(s))) : x.kind = "lagging"
    BY <1>2, OnlyHolds
  <2>8. /\ Full(s)'.at = Rest(s).at /\ Full(s)'.whole = Rest(s).whole
        /\ Rest(s)'.at = Rest(s).at /\ Rest(s)'.whole = Rest(s).whole
    <3>1. /\ Full(s)' = Fed(reader[s], Cat(Only(queue, Calm(s)), Only(n, Of(s))))
          /\ Rest(s)' = Fed(reader[s], Cat(Only(queue, Calm(s)), Only(n, Calm(s))))
          /\ Rest(s) = Fed(reader[s], Only(queue, Calm(s)))
      BY <2>6 DEF Full, Rest
    <3>2. /\ Full(s)'.at = Rest(s).at /\ Full(s)'.whole = Rest(s).whole
      BY <3>1, <2>2, <2>3, <2>7, FedQuiet
    <3>3. /\ Rest(s)'.at = Rest(s).at /\ Rest(s)'.whole = Rest(s).whole
      BY <3>1, <2>2, <2>3, <2>7, FedQuiet
    <3> QED
      BY <3>2, <3>3
  <2>9. CASE s \in affected
    <3>1. s \in DOMAIN lagging' /\ lagging'[s] = promised[s]
      BY <1>3, <2>9
    <3>2. Fitting(s)'
      BY <2>1, <2>8, <3>1 DEF Fitting, Fits
    <3> QED
      BY <2>1, <3>2, FineIsNext
  <2>10. CASE s \notin affected
    <3>1. s # to
      BY <2>10 DEF affected
    <3>2. ScopeOf[s] # ScopeOf[to]
      BY <2>1, <3>1, Soles
    <3>3. Waiting(ScopeOf[s])' = Waiting(ScopeOf[s])
      BY <2>1, <3>2, Hands DEF Records
    <3>4. ToSet(queue) \cap Of(s) = ToSet(queue) \cap Calm(s)
      BY <1>6, <2>1, <2>10 DEF Of, Calm
    <3>5. Full(s) = Rest(s)
      BY <1>1, <3>4, OnlySame DEF Full, Rest
    <3>6. (s \in DOMAIN lagging' <=> s \in DOMAIN lagging)
          /\ (s \in DOMAIN lagging => lagging'[s] = lagging[s])
      BY <1>3, <2>10
    <3>7. Fitting(s)'
      BY <2>1, <2>8, <3>3, <3>5, <3>6 DEF Fitting, Fits
    <3> QED
      BY <2>1, <3>7, FineIsNext
  <2> QED
    BY <2>9, <2>10
<1> QED
  BY <1>7, <1>8, <1>9, <1>10, <1>11, <1>12 DEF Traces, Feeds

\* A filter that spares a subscription's items leaves its feed.
LEMMA Spares ==
    ASSUME NEW q \in Seq(Items), NEW T, NEW s, \A x \in ToSet(q) : x.sub = s => x \in T
    PROVE  /\ Only(Only(q, T), Of(s)) = Only(q, Of(s))
           /\ Only(Only(q, T), Calm(s)) = Only(q, Calm(s))
<1>1. /\ Only(Only(q, T), Of(s)) = Only(q, T \cap Of(s))
      /\ Only(Only(q, T), Calm(s)) = Only(q, T \cap Calm(s))
  BY OnlyTwice
<1>2. /\ ToSet(q) \cap (T \cap Of(s)) = ToSet(q) \cap Of(s)
      /\ ToSet(q) \cap (T \cap Calm(s)) = ToSet(q) \cap Calm(s)
  BY DEF Of, Calm
<1>3. /\ Only(q, T \cap Of(s)) = Only(q, Of(s))
      /\ Only(q, T \cap Calm(s)) = Only(q, Calm(s))
  BY <1>2, OnlySame
<1> QED
  BY <1>1, <1>3

LEMMA ReadingFeeds ==
    ASSUME FInv, IInv', UNCHANGED <<log, registry, owed, shared>>,
           deliveries # <<>>, deliveries' = Tail(deliveries),
           Head(deliveries).kind = "reading",
           enqueueReading(Item("reading", None, None, None, 1))
    PROVE  Traces' /\ Feeds'
<1> DEFINE T == {old \in ToSet(queue) : old.kind # "reading"}
           x == Item("reading", None, None, None, 1)
           q == Only(queue, T)
<1> USE DEF log, registry
<1>1. queue \in Seq(Items) /\ x \in Items
  BY ItemFacts DEF FInv, IInv, Queued
<1>2. queue' = Append(q, x) /\ UNCHANGED <<promised, lagging, reader>>
  BY DEF enqueueReading
<1>3. q \in Seq(Items) /\ ToSet(q) = ToSet(queue) \cap T
  BY <1>1, OnlyType, OnlyHolds
<1>4. x.kind = "reading" /\ x.sub = None /\ ~Leads(x)
  BY DEF Item, Leads
<1>5. Rising'
  BY <1>1, <1>2, <1>3, <1>4, AscendsOnly, AscendsBy DEF FInv, Traces, Rising
<1>6. \A s \in Subs : \A y \in ToSet(queue) : y.sub = s => y \in T
  BY ConnectionAssumption DEF FInv, Traces, Readings
<1> HIDE DEF T, x, q
<1>7. queue' = Pushed(q, x) /\ ToSet(queue') = ToSet(q) \cup {x}
  BY <1>1, <1>2, <1>3, PushedIs DEF Pushed
<1>8. Apart' /\ Consecutive'
  BY Hands DEF FInv, Traces, Apart
<1>9. Untraced'
  BY <1>2, <1>3, <1>4, <1>7, ConnectionAssumption DEF FInv, Traces, Untraced
<1>10. Readings' /\ Current'
  BY <1>2, <1>3, <1>4, <1>7 DEF FInv, Traces, Readings, Current, Behind
<1>11. ASSUME NEW s \in Sole' PROVE Fine(s)'
  <2>1. s \in Sole /\ s \in Subs /\ Fitting(s) /\ ScopeOf[s] \in Scopes
    BY Soles, ConnectionAssumption DEF Sole
  <2>2. Only(q, Of(s)) = Only(queue, Of(s)) /\ Only(q, Calm(s)) = Only(queue, Calm(s))
    BY <1>1, <1>6, <2>1, Spares DEF q
  <2>3. x \notin Of(s) /\ x \notin Calm(s)
    BY <1>4, <2>1, ConnectionAssumption DEF Of, Calm
  <2>4. Only(queue', Of(s)) = Only(q, Of(s)) /\ Only(queue', Calm(s)) = Only(q, Calm(s))
    BY <1>1, <1>3, <1>7, <2>3, OnlyPushed
  <2>5. Waiting(ScopeOf[s])' = Waiting(ScopeOf[s])
    BY <2>1, Hands DEF Records
  <2> QED
    BY <1>2, <2>1, <2>2, <2>4, <2>5, Stays DEF Kept
<1> QED
  BY <1>5, <1>8, <1>9, <1>10, <1>11 DEF Traces, Feeds

LEMMA deliverFeeds ==
    ASSUME FInv, IInv', deliver
    PROVE  Traces' /\ Feeds'
<1> DEFINE next == Head(deliveries)
           to == Receiver(next.scope)
<1>1. /\ UNCHANGED <<log, registry, owed, shared>>
      /\ deliveries # <<>> /\ deliveries' = Tail(deliveries)
  BY DEF deliver
<1>2. next \in Deliveries
  BY <1>1, OnlyTail DEF FInv, IInv, Logged
<1>3. CASE (~active \/ (next.kind # "reading" /\ to = None)) /\ UNCHANGED writer
  <2>1. \A s \in Sole : Head(deliveries) \notin Records(ScopeOf[s])
    BY <1>3, Soles, Unheard DEF Records
  <2> QED
    BY <1>1, <1>3, <2>1, LostFeeds
<1>4. ASSUME active, next.kind # "reading", to # None, NEW bytes \in Sizes,
             enqueueScoped(Item(next.kind, to, None, next.to, bytes))
      PROVE  Traces' /\ Feeds'
  <2> DEFINE item == Item(next.kind, to, None, next.to, bytes)
  <2>1. to \in ToSet(subscriptions) /\ to \in Subs /\ ScopeOf[to] = next.scope
    BY <1>4, Soles, Receives DEF FInv, IInv
  <2>2. next.kind \in {"record", "transient"} /\ next.to \in Cursors
    BY <1>2, <1>4 DEF Deliveries
  <2> HIDE DEF next, to
  <2>3. item \in Items /\ Scoped(item) /\ item.sub = to
    <3>1. item \in Items
      BY <2>1, <2>2, ItemFacts
    <3> QED
      BY <3>1, <2>2 DEF Scoped, Item
  <2>4. enqueueScoped(item)
    BY <1>4
  <2>5. CASE to \in DOMAIN lagging /\ UNCHANGED writer
    <3>1. \A s \in Sole : next \in Records(ScopeOf[s]) => s \in DOMAIN lagging
      BY <2>1, <2>5, Soles DEF Records
    <3> QED
      BY <1>1, <2>5, <3>1, LostFeeds DEF next
  <2>6. CASE to \notin DOMAIN lagging /\ cut(to) /\ UNCHANGED <<promised, reader>>
    BY <1>1, <2>1, <2>6, CutFeeds DEF next
  <2>7. CASE to \notin DOMAIN lagging /\ queue' = Append(queue, item)
             /\ UNCHANGED <<lagging, promised, reader>>
    <3> HIDE DEF item
    <3>1. item = Item(next.kind, to, None, next.to, bytes)
      BY DEF item
    <3> QED
      BY <1>1, <2>1, <2>3, <2>7, <3>1, FrameFeeds DEF next
  <2> HIDE DEF item
  <2> QED
    BY <2>3, <2>4, <2>5, <2>6, <2>7 DEF enqueueScoped, Push
<1>5. CASE next.kind = "reading" /\ enqueueReading(Item("reading", None, None, None, 1))
  BY <1>1, <1>5, ReadingFeeds
<1> QED
  BY <1>3, <1>4, <1>5 DEF deliver

-----------------------------------------------------------------------------
(* Writing.                                                                *)

LEMMA WriteItemFeeds ==
    ASSUME FInv, IInv', WriteItem
    PROVE  Traces' /\ Feeds'
<1> DEFINE item == Head(queue)
           rest == Tail(queue)
<1>1. /\ queue # <<>> /\ queue' = rest
      /\ promised' = IF item.kind = "record"
                     THEN [promised EXCEPT ![item.sub] = item.to] ELSE promised
      /\ reader' = IF item.sub = None THEN reader
                   ELSE [reader EXCEPT ![item.sub] = Reads(@, item)]
      /\ UNCHANGED <<head, deliveries, active, ids, subscriptions, lagging, owed, shared>>
  BY DEF WriteItem, registry, call, log
<1>2. queue \in Seq(Items) /\ promised \in [Subs -> Cursors] /\ reader \in [Subs -> Cursors]
  BY DEF FInv, IInv, Queued, Told
<1>3. /\ item \in Items /\ rest \in Seq(Items)
      /\ ToSet(queue) = {item} \cup ToSet(rest)
      /\ \A T : /\ item \in T => Only(queue, T) = <<item>> \o Only(rest, T)
                /\ item \notin T => Only(queue, T) = Only(rest, T)
  BY <1>1, <1>2, OnlyTail
<1>4. /\ Ascends(rest)
      /\ item.kind = "record" =>
            \A y \in ToSet(rest) : Leads(y) /\ y.sub = item.sub => item.to <= y.to
  BY <1>1, <1>2, AscendsTail DEF FInv, Traces, Rising
<1>5. \A x \in ToSet(queue) : Scoped(x) => x.sub \in Subs \ DOMAIN lagging
  BY DEF FInv, IInv, Queued
<1> HIDE DEF item, rest
<1>6. item \in ToSet(queue) /\ ToSet(rest) \subseteq ToSet(queue)
      /\ (item.kind = "record" => item.sub \in Subs /\ item.sub # None)
  BY <1>3, <1>5, ConnectionAssumption DEF Scoped
<1>7. Apart' /\ Consecutive'
  BY <1>1 DEF FInv, Traces, Apart, Consecutive, Waiting
<1>8. Untraced'
  BY <1>1, <1>2, <1>6 DEF FInv, Traces, Untraced
<1>9. Readings' /\ Rising'
  BY <1>1, <1>4, <1>6 DEF FInv, Traces, Readings, Rising
<1>10. Current'
  <2>1. \A s \in Subs : Behind(s, promised'[s])
    BY <1>1, <1>2, <1>6 DEF FInv, Traces, Current, Behind
  <2> QED
    BY <1>1, <1>6, <2>1 DEF FInv, Traces, Current, Behind
<1>11. ASSUME NEW s \in Sole' PROVE Fine(s)'
  <2>1. /\ s \in Sole /\ s \in Subs /\ s # None /\ Fitting(s)
        /\ reader[s] \in Cursors /\ promised[s] \in Cursors
    BY <1>1, <1>2, Soles, ConnectionAssumption DEF Sole
  <2>2. CASE item.sub # s
    <3>1. item \notin Of(s) /\ item \notin Calm(s)
      BY <2>2 DEF Of, Calm
    <3>2. Kept(s)
      BY <1>1, <1>2, <1>3, <1>6, <2>1, <2>2, <3>1 DEF Kept
    <3> QED
      BY <1>1, <2>1, <3>2, Stays DEF Waiting
  <2>3. CASE item.sub = s
    <3> DEFINE all == Only(rest, Of(s))
               calm == Only(rest, Calm(s))
               at == reader[s]
               on == Reads(at, item)
    <3>1. /\ all \in Seq(Items) /\ calm \in Seq(Items) /\ on \in Cursors
          /\ ToSet(calm) = ToSet(rest) \cap Calm(s)
      BY <1>3, <2>1, OnlyType, OnlyHolds, ReadsType
    <3>2. reader'[s] = on /\ Full(s)' = Fed(on, all) /\ Rest(s)' = Fed(on, calm)
      <4>1. reader'[s] = on
        BY <1>1, <1>2, <2>1, <2>3
      <4> QED
        BY <1>1, <4>1 DEF Full, Rest
    <3>3. <<item>> = Pushed(<<>>, item)
      BY <1>3 DEF Pushed
    <3>4. Full(s) = Fed(at, Cat(Pushed(<<>>, item), all))
      <4>1. item \in Of(s)
        BY <1>3, <2>3 DEF Of
      <4>2. Only(queue, Of(s)) = <<item>> \o all
        BY <1>3, <4>1
      <4> QED
        BY <3>3, <4>2 DEF Full, Cat
    <3>5. Full(s)'.at = Full(s).at /\ Full(s)'.whole
      <4>1. Full(s).whole
        BY <2>1 DEF Fitting, Fits
      <4> HIDE DEF all, at, on
      <4>2. /\ Fed(at, Cat(Pushed(<<>>, item), all)).at = Fed(Reads(at, item), all).at
            /\ Fed(at, Cat(Pushed(<<>>, item), all)).whole => Fed(Reads(at, item), all).whole
        BY <1>3, <2>1, <3>1, FedPop DEF at
      <4> QED
        BY <3>2, <3>4, <4>1, <4>2 DEF on
    <3>6. CASE ~Scoped(item)
      <4>1. Rest(s) = Fed(at, Cat(Pushed(<<>>, item), calm))
        <5>1. item \in Calm(s)
          BY <1>3, <2>3, <3>6 DEF Calm
        <5>2. Only(queue, Calm(s)) = <<item>> \o calm
          BY <1>3, <5>1
        <5> QED
          BY <3>3, <5>2 DEF Rest, Cat
      <4>2. Rest(s)'.at = Rest(s).at /\ Rest(s)'.whole
        <5>1. Rest(s).whole
          BY <2>1 DEF Fitting, Fits
        <5> HIDE DEF calm, at, on
        <5>2. /\ Fed(at, Cat(Pushed(<<>>, item), calm)).at = Fed(Reads(at, item), calm).at
              /\ Fed(at, Cat(Pushed(<<>>, item), calm)).whole => Fed(Reads(at, item), calm).whole
          BY <1>3, <2>1, <3>1, FedPop DEF at
        <5> QED
          BY <3>2, <4>1, <5>1, <5>2 DEF on
      <4>3. promised' = promised
        BY <1>1, <3>6 DEF Scoped
      <4>4. Fitting(s)'
        BY <1>1, <2>1, <3>5, <4>2, <4>3 DEF Fitting, Fits, Waiting
      <4> QED
        BY <2>1, <4>4, FineIsNext
    <3>7. CASE Scoped(item)
      <4>1. Rest(s) = Fed(at, calm)
        <5>1. item \notin Calm(s)
          BY <3>7 DEF Calm
        <5> QED
          BY <1>3, <5>1 DEF Rest
      <4>2. /\ on = at \/ (item.kind = "record" /\ on = item.to)
            /\ item.kind = "record" => on = item.to \/ (on = at /\ at # None /\ ~(item.to > at))
            /\ Reaches(at, on)
        <5>1. item.kind = "record" => item.to # None
          BY <1>6 DEF FInv, Traces, Current
        <5>2. item.to \in Cursors
          BY <1>3 DEF Items
        <5>3. at = None \/ at \in Nat
          BY <2>1, CursorFacts
        <5>4. item.kind = "record" => item.to \in Nat
          BY <5>1, <5>2, CursorFacts
        <5> HIDE DEF at
        <5>5. item.kind \in {"record", "transient"}
          BY <3>7 DEF Scoped
        <5> QED
          BY <5>1, <5>3, <5>4, <5>5 DEF Reads, Reaches
      <4>3. \A x \in ToSet(calm) : ~Scoped(x) /\ x.sub = s /\ x \in ToSet(rest)
        BY <3>1 DEF Calm
      <4>4. /\ Fed(at, calm).whole => Fed(on, calm).whole
            /\ \/ Fed(at, calm).at = at /\ Fed(on, calm).at = on
               \/ \E y \in ToSet(calm) : /\ Leads(y) /\ Fed(at, calm).at = y.to
                                         /\ Fed(on, calm).at = y.to
        <5> HIDE DEF calm, on
        <5> QED
          BY <2>1, <3>1, <4>2, <4>3, FedFurther
      <4>5. Rest(s)'.whole
        BY <2>1, <3>2, <4>1, <4>4 DEF Fitting, Fits
      <4>6. promised'[s] = IF item.kind = "record" THEN item.to ELSE promised[s]
        BY <1>1, <1>2, <2>1, <2>3
      <4>7. promised'[s] # None => Rest(s)'.at # None /\ promised'[s] <= Rest(s)'.at
        <5>1. CASE item.kind = "record"
          <6>1. item.to # None /\ item.to \in Nat
            <7>1. item.to # None
              BY <1>6, <5>1 DEF FInv, Traces, Current
            <7>2. item.to \in Cursors
              BY <1>3 DEF Items
            <7> QED
              BY <7>1, <7>2, CursorFacts
          <6>2. CASE Rest(s)'.at = on
            <7>1. on # None /\ item.to <= on
              BY <2>1, <4>2, <5>1, <6>1, CursorFacts
            <7> QED
              BY <4>6, <5>1, <6>2, <7>1
          <6>3. ASSUME NEW y \in ToSet(calm), Leads(y), Rest(s)'.at = y.to
                PROVE  Rest(s)'.at # None /\ item.to <= Rest(s)'.at
            <7>1. y.to # None /\ y \in ToSet(rest) /\ y.sub = s
              BY <4>3, <6>3 DEF Leads
            <7> QED
              BY <1>4, <2>3, <5>1, <6>3, <7>1
          <6> QED
            BY <3>2, <4>4, <4>6, <5>1, <6>2, <6>3
        <5>2. CASE item.kind # "record"
          <6>1. on = at
            BY <4>2, <5>2
          <6> QED
            BY <2>1, <3>2, <4>1, <4>6, <5>2, <6>1 DEF Fitting, Fits
        <5> QED
          BY <5>1, <5>2
      <4>8. s \notin DOMAIN lagging
        BY <1>5, <1>6, <2>3, <3>7
      <4>9. Fitting(s)'
        BY <1>1, <2>1, <3>5, <4>5, <4>7, <4>8 DEF Fitting, Fits, Waiting
      <4> QED
        BY <2>1, <4>9, FineIsNext
    <3> QED
      BY <3>6, <3>7
  <2> QED
    BY <2>2, <2>3
<1> QED
  BY <1>7, <1>8, <1>9, <1>10, <1>11 DEF Traces, Feeds

-----------------------------------------------------------------------------
(* Catch-ups, and the answers of commands.                                 *)

\* An answer or a catch-up that leads to the scope's head.
LEMMA LedFeeds ==
    ASSUME FInv, IInv', UNCHANGED <<head, deliveries, registry, reader, shared>>,
           owed' = owed \/ owed' = None,
           NEW t \in Subs, ids[t] # "fresh", NEW x \in Items,
           x.sub = t, Leads(x), x.to = head[ScopeOf[t]], queue' = Append(queue, x),
           promised' = [promised EXCEPT ![t] = x.to],
           x.kind = "catchup" /\ x.from # None => t \in DOMAIN lagging /\ x.from = lagging[t],
           DOMAIN lagging' \subseteq DOMAIN lagging, DOMAIN lagging \subseteq DOMAIN lagging' \cup {t},
           \A u \in DOMAIN lagging' : lagging'[u] = lagging[u]
    PROVE  Traces' /\ Feeds'
<1> USE DEF registry
<1>0. ScopeOf[t] \in Scopes /\ head[ScopeOf[t]] \in Nat
  BY ConnectionAssumption, CursorFacts DEF FInv, IInv, Logged
<1>1. queue \in Seq(Items) /\ promised \in [Subs -> Cursors]
      /\ ScopeOf[t] \in Scopes /\ x.to \in Nat /\ x.to # None
  BY <1>0, CursorFacts DEF FInv, IInv, Queued, Told
<1>2. x.kind \in {"answer", "catchup"} /\ ~Scoped(x)
  BY DEF Leads, Scoped
<1>3. ToSet(queue') = ToSet(queue) \cup {x}
  BY <1>1, PushedIs DEF Pushed
<1>4. Apart' /\ Consecutive'
  BY DEF FInv, Traces, Apart, Consecutive, Waiting
<1>5. Untraced'
  BY <1>1, <1>3 DEF FInv, Traces, Untraced
<1>6. Readings'
  BY <1>2, <1>3 DEF FInv, Traces, Readings
<1>7. Rising'
  <2>1. \A y \in ToSet(queue) : y.kind = "record" /\ y.sub = x.sub => y.to <= x.to
    BY <1>1 DEF FInv, Traces, Current, Behind
  <2> QED
    BY <1>1, <2>1, AscendsBy DEF FInv, Traces, Rising
<1>8. Current'
  <2>1. \A s \in Subs : Behind(s, promised'[s])
    BY <1>1 DEF FInv, Traces, Current, Behind
  <2>2. \A s \in DOMAIN lagging' : Behind(s, lagging'[s])
    BY DEF FInv, Traces, Current
  <2>3. \A y \in ToSet(queue') : y.kind = "record" => y.to # None /\ Behind(y.sub, y.to)
    BY <1>2, <1>3 DEF FInv, Traces, Current
  <2> QED
    BY <2>1, <2>2, <2>3 DEF FInv, Traces, Current, Behind
<1>9. ASSUME NEW s \in Sole' PROVE Fine(s)'
  <2>1. s \in Sole /\ s \in Subs /\ Fitting(s)
    BY Soles DEF Sole
  <2>2. CASE s # t
    <3>1. Full(s)' = Full(s) /\ Rest(s)' = Rest(s)
      BY <2>1, <2>2, Appends
    <3>2. promised'[s] = promised[s] /\ (s \in DOMAIN lagging' <=> s \in DOMAIN lagging)
          /\ (s \in DOMAIN lagging => lagging'[s] = lagging[s])
      BY <1>1, <2>1, <2>2
    <3>3. Fitting(s)'
      BY <2>1, <3>1, <3>2 DEF Fitting, Fits, Waiting
    <3> QED
      BY <2>1, <3>3, FineIsNext
  <2>3. CASE s = t
    <3>1. Full(t)' = Follow(Full(t), x) /\ Rest(t)' = Follow(Rest(t), x)
      BY <1>2, Appends
    <3>2. Full(t).whole /\ Rest(t).whole
      BY <2>1, <2>3 DEF Fitting, Fits
    <3>3. x.kind = "catchup" /\ x.from # None =>
             /\ Full(t).at # None /\ x.from <= Full(t).at
             /\ Rest(t) = Full(t)
      <4> SUFFICES ASSUME x.kind = "catchup", x.from # None
                   PROVE  Full(t).at # None /\ x.from <= Full(t).at /\ Rest(t) = Full(t)
        OBVIOUS
      <4>1. t \in DOMAIN lagging /\ x.from = lagging[t]
        OBVIOUS
      <4>2. \A y \in ToSet(queue) : Scoped(y) => y.sub # t
        BY <4>1 DEF FInv, IInv, Queued
      <4>3. ToSet(queue) \cap Of(t) = ToSet(queue) \cap Calm(t)
        BY <4>2 DEF Of, Calm
      <4>4. Only(queue, Of(t)) = Only(queue, Calm(t))
        BY <1>1, <4>3, OnlySame
      <4> QED
        BY <2>1, <2>3, <4>1, <4>4 DEF Fitting, Fits, Full, Rest
    <3>4. Full(t)'.whole /\ Rest(t)'.whole
      BY <1>2, <3>1, <3>2, <3>3 DEF Follow
    <3>5. Full(t)'.at = x.to /\ Rest(t)'.at = x.to
      BY <1>1, <1>2, <3>1 DEF Follow, Reads
    <3>6. promised'[t] = x.to
      BY <1>1
    <3>7. t \in DOMAIN lagging' /\ lagging'[t] # None => lagging'[t] <= x.to
      BY DEF FInv, Traces, Current, Behind
    <3>8. Len(Waiting(ScopeOf[t]))' \in Nat
      BY Waits DEF Waiting, FInv
    <3>9. x.to <= x.to /\ x.to + Len(Waiting(ScopeOf[t]))' >= x.to
      BY <1>1, <3>8
    <3>10. Fitting(t)'
      BY <1>1, <3>4, <3>5, <3>6, <3>7, <3>9 DEF Fitting, Fits
    <3> QED
      BY <2>3, <3>10, FineIsNext
  <2> QED
    BY <2>2, <2>3
<1> QED
  BY <1>4, <1>5, <1>6, <1>7, <1>8, <1>9 DEF Traces, Feeds

LEMMA CatchUpFeeds ==
    ASSUME FInv, IInv', NEW t, CatchUp(t)
    PROVE  Traces' /\ Feeds'
<1>1. /\ UNCHANGED <<log, deliveries, registry, reader, owed, shared>>
      /\ t \in due /\ lagging' = [u \in DOMAIN lagging \ {t} |-> lagging[u]]
      /\ promised' = [promised EXCEPT ![t] = head[ScopeOf[t]]]
  BY DEF CatchUp, CatchesUp
<1>2. t \in DOMAIN lagging /\ t \in Subs /\ ids[t] # "fresh"
  BY <1>1 DEF FInv, IInv, Called, Queued, Traces, Untraced
<1>3. head[ScopeOf[t]] \in Cursors /\ head[ScopeOf[t]] # None
  BY <1>2, ConnectionAssumption DEF FInv, IInv, Logged, Cursors
<1>4. PICK from \in {lagging[t], None}, bytes \in Sizes :
         Push(Item("catchup", t, from, head[ScopeOf[t]], bytes))
  BY DEF CatchUp
<1> DEFINE x == Item("catchup", t, from, head[ScopeOf[t]], bytes)
<1>5. x \in Items
  <2>1. from \in Cursors
    BY <1>2, <1>4, ItemFacts DEF FInv, IInv, Queued
  <2> QED
    BY <2>1, <1>2, <1>3, <1>4, ItemFacts
<1>6. /\ x.sub = t /\ Leads(x) /\ x.to = head[ScopeOf[t]] /\ queue' = Append(queue, x)
      /\ x.kind = "catchup" /\ (x.from # None => x.from = lagging[t])
  BY <1>3, <1>4 DEF Item, Leads, Push
<1> HIDE DEF x
<1>7. /\ DOMAIN lagging' \subseteq DOMAIN lagging
      /\ DOMAIN lagging \subseteq DOMAIN lagging' \cup {t}
      /\ \A u \in DOMAIN lagging' : lagging'[u] = lagging[u]
  BY <1>1
<1> QED
  BY <1>1, <1>2, <1>5, <1>6, <1>7, LedFeeds DEF log

LEMMA answerFeeds ==
    ASSUME FInv, IInv', answer
    PROVE  Traces' /\ Feeds'
<1>1. /\ UNCHANGED <<log, deliveries, registry, lagging, reader, shared>>
      /\ owed' = None /\ Within("answer")
  <2>1. stack \in Seq(Parts) /\ stack # <<>> /\ Head(stack) = "answer"
    BY DEF answer, FInv, IInv, Called, Running, Idle
  <2>2. 1 \in DOMAIN stack /\ stack[1] = "answer"
    BY <2>1, LenProperties, EmptySeq, HeadTailProperties
  <2> QED
    BY <2>2 DEF answer, Within
<1>2. /\ owed \in Items /\ owed.sub \in Subs /\ owed.kind = "answer" /\ owed # None
      /\ ids[owed.sub] # "fresh"
  BY <1>1 DEF FInv, IInv, Called, Traces, Untraced
<1>3. CASE ~active
  BY <1>1, <1>3, Undisturbed DEF answer, log, writer
<1>4. CASE active /\ owed.to # None
  <2>1. queue' = Append(queue, owed) /\ promised' = [promised EXCEPT ![owed.sub] = owed.to]
    BY <1>4 DEF answer, Push
  <2>2. Leads(owed) /\ owed.to = head[ScopeOf[owed.sub]]
    BY <1>2, <1>4 DEF Leads, FInv, Traces, Current
  <2> QED
    BY <1>1, <1>2, <2>1, <2>2, LedFeeds DEF log
<1>5. CASE active /\ owed.to = None
  <2>1. queue' = Append(queue, owed) /\ promised' = promised
    BY <1>5 DEF answer, Push
  <2>2. ~Leads(owed) /\ ~Scoped(owed)
    BY <1>2, <1>5 DEF Leads, Scoped
  <2>3. queue \in Seq(Items) /\ ToSet(queue') = ToSet(queue) \cup {owed}
    BY <1>2, <2>1, PushedIs DEF FInv, IInv, Queued, Pushed
  <2>4. Apart' /\ Consecutive'
    BY <1>1 DEF FInv, Traces, Apart, Consecutive, Waiting, registry, log
  <2>5. Untraced' /\ Readings'
    BY <1>1, <1>2, <2>1, <2>3 DEF FInv, Traces, Untraced, Readings, registry
  <2>6. Rising'
    BY <1>2, <2>1, <2>2, <2>3, AscendsBy DEF FInv, Traces, Rising
  <2>7. Current'
    BY <1>1, <1>2, <2>1, <2>3 DEF FInv, Traces, Current, Behind, log
  <2>8. ASSUME NEW s \in Sole' PROVE Fine(s)'
    <3>1. s \in Sole /\ s \in Subs /\ Fitting(s)
      BY <1>1, Soles DEF Sole, registry
    <3>2. /\ Full(s)'.whole = Full(s).whole /\ Full(s)'.at = Full(s).at
          /\ Rest(s)'.whole = Rest(s).whole /\ Rest(s)'.at = Rest(s).at
      <4>1. CASE owed.sub # s
        BY <1>1, <1>2, <2>1, <3>1, <4>1, Appends
      <4>2. CASE owed.sub = s
        <5>1. /\ Full(s)' = Follow(Full(s), owed) /\ Rest(s)' = Follow(Rest(s), owed)
              /\ Full(s).whole \in BOOLEAN /\ Rest(s).whole \in BOOLEAN
          BY <1>1, <1>2, <2>1, <2>2, <3>1, <4>2, Appends DEF States
        <5>2. Reads(Full(s).at, owed) = Full(s).at /\ Reads(Rest(s).at, owed) = Rest(s).at
          BY <1>2, <1>5 DEF Reads
        <5>3. /\ Follow(Full(s), owed).at = Full(s).at /\ Follow(Rest(s), owed).at = Rest(s).at
              /\ Follow(Full(s), owed).whole = Full(s).whole
              /\ Follow(Rest(s), owed).whole = Rest(s).whole
          BY <1>2, <5>1, <5>2 DEF Follow
        <5> QED
          BY <5>1, <5>3
      <4> QED
        BY <4>1, <4>2
    <3>3. Fitting(s)'
      BY <1>1, <2>1, <3>1, <3>2 DEF Fitting, Fits, Waiting, log
    <3> QED
      BY <3>1, <3>3, FineIsNext
  <2> QED
    BY <2>4, <2>5, <2>6, <2>7, <2>8 DEF Traces, Feeds
<1> QED
  BY <1>3, <1>4, <1>5

-----------------------------------------------------------------------------
(* Registrations and their ends.                                           *)

LEMMA ReleaseFeeds ==
    ASSUME FInv, IInv', NEW t \in Subs, release(t), ids[t] # "fresh",
           ToSet(subscriptions') = ToSet(subscriptions) \ {t},
           UNCHANGED <<head, deliveries, active, shared>>,
           active, ids' = ids \/ ids' = [ids EXCEPT ![t] = "ended"],
           owed' = owed \/ (owed'.sub = t /\ owed'.to = None)
    PROVE  Traces' /\ Feeds'
<1> DEFINE T == {item \in ToSet(queue) : ~(Scoped(item) /\ item.sub = t)}
<1>1. /\ queue' = Only(queue, T) /\ lagging' = [u \in DOMAIN lagging \ {t} |-> lagging[u]]
      /\ promised' = [promised EXCEPT ![t] = None] /\ reader' = reader
  BY DEF release, WithoutFramesOf
<1>2. queue \in Seq(Items) /\ promised \in [Subs -> Cursors]
      /\ ids \in [Subs -> {"fresh", "given", "ended"}]
  BY DEF FInv, IInv, Queued, Told, Registered
<1>3. ToSet(queue') = ToSet(queue) \cap T
  BY <1>1, <1>2, OnlyHolds
<1>4. \A s \in Subs \ {t} : \A x \in ToSet(queue) : x.sub = s => x \in T
  OBVIOUS
<1> HIDE DEF T
<1>5. Apart' /\ Consecutive'
  BY DEF FInv, Traces, Apart, Consecutive, Waiting
<1>6. \A s \in Subs : ids'[s] = "fresh" => ids[s] = "fresh" /\ s # t
  BY <1>2
<1>7. Untraced'
  BY <1>1, <1>2, <1>3, <1>6 DEF FInv, Traces, Untraced
<1>8. Readings'
  BY <1>3 DEF FInv, Traces, Readings
<1>9. Rising'
  BY <1>1, <1>2, AscendsOnly DEF FInv, Traces, Rising
<1>10. Current'
  <2>1. \A s \in Subs : Behind(s, promised'[s])
    BY <1>1, <1>2 DEF FInv, Traces, Current, Behind
  <2> QED
    BY <1>1, <1>3, <2>1 DEF FInv, Traces, Current, Behind
<1>11. ASSUME NEW s \in Sole' PROVE Fine(s)'
  <2>1. s \in Sole /\ s \in Subs \ {t} /\ Fitting(s)
    BY Soles DEF Sole
  <2>2. /\ Only(queue', Of(s)) = Only(queue, Of(s))
        /\ Only(queue', Calm(s)) = Only(queue, Calm(s))
    BY <1>1, <1>2, <1>4, <2>1, Spares
  <2>3. Kept(s)
    BY <1>1, <1>2, <2>1, <2>2 DEF Kept
  <2> QED
    BY <2>1, <2>3, Stays DEF Waiting
<1> QED
  BY <1>5, <1>7, <1>8, <1>9, <1>10, <1>11 DEF Traces, Feeds

LEMMA CatchUpMissingFeeds ==
    ASSUME FInv, IInv', NEW t, CatchUpMissing(t)
    PROVE  Traces' /\ Feeds'
<1>1. /\ UNCHANGED <<log, deliveries, active, ids, owed, shared>> /\ active
      /\ t \in due /\ subscriptions' = Only(subscriptions, Subs \ {t}) /\ release(t)
  BY DEF CatchUpMissing, CatchesUp
<1>2. t \in Subs /\ ids[t] # "fresh"
  BY <1>1 DEF FInv, IInv, Called, Queued, Traces, Untraced
<1>3. ToSet(subscriptions') = ToSet(subscriptions) \ {t}
  BY <1>1, <1>2, Unregisters DEF FInv, IInv
<1> QED
  BY <1>1, <1>2, <1>3, ReleaseFeeds DEF log

LEMMA unsubscribeFeeds ==
    ASSUME FInv, IInv', NEW t \in Subs, unsubscribe(t)
    PROVE  Traces' /\ Feeds'
<1>1. /\ UNCHANGED <<log, deliveries, active, shared>> /\ active
      /\ ids[t] = "given" /\ ids' = [ids EXCEPT ![t] = "ended"]
      /\ subscriptions' = Only(subscriptions, Subs \ {t}) /\ release(t)
      /\ owed' = Item("answer", t, None, None, 1)
  BY DEF unsubscribe, Command
<1>2. ToSet(subscriptions') = ToSet(subscriptions) \ {t}
  BY <1>1, Unregisters DEF FInv, IInv
<1>3. owed'.sub = t /\ owed'.to = None
  BY <1>1 DEF Item
<1> QED
  BY <1>1, <1>2, <1>3, ReleaseFeeds DEF log

LEMMA ClosedFeeds ==
    ASSUME FInv, IInv', Closed, UNCHANGED <<log, deliveries, writer, owed, shared>>
    PROVE  Traces' /\ Feeds'
<1>1. ToSet(subscriptions') = {} /\ subscriptions' = <<>> /\ ids' = ids
  BY DEF Closed, ToSet
<1>2. Apart' /\ Consecutive'
  BY <1>1 DEF FInv, Traces, Apart, Consecutive, Waiting, log
<1>3. Untraced' /\ Current' /\ Rising' /\ Readings'
  BY <1>1 DEF FInv, Traces, Untraced, Current, Behind, Rising, Readings, log, writer
<1>4. Feeds'
  BY <1>1 DEF Feeds, Sole
<1> QED
  BY <1>2, <1>3, <1>4 DEF Traces

\* A subscription that was just given out has nothing to read yet.
LEMMA RegisterFeeds ==
    ASSUME FInv, IInv', NEW t \in Subs, ids[t] = "fresh", Register(t), active,
           UNCHANGED <<log, deliveries, writer>>,
           owed'.sub = t, owed'.to = None \/ owed'.to = head[ScopeOf[t]]
    PROVE  Traces' /\ Feeds'
<1>1. /\ ids' = [ids EXCEPT ![t] = "given"] /\ active'
      /\ shared \subseteq shared'
      /\ IF ScopesWith(ScopeOf[t]) = {} THEN shared' = shared
         ELSE shared' = shared \cup {t} \cup ScopesWith(ScopeOf[t])
  BY DEF Register
<1>2. ToSet(subscriptions') = ToSet(subscriptions) \cup {t} /\ t \notin ToSet(subscriptions)
  BY Registers DEF FInv, IInv
<1>3. ids \in [Subs -> {"fresh", "given", "ended"}] /\ queue \in Seq(Items)
      /\ \A s \in ToSet(subscriptions) : ids[s] # "fresh"
  BY DEF FInv, IInv, Registered, Queued
<1>4. \A s \in Subs : ids'[s] = "fresh" => ids[s] = "fresh" /\ s # t
  BY <1>1, <1>3
<1>5. Apart'
  <2>1. ASSUME NEW s \in ToSet(subscriptions'), NEW u \in ToSet(subscriptions'),
               s # u, ScopeOf[s] = ScopeOf[u]
        PROVE  s \in shared'
    <3>1. CASE s # t /\ u # t
      BY <1>1, <1>2, <2>1, <3>1 DEF FInv, Traces, Apart
    <3>2. CASE s = t
      <4>1. u \in ScopesWith(ScopeOf[t])
        BY <1>2, <2>1, <3>2 DEF ScopesWith
      <4> QED
        BY <1>1, <3>2, <4>1
    <3>3. CASE u = t
      <4>1. s \in ScopesWith(ScopeOf[t])
        BY <1>2, <2>1, <3>3 DEF ScopesWith
      <4> QED
        BY <1>1, <4>1
    <3> QED
      BY <3>1, <3>2, <3>3
  <2> QED
    BY <1>1, <2>1 DEF Apart
<1>6. Untraced'
  <2>1. ASSUME NEW s \in Subs, ids'[s] = "fresh" PROVE s \notin shared'
    <3>1. s # t /\ s \notin shared /\ s \notin ScopesWith(ScopeOf[t])
      BY <1>3, <1>4, <2>1 DEF FInv, Traces, Untraced, ScopesWith
    <3> QED
      BY <1>1, <3>1
  <2> QED
    BY <1>4, <2>1 DEF FInv, Traces, Untraced, writer
<1>7. Rising' /\ Readings' /\ Consecutive'
  BY DEF FInv, Traces, Rising, Readings, Consecutive, Waiting, writer, log
<1>8. Current'
  BY DEF FInv, Traces, Current, Behind, writer, log
<1>9. ASSUME NEW s \in Sole' PROVE Fine(s)'
  <2>1. s \in ToSet(subscriptions') /\ s \notin shared
    BY <1>1 DEF Sole
  <2>2. CASE s # t
    <3>1. s \in Sole /\ s \in Subs /\ Fitting(s)
      BY <1>2, <2>1, <2>2, Soles DEF Sole
    <3> QED
      BY <3>1, Stays DEF Kept, Waiting, writer, log
  <2>3. CASE s = t
    <3>1. /\ promised[t] = None /\ reader[t] = None /\ t \notin DOMAIN lagging
          /\ \A x \in ToSet(queue) : x.sub # t
      BY DEF FInv, Traces, Untraced
    <3>2. ToSet(queue) \cap Of(t) = {} /\ ToSet(queue) \cap Calm(t) = {}
      BY <3>1 DEF Of, Calm
    <3>3. Only(queue, Of(t)) = <<>> /\ Only(queue, Calm(t)) = <<>>
      BY <1>3, <3>2, OnlyNone
    <3>4. /\ Full(t)'.at = None /\ Full(t)'.whole /\ Rest(t)'.whole
      BY <3>1, <3>3, FedEmpty, CursorFacts DEF Full, Rest, writer
    <3>5. Fitting(t)'
      BY <3>1, <3>4 DEF Fitting, Fits, writer
    <3> QED
      BY <2>3, <3>5, FineIsNext
  <2> QED
    BY <2>2, <2>3
<1> QED
  BY <1>5, <1>6, <1>7, <1>8, <1>9 DEF Traces, Feeds

LEMMA replayFeeds ==
    ASSUME FInv, IInv', NEW t \in Subs, replay(t) \/ subscribe(t)
    PROVE  Traces' /\ Feeds'
<1>1. UNCHANGED <<log, deliveries, writer>> /\ active /\ ids[t] = "fresh" /\ Register(t)
  BY DEF replay, subscribe, Command
<1>2. owed'.sub = t /\ (owed'.to = None \/ owed'.to = head[ScopeOf[t]])
  BY DEF replay, subscribe, Item
<1> QED
  BY <1>1, <1>2, RegisterFeeds

-----------------------------------------------------------------------------
(* The theorem.                                                            *)

\* The steps that a feed does not notice.
LEMMA QuietSteps ==
    ASSUME FInv, IInv',
           \/ UNCHANGED vars \/ drain \/ DrainEnds \/ WriteFragment \/ PumpEnds
           \/ DrainFirst \/ CatchUpEnds \/ keepalive
           \/ \E s \in Scopes : DeleteScope(s)
           \/ \E n \in DOMAIN wire : ack(n)
    PROVE  Traces' /\ Feeds'
<1>1. UNCHANGED <<head, deliveries, registry, writer, shared, owed>>
  BY DEF vars, log, call, drain, DrainEnds, WriteFragment, PumpEnds, DrainFirst, CatchUpEnds,
         keepalive, DeleteScope, ack
<1> QED
  BY <1>1, Undisturbed

LEMMA NotifyFeeds ==
    ASSUME FInv, IInv', NEW d \in Deliveries, d.kind # "record", Notify(d)
    PROVE  Traces' /\ Feeds'
<1>1. deliveries' = Pushed(deliveries, d) /\ deliveries \in Seq(Deliveries)
      /\ UNCHANGED <<head, registry, writer, call, shared>>
  BY DEF Notify, Pushed, FInv, IInv, Logged
<1>2. \A c : Waiting(c)' = Waiting(c)
  BY <1>1, OnlyPushed DEF Waiting, Records
<1>3. Consecutive'
  BY <1>1, <1>2 DEF FInv, Traces, Consecutive
<1>4. Apart' /\ Untraced' /\ Current' /\ Rising' /\ Readings'
  BY <1>1 DEF FInv, Traces, Apart, Untraced, Current, Behind, Rising, Readings, registry, writer,
              call
<1>5. ASSUME NEW s \in Sole' PROVE Fine(s)'
  <2>1. s \in Sole /\ s \in Subs /\ Fitting(s)
    BY <1>1, Soles DEF Sole, registry
  <2>2. Len(Waiting(ScopeOf[s]))' = Len(Waiting(ScopeOf[s]))
    BY <1>2
  <2> QED
    BY <1>1, <2>1, <2>2, Stays DEF Kept, writer
<1> QED
  BY <1>3, <1>4, <1>5 DEF Traces, Feeds

LEMMA FeedsStart == Init => FInv
<1> SUFFICES ASSUME Init PROVE FInv
  OBVIOUS
<1>1. IInv
  BY Starts
<1>2. ToSet(<<>>) = {} /\ DOMAIN <<>> = {} /\ subscriptions = <<>> /\ queue = <<>>
  BY DEF ToSet, Init
<1>3. Apart /\ Untraced /\ Rising /\ Readings
  BY <1>2 DEF Init, Apart, Untraced, Rising, Ascends, Readings
<1>4. Current
  BY <1>2 DEF Init, Current, Behind
<1>5. \A c : DOMAIN Waiting(c) = {}
  BY <1>2, OnlyEmpty DEF Init, Waiting
<1>6. Consecutive
  BY <1>5 DEF Consecutive
<1>7. Feeds
  BY <1>2 DEF Feeds, Sole
<1> QED
  BY <1>1, <1>3, <1>4, <1>6, <1>7 DEF FInv, Traces

LEMMA FeedsKeep == FInv /\ [Next]_vars => FInv'
<1> SUFFICES ASSUME FInv, [Next]_vars PROVE FInv'
  OBVIOUS
<1>1. IInv'
  BY StepKeeps DEF FInv
<1> SUFFICES Traces' /\ Feeds'
  BY <1>1 DEF FInv
<1>2. CASE UNCHANGED vars
  BY <1>1, <1>2, QuietSteps
<1>3. ASSUME NEW s \in Scopes,
             Publish(s) \/ DeleteScope(s) \/ Notify(Delivery("transient", s, None))
      PROVE  Traces' /\ Feeds'
  <2>1. Delivery("transient", s, None) \in Deliveries
        /\ Delivery("transient", s, None).kind # "record"
    BY Deliverable DEF Delivery
  <2> QED
    BY <1>1, <1>3, <2>1, PublishFeeds, QuietSteps, NotifyFeeds
<1>4. CASE Notify(Delivery("reading", None, None))
  <2>1. Delivery("reading", None, None).kind # "record"
    BY DEF Delivery
  <2> QED
    BY <1>1, <1>4, <2>1, Deliverable, NotifyFeeds
<1>5. CASE \E s \in Subs : replay(s) \/ subscribe(s) \/ unsubscribe(s)
  BY <1>1, <1>5, replayFeeds, unsubscribeFeeds
<1>6. CASE drain \/ Acked \/ keepalive
  BY <1>1, <1>6, QuietSteps DEF Acked
<1>7. CASE close
  BY <1>1, <1>7, ClosedFeeds DEF close, call
<1>8. CASE deliver \/ WriteItem \/ answer
  BY <1>1, <1>8, deliverFeeds, WriteItemFeeds, answerFeeds
<1>9. CASE DrainEnds \/ WriteFragment \/ PumpEnds \/ DrainFirst \/ CatchUpEnds
  BY <1>1, <1>9, QuietSteps
<1>10. CASE CatchingUp
  <2>1. ASSUME NEW s \in due, CatchUpThrows(s) PROVE Traces' /\ Feeds'
    BY <1>1, <2>1, ClosedFeeds DEF CatchUpThrows
  <2> QED
    BY <1>1, <1>10, <2>1, CatchUpFeeds, CatchUpMissingFeeds DEF CatchingUp
<1> QED
  BY <1>2, <1>3, <1>4, <1>5, <1>6, <1>7, <1>8, <1>9, <1>10 DEF Next, Step

\* websocket.ts:350-354, 660-664: what is written and queued for a subscription
\* leads its reader, without a gap, to every record the delivery queue has
\* handed over, however replays, drains, cuts and catch-ups interleave.
THEOREM WholeFeed == Spec => []FeedIsWhole
<1>1. FInv => FeedIsWhole
  <2> SUFFICES ASSUME FInv PROVE FeedIsWhole
    OBVIOUS
  <2>1. ASSUME NEW s \in Sole PROVE Undelivered(ScopeOf[s]) = Len(Waiting(ScopeOf[s]))
    <3> DEFINE c == ScopeOf[s]
    <3>1. deliveries \in Seq(Deliveries) /\ ToSet(deliveries) \subseteq Deliveries
      BY Members DEF FInv, IInv, Logged
    <3>2. ToSet(deliveries) \cap {d \in ToSet(deliveries) : d.kind = "record" /\ d.scope = c}
             = ToSet(deliveries) \cap Records(c)
      BY <3>1 DEF Records
    <3> HIDE DEF c
    <3>3. Only(deliveries, {d \in ToSet(deliveries) : d.kind = "record" /\ d.scope = c})
             = Waiting(c)
      BY <3>1, <3>2, OnlySame DEF Waiting
    <3> QED
      BY <3>3 DEF Undelivered, c
  <2> QED
    BY <2>1 DEF FeedIsWhole, FInv, Feeds, Fine
<1>2. Spec => []FInv
  <2>1. Init => FInv
    BY FeedsStart
  <2>2. FInv /\ [Next]_vars => FInv'
    BY FeedsKeep
  <2> QED
    BY <2>1, <2>2, PTL DEF Spec
<1> QED
  BY <1>1, <1>2, PTL
=============================================================================
