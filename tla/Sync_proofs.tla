----------------------------- MODULE Sync_proofs -----------------------------
(***************************************************************************)
(* A client's cursor describes its copy (Sync), whatever the bounds: the   *)
(* invariant this rests on and its proof, and the steps of Replica that    *)
(* the steps of Sync are.                                                  *)
(***************************************************************************)
EXTENDS Sync, Queues_proofs, FiniteSetTheorems

-----------------------------------------------------------------------------
(* Types.                                                                  *)

CursorSet == [epoch : Nat, seq : Nat]
Commands ==
    [kind : {"none", "replay", "subscribe", "unsubscribe"}, id : Nat,
     cursor : CursorSet, obj : Nat]
AnswerSet ==
    [mode : {"replay", "snapshot"}, reason : Reasons \cup {"none"},
     from : CursorSet, to : CursorSet]
Kinds == {"record", "transient", "answer", "catchup", "lagging", "subscribed",
          "internal", "validation"}
FrameSet ==
    [kind : Kinds, id : Nat, at : CursorSet, ask : Commands, answer : AnswerSet]
Entries == [frame : FrameSet, trigger : BOOLEAN]
Clients ==
    [thread : BOOLEAN, cursor : CursorSet, copy : CursorSet, obj : Nat, sub : Nat,
     inflight : BOOLEAN, recovery : BOOLEAN, holding : BOOLEAN, held : Seq(Entries),
     unanchored : CursorSet, out : Seq(Commands)]

Answering(frame) == frame.kind \in {"answer", "catchup"}

-----------------------------------------------------------------------------
(* Positions.  E is the epoch of the scope's records and N the positions   *)
(* of the answers that are on their way.                                   *)

\* What a position of this epoch may be: no answer on its way is behind it.
Behind(E, N, x) == x.epoch = E => \A n \in N : x.seq <= n

\* A replay asked from `a` leads on from the cursor a client has now.
Since(E, a, cursor) ==
    a.epoch = E /\ cursor # NoCursor => cursor.epoch = E /\ a.seq <= cursor.seq

\* A cursor that is kept does not go back.
Forward(x, y) == x # NoCursor /\ y # NoCursor => x.seq <= y.seq

\* P: the positions there are; A: the cursors of the replays on their way.
Setting(E, N, A, P) ==
    /\ E \in Nat \ {0}
    /\ N \subseteq Nat
    /\ A \subseteq CursorSet /\ \A a \in A : Behind(E, N, a)
    /\ P \subseteq CursorSet /\ NoCursor \in P
    /\ \A x \in P : x.epoch # E => x.seq = 0

\* A frame whose record, if it is one, has a position.
Placed(E, N, P, frame) ==
    /\ frame \in FrameSet
    /\ frame.kind = "record" => frame.at \in P /\ frame.at.epoch = E /\ Behind(E, N, frame.at)

\* A replay leads from a position of the epoch to a later one.
Leads(E, P, frame) ==
    Answering(frame) =>
       /\ frame.answer.to \in P /\ frame.answer.to.epoch = E
       /\ frame.answer.mode = "replay" =>
             /\ frame.answer.from.epoch = E
             /\ frame.answer.from.seq <= frame.answer.to.seq
             /\ frame.kind = "answer" => frame.answer.from = frame.ask.cursor

\* What holds of a client, within a handler too, that started as `b`.
Sound(E, N, A, P, b, c) ==
    /\ b \in Clients /\ c.thread = b.thread /\ c.obj = b.obj
    /\ Forward(b.cursor, c.cursor)
    /\ c.cursor \in P /\ c.copy \in P \cup {Broken}
    /\ c.cursor # NoCursor => c.copy = c.cursor
    /\ Behind(E, N, c.cursor)
    /\ \A a \in A : Since(E, a, c.cursor)
    /\ \A i \in DOMAIN c.held : Placed(E, N, P, c.held[i].frame)
    /\ \A i \in DOMAIN c.out : /\ Behind(E, N, c.out[i].cursor)
                               /\ Since(E, c.out[i].cursor, c.cursor)
    /\ c.held # <<>> => c.holding

Sounds(E, N, A, P, b) == {c \in Clients : Sound(E, N, A, P, b, c)}

-----------------------------------------------------------------------------
(* The client's handlers.                                                  *)

LEMMA NoCursorIs == /\ NoCursor \in CursorSet /\ NoCursor.epoch = 0 /\ NoCursor.seq = 0
                    /\ Broken \in CursorSet /\ Broken # NoCursor
BY DEF NoCursor, Broken, Cursor, CursorSet

LEMMA CommandIs ==
    ASSUME NEW kind \in {"none", "replay", "subscribe", "unsubscribe"}, NEW id \in Nat,
           NEW cursor \in CursorSet, NEW obj \in Nat
    PROVE  Command(kind, id, cursor, obj) \in Commands
BY DEF Command, Commands

LEMMA OneIs ==
    ASSUME NEW S, NEW e \in S
    PROVE  <<e>> \in Seq(S) /\ Len(<<e>>) = 1 /\ <<e>>[1] = e
OBVIOUS

LEMMA SeqIn ==
    ASSUME NEW S, NEW T, NEW s \in Seq(S), \A i \in DOMAIN s : s[i] \in T
    PROVE  s \in Seq(T)
<1>1. Len(s) \in Nat /\ DOMAIN s = 1..Len(s)
  BY LenProperties
<1>2. 1 \in Int /\ Len(s) \in Int /\ \A i \in 1..Len(s) : s[i] \in T
  BY <1>1
<1>3. SubSeq(s, 1, Len(s)) \in Seq(T)
  BY <1>2, SubSeqProperties
<1> QED
  BY <1>3, SubSeqFull

LEMMA SendSound ==
    ASSUME NEW E, NEW N, NEW A, NEW P, NEW b, NEW c \in Sounds(E, N, A, P, b),
           NEW m \in Commands, Behind(E, N, m.cursor), Since(E, m.cursor, c.cursor)
    PROVE  send(c, m) \in Sounds(E, N, A, P, b)
<1> DEFINE d == send(c, m)
<1>1. c \in Clients /\ Sound(E, N, A, P, b, c)
  BY DEF Sounds
<1>2. /\ Append(c.out, m) \in Seq(Commands)
      /\ \A i \in DOMAIN Append(c.out, m) : i \in DOMAIN c.out \/ i = Len(c.out) + 1
      /\ Append(c.out, m)[Len(c.out) + 1] = m
      /\ \A i \in DOMAIN c.out : Append(c.out, m)[i] = c.out[i]
  <2>1. c.out \in Seq(Commands)
    BY <1>1 DEF Clients
  <2>2. /\ Len(c.out) \in Nat /\ DOMAIN c.out = 1..Len(c.out)
        /\ Append(c.out, m) \in Seq(Commands) /\ Len(Append(c.out, m)) = Len(c.out) + 1
        /\ \A i \in 1..Len(c.out) : Append(c.out, m)[i] = c.out[i]
        /\ Append(c.out, m)[Len(c.out) + 1] = m
    BY <2>1, AppendProperties, LenProperties
  <2>3. DOMAIN Append(c.out, m) = 1..(Len(c.out) + 1)
    BY <2>2, LenProperties
  <2> QED
    BY <2>2, <2>3
<1>3. /\ d \in Clients /\ d.out = Append(c.out, m)
      /\ d.thread = c.thread /\ d.obj = c.obj /\ d.cursor = c.cursor /\ d.copy = c.copy
      /\ d.held = c.held /\ d.holding = c.holding
  BY <1>1, <1>2 DEF send, Clients
<1> HIDE DEF d
<1>4. \A i \in DOMAIN d.out : Behind(E, N, d.out[i].cursor) /\ Since(E, d.out[i].cursor, d.cursor)
  <2> SUFFICES ASSUME NEW i \in DOMAIN Append(c.out, m)
               PROVE  /\ Behind(E, N, Append(c.out, m)[i].cursor)
                      /\ Since(E, Append(c.out, m)[i].cursor, c.cursor)
    BY <1>3
  <2>1. CASE i \in DOMAIN c.out
    BY <2>1, <1>1, <1>2 DEF Sound
  <2>2. CASE i = Len(c.out) + 1
    BY <2>2, <1>2
  <2> QED
    BY <2>1, <2>2, <1>2
<1>5. Sound(E, N, A, P, b, d)
  BY <1>1, <1>3, <1>4 DEF Sound
<1> QED
  BY <1>3, <1>5 DEF Sounds, d

LEMMA UnsubscribeSound ==
    ASSUME NEW E, NEW N, NEW A, NEW P, Setting(E, N, A, P), NEW b,
           NEW c \in Sounds(E, N, A, P, b), NEW id \in Nat
    PROVE  /\ sendUnsubscribe(c, id) \in Sounds(E, N, A, P, b)
           /\ sendUnsubscribe(c, id).cursor = c.cursor /\ sendUnsubscribe(c, id).sub = c.sub
<1> DEFINE m == Command("unsubscribe", id, NoCursor, 0)
<1>1. m \in Commands /\ m.cursor = NoCursor
  BY NoCursorIs, CommandIs DEF Command
<1>2. Behind(E, N, NoCursor) /\ Since(E, NoCursor, c.cursor)
  BY NoCursorIs DEF Behind, Since, Setting
<1>3. send(c, m) \in Sounds(E, N, A, P, b)
  BY <1>1, <1>2, SendSound
<1>4. c \in Clients
  BY DEF Sounds
<1> QED
  BY <1>3, <1>4 DEF sendUnsubscribe, send, Clients

\* Flags, the registration and what an unanchored scope has are free.
LEMMA FreeSound ==
    ASSUME NEW E, NEW N, NEW A, NEW P, NEW b, NEW c \in Sounds(E, N, A, P, b),
           NEW d \in Clients, d.thread = c.thread, d.obj = c.obj,
           d.cursor = c.cursor, d.copy = c.copy, d.out = c.out,
           d.held = c.held \/ d.held = <<>>,
           d.held # <<>> /\ c.holding => d.holding
    PROVE  d \in Sounds(E, N, A, P, b)
<1>1. Sound(E, N, A, P, b, c)
  BY DEF Sounds
<1>2. \A i \in DOMAIN d.held : Placed(E, N, P, d.held[i].frame)
  BY <1>1, EmptySeq DEF Sound
<1>3. d.held # <<>> => d.holding
  BY <1>1 DEF Sound
<1>4. Sound(E, N, A, P, b, d)
  BY <1>1, <1>2, <1>3 DEF Sound
<1> QED
  BY <1>4 DEF Sounds

LEMMA LetGoSound ==
    ASSUME NEW E, NEW N, NEW A, NEW P, Setting(E, N, A, P), NEW b,
           NEW c \in Sounds(E, N, A, P, b)
    PROVE  LetGo(c) \in Sounds(E, N, A, P, b) /\ LetGo(c).cursor = c.cursor
<1> DEFINE e == IF c.sub = 0 THEN c ELSE sendUnsubscribe(c, c.sub)
           d == [e EXCEPT !.sub = 0, !.inflight = FALSE]
<1>1. c.sub \in Nat
  BY DEF Sounds, Clients
<1>2. e \in Sounds(E, N, A, P, b) /\ e.cursor = c.cursor
  BY <1>1, UnsubscribeSound
<1> HIDE DEF e
<1>3. /\ d \in Clients /\ d.thread = e.thread /\ d.obj = e.obj /\ d.cursor = e.cursor
      /\ d.copy = e.copy /\ d.out = e.out /\ d.held = e.held /\ d.holding = e.holding
  BY <1>2 DEF Sounds, Clients
<1>4. LetGo(c) = d
  BY DEF LetGo, e
<1> HIDE DEF d
<1>5. d \in Sounds(E, N, A, P, b)
  BY <1>2, <1>3, FreeSound
<1> QED
  BY <1>2, <1>3, <1>4, <1>5

LEMMA RecoverSound ==
    ASSUME NEW E, NEW N, NEW A, NEW P, Setting(E, N, A, P), NEW b,
           NEW c \in Sounds(E, N, A, P, b), NEW first \in Seq(Entries),
           \A i \in DOMAIN first : Placed(E, N, P, first[i].frame)
    PROVE  recover(c, first) \in Sounds(E, N, A, P, b) /\ recover(c, first).cursor = c.cursor
<1>1. CASE c.recovery \/ c.sub # 0 \/ c.inflight
  BY <1>1 DEF recover
<1>2. CASE ~(c.recovery \/ c.sub # 0 \/ c.inflight)
  <2> DEFINE m == Command("replay", 0, c.cursor, c.obj)
             e == send(c, m)
             held == first \o e.held
             d == [e EXCEPT !.recovery = TRUE, !.inflight = TRUE, !.holding = TRUE,
                            !.held = first \o @]
  <2>1. c \in Clients /\ Sound(E, N, A, P, b, c)
    BY DEF Sounds
  <2>2. c.cursor \in CursorSet /\ c.obj \in Nat
    BY <2>1 DEF Clients
  <2>3. m \in Commands /\ m.cursor = c.cursor
    BY <2>2, CommandIs DEF Command
  <2>4. Behind(E, N, c.cursor) /\ Since(E, c.cursor, c.cursor)
    BY <2>1, <2>2 DEF Sound, Since, CursorSet
  <2>5. e \in Sounds(E, N, A, P, b)
    BY <2>3, <2>4, SendSound
  <2>6. e.cursor = c.cursor
    BY <2>1 DEF send, Clients
  <2> HIDE DEF e
  <2>7. e \in Clients /\ Sound(E, N, A, P, b, e) /\ e.held \in Seq(Entries)
    BY <2>5 DEF Sounds, Clients
  <2>8. held \in Seq(Entries) /\ \A i \in DOMAIN held : Placed(E, N, P, held[i].frame)
    <3>1. /\ Len(first) \in Nat /\ DOMAIN first = 1..Len(first)
          /\ Len(e.held) \in Nat /\ DOMAIN e.held = 1..Len(e.held)
      BY <2>7, LenProperties
    <3>2. /\ held \in Seq(Entries) /\ Len(held) = Len(first) + Len(e.held)
          /\ \A i \in 1..(Len(first) + Len(e.held)) :
                held[i] = IF i <= Len(first) THEN first[i] ELSE e.held[i - Len(first)]
      BY <2>7, ConcatProperties
    <3> HIDE DEF held
    <3>3. DOMAIN held = 1..(Len(first) + Len(e.held))
      BY <3>2, LenProperties
    <3>4. ASSUME NEW i \in 1..(Len(first) + Len(e.held)) PROVE Placed(E, N, P, held[i].frame)
      <4>1. CASE i <= Len(first)
        <5>1. i \in DOMAIN first /\ held[i] = first[i]
          BY <4>1, <3>1, <3>2
        <5> QED
          BY <5>1
      <4>2. CASE ~(i <= Len(first))
        <5>1. i - Len(first) \in DOMAIN e.held /\ held[i] = e.held[i - Len(first)]
          BY <4>2, <3>1, <3>2
        <5> QED
          BY <5>1, <2>7 DEF Sound
      <4> QED
        BY <4>1, <4>2
    <3> QED
      BY <3>2, <3>3, <3>4
  <2>9. /\ d \in Clients /\ d.thread = e.thread /\ d.obj = e.obj /\ d.cursor = e.cursor
        /\ d.copy = e.copy /\ d.out = e.out /\ d.held = held /\ d.holding = TRUE
    BY <2>7, <2>8 DEF Clients
  <2>10. recover(c, first) = d
    BY <1>2 DEF recover, e
  <2> HIDE DEF d, held
  <2>11. Sound(E, N, A, P, b, d)
    BY <2>7, <2>8, <2>9 DEF Sound
  <2> QED
    BY <2>6, <2>9, <2>10, <2>11 DEF Sounds
<1> QED
  BY <1>1, <1>2

LEMMA RecoverFromSound ==
    ASSUME NEW E, NEW N, NEW A, NEW P, Setting(E, N, A, P), NEW b,
           NEW c \in Sounds(E, N, A, P, b), NEW frame, Placed(E, N, P, frame)
    PROVE  recoverFrom(c, frame) \in Sounds(E, N, A, P, b) /\ recoverFrom(c, frame).cursor = c.cursor
<1> DEFINE first == <<Held(frame, TRUE)>>
<1>1. Held(frame, TRUE) \in Entries /\ Held(frame, TRUE).frame = frame
  BY DEF Placed, Held, Entries
<1>2. first \in Seq(Entries) /\ \A i \in DOMAIN first : Placed(E, N, P, first[i].frame)
  <2>1. first \in Seq(Entries) /\ first[1] = Held(frame, TRUE) /\ Len(first) = 1
    BY <1>1, OneIs
  <2>2. DOMAIN first = 1..1
    BY <2>1, LenProperties
  <2>3. \A i \in 1..1 : i = 1
    OBVIOUS
  <2> HIDE DEF first
  <2> QED
    BY <1>1, <2>1, <2>2, <2>3
<1>3. LetGo(c) \in Sounds(E, N, A, P, b) /\ LetGo(c).cursor = c.cursor
  BY LetGoSound
<1> HIDE DEF first
<1>4. recover(LetGo(c), first) \in Sounds(E, N, A, P, b) /\ recover(LetGo(c), first).cursor = c.cursor
  BY <1>2, <1>3, RecoverSound
<1> QED
  BY <1>4 DEF recoverFrom, first

\* The records already asked for and the commands sent stay behind.
LEMMA SinceAdvances ==
    ASSUME NEW E \in Nat \ {0}, NEW N, NEW a \in CursorSet, NEW x \in CursorSet, NEW y \in CursorSet,
           y.epoch = E, Since(E, a, x), x # NoCursor, x.seq <= y.seq
    PROVE  Since(E, a, y)
BY DEF Since, CursorSet

LEMMA SinceAnswer ==
    ASSUME NEW E \in Nat \ {0}, NEW N, NEW a \in CursorSet, NEW y \in CursorSet,
           y.epoch = E, y.seq \in N, Behind(E, N, a)
    PROVE  Since(E, a, y)
BY DEF Since, Behind, CursorSet

LEMMA ApplyRecordSound ==
    ASSUME NEW E, NEW N, NEW A, NEW P, Setting(E, N, A, P), NEW b,
           NEW c \in Sounds(E, N, A, P, b), NEW at \in P, at.epoch = E, Behind(E, N, at),
           placeRecord(position(c), at) = "apply"
    PROVE  applyRecord(c, at) \in Sounds(E, N, A, P, b)
<1> DEFINE d == applyRecord(c, at)
<1>0. E \in Nat \ {0} /\ A \subseteq CursorSet
  BY DEF Setting
<1>1. c \in Clients /\ Sound(E, N, A, P, b, c) /\ at \in CursorSet
  BY DEF Sounds, Setting
<1>2. CASE c.cursor = NoCursor
  <2>1. /\ d \in Clients /\ d.thread = c.thread /\ d.obj = c.obj /\ d.cursor = c.cursor
        /\ d.copy = Broken /\ d.held = c.held /\ d.holding = c.holding /\ d.out = c.out
    BY <1>1, <1>2, NoCursorIs DEF applyRecord, Clients
  <2> HIDE DEF d
  <2>2. Sound(E, N, A, P, b, d)
    BY <1>1, <1>2, <2>1 DEF Sound
  <2> QED
    BY <2>1, <2>2 DEF Sounds, d
<1>3. CASE c.cursor # NoCursor
  <2>1. c.cursor \in CursorSet /\ c.copy = c.cursor
    BY <1>1, <1>3 DEF Clients, Sound
  <2>2. at.epoch = c.cursor.epoch /\ at.seq = c.cursor.seq + 1
    BY <1>1, <1>3, <2>1 DEF placeRecord, position, CursorSet
  <2>3. Folded(c.copy, at) = at
    BY <2>1, <2>2 DEF Folded
  <2>4. /\ d \in Clients /\ d.thread = c.thread /\ d.obj = c.obj /\ d.cursor = at
        /\ d.copy = at /\ d.held = c.held /\ d.holding = c.holding /\ d.out = c.out
    BY <1>1, <1>3, <2>3 DEF applyRecord, Clients
  <2> HIDE DEF d
  <2>5. c.cursor.seq <= at.seq
    BY <2>1, <2>2 DEF CursorSet
  <2>6. \A a \in A : Since(E, a, at)
    <3> SUFFICES ASSUME NEW a \in A PROVE Since(E, a, at)
      OBVIOUS
    <3>1. a \in CursorSet /\ Since(E, a, c.cursor)
      BY <1>0, <1>1 DEF Sound
    <3> QED
      BY <3>1, <1>0, <1>1, <1>3, <2>1, <2>5, SinceAdvances
  <2>7. \A i \in DOMAIN c.out : Since(E, c.out[i].cursor, at)
    <3> SUFFICES ASSUME NEW i \in DOMAIN c.out PROVE Since(E, c.out[i].cursor, at)
      OBVIOUS
    <3>1. c.out[i].cursor \in CursorSet /\ Since(E, c.out[i].cursor, c.cursor)
      <4>1. c.out \in Seq(Commands)
        BY <1>1 DEF Clients
      <4>2. c.out[i] \in Commands
        BY <4>1, LenProperties, ElementOfSeq
      <4> QED
        BY <4>2, <1>1 DEF Sound, Commands
    <3> QED
      BY <3>1, <1>0, <1>1, <1>3, <2>1, <2>5, SinceAdvances
  <2>8. Forward(b.cursor, at)
    <3>1. CASE b.cursor = NoCursor
      BY <3>1 DEF Forward
    <3>2. CASE b.cursor # NoCursor
      <4>1. b.cursor.seq <= c.cursor.seq
        BY <3>2, <1>1, <1>3 DEF Sound, Forward
      <4>2. b.cursor.seq \in Nat /\ at.seq = c.cursor.seq + 1 /\ c.cursor.seq \in Nat
        BY <1>1, <2>1, <2>2 DEF Sound, Clients, CursorSet
      <4> QED
        BY <4>1, <4>2 DEF Forward
    <3> QED
      BY <3>1, <3>2
  <2>9. Sound(E, N, A, P, b, d)
    BY <1>1, <2>4, <2>6, <2>7, <2>8 DEF Sound
  <2> QED
    BY <2>4, <2>9 DEF Sounds, d
<1> QED
  BY <1>2, <1>3

LEMMA RouteSound ==
    ASSUME NEW E, NEW N, NEW A, NEW P, Setting(E, N, A, P), NEW b,
           NEW c \in Sounds(E, N, A, P, b), NEW frame, Placed(E, N, P, frame),
           NEW mode \in {"live", "held", "retry"}
    PROVE  route(c, frame, mode) \in Sounds(E, N, A, P, b)
<1> DEFINE placement ==
        IF frame.kind = "record" THEN placeRecord(position(c), frame.at)
        ELSE placeTransient(position(c), frame.at, mode # "live")
<1>1. CASE placement = "apply" /\ frame.kind = "record"
  <2>1. placeRecord(position(c), frame.at) = "apply"
    BY <1>1
  <2>2. frame.at \in P /\ frame.at.epoch = E /\ Behind(E, N, frame.at)
    BY <1>1 DEF Placed
  <2>3. applyRecord(c, frame.at) \in Sounds(E, N, A, P, b)
    BY <2>1, <2>2, ApplyRecordSound
  <2>4. route(c, frame, mode) = applyRecord(c, frame.at)
    BY <1>1 DEF route
  <2> QED
    BY <2>3, <2>4
<1>2. CASE ~(placement = "apply" /\ frame.kind = "record") /\ placement = "recover" /\ mode # "retry"
  <2>1. route(c, frame, mode) = recoverFrom(c, frame)
    <3> HIDE DEF placement
    <3>1. route(c, frame, mode) =
             CASE placement = "apply" /\ frame.kind = "record" -> applyRecord(c, frame.at)
               [] placement = "recover" /\ mode # "retry" -> recoverFrom(c, frame)
               [] OTHER -> c
      BY DEF route, placement
    <3> QED
      BY <3>1, <1>2
  <2> QED
    BY <2>1, RecoverFromSound
<1>3. CASE /\ ~(placement = "apply" /\ frame.kind = "record")
           /\ ~(placement = "recover" /\ mode # "retry")
  <2>1. route(c, frame, mode) = c
    <3> HIDE DEF placement
    <3>1. route(c, frame, mode) =
             CASE placement = "apply" /\ frame.kind = "record" -> applyRecord(c, frame.at)
               [] placement = "recover" /\ mode # "retry" -> recoverFrom(c, frame)
               [] OTHER -> c
      BY DEF route, placement
    <3> QED
      BY <3>1, <1>3
  <2> QED
    BY <2>1
<1> QED
  BY <1>1, <1>2, <1>3

LEMMA PushSound ==
    ASSUME NEW E, NEW N, NEW A, NEW P, NEW b,
           NEW c \in Sounds(E, N, A, P, b), c.holding,
           NEW frame, Placed(E, N, P, frame), NEW trigger \in BOOLEAN
    PROVE  Push(c, Held(frame, trigger)) \in Sounds(E, N, A, P, b)
<1> DEFINE x == Held(frame, trigger)
           q == Append(c.held, x)
           d == Push(c, x)
<1>1. c \in Clients /\ Sound(E, N, A, P, b, c) /\ c.held \in Seq(Entries)
  BY DEF Sounds, Clients
<1>2. x \in Entries /\ x.frame = frame
  BY DEF Placed, Held, Entries
<1> HIDE DEF x
<1>3. q \in Seq(Entries) /\ \A i \in DOMAIN q : Placed(E, N, P, q[i].frame)
  <2>1. /\ Len(c.held) \in Nat /\ DOMAIN c.held = 1..Len(c.held)
        /\ q \in Seq(Entries) /\ Len(q) = Len(c.held) + 1
        /\ \A i \in 1..Len(c.held) : q[i] = c.held[i]
        /\ q[Len(c.held) + 1] = x
    BY <1>1, <1>2, AppendProperties, LenProperties
  <2> HIDE DEF q
  <2>2. DOMAIN q = 1..(Len(c.held) + 1)
    BY <2>1, LenProperties
  <2>3. ASSUME NEW i \in DOMAIN q PROVE Placed(E, N, P, q[i].frame)
    <3>1. i \in DOMAIN c.held \/ i = Len(c.held) + 1
      BY <2>1, <2>2
    <3>2. CASE i \in DOMAIN c.held
      BY <3>2, <2>1, <1>1 DEF Sound
    <3>3. CASE i = Len(c.held) + 1
      BY <3>3, <2>1, <1>2
    <3> QED
      BY <3>1, <3>2, <3>3
  <2> QED
    BY <2>1, <2>3
<1>4. /\ d \in Clients /\ d.thread = c.thread /\ d.obj = c.obj /\ d.cursor = c.cursor
      /\ d.copy = c.copy /\ d.held = q /\ d.holding = c.holding /\ d.out = c.out
  BY <1>1, <1>3 DEF Push, Clients
<1> HIDE DEF q, d
<1>5. Sound(E, N, A, P, b, d)
  BY <1>1, <1>3, <1>4 DEF Sound
<1> QED
  BY <1>4, <1>5 DEF Sounds, d, x

-----------------------------------------------------------------------------
(* Releasing what was held: a fold over the entries.                       *)

Released(c, entry) ==
    IF c.holding THEN Push(c, Held(entry.frame, entry.trigger))
    ELSE route(c, entry.frame, IF entry.trigger THEN "retry" ELSE "held")

PlacedEntries(E, N, P) == {e \in Entries : Placed(E, N, P, e.frame)}

LEMMA ReleasedSound ==
    ASSUME NEW E, NEW N, NEW A, NEW P, Setting(E, N, A, P), NEW b,
           NEW c \in Sounds(E, N, A, P, b), NEW entry \in PlacedEntries(E, N, P)
    PROVE  Released(c, entry) \in Sounds(E, N, A, P, b)
<1>1. Placed(E, N, P, entry.frame) /\ entry.trigger \in BOOLEAN
  BY DEF PlacedEntries, Entries
<1>2. CASE c.holding
  <2>1. Push(c, Held(entry.frame, entry.trigger)) \in Sounds(E, N, A, P, b)
    BY <1>1, <1>2, PushSound
  <2> QED
    BY <2>1, <1>2 DEF Released
<1>3. CASE ~c.holding
  <2> DEFINE mode == IF entry.trigger THEN "retry" ELSE "held"
  <2>1. mode \in {"live", "held", "retry"}
    OBVIOUS
  <2>2. Released(c, entry) = route(c, entry.frame, mode)
    BY <1>3 DEF Released
  <2> HIDE DEF mode
  <2> QED
    BY <2>1, <2>2, <1>1, RouteSound
<1> QED
  BY <1>2, <1>3

LEMMA ReleaseSound ==
    ASSUME NEW E, NEW N, NEW A, NEW P, Setting(E, N, A, P), NEW b,
           NEW c \in Sounds(E, N, A, P, b), NEW s \in Seq(PlacedEntries(E, N, P))
    PROVE  release(c, s) \in Sounds(E, N, A, P, b)
<1> DEFINE D == DOMAIN s
           C == Sounds(E, N, A, P, b)
           B == PlacedEntries(E, N, P)
           f == [p \in C \X B |-> Released(p[1], p[2])]
           Folds(g) == g = [u \in SUBSET D |-> IF u = {} THEN c
                                               ELSE Released(g[u \ {Max(u)}], s[Max(u)])]
           r == CHOOSE g : Folds(g)
<1>1. release(c, s) = r[D]
  BY DEF release, FoldLeft, MapThenFoldSet, Released
<1>2. D = 1..Len(s) /\ Len(s) \in Nat
  BY LenProperties
<1>3. Folding(C, B, f, c) /\ \A p \in C, e \in B : f[<<p, e>>] = Released(p, e)
  <2>1. \A p \in C \X B : Released(p[1], p[2]) \in C
    BY ReleasedSound
  <2> HIDE DEF C, B
  <2>2. c \in C
    BY DEF C
  <2> QED
    BY <2>1, <2>2 DEF Folding
<1> HIDE DEF D, f, B, C
<1>4. s \in Seq(B)
  BY DEF B
<1>5. PICK g \in [SUBSET (1..Len(s)) -> C] : Iterates(g, f, c, s, Len(s))
  BY <1>3, <1>4, FoldExists
<1>6. ASSUME NEW u \in SUBSET D, u # {}
      PROVE  Max(u) \in D /\ s[Max(u)] \in B /\ u \ {Max(u)} \in SUBSET D
  <2>1. Max(u) \in u
    BY <1>2, <1>6, MaxOf
  <2> QED
    BY <2>1, <1>2, <1>4, ElementOfSeq
<1>7. Folds(g)
  <2>1. ASSUME NEW u \in SUBSET D
        PROVE  g[u] = IF u = {} THEN c ELSE Released(g[u \ {Max(u)}], s[Max(u)])
    <3>1. CASE u = {}
      BY <3>1, <1>2, <1>5 DEF Iterates
    <3>2. CASE u # {}
      <4>1. g[u \ {Max(u)}] \in C /\ s[Max(u)] \in B
        BY <3>2, <1>2, <1>5, <1>6
      <4>2. g[u] = f[<<g[u \ {Max(u)}], s[Max(u)]>>]
        BY <3>2, <1>2, <1>5 DEF Iterates
      <4> QED
        BY <3>2, <4>1, <4>2, <1>3
    <3> QED
      BY <3>1, <3>2
  <2> QED
    BY <2>1, <1>2, <1>5
<1>8. Folds(r)
  BY <1>7
<1>9. \A u \in SUBSET D : r[u] = IF u = {} THEN c ELSE Released(r[u \ {Max(u)}], s[Max(u)])
  BY <1>8
<1> HIDE DEF r
<1> DEFINE X == C \cup {r[u] : u \in SUBSET D}
           h == [p \in X \X B |-> Released(p[1], p[2])]
<1>10. Iterates(r, h, c, s, Len(s))
  <2>1. \A u \in SUBSET D : r[u] \in X
    OBVIOUS
  <2> HIDE DEF X
  <2> QED
    BY <2>1, <1>2, <1>6, <1>9 DEF Iterates
<1>11. \A p \in C \X B : h[p] = f[p]
  BY DEF f
<1> HIDE DEF h
<1>12. r[1..Len(s)] = Run(f, c, s)
  BY <1>3, <1>4, <1>10, <1>11, RunAgrees
<1>13. Run(f, c, s) \in C
  BY <1>3, <1>4, RunSteps
<1> QED
  BY <1>1, <1>2, <1>12, <1>13 DEF C

LEMMA ReleaseHeldSound ==
    ASSUME NEW E, NEW N, NEW A, NEW P, Setting(E, N, A, P), NEW b,
           NEW c \in Sounds(E, N, A, P, b)
    PROVE  ReleaseHeld(c) \in Sounds(E, N, A, P, b)
<1>1. c \in Clients /\ Sound(E, N, A, P, b, c) /\ c.held \in Seq(Entries)
  BY DEF Sounds, Clients
<1>2. /\ unheld(c) \in Clients /\ unheld(c).thread = c.thread /\ unheld(c).obj = c.obj
      /\ unheld(c).cursor = c.cursor /\ unheld(c).copy = c.copy /\ unheld(c).out = c.out
      /\ unheld(c).held = <<>>
  BY <1>1, EmptySeq DEF unheld, Clients
<1>3. unheld(c) \in Sounds(E, N, A, P, b)
  BY <1>2, FreeSound
<1>4. c.held \in Seq(PlacedEntries(E, N, P))
  <2>1. \A i \in DOMAIN c.held : c.held[i] \in PlacedEntries(E, N, P)
    BY <1>1, LenProperties, ElementOfSeq DEF Sound, PlacedEntries
  <2> QED
    BY <2>1, <1>1, SeqIn
<1>5. release(unheld(c), c.held) \in Sounds(E, N, A, P, b)
  BY <1>3, <1>4, ReleaseSound
<1> QED
  BY <1>5 DEF ReleaseHeld

-----------------------------------------------------------------------------
(* Answers and the other frames.                                           *)

LEMMA SnapshotSound ==
    ASSUME NEW E, NEW N, NEW A, NEW P, Setting(E, N, A, P), NEW b,
           NEW c \in Sounds(E, N, A, P, b), NEW d \in Clients, NEW to \in P, to.epoch = E,
           to.seq \in N, Behind(E, N, to),
           d.thread = c.thread, d.obj = c.obj, d.cursor = to, d.copy = to,
           d.held = c.held, d.holding = c.holding, d.out = c.out, b.cursor = c.cursor
    PROVE  d \in Sounds(E, N, A, P, b)
<1>0. E \in Nat \ {0} /\ A \subseteq CursorSet /\ P \subseteq CursorSet /\ N \subseteq Nat
  BY DEF Setting
<1>1. c \in Clients /\ Sound(E, N, A, P, b, c) /\ to \in CursorSet
  BY <1>0 DEF Sounds
<1>2. \A a \in A : Since(E, a, to)
  <2> SUFFICES ASSUME NEW a \in A PROVE Since(E, a, to)
    OBVIOUS
  <2>1. a \in CursorSet /\ Behind(E, N, a)
    BY <1>0 DEF Setting
  <2> QED
    BY <2>1, <1>0, <1>1, SinceAnswer
<1>3. \A i \in DOMAIN c.out : Since(E, c.out[i].cursor, to)
  <2> SUFFICES ASSUME NEW i \in DOMAIN c.out PROVE Since(E, c.out[i].cursor, to)
    OBVIOUS
  <2>1. c.out \in Seq(Commands)
    BY <1>1 DEF Clients
  <2>2. c.out[i] \in Commands
    BY <2>1, LenProperties, ElementOfSeq
  <2>3. c.out[i].cursor \in CursorSet /\ Behind(E, N, c.out[i].cursor)
    BY <2>2, <1>1 DEF Sound, Commands
  <2> QED
    BY <2>3, <1>0, <1>1, SinceAnswer
<1>4. Forward(b.cursor, to)
  <2>1. c.cursor \in P /\ c.cursor \in CursorSet /\ Behind(E, N, c.cursor)
    BY <1>1 DEF Sound, Clients
  <2>2. CASE c.cursor.epoch = E
    BY <2>1, <2>2 DEF Behind, Forward
  <2>3. CASE c.cursor.epoch # E
    <3>1. c.cursor.seq = 0 /\ to.seq \in Nat
      BY <2>1, <2>3, <1>1 DEF Setting, CursorSet
    <3> QED
      BY <3>1 DEF Forward
  <2> QED
    BY <2>2, <2>3
<1>5. Sound(E, N, A, P, b, d)
  BY <1>1, <1>2, <1>3, <1>4 DEF Sound
<1> QED
  BY <1>5 DEF Sounds

\* An answer that leads on from the client's cursor, or from behind it.
Fitting(E, c, a) ==
    a.mode = "replay" /\ c.cursor # NoCursor =>
       c.cursor.epoch = E /\ a.from.seq <= c.cursor.seq

LEMMA ApplyAnswerSound ==
    ASSUME NEW E, NEW N, NEW A, NEW P, Setting(E, N, A, P),
           NEW c, c \in Sounds(E, N, A, P, c), NEW a \in AnswerSet,
           a.to \in P, a.to.epoch = E, a.to.seq \in N, Behind(E, N, a.to), Fitting(E, c, a)
    PROVE  applyAnswer(c, a) \in Sounds(E, N, A, P, c)
<1> DEFINE anchored == [c EXCEPT !.unanchored = NoCursor]
           d == applyAnswer(c, a)
<1>1. c \in Clients /\ Sound(E, N, A, P, c, c) /\ a.to \in CursorSet
  BY DEF Sounds, Setting
<1>2. /\ anchored \in Clients /\ anchored.thread = c.thread /\ anchored.obj = c.obj
      /\ anchored.cursor = c.cursor /\ anchored.copy = c.copy /\ anchored.held = c.held
      /\ anchored.holding = c.holding /\ anchored.out = c.out
  BY <1>1, NoCursorIs DEF Clients
<1>3. CASE a.mode = "replay" /\ c.cursor = NoCursor
  <2>1. d = anchored
    BY <1>3 DEF applyAnswer
  <2> HIDE DEF anchored, d
  <2>2. anchored \in Sounds(E, N, A, P, c)
    BY <1>2, FreeSound
  <2> QED
    BY <2>1, <2>2 DEF d
<1>4. CASE a.mode = "snapshot" \/ c.cursor # NoCursor
  <2>1. d = [anchored EXCEPT !.cursor = a.to, !.copy = a.to]
    <3>1. CASE a.mode = "snapshot"
      BY <3>1 DEF applyAnswer
    <3>2. CASE a.mode # "snapshot"
      <4>1. a.mode = "replay" /\ c.cursor # NoCursor
        BY <3>2, <1>4 DEF AnswerSet
      <4>2. c.cursor \in CursorSet /\ c.copy = c.cursor /\ Behind(E, N, c.cursor)
        BY <4>1, <1>1 DEF Sound, Clients
      <4>3. c.cursor.epoch = E /\ a.from.seq <= c.cursor.seq
        BY <4>1 DEF Fitting
      <4>4. c.cursor.seq <= a.to.seq
        BY <4>2, <4>3 DEF Behind
      <4>5. a.from.seq \in Nat /\ a.to.seq \in Nat /\ c.cursor.seq \in Nat
        BY <4>2 DEF AnswerSet, CursorSet
      <4>6. ~(a.from.seq > c.cursor.seq)
        BY <4>3, <4>5
      <4>7. Cursor(E, a.to.seq) = a.to
        BY <1>1 DEF Cursor, CursorSet
      <4>8. CASE a.to.seq > c.copy.seq
        <5>1. Tailed(c, a) = a.to
          BY <4>2, <4>3, <4>6, <4>7, <4>8 DEF Tailed
        <5> QED
          BY <5>1, <4>1 DEF applyAnswer
      <4>9. CASE ~(a.to.seq > c.copy.seq)
        <5>1. c.cursor.seq = a.to.seq
          BY <4>2, <4>4, <4>5, <4>9
        <5>2. c.cursor = a.to
          BY <5>1, <4>2, <4>3, <1>1 DEF CursorSet
        <5>3. Tailed(c, a) = c.copy
          BY <4>2, <4>3, <4>6, <4>9 DEF Tailed
        <5> QED
          BY <5>2, <5>3, <4>1, <4>2 DEF applyAnswer
      <4> QED
        BY <4>8, <4>9
    <3> QED
      BY <3>1, <3>2
  <2>2. /\ d \in Clients /\ d.thread = c.thread /\ d.obj = c.obj
        /\ d.cursor = a.to /\ d.copy = a.to /\ d.held = c.held
        /\ d.holding = c.holding /\ d.out = c.out
    BY <2>1, <1>1, <1>2 DEF Clients
  <2> HIDE DEF anchored, d
  <2>3. d \in Sounds(E, N, A, P, c)
    BY <2>2, SnapshotSound
  <2> QED
    BY <2>3 DEF d
<1> QED
  BY <1>3, <1>4 DEF AnswerSet

\* A frame that is received: the answer it carries is on its way no more, but
\* is one of N all the same.
Arriving(E, N, A, P, frame) ==
    /\ Placed(E, N, P, frame) /\ Leads(E, P, frame)
    /\ frame.ask.cursor \in A
    /\ Answering(frame) => frame.answer.to.seq \in N /\ Behind(E, N, frame.answer.to)

LEMMA AnsweredSound ==
    ASSUME NEW E, NEW N, NEW A, NEW P, Setting(E, N, A, P),
           NEW c, c \in Sounds(E, N, A, P, c), NEW frame, Arriving(E, N, A, P, frame),
           frame.kind = "answer"
    PROVE  Answered(c, frame) \in Sounds(E, N, A, P, c)
<1> DEFINE d == applyAnswer(c, frame.answer)
           e == [d EXCEPT !.inflight = FALSE, !.sub = frame.id, !.recovery = FALSE]
<1>1. c \in Clients /\ Sound(E, N, A, P, c, c) /\ frame \in FrameSet
  BY DEF Sounds, Arriving, Placed
<1>2. frame.id \in Nat /\ frame.answer \in AnswerSet
  BY <1>1 DEF FrameSet
<1>3. CASE frame.ask.obj # c.obj
  BY <1>3, <1>2, UnsubscribeSound DEF Answered
<1>4. CASE frame.ask.obj = c.obj
  <2> DEFINE a == frame.answer
  <2>1. /\ a.to \in P /\ a.to.epoch = E /\ a.to.seq \in N /\ Behind(E, N, a.to)
        /\ a.mode = "replay" => a.from.epoch = E /\ a.from = frame.ask.cursor
    BY DEF Arriving, Leads, Answering
  <2>2. Since(E, frame.ask.cursor, c.cursor)
    BY <1>1 DEF Arriving, Sound
  <2>3. Fitting(E, c, a)
    BY <2>1, <2>2 DEF Fitting, Since
  <2> HIDE DEF a
  <2>4. d \in Sounds(E, N, A, P, c)
    BY <2>1, <2>3, <1>2, ApplyAnswerSound DEF a
  <2> HIDE DEF d
  <2>5. /\ e \in Clients /\ e.thread = d.thread /\ e.obj = d.obj /\ e.cursor = d.cursor
        /\ e.copy = d.copy /\ e.out = d.out /\ e.held = d.held /\ e.holding = d.holding
    BY <2>4, <1>2 DEF Sounds, Clients
  <2>6. Answered(c, frame) = ReleaseHeld(e)
    BY <1>4 DEF Answered, d
  <2> HIDE DEF e
  <2>7. e \in Sounds(E, N, A, P, c)
    BY <2>4, <2>5, FreeSound
  <2> QED
    BY <2>6, <2>7, ReleaseHeldSound
<1> QED
  BY <1>3, <1>4

LEMMA SubscribedSound ==
    ASSUME NEW E, NEW N, NEW A, NEW P, Setting(E, N, A, P),
           NEW c, c \in Sounds(E, N, A, P, c), NEW frame \in FrameSet
    PROVE  Subscribed(c, frame) \in Sounds(E, N, A, P, c)
<1>1. c \in Clients /\ frame.id \in Nat
  BY DEF Sounds, FrameSet
<1>2. CASE frame.ask.obj # c.obj
  BY <1>1, <1>2, UnsubscribeSound DEF Subscribed
<1>3. CASE frame.ask.obj = c.obj
  <2> DEFINE d == [c EXCEPT !.inflight = FALSE]
             e == [c EXCEPT !.inflight = FALSE, !.sub = frame.id]
  <2>1. d \in Sounds(E, N, A, P, c)
    <3>1. /\ d \in Clients /\ d.thread = c.thread /\ d.obj = c.obj /\ d.cursor = c.cursor
          /\ d.copy = c.copy /\ d.out = c.out /\ d.held = c.held /\ d.holding = c.holding
      BY <1>1 DEF Clients
    <3> HIDE DEF d
    <3> QED
      BY <3>1, FreeSound
  <2>2. e \in Sounds(E, N, A, P, c)
    <3>1. /\ e \in Clients /\ e.thread = c.thread /\ e.obj = c.obj /\ e.cursor = c.cursor
          /\ e.copy = c.copy /\ e.out = c.out /\ e.held = c.held /\ e.holding = c.holding
      BY <1>1 DEF Clients
    <3> HIDE DEF e
    <3> QED
      BY <3>1, FreeSound
  <2>3. Subscribed(c, frame) = IF c.sub # 0 THEN sendUnsubscribe(d, frame.id) ELSE e
    BY <1>3 DEF Subscribed
  <2> HIDE DEF d, e
  <2> QED
    BY <1>1, <2>1, <2>2, <2>3, UnsubscribeSound
<1> QED
  BY <1>2, <1>3

LEMMA FailSound ==
    ASSUME NEW E, NEW N, NEW A, NEW P, Setting(E, N, A, P),
           NEW c, c \in Sounds(E, N, A, P, c), NEW frame \in FrameSet
    PROVE  fail(c, frame) \in Sounds(E, N, A, P, c)
<1> DEFINE idle == [unheld(c) EXCEPT !.inflight = FALSE, !.recovery = FALSE]
           none == forgetCursor(idle)
<1>1. c \in Clients /\ Sound(E, N, A, P, c, c)
  BY DEF Sounds
<1>2. /\ idle \in Clients /\ idle.thread = c.thread /\ idle.obj = c.obj
      /\ idle.cursor = c.cursor /\ idle.copy = c.copy /\ idle.out = c.out
      /\ idle.held = <<>>
  BY <1>1, EmptySeq DEF unheld, Clients
<1>0. fail(c, frame) =
         IF frame.ask.obj # c.obj THEN c
         ELSE IF frame.ask.cursor # NoCursor /\ frame.kind = "validation" THEN recover(none, <<>>)
         ELSE IF c.thread THEN idle ELSE subscribe(idle)
  BY DEF fail
<1> HIDE DEF idle
<1>3. idle \in Sounds(E, N, A, P, c)
  BY <1>2, FreeSound
<1>4. none \in Sounds(E, N, A, P, c)
  <2>1. /\ none \in Clients /\ none.thread = idle.thread /\ none.obj = idle.obj
        /\ none.cursor = NoCursor /\ none.copy = idle.copy /\ none.out = idle.out
        /\ none.held = idle.held /\ none.holding = idle.holding
    BY <1>2, NoCursorIs DEF forgetCursor, Clients
  <2> HIDE DEF none
  <2>2. Sound(E, N, A, P, c, idle) /\ E # 0 /\ NoCursor \in P
    BY <1>3 DEF Sounds, Setting
  <2>3. Behind(E, N, NoCursor) /\ (\A a : Since(E, a, NoCursor)) /\ Forward(c.cursor, NoCursor)
    BY <2>2, NoCursorIs DEF Behind, Since, Forward
  <2>4. Sound(E, N, A, P, c, none)
    BY <2>1, <2>2, <2>3 DEF Sound
  <2> QED
    BY <2>1, <2>4 DEF Sounds
<1> HIDE DEF none
<1>5. recover(none, <<>>) \in Sounds(E, N, A, P, c)
  <2>1. <<>> \in Seq(Entries) /\ \A i \in DOMAIN <<>> : Placed(E, N, P, <<>>[i].frame)
    BY EmptySeq
  <2> QED
    BY <2>1, <1>4, RecoverSound
<1>6. subscribe(idle) \in Sounds(E, N, A, P, c)
  <2> DEFINE m == Command("subscribe", 0, NoCursor, idle.obj)
             e == send(idle, m)
             d == [e EXCEPT !.inflight = TRUE]
  <2>1. m \in Commands /\ m.cursor = NoCursor
    BY <1>2, NoCursorIs, CommandIs DEF Command, Clients
  <2>2. Behind(E, N, NoCursor) /\ Since(E, NoCursor, idle.cursor)
    BY NoCursorIs DEF Behind, Since, Setting
  <2>3. e \in Sounds(E, N, A, P, c)
    BY <2>1, <2>2, <1>3, SendSound
  <2> HIDE DEF e
  <2>4. /\ d \in Clients /\ d.thread = e.thread /\ d.obj = e.obj /\ d.cursor = e.cursor
        /\ d.copy = e.copy /\ d.out = e.out /\ d.held = e.held /\ d.holding = e.holding
    BY <2>3 DEF Sounds, Clients
  <2>5. subscribe(idle) = IF idle.sub # 0 \/ idle.inflight THEN idle ELSE d
    BY DEF subscribe, e
  <2> HIDE DEF d
  <2>6. d \in Sounds(E, N, A, P, c)
    BY <2>3, <2>4, FreeSound
  <2> QED
    BY <2>5, <2>6, <1>3
<1> QED
  BY <1>0, <1>3, <1>5, <1>6

LEMMA LaggingSound ==
    ASSUME NEW E, NEW N, NEW A, NEW P, Setting(E, N, A, P),
           NEW c, c \in Sounds(E, N, A, P, c), NEW frame
    PROVE  NoteLagging(c, frame) \in Sounds(E, N, A, P, c)
<1> DEFINE d == [c EXCEPT !.holding = TRUE]
<1>1. /\ d \in Clients /\ d.thread = c.thread /\ d.obj = c.obj /\ d.cursor = c.cursor
      /\ d.copy = c.copy /\ d.out = c.out /\ d.held = c.held /\ d.holding = TRUE
  BY DEF Sounds, Clients
<1>2. NoteLagging(c, frame) = c \/ NoteLagging(c, frame) = d
  BY DEF NoteLagging
<1> HIDE DEF d
<1>3. d \in Sounds(E, N, A, P, c)
  BY <1>1, FreeSound
<1> QED
  BY <1>2, <1>3

LEMMA CatchupSound ==
    ASSUME NEW E, NEW N, NEW A, NEW P, Setting(E, N, A, P),
           NEW c, c \in Sounds(E, N, A, P, c), NEW frame, Arriving(E, N, A, P, frame),
           frame.kind = "catchup"
    PROVE  applyCatchup(c, frame) \in Sounds(E, N, A, P, c)
<1> DEFINE a == frame.answer
<1>1. c \in Clients /\ Sound(E, N, A, P, c, c) /\ frame \in FrameSet
  BY DEF Sounds, Arriving, Placed
<1>2. a \in AnswerSet
  BY <1>1 DEF FrameSet
<1>3. CASE c.obj = 0 \/ c.sub # frame.id
  BY <1>3 DEF applyCatchup
<1>4. CASE ~(c.obj = 0 \/ c.sub # frame.id) /\ fits(c, a)
  <2>1. /\ a.to \in P /\ a.to.epoch = E /\ a.to.seq \in N /\ Behind(E, N, a.to)
        /\ a.mode = "replay" => a.from.epoch = E
    BY DEF Arriving, Leads, Answering
  <2>2. c.cursor \in CursorSet
    BY <1>1 DEF Clients
  <2>3. Fitting(E, c, a)
    BY <2>1, <2>2, <1>4 DEF fits, Fitting, CursorSet
  <2>4. applyCatchup(c, frame) = ReleaseHeld(applyAnswer(c, a))
    BY <1>4 DEF applyCatchup
  <2> HIDE DEF a
  <2>5. applyAnswer(c, a) \in Sounds(E, N, A, P, c)
    BY <2>1, <2>3, <1>2, ApplyAnswerSound
  <2> QED
    BY <2>4, <2>5, ReleaseHeldSound
<1>5. CASE ~(c.obj = 0 \/ c.sub # frame.id) /\ ~fits(c, a)
  <2>1. applyCatchup(c, frame) = recover(LetGo(c), <<>>)
    BY <1>5 DEF applyCatchup
  <2>2. LetGo(c) \in Sounds(E, N, A, P, c)
    BY LetGoSound
  <2>3. <<>> \in Seq(Entries) /\ \A i \in DOMAIN <<>> : Placed(E, N, P, <<>>[i].frame)
    BY EmptySeq
  <2> QED
    BY <2>1, <2>2, <2>3, RecoverSound
<1> QED
  BY <1>3, <1>4, <1>5

\* What any frame leaves of a client.
LEMMA MessageSound ==
    ASSUME NEW E, NEW N, NEW A, NEW P, Setting(E, N, A, P),
           NEW c, c \in Sounds(E, N, A, P, c), NEW frame, Arriving(E, N, A, P, frame)
    PROVE  handleMessage(c, frame) \in Sounds(E, N, A, P, c)
<1>1. frame \in FrameSet /\ frame.kind \in Kinds /\ Placed(E, N, P, frame)
  BY DEF Arriving, Placed, FrameSet
<1>2. CASE IsLive(frame)
  <2>1. handleMessage(c, frame) = receive(c, frame)
    BY <1>2 DEF handleMessage, IsLive
  <2>2. CASE c.obj = 0
    BY <2>1, <2>2 DEF receive
  <2>3. CASE c.obj # 0 /\ c.holding
    BY <2>1, <2>3, <1>1, PushSound DEF receive
  <2>4. CASE c.obj # 0 /\ ~c.holding
    BY <2>1, <2>4, <1>1, RouteSound DEF receive
  <2> QED
    BY <2>2, <2>3, <2>4
<1>3. CASE frame.kind = "answer"
  BY <1>3, AnsweredSound DEF handleMessage, IsLive
<1>4. CASE frame.kind = "subscribed"
  BY <1>1, <1>4, SubscribedSound DEF handleMessage, IsLive
<1>5. CASE frame.kind = "lagging"
  BY <1>5, LaggingSound DEF handleMessage, IsLive
<1>6. CASE frame.kind = "catchup"
  BY <1>6, CatchupSound DEF handleMessage, IsLive
<1>7. CASE frame.kind \in {"internal", "validation"}
  BY <1>1, <1>7, FailSound DEF handleMessage, IsLive
<1> QED
  BY <1>1, <1>2, <1>3, <1>4, <1>5, <1>6, <1>7 DEF Kinds, IsLive

-----------------------------------------------------------------------------
(* The writer's queue: no answer is behind a record or an answer that is   *)
(* sent before it.                                                         *)

Upto(f, g) ==
    Answering(g) => /\ f.kind = "record" => f.at.seq <= g.answer.to.seq
                    /\ Answering(f) => f.answer.to.seq <= g.answer.to.seq

Ordered(q) == \A i, j \in DOMAIN q : i < j => Upto(q[i], q[j])

Partial == UNION {[D -> CursorSet] : D \in SUBSET Nat}
Writers == [queue : Seq(FrameSet), promised : Partial, lagging : Partial]

LiveSet == {frame \in FrameSet : IsLive(frame)}

\* What holds of a writer whose registrations are S and whose frames are of Q.
SoundWriter(Q, S, wr) ==
    /\ ToSet(wr.queue) \subseteq Q
    /\ Ordered(wr.queue)
    /\ \A frame \in ToSet(wr.queue) : IsLive(frame) => frame.id \in S
    /\ DOMAIN wr.promised \subseteq S
    /\ DOMAIN wr.lagging \subseteq S
    /\ Len(Only(wr.queue, LiveSet)) <= Backlog

SoundWriters(Q, S) == {wr \in Writers : SoundWriter(Q, S, wr)}

LEMMA OrderedPushed ==
    ASSUME NEW S, NEW s \in Seq(S), NEW e \in S
    PROVE  Ordered(Pushed(s, e)) <=> Ordered(s) /\ \A f \in ToSet(s) : Upto(f, e)
<1> DEFINE t == Pushed(s, e)
           n == Len(s)
<1>1. /\ n \in Nat /\ DOMAIN s = 1..n /\ t \in Seq(S) /\ Len(t) = n + 1 /\ t[n + 1] = e
      /\ \A i \in 1..n : t[i] = s[i]
  BY AppendProperties, LenProperties DEF Pushed
<1> HIDE DEF t, n
<1>2. DOMAIN t = 1..(n + 1)
  BY <1>1, LenProperties
<1>3. ASSUME Ordered(t) PROVE Ordered(s) /\ \A f \in ToSet(s) : Upto(f, e)
  <2>1. ASSUME NEW i \in 1..n, NEW j \in 1..n, i < j PROVE Upto(s[i], s[j])
    <3>1. i \in DOMAIN t /\ j \in DOMAIN t
      BY <1>1, <1>2
    <3>2. Upto(t[i], t[j])
      BY <3>1, <2>1, <1>3 DEF Ordered
    <3> QED
      BY <3>2, <1>1
  <2>2. ASSUME NEW i \in 1..n PROVE Upto(s[i], e)
    <3>1. i \in DOMAIN t /\ n + 1 \in DOMAIN t /\ i < n + 1
      BY <1>1, <1>2
    <3>2. Upto(t[i], t[n + 1])
      BY <3>1, <1>3 DEF Ordered
    <3> QED
      BY <3>2, <1>1
  <2> QED
    BY <2>1, <2>2, <1>1 DEF Ordered, ToSet
<1>4. ASSUME Ordered(s), \A f \in ToSet(s) : Upto(f, e) PROVE Ordered(t)
  <2> SUFFICES ASSUME NEW i \in 1..(n + 1), NEW j \in 1..(n + 1), i < j
               PROVE  Upto(t[i], t[j])
    BY <1>2 DEF Ordered
  <2>1. i \in 1..n /\ (j \in 1..n \/ j = n + 1)
    BY <1>1
  <2>2. CASE j \in 1..n
    BY <2>1, <2>2, <1>1, <1>4 DEF Ordered
  <2>3. CASE j = n + 1
    <3>1. s[i] \in ToSet(s)
      BY <2>1, <1>1 DEF ToSet
    <3> QED
      BY <3>1, <2>1, <2>3, <1>1, <1>4
  <2> QED
    BY <2>1, <2>2, <2>3
<1> QED
  BY <1>3, <1>4 DEF t

LEMMA OrderedOnly ==
    ASSUME NEW S, NEW T, NEW s \in Seq(S), Ordered(s)
    PROVE  Ordered(Only(s, T))
<1>1. \A i, j \in DOMAIN Only(s, T) : i < j =>
         \E k, l \in DOMAIN s : k < l /\ Only(s, T)[i] = s[k] /\ Only(s, T)[j] = s[l]
  BY OnlyEmbeds
<1>2. \A k, l \in DOMAIN s : k < l => Upto(s[k], s[l])
  BY DEF Ordered
<1> DEFINE q == Only(s, T)
<1> HIDE DEF q
<1>3. \A i, j \in DOMAIN q : i < j => Upto(q[i], q[j])
  BY <1>1, <1>2 DEF q
<1> QED
  BY <1>3 DEF Ordered, q

\* Frames that answer nothing may follow anything.
LEMMA OrderedQuiet ==
    ASSUME NEW S, NEW s \in Seq(S), NEW t \in Seq(S), Ordered(s),
           \A f \in ToSet(t) : ~Answering(f)
    PROVE  Ordered(Cat(s, t))
<1> DEFINE r == Cat(s, t)
<1>1. /\ Len(s) \in Nat /\ DOMAIN s = 1..Len(s) /\ Len(t) \in Nat /\ DOMAIN t = 1..Len(t)
      /\ r \in Seq(S) /\ Len(r) = Len(s) + Len(t)
      /\ \A i \in 1..(Len(s) + Len(t)) : r[i] = IF i <= Len(s) THEN s[i] ELSE t[i - Len(s)]
  BY ConcatProperties, LenProperties DEF Cat
<1> HIDE DEF r
<1>2. DOMAIN r = 1..(Len(s) + Len(t))
  BY <1>1, LenProperties
<1>3. ASSUME NEW i \in DOMAIN r, NEW j \in DOMAIN r, i < j PROVE Upto(r[i], r[j])
  <2>1. CASE j <= Len(s)
    <3>1. i \in DOMAIN s /\ j \in DOMAIN s /\ r[i] = s[i] /\ r[j] = s[j]
      BY <2>1, <1>1, <1>2, <1>3
    <3> QED
      BY <3>1, <1>3 DEF Ordered
  <2>2. CASE ~(j <= Len(s))
    <3>1. j - Len(s) \in DOMAIN t /\ r[j] = t[j - Len(s)]
      BY <2>2, <1>1, <1>2
    <3>2. ~Answering(r[j])
      BY <3>1 DEF ToSet
    <3> QED
      BY <3>2 DEF Upto
  <2> QED
    BY <2>1, <2>2
<1> QED
  BY <1>3 DEF Ordered, r

LEMMA OrderedTail ==
    ASSUME NEW S, NEW s \in Seq(S), s # <<>>, Ordered(s)
    PROVE  Ordered(Tail(s)) /\ \A g \in ToSet(Tail(s)) : Upto(Head(s), g)
<1> DEFINE t == Tail(s)
           n == Len(s)
<1>1. /\ n \in Nat /\ n > 0 /\ DOMAIN s = 1..n /\ Head(s) = s[1]
      /\ t \in Seq(S) /\ Len(t) = n - 1 /\ \A i \in 1..(n - 1) : t[i] = s[i + 1]
  BY HeadTailProperties, LenProperties, EmptySeq
<1> HIDE DEF t, n
<1>2. DOMAIN t = 1..(n - 1)
  BY <1>1, LenProperties
<1>3. ASSUME NEW i \in 1..(n - 1), NEW j \in 1..(n - 1), i < j PROVE Upto(t[i], t[j])
  <2>1. i + 1 \in DOMAIN s /\ j + 1 \in DOMAIN s /\ i + 1 < j + 1
    BY <1>1, <1>3
  <2> QED
    BY <2>1, <1>1 DEF Ordered
<1>4. ASSUME NEW i \in 1..(n - 1) PROVE Upto(s[1], t[i])
  <2>1. 1 \in DOMAIN s /\ i + 1 \in DOMAIN s /\ 1 < i + 1
    BY <1>1
  <2> QED
    BY <2>1, <1>1 DEF Ordered
<1> QED
  BY <1>1, <1>2, <1>3, <1>4 DEF Ordered, ToSet, t

LEMMA OnlyShorter ==
    ASSUME NEW S, NEW T, NEW s \in Seq(S)
    PROVE  Len(Only(s, T)) \in Nat /\ Len(Only(s, T)) <= Len(s)
<1> DEFINE N == {u \in Seq(S) : Len(Only(u, T)) <= Len(u)}
<1>1. <<>> \in N
  BY EmptySeq, OnlyEmpty
<1>2. ASSUME NEW u \in Seq(S), NEW e \in S, u \in N PROVE Append(u, e) \in N
  <2>1. Only(u, T) \in Seq(S)
    BY OnlyType
  <2>2. /\ Len(u) \in Nat /\ Len(Only(u, T)) \in Nat
        /\ Append(u, e) \in Seq(S) /\ Len(Append(u, e)) = Len(u) + 1
        /\ Len(Append(Only(u, T), e)) = Len(Only(u, T)) + 1
    BY <2>1, AppendProperties, LenProperties
  <2>3. /\ e \in T => Only(Append(u, e), T) = Append(Only(u, T), e)
        /\ e \notin T => Only(Append(u, e), T) = Only(u, T)
    BY OnlyPushed DEF Pushed
  <2>4. Len(Only(u, T)) <= Len(u)
    BY <1>2
  <2>5. Len(Only(Append(u, e), T)) <= Len(Append(u, e))
    <3>1. CASE e \in T
      BY <3>1, <2>2, <2>3, <2>4
    <3>2. CASE e \notin T
      BY <3>2, <2>2, <2>3, <2>4
    <3> QED
      BY <3>1, <3>2
  <2> QED
    BY <2>2, <2>5
<1> HIDE DEF N
<1>3. Seq(S) \subseteq N
  BY <1>1, <1>2, SeqSet
<1>4. Only(s, T) \in Seq(S)
  BY OnlyType
<1> QED
  BY <1>3, <1>4, LenProperties DEF N

LEMMA SeqFinite ==
    ASSUME NEW S, NEW s \in Seq(S)
    PROVE  IsFiniteSet(ToSet(s))
<1> DEFINE N == {u \in Seq(S) : IsFiniteSet(ToSet(u))}
<1>1. <<>> \in N
  <2>1. ToSet(<<>>) = {} /\ <<>> \in Seq(S)
    BY EmptySeq DEF ToSet
  <2> QED
    BY <2>1, FS_EmptySet
<1>2. ASSUME NEW u \in Seq(S), NEW e \in S, u \in N PROVE Pushed(u, e) \in N
  <2>1. Pushed(u, e) \in Seq(S) /\ ToSet(Pushed(u, e)) = ToSet(u) \cup {e}
    BY PushedIs
  <2>2. IsFiniteSet(ToSet(u) \cup {e})
    BY <1>2, FS_AddElement
  <2> QED
    BY <2>1, <2>2
<1> HIDE DEF N
<1>3. Seq(S) \subseteq N
  BY <1>1, <1>2, PushedSet
<1> QED
  BY <1>3 DEF N

LEMMA IdsFinite ==
    ASSUME NEW S, IsFiniteSet(S)
    PROVE  IsFiniteSet({frame.id : frame \in S})
<1> DEFINE T == {frame.id : frame \in S}
           f == [frame \in S |-> frame.id]
<1>1. f \in Surjection(S, T)
  BY DEF Surjection
<1> HIDE DEF f, T
<1>2. IsFiniteSet(T)
  BY <1>1, FS_Surjection
<1> QED
  BY <1>2 DEF T

LEMMA SetToSeqIs ==
    ASSUME NEW S, IsFiniteSet(S)
    PROVE  /\ SetToSeq(S) \in Seq(S)
           /\ DOMAIN SetToSeq(S) = 1..Len(SetToSeq(S))
<1> DEFINE n == Cardinality(S)
           s == SetToSeq(S)
<1>1. n \in Nat /\ ExistsBijection(1..n, S)
  BY FS_CardinalityType
<1>2. \E f \in [1..n -> S] : IsInjective(f)
  BY <1>1 DEF ExistsBijection, Bijection, Injection, IsInjective
<1>3. s \in [1..n -> S]
  BY <1>2 DEF SetToSeq
<1> HIDE DEF n, s
<1>4. s \in Seq(S)
  BY <1>1, <1>3
<1> QED
  BY <1>4, LenProperties DEF s

-----------------------------------------------------------------------------
(* The writer's operations.                                                *)

LEMMA CountIs ==
    ASSUME NEW q \in Seq(FrameSet)
    PROVE  /\ Only(q, LiveFrames(q)) = Only(q, LiveSet)
           /\ ToSet(q) \subseteq FrameSet /\ ToSet(q) \cap LiveFrames(q) = ToSet(q) \cap LiveSet
<1>1. ToSet(q) \subseteq FrameSet
  BY LenProperties, ElementOfSeq DEF ToSet
<1>2. ToSet(q) \cap LiveFrames(q) = ToSet(q) \cap LiveSet
  BY <1>1 DEF LiveFrames, LiveSet
<1> QED
  BY <1>1, <1>2, OnlySame

LEMMA CountPushed ==
    ASSUME NEW q \in Seq(FrameSet), NEW e \in FrameSet
    PROVE  /\ Len(Only(q, LiveSet)) \in Nat
           /\ Len(Only(Pushed(q, e), LiveSet)) =
                 Len(Only(q, LiveSet)) + (IF IsLive(e) THEN 1 ELSE 0)
<1>1. Only(q, LiveSet) \in Seq(FrameSet) /\ (IsLive(e) <=> e \in LiveSet)
  BY OnlyType DEF LiveSet
<1>2. Len(Only(q, LiveSet)) \in Nat
  BY <1>1, LenProperties
<1>3. CASE IsLive(e)
  <2>1. Only(Pushed(q, e), LiveSet) = Pushed(Only(q, LiveSet), e)
    BY <1>1, <1>3, OnlyPushed
  <2> QED
    BY <2>1, <1>1, <1>2, <1>3, AppendProperties DEF Pushed
<1>4. CASE ~IsLive(e)
  <2>1. Only(Pushed(q, e), LiveSet) = Only(q, LiveSet)
    BY <1>1, <1>4, OnlyPushed
  <2> QED
    BY <2>1, <1>2, <1>4
<1> QED
  BY <1>2, <1>3, <1>4

LEMMA PartialIs ==
    ASSUME NEW f \in Partial
    PROVE  DOMAIN f \subseteq Nat /\ \A id \in DOMAIN f : f[id] \in CursorSet
<1>1. PICK D \in SUBSET Nat : f \in [D -> CursorSet]
  BY DEF Partial
<1> QED
  BY <1>1

LEMMA PartialFrom ==
    ASSUME NEW D \in SUBSET Nat, NEW f \in [D -> CursorSet]
    PROVE  f \in Partial
BY DEF Partial

LEMMA AssignIs ==
    ASSUME NEW f \in Partial, NEW x \in Nat, NEW y \in CursorSet
    PROVE  Assign(f, x, y) \in Partial /\ DOMAIN Assign(f, x, y) = DOMAIN f \cup {x}
<1>1. DOMAIN f \subseteq Nat /\ \A id \in DOMAIN f : f[id] \in CursorSet
  BY PartialIs
<1>2. Assign(f, x, y) \in [DOMAIN f \cup {x} -> CursorSet]
  BY <1>1 DEF Assign
<1>3. DOMAIN f \cup {x} \in SUBSET Nat
  BY <1>1
<1> QED
  BY <1>2, <1>3, PartialFrom

LEMMA DropIs ==
    ASSUME NEW f \in Partial, NEW x
    PROVE  /\ Drop(f, x) \in Partial /\ DOMAIN Drop(f, x) = DOMAIN f \ {x}
           /\ \A z \in DOMAIN f \ {x} : Drop(f, x)[z] = f[z]
<1>1. DOMAIN f \subseteq Nat /\ \A id \in DOMAIN f : f[id] \in CursorSet
  BY PartialIs
<1>2. Drop(f, x) \in [DOMAIN f \ {x} -> CursorSet]
  BY <1>1 DEF Drop
<1>3. DOMAIN f \ {x} \in SUBSET Nat
  BY <1>1
<1> QED
  BY <1>2, <1>3, PartialFrom DEF Drop

LEMMA AppendSound ==
    ASSUME NEW Q \in SUBSET FrameSet, NEW S \in SUBSET Nat,
           NEW wr \in SoundWriters(Q, S), NEW frame \in Q,
           IsLive(frame) => frame.id \in S /\ QueuedCount(wr) < Backlog,
           \A f \in ToSet(wr.queue) : Upto(f, frame), Backlog \in Nat
    PROVE  [wr EXCEPT !.queue = Append(@, frame)] \in SoundWriters(Q, S)
<1> DEFINE q == Pushed(wr.queue, frame)
           d == [wr EXCEPT !.queue = Append(@, frame)]
<1>1. wr \in Writers /\ SoundWriter(Q, S, wr) /\ wr.queue \in Seq(FrameSet) /\ frame \in FrameSet
  BY DEF SoundWriters, Writers
<1>2. q \in Seq(FrameSet) /\ ToSet(q) = ToSet(wr.queue) \cup {frame}
  BY <1>1, PushedIs
<1>3. d \in Writers /\ d.queue = q /\ d.promised = wr.promised /\ d.lagging = wr.lagging
  BY <1>1, <1>2 DEF Writers, Pushed
<1>4. Ordered(q)
  BY <1>1, OrderedPushed DEF SoundWriter
<1>5. Len(Only(q, LiveSet)) <= Backlog
  <2>1. /\ Len(Only(wr.queue, LiveSet)) \in Nat
        /\ Len(Only(q, LiveSet)) = Len(Only(wr.queue, LiveSet)) + (IF IsLive(frame) THEN 1 ELSE 0)
    BY <1>1, CountPushed
  <2>2. QueuedCount(wr) = Len(Only(wr.queue, LiveSet))
    BY <1>1, CountIs DEF QueuedCount
  <2>3. Len(Only(wr.queue, LiveSet)) <= Backlog
    BY <1>1 DEF SoundWriter
  <2> HIDE DEF q
  <2>4. CASE IsLive(frame)
    BY <2>1, <2>2, <2>4
  <2>5. CASE ~IsLive(frame)
    BY <2>1, <2>3, <2>5
  <2> QED
    BY <2>4, <2>5
<1> HIDE DEF q, d
<1>6. SoundWriter(Q, S, d)
  BY <1>1, <1>2, <1>3, <1>4, <1>5 DEF SoundWriter
<1> QED
  BY <1>3, <1>6 DEF SoundWriters, d

LEMMA CutSound ==
    ASSUME NEW Q \in SUBSET FrameSet, NEW S \in SUBSET Nat, Backlog \in Nat,
           NEW wr \in SoundWriters(Q, S), NEW also \in S,
           \A id \in S : Live("lagging", id, NoCursor) \in Q
    PROVE  cut(wr, also) \in SoundWriters(Q, S)
<1> DEFINE affected == {also} \cup {frame.id : frame \in LiveFrames(wr.queue)}
           order == SetToSeq(affected)
           kept == Only(wr.queue, ToSet(wr.queue) \ LiveFrames(wr.queue))
           marks == [i \in DOMAIN order |-> Live("lagging", order[i], NoCursor)]
           lags == [id \in DOMAIN wr.lagging \cup affected |->
                      IF id \in affected THEN PromisedTo(wr, id) ELSE wr.lagging[id]]
           d == cut(wr, also)
<1>1. wr \in Writers /\ SoundWriter(Q, S, wr) /\ wr.queue \in Seq(FrameSet)
      /\ wr.promised \in Partial /\ wr.lagging \in Partial
  BY DEF SoundWriters, Writers
<1>2. affected \subseteq S /\ IsFiniteSet(affected)
  <2>1. \A frame \in LiveFrames(wr.queue) : frame.id \in S
    BY <1>1 DEF LiveFrames, SoundWriter
  <2>2. IsFiniteSet(ToSet(wr.queue)) /\ LiveFrames(wr.queue) \in SUBSET ToSet(wr.queue)
    BY <1>1, SeqFinite DEF LiveFrames
  <2>3. IsFiniteSet(LiveFrames(wr.queue))
    BY <2>2, FS_Subset
  <2>4. IsFiniteSet({frame.id : frame \in LiveFrames(wr.queue)})
    BY <2>3, IdsFinite
  <2>5. affected = {frame.id : frame \in LiveFrames(wr.queue)} \cup {also}
    OBVIOUS
  <2>6. IsFiniteSet({frame.id : frame \in LiveFrames(wr.queue)} \cup {also})
    BY <2>4, FS_AddElement
  <2> QED
    BY <2>1, <2>5, <2>6
<1>3. d = [wr EXCEPT !.queue = kept \o marks, !.lagging = lags]
  BY <1>1 DEF cut, Writers
<1> HIDE DEF affected
<1>4. order \in Seq(affected) /\ Len(order) \in Nat /\ DOMAIN order = 1..Len(order)
  BY <1>2, SetToSeqIs, LenProperties
<1> HIDE DEF order
<1>5. ASSUME NEW i \in DOMAIN order
      PROVE  /\ marks[i] \in Q /\ marks[i] \in FrameSet /\ marks[i].kind = "lagging"
             /\ ~Answering(marks[i]) /\ ~IsLive(marks[i])
  <2>1. order[i] \in S
    BY <1>2, <1>4, ElementOfSeq
  <2>2. marks[i] = Live("lagging", order[i], NoCursor)
    OBVIOUS
  <2>3. Live("lagging", order[i], NoCursor) \in Q /\ Live("lagging", order[i], NoCursor).kind = "lagging"
    BY <2>1 DEF Live, Frame
  <2> QED
    BY <2>2, <2>3 DEF Answering, IsLive
<1>6. marks \in Seq(FrameSet) /\ DOMAIN marks = DOMAIN order
  <2>1. DOMAIN marks = 1..Len(order) /\ marks \in [1..Len(order) -> FrameSet]
    BY <1>4, <1>5
  <2> HIDE DEF marks
  <2> QED
    BY <2>1, <1>4
<1>7. \A f \in ToSet(marks) : f \in Q /\ ~Answering(f) /\ ~IsLive(f)
  BY <1>5, <1>6 DEF ToSet
<1>8. /\ kept \in Seq(FrameSet) /\ Ordered(kept)
      /\ ToSet(kept) = ToSet(wr.queue) \ LiveFrames(wr.queue)
  <2>1. Ordered(wr.queue)
    BY <1>1 DEF SoundWriter
  <2> QED
    BY <1>1, <2>1, OnlyType, OrderedOnly, OnlyHolds
<1> HIDE DEF kept, marks
<1> DEFINE q == Cat(kept, marks)
<1>9. q \in Seq(FrameSet) /\ ToSet(q) = ToSet(kept) \cup ToSet(marks) /\ Ordered(q)
  <2>1. q \in Seq(FrameSet)
    BY <1>6, <1>8, CatIs
  <2>2. ToSet(q) = ToSet(kept) \cup ToSet(marks)
    BY <1>6, <1>8, CatSet
  <2>3. \A f \in ToSet(marks) : ~Answering(f)
    BY <1>7
  <2>4. Ordered(q)
    BY <2>3, <1>6, <1>8, OrderedQuiet
  <2> QED
    BY <2>1, <2>2, <2>4
<1>10. Len(Only(q, LiveSet)) = 0
  <2>1. ToSet(q) \cap LiveSet = {}
    BY <1>7, <1>8, <1>9 DEF LiveSet, LiveFrames
  <2> QED
    BY <2>1, <1>9, OnlyNone, EmptySeq
<1>11. lags \in Partial /\ DOMAIN lags \subseteq S
  <2>1. /\ DOMAIN wr.lagging \subseteq Nat /\ DOMAIN wr.lagging \subseteq S
        /\ \A id \in DOMAIN wr.lagging : wr.lagging[id] \in CursorSet
    BY <1>1, PartialIs DEF SoundWriter
  <2>2. \A id \in affected : PromisedTo(wr, id) \in CursorSet
    BY <1>1, PartialIs, NoCursorIs DEF PromisedTo
  <2>3. lags \in [DOMAIN wr.lagging \cup affected -> CursorSet]
    BY <2>1, <2>2
  <2>4. DOMAIN wr.lagging \cup affected \in SUBSET Nat
    BY <2>1, <1>2
  <2> HIDE DEF lags
  <2> QED
    BY <2>1, <2>3, <2>4, <1>2, PartialFrom
<1> HIDE DEF lags
<1>12. d \in Writers /\ d.queue = q /\ d.promised = wr.promised /\ d.lagging = lags
  BY <1>1, <1>3, <1>9, <1>11 DEF Writers, Cat
<1> HIDE DEF q, d
<1>13. SoundWriter(Q, S, d)
  <2>1. ToSet(q) \subseteq Q
    BY <1>1, <1>7, <1>8, <1>9 DEF SoundWriter
  <2>2. \A frame \in ToSet(q) : ~IsLive(frame)
    BY <1>7, <1>8, <1>9 DEF LiveFrames
  <2> QED
    BY <2>1, <2>2, <1>1, <1>9, <1>10, <1>11, <1>12 DEF SoundWriter
<1> QED
  BY <1>12, <1>13 DEF SoundWriters, d

\* The writer after a delivery: as it was if nobody is registered.
Delivered(Q, S, wr, registered) ==
    {x \in SoundWriters(Q, S) : registered = <<>> => x = wr}

LEMMA ScopedSound ==
    ASSUME NEW Q \in SUBSET FrameSet, NEW S \in SUBSET Nat, Backlog \in Nat,
           NEW wr \in SoundWriters(Q, S), NEW registered \in Seq(S),
           NEW kind \in {"record", "transient"}, NEW at,
           \A id \in S : Live(kind, id, at) \in Q /\ Live("lagging", id, NoCursor) \in Q
    PROVE  deliverScoped(wr, registered, kind, at) \in Delivered(Q, S, wr, registered)
<1>1. CASE registered = <<>>
  BY <1>1 DEF deliverScoped, Delivered
<1>2. CASE registered # <<>>
  <2> DEFINE id == Last(registered)
             frame == Live(kind, id, at)
  <2>1. id \in S
    BY <1>2, LenProperties, EmptySeq, ElementOfSeq DEF Last
  <2>2. deliverScoped(wr, registered, kind, at) = enqueueScoped(wr, frame)
    BY <1>2 DEF deliverScoped
  <2>3. frame \in Q /\ frame.id = id /\ frame.kind = kind
    BY <2>1 DEF Live, Frame
  <2> HIDE DEF id, frame
  <2>4. CASE id \in DOMAIN wr.lagging
    BY <2>2, <2>3, <2>4, <1>2 DEF enqueueScoped, Delivered
  <2>5. CASE id \notin DOMAIN wr.lagging /\ QueuedCount(wr) >= Backlog
    <3>1. cut(wr, id) \in SoundWriters(Q, S)
      BY <2>1, CutSound
    <3> QED
      BY <3>1, <2>2, <2>3, <2>5, <1>2 DEF enqueueScoped, Delivered
  <2>6. CASE id \notin DOMAIN wr.lagging /\ ~(QueuedCount(wr) >= Backlog)
    <3>1. QueuedCount(wr) \in Nat
      <4>1. wr.queue \in Seq(FrameSet)
        BY DEF SoundWriters, Writers
      <4> QED
        BY <4>1, OnlyShorter DEF QueuedCount
    <3>2. QueuedCount(wr) < Backlog
      BY <3>1, <2>6
    <3>3. \A f \in ToSet(wr.queue) : Upto(f, frame)
      BY <2>3 DEF Upto, Answering
    <3>4. [wr EXCEPT !.queue = Append(@, frame)] \in SoundWriters(Q, S)
      BY <3>2, <3>3, <2>1, <2>3, AppendSound
    <3> QED
      BY <3>4, <2>2, <2>3, <2>6, <1>2 DEF enqueueScoped, Delivered
  <2> QED
    BY <2>4, <2>5, <2>6
<1> QED
  BY <1>1, <1>2

LEMMA DeliverSound ==
    ASSUME NEW Q \in SUBSET FrameSet, NEW S \in SUBSET Nat, Backlog \in Nat,
           NEW wr \in SoundWriters(Q, S), NEW registered \in Seq(S),
           NEW s, NEW k \in Nat, k = s.head - stream.head,
           \A id \in S : Live("lagging", id, NoCursor) \in Q,
           \A n \in 1..k, id \in S : Live("record", id, Cursor(s.epoch, stream.head + n)) \in Q
    PROVE  DeliverNew(wr, registered, s) \in Delivered(Q, S, wr, registered)
<1> DEFINE t == [n \in 1..(s.head - stream.head) |-> n]
           D == DOMAIN t
           C == {x \in SoundWriters(Q, S) : registered = <<>> => x = wr}
           B == 1..k
           Deliver(x, n) ==
              deliverScoped(x, registered, "record", Cursor(s.epoch, stream.head + n))
           f == [p \in C \X B |-> Deliver(p[1], p[2])]
           Folds(g) == g = [u \in SUBSET D |-> IF u = {} THEN wr
                                               ELSE Deliver(g[u \ {Max(u)}], t[Max(u)])]
           r == CHOOSE g : Folds(g)
<1>1. DeliverNew(wr, registered, s) = r[D]
  BY DEF DeliverNew, FoldLeft, MapThenFoldSet
<1>2. t \in Seq(B) /\ Len(t) = k /\ D = 1..k
  BY SMT
<1>3. Folding(C, B, f, wr) /\ \A p \in C, n \in B : f[<<p, n>>] = Deliver(p, n)
  <2>1. ASSUME NEW p \in C, NEW n \in B PROVE Deliver(p, n) \in C
    <3>1. \A id \in S : /\ Live("record", id, Cursor(s.epoch, stream.head + n)) \in Q
                        /\ Live("lagging", id, NoCursor) \in Q
      OBVIOUS
    <3>2. p \in SoundWriters(Q, S) /\ (registered = <<>> => p = wr)
      OBVIOUS
    <3>3. Deliver(p, n) \in Delivered(Q, S, p, registered)
      BY <3>1, <3>2, ScopedSound
    <3> HIDE DEF Deliver
    <3> QED
      BY <3>2, <3>3 DEF Delivered
  <2> HIDE DEF B, Deliver
  <2>2. wr \in C
    OBVIOUS
  <2> HIDE DEF C
  <2> QED
    BY <2>1, <2>2 DEF Folding
<1> HIDE DEF D, t, f, B, C, Deliver
<1>4. k = Len(t) /\ Len(t) \in Nat
  BY <1>2
<1>5. PICK g \in [SUBSET (1..Len(t)) -> C] : Iterates(g, f, wr, t, Len(t))
  BY <1>2, <1>3, FoldExists
<1>6. ASSUME NEW u \in SUBSET D, u # {}
      PROVE  Max(u) \in D /\ t[Max(u)] \in B /\ u \ {Max(u)} \in SUBSET D
  <2>1. Max(u) \in u
    BY <1>2, <1>6, MaxOf
  <2> QED
    BY <2>1, <1>2, <1>4, ElementOfSeq
<1>7. Folds(g)
  <2>1. ASSUME NEW u \in SUBSET D
        PROVE  g[u] = IF u = {} THEN wr ELSE Deliver(g[u \ {Max(u)}], t[Max(u)])
    <3>1. CASE u = {}
      BY <3>1, <1>2, <1>4, <1>5 DEF Iterates
    <3>2. CASE u # {}
      <4>1. g[u \ {Max(u)}] \in C /\ t[Max(u)] \in B
        BY <3>2, <1>2, <1>4, <1>5, <1>6
      <4>2. g[u] = f[<<g[u \ {Max(u)}], t[Max(u)]>>]
        BY <3>2, <1>2, <1>4, <1>5 DEF Iterates
      <4> QED
        BY <3>2, <4>1, <4>2, <1>3
    <3> QED
      BY <3>1, <3>2
  <2> QED
    BY <2>1, <1>2, <1>4, <1>5
<1>8. Folds(r)
  BY <1>7
<1>9. \A u \in SUBSET D : r[u] = IF u = {} THEN wr ELSE Deliver(r[u \ {Max(u)}], t[Max(u)])
  BY <1>8
<1> HIDE DEF r
<1> DEFINE X == C \cup {r[u] : u \in SUBSET D}
           h == [p \in X \X B |-> Deliver(p[1], p[2])]
<1>10. Iterates(r, h, wr, t, Len(t))
  <2>1. \A u \in SUBSET D : r[u] \in X
    OBVIOUS
  <2> HIDE DEF X
  <2> QED
    BY <2>1, <1>2, <1>4, <1>6, <1>9 DEF Iterates
<1>11. \A p \in C \X B : h[p] = f[p]
  BY DEF f
<1> HIDE DEF h
<1>12. r[1..Len(t)] = Run(f, wr, t)
  BY <1>2, <1>3, <1>10, <1>11, RunAgrees
<1>13. Run(f, wr, t) \in C
  BY <1>2, <1>3, RunSteps
<1>14. DeliverNew(wr, registered, s) \in C
  BY <1>1, <1>2, <1>4, <1>12, <1>13
<1> QED
  BY <1>14 DEF C, Delivered

LEMMA ResponseSound ==
    ASSUME NEW Q \in SUBSET FrameSet, NEW S \in SUBSET Nat, Backlog \in Nat,
           NEW wr \in SoundWriters(Q, S), NEW frame \in Q, ~IsLive(frame),
           frame.answer # NoAnswer => frame.id \in S,
           \A f \in ToSet(wr.queue) : Upto(f, frame)
    PROVE  enqueueResponse(wr, frame) \in SoundWriters(Q, S)
<1> DEFINE e == [wr EXCEPT !.queue = Append(@, frame)]
           to == IF frame.answer = NoAnswer THEN wr.promised
                 ELSE Assign(wr.promised, frame.id, frame.answer.to)
           d == enqueueResponse(wr, frame)
<1>1. wr \in Writers /\ wr.promised \in Partial /\ frame \in FrameSet
  BY DEF SoundWriters, Writers
<1>2. e \in SoundWriters(Q, S) /\ e \in Writers /\ e.promised = wr.promised
  BY <1>1, AppendSound DEF SoundWriters, Writers
<1>3. SoundWriter(Q, S, e)
  BY <1>2 DEF SoundWriters
<1>4. to \in Partial /\ DOMAIN to \subseteq S
  <2>1. DOMAIN wr.promised \subseteq S
    BY <1>2, <1>3 DEF SoundWriter
  <2>2. frame.id \in Nat /\ frame.answer.to \in CursorSet
    BY <1>1 DEF FrameSet, AnswerSet
  <2>3. CASE frame.answer = NoAnswer
    BY <2>1, <2>3, <1>1
  <2>4. CASE frame.answer # NoAnswer
    <3>1. frame.id \in S
      BY <2>4
    <3>2. to = Assign(wr.promised, frame.id, frame.answer.to)
      BY <2>4
    <3> DEFINE f == Assign(wr.promised, frame.id, frame.answer.to)
    <3>3. f \in Partial /\ DOMAIN f = DOMAIN wr.promised \cup {frame.id}
      BY <2>2, <1>1, AssignIs
    <3> HIDE DEF to, f
    <3>4. to = f
      BY <3>2 DEF f
    <3> QED
      BY <3>1, <3>3, <3>4, <2>1
  <2> QED
    BY <2>3, <2>4
<1>5. d = [e EXCEPT !.promised = to]
  BY <1>1 DEF enqueueResponse, Writers
<1> HIDE DEF e, to
<1>6. d \in Writers /\ d.queue = e.queue /\ d.lagging = e.lagging /\ d.promised = to
  BY <1>2, <1>4, <1>5 DEF Writers
<1> HIDE DEF d
<1>7. SoundWriter(Q, S, d)
  BY <1>3, <1>4, <1>6 DEF SoundWriter
<1> QED
  BY <1>6, <1>7 DEF SoundWriters, d

LEMMA ResumeSound ==
    ASSUME NEW Q, NEW S, NEW wr \in SoundWriters(Q, S), NEW id
    PROVE  resume(wr, id) \in SoundWriters(Q, S) /\ resume(wr, id).queue = wr.queue
<1> DEFINE d == resume(wr, id)
<1>1. wr \in Writers /\ SoundWriter(Q, S, wr) /\ wr.lagging \in Partial
  BY DEF SoundWriters, Writers
<1>2. Drop(wr.lagging, id) \in Partial /\ DOMAIN Drop(wr.lagging, id) \subseteq DOMAIN wr.lagging
  BY <1>1, DropIs
<1>3. /\ d \in Writers /\ d.queue = wr.queue /\ d.promised = wr.promised
      /\ d.lagging = Drop(wr.lagging, id)
  BY <1>1, <1>2 DEF resume, Writers
<1> HIDE DEF d
<1>4. SoundWriter(Q, S, d)
  BY <1>1, <1>2, <1>3 DEF SoundWriter
<1> QED
  BY <1>3, <1>4 DEF SoundWriters, d

LEMMA UnregisterSound ==
    ASSUME NEW Q, NEW S, Backlog \in Nat, NEW wr \in SoundWriters(Q, S), NEW id
    PROVE  /\ unregister(wr, id) \in SoundWriters(Q, S \ {id})
           /\ ToSet(unregister(wr, id).queue) \subseteq ToSet(wr.queue)
<1> DEFINE T == {frame \in ToSet(wr.queue) : ~(IsLive(frame) /\ frame.id = id)}
           q == Only(wr.queue, T)
           d == unregister(wr, id)
<1>1. wr \in Writers /\ SoundWriter(Q, S, wr) /\ wr.queue \in Seq(FrameSet)
      /\ wr.promised \in Partial /\ wr.lagging \in Partial
  BY DEF SoundWriters, Writers
<1>2. q \in Seq(FrameSet) /\ Ordered(q) /\ ToSet(q) = ToSet(wr.queue) \cap T
  BY <1>1, OnlyType, OrderedOnly, OnlyHolds DEF SoundWriter
<1>3. Len(Only(q, LiveSet)) <= Backlog
  <2> DEFINE live == Only(wr.queue, LiveSet)
  <2>1. live \in Seq(FrameSet) /\ Len(live) \in Nat /\ Len(live) <= Backlog
    BY <1>1, OnlyType, LenProperties DEF SoundWriter
  <2>2. Only(q, LiveSet) = Only(live, T)
    <3>1. Only(q, LiveSet) = Only(wr.queue, T \cap LiveSet)
      BY <1>1, OnlyTwice
    <3>2. Only(live, T) = Only(wr.queue, LiveSet \cap T)
      BY <1>1, OnlyTwice
    <3>3. LiveSet \cap T = T \cap LiveSet
      OBVIOUS
    <3> QED
      BY <3>1, <3>2, <3>3
  <2> HIDE DEF live, q, T
  <2>3. Len(Only(live, T)) \in Nat /\ Len(Only(live, T)) <= Len(live)
    BY <2>1, OnlyShorter
  <2> QED
    BY <2>1, <2>2, <2>3
<1>4. /\ d \in Writers /\ d.queue = q /\ d.promised = Drop(wr.promised, id)
      /\ d.lagging = Drop(wr.lagging, id)
  BY <1>1, <1>2, DropIs DEF unregister, Writers
<1>5. DOMAIN d.promised = DOMAIN wr.promised \ {id} /\ DOMAIN d.lagging = DOMAIN wr.lagging \ {id}
  BY <1>1, <1>4, DropIs
<1>6. \A frame \in ToSet(q) : frame \in ToSet(wr.queue) /\ (IsLive(frame) => frame.id # id)
  BY <1>2
<1> HIDE DEF q, d, T
<1>7. SoundWriter(Q, S \ {id}, d)
  BY <1>1, <1>2, <1>3, <1>4, <1>5, <1>6 DEF SoundWriter
<1> QED
  BY <1>4, <1>6, <1>7 DEF SoundWriters, d

LEMMA SoundWriterMore ==
    ASSUME NEW Q, NEW S, NEW Q2, NEW S2, S \subseteq S2,
           NEW wr \in SoundWriters(Q, S), ToSet(wr.queue) \subseteq Q2
    PROVE  wr \in SoundWriters(Q2, S2)
BY DEF SoundWriters, SoundWriter

LEMMA NewWriterSound ==
    ASSUME NEW Q, NEW S, Backlog \in Nat
    PROVE  NewWriter \in SoundWriters(Q, S) /\ NewWriter.queue = <<>>
<1>1. <<>> \in Seq(FrameSet) /\ DOMAIN <<>> = {} /\ Only(<<>>, LiveSet) = <<>> /\ Len(<<>>) = 0
  BY EmptySeq, OnlyEmpty
<1>2. <<>> \in [{} -> CursorSet]
  BY <1>1
<1>3. <<>> \in Partial
  BY <1>2, PartialFrom
<1>4. ToSet(<<>>) = {} /\ Ordered(<<>>)
  BY DEF ToSet, Ordered
<1>5. /\ NewWriter \in Writers /\ NewWriter.queue = <<>>
      /\ NewWriter.promised = <<>> /\ NewWriter.lagging = <<>>
  BY <1>1, <1>3 DEF NewWriter, Writers
<1> QED
  BY <1>1, <1>4, <1>5 DEF SoundWriter, SoundWriters

-----------------------------------------------------------------------------
(* The inductive invariant.                                                *)

\* The epoch records have now, and the positions a cursor may have.
Epoch == IF stream.epoch = 0 THEN boot ELSE stream.epoch
Positions ==
    {x \in CursorSet : /\ x.epoch <= boot
                       /\ x.epoch = Epoch => x.seq <= stream.head
                       /\ x.epoch # Epoch => x.seq = 0}

OnWire == ToSet(wire) \cup ToSet(w.queue)
Tos == {frame.answer.to.seq : frame \in {f \in OnWire : Answering(f)}}
Ahead == Tos \cup {stream.head}
Asks == {frame.ask.cursor : frame \in OnWire} \cup {m.cursor : m \in ToSet(up)}

GoodFrames ==
    {frame \in FrameSet :
        /\ frame.kind = "record" => frame.at \in Positions /\ frame.at.epoch = Epoch
        /\ Leads(Epoch, Positions, frame)}

StreamOK ==
    /\ boot \in Nat \ {0}
    /\ stream \in [epoch : 0..boot, head : 0..MaxHead, oldest : 0..MaxHead]
    /\ stream.oldest <= stream.head
    /\ stream.epoch = 0 => stream.head = 0

WriterOK ==
    /\ subs \in Seq(Nat) /\ IsInjective(subs)
    /\ w \in SoundWriters(GoodFrames, ToSet(subs))

\* A frame is written before those in the queue.
WireOK ==
    /\ wire \in Seq(FrameSet) /\ Len(wire) <= Window
    /\ ToSet(wire) \subseteq GoodFrames
    /\ Ordered(wire)
    /\ \A f \in ToSet(wire), g \in ToSet(w.queue) : Upto(f, g)

AsksOK ==
    /\ up \in Seq(Commands)
    /\ \A a \in Asks : Behind(Epoch, Ahead, a)

ClientOK ==
    /\ client \in Sounds(Epoch, Ahead, Asks, Positions, client)
    /\ client.out = <<>>
    /\ client.obj <= MaxOpens /\ opens \in 0..MaxOpens

\* Without a connection nothing is on its way.
OffOK ==
    /\ connected \in BOOLEAN
    /\ ~connected => up = <<>> /\ wire = <<>> /\ w = NewWriter /\ subs = <<>> /\ client.sub = 0

IInv == StreamOK /\ WriterOK /\ WireOK /\ AsksOK /\ ClientOK /\ OffOK

-----------------------------------------------------------------------------
(* What the steps of the server need.                                      *)

\* A stream the records' epoch and all positions live on in.
Grows(s) ==
    /\ s \in [epoch : 0..boot, head : 0..MaxHead, oldest : 0..MaxHead]
    /\ s.oldest <= s.head
    /\ s.epoch = 0 => s.head = 0
    /\ s.head >= stream.head
    /\ HeadOf(s) = Cursor(Epoch, s.head)

PositionsAt(h) ==
    {x \in CursorSet : /\ x.epoch <= boot
                       /\ x.epoch = Epoch => x.seq <= h
                       /\ x.epoch # Epoch => x.seq = 0}

FramesAt(h) ==
    {frame \in FrameSet :
        /\ frame.kind = "record" => frame.at \in PositionsAt(h) /\ frame.at.epoch = Epoch
        /\ Leads(Epoch, PositionsAt(h), frame)}

\* What the server may put in the queue when the scope has h records.
Fresh(h) ==
    {frame \in FrameSet :
        /\ Answering(frame) => frame.answer.to.seq = h
        /\ frame.ask.cursor \in Asks \cup {NoCursor}}

Queueable(h) == (ToSet(w.queue) \cup Fresh(h)) \cap FramesAt(h)

LEMMA EpochIs ==
    ASSUME StreamOK
    PROVE  /\ Epoch \in Nat \ {0} /\ Epoch <= boot /\ stream.head \in Nat /\ boot \in Nat
           /\ Epoch \in 0..boot
BY SyncAssumption DEF StreamOK, Epoch

LEMMA PositionsNow == Positions = PositionsAt(stream.head) /\ GoodFrames = FramesAt(stream.head)
BY DEF Positions, PositionsAt, GoodFrames, FramesAt

LEMMA PositionsGrow ==
    ASSUME StreamOK, NEW h \in Nat, stream.head <= h
    PROVE  Positions \subseteq PositionsAt(h) /\ GoodFrames \subseteq FramesAt(h)
<1>1. Positions \subseteq PositionsAt(h)
  <2> SUFFICES ASSUME NEW x \in Positions PROVE x \in PositionsAt(h)
    OBVIOUS
  <2>1. x \in CursorSet /\ x.seq \in Nat /\ stream.head \in Nat
    BY EpochIs DEF Positions, CursorSet
  <2> QED
    BY <2>1 DEF Positions, PositionsAt
<1>2. \A f \in GoodFrames : f \in FramesAt(h)
  BY <1>1 DEF GoodFrames, FramesAt, Leads
<1> QED
  BY <1>1, <1>2

LEMMA PositionsPrime ==
    ASSUME Epoch' = Epoch, boot' = boot
    PROVE  Positions' = PositionsAt(stream'.head) /\ GoodFrames' = FramesAt(stream'.head)
BY DEF Positions, PositionsAt, GoodFrames, FramesAt

LEMMA GrowsPrime ==
    ASSUME StreamOK, NEW s, Grows(s), stream' = s, boot' = boot
    PROVE  StreamOK' /\ Epoch' = Epoch
<1>1. Cursor(Epoch, s.head).epoch = Epoch /\ HeadOf(s).epoch = IF s.epoch = 0 THEN boot ELSE s.epoch
  BY DEF HeadOf, Cursor
<1> QED
  BY <1>1 DEF StreamOK, Grows, Epoch

LEMMA LongerGrows ==
    ASSUME StreamOK, NEW n \in Nat, stream.head + n <= MaxHead
    PROVE  /\ Grows(Longer(n)) /\ Longer(n).head = stream.head + n
           /\ n # 0 => Longer(n).epoch = Epoch
<1>1. /\ boot \in Nat \ {0} /\ stream.epoch \in 0..boot /\ stream.head \in 0..MaxHead
      /\ stream.oldest \in 0..MaxHead /\ MaxHead \in Nat
      /\ stream \in [epoch : 0..boot, head : 0..MaxHead, oldest : 0..MaxHead]
  BY SyncAssumption DEF StreamOK
<1>2. CASE n = 0
  <2>1. Longer(n) = stream
    BY <1>2 DEF Longer
  <2> QED
    BY <1>1, <1>2, <2>1 DEF StreamOK, Grows, HeadOf, Epoch
<1>3. CASE n # 0
  <2> DEFINE s == Longer(n)
  <2>1. s = [stream EXCEPT !.epoch = IF stream.epoch = 0 THEN boot ELSE stream.epoch,
                           !.head = stream.head + n,
                           !.oldest = IF stream.oldest = 0 THEN stream.head + 1 ELSE stream.oldest]
    BY <1>1, <1>3 DEF Longer
  <2>2. /\ s.epoch = Epoch /\ s.head = stream.head + n
        /\ s.oldest = IF stream.oldest = 0 THEN stream.head + 1 ELSE stream.oldest
        /\ s = [epoch |-> s.epoch, head |-> s.head, oldest |-> s.oldest]
    BY <2>1, <1>1 DEF Epoch
  <2> HIDE DEF s
  <2>3. Epoch \in 0..boot /\ Epoch # 0
    BY EpochIs
  <2>4. s.oldest \in 0..MaxHead /\ s.oldest <= s.head /\ s.head \in 0..MaxHead /\ s.head >= stream.head
    BY <2>2, <1>1, <1>3 DEF StreamOK
  <2>5. HeadOf(s) = Cursor(Epoch, s.head)
    BY <2>2, <2>3 DEF HeadOf
  <2> QED
    BY <2>2, <2>3, <2>4, <2>5 DEF Grows, s
<1> QED
  BY <1>2, <1>3

LEMMA StreamsNowGrow ==
    ASSUME StreamOK, NEW s \in StreamsNow
    PROVE  /\ Grows(s) /\ s.head - stream.head \in Nat
           /\ \A n \in 1..(s.head - stream.head) : s.epoch = Epoch
<1>1. PICK n \in 0..MaxUndelivered : s = Longer(n) /\ stream.head + n <= MaxHead
  BY DEF StreamsNow
<1>2. n \in Nat /\ stream.head \in Nat
  BY SyncAssumption, EpochIs
<1>3. Grows(s) /\ s.head = stream.head + n /\ (n # 0 => s.epoch = Epoch)
  BY <1>1, <1>2, LongerGrows
<1>4. s.head - stream.head = n
  BY <1>2, <1>3
<1>5. ASSUME NEW m \in 1..n PROVE n # 0
  BY <1>2
<1> QED
  BY <1>2, <1>3, <1>4, <1>5

LEMMA AnswersAre ==
    ASSUME NEW cursor \in CursorSet, NEW head \in CursorSet, NEW oldest,
           NEW a \in Answers(cursor, head, oldest)
    PROVE  /\ a \in AnswerSet /\ a.to = head
           /\ a.mode = "replay" =>
                 a.from = cursor /\ cursor.epoch = head.epoch /\ cursor.seq <= head.seq
<1> DEFINE decision == decideReplay(cursor, head, oldest)
<1>1. decision \in Reasons \cup {"replay"}
  BY DEF decideReplay, Reasons
<1>2. \/ \E reason \in Reasons : a = SnapshotFor(reason, head)
      \/ decision = "replay" /\ a = ReplayFrom(cursor, head)
  <2>1. CASE decision # "replay"
    <3>1. a = SnapshotFor(decision, head)
      BY <2>1 DEF Answers, read
    <3> HIDE DEF decision
    <3> QED
      BY <3>1, <1>1, <2>1
  <2>2. CASE decision = "replay"
    <3>1. a \in {ReplayFrom(cursor, head), SnapshotFor("snapshot_smaller", head)}
      BY <2>2 DEF Answers, read
    <3> QED
      BY <3>1, <2>2 DEF Reasons
  <2> QED
    BY <2>1, <2>2
<1>3. CASE \E reason \in Reasons : a = SnapshotFor(reason, head)
  BY <1>3, NoCursorIs DEF SnapshotFor, AnswerSet
<1>4. CASE decision = "replay" /\ a = ReplayFrom(cursor, head)
  <2>1. cursor.epoch = head.epoch /\ ~(cursor.seq > head.seq)
    BY <1>4 DEF decideReplay, Reasons
  <2>2. cursor.seq \in Nat /\ head.seq \in Nat
    BY DEF CursorSet
  <2>3. a \in AnswerSet /\ a.to = head /\ a.from = cursor
    BY <1>4 DEF ReplayFrom, AnswerSet, Reasons
  <2> QED
    BY <2>1, <2>2, <2>3
<1> QED
  BY <1>2, <1>3, <1>4

LEMMA NoAnswerIs == NoAnswer \in AnswerSet /\ NoAsk \in Commands /\ NoAsk.cursor = NoCursor
<1>1. NoAnswer \in AnswerSet
  BY NoCursorIs DEF NoAnswer, SnapshotFor, AnswerSet
<1>2. NoAsk \in Commands /\ NoAsk.cursor = NoCursor
  BY NoCursorIs, CommandIs DEF NoAsk, Command
<1> QED
  BY <1>1, <1>2

LEMMA LiveIs ==
    ASSUME NEW kind \in {"record", "transient", "lagging"}, NEW id \in Nat,
           NEW at \in CursorSet, NEW h,
           kind = "record" => at \in PositionsAt(h) /\ at.epoch = Epoch
    PROVE  Live(kind, id, at) \in Queueable(h)
<1> DEFINE f == Live(kind, id, at)
<1>1. /\ f.kind = kind /\ f.id = id /\ f.at = at /\ f.ask = NoAsk /\ f.answer = NoAnswer
      /\ f = [kind |-> kind, id |-> id, at |-> at, ask |-> NoAsk, answer |-> NoAnswer]
  BY DEF Live, Frame
<1> HIDE DEF f
<1>2. f \in FrameSet
  BY <1>1, NoAnswerIs DEF FrameSet, Kinds
<1>3. ~Answering(f)
  BY <1>1 DEF Answering
<1>4. f \in Fresh(h) /\ f \in FramesAt(h)
  BY <1>1, <1>2, <1>3, NoAnswerIs DEF Fresh, FramesAt, Leads
<1> QED
  BY <1>4 DEF Queueable, f

\* Nothing on its way is behind an answer that holds every record.
LEMMA UptoHead ==
    ASSUME StreamOK, NEW h \in Nat, NEW f \in FramesAt(h), NEW g \in FramesAt(h),
           Answering(g) => g.answer.to.seq = h
    PROVE  Upto(f, g)
BY DEF FramesAt, PositionsAt, Leads, Upto

LEMMA AsksTyped ==
    ASSUME WireOK, WriterOK, AsksOK
    PROVE  /\ Asks \subseteq CursorSet /\ ToSet(w.queue) \subseteq FrameSet
           /\ ToSet(wire) \subseteq FrameSet /\ ToSet(up) \subseteq Commands
           /\ w.queue \in Seq(FrameSet)
           /\ ToSet(w.queue) \subseteq GoodFrames /\ ToSet(wire) \subseteq GoodFrames
<1>1. /\ ToSet(w.queue) \subseteq GoodFrames /\ ToSet(wire) \subseteq GoodFrames
      /\ w.queue \in Seq(FrameSet)
  BY DEF WriterOK, WireOK, SoundWriters, SoundWriter, Writers
<1>2. ToSet(w.queue) \subseteq FrameSet /\ ToSet(wire) \subseteq FrameSet
  BY <1>1 DEF GoodFrames
<1>3. ToSet(up) \subseteq Commands
  BY LenProperties, ElementOfSeq DEF AsksOK, ToSet
<1>4. \A f \in FrameSet : f.ask.cursor \in CursorSet
  BY DEF FrameSet, Commands
<1>5. \A m \in Commands : m.cursor \in CursorSet
  BY DEF Commands
<1> QED
  BY <1>1, <1>2, <1>3, <1>4, <1>5 DEF Asks, OnWire

LEMMA SettingNow ==
    ASSUME StreamOK, WireOK, WriterOK, AsksOK
    PROVE  Setting(Epoch, Ahead, Asks, Positions) /\ Ahead \subseteq Nat
<1>1. Epoch \in Nat \ {0} /\ stream.head \in Nat /\ boot \in Nat
  BY EpochIs
<1>2. Ahead \subseteq Nat
  <2>1. \A f \in OnWire : f \in FrameSet
    BY AsksTyped DEF OnWire
  <2>2. \A f \in FrameSet : f.answer.to.seq \in Nat
    BY DEF FrameSet, AnswerSet, CursorSet
  <2> QED
    BY <1>1, <2>1, <2>2 DEF Ahead, Tos
<1>3. Positions \subseteq CursorSet /\ NoCursor \in Positions
  BY <1>1, NoCursorIs DEF Positions
<1>4. \A x \in Positions : x.epoch # Epoch => x.seq = 0
  BY DEF Positions
<1> QED
  BY <1>1, <1>2, <1>3, <1>4, AsksTyped DEF Setting, AsksOK

LEMMA BehindLess ==
    ASSUME NEW E, NEW N \in SUBSET Nat, NEW M \in SUBSET Nat, NEW x \in CursorSet,
           Behind(E, N, x), \A n \in M : \E m \in N : m <= n
    PROVE  Behind(E, M, x)
<1> SUFFICES ASSUME x.epoch = E, NEW n \in M PROVE x.seq <= n
  BY DEF Behind
<1>1. PICK m \in N : m <= n
  OBVIOUS
<1>2. x.seq <= m /\ x.seq \in Nat
  BY DEF Behind, CursorSet
<1> QED
  BY <1>1, <1>2

\* Later, with fewer asks and answers on their way.
LEMMA SoundLater ==
    ASSUME NEW E, NEW N \in SUBSET Nat, NEW A, NEW P, NEW b,
           NEW c \in Sounds(E, N, A, P, b), P \subseteq CursorSet,
           NEW M \in SUBSET Nat, NEW A2, NEW P2, P \subseteq P2,
           \A n \in M : \E m \in N : m <= n, \A a \in A2 : Since(E, a, c.cursor)
    PROVE  c \in Sounds(E, M, A2, P2, b)
<1>1. c \in Clients /\ Sound(E, N, A, P, b, c)
  BY DEF Sounds
<1>2. Behind(E, M, c.cursor)
  BY <1>1, BehindLess DEF Sound, Clients
<1>3. ASSUME NEW i \in DOMAIN c.held PROVE Placed(E, M, P2, c.held[i].frame)
  <2>1. Placed(E, N, P, c.held[i].frame)
    BY <1>1 DEF Sound
  <2>2. c.held[i].frame.kind = "record" => c.held[i].frame.at \in CursorSet
    BY <2>1 DEF Placed
  <2> QED
    BY <2>1, <2>2, BehindLess DEF Placed
<1>4. ASSUME NEW i \in DOMAIN c.out PROVE Behind(E, M, c.out[i].cursor)
  <2>1. c.out \in Seq(Commands)
    BY <1>1 DEF Clients
  <2>2. c.out[i] \in Commands
    BY <2>1, LenProperties, ElementOfSeq
  <2>3. c.out[i].cursor \in CursorSet
    BY <2>2 DEF Commands
  <2> QED
    BY <2>3, <1>1, BehindLess DEF Sound
<1>5. Sound(E, M, A2, P2, b, c)
  BY <1>1, <1>2, <1>3, <1>4 DEF Sound
<1> QED
  BY <1>1, <1>5 DEF Sounds

LEMMA SoundAgain ==
    ASSUME NEW E, NEW N, NEW A, NEW P, NEW b, NEW c, c \in Sounds(E, N, A, P, b)
    PROVE  c \in Sounds(E, N, A, P, c)
<1>1. c \in Clients /\ Sound(E, N, A, P, b, c)
  BY DEF Sounds
<1>2. Forward(c.cursor, c.cursor)
  BY <1>1 DEF Forward, Clients, CursorSet
<1>3. Sound(E, N, A, P, c, c)
  BY <1>1, <1>2 DEF Sound
<1> QED
  BY <1>1, <1>3 DEF Sounds

\* A registration id nothing names.
LEMMA FreshIs ==
    ASSUME NEW used, IsFiniteSet(used)
    PROVE  LET id == Min((1..(Cardinality(used) + 1)) \ used)
           IN  id \in Nat /\ id \notin used
<1> DEFINE n == Cardinality(used)
           free == (1..(n + 1)) \ used
<1>1. n \in Nat
  BY FS_CardinalityType
<1> HIDE DEF n
<1>2. free # {}
  <2> SUFFICES ASSUME (1..(n + 1)) \subseteq used PROVE FALSE
    OBVIOUS
  <2>1. 1..(n + 1) \in SUBSET used
    OBVIOUS
  <2>2. Cardinality(1..(n + 1)) <= n
    BY <2>1, FS_Subset DEF n
  <2> DEFINE m == n + 1
  <2>3. 1 \in Int /\ m \in Int /\ ~(1 > m) /\ m - 1 + 1 = n + 1
    BY <1>1
  <2> HIDE DEF m
  <2>5. Cardinality(1..m) = IF 1 > m THEN 0 ELSE m - 1 + 1
    BY <2>3, FS_Interval
  <2>4. Cardinality(1..(n + 1)) = n + 1
    BY <2>3, <2>5 DEF m
  <2> QED
    BY <1>1, <2>2, <2>4
<1> DEFINE N == {k \in Nat : \A u : u \subseteq 1..(n + 1) /\ (\E x \in u : x <= k) =>
                                \E x \in u : \A y \in u : x <= y}
<1>3. 0 \in N
  BY <1>1
<1>4. ASSUME NEW k \in Nat, k \in N PROVE k + 1 \in N
  <2> SUFFICES ASSUME NEW u, u \subseteq 1..(n + 1), NEW z \in u, z <= k + 1
               PROVE  \E x \in u : \A y \in u : x <= y
    OBVIOUS
  <2>1. CASE \E x \in u : x <= k
    BY <2>1, <1>4
  <2>2. CASE ~\E x \in u : x <= k
    <3>1. \A y \in u : y \in Nat /\ ~(y <= k)
      BY <2>2, <1>1
    <3>2. \A y \in u : z <= y
      BY <3>1
    <3> QED
      BY <3>2
  <2> QED
    BY <2>1, <2>2
<1>5. Nat \subseteq N
  BY <1>3, <1>4, NatSet
<1>6. \E x \in free : \A y \in free : x <= y
  <2>1. PICK z \in free : TRUE
    BY <1>2
  <2>2. z \in N /\ free \subseteq 1..(n + 1) /\ z <= z
    BY <1>1, <1>5
  <2> HIDE DEF free
  <2> QED
    BY <2>1, <2>2
<1>7. Min(free) \in free
  BY <1>6 DEF Min
<1>8. free \subseteq Nat /\ free \cap used = {}
  BY <1>1
<1> HIDE DEF free
<1>9. Min(free) \in Nat /\ Min(free) \notin used
  BY <1>7, <1>8
<1> QED
  BY <1>9 DEF free, n

LEMMA NewIdIs ==
    ASSUME WriterOK, WireOK, AsksOK
    PROVE  NewId \in Nat /\ NewId \notin ToSet(subs)
<1> DEFINE frames == ToSet(w.queue) \cup ToSet(wire) \cup ToSet(up)
           ids == {f.id : f \in frames}
           used == ToSet(subs) \cup {client.sub} \cup ids
<1>1. /\ IsFiniteSet(ToSet(w.queue)) /\ IsFiniteSet(ToSet(wire)) /\ IsFiniteSet(ToSet(up))
      /\ IsFiniteSet(ToSet(subs))
  <2>1. w.queue \in Seq(FrameSet)
    BY AsksTyped
  <2>2. wire \in Seq(FrameSet) /\ up \in Seq(Commands) /\ subs \in Seq(Nat)
    BY DEF WireOK, AsksOK, WriterOK
  <2> QED
    BY <2>1, <2>2, SeqFinite
<1>2. IsFiniteSet(ToSet(w.queue) \cup ToSet(wire))
  BY <1>1, FS_Union
<1>3. IsFiniteSet(frames)
  BY <1>1, <1>2, FS_Union
<1> HIDE DEF frames
<1>4. IsFiniteSet(ids)
  BY <1>3, IdsFinite
<1> HIDE DEF ids
<1>5. IsFiniteSet(ToSet(subs) \cup {client.sub})
  BY <1>1, FS_AddElement
<1>6. IsFiniteSet(used)
  BY <1>4, <1>5, FS_Union
<1>7. NewId = Min((1..(Cardinality(used) + 1)) \ used)
  BY DEF NewId, ids, frames
<1>8. ToSet(subs) \subseteq used
  OBVIOUS
<1> HIDE DEF used
<1> QED
  BY <1>6, <1>7, <1>8, FreshIs

LEMMA InjectivePushed ==
    ASSUME NEW s \in Seq(Nat), IsInjective(s), NEW e \in Nat, e \notin ToSet(s)
    PROVE  /\ Append(s, e) \in Seq(Nat) /\ IsInjective(Append(s, e))
           /\ ToSet(Append(s, e)) = ToSet(s) \cup {e}
<1> DEFINE t == Append(s, e)
           n == Len(s)
<1>1. /\ n \in Nat /\ DOMAIN s = 1..n /\ t \in Seq(Nat) /\ Len(t) = n + 1 /\ t[n + 1] = e
      /\ \A i \in 1..n : t[i] = s[i]
  BY AppendProperties, LenProperties
<1> HIDE DEF t, n
<1>2. DOMAIN t = 1..(n + 1) /\ \A i \in 1..n : s[i] # e
  BY <1>1, LenProperties DEF ToSet
<1>3. ASSUME NEW i \in 1..(n + 1), NEW j \in 1..(n + 1), t[i] = t[j] PROVE i = j
  <2>1. CASE i \in 1..n /\ j \in 1..n
    BY <2>1, <1>1, <1>3 DEF IsInjective
  <2>2. CASE i = n + 1 /\ j \in 1..n
    BY <2>2, <1>1, <1>2, <1>3
  <2>3. CASE i \in 1..n /\ j = n + 1
    BY <2>3, <1>1, <1>2, <1>3
  <2>4. CASE i = n + 1 /\ j = n + 1
    BY <2>4
  <2> QED
    BY <2>1, <2>2, <2>3, <2>4, <1>1
<1>4. ToSet(t) = ToSet(s) \cup {e}
  BY AppendSet DEF t
<1> QED
  BY <1>1, <1>2, <1>3, <1>4 DEF IsInjective, t

\* The queue as it is may stay.
LEMMA QueueKept ==
    ASSUME IInv, NEW h \in Nat, stream.head <= h, NEW S, ToSet(subs) \subseteq S
    PROVE  w \in SoundWriters(Queueable(h), S) /\ ToSet(w.queue) \subseteq Queueable(h)
<1>1. GoodFrames \subseteq FramesAt(h) /\ ToSet(w.queue) \subseteq GoodFrames
  BY PositionsGrow, AsksTyped DEF IInv
<1>2. ToSet(w.queue) \subseteq Queueable(h)
  BY <1>1 DEF Queueable
<1>3. w \in SoundWriters(GoodFrames, ToSet(subs))
  BY DEF IInv, WriterOK
<1> QED
  BY <1>2, <1>3, SoundWriterMore

LEMMA QueueableIs ==
    ASSUME NEW h
    PROVE  Queueable(h) \subseteq FrameSet /\ Queueable(h) \subseteq FramesAt(h)
BY DEF Queueable, FramesAt

\* The frame an answer travels in.
LEMMA AnswerFrame ==
    ASSUME StreamOK, NEW s, Grows(s), NEW cursor \in CursorSet,
           NEW a \in Answers(cursor, HeadOf(s), OldestOf(s)),
           NEW kind \in {"answer", "catchup"}, NEW id \in Nat, NEW ask \in Commands,
           ask.cursor \in Asks \cup {NoCursor}, kind = "answer" => ask.cursor = cursor
    PROVE  /\ Frame(kind, id, NoCursor, ask, a) \in Queueable(s.head)
           /\ Frame(kind, id, NoCursor, ask, a).answer.to.seq = s.head
<1> DEFINE f == Frame(kind, id, NoCursor, ask, a)
           h == s.head
<1>1. /\ f.kind = kind /\ f.id = id /\ f.at = NoCursor /\ f.ask = ask /\ f.answer = a
      /\ f = [kind |-> kind, id |-> id, at |-> NoCursor, ask |-> ask, answer |-> a]
  BY DEF Frame
<1> HIDE DEF f
<1>2. h \in Nat /\ Epoch \in Nat /\ Epoch <= boot
  BY SyncAssumption, EpochIs DEF Grows
<1>3. /\ HeadOf(s) \in CursorSet /\ HeadOf(s).epoch = Epoch /\ HeadOf(s).seq = h
  BY <1>2 DEF Grows, Cursor, CursorSet
<1>4. /\ a \in AnswerSet /\ a.to = HeadOf(s)
      /\ a.mode = "replay" => a.from = cursor /\ cursor.epoch = Epoch /\ cursor.seq <= h
  BY <1>3, AnswersAre
<1>5. f \in FrameSet
  BY <1>1, <1>4, NoCursorIs DEF FrameSet, Kinds
<1>6. HeadOf(s) \in PositionsAt(h)
  BY <1>2, <1>3 DEF PositionsAt
<1>7. Leads(Epoch, PositionsAt(h), f)
  BY <1>1, <1>3, <1>4, <1>6 DEF Leads
<1>8. f \in Fresh(h)
  BY <1>1, <1>3, <1>4, <1>5 DEF Fresh
<1>9. f \in FramesAt(h)
  BY <1>1, <1>5, <1>7 DEF FramesAt
<1> QED
  BY <1>1, <1>3, <1>4, <1>8, <1>9 DEF Queueable, f

\* The frame of any other response.
LEMMA ReplyFrame ==
    ASSUME NEW h, NEW kind \in {"subscribed", "internal", "validation"}, NEW id \in Nat,
           NEW ask \in Commands, ask.cursor \in Asks \cup {NoCursor}
    PROVE  Frame(kind, id, NoCursor, ask, NoAnswer) \in Queueable(h)
<1> DEFINE f == Frame(kind, id, NoCursor, ask, NoAnswer)
<1>1. /\ f.kind = kind /\ f.ask = ask
      /\ f = [kind |-> kind, id |-> id, at |-> NoCursor, ask |-> ask, answer |-> NoAnswer]
  BY DEF Frame
<1> HIDE DEF f
<1>2. f \in FrameSet
  BY <1>1, NoAnswerIs, NoCursorIs DEF FrameSet, Kinds
<1>3. ~Answering(f)
  BY <1>1 DEF Answering
<1>4. f \in Fresh(h) /\ f \in FramesAt(h)
  BY <1>1, <1>2, <1>3 DEF Fresh, FramesAt, Leads
<1> QED
  BY <1>4 DEF Queueable, f

\* A step of the server: the stream grows, and the queue with what is fresh.
LEMMA ServerStep ==
    ASSUME IInv, NEW s, Grows(s), stream' = s, UNCHANGED <<boot, client, wire, opens>>,
           w' \in SoundWriters(Queueable(s.head), ToSet(subs')),
           up' \in Seq(Commands), ToSet(up') \subseteq ToSet(up)
    PROVE  StreamOK' /\ WireOK' /\ AsksOK' /\ ClientOK'
           /\ w' \in SoundWriters(GoodFrames', ToSet(subs'))
<1> DEFINE h == s.head
<1>0. StreamOK /\ WriterOK /\ WireOK /\ AsksOK /\ ClientOK
  BY DEF IInv
<1>1. StreamOK' /\ Epoch' = Epoch
  BY <1>0, GrowsPrime
<1>2. h \in Nat /\ stream.head \in Nat /\ stream.head <= h /\ Epoch \in Nat \ {0}
  BY <1>0, SyncAssumption, EpochIs DEF Grows
<1>3. /\ Positions' = PositionsAt(h) /\ GoodFrames' = FramesAt(h)
      /\ Positions \subseteq Positions' /\ GoodFrames \subseteq GoodFrames'
  BY <1>0, <1>1, <1>2, PositionsPrime, PositionsGrow
<1>4. ToSet(w'.queue) \subseteq ToSet(w.queue) \cup Fresh(h) /\ ToSet(w'.queue) \subseteq GoodFrames'
  BY <1>3 DEF SoundWriters, SoundWriter, Queueable
<1>5. w' \in SoundWriters(GoodFrames', ToSet(subs'))
  BY <1>4, SoundWriterMore
<1>6. \A f \in ToSet(wire), g \in ToSet(w'.queue) : Upto(f, g)
  <2> SUFFICES ASSUME NEW f \in ToSet(wire), NEW g \in ToSet(w'.queue) PROVE Upto(f, g)
    OBVIOUS
  <2>1. CASE g \in ToSet(w.queue)
    BY <2>1, <1>0 DEF WireOK
  <2>2. CASE g \in Fresh(h)
    <3>1. f \in FramesAt(h) /\ g \in FramesAt(h)
      BY <1>0, <1>3, <1>4, AsksTyped
    <3>2. Answering(g) => g.answer.to.seq = h
      BY <2>2 DEF Fresh
    <3> QED
      BY <3>1, <3>2, <1>0, <1>2, UptoHead
  <2> QED
    BY <2>1, <2>2, <1>4
<1>7. WireOK'
  BY <1>0, <1>3, <1>6 DEF WireOK
<1>8. OnWire' \subseteq OnWire \cup Fresh(h)
  BY <1>4 DEF OnWire
<1>9. \A n \in Ahead' : \E m \in Ahead : m <= n
  <2> SUFFICES ASSUME NEW n \in Ahead' PROVE \E m \in Ahead : m <= n
    OBVIOUS
  <2>1. \A m \in Ahead : m \in Nat /\ m <= m
    BY <1>0, SettingNow
  <2>2. n = h \/ \E f \in OnWire' : Answering(f) /\ n = f.answer.to.seq
    BY DEF Ahead, Tos
  <2>3. CASE n = h
    BY <2>3, <1>2 DEF Ahead
  <2>4. ASSUME NEW f \in OnWire', Answering(f), n = f.answer.to.seq PROVE \E m \in Ahead : m <= n
    <3>1. CASE f \in OnWire
      <4>1. n \in Ahead
        BY <3>1, <2>4 DEF Ahead, Tos
      <4> QED
        BY <4>1, <2>1
    <3>2. CASE f \in Fresh(h)
      BY <3>2, <2>4, <1>2 DEF Ahead, Fresh
    <3> QED
      BY <3>1, <3>2, <1>8
  <2> QED
    BY <2>2, <2>3, <2>4
<1>10. Ahead' \subseteq Nat
  <2>1. \A f \in OnWire' : f \in FrameSet
    BY <1>8, <1>0, AsksTyped DEF OnWire, Fresh
  <2>2. \A f \in FrameSet : f.answer.to.seq \in Nat
    BY DEF FrameSet, AnswerSet, CursorSet
  <2> QED
    BY <1>2, <2>1, <2>2 DEF Ahead, Tos
<1>11. Asks' \subseteq Asks \cup {NoCursor}
  BY <1>8 DEF Asks, OnWire, Fresh
<1>12. AsksOK'
  <2> SUFFICES ASSUME NEW a \in Asks' PROVE Behind(Epoch, Ahead', a)
    BY <1>1 DEF AsksOK
  <2>1. CASE a = NoCursor
    BY <2>1, <1>2, NoCursorIs DEF Behind
  <2>2. CASE a \in Asks
    <3>1. a \in CursorSet /\ Behind(Epoch, Ahead, a) /\ Ahead \in SUBSET Nat /\ Ahead' \in SUBSET Nat
      BY <2>2, <1>0, <1>10, AsksTyped, SettingNow DEF AsksOK
    <3> QED
      BY <3>1, <1>9, BehindLess
  <2> QED
    BY <2>1, <2>2, <1>11
<1>13. ClientOK'
  <2>1. client \in Sounds(Epoch, Ahead, Asks, Positions, client)
    BY <1>0 DEF ClientOK
  <2>2. \A a \in Asks' : Since(Epoch, a, client.cursor)
    <3>1. \A a \in Asks : Since(Epoch, a, client.cursor)
      BY <2>1 DEF Sounds, Sound
    <3>2. Since(Epoch, NoCursor, client.cursor)
      BY <1>2, NoCursorIs DEF Since
    <3> QED
      BY <3>1, <3>2, <1>11
  <2>3. Positions \subseteq CursorSet /\ Ahead \in SUBSET Nat /\ Ahead' \in SUBSET Nat
    BY <1>0, <1>10, SettingNow DEF Positions
  <2>4. client \in Sounds(Epoch, Ahead', Asks', Positions', client)
    BY <2>1, <2>2, <2>3, <1>3, <1>9, SoundLater
  <2> QED
    BY <2>4, <1>0, <1>1 DEF ClientOK
<1> QED
  BY <1>1, <1>5, <1>7, <1>12, <1>13

\* A step of the client: what its handler sent leaves with it.
LEMMA ClientStep ==
    ASSUME IInv, NEW c, NEW b, c \in Sounds(Epoch, Ahead, Asks, Positions, b), Becomes(c),
           c.obj <= MaxOpens, opens' \in 0..MaxOpens,
           UNCHANGED <<stream, boot, subs, w>>, wire' = wire \/ (wire # <<>> /\ wire' = Tail(wire))
    PROVE  StreamOK' /\ WriterOK' /\ WireOK' /\ AsksOK' /\ ClientOK'
<1>0. StreamOK /\ WriterOK /\ WireOK /\ AsksOK /\ ClientOK
  BY DEF IInv
<1>1. Epoch' = Epoch /\ Positions' = Positions /\ GoodFrames' = GoodFrames /\ StreamOK' /\ WriterOK'
  BY <1>0, PositionsNow, PositionsPrime DEF Epoch, StreamOK, WriterOK, PositionsAt, FramesAt
<1>2. wire' \in Seq(FrameSet) /\ Len(wire') <= Len(wire) /\ ToSet(wire') \subseteq ToSet(wire) /\ Ordered(wire')
  <2>1. wire \in Seq(FrameSet) /\ Ordered(wire) /\ Len(wire) \in Nat
    BY <1>0, LenProperties DEF WireOK
  <2>2. CASE wire' = wire
    BY <2>1, <2>2
  <2>3. CASE wire # <<>> /\ wire' = Tail(wire)
    <3>1. Tail(wire) \in Seq(FrameSet) /\ Len(Tail(wire)) = Len(wire) - 1
      BY <2>1, <2>3, HeadTailProperties
    <3>2. ToSet(wire) = {Head(wire)} \cup ToSet(Tail(wire))
      BY <2>1, <2>3, OnlyTail
    <3>3. Ordered(Tail(wire))
      BY <2>1, <2>3, OrderedTail
    <3> DEFINE t == Tail(wire)
    <3> HIDE DEF t
    <3>4. t \in Seq(FrameSet) /\ Len(t) <= Len(wire) /\ ToSet(t) \subseteq ToSet(wire) /\ Ordered(t)
      BY <2>1, <3>1, <3>2, <3>3 DEF t
    <3> QED
      BY <2>3, <3>4 DEF t
  <2> QED
    BY <2>2, <2>3
<1>3. WireOK'
  <2>1. Len(wire') <= Window
    BY <1>0, <1>2, LenProperties, SyncAssumption DEF WireOK
  <2> QED
    BY <2>1, <1>0, <1>1, <1>2 DEF WireOK
<1>4. /\ c \in Clients /\ Sound(Epoch, Ahead, Asks, Positions, b, c) /\ c.out \in Seq(Commands)
      /\ b \in Clients
  BY DEF Sounds, Clients, Sound
<1>5. up' = Cat(up, c.out) /\ up \in Seq(Commands)
  BY <1>0 DEF Becomes, Cat, AsksOK
<1>6. up' \in Seq(Commands) /\ ToSet(up') = ToSet(up) \cup ToSet(c.out)
  <2> DEFINE sent == c.out
  <2>1. sent \in Seq(Commands)
    BY <1>4
  <2> HIDE DEF sent
  <2>2. Cat(up, sent) \in Seq(Commands)
    BY <1>5, <2>1, CatIs
  <2>3. ToSet(Cat(up, sent)) = ToSet(up) \cup ToSet(sent)
    BY <1>5, <2>1, CatSet
  <2> QED
    BY <1>5, <2>2, <2>3 DEF sent
<1>7. OnWire' \subseteq OnWire
  BY <1>2 DEF OnWire
<1>8. Ahead' \subseteq Ahead /\ Ahead \subseteq Nat /\ Positions \subseteq CursorSet
  <2>1. Ahead' \subseteq Ahead
    BY <1>7 DEF Ahead, Tos
  <2> QED
    BY <2>1, <1>0, SettingNow DEF Positions
<1>9. ASSUME NEW a \in Asks'
      PROVE  a \in CursorSet /\ Behind(Epoch, Ahead, a) /\ Since(Epoch, a, c.cursor)
  <2>1. CASE a \in Asks
    BY <2>1, <1>0, <1>4, AsksTyped DEF AsksOK, Sound
  <2>2. ASSUME NEW i \in DOMAIN c.out, a = c.out[i].cursor
        PROVE  a \in CursorSet /\ Behind(Epoch, Ahead, a) /\ Since(Epoch, a, c.cursor)
    <3>1. c.out[i] \in Commands
      BY <1>4, LenProperties, ElementOfSeq
    <3> QED
      BY <2>2, <3>1, <1>4 DEF Sound, Commands
  <2>3. a \in Asks \/ \E i \in DOMAIN c.out : a = c.out[i].cursor
    BY <1>6, <1>7 DEF Asks, ToSet
  <2> QED
    BY <2>1, <2>2, <2>3
<1>10. AsksOK'
  <2> SUFFICES ASSUME NEW a \in Asks' PROVE Behind(Epoch, Ahead', a)
    BY <1>1, <1>6 DEF AsksOK
  <2> QED
    BY <1>8, <1>9 DEF Behind
<1>11. ClientOK'
  <2> DEFINE d == [c EXCEPT !.out = <<>>]
  <2>1. /\ d \in Clients /\ d.thread = c.thread /\ d.obj = c.obj /\ d.cursor = c.cursor
        /\ d.copy = c.copy /\ d.held = c.held /\ d.holding = c.holding /\ d.out = <<>>
    BY <1>4, EmptySeq DEF Clients
  <2> HIDE DEF d
  <2>2. Ahead' \in SUBSET Nat /\ Ahead \in SUBSET Nat /\ \A n \in Ahead' : \E m \in Ahead : m <= n
    BY <1>8
  <2>3. c \in Sounds(Epoch, Ahead', Asks', Positions, b)
    BY <2>2, <1>8, <1>9, SoundLater
  <2>4. c \in Sounds(Epoch, Ahead', Asks', Positions, c)
    BY <2>3, SoundAgain
  <2>5. Sound(Epoch, Ahead', Asks', Positions, c, c)
    BY <2>4 DEF Sounds
  <2>6. Sound(Epoch, Ahead', Asks', Positions, d, d)
    BY <2>5, <2>1, EmptySeq DEF Sound
  <2>7. client' = d
    BY DEF Becomes, d
  <2>8. client' \in Sounds(Epoch, Ahead', Asks', Positions, client')
    BY <2>1, <2>6, <2>7 DEF Sounds
  <2> QED
    BY <2>1, <2>7, <2>8, <1>1 DEF ClientOK
<1> QED
  BY <1>1, <1>3, <1>10, <1>11

-----------------------------------------------------------------------------
(* The steps of the server keep the invariant.                             *)

LEMMA DeliverNow ==
    ASSUME IInv, NEW s, Grows(s), s.head - stream.head \in Nat,
           \A n \in 1..(s.head - stream.head) : s.epoch = Epoch,
           NEW S \in SUBSET Nat, NEW wr \in SoundWriters(Queueable(s.head), S),
           NEW registered \in Seq(S)
    PROVE  /\ DeliverNew(wr, registered, s) \in SoundWriters(Queueable(s.head), S)
           /\ DeliverNew(wr, registered, s) \in Delivered(Queueable(s.head), S, wr, registered)
<1> DEFINE k == s.head - stream.head
           Q == Queueable(s.head)
<1>1. /\ Backlog \in Nat /\ s.head \in Nat /\ stream.head \in Nat /\ k \in Nat
      /\ Epoch \in Nat /\ Epoch <= boot
  BY SyncAssumption, EpochIs DEF Grows, IInv
<1>2. \A id \in S : Live("lagging", id, NoCursor) \in Q
  <2> SUFFICES ASSUME NEW id \in S PROVE Live("lagging", id, NoCursor) \in Q
    OBVIOUS
  <2>1. id \in Nat /\ NoCursor \in CursorSet
    BY NoCursorIs
  <2> QED
    BY <2>1, LiveIs
<1>3. \A n \in 1..k, id \in S : Live("record", id, Cursor(s.epoch, stream.head + n)) \in Q
  <2> SUFFICES ASSUME NEW n \in 1..k, NEW id \in S
               PROVE  Live("record", id, Cursor(s.epoch, stream.head + n)) \in Q
    OBVIOUS
  <2> DEFINE at == Cursor(s.epoch, stream.head + n)
  <2>1. at.epoch = Epoch /\ at.seq = stream.head + n /\ at = [epoch |-> at.epoch, seq |-> at.seq]
    BY DEF Cursor
  <2> HIDE DEF at
  <2>2. at.seq \in Nat /\ at.seq <= s.head
    BY <2>1, <1>1
  <2>3. at \in CursorSet
    BY <2>1, <2>2, <1>1 DEF CursorSet
  <2>4. at \in PositionsAt(s.head)
    BY <2>1, <2>2, <2>3, <1>1 DEF PositionsAt
  <2>5. Live("record", id, at) \in Q
    BY <2>1, <2>3, <2>4, LiveIs
  <2> QED
    BY <2>5 DEF at
<1>4. Q \in SUBSET FrameSet
  BY QueueableIs
<1> HIDE DEF Q
<1>5. DeliverNew(wr, registered, s) \in Delivered(Q, S, wr, registered)
  <2> DEFINE m == s.head - stream.head
  <2>1. /\ wr \in SoundWriters(Q, S) /\ m \in Nat /\ m = s.head - stream.head
        /\ \A n \in 1..m, id \in S : Live("record", id, Cursor(s.epoch, stream.head + n)) \in Q
    BY <1>1, <1>3 DEF Q
  <2> HIDE DEF m
  <2> QED
    BY <2>1, <1>1, <1>2, <1>4, DeliverSound
<1> QED
  BY <1>5 DEF Q, Delivered

LEMMA SubsTyped ==
    ASSUME WriterOK
    PROVE  subs \in Seq(ToSet(subs)) /\ ToSet(subs) \in SUBSET Nat /\ subs \in Seq(Nat)
<1>1. subs \in Seq(Nat)
  BY DEF WriterOK
<1>2. \A i \in DOMAIN subs : subs[i] \in ToSet(subs)
  BY DEF ToSet
<1>3. subs \in Seq(ToSet(subs))
  BY <1>1, <1>2, SeqIn
<1>4. ToSet(subs) \subseteq Nat
  BY <1>1, LenProperties, ElementOfSeq DEF ToSet
<1> QED
  BY <1>1, <1>3, <1>4

LEMMA StreamGrows ==
    ASSUME StreamOK
    PROVE  Grows(stream) /\ stream.head \in Nat
<1>1. stream.head \in Nat
  BY EpochIs
<1>2. stream \in [epoch : 0..boot, head : 0..MaxHead, oldest : 0..MaxHead]
  BY DEF StreamOK
<1> QED
  BY <1>1, <1>2 DEF StreamOK, Grows, HeadOf, Epoch

\* The command at the head of what was sent.
LEMMA HandlesIs ==
    ASSUME IInv, NEW kind, Handles(kind)
    PROVE  /\ Head(up) \in Commands /\ Head(up).cursor \in Asks /\ Head(up).cursor \in CursorSet
           /\ up' \in Seq(Commands) /\ ToSet(up') \subseteq ToSet(up)
           /\ connected /\ Head(up).kind = kind
<1>1. up \in Seq(Commands) /\ up # <<>> /\ up' = Tail(up) /\ Head(up).kind = kind
  BY DEF Handles, IInv, AsksOK
<1>2. Head(up) \in Commands /\ Tail(up) \in Seq(Commands) /\ ToSet(up) = {Head(up)} \cup ToSet(Tail(up))
  BY <1>1, OnlyTail
<1>3. Head(up).cursor \in Asks
  BY <1>2 DEF Asks
<1>4. connected
  BY <1>1 DEF IInv, OffOK
<1>5. Head(up).cursor \in CursorSet
  BY <1>2 DEF Commands
<1> QED
  BY <1>1, <1>2, <1>3, <1>4, <1>5

LEMMA PublishInv ==
    ASSUME IInv, Publish
    PROVE  IInv'
<1> DEFINE s == Longer(1)
<1>1. stream.head \in Nat /\ stream.head + 1 <= MaxHead
  BY SyncAssumption, EpochIs DEF IInv, Publish
<1>2. Grows(s) /\ s.head = stream.head + 1 /\ s.epoch = Epoch
  BY <1>1, LongerGrows DEF IInv
<1>3. /\ stream' = s /\ w' = DeliverNew(w, subs, s)
      /\ UNCHANGED <<boot, subs, wire, up, connected, client, opens>>
  BY DEF Publish, counters
<1> HIDE DEF s
<1>4. s.head \in Nat /\ stream.head <= s.head /\ s.head - stream.head \in Nat
  BY <1>1, <1>2
<1>5. w \in SoundWriters(Queueable(s.head), ToSet(subs))
  BY <1>4, QueueKept
<1>6. w' \in Delivered(Queueable(s.head), ToSet(subs), w, subs)
  BY <1>2, <1>3, <1>4, <1>5, SubsTyped, DeliverNow DEF IInv
<1>7. up' \in Seq(Commands) /\ ToSet(up') \subseteq ToSet(up)
  BY <1>3 DEF IInv, AsksOK
<1>8. /\ StreamOK' /\ WireOK' /\ AsksOK' /\ ClientOK'
      /\ w' \in SoundWriters(GoodFrames', ToSet(subs'))
  BY <1>2, <1>3, <1>6, <1>7, ServerStep DEF Delivered
<1>9. WriterOK' /\ OffOK'
  BY <1>3, <1>6, <1>8 DEF IInv, WriterOK, OffOK, Delivered
<1> QED
  BY <1>8, <1>9 DEF IInv

LEMMA PublishTransientInv ==
    ASSUME IInv, PublishTransient
    PROVE  IInv'
<1> DEFINE h == stream.head
<1>1. Grows(stream) /\ h \in Nat /\ h <= h
  BY StreamGrows DEF IInv
<1>2. /\ stream' = stream /\ w' = deliverScoped(w, subs, "transient", HeadOf(stream))
      /\ UNCHANGED <<boot, subs, wire, up, connected, client, opens>>
  BY DEF PublishTransient, serverVars
<1>3. w \in SoundWriters(Queueable(h), ToSet(subs))
  BY <1>1, QueueKept
<1>4. \A id \in ToSet(subs) : /\ Live("transient", id, HeadOf(stream)) \in Queueable(h)
                              /\ Live("lagging", id, NoCursor) \in Queueable(h)
  <2>1. HeadOf(stream) \in CursorSet
    BY <1>1, EpochIs DEF Grows, Cursor, CursorSet, IInv
  <2> SUFFICES ASSUME NEW id \in ToSet(subs)
               PROVE  /\ Live("transient", id, HeadOf(stream)) \in Queueable(h)
                      /\ Live("lagging", id, NoCursor) \in Queueable(h)
    OBVIOUS
  <2>2. id \in Nat /\ NoCursor \in CursorSet
    BY SubsTyped, NoCursorIs DEF IInv
  <2>3. Live("transient", id, HeadOf(stream)) \in Queueable(h)
    BY <2>1, <2>2, LiveIs
  <2>4. Live("lagging", id, NoCursor) \in Queueable(h)
    BY <2>2, LiveIs
  <2> QED
    BY <2>3, <2>4
<1> DEFINE Q == Queueable(h)
<1>5. Q \in SUBSET FrameSet /\ Backlog \in Nat
  BY QueueableIs, SyncAssumption
<1>6. subs \in Seq(ToSet(subs)) /\ ToSet(subs) \in SUBSET Nat
  BY SubsTyped DEF IInv
<1> HIDE DEF Q
<1>7. w' \in Delivered(Q, ToSet(subs), w, subs)
  <2>1. w \in SoundWriters(Q, ToSet(subs))
    BY <1>3 DEF Q
  <2>2. \A id \in ToSet(subs) : /\ Live("transient", id, HeadOf(stream)) \in Q
                                /\ Live("lagging", id, NoCursor) \in Q
    BY <1>4 DEF Q
  <2> DEFINE place == HeadOf(stream)
             sort == "transient"
             S == ToSet(subs)
  <2>3. sort \in {"record", "transient"} /\ subs \in Seq(S) /\ S \in SUBSET Nat
    BY <1>6
  <2>4. w \in SoundWriters(Q, S) /\ \A id \in S : Live(sort, id, place) \in Q /\ Live("lagging", id, NoCursor) \in Q
    BY <2>1, <2>2
  <2>5. w' = deliverScoped(w, subs, sort, place)
    BY <1>2
  <2> HIDE DEF place, sort, S
  <2>6. deliverScoped(w, subs, sort, place) \in Delivered(Q, S, w, subs)
    BY <2>3, <2>4, <1>5, ScopedSound
  <2> QED
    BY <2>5, <2>6 DEF S
<1>8. up' \in Seq(Commands) /\ ToSet(up') \subseteq ToSet(up)
  BY <1>2 DEF IInv, AsksOK
<1>9. w' \in SoundWriters(Queueable(stream.head), ToSet(subs'))
  BY <1>2, <1>7 DEF Q, Delivered
<1>10. /\ StreamOK' /\ WireOK' /\ AsksOK' /\ ClientOK'
       /\ w' \in SoundWriters(GoodFrames', ToSet(subs'))
  BY <1>1, <1>2, <1>8, <1>9, ServerStep
<1>11. WriterOK' /\ OffOK'
  BY <1>2, <1>7, <1>10 DEF IInv, WriterOK, OffOK, Delivered
<1> QED
  BY <1>10, <1>11 DEF IInv

LEMMA PruneInv ==
    ASSUME IInv, Prune
    PROVE  IInv'
<1>1. PICK keep \in (stream.oldest + 1)..(stream.head + 1) :
         stream' = [stream EXCEPT !.oldest = IF keep > stream.head THEN 0 ELSE keep]
  BY DEF Prune
<1> DEFINE s == [stream EXCEPT !.oldest = IF keep > stream.head THEN 0 ELSE keep]
<1>2. /\ stream' = s
      /\ UNCHANGED <<boot, subs, w, wire, up, connected, client, opens>>
  BY <1>1 DEF Prune, connection, counters
<1>3. /\ stream \in [epoch : 0..boot, head : 0..MaxHead, oldest : 0..MaxHead]
      /\ stream.head \in Nat /\ stream.oldest \in Nat /\ stream.head <= MaxHead
      /\ stream.epoch = 0 => stream.head = 0
  BY SyncAssumption DEF IInv, StreamOK
<1>4. /\ s.epoch = stream.epoch /\ s.head = stream.head
      /\ s.oldest = IF keep > stream.head THEN 0 ELSE keep
  BY <1>3
<1>5. s.oldest \in 0..MaxHead /\ s.oldest <= s.head
  BY <1>3, <1>4, SyncAssumption
<1>6. s \in [epoch : 0..boot, head : 0..MaxHead, oldest : 0..MaxHead]
  BY <1>3, <1>5
<1> HIDE DEF s
<1>7. Grows(s)
  BY <1>3, <1>4, <1>5, <1>6 DEF Grows, HeadOf, Epoch
<1>8. w \in SoundWriters(Queueable(s.head), ToSet(subs))
  BY <1>3, <1>4, QueueKept
<1>9. up' \in Seq(Commands) /\ ToSet(up') \subseteq ToSet(up)
  BY <1>2 DEF IInv, AsksOK
<1>10. /\ StreamOK' /\ WireOK' /\ AsksOK' /\ ClientOK'
       /\ w' \in SoundWriters(GoodFrames', ToSet(subs'))
  BY <1>2, <1>7, <1>8, <1>9, ServerStep
<1>11. WriterOK' /\ OffOK'
  BY <1>2, <1>10 DEF IInv, WriterOK, OffOK, Delivered
<1> QED
  BY <1>10, <1>11 DEF IInv

LEMMA WriteInv ==
    ASSUME IInv, Write
    PROVE  IInv'
<1> DEFINE frame == Head(w.queue)
           rest == Tail(w.queue)
           to == IF frame.kind = "record" THEN Assign(w.promised, frame.id, frame.at)
                 ELSE w.promised
<1>1. /\ w.queue # <<>> /\ Len(wire) < Window
      /\ wire' = Pushed(wire, frame)
      /\ w' = [w EXCEPT !.queue = Tail(w.queue),
                        !.promised = IF frame.kind = "record"
                                     THEN Assign(w.promised, frame.id, frame.at) ELSE w.promised]
      /\ UNCHANGED <<stream, boot, subs, up, connected, client, opens>>
  <2>1. w \in Writers
    BY DEF IInv, WriterOK, SoundWriters
  <2> QED
    BY <2>1 DEF Write, serverVars, counters, Pushed, Writers
<1>2. StreamOK /\ WriterOK /\ WireOK /\ AsksOK /\ ClientOK /\ OffOK
  BY DEF IInv
<1>3. /\ w \in Writers /\ SoundWriter(GoodFrames, ToSet(subs), w) /\ w.queue \in Seq(FrameSet)
      /\ w.promised \in Partial /\ w.lagging \in Partial /\ Ordered(w.queue)
      /\ wire \in Seq(FrameSet) /\ Ordered(wire)
  BY <1>2 DEF WriterOK, SoundWriters, SoundWriter, Writers, WireOK
<1>4. /\ frame \in FrameSet /\ rest \in Seq(FrameSet) /\ ToSet(w.queue) = {frame} \cup ToSet(rest)
      /\ Ordered(rest) /\ \A g \in ToSet(rest) : Upto(frame, g)
  <2>1. /\ Head(w.queue) \in FrameSet /\ Tail(w.queue) \in Seq(FrameSet)
        /\ ToSet(w.queue) = {Head(w.queue)} \cup ToSet(Tail(w.queue))
    BY <1>1, <1>3, OnlyTail
  <2>2. Ordered(Tail(w.queue)) /\ \A g \in ToSet(Tail(w.queue)) : Upto(Head(w.queue), g)
    BY <1>1, <1>3, OrderedTail
  <2> QED
    BY <2>1, <2>2
<1>5. Len(Only(rest, LiveSet)) <= Backlog
  <2>1. /\ Head(w.queue) \in LiveSet =>
             Only(w.queue, LiveSet) = <<Head(w.queue)>> \o Only(Tail(w.queue), LiveSet)
        /\ Head(w.queue) \notin LiveSet => Only(w.queue, LiveSet) = Only(Tail(w.queue), LiveSet)
    BY <1>1, <1>3, OnlyTail
  <2>2. Len(Only(w.queue, LiveSet)) <= Backlog
    BY <1>3 DEF SoundWriter
  <2> DEFINE q == Only(rest, LiveSet)
  <2>3. q \in Seq(FrameSet) /\ Len(q) \in Nat
    BY <1>4, OnlyType, LenProperties
  <2>4. <<frame>> \in Seq(FrameSet) /\ Len(<<frame>>) = 1
    BY <1>4, OneIs
  <2> HIDE DEF q
  <2>5. Len(<<frame>> \o q) = 1 + Len(q)
    BY <2>3, <2>4, ConcatProperties
  <2>6. Only(w.queue, LiveSet) = <<frame>> \o q \/ Only(w.queue, LiveSet) = q
    BY <2>1 DEF q
  <2> HIDE DEF frame, rest
  <2>7. Len(q) <= Backlog
    <3>1. CASE Only(w.queue, LiveSet) = q
      BY <3>1, <2>2
    <3>2. CASE Only(w.queue, LiveSet) = <<frame>> \o q
      BY <3>2, <2>2, <2>3, <2>5, SyncAssumption
    <3> QED
      BY <3>1, <3>2, <2>6
  <2> QED
    BY <2>7 DEF q
<1>6. to \in Partial /\ DOMAIN to \subseteq ToSet(subs)
  <2>1. DOMAIN w.promised \subseteq ToSet(subs)
    BY <1>3 DEF SoundWriter
  <2>2. frame.kind = "record" => frame.id \in ToSet(subs)
    BY <1>3, <1>4 DEF SoundWriter, IsLive
  <2>3. frame.id \in Nat /\ frame.at \in CursorSet
    BY <1>4 DEF FrameSet
  <2> HIDE DEF frame
  <2> DEFINE f == Assign(w.promised, frame.id, frame.at)
  <2>4. f \in Partial /\ DOMAIN f = DOMAIN w.promised \cup {frame.id}
    BY <2>3, <1>3, AssignIs
  <2>5. to = IF frame.kind = "record" THEN f ELSE w.promised
    OBVIOUS
  <2> HIDE DEF to, f
  <2> QED
    BY <2>1, <2>2, <2>4, <2>5, <1>3
<1>7. /\ w' \in Writers /\ w'.queue = rest /\ w'.promised = to /\ w'.lagging = w.lagging
  <2>1. w' = [w EXCEPT !.queue = rest, !.promised = to]
    BY <1>1
  <2> HIDE DEF rest, to
  <2> QED
    BY <2>1, <1>3, <1>4, <1>6 DEF Writers
<1> HIDE DEF to
<1>8. Epoch' = Epoch /\ Positions' = Positions /\ GoodFrames' = GoodFrames /\ StreamOK'
  BY <1>1, <1>2, PositionsNow, PositionsPrime DEF Epoch, StreamOK, PositionsAt, FramesAt
<1>9. SoundWriter(GoodFrames, ToSet(subs), w')
  BY <1>3, <1>4, <1>5, <1>6, <1>7 DEF SoundWriter
<1>10. WriterOK'
  BY <1>1, <1>2, <1>7, <1>8, <1>9 DEF WriterOK, SoundWriters
<1> HIDE DEF frame, rest
<1>11. wire' \in Seq(FrameSet) /\ ToSet(wire') = ToSet(wire) \cup {frame} /\ Len(wire') = Len(wire) + 1
  <2>1. Pushed(wire, frame) \in Seq(FrameSet) /\ ToSet(Pushed(wire, frame)) = ToSet(wire) \cup {frame}
    BY <1>3, <1>4, PushedIs
  <2>2. Len(Pushed(wire, frame)) = Len(wire) + 1
    BY <1>3, <1>4, AppendProperties DEF Pushed
  <2> QED
    BY <2>1, <2>2, <1>1
<1>12. Ordered(wire')
  <2>1. \A f \in ToSet(wire) : Upto(f, frame)
    BY <1>2, <1>4 DEF WireOK
  <2>2. Ordered(Pushed(wire, frame))
    BY <2>1, <1>3, <1>4, OrderedPushed
  <2> QED
    BY <2>2, <1>1
<1>13. \A f \in ToSet(wire'), g \in ToSet(rest) : Upto(f, g)
  BY <1>2, <1>4, <1>11 DEF WireOK
<1>14. frame \in GoodFrames
  BY <1>3, <1>4 DEF SoundWriter
<1>15. WireOK'
  <2>1. Len(wire') <= Window
    BY <1>1, <1>3, <1>11, LenProperties, SyncAssumption
  <2> QED
    BY <2>1, <1>2, <1>7, <1>8, <1>11, <1>12, <1>13, <1>14 DEF WireOK
<1>16. OnWire' = OnWire
  BY <1>4, <1>7, <1>11 DEF OnWire
<1>17. Ahead' = Ahead /\ Asks' = Asks
  BY <1>1, <1>16 DEF Ahead, Tos, Asks
<1>18. AsksOK' /\ ClientOK'
  BY <1>1, <1>2, <1>8, <1>17 DEF AsksOK, ClientOK
<1>19. OffOK'
  <2>1. connected
    BY <1>1, <1>2 DEF OffOK, NewWriter
  <2> QED
    BY <2>1, <1>1 DEF OffOK, IInv
<1> QED
  BY <1>8, <1>10, <1>15, <1>18, <1>19 DEF IInv

LEMMA CatchUpInv ==
    ASSUME IInv, CatchUp
    PROVE  IInv'
<1>1. PICK id \in DOMAIN w.lagging, s \in StreamsNow :
         /\ stream' = s
         /\ \E a \in Answers(w.lagging[id], HeadOf(s), OldestOf(s)) :
               w' = DeliverNew(
                      enqueueResponse(resume(w, id), Frame("catchup", id, NoCursor, NoAsk, a)),
                      subs, s)
  BY DEF CatchUp
<1>2. PICK a \in Answers(w.lagging[id], HeadOf(s), OldestOf(s)) :
         w' = DeliverNew(
                enqueueResponse(resume(w, id), Frame("catchup", id, NoCursor, NoAsk, a)),
                subs, s)
  BY <1>1
<1> DEFINE frame == Frame("catchup", id, NoCursor, NoAsk, a)
           Q == Queueable(s.head)
           S == ToSet(subs)
           resumed == resume(w, id)
           answered == enqueueResponse(resumed, frame)
<1>3. /\ Grows(s) /\ s.head - stream.head \in Nat
      /\ \A n \in 1..(s.head - stream.head) : s.epoch = Epoch
  BY StreamsNowGrow DEF IInv
<1>4. s.head \in Nat /\ stream.head <= s.head
  BY <1>3, EpochIs, SyncAssumption DEF Grows, IInv
<1>5. /\ UNCHANGED <<boot, subs, wire, up, connected, client, opens>>
  BY DEF CatchUp, counters
<1>6. /\ w \in SoundWriters(Q, S) /\ Q \in SUBSET FrameSet /\ S \in SUBSET Nat
      /\ subs \in Seq(S) /\ Backlog \in Nat
  BY <1>4, QueueKept, QueueableIs, SubsTyped, SyncAssumption DEF IInv
<1>7. id \in S /\ id \in Nat /\ w.lagging[id] \in CursorSet
  <2>1. w \in Writers /\ SoundWriter(GoodFrames, S, w)
    BY DEF IInv, WriterOK, SoundWriters
  <2>2. w.lagging \in Partial /\ DOMAIN w.lagging \subseteq S
    BY <2>1 DEF Writers, SoundWriter
  <2> QED
    BY <2>2, <1>6, PartialIs
<1>8. /\ frame \in Q /\ frame.answer.to.seq = s.head /\ frame.id = id /\ frame.kind = "catchup"
      /\ ~IsLive(frame)
  <2>1. NoAsk \in Commands /\ NoAsk.cursor \in Asks \cup {NoCursor}
    BY NoAnswerIs
  <2> DEFINE cursor == w.lagging[id]
  <2>2. cursor \in CursorSet /\ a \in Answers(cursor, HeadOf(s), OldestOf(s))
    BY <1>7, <1>2
  <2> HIDE DEF cursor
  <2>3. frame \in Q /\ frame.answer.to.seq = s.head
    BY <2>1, <2>2, <1>3, <1>7, AnswerFrame DEF IInv
  <2>4. frame.id = id /\ frame.kind = "catchup"
    BY DEF Frame
  <2> QED
    BY <2>3, <2>4 DEF IsLive
<1> HIDE DEF frame
<1>9. resumed \in SoundWriters(Q, S) /\ ToSet(resumed.queue) \subseteq Q
  <2>1. resumed \in SoundWriters(Q, S)
    BY <1>6, ResumeSound
  <2> QED
    BY <2>1 DEF SoundWriters, SoundWriter
<1> HIDE DEF resumed
<1>10. \A f \in ToSet(resumed.queue) : Upto(f, frame)
  <2> SUFFICES ASSUME NEW f \in ToSet(resumed.queue) PROVE Upto(f, frame)
    OBVIOUS
  <2>1. f \in FramesAt(s.head) /\ frame \in FramesAt(s.head)
    BY <1>8, <1>9, QueueableIs
  <2> QED
    BY <2>1, <1>4, <1>8, UptoHead DEF IInv
<1>11. answered \in SoundWriters(Q, S)
  <2> HIDE DEF Q, S
  <2> QED
    BY <1>6, <1>7, <1>8, <1>9, <1>10, ResponseSound
<1>12. w' = DeliverNew(answered, subs, s)
  BY <1>2 DEF frame, resumed
<1> HIDE DEF answered
<1>13. DeliverNew(answered, subs, s) \in SoundWriters(Queueable(s.head), S)
  <2>1. answered \in SoundWriters(Queueable(s.head), S)
    BY <1>11
  <2> HIDE DEF S, Q
  <2> QED
    BY <2>1, <1>3, <1>6, DeliverNow
<1>14. w' \in SoundWriters(Queueable(s.head), ToSet(subs')) /\ subs # <<>>
  <2>1. subs # <<>>
    BY <1>7 DEF ToSet
  <2> QED
    BY <2>1, <1>5, <1>12, <1>13
<1>15. up' \in Seq(Commands) /\ ToSet(up') \subseteq ToSet(up)
  BY <1>5 DEF IInv, AsksOK
<1>16. /\ StreamOK' /\ WireOK' /\ AsksOK' /\ ClientOK'
       /\ w' \in SoundWriters(GoodFrames', ToSet(subs'))
  BY <1>1, <1>3, <1>5, <1>14, <1>15, ServerStep
<1>17. WriterOK' /\ OffOK'
  BY <1>5, <1>14, <1>16 DEF IInv, WriterOK, OffOK
<1> QED
  BY <1>16, <1>17 DEF IInv

\* A registration is new.
LEMMA RegisterIs ==
    ASSUME IInv, subs' = Append(subs, NewId)
    PROVE  /\ NewId \in Nat /\ subs' \in Seq(Nat) /\ IsInjective(subs')
           /\ ToSet(subs') = ToSet(subs) \cup {NewId} /\ ToSet(subs') \in SUBSET Nat
           /\ subs' \in Seq(ToSet(subs'))
<1>1. NewId \in Nat /\ NewId \notin ToSet(subs)
  BY NewIdIs DEF IInv
<1>2. subs \in Seq(Nat) /\ IsInjective(subs) /\ ToSet(subs) \in SUBSET Nat
  BY SubsTyped DEF IInv, WriterOK
<1> DEFINE t == Append(subs, NewId)
<1>3. t \in Seq(Nat) /\ IsInjective(t) /\ ToSet(t) = ToSet(subs) \cup {NewId}
  BY <1>1, <1>2, InjectivePushed
<1> HIDE DEF t
<1>4. t \in Seq(ToSet(t))
  <2>1. \A i \in DOMAIN t : t[i] \in ToSet(t)
    BY DEF ToSet
  <2> QED
    BY <1>3, <2>1, SeqIn
<1>5. subs' = t
  BY DEF t
<1> QED
  BY <1>1, <1>2, <1>3, <1>4, <1>5

\* A request is answered, after what the delivery queue holds.
LEMMA RespondInv ==
    ASSUME IInv, NEW s \in StreamsNow, NEW frame \in Queueable(s.head), ~IsLive(frame),
           frame.id = NewId, subs' = Append(subs, NewId), stream' = s,
           w' = enqueueResponse(DeliverNew(w, subs', s), frame),
           \A f \in FramesAt(s.head) : Upto(f, frame),
           up' \in Seq(Commands), ToSet(up') \subseteq ToSet(up), connected,
           UNCHANGED <<boot, wire, connected, client, opens>>
    PROVE  IInv'
<1> DEFINE Q == Queueable(s.head)
           S == ToSet(subs')
           delivered == DeliverNew(w, subs', s)
<1>1. /\ Grows(s) /\ s.head - stream.head \in Nat
      /\ \A n \in 1..(s.head - stream.head) : s.epoch = Epoch
  BY StreamsNowGrow DEF IInv
<1>2. s.head \in Nat /\ stream.head <= s.head
  BY <1>1, EpochIs, SyncAssumption DEF Grows, IInv
<1>3. /\ NewId \in S /\ S \in SUBSET Nat /\ ToSet(subs) \subseteq S /\ subs' \in Seq(S)
      /\ subs' \in Seq(Nat) /\ IsInjective(subs')
  BY RegisterIs
<1>4. w \in SoundWriters(Q, S) /\ Q \in SUBSET FrameSet /\ Backlog \in Nat
  BY <1>2, <1>3, QueueKept, QueueableIs, SyncAssumption
<1>5. delivered \in SoundWriters(Q, S) /\ ToSet(delivered.queue) \subseteq Q
  <2> DEFINE registered == subs'
  <2>1. registered \in Seq(S)
    BY <1>3
  <2> HIDE DEF registered, S
  <2>2. DeliverNew(w, registered, s) \in SoundWriters(Q, S)
    BY <2>1, <1>1, <1>3, <1>4, DeliverNow
  <2>3. delivered \in SoundWriters(Q, S)
    BY <2>2 DEF registered
  <2> QED
    BY <2>3 DEF SoundWriters, SoundWriter
<1> HIDE DEF delivered
<1>6. \A f \in ToSet(delivered.queue) : Upto(f, frame)
  BY <1>5, QueueableIs
<1>7. enqueueResponse(delivered, frame) \in SoundWriters(Q, S)
  <2> HIDE DEF S
  <2>1. frame \in Q /\ frame.id \in S
    BY <1>3
  <2> HIDE DEF Q
  <2> QED
    BY <2>1, <1>3, <1>4, <1>5, <1>6, ResponseSound
<1>8. w' \in SoundWriters(Queueable(s.head), ToSet(subs'))
  BY <1>7 DEF delivered
<1>9. /\ StreamOK' /\ WireOK' /\ AsksOK' /\ ClientOK'
      /\ w' \in SoundWriters(GoodFrames', ToSet(subs'))
  BY <1>1, <1>8, ServerStep
<1>10. WriterOK' /\ OffOK'
  BY <1>3, <1>9 DEF WriterOK, OffOK
<1> QED
  BY <1>9, <1>10 DEF IInv

LEMMA HandleReplayInv ==
    ASSUME IInv, HandleReplay
    PROVE  IInv'
<1>1. PICK s \in StreamsNow :
         /\ stream' = s
         /\ \E a \in Answers(Head(up).cursor, HeadOf(s), OldestOf(s)) :
               w' = enqueueResponse(DeliverNew(w, subs', s),
                                    Frame("answer", NewId, NoCursor, Head(up), a))
  BY DEF HandleReplay
<1>2. PICK a \in Answers(Head(up).cursor, HeadOf(s), OldestOf(s)) :
         w' = enqueueResponse(DeliverNew(w, subs', s),
                              Frame("answer", NewId, NoCursor, Head(up), a))
  BY <1>1
<1> DEFINE ask == Head(up)
           frame == Frame("answer", NewId, NoCursor, ask, a)
<1>3. /\ subs' = Append(subs, NewId) /\ Handles("replay")
      /\ UNCHANGED <<boot, wire, connected, client, opens>>
  BY DEF HandleReplay, counters
<1>4. /\ ask \in Commands /\ ask.cursor \in Asks /\ ask.cursor \in CursorSet
      /\ up' \in Seq(Commands) /\ ToSet(up') \subseteq ToSet(up) /\ connected
  BY <1>3, HandlesIs
<1>5. NewId \in Nat /\ Grows(s) /\ s.head \in Nat /\ StreamOK
  BY <1>3, RegisterIs, StreamsNowGrow, SyncAssumption DEF Grows, IInv
<1>6. frame \in Queueable(s.head) /\ frame.answer.to.seq = s.head
  <2> DEFINE cursor == ask.cursor
  <2>1. cursor \in CursorSet /\ a \in Answers(cursor, HeadOf(s), OldestOf(s))
    BY <1>2, <1>4
  <2>2. ask.cursor \in Asks \cup {NoCursor} /\ ask.cursor = cursor
    BY <1>4
  <2> HIDE DEF ask, cursor
  <2> QED
    BY <2>1, <2>2, <1>4, <1>5, AnswerFrame
<1>7. frame.id = NewId /\ ~IsLive(frame)
  BY DEF Frame, IsLive
<1>8. w' = enqueueResponse(DeliverNew(w, subs', s), frame)
  BY <1>2
<1> HIDE DEF frame, ask
<1>9. \A f \in FramesAt(s.head) : Upto(f, frame)
  <2>1. frame \in FramesAt(s.head)
    BY <1>6, QueueableIs
  <2> QED
    BY <2>1, <1>5, <1>6, UptoHead
<1> QED
  BY <1>1, <1>3, <1>4, <1>6, <1>7, <1>8, <1>9, RespondInv

LEMMA HandleSubscribeInv ==
    ASSUME IInv, HandleSubscribe
    PROVE  IInv'
<1> DEFINE ask == Head(up)
           frame == Frame("subscribed", NewId, NoCursor, ask, NoAnswer)
<1>1. PICK s \in StreamsNow :
         stream' = s /\ w' = enqueueResponse(DeliverNew(w, subs', s), frame)
  BY DEF HandleSubscribe
<1>3. /\ subs' = Append(subs, NewId) /\ Handles("subscribe")
      /\ UNCHANGED <<boot, wire, connected, client, opens>>
  BY DEF HandleSubscribe, counters
<1>4. /\ ask \in Commands /\ ask.cursor \in Asks \cup {NoCursor}
      /\ up' \in Seq(Commands) /\ ToSet(up') \subseteq ToSet(up) /\ connected
  BY <1>3, HandlesIs
<1>5. NewId \in Nat
  BY <1>3, RegisterIs
<1> HIDE DEF ask
<1>6. frame \in Queueable(s.head)
  BY <1>4, <1>5, ReplyFrame
<1>7. frame.id = NewId /\ ~IsLive(frame) /\ ~Answering(frame)
  BY DEF Frame, IsLive, Answering
<1> HIDE DEF frame
<1>8. \A f \in FramesAt(s.head) : Upto(f, frame)
  BY <1>7 DEF Upto
<1> QED
  BY <1>1, <1>3, <1>4, <1>6, <1>7, <1>8, RespondInv

LEMMA RefuseReplayInv ==
    ASSUME IInv, RefuseReplay
    PROVE  IInv'
<1> DEFINE ask == Head(up)
           Q == Queueable(stream.head)
           S == ToSet(subs)
<1>1. PICK code \in {"internal", "validation"} :
         w' = enqueueResponse(w, Frame(code, 0, NoCursor, ask, NoAnswer))
  BY DEF RefuseReplay
<1> DEFINE frame == Frame(code, 0, NoCursor, ask, NoAnswer)
<1>2. /\ Handles("replay")
      /\ UNCHANGED <<stream, boot, subs, wire, connected, client, opens>>
  BY DEF RefuseReplay, serverVars
<1>3. /\ ask \in Commands /\ ask.cursor \in Asks \cup {NoCursor}
      /\ up' \in Seq(Commands) /\ ToSet(up') \subseteq ToSet(up) /\ connected
  BY <1>2, HandlesIs
<1>4. Grows(stream) /\ stream.head \in Nat /\ stream.head <= stream.head
  BY StreamGrows DEF IInv
<1>5. w \in SoundWriters(Q, S) /\ Q \in SUBSET FrameSet /\ Backlog \in Nat /\ S \in SUBSET Nat
  BY <1>4, QueueKept, QueueableIs, SubsTyped, SyncAssumption DEF IInv
<1> HIDE DEF ask
<1>6. frame \in Q
  BY <1>3, ReplyFrame
<1>7. frame.answer = NoAnswer /\ ~IsLive(frame) /\ ~Answering(frame)
  BY DEF Frame, IsLive, Answering
<1>8. w' = enqueueResponse(w, frame)
  BY <1>1
<1> HIDE DEF frame
<1>9. \A f \in ToSet(w.queue) : Upto(f, frame)
  BY <1>7 DEF Upto
<1>10. enqueueResponse(w, frame) \in SoundWriters(Q, S)
  <2> HIDE DEF Q, S
  <2> QED
    BY <1>5, <1>6, <1>7, <1>9, ResponseSound
<1>11. w' \in SoundWriters(Queueable(stream.head), ToSet(subs'))
  BY <1>2, <1>8, <1>10
<1>12. /\ StreamOK' /\ WireOK' /\ AsksOK' /\ ClientOK'
       /\ w' \in SoundWriters(GoodFrames', ToSet(subs'))
  BY <1>2, <1>3, <1>4, <1>11, ServerStep
<1>13. WriterOK' /\ OffOK'
  BY <1>2, <1>3, <1>12 DEF IInv, WriterOK, OffOK
<1> QED
  BY <1>12, <1>13 DEF IInv

LEMMA HandleUnsubscribeInv ==
    ASSUME IInv, HandleUnsubscribe
    PROVE  IInv'
<1> DEFINE id == Head(up).id
           Q == Queueable(stream.head)
           T == ToSet(subs) \ {id}
<1>1. /\ Handles("unsubscribe") /\ subs' = Only(subs, T) /\ w' = unregister(w, id)
      /\ UNCHANGED <<stream, boot, wire, connected, client, opens>>
  BY DEF HandleUnsubscribe, serverVars, counters
<1>2. up' \in Seq(Commands) /\ ToSet(up') \subseteq ToSet(up) /\ connected
  BY <1>1, HandlesIs
<1>3. Grows(stream) /\ stream.head \in Nat /\ stream.head <= stream.head
  BY StreamGrows DEF IInv
<1>4. w \in SoundWriters(Q, ToSet(subs)) /\ Backlog \in Nat
  BY <1>3, QueueKept, SyncAssumption
<1> HIDE DEF id
<1>5. subs \in Seq(Nat) /\ IsInjective(subs)
  BY DEF IInv, WriterOK
<1>6. subs' \in Seq(Nat) /\ IsInjective(subs') /\ ToSet(subs') = T
  <2> HIDE DEF T
  <2>1. Only(subs, T) \in Seq(Nat) /\ IsInjective(Only(subs, T)) /\ ToSet(Only(subs, T)) = ToSet(subs) \cap T
    BY <1>5, OnlyType, OnlyInjective, OnlyHolds
  <2>2. ToSet(subs) \cap T = T
    BY DEF T
  <2> QED
    BY <1>1, <2>1, <2>2
<1>7. unregister(w, id) \in SoundWriters(Q, T)
  <2> HIDE DEF Q
  <2> QED
    BY <1>4, UnregisterSound
<1>8. w' \in SoundWriters(Queueable(stream.head), ToSet(subs'))
  BY <1>1, <1>6, <1>7
<1>9. /\ StreamOK' /\ WireOK' /\ AsksOK' /\ ClientOK'
      /\ w' \in SoundWriters(GoodFrames', ToSet(subs'))
  BY <1>1, <1>2, <1>3, <1>8, ServerStep
<1>10. WriterOK' /\ OffOK'
  BY <1>1, <1>2, <1>6, <1>9 DEF IInv, WriterOK, OffOK
<1> QED
  BY <1>9, <1>10 DEF IInv

-----------------------------------------------------------------------------
(* The steps of the client and of the connection keep the invariant.       *)

\* No answer on its way is behind what is received.
LEMMA ReceivedIs ==
    ASSUME IInv, wire # <<>>
    PROVE  Arriving(Epoch, Ahead, Asks, Positions, Head(wire))
<1> DEFINE frame == Head(wire)
           rest == Tail(wire)
<1>1. WireOK /\ WriterOK /\ AsksOK /\ StreamOK /\ wire \in Seq(FrameSet) /\ Ordered(wire)
  BY DEF IInv, WireOK
<1>2. ToSet(wire) = {frame} \cup ToSet(rest) /\ \A g \in ToSet(rest) : Upto(frame, g)
  <2>1. ToSet(wire) = {Head(wire)} \cup ToSet(Tail(wire))
    BY <1>1, OnlyTail
  <2>2. \A g \in ToSet(Tail(wire)) : Upto(Head(wire), g)
    BY <1>1, OrderedTail
  <2> QED
    BY <2>1, <2>2
<1> HIDE DEF frame, rest
<1>3. frame \in GoodFrames /\ frame \in OnWire /\ \A g \in ToSet(w.queue) : Upto(frame, g)
  BY <1>1, <1>2 DEF WireOK, OnWire
<1>4. \A g \in OnWire : g = frame \/ Upto(frame, g)
  BY <1>2, <1>3 DEF OnWire
<1>5. \A n \in Ahead : n = stream.head \/ \E g \in OnWire : Answering(g) /\ n = g.answer.to.seq
  BY DEF Ahead, Tos
<1>6. frame \in FrameSet /\ Leads(Epoch, Positions, frame)
      /\ (frame.kind = "record" => frame.at \in Positions /\ frame.at.epoch = Epoch)
  BY <1>3 DEF GoodFrames
<1>7. ASSUME frame.kind = "record" PROVE Behind(Epoch, Ahead, frame.at)
  <2> SUFFICES ASSUME NEW n \in Ahead PROVE frame.at.seq <= n
    BY DEF Behind
  <2>1. CASE n = stream.head
    BY <2>1, <1>6, <1>7 DEF Positions
  <2>2. ASSUME NEW g \in OnWire, Answering(g), n = g.answer.to.seq PROVE frame.at.seq <= n
    <3>1. g # frame
      BY <1>7, <2>2 DEF Answering
    <3> QED
      BY <3>1, <2>2, <1>4, <1>7 DEF Upto
  <2> QED
    BY <2>1, <2>2, <1>5
<1>8. ASSUME Answering(frame)
      PROVE  frame.answer.to.seq \in Ahead /\ Behind(Epoch, Ahead, frame.answer.to)
  <2>1. frame.answer.to.seq \in Ahead
    BY <1>3, <1>8 DEF Ahead, Tos
  <2>2. frame.answer.to \in Positions /\ frame.answer.to.epoch = Epoch /\ frame.answer.to.seq \in Nat
    BY <1>6, <1>8 DEF Leads, Positions, CursorSet
  <2> SUFFICES ASSUME NEW n \in Ahead PROVE frame.answer.to.seq <= n
    BY <2>1 DEF Behind
  <2>3. CASE n = stream.head
    BY <2>2, <2>3 DEF Positions
  <2>4. ASSUME NEW g \in OnWire, Answering(g), n = g.answer.to.seq PROVE frame.answer.to.seq <= n
    <3>1. CASE g = frame
      BY <3>1, <2>2, <2>4
    <3>2. CASE g # frame
      BY <3>2, <2>4, <1>4, <1>8 DEF Upto
    <3> QED
      BY <3>1, <3>2
  <2> QED
    BY <2>3, <2>4, <1>5
<1>9. frame.ask.cursor \in Asks
  BY <1>3 DEF Asks
<1>10. Arriving(Epoch, Ahead, Asks, Positions, frame)
  BY <1>6, <1>7, <1>8, <1>9 DEF Arriving, Placed
<1> QED
  BY <1>10 DEF frame

LEMMA ClientIs ==
    ASSUME IInv
    PROVE  /\ client \in Sounds(Epoch, Ahead, Asks, Positions, client) /\ client \in Clients
           /\ Setting(Epoch, Ahead, Asks, Positions) /\ client.out = <<>>
           /\ client.obj <= MaxOpens /\ opens \in 0..MaxOpens
<1>1. client \in Sounds(Epoch, Ahead, Asks, Positions, client)
  BY DEF IInv, ClientOK
<1>2. client \in Clients
  BY <1>1 DEF Sounds
<1> QED
  BY <1>1, <1>2, SettingNow DEF IInv, ClientOK

LEMMA HandledIs ==
    ASSUME IInv, wire # <<>>
    PROVE  handleMessage(client, Head(wire)) \in Sounds(Epoch, Ahead, Asks, Positions, client)
<1> DEFINE frame == Head(wire)
<1>1. Arriving(Epoch, Ahead, Asks, Positions, frame)
  BY ReceivedIs
<1> HIDE DEF frame
<1>2. handleMessage(client, frame) \in Sounds(Epoch, Ahead, Asks, Positions, client)
  BY <1>1, ClientIs, MessageSound
<1> QED
  BY <1>2 DEF frame

LEMMA ReceiveInv ==
    ASSUME IInv, Receive
    PROVE  IInv'
<1> DEFINE c == handleMessage(client, Head(wire))
<1>1. /\ wire # <<>> /\ wire' = Tail(wire) /\ Becomes(c)
      /\ UNCHANGED <<stream, boot, subs, w, connected, opens>>
  BY DEF Receive, serverVars, counters
<1>2. c \in Sounds(Epoch, Ahead, Asks, Positions, client)
  BY <1>1, HandledIs
<1> HIDE DEF c
<1>3. c.obj = client.obj
  BY <1>2 DEF Sounds, Sound
<1>4. /\ StreamOK' /\ WriterOK' /\ WireOK' /\ AsksOK' /\ ClientOK'
  BY <1>1, <1>2, <1>3, ClientIs, ClientStep
<1>5. OffOK'
  BY <1>1 DEF IInv, OffOK
<1> QED
  BY <1>4, <1>5 DEF IInv

\* A subscription object that starts, starts over or ends.
LEMMA ObjectSound ==
    ASSUME NEW E, NEW N, NEW A, NEW P, NEW b, NEW c, c \in Sounds(E, N, A, P, b),
           NEW d \in Clients, d.cursor = c.cursor, d.copy = c.copy, d.out = c.out,
           d.held = <<>>
    PROVE  d \in Sounds(E, N, A, P, d)
<1>1. c \in Clients /\ Sound(E, N, A, P, b, c)
  BY DEF Sounds
<1>2. Forward(d.cursor, d.cursor)
  BY DEF Forward, Clients, CursorSet
<1>3. \A i \in DOMAIN d.held : Placed(E, N, P, d.held[i].frame)
  BY EmptySeq
<1>4. Sound(E, N, A, P, d, d)
  BY <1>1, <1>2, <1>3 DEF Sound
<1> QED
  BY <1>4 DEF Sounds

LEMMA HoldsIs ==
    ASSUME NEW c \in Clients, NEW x \in CursorSet
    PROVE  LET d == Holds(c, [NewObject EXCEPT !.unanchored = x])
           IN  /\ d \in Clients /\ d.thread = c.thread /\ d.obj = c.obj /\ d.cursor = c.cursor
               /\ d.copy = c.copy /\ d.out = c.out /\ d.held = <<>> /\ d.sub = 0
BY EmptySeq DEF Holds, NewObject, Clients

LEMMA StartsIs ==
    ASSUME NEW c \in Clients
    PROVE  LET d == Holds(c, NewObject)
           IN  /\ d \in Clients /\ d.thread = c.thread /\ d.obj = c.obj /\ d.cursor = c.cursor
               /\ d.copy = c.copy /\ d.out = c.out /\ d.held = <<>> /\ d.sub = 0
BY EmptySeq, NoCursorIs DEF Holds, NewObject, Clients

\* A handler that sends nothing, without a connection.
LEMMA QuietIs ==
    ASSUME IInv, ~connected, NEW c, c.out = <<>>, c.sub = 0, Becomes(c), c \in Clients,
           UNCHANGED <<wire, w, subs, connected>>
    PROVE  OffOK'
<1>1. up = <<>> /\ up' = <<>> \o <<>>
  BY DEF IInv, OffOK, Becomes
<1>2. <<>> \o <<>> = <<>>
  OBVIOUS
<1>3. client'.sub = 0
  BY DEF Becomes, Clients
<1> QED
  BY <1>1, <1>2, <1>3 DEF IInv, OffOK

LEMMA RecoverEmpty ==
    ASSUME NEW E, NEW N, NEW A, NEW P, Setting(E, N, A, P), NEW b,
           NEW c, c \in Sounds(E, N, A, P, b)
    PROVE  recover(c, <<>>) \in Sounds(E, N, A, P, b)
<1>1. <<>> \in Seq(Entries) /\ DOMAIN <<>> = {}
  BY EmptySeq
<1> DEFINE first == <<>>
<1>2. first \in Seq(Entries) /\ \A i \in DOMAIN first : Placed(E, N, P, first[i].frame)
  BY <1>1
<1> HIDE DEF first
<1>3. recover(c, first) \in Sounds(E, N, A, P, b)
  BY <1>2, RecoverSound
<1> QED
  BY <1>3 DEF first

LEMMA OpenInv ==
    ASSUME IInv, Open
    PROVE  IInv'
<1> DEFINE new == [Holds(client, NewObject) EXCEPT !.obj = opens + 1]
           c == IF client.obj # 0 THEN client ELSE new
           d == IF connected THEN recover(c, <<>>) ELSE c
<1>1. /\ opens < MaxOpens /\ opens' = opens + 1 /\ Becomes(d)
      /\ UNCHANGED <<stream, boot, subs, w, wire, connected>>
  BY DEF Open, serverVars
<1>2. client \in Sounds(Epoch, Ahead, Asks, Positions, client) /\ client \in Clients
      /\ Setting(Epoch, Ahead, Asks, Positions) /\ client.out = <<>>
      /\ client.obj <= MaxOpens /\ opens \in 0..MaxOpens
  BY ClientIs
<1>3. opens \in Nat /\ opens + 1 \in 0..MaxOpens
  BY <1>1, <1>2, SyncAssumption
<1>4. /\ new \in Clients /\ new.obj = opens + 1 /\ new.cursor = client.cursor
      /\ new.copy = client.copy /\ new.out = client.out /\ new.held = <<>> /\ new.sub = 0
  <2> DEFINE e == Holds(client, NewObject)
  <2>1. /\ e \in Clients /\ e.cursor = client.cursor
        /\ e.copy = client.copy /\ e.out = client.out /\ e.held = <<>> /\ e.sub = 0
    BY <1>2, StartsIs
  <2> HIDE DEF e
  <2>2. new = [e EXCEPT !.obj = opens + 1]
    BY DEF e
  <2> HIDE DEF new
  <2> QED
    BY <2>1, <2>2, <1>3 DEF Clients
<1> HIDE DEF new
<1>5. new \in Sounds(Epoch, Ahead, Asks, Positions, new)
  BY <1>2, <1>4, ObjectSound
<1>6. c \in Sounds(Epoch, Ahead, Asks, Positions, c) /\ c.obj <= MaxOpens
      /\ c.out = <<>> /\ c \in Clients /\ (~connected => c.sub = 0)
  <2>1. CASE client.obj # 0
    BY <2>1, <1>2 DEF IInv, OffOK
  <2>2. CASE ~(client.obj # 0)
    BY <2>2, <1>2, <1>3, <1>4, <1>5
  <2> QED
    BY <2>1, <2>2
<1> HIDE DEF c
<1>7. d \in Sounds(Epoch, Ahead, Asks, Positions, c)
  <2>1. CASE connected
    BY <2>1, <1>2, <1>6, RecoverEmpty
  <2>2. CASE ~connected
    BY <2>2, <1>6
  <2> QED
    BY <2>1, <2>2
<1>8. ~connected => d = c
  OBVIOUS
<1> HIDE DEF d
<1>9. d.obj <= MaxOpens
  BY <1>6, <1>7 DEF Sounds, Sound
<1>10. opens' \in 0..MaxOpens
  BY <1>1, <1>3
<1>11. /\ StreamOK' /\ WriterOK' /\ WireOK' /\ AsksOK' /\ ClientOK'
  BY <1>1, <1>7, <1>9, <1>10, ClientStep
<1>12. OffOK'
  <2>1. CASE connected
    BY <2>1, <1>1 DEF OffOK
  <2>2. CASE ~connected
    BY <2>2, <1>1, <1>6, <1>8, QuietIs
  <2> QED
    BY <2>1, <2>2 DEF IInv, OffOK
<1> QED
  BY <1>11, <1>12 DEF IInv

LEMMA LeaveInv ==
    ASSUME IInv, Leave
    PROVE  IInv'
<1> DEFINE e == IF client.sub = 0 THEN client ELSE sendUnsubscribe(client, client.sub)
           f == [e EXCEPT !.obj = 0]
           d == Holds(f, NewObject)
<1>1. /\ Becomes(d)
      /\ UNCHANGED <<stream, boot, subs, w, wire, connected, opens>>
  BY DEF Leave, serverVars, counters
<1>2. client \in Sounds(Epoch, Ahead, Asks, Positions, client) /\ client \in Clients
      /\ Setting(Epoch, Ahead, Asks, Positions) /\ client.out = <<>>
      /\ opens \in 0..MaxOpens
  BY ClientIs
<1>3. e \in Sounds(Epoch, Ahead, Asks, Positions, client)
  <2>1. client.sub \in Nat
    BY <1>2 DEF Clients
  <2> QED
    BY <2>1, <1>2, UnsubscribeSound
<1>4. ~connected => e = client
  BY DEF IInv, OffOK
<1> HIDE DEF e
<1>5. e \in Clients
  BY <1>3 DEF Sounds
<1>6. f \in Clients /\ f.cursor = e.cursor /\ f.copy = e.copy /\ f.out = e.out /\ f.obj = 0
  BY <1>5 DEF Clients
<1> HIDE DEF f
<1>7. /\ d \in Clients /\ d.cursor = e.cursor /\ d.copy = e.copy /\ d.out = e.out
      /\ d.held = <<>> /\ d.sub = 0 /\ d.obj = 0
  BY <1>6, StartsIs
<1> HIDE DEF d
<1>8. d \in Sounds(Epoch, Ahead, Asks, Positions, d)
  BY <1>3, <1>7, ObjectSound
<1>9. d.obj <= MaxOpens /\ opens' \in 0..MaxOpens
  BY <1>1, <1>2, <1>7, SyncAssumption
<1>10. /\ StreamOK' /\ WriterOK' /\ WireOK' /\ AsksOK' /\ ClientOK'
  BY <1>1, <1>8, <1>9, ClientStep
<1>11. OffOK'
  <2>1. CASE connected
    BY <2>1, <1>1 DEF OffOK
  <2>2. CASE ~connected
    BY <2>2, <1>1, <1>2, <1>4, <1>7, QuietIs
  <2> QED
    BY <2>1, <2>2 DEF IInv, OffOK
<1> QED
  BY <1>10, <1>11 DEF IInv

LEMMA ConnectInv ==
    ASSUME IInv, Connect
    PROVE  IInv'
<1> DEFINE d == IF client.obj = 0 THEN client ELSE recover(client, <<>>)
<1>1. /\ Becomes(d) /\ connected' = TRUE
      /\ UNCHANGED <<stream, boot, subs, w, wire, opens>>
  BY DEF Connect, serverVars, counters
<1>2. d \in Sounds(Epoch, Ahead, Asks, Positions, client)
  BY ClientIs, RecoverEmpty
<1> HIDE DEF d
<1>3. d.obj <= MaxOpens /\ opens' \in 0..MaxOpens
  BY <1>1, <1>2, ClientIs DEF Sounds, Sound
<1>4. /\ StreamOK' /\ WriterOK' /\ WireOK' /\ AsksOK' /\ ClientOK'
  BY <1>1, <1>2, <1>3, ClientStep
<1>5. OffOK'
  BY <1>1 DEF OffOK
<1> QED
  BY <1>4, <1>5 DEF IInv

\* Every position outlives the server process.
LEMMA RestartIs ==
    ASSUME StreamOK, stream' = stream, boot' = boot \/ boot' = boot + 1
    PROVE  /\ StreamOK' /\ Positions \subseteq Positions'
           /\ \A x \in Positions : Behind(Epoch', {stream.head}, x)
<1>1. /\ boot \in Nat \ {0} /\ boot' \in Nat \ {0} /\ boot <= boot' /\ stream.head \in Nat
      /\ stream \in [epoch : 0..boot, head : 0..MaxHead, oldest : 0..MaxHead]
  BY EpochIs DEF StreamOK
<1>2. stream \in [epoch : 0..boot', head : 0..MaxHead, oldest : 0..MaxHead]
  BY <1>1
<1>3. StreamOK'
  BY <1>1, <1>2 DEF StreamOK
<1>4. Epoch' = Epoch \/ (stream.head = 0 /\ Epoch = boot /\ Epoch' = boot + 1)
  BY <1>1 DEF Epoch, StreamOK
<1>5. ASSUME NEW x \in Positions
      PROVE  /\ x \in CursorSet /\ x.epoch <= boot' /\ (x.epoch = Epoch' => x.seq <= stream.head)
             /\ (x.epoch # Epoch' => x.seq = 0)
  <2>1. /\ x \in CursorSet /\ x.epoch \in Nat /\ x.seq \in Nat /\ x.epoch <= boot
        /\ (x.epoch = Epoch => x.seq <= stream.head) /\ (x.epoch # Epoch => x.seq = 0)
    BY DEF Positions, CursorSet
  <2>2. CASE Epoch' = Epoch
    BY <2>1, <2>2, <1>1
  <2>3. CASE stream.head = 0 /\ Epoch = boot /\ Epoch' = boot + 1
    BY <2>1, <2>3, <1>1
  <2> QED
    BY <2>2, <2>3, <1>4
<1> QED
  BY <1>3, <1>5 DEF Positions, Behind

LEMMA DisconnectInv ==
    ASSUME IInv, Disconnect, boot' = boot \/ boot' = boot + 1
    PROVE  IInv'
<1> DEFINE d == Holds(client, [NewObject EXCEPT !.unanchored = client.unanchored])
<1>1. /\ connected' = FALSE /\ subs' = <<>> /\ w' = NewWriter /\ wire' = <<>> /\ up' = <<>>
      /\ client' = d /\ UNCHANGED <<stream, opens>>
  BY DEF Disconnect
<1>2. /\ client \in Clients /\ Sound(Epoch, Ahead, Asks, Positions, client, client)
      /\ client.out = <<>> /\ client.obj <= MaxOpens /\ opens \in 0..MaxOpens
  BY ClientIs DEF Sounds
<1>3. /\ d \in Clients /\ d.thread = client.thread /\ d.obj = client.obj
      /\ d.cursor = client.cursor /\ d.copy = client.copy /\ d.out = client.out
      /\ d.held = <<>> /\ d.sub = 0
  BY <1>2, HoldsIs DEF Clients
<1> HIDE DEF d
<1>4. /\ StreamOK' /\ Positions \subseteq Positions'
      /\ \A x \in Positions : Behind(Epoch', {stream.head}, x)
  BY <1>1, RestartIs DEF IInv
<1>5. ToSet(<<>>) = {} /\ <<>> \in Seq(FrameSet) /\ <<>> \in Seq(Nat) /\ <<>> \in Seq(Commands)
      /\ Len(<<>>) = 0 /\ DOMAIN <<>> = {}
  BY EmptySeq DEF ToSet
<1>6. ToSet(NewWriter.queue) = {} /\ NewWriter \in SoundWriters(GoodFrames', {})
  BY <1>5, NewWriterSound, SyncAssumption
<1>7. WriterOK'
  BY <1>1, <1>5, <1>6 DEF WriterOK, IsInjective
<1>8. WireOK'
  BY <1>1, <1>5, <1>6, SyncAssumption DEF WireOK, Ordered
<1>9. OnWire' = {} /\ Asks' = {} /\ Ahead' = {stream.head}
  <2>1. OnWire' = {}
    BY <1>1, <1>5, <1>6 DEF OnWire
  <2> QED
    BY <2>1, <1>1, <1>5 DEF Asks, Ahead, Tos
<1>10. AsksOK'
  BY <1>1, <1>5, <1>9 DEF AsksOK
<1>11. Sound(Epoch', {stream.head}, {}, Positions', d, d)
  <2>1. d.cursor \in Positions /\ d.copy \in Positions \cup {Broken}
    BY <1>2, <1>3 DEF Sound
  <2>2. Forward(d.cursor, d.cursor)
    BY <1>3 DEF Forward, Clients, CursorSet
  <2>3. d.cursor # NoCursor => d.copy = d.cursor
    BY <1>2, <1>3 DEF Sound
  <2>4. DOMAIN d.held = {} /\ DOMAIN d.out = {}
    BY <1>2, <1>3, <1>5
  <2> QED
    BY <2>1, <2>2, <2>3, <2>4, <1>3, <1>4 DEF Sound
<1>12. ClientOK'
  BY <1>1, <1>2, <1>3, <1>9, <1>11 DEF ClientOK, Sounds
<1>13. OffOK'
  BY <1>1, <1>3 DEF OffOK
<1> QED
  BY <1>4, <1>7, <1>8, <1>10, <1>12, <1>13 DEF IInv

LEMMA InitInv ==
    ASSUME Init
    PROVE  IInv
<1>1. PICK thread \in BOOLEAN :
         client = [thread |-> thread, cursor |-> NoCursor, copy |-> NoCursor, obj |-> 0,
                   sub |-> 0, inflight |-> FALSE, recovery |-> FALSE, holding |-> FALSE,
                   held |-> <<>>, unanchored |-> NoCursor, out |-> <<>>]
  BY DEF Init
<1>2. /\ stream = [epoch |-> 0, head |-> 0, oldest |-> 0] /\ boot = 1
      /\ subs = <<>> /\ w = NewWriter /\ wire = <<>> /\ up = <<>>
      /\ connected = FALSE /\ opens = 0
  BY DEF Init
<1>3. stream.epoch = 0 /\ stream.head = 0 /\ stream.oldest = 0
  BY <1>2
<1>4. StreamOK /\ Epoch = 1
  <2>1. stream \in [epoch : 0..boot, head : 0..MaxHead, oldest : 0..MaxHead]
    BY <1>2, SyncAssumption
  <2> QED
    BY <2>1, <1>2, <1>3 DEF StreamOK, Epoch
<1>5. ToSet(<<>>) = {} /\ <<>> \in Seq(FrameSet) /\ <<>> \in Seq(Nat) /\ <<>> \in Seq(Commands)
      /\ <<>> \in Seq(Entries) /\ Len(<<>>) = 0 /\ DOMAIN <<>> = {}
  BY EmptySeq DEF ToSet
<1>6. ToSet(NewWriter.queue) = {} /\ NewWriter \in SoundWriters(GoodFrames, {})
  BY <1>5, NewWriterSound, SyncAssumption
<1>7. WriterOK
  BY <1>2, <1>5, <1>6 DEF WriterOK, IsInjective
<1>8. WireOK
  BY <1>2, <1>5, <1>6, SyncAssumption DEF WireOK, Ordered
<1>9. OnWire = {} /\ Asks = {} /\ Ahead = {stream.head}
  <2>1. OnWire = {}
    BY <1>2, <1>5, <1>6 DEF OnWire
  <2> QED
    BY <2>1, <1>2, <1>5 DEF Asks, Ahead, Tos
<1>10. AsksOK
  BY <1>2, <1>5, <1>9 DEF AsksOK
<1>11. /\ client \in Clients /\ client.cursor = NoCursor /\ client.copy = NoCursor
       /\ client.held = <<>> /\ client.out = <<>> /\ client.obj = 0 /\ client.sub = 0
  BY <1>1, <1>5, NoCursorIs DEF Clients
<1>12. NoCursor \in Positions
  BY <1>2, <1>3, <1>4, NoCursorIs DEF Positions
<1>13. Sound(Epoch, {stream.head}, {}, Positions, client, client)
  BY <1>4, <1>5, <1>11, <1>12, NoCursorIs DEF Sound, Forward, Behind
<1>14. ClientOK
  BY <1>2, <1>9, <1>11, <1>13, SyncAssumption DEF ClientOK, Sounds
<1>15. OffOK
  BY <1>2, <1>11 DEF OffOK
<1> QED
  BY <1>4, <1>7, <1>8, <1>10, <1>14, <1>15 DEF IInv

LEMMA StutterInv ==
    ASSUME IInv, UNCHANGED vars
    PROVE  IInv'
<1>1. UNCHANGED <<stream, boot, subs, w, wire, up, connected, client, opens>>
  BY DEF vars, serverVars, connection, counters
<1>2. Epoch' = Epoch
  BY <1>1 DEF Epoch
<1>3. Positions' = Positions /\ GoodFrames' = GoodFrames /\ OnWire' = OnWire
  BY <1>1, <1>2, PositionsNow, PositionsPrime DEF OnWire, PositionsAt, FramesAt
<1>4. Ahead' = Ahead /\ Asks' = Asks
  BY <1>1, <1>3 DEF Ahead, Tos, Asks
<1> QED
  BY <1>1, <1>2, <1>3, <1>4 DEF IInv, StreamOK, WriterOK, WireOK, AsksOK, ClientOK, OffOK

LEMMA NextInv ==
    ASSUME IInv, [Next]_vars
    PROVE  IInv'
<1>1. CASE Publish \/ PublishTransient \/ Prune
  BY <1>1, PublishInv, PublishTransientInv, PruneInv
<1>2. CASE Write
  BY <1>2, WriteInv
<1>3. CASE CatchUp
  BY <1>3, CatchUpInv
<1>4. CASE Handle
  BY <1>4, HandleReplayInv, RefuseReplayInv, HandleSubscribeInv, HandleUnsubscribeInv DEF Handle
<1>5. CASE Receive
  BY <1>5, ReceiveInv
<1>6. CASE Open \/ Leave
  BY <1>6, OpenInv, LeaveInv
<1>7. CASE Connect
  BY <1>7, ConnectInv
<1>8. CASE LoseConnection
  BY <1>8, DisconnectInv DEF LoseConnection
<1>9. CASE RestartServer
  BY <1>9, DisconnectInv DEF RestartServer
<1>10. CASE UNCHANGED vars
  BY <1>10, StutterInv
<1> QED
  BY <1>1, <1>2, <1>3, <1>4, <1>5, <1>6, <1>7, <1>8, <1>9, <1>10 DEF Next

-----------------------------------------------------------------------------
(* Theorems.                                                               *)

\* The invariant is inductive: what is on its way between the server and the
\* client is in order, and what the client holds leads up to it.
THEOREM Inductive == Spec => []IInv
<1>1. Init => IInv
  BY InitInv
<1>2. IInv /\ [Next]_vars => IInv'
  BY NextInv
<1> QED
  BY <1>1, <1>2, PTL DEF Spec

\* Every variable has its type, whatever the bounds: the queue and the window
\* are never overrun, ids are not given out twice, and the writer's records are
\* about registrations there are (connection-writer.ts, websocket.ts).
THEOREM TypeCorrect == Spec => []TypeOK
<1>1. IInv => TypeOK
  <2> SUFFICES ASSUME IInv PROVE TypeOK
    OBVIOUS
  <2>1. StreamOK /\ WriterOK /\ WireOK /\ ClientOK /\ OffOK
    BY DEF IInv
  <2>2. stream \in [epoch : 0..boot, head : 0..MaxHead, oldest : 0..MaxHead]
    BY <2>1 DEF StreamOK
  <2>3. Positions \subseteq Cursors
    <3> SUFFICES ASSUME NEW x \in Positions PROVE x \in Cursors
      OBVIOUS
    <3>1. /\ x \in CursorSet /\ x.epoch \in 0..boot /\ stream.head <= MaxHead /\ stream.head \in Nat
          /\ boot \in Nat /\ (x.epoch = Epoch => x.seq <= stream.head) /\ (x.epoch # Epoch => x.seq = 0)
      BY <2>1, <2>2, EpochIs, SyncAssumption DEF Positions, CursorSet
    <3>2. x.seq \in 0..MaxHead
      BY <3>1, SyncAssumption DEF CursorSet
    <3> QED
      BY <3>1, <3>2 DEF CursorSet, Cursors
  <2>4. /\ client \in Clients /\ client.cursor \in Positions /\ client.copy \in Positions \cup {Broken}
        /\ client.held # <<>> => client.holding
    BY <2>1 DEF ClientOK, Sounds, Sound
  <2>5. client.obj \in 0..MaxOpens /\ client.out = <<>>
    BY <2>1, <2>4, SyncAssumption DEF ClientOK, Clients
  <2>6. /\ DOMAIN w.promised \subseteq ToSet(subs) /\ DOMAIN w.lagging \subseteq ToSet(subs)
        /\ w.queue \in Seq(FrameSet) /\ Len(Only(w.queue, LiveSet)) <= Backlog
    BY <2>1 DEF WriterOK, SoundWriters, SoundWriter, Writers
  <2>7. QueuedCount(w) <= Backlog
    BY <2>6, CountIs DEF QueuedCount
  <2> QED
    BY <2>1, <2>2, <2>3, <2>4, <2>5, <2>6, <2>7 DEF TypeOK, WriterOK, WireOK, OffOK
<1> QED
  BY <1>1, Inductive, PTL

\* state.ts:721-725, docs/sync-foundations.md I5: through gaps, catch-ups, lost
\* connections and restarts, a cursor the client keeps names the last of the
\* records its copy holds, each folded in once and in order.
THEOREM CursorIsKept == Spec => []CursorDescribesCopy
<1>1. IInv => CursorDescribesCopy
  <2> SUFFICES ASSUME IInv, client.cursor # NoCursor PROVE CursorDescribesCopy
    BY DEF CursorDescribesCopy
  <2>1. /\ client.cursor \in Positions /\ client.copy = client.cursor
    BY ClientIs DEF Sounds, Sound
  <2>2. stream.head \in Nat /\ stream.head >= 0
    BY EpochIs DEF IInv
  <2>3. CASE stream.epoch = 0
    <3>1. Epoch # 0
      BY EpochIs DEF IInv
    <3> QED
      BY <2>1, <2>2, <2>3, <3>1 DEF CursorDescribesCopy, Positions
  <2>4. CASE stream.epoch # 0
    BY <2>1, <2>4 DEF CursorDescribesCopy, Positions, Epoch
  <2> QED
    BY <2>3, <2>4
<1> QED
  BY <1>1, Inductive, PTL

-----------------------------------------------------------------------------
(* The steps of Replica.                                                   *)

CopyOf ==
    IF client.cursor = NoCursor THEN None
    ELSE IF client.copy = client.cursor THEN client.copy.seq
    ELSE stream.head + 1

LEMMA CopyIs ==
    ASSUME IInv
    PROVE  /\ client.cursor # NoCursor => CopyOf = client.cursor.seq /\ CopyOf \in 0..stream.head
           /\ client.cursor = NoCursor => CopyOf = None
           /\ stream.head \in Nat
<1>1. /\ client.cursor \in Positions
      /\ client.cursor # NoCursor => client.copy = client.cursor
  BY ClientIs DEF Sounds, Sound
<1>2. stream.head \in Nat
  BY EpochIs DEF IInv
<1>3. client.cursor.seq \in 0..stream.head
  BY <1>1, <1>2 DEF Positions, CursorSet
<1> QED
  BY <1>1, <1>2, <1>3 DEF CopyOf

LEMMA CopyNext ==
    ASSUME IInv'
    PROVE  /\ client'.cursor # NoCursor =>
                 CopyOf' = client'.cursor.seq /\ CopyOf' \in 0..stream'.head
           /\ stream'.head \in Nat
<1>1. /\ client'.cursor \in Positions'
      /\ client'.cursor # NoCursor => client'.copy = client'.cursor
  BY DEF IInv, ClientOK, Sounds, Sound
<1>2. stream'.head \in Nat
  BY SyncAssumption DEF IInv, StreamOK
<1>3. client'.cursor.seq \in 0..stream'.head
  BY <1>1, <1>2 DEF Positions, CursorSet
<1> QED
  BY <1>1, <1>2, <1>3 DEF CopyOf

\* The copy moves forward, or is let go of.
LEMMA RefreshStep ==
    ASSUME IInv, IInv', stream'.head = stream.head, Forward(client.cursor, client'.cursor)
    PROVE  Replicated!Next
<1>1. /\ client.cursor # NoCursor => CopyOf = client.cursor.seq
      /\ client.cursor = NoCursor => CopyOf = None
  BY CopyIs
<1>2. CASE client'.cursor = NoCursor
  <2>1. CopyOf' = None
    BY <1>2 DEF CopyOf
  <2>2. Replicated!Forget
    BY <2>1 DEF Replicated!Forget, CopyOf
  <2> QED
    BY <2>2 DEF Replicated!Next
<1>3. CASE client'.cursor # NoCursor
  <2>1. CopyOf' = client'.cursor.seq /\ CopyOf' \in 0..stream.head
    BY <1>3, CopyNext
  <2>2. CopyOf # None => CopyOf' >= CopyOf
    BY <1>1, <1>3, <2>1 DEF Forward
  <2>3. Replicated!Refresh
    BY <2>1, <2>2 DEF Replicated!Refresh, CopyOf
  <2> QED
    BY <2>3 DEF Replicated!Next
<1> QED
  BY <1>2, <1>3

\* The scope has more records, and the copy is left alone.
LEMMA PublishStep ==
    ASSUME IInv, IInv', stream'.head >= stream.head, client' = client
    PROVE  Replicated!Next
<1>1. stream.head \in Nat /\ stream'.head \in Nat
  BY CopyIs, CopyNext
<1>2. CASE stream'.head = stream.head
  <2>1. Forward(client.cursor, client'.cursor)
    BY ClientIs DEF Forward, Clients, CursorSet
  <2> QED
    BY <2>1, <1>2, RefreshStep
<1>3. CASE stream'.head # stream.head
  <2>1. CopyOf' = CopyOf
    <3>1. CASE client.cursor = NoCursor
      BY <3>1 DEF CopyOf
    <3>2. CASE client.cursor # NoCursor
      BY <3>2, CopyIs, CopyNext
    <3> QED
      BY <3>1, <3>2
  <2>2. Replicated!Publish
    BY <1>1, <1>3, <2>1 DEF Replicated!Publish, CopyOf
  <2> QED
    BY <2>2 DEF Replicated!Next
<1> QED
  BY <1>2, <1>3

\* A step of Sync is one of the two.
LEMMA StepIs ==
    ASSUME IInv, [Next]_vars
    PROVE  \/ stream'.head >= stream.head /\ client' = client
           \/ stream'.head = stream.head /\ Forward(client.cursor, client'.cursor)
<1>0. stream.head \in Nat /\ client \in Clients /\ client.cursor \in CursorSet
      /\ Forward(client.cursor, client.cursor)
  BY EpochIs, ClientIs DEF IInv, Forward, Clients, CursorSet
<1>1. CASE Publish
  <2>1. stream.head + 1 <= MaxHead /\ stream' = Longer(1) /\ client' = client
    BY <1>1, <1>0, SyncAssumption DEF Publish
  <2>2. Longer(1).head = stream.head + 1
    BY <2>1, <1>0, LongerGrows DEF IInv
  <2> QED
    BY <2>1, <2>2, <1>0
<1>2. CASE PublishTransient \/ Write \/ RefuseReplay \/ HandleUnsubscribe \/ UNCHANGED vars
  BY <1>0, <1>2 DEF PublishTransient, Write, RefuseReplay, HandleUnsubscribe, serverVars, vars
<1>3. CASE Prune
  <2>1. stream \in [epoch : 0..boot, head : 0..MaxHead, oldest : 0..MaxHead]
    BY DEF IInv, StreamOK
  <2> QED
    BY <2>1, <1>0, <1>3 DEF Prune
<1>4. CASE CatchUp \/ HandleReplay \/ HandleSubscribe
  <2>1. stream' \in StreamsNow /\ client' = client
    BY <1>4 DEF CatchUp, HandleReplay, HandleSubscribe
  <2>2. Grows(stream')
    <3> DEFINE s == stream'
    <3>1. s \in StreamsNow
      BY <2>1
    <3> HIDE DEF s
    <3>2. Grows(s)
      BY <3>1, StreamsNowGrow DEF IInv
    <3> QED
      BY <3>2 DEF s
  <2> QED
    BY <2>1, <2>2 DEF Grows
<1>5. CASE Receive
  <2> DEFINE c == handleMessage(client, Head(wire))
  <2>1. wire # <<>> /\ client' = [c EXCEPT !.out = <<>>] /\ stream' = stream
    BY <1>5 DEF Receive, Becomes, serverVars
  <2>2. c \in Clients /\ Forward(client.cursor, c.cursor)
    BY <2>1, HandledIs DEF Sounds, Sound
  <2> HIDE DEF c
  <2>3. client'.cursor = c.cursor
    BY <2>1, <2>2 DEF Clients
  <2> QED
    BY <2>1, <2>2, <2>3
<1>6. CASE Open
  <2> DEFINE new == [Holds(client, NewObject) EXCEPT !.obj = opens + 1]
             c == IF client.obj # 0 THEN client ELSE new
             d == IF connected THEN recover(c, <<>>) ELSE c
  <2>1. client' = [d EXCEPT !.out = <<>>] /\ stream' = stream
    BY <1>6 DEF Open, Becomes, serverVars
  <2>2. c.cursor = client.cursor
    BY <1>0 DEF Holds, Clients
  <2>3. d.cursor = c.cursor
    BY <1>0 DEF recover, send, Holds, Clients
  <2> HIDE DEF c, d
  <2>4. client'.cursor = d.cursor
    BY <2>1
  <2> QED
    BY <2>1, <2>2, <2>3, <2>4, <1>0
<1>7. CASE Leave
  <2>1. client'.cursor = client.cursor /\ stream' = stream
    BY <1>0, <1>7 DEF Leave, Becomes, Holds, sendUnsubscribe, send, Clients, serverVars
  <2> QED
    BY <2>1, <1>0
<1>8. CASE Connect
  <2>1. client'.cursor = client.cursor /\ stream' = stream
    BY <1>0, <1>8 DEF Connect, Becomes, recover, send, Clients, serverVars
  <2> QED
    BY <2>1, <1>0
<1>9. CASE LoseConnection \/ RestartServer
  <2>1. client'.cursor = client.cursor /\ stream' = stream
    BY <1>0, <1>9 DEF LoseConnection, RestartServer, Disconnect, Holds, NewObject, Clients
  <2> QED
    BY <2>1, <1>0
<1> QED
  BY <1>1, <1>2, <1>3, <1>4, <1>5, <1>6, <1>7, <1>8, <1>9 DEF Next, Handle

\* docs/sync-foundations.md I5: the safety of synchronisation.  The client's
\* copy is at all times a state the scope has been in, and it never goes back
\* unless it is let go of.
THEOREM CopyIsAReplica ==
    Spec => Replicated!Init /\ [][Replicated!Next]_(Replicated!vars)
<1>1. Init => Replicated!Init
  <2> SUFFICES ASSUME Init PROVE Replicated!Init
    OBVIOUS
  <2>1. client.cursor = NoCursor
    <3>1. PICK thread \in BOOLEAN :
             client = [thread |-> thread, cursor |-> NoCursor, copy |-> NoCursor, obj |-> 0,
                       sub |-> 0, inflight |-> FALSE, recovery |-> FALSE, holding |-> FALSE,
                       held |-> <<>>, unanchored |-> NoCursor, out |-> <<>>]
      BY DEF Init
    <3> QED
      BY <3>1
  <2>2. stream.head = 0
    BY DEF Init
  <2> QED
    BY <2>1, <2>2 DEF Replicated!Init
<1>2. IInv /\ IInv' /\ [Next]_vars => [Replicated!Next]_(Replicated!vars)
  <2> SUFFICES ASSUME IInv, IInv', [Next]_vars PROVE Replicated!Next
    OBVIOUS
  <2> QED
    BY StepIs, RefreshStep, PublishStep
<1> QED
  BY <1>1, <1>2, Inductive, PTL DEF Spec
=============================================================================
