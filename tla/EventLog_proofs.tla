--------------------------- MODULE EventLog_proofs ---------------------------
(***************************************************************************)
(* Proofs about the durable event log, for every number of scopes, ids,    *)
(* sequences, processes and formats, and every retention policy.           *)
(*                                                                         *)
(* The invariant says the same of the tables as the connection sees them   *)
(* and, while a transaction is open, of the tables as they are on disk:    *)
(* a rollback, a kill and a commit all land on tables that are sound.      *)
(***************************************************************************)
EXTENDS EventLog, FiniteSetTheorems, TLAPS

LowOf(t) == IF t.oldest = 0 THEN t.head + 1 ELSE t.oldest

\* The stream of each scope is in order; `top` is the last sequence written.
Ordered(str, top) ==
    \A s \in Scopes : str[s].oldest <= str[s].head /\ str[s].floor <= str[s].head
                      /\ str[s].head <= top[s]

Contiguous(rws, str, top) ==
    \A s \in Scopes, n \in 1..MaxHead :
       (\E r \in rws : r.scope = s /\ r.seq = n) <=> (LowOf(str[s]) <= n /\ n <= top[s])

TombsBelow(tmb, str) == \A t \in tmb : t.seq < LowOf(str[t.scope])

Unique(all) ==
    \A r, q \in all : r.id = q.id \/ (r.scope = q.scope /\ r.seq = q.seq) => r = q

\* What replay may still serve is in the present format.
Readable(rws, str) == \A r \in rws : r.seq > str[r.scope].floor => r.format = format

Typed(rws, tmb, str) ==
    rws \subseteq Rows /\ tmb \subseteq Tombs /\ str \in [Scopes -> Streams]

Sound(rws, tmb, str, top) ==
    /\ Typed(rws, tmb, str)
    /\ Ordered(str, top)
    /\ Contiguous(rws, str, top)
    /\ TombsBelow(tmb, str)
    /\ Unique(rws \cup tmb)
    /\ Readable(rws, str)

Tops == [s \in Scopes |-> Top(s)]
Heads(str) == [s \in Scopes |-> str[s].head]

\* The rest of the state.
Others ==
    /\ open \in BOOLEAN
    /\ group \in Scopes \cup {None}
    /\ group # None => open
    /\ head \in 0..MaxHead
    /\ records \subseteq Records
    /\ clock \in 0..MaxTime
    /\ boot \in 1..MaxBoots
    /\ format \in 1..MaxFormat
    /\ heard \subseteq Records
    /\ forgotten \subseteq Ids

\* The inductive invariant.
IInv ==
    /\ Others
    /\ Sound(rows, tombs, streams, Tops)
    /\ Typed(saved.rows, saved.tombs, saved.streams)
    /\ open => Sound(saved.rows, saved.tombs, saved.streams, Heads(saved.streams))

-----------------------------------------------------------------------------
(* The steps of a transaction.                                             *)

\* Between groups the last sequence written is the head of each stream.
LEMMA NoGroup == group = None => Tops = Heads(streams)
  BY EventLogAssumption DEF Tops, Heads, Top

\* An empty log satisfies the invariant.
LEMMA InitSound == Init => IInv
<1> SUFFICES ASSUME Init PROVE IInv
  OBVIOUS
<1>1. Others
  <2>1. 0 \in 0..MaxHead /\ 0 \in 0..MaxTime /\ 1 \in 1..MaxBoots /\ 1 \in 1..MaxFormat
    BY EventLogAssumption
  <2> QED
    BY <2>1 DEF Init, Others
<1>2. Tops = Heads(streams)
  BY NoGroup DEF Init
<1>3. Sound(rows, tombs, streams, Heads(streams))
  BY EventLogAssumption DEF Init, NoStream, Sound, Typed, Ordered, Contiguous,
     TombsBelow, Unique, Readable, Heads, LowOf, Streams
<1> QED
  BY <1>1, <1>2, <1>3 DEF Init, IInv, Sound, Typed

\* BEGIN IMMEDIATE: what is saved is the tables as they are.
LEMMA BeginSound == IInv /\ Begin => IInv'
<1> SUFFICES ASSUME IInv, Begin PROVE IInv'
  OBVIOUS
<1>1. group = None
  BY DEF IInv, Others, Begin
<1>2. Others'
  BY DEF IInv, Others, Begin, process, history
<1>3. Sound(rows, tombs, streams, Heads(streams))
  BY <1>1, NoGroup DEF IInv
<1>4. Sound(rows, tombs, streams, Tops)'
  BY DEF IInv, Begin, tables, process, Sound, Typed, Ordered, Contiguous,
     TombsBelow, Unique, Readable, Tops, Top
<1>5. Sound(saved.rows, saved.tombs, saved.streams, Heads(saved.streams))'
  BY <1>3 DEF Begin, process, Sound, Typed, Ordered, Contiguous, TombsBelow, Unique,
     Readable, Heads
<1> QED
  BY <1>2, <1>4, <1>5 DEF IInv, Sound

\* A stream gets an epoch, if it has none, and nothing else of it changes.
LEMMA EnsureStreamSound ==
  ASSUME IInv, NEW s \in Scopes, ensureStream(s) PROVE IInv'
<1>1. Others'
  BY EventLogAssumption DEF IInv, Others, ensureStream, Sound, Typed, Streams, process, history
<1>2. \A t \in Scopes : /\ streams'[t].head = streams[t].head
                        /\ streams'[t].oldest = streams[t].oldest
                        /\ streams'[t].floor = streams[t].floor
  BY DEF IInv, ensureStream, Sound, Typed, Streams
<1>3. Tops' = Tops
  BY <1>2, EventLogAssumption DEF ensureStream, Tops, Top
<1>4. streams' \in [Scopes -> Streams]
  BY DEF IInv, Others, ensureStream, Sound, Typed, Streams
<1>5. Sound(rows, tombs, streams, Tops)'
  <2>1. Typed(rows, tombs, streams)'
    BY <1>4 DEF IInv, ensureStream, Sound, Typed
  <2>2. Ordered(streams, Tops)' /\ Contiguous(rows, streams, Tops)'
    BY <1>2, <1>3 DEF IInv, ensureStream, Sound, Ordered, Contiguous, LowOf
  <2>3. TombsBelow(tombs, streams)' /\ Readable(rows, streams)'
    BY <1>2 DEF IInv, ensureStream, process, Sound, Typed, TombsBelow, Readable, LowOf,
       Rows, Tombs
  <2> QED
    BY <2>1, <2>2, <2>3 DEF IInv, ensureStream, Sound, Unique
<1> QED
  BY <1>1, <1>5 DEF IInv, ensureStream, process, Sound, Readable

\* An event answered from the tables leaves them alone.
LEMMA AnswerAgainSound ==
  ASSUME IInv, NEW id \in Ids, NEW at \in 0..clock, AnswerAgain(id, at) PROVE IInv'
<1>1. Others'
  BY DEF IInv, Others, AnswerAgain, Answered, Record, Records, Sound, Typed, Rows, Tombs,
     Streams, tables, process, history
<1>2. Tops' = Tops
  BY DEF AnswerAgain, tables, Tops, Top
<1> QED
  BY <1>1, <1>2 DEF IInv, AnswerAgain, tables, process, Sound, Readable

\* An insertion takes the next sequence of the group's stream, for an id that
\* neither the log nor the tombstones hold.
LEMMA InsertEventSound ==
  ASSUME IInv, NEW id \in Ids, NEW at \in 0..clock, insertEvent(id, at) PROVE IInv'
<1> DEFINE new == [scope |-> group, seq |-> head + 1, id |-> id, at |-> at, format |-> format]
<1>1. group \in Scopes /\ Tops[group] = head
  BY DEF IInv, Others, insertEvent, Tops, Top
<1>2. new \in Rows /\ rows' = rows \cup {new}
  BY <1>1, EventLogAssumption DEF IInv, Others, insertEvent, Rows
<1>3. Others'
  BY <1>1, EventLogAssumption DEF IInv, Others, insertEvent, Record, Records, Sound,
     Typed, Streams, process, history
<1>4. Tops'[group] = head + 1 /\ \A t \in Scopes \ {group} : Tops'[t] = Tops[t]
  BY <1>1 DEF insertEvent, Tops, Top
<1>5. LowOf(streams[group]) <= head + 1
  BY <1>1 DEF IInv, Others, Sound, Typed, Ordered, LowOf, Streams
<1>6. Sound(rows, tombs, streams, Tops)'
  <2>1. Typed(rows, tombs, streams)'
    BY <1>2 DEF IInv, insertEvent, Sound, Typed
  <2>2. Ordered(streams, Tops)'
    BY <1>1, <1>4 DEF IInv, Others, insertEvent, Sound, Ordered, Typed, Streams
  <2>3. Contiguous(rows, streams, Tops)'
    <3> SUFFICES ASSUME NEW s \in Scopes, NEW n \in 1..MaxHead
                 PROVE (\E r \in rows' : r.scope = s /\ r.seq = n)
                          <=> (LowOf(streams[s]) <= n /\ n <= Tops'[s])
      BY DEF insertEvent, Contiguous
    <3>1. (\E r \in rows : r.scope = s /\ r.seq = n)
             <=> (LowOf(streams[s]) <= n /\ n <= Tops[s])
      BY DEF IInv, Sound, Contiguous
    <3>2. CASE s = group
      BY <3>1, <3>2, <1>1, <1>2, <1>4, <1>5 DEF IInv, Others
    <3>3. CASE s # group
      BY <3>1, <3>3, <1>2, <1>4
    <3> QED
      BY <3>2, <3>3
  <2>4. TombsBelow(tombs, streams)'
    BY DEF IInv, insertEvent, Sound, TombsBelow
  <2>5. Unique(rows \cup tombs)'
    <3>1. \A r \in rows : r.scope = group => r.seq <= head
      <4> SUFFICES ASSUME NEW r \in rows, r.scope = group PROVE r.seq <= head
        OBVIOUS
      <4>1. r.seq \in 1..MaxHead
        BY DEF IInv, Sound, Typed, Rows
      <4> QED
        BY <4>1, <1>1 DEF IInv, Sound, Contiguous
    <3>2. \A t \in tombs : t.scope = group => t.seq <= head
      BY <1>1, <1>5 DEF IInv, Others, Sound, Typed, TombsBelow, Tombs, LowOf, Streams
    <3>3. \A r \in rows \cup tombs : r.id # id /\ ~(r.scope = group /\ r.seq = head + 1)
      BY <3>1, <3>2 DEF IInv, Others, insertEvent, Taken
    <3> QED
      BY <3>3, <1>2 DEF IInv, insertEvent, Sound, Unique
  <2>6. Readable(rows, streams)'
    BY <1>2 DEF IInv, insertEvent, process, Sound, Readable
  <2> QED
    BY <2>1, <2>2, <2>3, <2>4, <2>5, <2>6 DEF Sound
<1> QED
  BY <1>3, <1>6 DEF IInv, insertEvent, process, Sound, Readable

\* The stream's head catches up with the rows written, and its range starts at
\* the first of them when it was empty.
LEMMA AdvanceHeadSound == IInv /\ advanceHead => IInv'
<1> SUFFICES ASSUME IInv, advanceHead PROVE IInv'
  OBVIOUS
<1>1. /\ group \in Scopes /\ Tops[group] = head
      /\ streams \in [Scopes -> Streams] /\ head \in 0..MaxHead
  BY DEF IInv, Others, Sound, Typed, advanceHead, Tops, Top
<1>2. streams[group].head <= head
  BY <1>1 DEF IInv, Sound, Ordered
<1>3. /\ streams' \in [Scopes -> Streams]
      /\ \A s \in Scopes \ {group} : streams'[s] = streams[s]
      /\ streams'[group].head = head
      /\ streams'[group].floor = streams[group].floor
      /\ LowOf(streams'[group]) = LowOf(streams[group])
      /\ streams'[group].oldest <= head
  <2> DEFINE t == streams[group]
  <2>1. t \in Streams /\ t.oldest <= t.head
    BY <1>1 DEF IInv, Sound, Ordered
  <2>2. CASE head = t.head
    BY <2>1, <2>2, <1>1 DEF advanceHead
  <2>3. CASE head # t.head
    <3> DEFINE u == [epoch |-> t.epoch, head |-> head, oldest |-> LowOf(t), floor |-> t.floor]
    <3>1. t.head \in Nat /\ t.head < head
      BY <2>1, <2>3, <1>1, <1>2 DEF Streams
    <3>2. LowOf(t) \in 0..MaxHead /\ LowOf(t) <= head /\ LowOf(t) # 0
      BY <3>1, <2>1, <1>1, EventLogAssumption DEF Streams, LowOf
    <3>3. streams' = [streams EXCEPT ![group] = u]
      <4>1. Advanced(t, head) = u
        BY DEF Advanced, LowOf
      <4> QED
        BY <4>1, <2>3 DEF advanceHead
    <3>4. u \in Streams /\ u.head = head /\ u.floor = t.floor /\ LowOf(u) = LowOf(t)
      BY <3>2, <2>1, <1>1 DEF Streams, LowOf
    <3> QED
      BY <3>2, <3>3, <3>4, <1>1
  <2> QED
    BY <2>2, <2>3
<1>4. Tops' = Tops
  BY <1>1, <1>3, EventLogAssumption DEF advanceHead, Tops, Top
<1>5. Others'
  BY DEF IInv, Others, advanceHead, process, history
<1>6. Sound(rows, tombs, streams, Tops)'
  <2>1. Typed(rows, tombs, streams)'
    BY <1>3 DEF IInv, advanceHead, Sound, Typed
  <2>2. Ordered(streams, Tops)'
    BY <1>1, <1>2, <1>3, <1>4 DEF IInv, Sound, Ordered, Streams
  <2>3. \A s \in Scopes : /\ LowOf(streams'[s]) = LowOf(streams[s])
                          /\ streams'[s].floor = streams[s].floor
    BY <1>3
  <2>4. Contiguous(rows, streams, Tops)'
    BY <2>3, <1>4 DEF IInv, advanceHead, Sound, Contiguous
  <2>5. TombsBelow(tombs, streams)' /\ Readable(rows, streams)'
    BY <2>3 DEF IInv, advanceHead, process, Sound, Typed, TombsBelow, Readable, Rows, Tombs
  <2> QED
    BY <2>1, <2>2, <2>4, <2>5 DEF IInv, advanceHead, Sound, Unique
<1> QED
  BY <1>5, <1>6 DEF IInv, advanceHead, process, Sound, Readable

\* COMMIT changes no table.
LEMMA CommitSound == IInv /\ Commit => IInv'
<1> SUFFICES ASSUME IInv, Commit PROVE IInv'
  OBVIOUS
<1>1. Others'
  BY DEF IInv, Others, Commit, process
<1>2. Tops' = Tops
  BY DEF Commit, tables, Tops, Top
<1> QED
  BY <1>1, <1>2 DEF IInv, Commit, tables, process, Sound, Readable

\* A rollback brings back tables that were in order when they were saved.
LEMMA RollbackSound == IInv /\ Rollback => IInv'
<1> SUFFICES ASSUME IInv, Rollback PROVE IInv'
  OBVIOUS
<1>1. Others'
  BY DEF IInv, Others, Rollback, Restore, process, history
<1>2. Tops' = Heads(saved.streams)
  BY EventLogAssumption DEF Rollback, Restore, Tops, Top, Heads
<1> QED
  BY <1>1, <1>2 DEF IInv, Rollback, Restore, process, Sound, Readable

\* Time passing changes no table.
LEMMA TickSound == IInv /\ Tick => IInv'
<1> SUFFICES ASSUME IInv, Tick PROVE IInv'
  OBVIOUS
<1>1. Others'
  BY EventLogAssumption DEF IInv, Others, Tick, tx, history
<1>2. Tops' = Tops
  BY DEF Tick, tables, tx, Tops, Top
<1> QED
  BY <1>1, <1>2 DEF IInv, Tick, tables, tx, Sound, Readable

\* A step that changes nothing keeps the invariant.
LEMMA StutterSound == IInv /\ UNCHANGED vars => IInv'
<1> SUFFICES ASSUME IInv, UNCHANGED vars PROVE IInv'
  OBVIOUS
<1>1. Others'
  BY DEF IInv, Others, vars, tx, process, history
<1>2. Tops' = Tops
  BY DEF vars, tables, tx, Tops, Top
<1> QED
  BY <1>1, <1>2 DEF IInv, vars, tables, tx, process, Sound, Readable

-----------------------------------------------------------------------------
(* A restart, from what is on disk.                                        *)

\* The next process finds the saved tables, or the committed ones, with floors
\* raised to the heads when its format is newer.
LEMMA RestartSound == IInv /\ Restart => IInv'
<1> SUFFICES ASSUME IInv, Restart PROVE IInv'
  OBVIOUS
<1> DEFINE disk == IF open THEN saved
                   ELSE [rows |-> rows, tombs |-> tombs, streams |-> streams]
<1>1. PICK f \in format..MaxFormat :
         /\ format' = f
         /\ rows' = disk.rows
         /\ tombs' = disk.tombs
         /\ streams' = raiseReplayFloors(disk.streams, f > format)
  BY DEF Restart
<1>2. Sound(disk.rows, disk.tombs, disk.streams, Heads(disk.streams))
  <2>1. CASE open
    BY <2>1 DEF IInv
  <2>2. CASE ~open
    BY <2>2, NoGroup DEF IInv, Others
  <2> QED
    BY <2>1, <2>2 DEF IInv, Others
<1> HIDE DEF disk
<1>3. disk.streams \in [Scopes -> Streams]
  BY <1>2 DEF Sound, Typed
<1>4. /\ streams' \in [Scopes -> Streams]
      /\ \A s \in Scopes : /\ streams'[s].head = disk.streams[s].head
                           /\ LowOf(streams'[s]) = LowOf(disk.streams[s])
                           /\ streams'[s].oldest = disk.streams[s].oldest
  BY <1>1, <1>3 DEF raiseReplayFloors, Streams, LowOf
<1>5. Tops' = Heads(disk.streams)
  BY <1>4, EventLogAssumption DEF Restart, Tops, Top, Heads
<1>6. Others'
  <2>1. boot' \in 1..MaxBoots /\ format' \in 1..MaxFormat
    BY <1>1, EventLogAssumption DEF IInv, Others, Restart
  <2> QED
    BY <2>1 DEF IInv, Others, Restart, history
<1>7. Sound(rows, tombs, streams, Tops)'
  <2>1. Typed(rows, tombs, streams)'
    BY <1>1, <1>2, <1>4 DEF Sound, Typed
  <2>2. Ordered(streams, Tops)'
    BY <1>1, <1>2, <1>3, <1>4, <1>5 DEF Sound, Ordered, raiseReplayFloors, Streams, Heads
  <2>3. Contiguous(rows, streams, Tops)'
    BY <1>1, <1>2, <1>4, <1>5 DEF Sound, Contiguous
  <2>4. TombsBelow(tombs, streams)'
    BY <1>1, <1>2, <1>4 DEF Sound, Typed, TombsBelow, Tombs
  <2>5. Readable(rows, streams)'
    <3> SUFFICES ASSUME NEW r \in disk.rows, r.seq > streams'[r.scope].floor
                 PROVE r.format = format'
      BY <1>1 DEF Readable
    <3>1. r \in Rows
      BY <1>2 DEF Sound, Typed
    <3>2. r.seq <= disk.streams[r.scope].head
      BY <3>1, <1>2 DEF Sound, Contiguous, Heads, Rows
    <3>3. CASE f = format
      <4>1. streams'[r.scope] = disk.streams[r.scope]
        BY <3>3, <3>1, <1>1 DEF raiseReplayFloors, Rows, IInv, Others
      <4> QED
        BY <4>1, <3>3, <1>1, <1>2 DEF Sound, Readable
    <3>4. CASE f > format
      BY <3>1, <3>2, <3>4, <1>1, <1>3 DEF raiseReplayFloors, Rows, Streams
    <3> QED
      BY <3>3, <3>4 DEF IInv, Others
  <2> QED
    BY <2>1, <2>2, <2>3, <2>4, <2>5, <1>1, <1>2 DEF Sound, Unique
<1>8. Typed(saved.rows, saved.tombs, saved.streams)' /\ ~open'
  BY DEF IInv, Restart, Typed
<1> QED
  BY <1>6, <1>7, <1>8 DEF IInv

-----------------------------------------------------------------------------
(* Retention.  Cut(s, k) is what the stream of s starts at once everything  *)
(* before k is gone.                                                       *)

Cut(s, k) ==
    IF streams[s].oldest = 0 THEN streams[s].head + 1
    ELSE IF k <= streams[s].oldest THEN streams[s].oldest ELSE k

\* A prune keeps from a sequence of the stream, or from the one after its head.
LEMMA KeepFromBounds ==
  ASSUME IInv, NEW s \in Scopes, NEW keep, IsKeepFrom(s, keep)
  PROVE  keep \in 1..(streams[s].head + 1)
<1>1. streams[s].head \in Nat
  BY DEF IInv, Sound, Typed, Streams
<1>2. PICK b \in 1..(streams[s].head + 1) :
         keep = IF b + MaxEventsPerScope > streams[s].head THEN b
                ELSE (streams[s].head + 1) - MaxEventsPerScope
  BY DEF IsKeepFrom
<1> QED
  BY <1>1, <1>2, EventLogAssumption

\* A prune deletes a prefix of each stream's range, and its oldest follows.
LEMMA PruneSound == IInv /\ prune => IInv'
<1> SUFFICES ASSUME IInv, prune PROVE IInv'
  OBVIOUS
<1>1. PICK keep \in [Scopes -> 1..(MaxHead + 1)] :
         LET goes(r) == streams[r.scope].oldest # 0 /\ r.seq < keep[r.scope]
             kept == tombs \cup
                     {[scope |-> r.scope, seq |-> r.seq, id |-> r.id,
                       at |-> r.at, pruned |-> clock] : r \in {q \in rows : goes(q)}}
         IN  /\ \A s \in Scopes :
                   IF streams[s].oldest = 0 THEN keep[s] = 1 ELSE IsKeepFrom(s, keep[s])
             /\ rows' = {r \in rows : ~goes(r)}
             /\ tombs' = {t \in kept : ~TombExpired(t)}
             /\ forgotten' = forgotten \cup {t.id : t \in {u \in kept : TombExpired(u)}}
             /\ streams' =
                   [s \in Scopes |->
                      IF streams[s].oldest = 0 THEN streams[s]
                      ELSE [streams[s] EXCEPT !.oldest = OldestLeft(s, keep[s])]]
  BY DEF prune
<1> DEFINE goes(r) == streams[r.scope].oldest # 0 /\ r.seq < keep[r.scope]
           Tomb(r) == [scope |-> r.scope, seq |-> r.seq, id |-> r.id,
                       at |-> r.at, pruned |-> clock]
           kept == tombs \cup {Tomb(r) : r \in {q \in rows : goes(q)}}
<1>2. /\ ~open /\ group = None
      /\ Sound(rows, tombs, streams, Heads(streams))
      /\ Typed(rows, tombs, streams)
  BY NoGroup DEF IInv, Others, prune, Sound
<1>3. \A s \in Scopes : keep[s] \in 1..(streams[s].head + 1)
  <2> SUFFICES ASSUME NEW s \in Scopes PROVE keep[s] \in 1..(streams[s].head + 1)
    OBVIOUS
  <2>1. CASE streams[s].oldest = 0
    BY <2>1, <1>1, <1>2 DEF Typed, Streams
  <2>2. CASE streams[s].oldest # 0
    BY <2>2, <1>1, KeepFromBounds
  <2> QED
    BY <2>1, <2>2
<1>4. streams' \in [Scopes -> Streams]
      /\ \A s \in Scopes : /\ streams'[s].head = streams[s].head
                           /\ streams'[s].floor = streams[s].floor
                           /\ streams'[s].oldest <= streams[s].head
                           /\ LowOf(streams'[s]) = Cut(s, keep[s])
  <2> SUFFICES ASSUME NEW s \in Scopes
               PROVE  /\ streams'[s] \in Streams
                      /\ streams'[s].head = streams[s].head
                      /\ streams'[s].floor = streams[s].floor
                      /\ streams'[s].oldest <= streams[s].head
                      /\ LowOf(streams'[s]) = Cut(s, keep[s])
    BY <1>1
  <2>1. streams[s] \in Streams /\ streams[s].oldest <= streams[s].head
    BY <1>2 DEF Sound, Typed, Ordered
  <2>2. CASE streams[s].oldest = 0
    BY <2>1, <2>2, <1>1 DEF Cut, LowOf
  <2>3. CASE streams[s].oldest # 0
    <3>1. streams'[s] = [streams[s] EXCEPT !.oldest = OldestLeft(s, keep[s])]
      BY <2>3, <1>1
    <3>2. /\ OldestLeft(s, keep[s]) \in 0..MaxHead
          /\ OldestLeft(s, keep[s]) <= streams[s].head
      BY <2>1, <1>3, EventLogAssumption DEF OldestLeft, Streams
    <3>3. Cut(s, keep[s]) =
             IF OldestLeft(s, keep[s]) = 0 THEN streams[s].head + 1
             ELSE OldestLeft(s, keep[s])
      BY <2>1, <2>3, <1>3 DEF OldestLeft, Cut, Streams
    <3> QED
      BY <2>1, <3>1, <3>2, <3>3 DEF Streams, LowOf
  <2> QED
    BY <2>2, <2>3
<1>5. \A s \in Scopes : LowOf(streams[s]) <= Cut(s, keep[s])
  BY <1>2, <1>3 DEF Sound, Typed, Ordered, Streams, LowOf, Cut
<1>6. rows' \subseteq rows /\ \A r \in rows : r \in rows' <=> ~goes(r)
  BY <1>1
<1>7. tombs' \subseteq kept /\ kept \subseteq Tombs
  <2>1. \A r \in Rows : Tomb(r) \in Tombs
    BY DEF Rows, Tombs, IInv, Others
  <2> QED
    BY <2>1, <1>1, <1>2 DEF Typed
<1>8. Tops' = Heads(streams)
  BY <1>2, <1>4, EventLogAssumption DEF prune, tx, Tops, Top, Heads
<1>9. Others'
  <2>1. forgotten' \subseteq Ids
    BY <1>1, <1>7 DEF IInv, Others, Tombs
  <2> QED
    BY <2>1 DEF IInv, Others, prune, tx, process
<1>10. Sound(rows, tombs, streams, Tops)'
  <2>1. Typed(rows, tombs, streams)'
    BY <1>2, <1>4, <1>6, <1>7 DEF Typed
  <2>2. Ordered(streams, Tops)'
    BY <1>2, <1>4, <1>8 DEF Sound, Ordered, Typed, Streams, Heads
  <2>3. Contiguous(rows, streams, Tops)'
    <3> SUFFICES ASSUME NEW s \in Scopes, NEW n \in 1..MaxHead
                 PROVE (\E r \in rows' : r.scope = s /\ r.seq = n)
                          <=> (Cut(s, keep[s]) <= n /\ n <= streams[s].head)
      BY <1>4, <1>8 DEF Contiguous, Heads
    <3>1. (\E r \in rows : r.scope = s /\ r.seq = n)
             <=> (LowOf(streams[s]) <= n /\ n <= streams[s].head)
      BY <1>2 DEF Sound, Contiguous, Heads
    <3>2. streams[s] \in Streams
      BY <1>2 DEF Typed
    <3>3. CASE streams[s].oldest = 0
      BY <3>1, <3>3, <1>6 DEF LowOf, Cut
    <3>4. CASE streams[s].oldest # 0
      <4>1. (Cut(s, keep[s]) <= n) <=> (LowOf(streams[s]) <= n /\ ~(n < keep[s]))
        BY <3>2, <3>4, <1>3 DEF LowOf, Cut, Streams
      <4>2. \A r \in rows : r.scope = s /\ r.seq = n => (r \in rows' <=> ~(n < keep[s]))
        BY <3>4, <1>6
      <4> HIDE DEF goes
      <4>3. (\E r \in rows' : r.scope = s /\ r.seq = n)
               <=> (\E r \in rows : r.scope = s /\ r.seq = n) /\ ~(n < keep[s])
        BY <4>2, <1>6
      <4> QED
        BY <4>1, <4>3, <3>1
    <3> QED
      BY <3>3, <3>4
  <2>4. TombsBelow(tombs, streams)'
    <3> SUFFICES ASSUME NEW t \in kept PROVE t.seq < Cut(t.scope, keep[t.scope])
      BY <1>4, <1>7 DEF TombsBelow, Tombs
    <3>1. CASE t \in tombs
      <4>1. t \in Tombs /\ t.seq < LowOf(streams[t.scope])
        BY <3>1, <1>2 DEF Sound, TombsBelow, Typed
      <4>2. t.scope \in Scopes /\ streams[t.scope] \in Streams
        BY <4>1, <1>2 DEF Typed, Tombs
      <4> QED
        BY <4>1, <4>2, <1>3, <1>5 DEF Tombs, Streams, LowOf, Cut
    <3>2. CASE t \notin tombs
      <4>1. PICK r \in rows : goes(r) /\ t = Tomb(r)
        BY <3>2
      <4>2. r \in Rows /\ r.scope \in Scopes /\ streams[r.scope] \in Streams
        BY <1>2 DEF Typed, Rows
      <4> QED
        BY <4>1, <4>2, <1>3 DEF Rows, Streams, Cut
    <3> QED
      BY <3>1, <3>2
  <2>5. Unique(rows \cup tombs)'
    <3> DEFINE Same(r, q) == r.id = q.id /\ r.scope = q.scope /\ r.seq = q.seq
    <3>1. \A r, q \in rows \cup tombs :
             r.id = q.id \/ (r.scope = q.scope /\ r.seq = q.seq) => r = q
      BY <1>2 DEF Sound, Unique
    <3>2. \A r \in rows, t \in tombs :
             r.id # t.id /\ ~(r.scope = t.scope /\ r.seq = t.seq)
      <4> SUFFICES ASSUME NEW r \in rows, NEW t \in tombs PROVE r # t
        BY <3>1
      <4>1. r \in Rows /\ t \in Tombs
        BY <1>2 DEF Typed
      <4> QED
        BY <4>1 DEF Rows, Tombs
    <3>3. \A t \in kept : t \in tombs \/ \E r \in rows : r \notin rows' /\ t = Tomb(r)
      BY <1>6
    <3>4. \A r \in rows : Same(r, Tomb(r))
      OBVIOUS
    <3> HIDE DEF goes, Tomb, kept
    <3>5. \A r \in rows', t \in kept :
             r.id # t.id /\ ~(r.scope = t.scope /\ r.seq = t.seq)
      BY <3>1, <3>2, <3>3, <3>4, <1>6
    <3>6. \A t, u \in kept :
             t.id = u.id \/ (t.scope = u.scope /\ t.seq = u.seq) => t = u
      <4> SUFFICES ASSUME NEW t \in kept, NEW u \in kept,
                          t.id = u.id \/ (t.scope = u.scope /\ t.seq = u.seq)
                   PROVE t = u
        OBVIOUS
      <4>1. CASE t \in tombs /\ u \in tombs
        BY <4>1, <3>1
      <4>2. CASE t \in tombs /\ u \notin tombs
        BY <4>2, <3>2, <3>3, <3>4
      <4>3. CASE t \notin tombs /\ u \in tombs
        BY <4>3, <3>2, <3>3, <3>4
      <4>4. CASE t \notin tombs /\ u \notin tombs
        BY <4>4, <3>1, <3>3, <3>4
      <4> QED
        BY <4>1, <4>2, <4>3, <4>4
    <3> QED
      BY <3>1, <3>5, <3>6, <1>6, <1>7 DEF Unique
  <2>6. Readable(rows, streams)'
    BY <1>2, <1>4, <1>6 DEF Sound, Typed, Readable, Rows, prune, process
  <2> QED
    BY <2>1, <2>2, <2>3, <2>4, <2>5, <2>6 DEF Sound
<1> QED
  BY <1>2, <1>9, <1>10 DEF IInv, prune, tx, Typed

-----------------------------------------------------------------------------
(* The theorems.                                                           *)

\* Every step of the log leaves the tables, and what is on disk, in order.
LEMMA NextSound == IInv /\ [Next]_vars => IInv'
<1> SUFFICES ASSUME IInv, [Next]_vars PROVE IInv'
  OBVIOUS
<1>1. CASE Write
  BY <1>1, BeginSound, EnsureStreamSound, AnswerAgainSound, InsertEventSound,
     AdvanceHeadSound, CommitSound, RollbackSound DEF Write
<1>2. CASE prune
  BY <1>2, PruneSound
<1>3. CASE Tick
  BY <1>3, TickSound
<1>4. CASE Restart
  BY <1>4, RestartSound
<1>5. CASE UNCHANGED vars
  BY <1>5, StutterSound
<1> QED
  BY <1>1, <1>2, <1>3, <1>4, <1>5 DEF Next

\* The inductive invariant holds in every reachable state.
THEOREM Inductive == Spec => []IInv
  BY InitSound, NextSound, PTL DEF Spec

\* Every variable of the event log keeps its type.
THEOREM TypeCorrect == Spec => []TypeOK
<1>1. IInv => TypeOK
  BY DEF IInv, Others, Sound, Typed, TypeOK
<1> QED
  BY <1>1, Inductive, PTL

\* db/event-repository.ts:103-106: whatever is written, rolled back, pruned or
\* lost in a crash, the log holds every sequence from a stream's oldest to its
\* head.
THEOREM Contiguity == Spec => []LogIsContiguous
<1>1. IInv => LogIsContiguous
  <2> SUFFICES ASSUME IInv, NEW s \in Scopes PROVE SeqsOf(s) = Low(s)..Top(s)
    BY DEF LogIsContiguous
  <2>1. \A n \in 1..MaxHead : n \in SeqsOf(s) <=> (Low(s) <= n /\ n <= Top(s))
    BY DEF IInv, Sound, Contiguous, Tops, SeqsOf, RowsOf, LowOf, Low
  <2>2. SeqsOf(s) \subseteq 1..MaxHead
    BY DEF IInv, Sound, Typed, SeqsOf, RowsOf, Rows
  <2>3. Low(s) \in Nat \ {0} /\ Top(s) \in 0..MaxHead
    BY EventLogAssumption DEF IInv, Others, Sound, Typed, Streams, Low, Top
  <2>4. \A n \in 1..MaxHead : n \in Low(s)..Top(s) <=> (Low(s) <= n /\ n <= Top(s))
    BY <2>3, EventLogAssumption
  <2>5. Low(s)..Top(s) \subseteq 1..MaxHead
    BY <2>3, EventLogAssumption
  <2> HIDE DEF Low, Top
  <2> QED
    BY <2>1, <2>2, <2>4, <2>5
<1> QED
  BY <1>1, Inductive, PTL

\* db/event-repository.ts:270-310: an event id is stored once, under one
\* cursor, whatever is retried, pruned or lost.
THEOREM Uniqueness == Spec => []OneCursorPerEvent
<1>1. IInv => OneCursorPerEvent
  BY DEF IInv, Sound, Unique, OneCursorPerEvent
<1> QED
  BY <1>1, Inductive, PTL

-----------------------------------------------------------------------------
(* Replay reads the log.                                                   *)

\* What the rule may answer, by its decision and the rows it found.
LEMMA ReadAnswers ==
  ASSUME NEW c, NEW h, NEW o, NEW k, NEW a \in read(c, h, o, k)
  PROVE  \/ decideReplay(c, h, o) # "replay" /\ a = SnapshotFor(decideReplay(c, h, o), h)
         \/ /\ decideReplay(c, h, o) = "replay"
            /\ \/ a = ReplayFrom(c, h)
               \/ k # h.seq - c.seq /\ a = SnapshotFor("gap_expired", h)
               \/ h.seq - c.seq > 0 /\ a = SnapshotFor("snapshot_smaller", h)
<1> HIDE DEF decideReplay
<1> QED
  BY DEF read

\* The oldest sequence replay may start from: 0, with nothing to replay, or a
\* retained one above the floor.
Oldest(s) == IF streams[s].epoch = 0 THEN 0 ELSE oldestReplayable(streams[s])

\* That sequence is at most the head, is retained and is above the floor.
LEMMA OldestBounds ==
  ASSUME IInv, NEW s \in Scopes
  PROVE  /\ Oldest(s) \in 0..streams[s].head
         /\ Oldest(s) # 0 => LowOf(streams[s]) <= Oldest(s) /\ streams[s].floor < Oldest(s)
<1>1. /\ streams[s] \in Streams
      /\ streams[s].oldest <= streams[s].head
  BY DEF IInv, Sound, Typed, Ordered
<1> QED
  BY <1>1, EventLogAssumption DEF Streams, Oldest, oldestReplayable, LowOf

\* A cursor of the stream that replay serves, with the rows after it.
LEMMA ReplayedRows ==
  ASSUME IInv, ~open, NEW s \in Scopes, NEW c \in Cursors,
         decideReplay(c, HeadOf(s), Oldest(s)) = "replay"
  PROVE  /\ c # NoCursor
         /\ c.seq \in 0..streams[s].head
         /\ {r.seq : r \in After(s, c.seq)} = (c.seq + 1)..streams[s].head
         /\ \A r \in After(s, c.seq) : r.format = format
<1>1. /\ c # NoCursor
      /\ c.seq \in 0..MaxHead /\ c.seq <= streams[s].head
      /\ ~NotRetained(c, HeadOf(s), Oldest(s))
      /\ HeadOf(s).seq = streams[s].head
  <2>1. c.seq \in 0..MaxHead /\ HeadOf(s).seq = streams[s].head
    BY EventLogAssumption DEF Cursors, Cursor, NoCursor, HeadOf
  <2>2. streams[s].head \in 0..MaxHead
    BY DEF IInv, Sound, Typed, Streams
  <2> QED
    BY <2>1, <2>2, EventLogAssumption DEF decideReplay
<1>2. /\ streams[s] \in Streams /\ streams[s].head \in 0..MaxHead
      /\ streams[s].floor \in 0..MaxHead
      /\ Tops[s] = streams[s].head
  BY EventLogAssumption DEF IInv, Others, Sound, Typed, Streams, Tops, Top
<1>3. \A n \in 1..MaxHead :
         (\E r \in rows : r.scope = s /\ r.seq = n)
            <=> (LowOf(streams[s]) <= n /\ n <= streams[s].head)
  BY <1>2 DEF IInv, Sound, Contiguous
<1>4. \A r \in rows : r.seq \in 1..MaxHead /\ r.scope \in Scopes
  BY DEF IInv, Sound, Typed, Rows
<1>5. \/ c.seq = streams[s].head
      \/ LowOf(streams[s]) <= c.seq + 1 /\ streams[s].floor < c.seq + 1
  <2>1. CASE Oldest(s) = 0
    BY <2>1, <1>1, <1>2 DEF NotRetained
  <2>2. CASE Oldest(s) # 0
    BY <2>2, <1>1, <1>2, OldestBounds, EventLogAssumption DEF NotRetained, LowOf, Streams
  <2> QED
    BY <2>1, <2>2
<1>6. \A r \in After(s, c.seq) : r \in rows /\ r.scope = s /\ r.seq > c.seq
  BY DEF After, RowsOf
<1>7. LowOf(streams[s]) \in Nat
  BY <1>2, EventLogAssumption DEF LowOf, Streams
<1>8. ASSUME NEW n \in (c.seq + 1)..streams[s].head
      PROVE  \E r \in After(s, c.seq) : r.seq = n
  <2>1. n \in 1..MaxHead /\ n > c.seq /\ LowOf(streams[s]) <= n /\ n <= streams[s].head
    BY <1>1, <1>2, <1>5, <1>7, EventLogAssumption
  <2>2. PICK r \in rows : r.scope = s /\ r.seq = n
    BY <2>1, <1>3
  <2> QED
    BY <2>1, <2>2 DEF After, RowsOf
<1>9. ASSUME NEW r \in After(s, c.seq)
      PROVE  r.seq \in (c.seq + 1)..streams[s].head /\ r.format = format
  <2>1. /\ r \in rows /\ r.scope = s /\ r.seq > c.seq
        /\ r.seq \in 1..MaxHead /\ r.seq <= streams[s].head
    BY <1>3, <1>4, <1>6
  <2>2. r.seq > streams[s].floor
    BY <2>1, <1>1, <1>2, <1>5
  <2> QED
    BY <2>1, <2>2, <1>1, <1>2 DEF IInv, Sound, Readable
<1> QED
  BY <1>1, <1>2, <1>8, <1>9

\* db/replay.ts:169-288, db/replay-floor.ts:11-19: whatever cursor a client
\* names, a replay carries every event after it up to the head, each in the
\* format this process reads.
THEOREM CompleteReplay == Spec => []ReplayIsComplete
<1>1. IInv => ReplayIsComplete
  <2> SUFFICES ASSUME IInv, ~open, NEW s \in Scopes, NEW c \in Cursors,
                      NEW a \in AnswersTo(s, c), a.mode = "replay"
               PROVE  /\ {r.seq : r \in After(s, c.seq)} = (c.seq + 1)..a.to.seq
                      /\ \A r \in After(s, c.seq) : r.format = format
    BY DEF ReplayIsComplete
  <2>1. a \in read(c, HeadOf(s), Oldest(s), Cardinality(After(s, c.seq)))
    BY DEF AnswersTo, Oldest
  <2>2. decideReplay(c, HeadOf(s), Oldest(s)) = "replay" /\ a = ReplayFrom(c, HeadOf(s))
    BY <2>1, ReadAnswers DEF SnapshotFor, ReplayFrom
  <2>3. a.to.seq = streams[s].head
    BY <2>2 DEF ReplayFrom, HeadOf, Cursor
  <2> QED
    BY <2>2, <2>3, ReplayedRows
<1> QED
  BY <1>1, Inductive, PTL

\* protocol/src/replay.ts:412-447: the client accepts every answer, whatever
\* cursor it sent; a snapshot is never blamed on an expired gap when the
\* cursor is at the head.
THEOREM Acceptance == Spec => []AnswersAreAccepted
<1>1. IInv => AnswersAreAccepted
  <2> SUFFICES ASSUME IInv, ~open, NEW s \in Scopes, NEW c \in Cursors,
                      NEW a \in AnswersTo(s, c)
               PROVE  AcceptsAnswer(c, a)
    BY DEF AnswersAreAccepted
  <2> DEFINE h == HeadOf(s)
             decision == decideReplay(c, h, Oldest(s))
             found == After(s, c.seq)
  <2>1. a \in read(c, h, Oldest(s), Cardinality(found))
    BY DEF AnswersTo, Oldest
  <2>2. /\ h.seq = streams[s].head /\ h.seq \in 0..MaxHead /\ c.seq \in 0..MaxHead
        /\ Oldest(s) \in 0..h.seq
    BY OldestBounds, EventLogAssumption
       DEF IInv, Sound, Typed, Streams, HeadOf, Cursors, Cursor, NoCursor
  <2>3. CASE decision # "replay" /\ a = SnapshotFor(decision, h)
    <3>1. decision = "initial" => c = NoCursor
      BY DEF decideReplay
    <3>2. decision = "stream_reset" => c # NoCursor /\ c.epoch # h.epoch
      BY DEF decideReplay
    <3>3. decision = "cursor_ahead" => c # NoCursor /\ c.epoch = h.epoch /\ c.seq > h.seq
      BY DEF decideReplay
    <3>4. decision = "gap_expired" => c # NoCursor /\ c.epoch = h.epoch /\ c.seq < h.seq
      BY <2>2, EventLogAssumption DEF decideReplay, NotRetained
    <3>5. decision \in {"initial", "stream_reset", "cursor_ahead", "gap_expired"}
      BY <2>3 DEF decideReplay
    <3> HIDE DEF decision, h
    <3> QED
      BY <2>3, <3>1, <3>2, <3>3, <3>4, <3>5 DEF SnapshotFor, AcceptsAnswer, ReasonFits
  <2>4. CASE decision = "replay"
    <3>1. c # NoCursor /\ c.epoch = h.epoch /\ c.seq <= h.seq
      BY <2>2, <2>4, EventLogAssumption DEF decideReplay
    <3>2. found = {} => Cardinality(found) = 0
      BY FS_EmptySet
    <3>3. c.seq = h.seq => Cardinality(found) = h.seq - c.seq
      <4>1. ASSUME c.seq = h.seq
            PROVE  found = {}
        <5>1. {r.seq : r \in found} = (c.seq + 1)..streams[s].head
          BY <2>4, ReplayedRows
        <5>2. streams[s].head \in Nat /\ c.seq = streams[s].head
          BY <2>2, <4>1, EventLogAssumption
        <5>3. (c.seq + 1)..streams[s].head = {}
          BY <5>2
        <5> HIDE DEF found
        <5> QED
          BY <5>1, <5>3
      <4> QED
        BY <4>1, <3>2, <2>2, EventLogAssumption
    <3>4. CASE a = ReplayFrom(c, h)
      BY <3>1, <3>4 DEF ReplayFrom, AcceptsAnswer
    <3>5. CASE \/ Cardinality(found) # h.seq - c.seq /\ a = SnapshotFor("gap_expired", h)
               \/ h.seq - c.seq > 0 /\ a = SnapshotFor("snapshot_smaller", h)
      <4>1. c.seq < h.seq
        BY <3>1, <3>3, <3>5, <2>2, EventLogAssumption
      <4> HIDE DEF h, found
      <4> QED
        BY <3>1, <3>5, <4>1 DEF SnapshotFor, AcceptsAnswer, ReasonFits
    <3> HIDE DEF decision, h, found
    <3> QED
      BY <2>1, <2>4, <3>4, <3>5, ReadAnswers DEF decision
  <2> HIDE DEF h, found
  <2> QED
    BY <2>1, <2>3, <2>4, ReadAnswers
<1> QED
  BY <1>1, Inductive, PTL

-----------------------------------------------------------------------------
(* What a step may never do.                                               *)

\* db/event-retention.ts:143-150, 177-178: an event leaves the log only when it
\* is older than the window or past the cap, and leaves its cursor behind.
THEOREM Retention == Spec => PruneKeepsRecent
<1> DEFINE Keeps == \A r \in rows : ~open /\ r \notin rows' =>
              /\ Expired(r) \/ r.seq + MaxEventsPerScope <= streams[r.scope].head
              /\ \E t \in tombs' : t.id = r.id /\ t.scope = r.scope /\ t.seq = r.seq
<1>1. IInv /\ [Next]_vars => [Keeps]_vars
  <2> SUFFICES ASSUME IInv, Next, NEW r \in rows, ~open, r \notin rows'
               PROVE  /\ Expired(r) \/ r.seq + MaxEventsPerScope <= streams[r.scope].head
                      /\ \E t \in tombs' : t.id = r.id /\ t.scope = r.scope /\ t.seq = r.seq
    OBVIOUS
  <2>1. prune
    <3>1. CASE Write
      BY <3>1 DEF IInv, Others, Write, Begin, ensureStream, AnswerAgain, insertEvent,
         advanceHead, Commit, Rollback, tables
    <3>2. CASE Tick \/ Restart
      BY <3>2 DEF Tick, Restart, tables
    <3> QED
      BY <3>1, <3>2 DEF Next
  <2>2. PICK keep \in [Scopes -> 1..(MaxHead + 1)] :
           /\ \A s \in Scopes :
                 IF streams[s].oldest = 0 THEN keep[s] = 1 ELSE IsKeepFrom(s, keep[s])
           /\ rows' = {q \in rows : ~(streams[q.scope].oldest # 0 /\ q.seq < keep[q.scope])}
           /\ tombs' = {t \in tombs \cup
                          {[scope |-> q.scope, seq |-> q.seq, id |-> q.id, at |-> q.at,
                            pruned |-> clock] :
                             q \in {p \in rows : streams[p.scope].oldest # 0
                                                 /\ p.seq < keep[p.scope]}} :
                          ~TombExpired(t)}
    BY <2>1 DEF prune
  <2>3. streams[r.scope].oldest # 0 /\ r.seq < keep[r.scope]
    BY <2>2
  <2>4. /\ r \in Rows /\ r.scope \in Scopes
        /\ streams[r.scope].head \in Nat /\ r.seq \in Nat
    BY DEF IInv, Sound, Typed, Rows, Streams
  <2>5. Expired(r) \/ r.seq + MaxEventsPerScope <= streams[r.scope].head
    <3>1. IsKeepFrom(r.scope, keep[r.scope])
      BY <2>2, <2>3, <2>4
    <3>2. PICK b \in 1..(streams[r.scope].head + 1) :
             /\ IsWindowBoundary(r.scope, b)
             /\ keep[r.scope] = IF b + MaxEventsPerScope > streams[r.scope].head THEN b
                                ELSE (streams[r.scope].head + 1) - MaxEventsPerScope
      BY <3>1 DEF IsKeepFrom
    <3>3. r.seq < b => Expired(r)
      BY <3>2 DEF IsWindowBoundary, RowsOf
    <3> QED
      BY <2>3, <2>4, <3>2, <3>3, EventLogAssumption
  <2> DEFINE t == [scope |-> r.scope, seq |-> r.seq, id |-> r.id, at |-> r.at,
                   pruned |-> clock]
  <2>6. ~TombExpired(t)
    BY EventLogAssumption DEF IInv, Others, TombExpired
  <2>7. t \in tombs'
    BY <2>2, <2>3, <2>6
  <2> QED
    BY <2>5, <2>7
<1> QED
  BY <1>1, Inductive, PTL DEF Spec, PruneKeepsRecent

\* What a transaction has done so far to the streams it will commit.
Grown == open => \A s \in Scopes :
            /\ saved.streams[s].epoch # 0 => streams[s].epoch = saved.streams[s].epoch
            /\ streams[s].head >= saved.streams[s].head

\* The streams of an open transaction have the saved epochs, and heads no lower
\* than the saved ones.
LEMMA StreamsGrow == Spec => []Grown
<1>1. Init => Grown
  BY DEF Init, Grown
<1>2. IInv /\ Grown /\ [Next]_vars => Grown'
  <2> SUFFICES ASSUME IInv, Grown, [Next]_vars PROVE Grown'
    OBVIOUS
  <2>1. streams \in [Scopes -> Streams]
    BY DEF IInv, Sound, Typed
  <2>2. CASE Begin
    BY <2>1, <2>2 DEF Begin, tables, Grown, Streams
  <2>3. ASSUME NEW s \in Scopes, ensureStream(s) PROVE Grown'
    BY <2>1, <2>3, EventLogAssumption DEF ensureStream, Grown, Streams
  <2>4. CASE advanceHead
    <3>1. group \in Scopes /\ open /\ Tops[group] = head /\ head \in 0..MaxHead
          /\ saved.streams \in [Scopes -> Streams] /\ streams[group].head <= head
      BY <2>4 DEF IInv, Others, Sound, Typed, Ordered, advanceHead, Tops, Top
    <3>2. \A s \in Scopes : streams'[s].epoch = streams[s].epoch
                            /\ streams'[s].head >= streams[s].head
      BY <2>1, <2>4, <3>1 DEF advanceHead, Advanced, Streams
    <3>3. streams' \in [Scopes -> [epoch : 0..MaxBoots, head : 0..MaxHead, oldest : Nat,
                                   floor : Nat]]
      BY <2>1, <2>4, <3>1 DEF advanceHead, Advanced, Streams
    <3> QED
      BY <2>1, <2>4, <3>1, <3>2, <3>3 DEF advanceHead, Grown, Streams
  <2>5. CASE Commit \/ Rollback \/ Restart
    BY <2>5 DEF Commit, Rollback, Restore, Restart, Grown
  <2>6. ASSUME NEW id \in Ids, NEW at \in 0..clock,
               AnswerAgain(id, at) \/ insertEvent(id, at)
        PROVE Grown'
    BY <2>6 DEF AnswerAgain, insertEvent, tables, Grown
  <2>7. CASE prune \/ Tick \/ UNCHANGED vars
    BY <2>7 DEF prune, Tick, vars, tables, tx, Grown
  <2> QED
    BY <2>2, <2>3, <2>4, <2>5, <2>6, <2>7 DEF Next, Write
<1> QED
  BY <1>1, <1>2, Inductive, PTL DEF Spec

\* A stream keeps its epoch once it has one, and its committed head never goes
\* back, whatever is pruned, rolled back or restarted.
THEOREM Monotonicity == Spec => HeadsNeverGoBack
<1> DEFINE Old == IF open THEN saved.streams ELSE streams
           New == IF open' THEN saved'.streams ELSE streams'
           Kept == \A s \in Scopes : /\ Old[s].epoch # 0 => New[s].epoch = Old[s].epoch
                                     /\ New[s].head >= Old[s].head
           Forward == \A s \in Scopes :
              LET old == IF open THEN saved.streams ELSE streams
                  new == IF open' THEN saved'.streams ELSE streams'
              IN  /\ old[s].epoch # 0 => new[s].epoch = old[s].epoch
                  /\ new[s].head >= old[s].head
<1>1. IInv /\ Grown /\ [Next]_vars => [Forward]_vars
  <2> SUFFICES ASSUME IInv, Grown, Next PROVE Kept
    OBVIOUS
  <2>1. streams \in [Scopes -> Streams] /\ saved.streams \in [Scopes -> Streams]
    BY DEF IInv, Sound, Typed
  <2>2. Old \in [Scopes -> Streams]
    BY <2>1
  <2>3. New = Old => Kept
    BY <2>2 DEF Streams
  <2>4. CASE Commit
    BY <2>4 DEF Commit, tables, Grown
  <2>5. CASE prune
    <3>1. \A s \in Scopes : streams'[s].epoch = streams[s].epoch
                            /\ streams'[s].head = streams[s].head
      <4>1. PICK keep \in [Scopes -> 1..(MaxHead + 1)] :
               streams' = [s \in Scopes |->
                  IF streams[s].oldest = 0 THEN streams[s]
                  ELSE [streams[s] EXCEPT !.oldest = OldestLeft(s, keep[s])]]
        BY <2>5 DEF prune
      <4> QED
        BY <4>1, <2>1 DEF Streams
    <3> QED
      BY <2>1, <2>5, <3>1 DEF prune, tx, Streams
  <2>6. CASE Restart
    <3>1. PICK f : streams' = raiseReplayFloors(Old, f > format)
      BY <2>6 DEF Restart
    <3> HIDE DEF Old
    <3>2. \A s \in Scopes : streams'[s].epoch = Old[s].epoch
                            /\ streams'[s].head = Old[s].head
      BY <2>2, <3>1 DEF raiseReplayFloors, Streams
    <3> QED
      BY <2>2, <2>6, <3>2 DEF Restart, Streams
  <2>7. CASE Begin \/ Rollback \/ Tick
    BY <2>3, <2>7 DEF Begin, Rollback, Restore, Tick, tables, tx
  <2>8. ASSUME NEW s \in Scopes, ensureStream(s) PROVE Kept
    BY <2>3, <2>8 DEF ensureStream
  <2>9. ASSUME NEW id \in Ids, NEW at \in 0..clock,
               AnswerAgain(id, at) \/ insertEvent(id, at)
        PROVE Kept
    BY <2>3, <2>9 DEF IInv, Others, AnswerAgain, insertEvent, tables
  <2>10. CASE advanceHead
    BY <2>3, <2>10 DEF IInv, Others, advanceHead
  <2> HIDE DEF Kept
  <2> QED
    BY <2>4, <2>5, <2>6, <2>7, <2>8, <2>9, <2>10 DEF Next, Write
<1> QED
  BY <1>1, Inductive, StreamsGrow, PTL DEF Spec, HeadsNeverGoBack

-----------------------------------------------------------------------------
(* What was heard.                                                         *)

Alike(r, q) == r.id = q.id /\ r.scope = q.scope /\ r.seq = q.seq
Held(h, all) == \E r \in all : Alike(r, h)

\* What was heard of a stream lies under its epoch at or below `top`, nothing
\* else is stored at its cursor, and it is stored itself unless it is forgotten.
Named(hrd, fgt, all, str, top) ==
    \A h \in hrd :
       /\ str[h.scope].epoch = h.epoch /\ h.epoch # 0
       /\ h.seq <= top[h.scope]
       /\ \A r \in all : r.scope = h.scope /\ r.seq = h.seq => r.id = h.id
       /\ h.id \notin fgt => Held(h, all)

\* What a transaction is about to answer is stored; only a transaction answers.
Answering ==
    /\ \A h \in records : /\ streams[h.scope].epoch = h.epoch /\ h.epoch # 0
                          /\ Held(h, rows \cup tombs)
    /\ group # None => streams[group].epoch # 0
    /\ ~open => records = {}

OneName == \A h, k \in heard : h.scope = k.scope /\ h.seq = k.seq => h = k

Remembers ==
    /\ Named(heard, forgotten, rows \cup tombs, streams, Tops)
    /\ open => Named(heard, forgotten, saved.rows \cup saved.tombs, saved.streams,
                     Heads(saved.streams))
    /\ Answering
    /\ OneName

\* Streams keep their epochs and grow, stored events are the old ones or come
\* after, and what is dropped is forgotten.
Continues(all, str, top, fgt, all2, str2, top2) ==
    /\ \A s \in Scopes : /\ top[s] \in Nat /\ top2[s] \in Nat /\ top[s] <= top2[s]
                         /\ str[s].epoch # 0 => str2[s].epoch = str[s].epoch
    /\ \A r \in all2 : \/ \E q \in all : Alike(q, r)
                       \/ r.seq \in Nat /\ r.scope \in Scopes /\ top[r.scope] < r.seq
    /\ \A q \in all : q.id \in fgt \/ \E r \in all2 : Alike(r, q)

\* What was heard stays named while the tables continue.
LEMMA StaysNamed ==
  ASSUME NEW hrd, hrd \subseteq Records, NEW fgt, NEW fgt2, fgt \subseteq fgt2,
         NEW all, NEW str, NEW top, Named(hrd, fgt, all, str, top),
         NEW all2, NEW str2, NEW top2, Continues(all, str, top, fgt2, all2, str2, top2)
  PROVE  Named(hrd, fgt2, all2, str2, top2)
<1> SUFFICES ASSUME NEW h \in hrd
             PROVE  /\ str2[h.scope].epoch = h.epoch /\ h.epoch # 0
                    /\ h.seq <= top2[h.scope]
                    /\ \A r \in all2 : r.scope = h.scope /\ r.seq = h.seq => r.id = h.id
                    /\ h.id \notin fgt2 => Held(h, all2)
  BY DEF Named
<1>1. /\ str[h.scope].epoch = h.epoch /\ h.epoch # 0
      /\ h.seq <= top[h.scope]
      /\ \A r \in all : r.scope = h.scope /\ r.seq = h.seq => r.id = h.id
      /\ h.id \notin fgt => Held(h, all)
  BY DEF Named
<1>5. /\ \A s \in Scopes : /\ top[s] \in Nat /\ top2[s] \in Nat /\ top[s] <= top2[s]
                           /\ str[s].epoch # 0 => str2[s].epoch = str[s].epoch
      /\ \A r \in all2 : \/ \E q \in all : Alike(q, r)
                         \/ r.seq \in Nat /\ r.scope \in Scopes /\ top[r.scope] < r.seq
      /\ \A q \in all : q.id \in fgt2 \/ \E r \in all2 : Alike(r, q)
  BY DEF Continues
<1>2. h.scope \in Scopes /\ h.seq \in Nat
  BY DEF Records
<1>3. \A r \in all2 : r.scope = h.scope /\ r.seq = h.seq => r.id = h.id
  BY <1>1, <1>2, <1>5 DEF Alike
<1>4. h.id \notin fgt2 => Held(h, all2)
  BY <1>1, <1>5 DEF Held, Alike
<1> QED
  BY <1>1, <1>2, <1>3, <1>4, <1>5

\* What is stored lies at or below the last sequence written.
LEMMA StoredIsBelow ==
  ASSUME NEW rws, NEW tmb, NEW str, NEW top \in [Scopes -> Nat], Sound(rws, tmb, str, top)
  PROVE  \A r \in rws \cup tmb : /\ r.scope \in Scopes /\ r.seq \in Nat
                                 /\ r.seq <= top[r.scope]
<1>1. \A r \in rws : r.scope \in Scopes /\ r.seq \in 1..MaxHead /\ r.seq <= top[r.scope]
  BY DEF Sound, Typed, Contiguous, Rows
<1>2. ASSUME NEW t \in tmb PROVE t.scope \in Scopes /\ t.seq \in Nat /\ t.seq <= top[t.scope]
  <2>1. t \in Tombs /\ t.scope \in Scopes /\ str[t.scope] \in Streams
    BY DEF Sound, Typed, Tombs
  <2>2. t.seq < LowOf(str[t.scope])
    BY DEF Sound, TombsBelow
  <2>3. str[t.scope].oldest <= str[t.scope].head /\ str[t.scope].head <= top[t.scope]
    BY <2>1 DEF Sound, Ordered
  <2>4. top[t.scope] \in Nat
    BY <2>1
  <2> QED
    BY <2>1, <2>2, <2>3, <2>4 DEF Tombs, Streams, LowOf
<1> QED
  BY <1>1, <1>2

LEMMA TopsAreNat ==
  ASSUME IInv
  PROVE  /\ Tops \in [Scopes -> Nat] /\ Heads(saved.streams) \in [Scopes -> Nat]
         /\ heard \subseteq Records /\ records \subseteq Records
         /\ streams \in [Scopes -> Streams] /\ saved.streams \in [Scopes -> Streams]
<1>1. streams \in [Scopes -> Streams] /\ saved.streams \in [Scopes -> Streams] /\ head \in Nat
  BY DEF IInv, Others, Sound, Typed
<1>2. Tops \in [Scopes -> Nat] /\ Heads(saved.streams) \in [Scopes -> Nat]
  BY <1>1 DEF Tops, Top, Heads, Streams
<1> QED
  BY <1>1, <1>2 DEF IInv, Others

\* What the tables say of what was heard is what they said, when the tables
\* and the histories are as they were.
LEMMA SameTables ==
  ASSUME IInv, Remembers, IInv', UNCHANGED <<rows, tombs, heard, forgotten>>,
         Tops' = Tops, \A s \in Scopes : streams[s].epoch # 0 =>
                                            streams'[s].epoch = streams[s].epoch
  PROVE  Named(heard, forgotten, rows \cup tombs, streams, Tops)'
<1> DEFINE all == rows \cup tombs
<1>1. \A r \in all : \E q \in all : Alike(q, r)
  BY DEF Alike
<1>2. Continues(all, streams, Tops, forgotten, all, streams', Tops)
  BY <1>1, TopsAreNat DEF Continues
<1>3. Named(heard, forgotten, all, streams', Tops)
  BY <1>2, TopsAreNat, StaysNamed DEF Remembers
<1> QED
  BY <1>3

LEMMA CommitRemembers ==
  ASSUME IInv, Remembers, Commit PROVE Remembers'
<1> DEFINE all == rows \cup tombs
<1>1. /\ heard' = heard \cup records /\ records' = {} /\ ~open'
      /\ UNCHANGED <<rows, tombs, streams, forgotten, group>> /\ group = None
      /\ Tops' = Tops
  BY DEF Commit, tables, Tops, Top
<1>2. /\ \A h \in heard : /\ h \in Records /\ streams[h.scope].epoch = h.epoch /\ h.epoch # 0
                          /\ h.seq <= Tops[h.scope]
                          /\ \A r \in all : r.scope = h.scope /\ r.seq = h.seq => r.id = h.id
                          /\ h.id \notin forgotten => Held(h, all)
  BY TopsAreNat DEF Remembers, Named
<1>3. ASSUME NEW h \in records
      PROVE  /\ h \in Records /\ streams[h.scope].epoch = h.epoch /\ h.epoch # 0
             /\ h.seq <= Tops[h.scope]
             /\ \A r \in all : r.scope = h.scope /\ r.seq = h.seq => r.id = h.id
             /\ Held(h, all)
  <2>1. /\ h \in Records /\ streams[h.scope].epoch = h.epoch /\ h.epoch # 0
        /\ Held(h, all)
    BY TopsAreNat DEF Remembers, Answering
  <2>2. PICK q \in all : Alike(q, h)
    BY <2>1 DEF Held
  <2>3. q.seq <= Tops[q.scope]
    BY TopsAreNat, StoredIsBelow DEF IInv
  <2>4. \A r \in all : r.scope = q.scope /\ r.seq = q.seq => r = q
    BY DEF IInv, Sound, Unique
  <2> QED
    BY <2>1, <2>2, <2>3, <2>4 DEF Alike
<1>4. Named(heard', forgotten, all, streams, Tops)
  BY <1>1, <1>2, <1>3 DEF Named
<1>5. Named(heard, forgotten, rows \cup tombs, streams, Tops)'
  BY <1>1, <1>4
<1>6. \A h \in heard \cup records, k \in records :
         h.scope = k.scope /\ h.seq = k.seq => h = k /\ k = h
  <2> SUFFICES ASSUME NEW h \in heard \cup records, NEW k \in records,
                      h.scope = k.scope, h.seq = k.seq
               PROVE  h = k
    OBVIOUS
  <2>1. PICK q \in all : Alike(q, k)
    BY <1>3 DEF Held
  <2>2. h.id = k.id /\ h.epoch = k.epoch /\ h \in Records /\ k \in Records
    BY <1>2, <1>3, <2>1 DEF Alike
  <2> QED
    BY <2>2 DEF Records
<1>7. OneName'
  BY <1>1, <1>6 DEF Remembers, OneName
<1>8. Answering'
  BY <1>1 DEF Answering
<1> QED
  BY <1>1, <1>5, <1>7, <1>8 DEF Remembers

LEMMA InsertRemembers ==
  ASSUME IInv, IInv', Remembers, NEW id \in Ids, NEW at \in 0..clock, insertEvent(id, at)
  PROVE  Remembers'
<1> DEFINE all == rows \cup tombs
           new == [scope |-> group, seq |-> head + 1, id |-> id, at |-> at, format |-> format]
<1>1. /\ group \in Scopes /\ open /\ Tops[group] = head /\ head \in Nat
      /\ Tops'[group] = head + 1 /\ \A t \in Scopes \ {group} : Tops'[t] = Tops[t]
  BY DEF IInv, Others, insertEvent, Tops, Top
<1>2. /\ rows' = rows \cup {new} /\ records' = records \cup {Record(head + 1, id)}
      /\ UNCHANGED <<tombs, streams, open, saved, group, heard, forgotten>>
  BY DEF insertEvent, history
<1>3. \A r \in all \cup {new} : (\E q \in all : Alike(q, r))
                         \/ (r.seq \in Nat /\ r.scope \in Scopes /\ Tops[r.scope] < r.seq)
  BY <1>1 DEF Alike
<1>4. \A q \in all : \E r \in all \cup {new} : Alike(r, q)
  BY DEF Alike
<1>5. \A s \in Scopes : Tops[s] \in Nat /\ Tops'[s] \in Nat /\ Tops[s] <= Tops'[s]
  BY <1>1, TopsAreNat
<1> HIDE DEF new
<1>10. Continues(all, streams, Tops, forgotten, all \cup {new}, streams, Tops')
  BY <1>3, <1>4, <1>5 DEF Continues
<1>6. Named(heard, forgotten, all \cup {new}, streams, Tops')
  BY <1>10, TopsAreNat, StaysNamed DEF Remembers
<1>7. Named(heard, forgotten, rows \cup tombs, streams, Tops)'
  <2>1. rows' \cup tombs' = all \cup {new}
    BY <1>2
  <2> QED
    BY <1>2, <1>6, <2>1
<1>8. Named(heard, forgotten, saved.rows \cup saved.tombs, saved.streams, Heads(saved.streams))'
  BY <1>1, <1>2 DEF Remembers, Heads
<1>9. Answering'
  <2>1. ASSUME NEW h \in records, NEW r \in all, Alike(r, h) PROVE Held(h, rows' \cup tombs')
    BY <1>2, <2>1 DEF Held
  <2>2. /\ Record(head + 1, id).scope = group /\ Record(head + 1, id).epoch = streams[group].epoch
        /\ Alike(new, Record(head + 1, id))
    BY DEF Record, Alike, new
  <2>3. Held(Record(head + 1, id), rows' \cup tombs')
    BY <2>2, <1>2 DEF Held
  <2>4. group # None
    BY DEF insertEvent
  <2> QED
    BY <1>1, <1>2, <2>1, <2>2, <2>3, <2>4 DEF Remembers, Answering, Held
<1> QED
  BY <1>2, <1>7, <1>8, <1>9 DEF Remembers, OneName

LEMMA AnswerRemembers ==
  ASSUME IInv, IInv', Remembers, NEW id \in Ids, NEW at \in 0..clock, AnswerAgain(id, at)
  PROVE  Remembers'
<1>1. PICK r \in Answered(id, at) : records' = records \cup {Record(r.seq, id)}
  BY DEF AnswerAgain
<1>2. r \in rows \cup tombs /\ r.id = id /\ r.scope = group
  BY DEF Answered
<1>3. /\ group # None /\ open
      /\ UNCHANGED <<rows, tombs, streams, open, saved, group, heard, forgotten>>
      /\ Tops' = Tops
  BY DEF AnswerAgain, history, tables, Tops, Top, IInv, Others
<1>4. Named(heard, forgotten, rows \cup tombs, streams, Tops)'
  BY <1>3, SameTables
<1>5. Held(Record(r.seq, id), rows \cup tombs)
  BY <1>2 DEF Held, Alike, Record
<1>6. Record(r.seq, id).scope = group /\ Record(r.seq, id).epoch = streams[group].epoch
  BY DEF Record
<1>7. Answering'
  BY <1>1, <1>3, <1>5, <1>6 DEF Remembers, Answering
<1> QED
  BY <1>3, <1>4, <1>7 DEF Remembers, OneName, Heads

LEMMA PruneRemembers ==
  ASSUME IInv, IInv', Remembers, prune PROVE Remembers'
<1> DEFINE all == rows \cup tombs
<1>1. PICK keep \in [Scopes -> 1..(MaxHead + 1)] :
         LET goes(r) == streams[r.scope].oldest # 0 /\ r.seq < keep[r.scope]
             kept == tombs \cup
                     {[scope |-> r.scope, seq |-> r.seq, id |-> r.id,
                       at |-> r.at, pruned |-> clock] : r \in {q \in rows : goes(q)}}
         IN  /\ rows' = {r \in rows : ~goes(r)}
             /\ tombs' = {t \in kept : ~TombExpired(t)}
             /\ forgotten' = forgotten \cup {t.id : t \in {u \in kept : TombExpired(u)}}
             /\ streams' =
                   [s \in Scopes |->
                      IF streams[s].oldest = 0 THEN streams[s]
                      ELSE [streams[s] EXCEPT !.oldest = OldestLeft(s, keep[s])]]
  BY DEF prune
<1> DEFINE goes(r) == streams[r.scope].oldest # 0 /\ r.seq < keep[r.scope]
           Tomb(r) == [scope |-> r.scope, seq |-> r.seq, id |-> r.id,
                       at |-> r.at, pruned |-> clock]
           kept == tombs \cup {Tomb(r) : r \in {q \in rows : goes(q)}}
<1>2. /\ ~open /\ ~open' /\ group = None /\ group' = None
      /\ UNCHANGED <<records, heard>>
  BY DEF prune, tx, IInv, Others
<1>3. \A s \in Scopes : streams'[s].epoch = streams[s].epoch /\ streams'[s].head = streams[s].head
  BY <1>1, TopsAreNat DEF Streams
<1>4. Tops' = Tops
  BY <1>2, <1>3, NoGroup, EventLogAssumption DEF Tops, Top
<1>5. /\ rows' = {r \in rows : ~goes(r)}
      /\ tombs' = {t \in kept : ~TombExpired(t)}
      /\ forgotten' = forgotten \cup {t.id : t \in {u \in kept : TombExpired(u)}}
  BY <1>1
<1>6. \A r \in rows : Alike(Tomb(r), r) /\ Alike(r, Tomb(r)) /\ Alike(r, r)
  BY DEF Alike
<1>7. \A t \in kept : \E q \in all : Alike(q, t)
  BY <1>6 DEF Alike
<1>8. \A q \in all : q \in rows' \/ \E t \in kept : Alike(t, q)
  BY <1>5, <1>6 DEF Alike
<1> HIDE DEF goes, Tomb, kept
<1>9. \A r \in rows' \cup tombs' : \E q \in all : Alike(q, r)
  BY <1>5, <1>7 DEF Alike
<1>10. \A q \in all : q.id \in forgotten' \/ \E r \in rows' \cup tombs' : Alike(r, q)
  <2> SUFFICES ASSUME NEW q \in all, q.id \notin forgotten'
               PROVE  \E r \in rows' \cup tombs' : Alike(r, q)
    OBVIOUS
  <2>1. CASE q \in rows'
    BY <2>1 DEF Alike
  <2>2. CASE q \notin rows'
    <3>1. PICK t \in kept : Alike(t, q)
      BY <2>2, <1>8
    <3>2. ~TombExpired(t)
      BY <1>5, <3>1 DEF Alike
    <3> QED
      BY <1>5, <3>1, <3>2
  <2> QED
    BY <2>1, <2>2
<1>11. Named(heard, forgotten', rows' \cup tombs', streams', Tops)
  <2>1. forgotten \subseteq forgotten'
    BY <1>5
  <2>2. Continues(all, streams, Tops, forgotten', rows' \cup tombs', streams', Tops)
    BY <1>3, <1>9, <1>10, TopsAreNat DEF Continues
  <2> QED
    BY <2>1, <2>2, TopsAreNat, StaysNamed DEF Remembers
<1>12. Named(heard, forgotten, rows \cup tombs, streams, Tops)'
  BY <1>2, <1>4, <1>11
<1>13. Answering'
  BY <1>2 DEF Remembers, Answering
<1> QED
  BY <1>2, <1>12, <1>13 DEF Remembers, OneName

LEMMA RestartRemembers ==
  ASSUME IInv, IInv', Remembers, Restart PROVE Remembers'
<1> DEFINE disk == IF open THEN saved
                   ELSE [rows |-> rows, tombs |-> tombs, streams |-> streams]
           all == disk.rows \cup disk.tombs
<1>1. PICK f : /\ rows' = disk.rows /\ tombs' = disk.tombs
               /\ streams' = raiseReplayFloors(disk.streams, f > format)
  BY DEF Restart
<1>2. /\ Named(heard, forgotten, all, disk.streams, Heads(disk.streams))
      /\ disk.streams \in [Scopes -> Streams]
  <2>1. CASE open
    BY <2>1, TopsAreNat DEF Remembers
  <2>2. CASE ~open
    BY <2>2, NoGroup, TopsAreNat DEF Remembers, IInv, Others
  <2> QED
    BY <2>1, <2>2
<1> HIDE DEF disk
<1>3. \A s \in Scopes : /\ streams'[s].epoch = disk.streams[s].epoch
                        /\ streams'[s].head = disk.streams[s].head
  BY <1>1, <1>2 DEF raiseReplayFloors, Streams
<1>4. /\ ~open' /\ group' = None /\ records' = {} /\ UNCHANGED <<heard, forgotten>>
  BY DEF Restart, history
<1>5. Tops' = Heads(disk.streams)
  BY <1>3, <1>4, EventLogAssumption DEF Tops, Top, Heads
<1>6. Named(heard, forgotten, all, streams', Heads(disk.streams))
  <2>1. \A s \in Scopes : Heads(disk.streams)[s] \in Nat
    BY <1>2 DEF Heads, Streams
  <2>2. \A r \in all : \E q \in all : Alike(q, r)
    BY DEF Alike
  <2>3. Continues(all, disk.streams, Heads(disk.streams), forgotten,
                  all, streams', Heads(disk.streams))
    BY <2>1, <2>2, <1>3 DEF Continues
  <2> QED
    BY <2>3, <1>2, TopsAreNat, StaysNamed
<1>7. Named(heard, forgotten, rows \cup tombs, streams, Tops)'
  BY <1>1, <1>4, <1>5, <1>6
<1> QED
  BY <1>4, <1>7 DEF Remembers, OneName, Answering

LEMMA StepRemembers ==
  ASSUME IInv, IInv', Remembers, [Next]_vars PROVE Remembers'
<1>1. CASE Begin
  <2>1. /\ UNCHANGED <<rows, tombs, streams, group, heard, forgotten>> /\ Tops' = Tops
        /\ ~open /\ group = None /\ records' = {} /\ open'
    BY <1>1 DEF Begin, tables, history, IInv, Others, Tops, Top
  <2>2. Named(heard, forgotten, rows \cup tombs, streams, Tops)'
    BY <2>1, SameTables
  <2>3. Named(heard, forgotten, saved.rows \cup saved.tombs, saved.streams,
              Heads(saved.streams))'
    <3>1. saved' = [rows |-> rows, tombs |-> tombs, streams |-> streams]
      BY <1>1 DEF Begin
    <3>2. Heads(saved'.streams) = Tops
      BY <2>1, <3>1, NoGroup
    <3>3. Heads(saved.streams)' = Heads(saved'.streams)
      BY DEF Heads
    <3> QED
      BY <2>1, <3>1, <3>2, <3>3 DEF Remembers
  <2> QED
    BY <2>1, <2>2, <2>3 DEF Remembers, OneName, Answering
<1>2. ASSUME NEW s \in Scopes, ensureStream(s) PROVE Remembers'
  <2>1. /\ UNCHANGED <<rows, tombs, heard, forgotten, open, saved, records>>
        /\ group' = s /\ group = None /\ head' = streams[s].head
    BY <1>2 DEF ensureStream, history
  <2>2. \A t \in Scopes : /\ streams'[t].head = streams[t].head
                          /\ streams[t].epoch # 0 => streams'[t].epoch = streams[t].epoch
    BY <1>2, TopsAreNat DEF ensureStream, Streams
  <2>3. streams'[s].epoch # 0
    BY <1>2, TopsAreNat, EventLogAssumption DEF ensureStream, Streams, IInv, Others
  <2>4. Tops' = Tops
    BY <2>1, <2>2, EventLogAssumption DEF Tops, Top
  <2>5. Named(heard, forgotten, rows \cup tombs, streams, Tops)'
    BY <2>1, <2>2, <2>4, SameTables
  <2>6. Answering'
    BY <2>1, <2>2, <2>3, TopsAreNat DEF Remembers, Answering, Records
  <2> QED
    BY <2>1, <2>5, <2>6 DEF Remembers, OneName, Heads
<1>3. ASSUME NEW id \in Ids, NEW at \in 0..clock, AnswerAgain(id, at) \/ insertEvent(id, at)
      PROVE  Remembers'
  BY <1>3, AnswerRemembers, InsertRemembers
<1>4. CASE advanceHead
  <2>1. /\ UNCHANGED <<rows, tombs, heard, forgotten, open, saved, records>>
        /\ group' = None /\ group \in Scopes /\ Tops[group] = head
    BY <1>4 DEF advanceHead, history, IInv, Others, Tops, Top
  <2>2. \A t \in Scopes : /\ streams'[t].epoch = streams[t].epoch
                          /\ streams'[t].head = Tops[t]
    BY <1>4, <2>1, TopsAreNat DEF advanceHead, Advanced, Streams, Tops, Top
  <2>3. Tops' = Tops
    BY <2>1, <2>2, TopsAreNat, EventLogAssumption DEF Tops, Top
  <2>4. Named(heard, forgotten, rows \cup tombs, streams, Tops)'
    BY <2>1, <2>2, <2>3, SameTables
  <2>5. Answering'
    BY <2>1, <2>2, TopsAreNat DEF Remembers, Answering, Records
  <2> QED
    BY <2>1, <2>4, <2>5 DEF Remembers, OneName, Heads
<1>5. CASE Commit
  BY <1>5, CommitRemembers
<1>6. CASE Rollback
  <2>1. /\ rows' = saved.rows /\ tombs' = saved.tombs /\ streams' = saved.streams /\ open
        /\ ~open' /\ group' = None /\ records' = {} /\ UNCHANGED <<heard, forgotten>>
    BY <1>6 DEF Rollback, Restore, history
  <2>2. Tops' = Heads(saved.streams)
    BY <2>1, EventLogAssumption DEF Tops, Top, Heads
  <2>3. Named(heard, forgotten, rows \cup tombs, streams, Tops)'
    BY <2>1, <2>2 DEF Remembers
  <2> QED
    BY <2>1, <2>3 DEF Remembers, OneName, Answering
<1>7. CASE prune
  BY <1>7, PruneRemembers
<1>8. CASE Tick \/ UNCHANGED vars
  <2>1. /\ UNCHANGED <<rows, tombs, streams, heard, forgotten, open, saved, records, group>>
        /\ Tops' = Tops
    BY <1>8 DEF Tick, vars, tables, tx, history, Tops, Top
  <2>2. Named(heard, forgotten, rows \cup tombs, streams, Tops)'
    BY <2>1, SameTables
  <2> QED
    BY <2>1, <2>2 DEF Remembers, OneName, Answering, Heads
<1>9. CASE Restart
  BY <1>9, RestartRemembers
<1> QED
  BY <1>1, <1>2, <1>3, <1>4, <1>5, <1>6, <1>7, <1>8, <1>9 DEF Next, Write

\* A client that heard of an event at a cursor does not hear of another there,
\* nor of it elsewhere as long as its id is remembered, and what was heard
\* survives every rollback, kill and prune.
THEOREM HeardForever == Spec => []CursorsAreForever
<1>1. Init => Remembers
  BY DEF Init, Remembers, Named, Answering, OneName
<1>2. IInv /\ IInv' /\ Remembers /\ [Next]_vars => Remembers'
  BY StepRemembers
<1>3. IInv /\ Remembers => CursorsAreForever
  <2> SUFFICES ASSUME IInv, Remembers, NEW h \in heard, NEW k \in heard
               PROVE  /\ h.scope = k.scope /\ h.epoch = k.epoch /\ h.seq = k.seq => h = k
                      /\ h.id = k.id /\ h.id \notin forgotten => h = k
                      /\ h.id \notin forgotten => Stored(h)
    BY DEF CursorsAreForever
  <2>1. ASSUME NEW g \in heard, g.id \notin forgotten
        PROVE  \E r \in rows \cup tombs : Alike(r, g)
    BY <2>1 DEF Remembers, Named, Held
  <2>2. h.id \notin forgotten => Stored(h)
    BY <2>1 DEF Stored, Alike
  <2>3. \A r, q \in rows \cup tombs : r.id = q.id => r = q
    BY DEF IInv, Sound, Unique
  <2>4. h.id = k.id /\ h.id \notin forgotten => h.scope = k.scope /\ h.seq = k.seq
    BY <2>1, <2>3 DEF Alike
  <2> QED
    BY <2>2, <2>4 DEF Remembers, OneName
<1> QED
  BY <1>1, <1>2, <1>3, Inductive, PTL DEF Spec
=============================================================================
