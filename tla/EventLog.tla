------------------------------ MODULE EventLog ------------------------------
(***************************************************************************)
(* The durable event log of the environment server: the transaction of the *)
(* event repository (db/event-repository.ts), retention                    *)
(* (db/event-retention.ts), the replay floor raised for a new event format *)
(* (db/replay-floor.ts) and what replay reads from it (db/replay.ts).      *)
(*                                                                         *)
(* `rows`, `tombs` and `streams` are the tables event_log,                 *)
(* event_id_tombstones and event_streams as the one connection sees them;  *)
(* `saved` is what is on disk while a transaction is open.  A transaction  *)
(* runs without interleaving, but it can be refused, fail or be killed at  *)
(* any of its steps.                                                       *)
(***************************************************************************)
EXTENDS Naturals, FiniteSets, Replay

CONSTANTS
    Scopes,          \* subscription scopes, each with its own stream
    Ids,             \* event ids
    None,            \* no open group
    WindowMs,        \* retention window
    MaxEventsPerScope, \* retention cap
    TombstoneWindowMs,
    MaxHead,         \* bound: sequences of a stream
    MaxTime,         \* bound: the clock
    MaxBoots,        \* bound: processes
    MaxFormat        \* bound: event formats

ASSUME EventLogAssumption ==
    /\ None \notin Scopes
    /\ WindowMs \in Nat /\ MaxEventsPerScope \in Nat /\ TombstoneWindowMs \in Nat
    /\ MaxHead \in Nat /\ MaxTime \in Nat
    /\ MaxBoots \in Nat \ {0} /\ MaxFormat \in Nat \ {0}

VARIABLES
    rows,     \* event_log: one record per stored event
    tombs,    \* event_id_tombstones: pruned ids and the cursor they had
    streams,  \* event_streams: epoch (0: no row), head, oldest (0: NULL), floor
    open,     \* a transaction is open
    saved,    \* the tables as of BEGIN IMMEDIATE
    group,    \* the scope writeScope is writing, or None
    head,     \* writeScope's local head
    records,  \* the records the open transaction will answer
    clock,
    boot,     \* the process; its newEpoch
    format,   \* event_format
    heard,    \* history: every record answered or published
    forgotten \* history: ids whose tombstone was dropped

tables == <<rows, tombs, streams>>
tx == <<open, saved, group, head, records>>
process == <<clock, boot, format>>
history == <<heard, forgotten>>
vars == <<tables, tx, process, history>>

RowsOf(s) == {r \in rows : r.scope = s}
SeqsOf(s) == {r.seq : r \in RowsOf(s)}

-----------------------------------------------------------------------------
(* The repository's transaction.                                           *)

Begin ==
    /\ ~open
    /\ open' = TRUE
    /\ saved' = [rows |-> rows, tombs |-> tombs, streams |-> streams]
    /\ records' = {}
    /\ UNCHANGED <<tables, group, head, process, history>>

\* ensureStream: a stream that starts here takes this process's epoch, and
\* keeps it for good.
ensureStream(s) ==
    /\ open
    /\ group = None
    /\ streams' = [streams EXCEPT ![s] =
                     IF @.epoch = 0 THEN [@ EXCEPT !.epoch = boot] ELSE @]
    /\ group' = s
    /\ head' = streams[s].head
    /\ UNCHANGED <<rows, tombs, open, saved, records, process, history>>

\* Mutant: a record carries the epoch of the process that answers it.
RecordOfProcess(n, id) ==
    [scope |-> group, epoch |-> boot, seq |-> n, id |-> id]

Record(n, id) ==
    [scope |-> group, epoch |-> streams[group].epoch, seq |-> n, id |-> id]

\* An id that is stored, or whose tombstone is, answers with its own cursor
\* when it says the same thing.
Answered(id, at) ==
    {r \in rows \cup tombs : r.id = id /\ r.scope = group /\ r.at = at}

\* Mutant: tombstones are not looked at.
TakenInLog(id) == \E r \in rows : r.id = id

Taken(id) == \E r \in rows \cup tombs : r.id = id

AnswerAgain(id, at) ==
    /\ group # None
    /\ \E r \in Answered(id, at) :
          records' = records \cup {Record(r.seq, id)}
    /\ UNCHANGED <<tables, open, saved, group, head, process, history>>

insertEvent(id, at) ==
    /\ group # None
    /\ ~Taken(id)
    /\ head < MaxHead
    /\ rows' = rows \cup {[scope |-> group, seq |-> head + 1, id |-> id,
                           at |-> at, format |-> format]}
    /\ head' = head + 1
    /\ records' = records \cup {Record(head + 1, id)}
    /\ UNCHANGED <<tombs, streams, open, saved, group, process, history>>

\* Mutant: every write starts the retained range anew.
AdvancedAnew(stream, to) ==
    [epoch |-> stream.epoch, head |-> to, oldest |-> stream.head + 1,
     floor |-> stream.floor]

Advanced(stream, to) ==
    [epoch |-> stream.epoch,
     head |-> to,
     oldest |-> IF stream.oldest = 0 THEN stream.head + 1 ELSE stream.oldest,
     floor |-> stream.floor]

\* advanceHead, when writeScope wrote anything; oldest is set once.
advanceHead ==
    /\ group # None
    /\ streams' = IF head = streams[group].head THEN streams
                  ELSE [streams EXCEPT ![group] = Advanced(streams[group], head)]
    /\ group' = None
    /\ UNCHANGED <<rows, tombs, open, saved, head, records, process, history>>

Commit ==
    /\ open
    /\ group = None
    /\ open' = FALSE
    /\ heard' = heard \cup records
    /\ records' = {}
    /\ UNCHANGED <<tables, saved, group, head, process, forgotten>>

Restore ==
    /\ rows' = saved.rows
    /\ tombs' = saved.tombs
    /\ streams' = saved.streams
    /\ open' = FALSE
    /\ group' = None
    /\ records' = {}

\* An event refused for what it says, a failed statement or a failed COMMIT.
Rollback ==
    /\ open
    /\ Restore
    /\ UNCHANGED <<saved, head, process, history>>

-----------------------------------------------------------------------------
(* Retention.                                                              *)

Expired(r) == r.at + WindowMs < clock

\* Mutant: the boundary is past an expired event, whatever comes before it.
IsPastExpired(s, b) ==
    /\ b = 1 \/ \E r \in RowsOf(s) : r.seq + 1 = b /\ Expired(r)
    /\ b = streams[s].head + 1 \/ \E r \in RowsOf(s) : r.seq = b /\ ~Expired(r)

\* windowBoundary: everything before `b` is expired, and `b` is not.
IsWindowBoundary(s, b) ==
    /\ \A r \in RowsOf(s) : r.seq < b => Expired(r)
    /\ b = streams[s].head + 1 \/ \E r \in RowsOf(s) : r.seq = b /\ ~Expired(r)

\* keepFrom: the later of the window's boundary and the cap's.
IsKeepFrom(s, keep) ==
    \E b \in 1..(streams[s].head + 1) :
       /\ IsWindowBoundary(s, b)
       /\ keep = IF b + MaxEventsPerScope > streams[s].head THEN b
                 ELSE (streams[s].head + 1) - MaxEventsPerScope

TombExpired(t) == t.pruned + TombstoneWindowMs < clock

OldestLeft(s, keep) ==
    IF keep <= streams[s].oldest THEN streams[s].oldest
    ELSE IF keep > streams[s].head THEN 0
    ELSE keep

\* One transaction over every stream that retains a row: tombstone, delete,
\* set oldest; then the tombstones that are old enough go.
prune ==
    /\ ~open
    /\ \E keep \in [Scopes -> 1..(MaxHead + 1)] :
          LET goes(r) == streams[r.scope].oldest # 0 /\ r.seq < keep[r.scope]
              kept == tombs \cup
                      {[scope |-> r.scope, seq |-> r.seq, id |-> r.id,
                        at |-> r.at, pruned |-> clock] : r \in {q \in rows : goes(q)}}
          IN  /\ \A s \in Scopes :
                    IF streams[s].oldest = 0 THEN keep[s] = 1 ELSE IsKeepFrom(s, keep[s])
              /\ rows' = {r \in rows : ~goes(r)}
              /\ tombs' = {t \in kept : ~TombExpired(t)}
              /\ forgotten' = forgotten \cup {t.id : t \in {u \in kept : TombExpired(u)}}
              /\ streams' =
                    [s \in Scopes |->
                       IF streams[s].oldest = 0 THEN streams[s]
                       ELSE [streams[s] EXCEPT !.oldest = OldestLeft(s, keep[s])]]
    /\ UNCHANGED <<tx, process, heard>>

-----------------------------------------------------------------------------
(* The process.                                                            *)

Tick ==
    /\ clock < MaxTime
    /\ clock' = clock + 1
    /\ UNCHANGED <<tables, tx, boot, format, history>>

\* Mutant: a newer format hides nothing.
raiseNoFloors(table, newer) == table

\* raiseReplayFloors, first thing at boot: with a newer event format, every
\* stored event is hidden from replay.
raiseReplayFloors(table, newer) ==
    [s \in Scopes |->
       IF newer /\ table[s].head > 0 THEN [table[s] EXCEPT !.floor = table[s].head]
       ELSE table[s]]

\* The process is killed, and the next one boots, maybe with newer code.
Restart ==
    /\ boot < MaxBoots
    /\ boot' = boot + 1
    /\ \E f \in format..MaxFormat :
          LET disk == IF open THEN saved
                      ELSE [rows |-> rows, tombs |-> tombs, streams |-> streams]
          IN  /\ format' = f
              /\ rows' = disk.rows
              /\ tombs' = disk.tombs
              /\ streams' = raiseReplayFloors(disk.streams, f > format)
    /\ open' = FALSE /\ group' = None /\ records' = {}
    /\ UNCHANGED <<saved, head, clock, history>>

-----------------------------------------------------------------------------

NoStream == [epoch |-> 0, head |-> 0, oldest |-> 0, floor |-> 0]

Init ==
    /\ rows = {} /\ tombs = {}
    /\ streams = [s \in Scopes |-> NoStream]
    /\ open = FALSE
    /\ saved = [rows |-> {}, tombs |-> {}, streams |-> [s \in Scopes |-> NoStream]]
    /\ group = None /\ head = 0 /\ records = {}
    /\ clock = 0 /\ boot = 1 /\ format = 1
    /\ heard = {} /\ forgotten = {}

\* An event's own timestamp is never ahead of the clock; it may be behind it.
Write ==
    \/ Begin
    \/ \E s \in Scopes : ensureStream(s)
    \/ \E id \in Ids, at \in 0..clock : AnswerAgain(id, at) \/ insertEvent(id, at)
    \/ advanceHead
    \/ Commit
    \/ Rollback

Next == Write \/ prune \/ Tick \/ Restart

Spec == Init /\ [][Next]_vars

-----------------------------------------------------------------------------
(* Properties.                                                             *)

Rows == [scope : Scopes, seq : 1..MaxHead, id : Ids, at : 0..MaxTime,
         format : 1..MaxFormat]
Tombs == [scope : Scopes, seq : 1..MaxHead, id : Ids, at : 0..MaxTime,
          pruned : 0..MaxTime]
Streams == [epoch : 0..MaxBoots, head : 0..MaxHead, oldest : 0..MaxHead,
            floor : 0..MaxHead]
Records == [scope : Scopes, epoch : 0..MaxBoots, seq : 1..MaxHead, id : Ids]

\* Every variable has its type.
TypeOK ==
    /\ rows \subseteq Rows
    /\ tombs \subseteq Tombs
    /\ streams \in [Scopes -> Streams]
    /\ open \in BOOLEAN
    /\ saved.rows \subseteq Rows
    /\ saved.tombs \subseteq Tombs
    /\ saved.streams \in [Scopes -> Streams]
    /\ group \in Scopes \cup {None}
    /\ head \in 0..MaxHead
    /\ records \subseteq Records
    /\ clock \in 0..MaxTime
    /\ boot \in 1..MaxBoots
    /\ format \in 1..MaxFormat
    /\ heard \subseteq Records
    /\ forgotten \subseteq Ids

Low(s) == IF streams[s].oldest = 0 THEN streams[s].head + 1 ELSE streams[s].oldest
Top(s) == IF group = s THEN head ELSE streams[s].head

\* db/event-repository.ts:103-106, db/event-retention.ts:143-150: the log
\* holds every sequence from the stream's oldest to its head and no other,
\* across prunes, rolled back writes and restarts, so a cursor that retention
\* has not passed never misses an event.
LogIsContiguous ==
    \A s \in Scopes : SeqsOf(s) = Low(s)..Top(s)

\* db/event-repository.ts:270-310: an event id is stored once, under one
\* cursor, in the log or among the tombstones, and a cursor holds one event.
OneCursorPerEvent ==
    \A r, q \in rows \cup tombs :
       r.id = q.id \/ (r.scope = q.scope /\ r.seq = q.seq) => r = q

Stored(h) ==
    \E r \in rows \cup tombs : r.id = h.id /\ r.scope = h.scope /\ r.seq = h.seq

\* A client that heard of an event at a cursor will not hear of another event
\* at that cursor, nor of that event at another cursor, by any retry, as long
\* as its id is remembered; and what was heard survives every crash.
CursorsAreForever ==
    \A h, k \in heard :
       /\ h.scope = k.scope /\ h.epoch = k.epoch /\ h.seq = k.seq => h = k
       /\ h.id = k.id /\ h.id \notin forgotten => h = k
       /\ h.id \notin forgotten => Stored(h)

HeadOf(s) == Cursor(IF streams[s].epoch = 0 THEN boot ELSE streams[s].epoch,
                    streams[s].head)

After(s, n) == {r \in RowsOf(s) : r.seq > n}

AnswersTo(s, cursor) ==
    read(cursor, HeadOf(s),
         IF streams[s].epoch = 0 THEN 0 ELSE oldestReplayable(streams[s]),
         Cardinality(After(s, cursor.seq)))

Cursors == {NoCursor} \cup {Cursor(e, n) : e \in 1..MaxBoots, n \in 0..MaxHead}

\* db/replay.ts:169-288, db/replay-floor.ts:11-19: a replay carries every
\* event after the cursor up to the head, and none written in an older format.
ReplayIsComplete ==
    ~open =>
       \A s \in Scopes, c \in Cursors : \A a \in AnswersTo(s, c) :
          a.mode = "replay" =>
             /\ {r.seq : r \in After(s, c.seq)} = (c.seq + 1)..a.to.seq
             /\ \A r \in After(s, c.seq) : r.format = format

\* protocol/src/replay.ts:412-447: the client accepts every answer the server
\* gives, whatever cursor it sent: one it was given, one from another epoch,
\* or one ahead of a restored log.
AnswersAreAccepted ==
    ~open => \A s \in Scopes, c \in Cursors : \A a \in AnswersTo(s, c) :
                AcceptsAnswer(c, a)

\* db/event-retention.ts:143-150, 177-178: an event leaves the log only when it
\* is older than the window or past the cap, and leaves a tombstone with its
\* cursor; a young event under the cap is kept even when its neighbours are old.
PruneKeepsRecent ==
    [][\A r \in rows : ~open /\ r \notin rows' =>
          /\ Expired(r) \/ r.seq + MaxEventsPerScope <= streams[r.scope].head
          /\ \E t \in tombs' : t.id = r.id /\ t.scope = r.scope /\ t.seq = r.seq]_vars

\* A stream keeps its epoch once it has one, and its committed head never goes
\* back, whatever is pruned, rolled back or restarted.
HeadsNeverGoBack ==
    [][\A s \in Scopes :
          LET old == IF open THEN saved.streams ELSE streams
              new == IF open' THEN saved'.streams ELSE streams'
          IN  /\ old[s].epoch # 0 => new[s].epoch = old[s].epoch
              /\ new[s].head >= old[s].head]_vars
=============================================================================
