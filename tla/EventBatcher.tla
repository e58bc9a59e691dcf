---------------------------- MODULE EventBatcher ----------------------------
(***************************************************************************)
(* The write path of the environment server: createStreamingEventBatcher   *)
(* (db/event-batcher.ts) over the event repository's transaction, and the  *)
(* event service's calls into it (event-service.ts).                       *)
(*                                                                         *)
(* Text deltas gather in `buffered` until a barrier, a limit or the timer  *)
(* writes them; a batch whose write failed is frozen in `pending` and is   *)
(* retried before anything behind it.  A call runs to its end without      *)
(* interleaving (JavaScript), so its steps are guarded by `phase`; a kill  *)
(* may come between any two of them.                                       *)
(*                                                                         *)
(* An item is an event as it travels: the id it keeps and, as its body,    *)
(* the events whose text it carries.                                       *)
(***************************************************************************)
EXTENDS Naturals, Queues

CONSTANTS
    Events,       \* event ids, each produced once
    Ev,           \* what an event says: its kind, scope, turn and part
    Refusable,    \* events the projection refuses, whenever they come
    MaxBatch,     \* maxEvents and maxBytes, taken as one limit
    MaxFailures,  \* bound: failed writes and failed publishes
    MaxNotices,   \* bound: transient notices
    None

Kinds == {"delta", "whole", "terminal"}

\* A refusal is about the turn or the part an event names, so the pieces that
\* coalesce are refused together.
ASSUME EventAssumption ==
    /\ \A e \in Events : Ev[e].kind \in Kinds
    /\ \A e, f \in Events :
          Ev[e].kind = "delta" /\ Ev[e] = Ev[f] =>
             (e \in Refusable <=> f \in Refusable)
    /\ MaxFailures \in Nat /\ MaxNotices \in Nat

VARIABLES
    queued,    \* appended, not in a batch yet
    buffered,  \* the batch being gathered
    pending,   \* the frozen batch of a failed write; <<>> is `undefined`
    timer,     \* the 100 ms timer is armed
    phase,     \* which call is running, "idle" when none is
    arg,       \* the event a direct write carries
    log,       \* committed rows, in commit order
    published, \* rows handed to the delivery queue, repeats included
    notices,   \* transient notices placed
    fails,     \* failures so far
    produced,  \* history: every event taken, in order
    dropped,   \* history: events refused and reported
    lost,      \* history: events a kill took from memory
    silent     \* history: rows of a direct write whose publish threw

memory == <<queued, buffered, pending, timer>>
disk == <<log, published>>
history == <<produced, dropped, lost, silent>>
vars == <<memory, phase, arg, disk, notices, fails, history>>

-----------------------------------------------------------------------------
(* Items and batches.                                                      *)

Items == [id : Events, body : Seq(Events) \ {<<>>}]

Item(e) == [id |-> e, body |-> <<e>>]

Bodies(items) ==
    LET text[i \in 0..Len(items)] ==
            IF i = 0 THEN <<>> ELSE text[i - 1] \o items[i].body
    IN  text[Len(items)]

IsTerminal(item) == Ev[item.id].kind = "terminal"
IsStreamEvent(item) == Ev[item.id].kind = "delta"
SameScope(a, b) == Ev[a.id].scope = Ev[b.id].scope

\* Adjacent text of one part joins; the joined item keeps the first id.
Coalesces(a, b) ==
    /\ IsStreamEvent(a) /\ IsStreamEvent(b)
    /\ Ev[a.id] = Ev[b.id]

coalesceDeltas(items) ==
    FoldLeft(LAMBDA done, item :
                IF done # <<>> /\ Coalesces(Last(done), item)
                THEN Append(Front(done),
                            [Last(done) EXCEPT !.body = @ \o item.body])
                ELSE Append(done, item),
             <<>>, items)

-----------------------------------------------------------------------------
(* One write: finalizeTurn or appendEvents, then publish.                  *)

\* Mutant: rows already written are not found by their id.
InLogNever(item) == FALSE

InLog(item) == item \in ToSet(log)

TurnEnded(turn) ==
    \E i \in DOMAIN log : IsTerminal(log[i]) /\ Ev[log[i].id].turn = turn

\* The rows refuse what the projection refuses, an id that is already written
\* with another body, and output for a turn that ended.  What is written
\* already is not written again.
RefusedAlone(item) ==
    /\ ~InLog(item)
    /\ \/ \E i \in DOMAIN item.body : item.body[i] \in Refusable
       \/ \E i \in DOMAIN log : log[i].id = item.id
       \/ TurnEnded(Ev[item.id].turn)

\* finalizeTurn takes one terminal, last, and only events of its turn.
MixedTurns(batch) ==
    /\ IsTerminal(Last(batch))
    /\ \E i \in 1..(Len(batch) - 1) :
          \/ IsTerminal(batch[i])
          \/ Ev[batch[i].id].turn # Ev[Last(batch).id].turn

RefusedWhole(batch) ==
    MixedTurns(batch) \/ \E i \in DOMAIN batch : RefusedAlone(batch[i])

\* Rows already written are found by their id and keep their place.
Unwritten(batch) == Only(batch, {item \in ToSet(batch) : ~InLog(item)})

Written(batch) == log \o Unwritten(batch)

CanFail == fails < MaxFailures

\* Mutant: a publish that throws counts as done.
AttemptsIgnoringPublish(batch) ==
    {[log |-> Written(batch), published |-> published \o batch, end |-> "ok"]}
    \cup
    (IF ~CanFail THEN {} ELSE
       {[log |-> log, published |-> published, end |-> "failed"]} \cup
       {[log |-> Written(batch), published |-> published \o SubSeq(batch, 1, n),
         end |-> "ok"] : n \in 0..(Len(batch) - 1)})

\* A write that is not refused commits and publishes; or fails before the
\* commit; or commits and throws while publishing, after some of its records.
Attempts(batch) ==
    {[log |-> Written(batch), published |-> published \o batch, end |-> "ok"]}
    \cup
    (IF ~CanFail THEN {} ELSE
       {[log |-> log, published |-> published, end |-> "failed"]} \cup
       {[log |-> Written(batch), published |-> published \o SubSeq(batch, 1, n),
         end |-> "failed"] : n \in 0..(Len(batch) - 1)})

-----------------------------------------------------------------------------
(* flushBuffered, with isolate and drop: every way the call can end.       *)

\* Mutant: a failure keeps only what comes after the event that failed.
IsolatedSkipping(batch) ==
    LET accepted(n) ==
            Only(SubSeq(batch, 1, n), {item \in ToSet(batch) : ~RefusedAlone(item)})
        refused(n) ==
            UNION {ToSet(batch[i].body) : i \in {j \in 1..n : RefusedAlone(batch[j])}}
        stopped(k, rows) ==
            [log |-> Written(rows), published |-> published \o accepted(k - 1),
             keep |-> SubSeq(batch, k + 1, Len(batch)), refused |-> refused(k - 1),
             end |-> "failed"]
    IN  {[log |-> Written(accepted(Len(batch))),
          published |-> published \o accepted(Len(batch)),
          keep |-> <<>>, refused |-> refused(Len(batch)), end |-> "dropped"]}
        \cup
        (IF ~CanFail THEN {} ELSE
           UNION {{stopped(k, accepted(k - 1)), stopped(k, accepted(k))}
                  : k \in DOMAIN batch})

\* isolate: events one at a time, refused ones dropped, until the end or until
\* a failure at the k-th, which keeps the rest as the batch to retry.
Isolated(batch) ==
    LET accepted(n) ==
            Only(SubSeq(batch, 1, n), {item \in ToSet(batch) : ~RefusedAlone(item)})
        refused(n) ==
            UNION {ToSet(batch[i].body) : i \in {j \in 1..n : RefusedAlone(batch[j])}}
        stopped(k, rows) ==
            [log |-> Written(rows), published |-> published \o accepted(k - 1),
             keep |-> SubSeq(batch, k, Len(batch)), refused |-> refused(k - 1),
             end |-> "failed"]
    IN  {[log |-> Written(accepted(Len(batch))),
          published |-> published \o accepted(Len(batch)),
          keep |-> <<>>, refused |-> refused(Len(batch)), end |-> "dropped"]}
        \cup
        (IF ~CanFail THEN {} ELSE
           UNION {{stopped(k, accepted(k - 1)), stopped(k, accepted(k))}
                  : k \in DOMAIN batch})

\* `keep` is what stays in memory: the frozen batch when the write failed.
FlushResults(batch) ==
    IF RefusedWhole(batch) THEN
       Isolated(batch)
    ELSE
       {[log |-> a.log, published |-> a.published, refused |-> {}, end |-> a.end,
         keep |-> IF a.end = "ok" THEN <<>> ELSE batch] : a \in Attempts(batch)}

\* The batch of a failed write is not coalesced again.
BatchOf(items) == IF pending # <<>> THEN pending ELSE coalesceDeltas(items)

\* Mutant: the buffer is cleared however the write ends.
flushBufferedClearing(items, failed, done) ==
    \E batch \in {BatchOf(items)} : \E r \in FlushResults(batch) :
       /\ log' = r.log
       /\ published' = r.published
       /\ dropped' = dropped \cup r.refused
       /\ timer' = FALSE
       /\ pending' = r.keep
       /\ buffered' = <<>>
       /\ fails' = IF r.end = "failed" THEN fails + 1 ELSE fails
       /\ IF r.end = "failed" THEN failed ELSE done

\* One call of flushBuffered on `items`; `failed` and `done` say where the
\* caller goes on.
flushBuffered(items, failed, done) ==
    \E batch \in {BatchOf(items)} : \E r \in FlushResults(batch) :
       /\ log' = r.log
       /\ published' = r.published
       /\ dropped' = dropped \cup r.refused
       /\ timer' = FALSE
       /\ pending' = r.keep
       /\ buffered' = r.keep
       /\ fails' = IF r.end = "failed" THEN fails + 1 ELSE fails
       /\ IF r.end = "failed" THEN failed ELSE done

-----------------------------------------------------------------------------
(* The calls.                                                              *)

Begin(call) ==
    /\ phase = "idle"
    /\ phase' = call

Return == phase' = "idle" /\ arg' = None /\ UNCHANGED notices

\* A call that fails throws to its caller; publishTransient catches, and
\* places its notice after what did commit.
Throw ==
    /\ phase' = "idle"
    /\ arg' = None
    /\ notices' = IF phase = "notice" THEN notices + 1 ELSE notices

Stay == UNCHANGED <<phase, arg, notices>>

append(e) ==
    /\ Begin("append")
    /\ queued' = Append(queued, Item(e))
    /\ produced' = Append(produced, e)
    /\ UNCHANGED <<buffered, pending, timer, arg, disk, notices, fails,
                   dropped, lost, silent>>

\* flush, close, and the flush that commands ask for before they read.
flushAll ==
    /\ Begin("flush")
    /\ UNCHANGED <<memory, arg, disk, notices, fails, history>>

TimerFires ==
    /\ timer
    /\ Begin("timer")
    /\ UNCHANGED <<memory, arg, disk, notices, fails, history>>

\* appendAtomic and finalizeNow: everything appended first, then this write.
appendAtomic(e) ==
    /\ Begin("direct")
    /\ arg' = e
    /\ UNCHANGED <<memory, disk, notices, fails, history>>

publishTransient ==
    /\ notices < MaxNotices
    /\ Begin("notice")
    /\ UNCHANGED <<memory, arg, disk, notices, fails, history>>

-----------------------------------------------------------------------------
(* drain and take, and how each call ends.                                 *)

\* A failed batch is finished before anything else is taken.
DrainPending ==
    /\ phase # "idle"
    /\ pending # <<>>
    /\ flushBuffered(buffered, Throw, Stay)
    /\ UNCHANGED <<queued, produced, lost, silent>>

FlushesBefore(item) ==
    /\ buffered # <<>>
    /\ \/ ~SameScope(buffered[1], item)
       \/ ~IsTerminal(item) /\ ~IsStreamEvent(item)

FlushesWith(items) ==
    \/ ~IsStreamEvent(Last(items))
    \/ Len(items) >= MaxBatch

\* take, its first half: a write the event must follow goes first.
TakeBarrier ==
    /\ phase # "idle"
    /\ pending = <<>>
    /\ queued # <<>>
    /\ FlushesBefore(queued[1])
    /\ flushBuffered(buffered, Throw, Stay)
    /\ UNCHANGED <<queued, produced, lost, silent>>

\* take, its second half: the event joins the batch, and is written with it
\* or waits for the timer.
take ==
    /\ phase # "idle"
    /\ pending = <<>>
    /\ queued # <<>>
    /\ ~FlushesBefore(queued[1])
    /\ queued' = Tail(queued)
    /\ LET items == Append(buffered, queued[1])
       IN  \/ /\ FlushesWith(items)
              /\ flushBuffered(items, Throw, Stay)
           \/ /\ ~FlushesWith(items)
              /\ buffered' = items
              /\ timer' = TRUE
              /\ UNCHANGED <<pending, disk, dropped, fails>>
              /\ Stay
    /\ UNCHANGED <<produced, lost, silent>>

\* Mutant: the queue is not waited for.
DrainedOfPending == pending = <<>>

Drained == pending = <<>> /\ queued = <<>>

\* Mutant: an append that drained the queue disarms the timer.
EndAppendDisarming ==
    /\ phase = "append"
    /\ Drained
    /\ timer' = FALSE
    /\ Return
    /\ UNCHANGED <<queued, buffered, pending, disk, fails, history>>

EndAppend ==
    /\ phase = "append"
    /\ Drained
    /\ Return
    /\ UNCHANGED <<memory, disk, fails, history>>

\* Every other call writes what the drain left in the batch.
FlushLast ==
    /\ phase \notin {"idle", "append"}
    /\ Drained
    /\ buffered # <<>>
    /\ flushBuffered(buffered, Throw,
                     IF phase \in {"flush", "timer"} THEN Return ELSE Stay)
    /\ UNCHANGED <<queued, produced, lost, silent>>

EndFlush ==
    /\ phase \in {"flush", "timer"}
    /\ Drained
    /\ buffered = <<>>
    /\ timer' = FALSE
    /\ Return
    /\ UNCHANGED <<queued, buffered, pending, disk, fails, history>>

EndNotice ==
    /\ phase = "notice"
    /\ Drained
    /\ buffered = <<>>
    /\ timer' = FALSE
    /\ Throw
    /\ UNCHANGED <<queued, buffered, pending, disk, fails, history>>

\* The direct write itself.  Failed, it is answered as failed and forgotten;
\* a publish that throws after its commit is not repeated by anyone.
WriteDirect ==
    /\ phase = "direct"
    /\ Drained
    /\ buffered = <<>>
    /\ timer' = FALSE
    /\ LET batch == <<Item(arg)>>
       IN  IF RefusedWhole(batch)
           THEN UNCHANGED <<disk, fails, produced, silent>>
           ELSE \E a \in Attempts(batch) :
                   /\ log' = a.log
                   /\ published' = a.published
                   /\ fails' = IF a.end = "failed" THEN fails + 1 ELSE fails
                   /\ produced' = IF a.log = log THEN produced
                                  ELSE Append(produced, arg)
                   /\ silent' = IF a.log # log /\ a.end = "failed"
                                THEN silent \cup {Item(arg)} ELSE silent
    /\ Return
    /\ UNCHANGED <<queued, buffered, pending, dropped, lost>>

\* The process is killed: memory goes, the rows stay, and a new process
\* serves them all to whoever replays.
Crash ==
    /\ phase' = "idle" /\ arg' = None
    /\ lost' = lost \cup (ToSet(Bodies(buffered \o queued)) \ ToSet(Bodies(log)))
    /\ queued' = <<>> /\ buffered' = <<>> /\ pending' = <<>> /\ timer' = FALSE
    /\ published' = log
    /\ silent' = {}
    /\ UNCHANGED <<log, notices, fails, produced, dropped>>

-----------------------------------------------------------------------------

Init ==
    /\ queued = <<>> /\ buffered = <<>> /\ pending = <<>> /\ timer = FALSE
    /\ phase = "idle" /\ arg = None
    /\ log = <<>> /\ published = <<>>
    /\ notices = 0 /\ fails = 0
    /\ produced = <<>> /\ dropped = {} /\ lost = {} /\ silent = {}

New == Events \ ToSet(produced)

Call ==
    \/ \E e \in New : append(e)
    \/ \E e \in {f \in New : Ev[f].kind # "delta"} : appendAtomic(e)
    \/ flushAll
    \/ publishTransient

Step ==
    \/ DrainPending \/ TakeBarrier \/ take
    \/ EndAppend \/ FlushLast \/ EndFlush \/ EndNotice \/ WriteDirect

Next == Call \/ TimerFires \/ Step \/ Crash

\* A call that began runs to its end, and an armed timer fires.
Fairness == WF_vars(Step) /\ WF_vars(TimerFires)

Spec == Init /\ [][Next]_vars /\ Fairness

-----------------------------------------------------------------------------
(* Properties.                                                             *)

\* Every variable has its type, and a frozen batch has the same text as the
\* buffer it was made from.
TypeOK ==
    /\ timer \in BOOLEAN
    /\ phase \in {"idle", "append", "flush", "timer", "direct", "notice"}
    /\ arg \in Events \cup {None}
    /\ notices \in 0..MaxNotices
    /\ fails \in 0..MaxFailures
    /\ produced \in Seq(Events)
    /\ dropped \subseteq Events
    /\ lost \subseteq Events
    /\ \A s \in {queued, buffered, pending, log, published} : s \in Seq(Items)
    /\ pending # <<>> => Bodies(pending) = Bodies(buffered)

Accepted == Only(produced, Events \ (dropped \cup lost))

\* event-batcher.ts:75-85: an event that was appended and not refused is on
\* disk, in the batch or in the queue, and the three together are in the order
\* the events were appended, whatever failed, was retried or was isolated.
NothingLostOrReordered ==
    LET batch == IF pending # <<>> THEN pending ELSE buffered
    IN  Accepted = Bodies(log)
                   \o Bodies(Unwritten(batch))
                   \o Bodies(queued)

\* event-batcher.ts:82-85 with write-errors.ts: an event is dropped only for
\* what it says.  Its own retry never makes the rows refuse it, and neither
\* does the end of its turn, unless that end was produced first.
DroppedForCause ==
    \A e \in dropped :
       \/ e \in Refusable
       \/ \E i, j \in DOMAIN produced :
             /\ i < j
             /\ produced[j] = e
             /\ Ev[produced[i]].kind = "terminal"
             /\ Ev[produced[i]].turn = Ev[e].turn

\* A sequence without its repeats.
FirstOf(s) ==
    FoldLeft(LAMBDA seen, x : IF x \in ToSet(seen) THEN seen ELSE Append(seen, x),
             <<>>, s)

\* What the rows of a direct write that never published leave of a sequence.
Voiced(s) == Only(s, ToSet(s) \ silent)

\* event-batcher.ts:65-67 and 141: rows reach the delivery queue in commit
\* order and none is skipped; a committed row not published yet is in the
\* frozen batch, so its retry publishes it before any later row.
PublishedInOrder ==
    LET rows == Voiced(log)
        heard == FirstOf(Voiced(published))
    IN  /\ IsPrefix(heard, rows)
        /\ \A i \in (Len(heard) + 1)..Len(rows) :
              \E j \in DOMAIN pending : pending[j] = rows[i]

\* event-batcher.ts:71-73: buffered text is written, by its timer if nothing
\* else does it, or its write has failed.
BufferedIsFlushed ==
    (buffered # <<>>) ~> (buffered = <<>> \/ pending # <<>>)

\* The write path implements ordered durability.
Durability == INSTANCE OrderedDurability
                 WITH accepted <- Accepted, durable <- Bodies(log)
ImplementsOrderedDurability == Durability!Spec
=============================================================================
