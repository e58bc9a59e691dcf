----------------------------- MODULE Connection -----------------------------
(***************************************************************************)
(* The outbound side of one connection of the environment server: the      *)
(* connection writer (connection-writer.ts), the subscriptions it serves   *)
(* (websocket.ts) and the delivery queue that feeds it                     *)
(* (event-delivery.ts).                                                    *)
(*                                                                         *)
(* All of it runs in one thread, in calls that call each other; `stack`    *)
(* holds what the running call has left to do, the innermost part first.   *)
(* A new call starts when it is empty.  A cursor is the sequence of its    *)
(* record: every scope keeps one epoch while a connection lives.           *)
(***************************************************************************)
EXTENDS Naturals, Sequences, FiniteSets, SequencesExt, Queues

CONSTANTS
    Scopes,
    Subs,         \* subscription ids, each given out once
    ScopeOf,      \* the scope a subscription id will be given for
    Windows,      \* the send windows acknowledgements may lead to, in bytes
    backlogBytes,
    Sizes,        \* the sizes of a frame, in bytes; a fragment may carry one
    ReplayThrows, \* whether options.replay may throw
    MaxHead,      \* bound: records of a scope
    MaxNotices,   \* bound: transients and readings
    MaxKeepalives,\* bound: keepalives
    None

ASSUME ConnectionAssumption ==
    /\ ScopeOf \in [Subs -> Scopes]
    /\ Windows \subseteq Nat \ {0} /\ Windows # {}
    /\ Sizes \subseteq Nat \ {0}
    /\ backlogBytes \in Nat \ {0}
    /\ ReplayThrows \in BOOLEAN
    /\ MaxHead \in Nat
    /\ None \notin Nat /\ None \notin Subs

VARIABLES
    head,          \* per scope, its last committed record
    gone,          \* scopes that were deleted
    deliveries,    \* the process's delivery queue
    notices,       \* transients and readings placed so far
    active,        \* the connection is open
    ids,           \* per subscription id: fresh, given or ended
    subscriptions, \* the registered ids, in order of registration
    queue,         \* the writer's queue
    queuedScopedBytes,
    partial,       \* the message being written in fragments, and its bytes left
    inFlight,      \* sent - acked
    window,
    wire,          \* frames written and not acknowledged
    keepalives,
    promised,      \* per id, the newest cursor sure to be delivered
    lagging,       \* the lagging ids, and the cursor each starts again from
    stack,         \* what the running call has left to do
    due,           \* the ids the running catchUp has left
    owed,          \* the answer the running command will give
    reader,        \* history: per id, where the written frames lead a reader
    shared         \* history: ids registered beside another of their scope

log == <<head, gone, notices>>
registry == <<active, ids, subscriptions>>
link == <<inFlight, window, wire, keepalives, partial>>
writer == <<queue, queuedScopedBytes, promised, lagging, reader>>
call == <<stack, due, owed>>
vars == <<log, deliveries, registry, writer, link, call, shared>>

Idle == stack = <<>>
Running(part) == ~Idle /\ Head(stack) = part
Then(parts) == stack' = parts \o Tail(stack)
Within(part) == \E i \in DOMAIN stack : stack[i] = part

-----------------------------------------------------------------------------
(* Items and the queue.                                                    *)

Item(kind, sub, from, to, bytes) ==
    [kind |-> kind, sub |-> sub, from |-> from, to |-> to, bytes |-> bytes]

Scoped(item) == item.kind \in {"record", "transient"}
IsResponse(item) == item.kind \in {"answer", "catchup", "lagging"}

ScopedBytes(items) == Bytes(Only(items, {item \in ToSet(items) : Scoped(item)}))

Unscoped(items) == Only(items, {item \in ToSet(items) : ~Scoped(item)})

WithoutFramesOf(s, items) ==
    Only(items, {item \in ToSet(items) : ~(Scoped(item) /\ item.sub = s)})

Push(item) == queue' = Append(queue, item)

ScopesWith(s) == {t \in ToSet(subscriptions) : ScopeOf[t] = s}

\* The newest registration of a scope gets its frames.
Receiver(s) ==
    LET of == Only(subscriptions, ScopesWith(s))
    IN  IF of = <<>> THEN None ELSE Last(of)

-----------------------------------------------------------------------------
(* Commits and the delivery queue.                                         *)

Delivery(kind, scope, to) == [kind |-> kind, scope |-> scope, to |-> to]

\* A record is committed and enqueued in one call, which is not one of this
\* connection's.
Publish(s) ==
    /\ Idle
    /\ s \notin gone
    /\ head[s] < MaxHead
    /\ head' = [head EXCEPT ![s] = @ + 1]
    /\ deliveries' = Append(deliveries, Delivery("record", s, head[s] + 1))
    /\ UNCHANGED <<gone, notices, registry, writer, link, call, shared>>

Notify(notice) ==
    /\ Idle
    /\ notices < MaxNotices
    /\ notices' = notices + 1
    /\ deliveries' = Append(deliveries, notice)
    /\ UNCHANGED <<head, gone, registry, writer, link, call, shared>>

DeleteScope(s) ==
    /\ Idle
    /\ gone' = gone \cup {s}
    /\ UNCHANGED <<head, notices, deliveries, registry, writer, link, call, shared>>

\* The scheduled microtask.
drain ==
    /\ Idle
    /\ deliveries # <<>>
    /\ stack' = <<"drain">>
    /\ UNCHANGED <<log, deliveries, registry, writer, link, due, owed, shared>>

DrainEnds ==
    /\ Running("drain")
    /\ deliveries = <<>>
    /\ Then(<<>>)
    /\ UNCHANGED <<log, deliveries, registry, writer, link, due, owed, shared>>

\* Mutant: the frames of a lagging subscription stay in the queue.
cutKeepingFrames(also) ==
    LET affected == {also} \cup
                    {queue[i].sub : i \in {j \in DOMAIN queue : Scoped(queue[j])}}
        notice(s) == Item("lagging", s, promised[s], None, 1)
    IN  /\ lagging' = [s \in DOMAIN lagging \cup affected |->
                         IF s \in affected THEN promised[s] ELSE lagging[s]]
        /\ \E order \in SetToSeqs(affected) :
              queue' = queue \o [i \in DOMAIN order |-> notice(order[i])]
        /\ UNCHANGED queuedScopedBytes

\* Mutant: only the subscription whose frame came too late goes lagging.
cutOne(also) ==
    /\ lagging' = [s \in DOMAIN lagging \cup {also} |->
                     IF s = also THEN promised[s] ELSE lagging[s]]
    /\ queue' = Append(Unscoped(queue), Item("lagging", also, promised[also], None, 1))
    /\ queuedScopedBytes' = 0

\* Every subscription with live frames in the queue goes lagging, and `also`.
cut(also) ==
    LET affected == {also} \cup
                    {queue[i].sub : i \in {j \in DOMAIN queue : Scoped(queue[j])}}
        notice(s) == Item("lagging", s, promised[s], None, 1)
    IN  /\ lagging' = [s \in DOMAIN lagging \cup affected |->
                         IF s \in affected THEN promised[s] ELSE lagging[s]]
        /\ \E order \in SetToSeqs(affected) :
              queue' = Unscoped(queue) \o [i \in DOMAIN order |-> notice(order[i])]
        /\ queuedScopedBytes' = 0

\* Mutant: a frame that does not fit is dropped without a cut.
enqueueScopedDropping(item) ==
    \/ /\ \/ item.sub \in DOMAIN lagging
          \/ queuedScopedBytes + item.bytes > backlogBytes
       /\ Then(<<"drain">>)
       /\ UNCHANGED writer
    \/ /\ item.sub \notin DOMAIN lagging
       /\ queuedScopedBytes + item.bytes <= backlogBytes
       /\ Then(<<"pump", "drain">>)
       /\ Push(item)
       /\ queuedScopedBytes' = queuedScopedBytes + item.bytes
       /\ UNCHANGED <<lagging, promised, reader>>

enqueueScoped(item) ==
    \/ /\ item.sub \in DOMAIN lagging
       /\ Then(<<"drain">>)
       /\ UNCHANGED writer
    \/ /\ item.sub \notin DOMAIN lagging
       /\ Then(<<"pump", "drain">>)
       /\ IF queuedScopedBytes + item.bytes > backlogBytes
          THEN cut(item.sub)
          ELSE /\ Push(item)
               /\ queuedScopedBytes' = queuedScopedBytes + item.bytes
               /\ UNCHANGED lagging
       /\ UNCHANGED <<promised, reader>>

\* A newer reading replaces a queued older one of its key.
enqueueReading(item) ==
    /\ queue' = Append(Only(queue, {old \in ToSet(queue) : old.kind # "reading"}), item)
    /\ Then(<<"pump", "drain">>)
    /\ UNCHANGED <<queuedScopedBytes, promised, lagging, reader>>

\* The queue's next item, to this connection.
deliver ==
    /\ Running("drain")
    /\ deliveries # <<>>
    /\ deliveries' = Tail(deliveries)
    /\ LET next == Head(deliveries)
           to == Receiver(next.scope)
       IN  \/ /\ ~active \/ (next.kind # "reading" /\ to = None)
              /\ UNCHANGED <<writer, stack>>
           \/ /\ active /\ next.kind # "reading" /\ to # None
              /\ \E bytes \in Sizes :
                    enqueueScoped(Item(next.kind, to, None, next.to, bytes))
           \/ /\ active /\ next.kind = "reading"
              /\ enqueueReading(Item("reading", None, None, None, 1))
    /\ UNCHANGED <<log, registry, link, due, owed, shared>>

-----------------------------------------------------------------------------
(* pump: write while the window allows, in order.                          *)

\* Where a frame leads a reader of its subscription.
Reads(at, item) ==
    CASE item.kind \in {"answer", "catchup"} /\ item.to # None -> item.to
      [] item.kind = "record" -> IF at = None \/ item.to > at THEN item.to ELSE at
      [] OTHER -> at

\* A closed connection's socket takes nothing, but the writer counts it.
Send(part, bytes) ==
    /\ inFlight' = inFlight + bytes
    /\ wire' = IF active THEN Append(wire, [part |-> part, bytes |-> bytes]) ELSE wire

WriteFragment ==
    /\ Running("pump")
    /\ inFlight < window
    /\ partial # None
    /\ \E bytes \in Sizes :
          LET slice == IF bytes < partial THEN bytes ELSE partial
          IN  /\ Send(IF slice < partial THEN "more" ELSE "last", slice)
              /\ partial' = IF slice < partial THEN partial - slice ELSE None
    /\ UNCHANGED <<log, deliveries, registry, writer, window, keepalives, call, shared>>

\* The next item: one frame when it fits, or the first of its fragments.
WriteItem ==
    /\ Running("pump")
    /\ inFlight < window
    /\ partial = None
    /\ queue # <<>>
    /\ LET item == Head(queue)
       IN  /\ queue' = Tail(queue)
           /\ queuedScopedBytes' = IF Scoped(item) THEN queuedScopedBytes - item.bytes
                                   ELSE queuedScopedBytes
           /\ promised' = IF item.kind = "record"
                          THEN [promised EXCEPT ![item.sub] = item.to] ELSE promised
           /\ reader' = IF item.sub = None THEN reader
                        ELSE [reader EXCEPT ![item.sub] = Reads(@, item)]
           /\ \/ Send("whole", item.bytes) /\ UNCHANGED partial
              \/ \E slice \in Sizes :
                    /\ slice < item.bytes
                    /\ Send("more", slice)
                    /\ partial' = item.bytes - slice
    /\ UNCHANGED <<log, deliveries, registry, lagging, window, keepalives, call, shared>>

CanCatchUp ==
    /\ ~Within("catchUp")
    /\ DOMAIN lagging # {}
    /\ 2 * queuedScopedBytes < backlogBytes
    /\ inFlight < window

\* Mutant: an open window starts no catch-up.
PumpEndsThere ==
    /\ Running("pump")
    /\ inFlight >= window \/ (partial = None /\ queue = <<>>)
    /\ Then(<<>>)
    /\ UNCHANGED <<log, deliveries, registry, writer, link, due, owed, shared>>

\* The loop ends, and maybeCatchUp starts a catch-up.
PumpEnds ==
    /\ Running("pump")
    /\ inFlight >= window \/ (partial = None /\ queue = <<>>)
    /\ Then(IF CanCatchUp THEN <<"catchUp">> ELSE <<>>)
    /\ due' = IF CanCatchUp THEN DOMAIN lagging ELSE due
    /\ UNCHANGED <<log, deliveries, registry, writer, link, owed, shared>>

-----------------------------------------------------------------------------
(* catchUp: one answer per lagging subscription.                           *)

Closed ==
    /\ active' = FALSE
    /\ subscriptions' = <<>>
    /\ UNCHANGED ids

\* Mutant: the byte counter still counts the dropped frames.
releaseCountingOn(s) ==
    /\ lagging' = [t \in DOMAIN lagging \ {s} |-> lagging[t]]
    /\ promised' = [promised EXCEPT ![s] = None]
    /\ queue' = WithoutFramesOf(s, queue)
    /\ UNCHANGED <<queuedScopedBytes, reader>>

\* Mutant: the queued live frames stay.
releaseKeepingFrames(s) ==
    /\ lagging' = [t \in DOMAIN lagging \ {s} |-> lagging[t]]
    /\ promised' = [promised EXCEPT ![s] = None]
    /\ UNCHANGED <<queue, queuedScopedBytes, reader>>

\* The writer forgets a subscription and drops its queued live frames.
release(s) ==
    /\ lagging' = [t \in DOMAIN lagging \ {s} |-> lagging[t]]
    /\ promised' = [promised EXCEPT ![s] = None]
    /\ queue' = WithoutFramesOf(s, queue)
    /\ queuedScopedBytes' = ScopedBytes(queue')
    /\ UNCHANGED reader

\* Records committed before the read go out first, unless the drain that does
\* that is what led here.
DrainFirst ==
    /\ Running("catchUp") /\ active /\ due # {}
    /\ deliveries # <<>> /\ ~Within("drain")
    /\ stack' = <<"drain">> \o stack
    /\ UNCHANGED <<log, deliveries, registry, writer, link, due, owed, shared>>

CatchesUp(s) ==
    /\ Running("catchUp") /\ active /\ s \in due
    /\ deliveries = <<>> \/ Within("drain")
    /\ due' = due \ {s}

\* The answer runs from the lagging cursor, or is a snapshot.
CatchUp(s) ==
    /\ CatchesUp(s)
    /\ ScopeOf[s] \notin gone
    /\ \E from \in {lagging[s], None}, bytes \in Sizes :
          Push(Item("catchup", s, from, head[ScopeOf[s]], bytes))
    /\ lagging' = [t \in DOMAIN lagging \ {s} |-> lagging[t]]
    /\ promised' = [promised EXCEPT ![s] = head[ScopeOf[s]]]
    /\ stack' = <<"pump">> \o stack
    /\ UNCHANGED <<log, deliveries, registry, queuedScopedBytes, reader, link, owed, shared>>

\* Mutant: the writer is not told that the subscription is gone.
CatchUpMissingKept(s) ==
    /\ CatchesUp(s)
    /\ ScopeOf[s] \in gone
    /\ subscriptions' = Only(subscriptions, Subs \ {s})
    /\ UNCHANGED <<log, deliveries, active, ids, writer, link, stack, owed, shared>>

\* The scope is gone: its subscription is dropped without a word.
CatchUpMissing(s) ==
    /\ CatchesUp(s)
    /\ ScopeOf[s] \in gone
    /\ subscriptions' = Only(subscriptions, Subs \ {s})
    /\ release(s)
    /\ UNCHANGED <<log, deliveries, active, ids, link, stack, owed, shared>>

CatchUpThrows(s) ==
    /\ ReplayThrows
    /\ CatchesUp(s)
    /\ Closed
    /\ UNCHANGED <<log, deliveries, writer, link, stack, owed, shared>>

\* What was queued may already fit the window.
CatchUpEnds ==
    /\ Running("catchUp")
    /\ ~active \/ due = {}
    /\ Then(<<"pump">>)
    /\ due' = {}
    /\ UNCHANGED <<log, deliveries, registry, writer, link, owed, shared>>

-----------------------------------------------------------------------------
(* The client's commands and acknowledgements.                             *)

Register(s) ==
    /\ ids' = [ids EXCEPT ![s] = "given"]
    /\ subscriptions' = Append(subscriptions, s)
    /\ shared' = IF ScopesWith(ScopeOf[s]) = {} THEN shared
                 ELSE shared \cup {s} \cup ScopesWith(ScopeOf[s])
    /\ UNCHANGED active

Command ==
    /\ Idle
    /\ active
    /\ stack' = <<"drain", "answer">>

\* subscription.replay: read and registered in one tick, answered after what
\* the delivery queue still holds.
replay(s) ==
    /\ Command
    /\ ids[s] = "fresh" /\ ScopeOf[s] \notin gone
    /\ Register(s)
    /\ \E bytes \in Sizes : owed' = Item("answer", s, None, head[ScopeOf[s]], bytes)
    /\ UNCHANGED <<log, deliveries, writer, link, due>>

subscribe(s) ==
    /\ Command
    /\ ids[s] = "fresh"
    /\ Register(s)
    /\ owed' = Item("answer", s, None, None, 1)
    /\ UNCHANGED <<log, deliveries, writer, link, due>>

unsubscribe(s) ==
    /\ Command
    /\ ids[s] = "given"
    /\ ids' = [ids EXCEPT ![s] = "ended"]
    /\ release(s)
    /\ subscriptions' = Only(subscriptions, Subs \ {s})
    /\ owed' = Item("answer", s, None, None, 1)
    /\ UNCHANGED <<log, deliveries, active, link, due, shared>>

\* enqueueResponse, of a command's answer.
answer ==
    /\ Running("answer")
    /\ owed' = None
    /\ IF active
       THEN /\ Push(owed)
            /\ promised' = IF owed.to = None THEN promised
                           ELSE [promised EXCEPT ![owed.sub] = owed.to]
            /\ Then(<<"pump">>)
       ELSE /\ UNCHANGED <<queue, promised>>
            /\ Then(<<>>)
    /\ UNCHANGED <<log, deliveries, registry, queuedScopedBytes, lagging, reader,
                   link, due, shared>>

\* The client acknowledges the first n frames; the window follows the link.
ack(n) ==
    /\ Idle
    /\ active
    /\ n \in 1..Len(wire)
    /\ wire' = SubSeq(wire, n + 1, Len(wire))
    /\ inFlight' = Bytes(wire')
    /\ window' \in Windows
    /\ stack' = <<"pump">>
    /\ UNCHANGED <<log, deliveries, registry, writer, keepalives, partial, due, owed, shared>>

keepalive ==
    /\ Idle
    /\ active
    /\ keepalives < MaxKeepalives
    /\ partial = None
    /\ keepalives' = keepalives + 1
    /\ Send("whole", 1)
    /\ UNCHANGED <<log, deliveries, registry, writer, window, partial, call, shared>>

\* The client or the network goes, or the server closes for its own reasons.
close ==
    /\ Idle
    /\ active
    /\ Closed
    /\ UNCHANGED <<log, deliveries, writer, link, call, shared>>

-----------------------------------------------------------------------------

Init ==
    /\ head = [s \in Scopes |-> 0] /\ gone = {} /\ deliveries = <<>> /\ notices = 0
    /\ active = TRUE
    /\ ids = [s \in Subs |-> "fresh"]
    /\ subscriptions = <<>>
    /\ queue = <<>> /\ queuedScopedBytes = 0 /\ partial = None
    /\ inFlight = 0 /\ window = Min(Windows) /\ wire = <<>> /\ keepalives = 0
    /\ promised = [s \in Subs |-> None]
    /\ lagging = <<>>
    /\ stack = <<>> /\ due = {} /\ owed = None
    /\ reader = [s \in Subs |-> None] /\ shared = {}

Acked == \E n \in DOMAIN wire : ack(n)

CatchingUp ==
    \E s \in due : CatchUp(s) \/ CatchUpMissing(s) \/ CatchUpThrows(s)

Step ==
    \/ DrainEnds \/ deliver
    \/ WriteFragment \/ WriteItem \/ PumpEnds
    \/ DrainFirst \/ CatchingUp \/ CatchUpEnds
    \/ answer

Next ==
    \/ \E s \in Scopes : Publish(s) \/ DeleteScope(s) \/ Notify(Delivery("transient", s, None))
    \/ Notify(Delivery("reading", None, None))
    \/ drain
    \/ \E s \in Subs : replay(s) \/ subscribe(s) \/ unsubscribe(s)
    \/ Acked \/ keepalive \/ close
    \/ Step

\* A call runs to its end, a scheduled microtask runs, and an open client
\* acknowledges what it received (within 250 ms).
Fairness == WF_vars(Step) /\ WF_vars(drain) /\ WF_vars(Acked)

Spec == Init /\ [][Next]_vars /\ Fairness

-----------------------------------------------------------------------------
(* Properties.                                                             *)

Cursors == 0..MaxHead \cup {None}

Items == [kind : {"answer", "catchup", "lagging", "record", "transient", "reading"},
          sub : Subs \cup {None}, from : Cursors, to : Cursors, bytes : Sizes \cup {1}]

ASSUME NoneAssumption == None \notin Items

\* Every variable has its type, and the byte counter counts the queue.
TypeOK ==
    /\ head \in [Scopes -> 0..MaxHead] /\ gone \subseteq Scopes
    /\ \A i \in DOMAIN deliveries : deliveries[i].kind \in {"record", "transient", "reading"}
    /\ ids \in [Subs -> {"fresh", "given", "ended"}]
    /\ ToSet(subscriptions) \subseteq Subs /\ IsInjective(subscriptions)
    /\ ToSet(queue) \subseteq Items
    /\ queuedScopedBytes = ScopedBytes(queue)
    /\ partial = None \/ partial \in Nat \ {0}
    /\ inFlight \in Nat /\ window \in Windows
    /\ \A i \in DOMAIN wire : wire[i].part \in {"whole", "more", "last"}
    /\ promised \in [Subs -> Cursors]
    /\ DOMAIN lagging \subseteq Subs /\ \A s \in DOMAIN lagging : lagging[s] \in Cursors
    /\ ToSet(stack) \subseteq {"pump", "drain", "catchUp", "answer"}
    /\ due \subseteq Subs /\ (owed = None \/ owed \in Items)

\* docs/sync-foundations.md 7.2: live frames waiting for the window are bounded
\* on every connection, and a lagging subscription has none of them.
BacklogIsBounded ==
    /\ queuedScopedBytes <= backlogBytes
    /\ \A i \in DOMAIN queue : Scoped(queue[i]) => queue[i].sub \notin DOMAIN lagging

\* Read a frame: a record that is not the next one, or a catch-up that starts
\* past the reader, is a gap.
Follow(state, item) ==
    [at |-> Reads(state.at, item),
     whole |-> /\ state.whole
               /\ item.kind = "record" /\ state.at # None => item.to <= state.at + 1
               /\ item.kind = "catchup" /\ item.from # None =>
                     state.at # None /\ item.from <= state.at]

\* Where the items for s lead a reader that is at `at`.
FeedOf(at, s, items) ==
    FoldLeft(Follow, [at |-> at, whole |-> TRUE],
             Only(items, {item \in ToSet(items) : item.sub = s}))

Feed(s) == FeedOf(reader[s], s, queue)

Undelivered(s) ==
    Len(Only(deliveries, {d \in ToSet(deliveries) : d.kind = "record" /\ d.scope = s}))

Sole == {s \in ToSet(subscriptions) : s \notin shared}

\* websocket.ts:350-354, 660-664: what is written and queued for a subscription
\* leads its reader, without a gap, to every record the delivery queue has
\* handed over; a lagging one will start again no later than its reader stops,
\* however replays, drains, cuts and catch-ups interleave.
FeedIsWhole ==
    \A s \in Sole :
       LET feed == Feed(s)
       IN  /\ feed.whole
           /\ IF s \in DOMAIN lagging
              THEN lagging[s] # None => feed.at # None /\ lagging[s] <= feed.at
              ELSE feed.at # None =>
                      feed.at + Undelivered(ScopeOf[s]) >= head[ScopeOf[s]]

\* connection-writer.ts:301-305: the writer remembers nothing of a subscription
\* that ended, so no frame and no catch-up is sent for it.
OnlyLiveSubscriptions ==
    active =>
       /\ \A s \in Subs : promised[s] # None => s \in ToSet(subscriptions)
       /\ DOMAIN lagging \subseteq ToSet(subscriptions)
       /\ \A i \in DOMAIN queue : Scoped(queue[i]) => queue[i].sub \in ToSet(subscriptions)

\* docs/sync-foundations.md 7.2: a lagging subscription is caught up once the
\* client acknowledges what it was sent, or it ends.
LaggingIsCaughtUp ==
    \A s \in Subs : s \in DOMAIN lagging ~> s \notin DOMAIN lagging \/ ~active

\* connection-writer.ts:174-187: on an open connection pump and catchUp do not
\* call each other for ever.  What a catch-up answers, and what it finds gone, no
\* longer lags, and what does not fit the window ends the loop.
OpenCallsReturn == ~Idle ~> Idle \/ ~active

\* websocket.ts:792-793, docs/sync-foundations.md 1430: what cannot be sent to a
\* connection closes that connection, and no more than that: the call that found
\* it returns, a catch-up that cannot be built (websocket.ts:376-382) included.
CallsReturn == ~Idle ~> Idle
=============================================================================
