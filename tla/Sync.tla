-------------------------------- MODULE Sync --------------------------------
(***************************************************************************)
(* One scope kept in sync between the environment server and one client:   *)
(* the server's registrations, replays and catch-ups (websocket.ts), its   *)
(* writer as far as the client can tell (connection-writer.ts, see         *)
(* Connection), and the client's transport (environment-client:            *)
(* websocket.ts, placement.ts, and the cursor kept in state.ts).           *)
(*                                                                         *)
(* Each side handles a message in one turn of its event loop, so a handler *)
(* is one step: the operators below take the client's (or the writer's)    *)
(* state as a record and return the state the handler leaves.              *)
(***************************************************************************)
EXTENDS Naturals, Sequences, FiniteSets, SequencesExt, Queues, Replay

CONSTANTS
    Window,        \* frames written and not received, at most
    Backlog,       \* live frames queued, at most
    MaxHead,       \* bound: records
    MaxUndelivered,\* bound: records the delivery queue holds at a read
    MaxTransients, \* bound: transients
    MaxOpens,      \* bound: times the scope is opened
    MaxActivity,   \* bound: these three together
    MaxDrops,      \* bound: lost connections, restarts included
    MaxRefusals,   \* bound: replays the server refuses
    None

ASSUME SyncAssumption ==
    /\ Window \in Nat \ {0} /\ Backlog \in Nat \ {0}
    /\ MaxHead \in Nat /\ MaxUndelivered \in Nat /\ MaxOpens \in Nat

VARIABLES
    stream,     \* the scope's stream: epoch (0: none yet), head, oldest (0: none)
    boot,       \* the server process
    subs,       \* the registrations of this connection, oldest first
    w,          \* the writer: queue, promised, lagging
    wire,       \* frames written and not received
    up,         \* commands sent and not handled
    connected,
    client,     \* the client's state, a record
    transients, opens, drops, refusals,
    refused     \* history: the last replay of this copy was refused

serverVars == <<stream, boot>>
connection == <<subs, w, wire, up, connected>>
counters == <<transients, opens, drops, refusals>>
vars == <<serverVars, connection, client, counters, refused>>

-----------------------------------------------------------------------------
(* Frames and commands.                                                    *)

NoAnswer == SnapshotFor("none", NoCursor)

Frame(kind, id, at, ask, answer) ==
    [kind |-> kind, id |-> id, at |-> at, ask |-> ask, answer |-> answer]

Command(kind, id, cursor, obj) ==
    [kind |-> kind, id |-> id, cursor |-> cursor, obj |-> obj]
NoAsk == Command("none", 0, NoCursor, 0)

Live(kind, id, at) == Frame(kind, id, at, NoAsk, NoAnswer)
IsLive(frame) == frame.kind \in {"record", "transient"}

-----------------------------------------------------------------------------
(* The server's writer.                                                    *)

NewWriter == [queue |-> <<>>, promised |-> <<>>, lagging |-> <<>>]

Assign(f, x, y) == [z \in DOMAIN f \cup {x} |-> IF z = x THEN y ELSE f[z]]
Drop(f, x) == [z \in DOMAIN f \ {x} |-> f[z]]

PromisedTo(wr, id) == IF id \in DOMAIN wr.promised THEN wr.promised[id] ELSE NoCursor

LiveFrames(q) == {frame \in ToSet(q) : IsLive(frame)}
QueuedCount(wr) == Len(Only(wr.queue, LiveFrames(wr.queue)))

\* Every registration with live frames in the queue goes lagging, and `also`.
cut(wr, also) ==
    LET affected == {also} \cup {frame.id : frame \in LiveFrames(wr.queue)}
        order == SetToSeq(affected)
    IN  [wr EXCEPT
           !.queue = Only(@, ToSet(@) \ LiveFrames(@))
                     \o [i \in DOMAIN order |-> Live("lagging", order[i], NoCursor)],
           !.lagging = [id \in DOMAIN @ \cup affected |->
                          IF id \in affected THEN PromisedTo(wr, id) ELSE @[id]]]

\* Mutant: a frame that does not fit is dropped without a cut.
enqueueScopedDropping(wr, frame) ==
    IF frame.id \in DOMAIN wr.lagging \/ QueuedCount(wr) >= Backlog THEN wr
    ELSE [wr EXCEPT !.queue = Append(@, frame)]

enqueueScoped(wr, frame) ==
    IF frame.id \in DOMAIN wr.lagging THEN wr
    ELSE IF QueuedCount(wr) >= Backlog THEN cut(wr, frame.id)
    ELSE [wr EXCEPT !.queue = Append(@, frame)]

enqueueResponse(wr, frame) ==
    [wr EXCEPT !.queue = Append(@, frame),
               !.promised = IF frame.answer = NoAnswer THEN @
                            ELSE Assign(@, frame.id, frame.answer.to)]

resume(wr, id) == [wr EXCEPT !.lagging = Drop(@, id)]

\* Mutant: a registration that ended can still lag.
unregisterLagging(wr, id) ==
    [wr EXCEPT !.promised = Drop(@, id),
               !.queue = Only(@, {frame \in ToSet(@) : ~(IsLive(frame) /\ frame.id = id)})]

unregister(wr, id) ==
    [wr EXCEPT !.lagging = Drop(@, id), !.promised = Drop(@, id),
               !.queue = Only(@, {frame \in ToSet(@) : ~(IsLive(frame) /\ frame.id = id)})]

\* deliverScoped: a live frame goes to the newest registration, if there is one.
deliverScoped(wr, registered, kind, at) ==
    IF registered = <<>> THEN wr ELSE enqueueScoped(wr, Live(kind, Last(registered), at))

Answers(cursor, head, oldest) == read(cursor, head, oldest, head.seq - cursor.seq)

HeadOf(s) == Cursor(IF s.epoch = 0 THEN boot ELSE s.epoch, s.head)
OldestOf(s) == oldestReplayable([oldest |-> s.oldest, floor |-> 0, head |-> s.head])

\* What the bounds leave to happen.
Left == MaxActivity - (stream.head + transients + opens)

\* The stream with n more records.
Longer(n) ==
    IF n = 0 THEN stream
    ELSE [stream EXCEPT !.epoch = IF @ = 0 THEN boot ELSE @,
                        !.head = @ + n,
                        !.oldest = IF @ = 0 THEN stream.head + 1 ELSE @]

\* A command or a catch-up may run in the tick of a commit, before the delivery
\* queue's microtask: what the stream is with the records that are in it.
StreamsNow ==
    {Longer(n) : n \in {k \in 0..MaxUndelivered : k <= Left /\ stream.head + k <= MaxHead}}

DeliverNew(wr, registered, s) ==
    FoldLeft(LAMBDA now, n :
                deliverScoped(now, registered, "record", Cursor(s.epoch, stream.head + n)),
             wr, [n \in 1..(s.head - stream.head) |-> n])

-----------------------------------------------------------------------------
(* The server's steps.                                                     *)

Publish ==
    /\ stream.head < MaxHead /\ Left > 0
    /\ stream' = Longer(1)
    /\ w' = DeliverNew(w, subs, Longer(1))
    /\ UNCHANGED <<boot, subs, wire, up, connected, client, counters, refused>>

\* A transient is placed after what was committed before it.
PublishTransient ==
    /\ transients < MaxTransients /\ Left > 0
    /\ transients' = transients + 1
    /\ w' = deliverScoped(w, subs, "transient", HeadOf(stream))
    /\ UNCHANGED <<serverVars, subs, wire, up, connected, client,
                   opens, drops, refusals, refused>>

\* Retention takes records from the front.
Prune ==
    /\ stream.oldest # 0
    /\ \E keep \in (stream.oldest + 1)..(stream.head + 1) :
          stream' = [stream EXCEPT !.oldest = IF keep > stream.head THEN 0 ELSE keep]
    /\ UNCHANGED <<boot, connection, client, counters, refused>>

\* pump, one frame.
Write ==
    /\ w.queue # <<>>
    /\ Len(wire) < Window
    /\ LET frame == Head(w.queue)
       IN  /\ wire' = Append(wire, frame)
           /\ w' = [w EXCEPT !.queue = Tail(@),
                             !.promised = IF frame.kind = "record"
                                          THEN Assign(@, frame.id, frame.at) ELSE @]
    /\ UNCHANGED <<serverVars, subs, up, connected, client, counters, refused>>

\* A lagging registration starts again from its cursor.  When the drain itself
\* led here, what is left in the delivery queue follows as live frames.
CatchUp ==
    /\ 2 * QueuedCount(w) < Backlog
    /\ Len(wire) < Window
    /\ \E id \in DOMAIN w.lagging, s \in StreamsNow :
          /\ stream' = s
          /\ \E a \in Answers(w.lagging[id], HeadOf(s), OldestOf(s)) :
                w' = DeliverNew(
                       enqueueResponse(resume(w, id), Frame("catchup", id, NoCursor, NoAsk, a)),
                       subs, s)
    /\ UNCHANGED <<boot, subs, wire, up, connected, client, counters, refused>>

\* A registration id nothing names any more stands for a fresh one.
NewId ==
    LET frames == ToSet(w.queue) \cup ToSet(wire) \cup ToSet(up)
        used == ToSet(subs) \cup {client.sub} \cup {f.id : f \in frames}
    IN  Min((1..(Cardinality(used) + 1)) \ used)

Handles(kind) == up # <<>> /\ Head(up).kind = kind /\ up' = Tail(up)

\* subscription.replay: read and registered in one tick; records still in the
\* delivery queue go out before the answer that covers them.
HandleReplay ==
    /\ Handles("replay")
    /\ subs' = Append(subs, NewId)
    /\ \E s \in StreamsNow :
          /\ stream' = s
          /\ \E a \in Answers(Head(up).cursor, HeadOf(s), OldestOf(s)) :
                w' = enqueueResponse(DeliverNew(w, subs', s),
                                     Frame("answer", NewId, NoCursor, Head(up), a))
    /\ UNCHANGED <<boot, wire, connected, client, counters, refused>>

\* "internal": the read failed.  "validation": the cursor was refused.
RefuseReplay ==
    /\ Handles("replay")
    /\ refusals < MaxRefusals
    /\ refusals' = refusals + 1
    /\ \E code \in {"internal", "validation"} :
          w' = enqueueResponse(w, Frame(code, 0, NoCursor, Head(up), NoAnswer))
    /\ UNCHANGED <<serverVars, subs, wire, connected, client,
                   transients, opens, drops, refused>>

HandleSubscribe ==
    /\ Handles("subscribe")
    /\ subs' = Append(subs, NewId)
    /\ \E s \in StreamsNow :
          /\ stream' = s
          /\ w' = enqueueResponse(DeliverNew(w, subs', s),
                     Frame("subscribed", NewId, NoCursor, Head(up), NoAnswer))
    /\ UNCHANGED <<boot, wire, connected, client, counters, refused>>

HandleUnsubscribe ==
    /\ Handles("unsubscribe")
    /\ subs' = Only(subs, ToSet(subs) \ {Head(up).id})
    /\ w' = unregister(w, Head(up).id)
    /\ UNCHANGED <<serverVars, wire, connected, client, counters, refused>>

-----------------------------------------------------------------------------
(* The client: placement.ts.                                               *)

\* Mutant: a record the copy ends with is folded in again.
placeRecordAgain(cursor, at) ==
    IF cursor = NoCursor THEN "apply"
    ELSE IF at.epoch # cursor.epoch THEN "recover"
    ELSE IF at.seq < cursor.seq THEN "drop"
    ELSE IF at.seq <= cursor.seq + 1 THEN "apply" ELSE "recover"

placeRecord(cursor, at) ==
    IF cursor = NoCursor THEN "apply"
    ELSE IF at.epoch # cursor.epoch THEN "recover"
    ELSE IF at.seq <= cursor.seq THEN "drop"
    ELSE IF at.seq = cursor.seq + 1 THEN "apply" ELSE "recover"

placeTransient(cursor, after, held) ==
    IF cursor = NoCursor THEN "drop"
    ELSE IF after.epoch # cursor.epoch THEN IF held THEN "drop" ELSE "recover"
    ELSE IF after.seq = cursor.seq THEN "apply"
    ELSE IF after.seq < cursor.seq THEN "drop" ELSE "recover"

-----------------------------------------------------------------------------
(* The client's subscription: environment-client/src/websocket.ts.         *)
(* `obj` tells one Subscription object from the next (0: none in the map), *)
(* `copy` what the store holds; Broken is a copy no sequence of records    *)
(* makes.                                                                  *)

Broken == Cursor(0, 1)

NewObject == [sub |-> 0, inflight |-> FALSE, recovery |-> FALSE, holding |-> FALSE,
              held |-> <<>>, unanchored |-> NoCursor]

\* A client with its subscription object's fields replaced.
Holds(c, object) ==
    [c EXCEPT !.sub = object.sub, !.inflight = object.inflight,
              !.recovery = object.recovery, !.holding = object.holding,
              !.held = object.held, !.unanchored = object.unanchored]

send(c, command) == [c EXCEPT !.out = Append(@, command)]
sendUnsubscribe(c, id) == send(c, Command("unsubscribe", id, NoCursor, 0))

\* Let go of the live subscription, to recover without it.
LetGo(c) ==
    [(IF c.sub = 0 THEN c ELSE sendUnsubscribe(c, c.sub))
       EXCEPT !.sub = 0, !.inflight = FALSE]

position(c) == IF c.cursor # NoCursor THEN c.cursor ELSE c.unanchored

forgetCursor(c) == [c EXCEPT !.cursor = NoCursor, !.unanchored = NoCursor]

unheld(c) == [c EXCEPT !.holding = FALSE, !.held = <<>>]

Push(c, entry) == [c EXCEPT !.held = Append(@, entry)]
Held(frame, trigger) == [frame |-> frame, trigger |-> trigger]

recover(c, first) ==
    IF c.recovery \/ c.sub # 0 \/ c.inflight THEN c
    ELSE [send(c, Command("replay", 0, c.cursor, c.obj)) EXCEPT
            !.recovery = TRUE, !.inflight = TRUE,
            !.holding = TRUE, !.held = first \o @]

recoverFrom(c, frame) == recover(LetGo(c), <<Held(frame, TRUE)>>)

\* The copy with one more record folded in.
Folded(copy, at) ==
    IF copy.epoch = at.epoch /\ at.seq = copy.seq + 1 THEN at ELSE Broken

applyRecord(c, at) ==
    IF c.cursor # NoCursor
    THEN [c EXCEPT !.cursor = at, !.copy = Folded(@, at)]
    ELSE [c EXCEPT !.unanchored = at, !.copy = Broken]

route(c, frame, mode) ==
    LET placement ==
            IF frame.kind = "record" THEN placeRecord(position(c), frame.at)
            ELSE placeTransient(position(c), frame.at, mode # "live")
    IN  CASE placement = "apply" /\ frame.kind = "record" -> applyRecord(c, frame.at)
          [] placement = "recover" /\ mode # "retry" -> recoverFrom(c, frame)
          [] OTHER -> c

\* What waited for a catch-up is placed, until one entry starts the next
\* catch-up and takes the rest along.
release(c, held) ==
    FoldLeft(LAMBDA now, entry :
                IF now.holding THEN Push(now, Held(entry.frame, entry.trigger))
                ELSE route(now, entry.frame, IF entry.trigger THEN "retry" ELSE "held"),
             c, held)

\* A record or a transient of the scope.
receive(c, frame) ==
    IF c.obj = 0 THEN c
    ELSE IF c.holding THEN Push(c, Held(frame, FALSE))
    ELSE route(c, frame, "live")

\* The copy after the answer's records past the cursor are folded in.
Tailed(c, a) ==
    IF a.to.epoch # c.cursor.epoch \/ a.from.seq > c.cursor.seq THEN Broken
    ELSE IF a.to.seq > c.copy.seq THEN Cursor(c.copy.epoch, a.to.seq) ELSE c.copy

applyAnswer(c, a) ==
    LET anchored == [c EXCEPT !.unanchored = NoCursor]
    IN  IF a.mode = "snapshot" THEN [anchored EXCEPT !.cursor = a.to, !.copy = a.to]
        ELSE IF c.cursor = NoCursor THEN anchored
        ELSE [anchored EXCEPT !.cursor = a.to, !.copy = Tailed(c, a)]

ReleaseHeld(c) == release(unheld(c), c.held)

\* Mutant: an answer for a subscription that was closed is ignored.
AnsweredLate(c, frame) ==
    IF frame.ask.obj # c.obj THEN c
    ELSE ReleaseHeld([applyAnswer(c, frame.answer) EXCEPT
                        !.inflight = FALSE, !.sub = frame.id, !.recovery = FALSE])

Answered(c, frame) ==
    IF frame.ask.obj # c.obj THEN sendUnsubscribe(c, frame.id)
    ELSE ReleaseHeld([applyAnswer(c, frame.answer) EXCEPT
                        !.inflight = FALSE, !.sub = frame.id, !.recovery = FALSE])

subscribe(c) ==
    IF c.sub # 0 \/ c.inflight THEN c
    ELSE [send(c, Command("subscribe", 0, NoCursor, c.obj)) EXCEPT !.inflight = TRUE]

Subscribed(c, frame) ==
    IF frame.ask.obj # c.obj THEN sendUnsubscribe(c, frame.id)
    ELSE IF c.sub # 0 THEN sendUnsubscribe([c EXCEPT !.inflight = FALSE], frame.id)
    ELSE [c EXCEPT !.inflight = FALSE, !.sub = frame.id]

\* A refused replay drops what it held.  A refused cursor is tried once more
\* without it; else a thread's hydration failed, and another scope subscribes.
fail(c, frame) ==
    LET idle == [unheld(c) EXCEPT !.inflight = FALSE, !.recovery = FALSE]
        resumed == frame.ask.cursor # NoCursor
    IN  IF frame.ask.obj # c.obj THEN c
        ELSE IF resumed /\ frame.kind = "validation" THEN recover(forgetCursor(idle), <<>>)
        ELSE IF c.thread THEN idle ELSE subscribe(idle)

NoteLagging(c, frame) ==
    IF c.obj = 0 \/ c.sub # frame.id THEN c ELSE [c EXCEPT !.holding = TRUE]

fits(c, a) ==
    IF a.mode = "replay" THEN c.cursor # NoCursor /\ a.from = c.cursor
    ELSE ~(c.cursor # NoCursor /\ a.to.epoch = c.cursor.epoch /\ a.to.seq < c.cursor.seq)

applyCatchup(c, frame) ==
    IF c.obj = 0 \/ c.sub # frame.id THEN c
    ELSE IF fits(c, frame.answer) THEN ReleaseHeld(applyAnswer(c, frame.answer))
    ELSE recover(LetGo(c), <<>>)

handleMessage(c, frame) ==
    CASE IsLive(frame) -> receive(c, frame)
      [] frame.kind = "answer" -> Answered(c, frame)
      [] frame.kind = "subscribed" -> Subscribed(c, frame)
      [] frame.kind = "lagging" -> NoteLagging(c, frame)
      [] frame.kind = "catchup" -> applyCatchup(c, frame)
      [] frame.kind \in {"internal", "validation"} -> fail(c, frame)

-----------------------------------------------------------------------------
(* The client's steps.  What a handler sent leaves with it.                *)

Becomes(c) ==
    /\ client' = [c EXCEPT !.out = <<>>]
    /\ up' = up \o c.out

Receive ==
    /\ wire # <<>>
    /\ wire' = Tail(wire)
    /\ Becomes(handleMessage(client, Head(wire)))
    /\ refused' = CASE Head(wire).ask.obj # client.obj -> refused
                    [] Head(wire).kind \in {"internal", "validation"} -> TRUE
                    [] Head(wire).kind = "answer" -> FALSE
                    [] OTHER -> refused
    /\ UNCHANGED <<serverVars, subs, w, connected, counters>>

\* hydrateScope: the scope is opened, or opened again after its hydration
\* failed.  Without a connection the replay fails at once.
Open ==
    /\ opens < MaxOpens /\ Left > 0
    /\ client.obj = 0 \/ refused
    /\ opens' = opens + 1
    /\ LET c == IF client.obj # 0 THEN client
                ELSE [Holds(client, NewObject) EXCEPT !.obj = opens + 1]
       IN  Becomes(IF connected THEN recover(c, <<>>) ELSE c)
    /\ UNCHANGED <<serverVars, subs, w, wire, connected,
                   transients, drops, refusals, refused>>

\* unsubscribe: the copy and its cursor stay.
Leave ==
    /\ client.obj # 0
    /\ Becomes(Holds([(IF client.sub = 0 THEN client ELSE sendUnsubscribe(client, client.sub))
                        EXCEPT !.obj = 0], NewObject))
    /\ UNCHANGED <<serverVars, subs, w, wire, connected, counters, refused>>

-----------------------------------------------------------------------------
(* The connection.                                                         *)

\* The handshake, and the resync that recovers every scope.
Connect ==
    /\ ~connected
    /\ connected' = TRUE
    /\ Becomes(IF client.obj = 0 THEN client ELSE recover(client, <<>>))
    /\ UNCHANGED <<serverVars, subs, w, wire, counters, refused>>

\* Mutant: the subscription of the closed connection is kept.
DisconnectSubscribed ==
    /\ drops < MaxDrops
    /\ drops' = drops + 1
    /\ connected' = FALSE
    /\ subs' = <<>> /\ w' = NewWriter /\ wire' = <<>> /\ up' = <<>>
    /\ client' = [client EXCEPT !.inflight = FALSE, !.recovery = FALSE,
                                !.holding = FALSE, !.held = <<>>]
    /\ UNCHANGED <<stream, transients, opens, refusals, refused>>

\* What was on its way is gone; handleClose starts every subscription over,
\* keeping what an unanchored scope has.
Disconnect ==
    /\ drops < MaxDrops
    /\ drops' = drops + 1
    /\ connected' = FALSE
    /\ subs' = <<>> /\ w' = NewWriter /\ wire' = <<>> /\ up' = <<>>
    /\ client' = Holds(client, [NewObject EXCEPT !.unanchored = client.unanchored])
    /\ UNCHANGED <<stream, transients, opens, refusals, refused>>

LoseConnection ==
    /\ connected
    /\ Disconnect
    /\ UNCHANGED boot

RestartServer ==
    /\ Disconnect
    /\ boot' = boot + 1

-----------------------------------------------------------------------------

Init ==
    /\ stream = [epoch |-> 0, head |-> 0, oldest |-> 0]
    /\ boot = 1
    /\ subs = <<>> /\ w = NewWriter /\ wire = <<>> /\ up = <<>>
    /\ connected = FALSE
    /\ \E thread \in BOOLEAN :
         client = [thread |-> thread, cursor |-> NoCursor, copy |-> NoCursor, obj |-> 0,
                   sub |-> 0, inflight |-> FALSE, recovery |-> FALSE, holding |-> FALSE,
                   held |-> <<>>, unanchored |-> NoCursor, out |-> <<>>]
    /\ transients = 0 /\ opens = 0 /\ drops = 0 /\ refusals = 0
    /\ refused = FALSE

Handle == HandleReplay \/ RefuseReplay \/ HandleSubscribe \/ HandleUnsubscribe

Next ==
    \/ Publish \/ PublishTransient \/ Prune
    \/ Write \/ CatchUp \/ Handle
    \/ Receive \/ Open \/ Leave
    \/ Connect \/ LoseConnection \/ RestartServer

\* Commands are handled and frames written and received while a connection
\* lasts, a catch-up is built once the window opens, and the client redials.
Fairness ==
    /\ WF_vars(Write) /\ WF_vars(CatchUp) /\ WF_vars(Handle)
    /\ WF_vars(Receive) /\ WF_vars(Connect)

Spec == Init /\ [][Next]_vars /\ Fairness

-----------------------------------------------------------------------------
(* Properties.                                                             *)

Cursors == [epoch : 0..boot, seq : 0..MaxHead]

\* Every variable has its type.
TypeOK ==
    /\ stream \in [epoch : 0..boot, head : 0..MaxHead, oldest : 0..MaxHead]
    /\ IsInjective(subs)
    /\ client.cursor \in Cursors
    /\ client.copy \in Cursors \cup {Broken}
    /\ client.obj \in 0..MaxOpens
    /\ client.out = <<>>
    /\ client.held # <<>> => client.holding
    /\ DOMAIN w.promised \subseteq ToSet(subs)
    /\ DOMAIN w.lagging \subseteq ToSet(subs)
    /\ QueuedCount(w) <= Backlog
    /\ Len(wire) <= Window
    /\ ~connected => up = <<>> /\ wire = <<>> /\ w = NewWriter /\ subs = <<>>

OnTheWay == w.queue \o wire
Coming(id, kinds) ==
    \E i \in DOMAIN OnTheWay : OnTheWay[i].id = id /\ OnTheWay[i].kind \in kinds
Asked ==
    \/ \E i \in DOMAIN up : up[i].kind = "replay" /\ up[i].obj = client.obj
    \/ \E i \in DOMAIN OnTheWay :
          /\ OnTheWay[i].ask.obj = client.obj
          /\ OnTheWay[i].kind \in {"answer", "internal", "validation"}
LetGoOf(id) == \E i \in DOMAIN up : up[i].kind = "unsubscribe" /\ up[i].id = id

\* state.ts:721-725 (docs I5): a kept cursor is a promise that the copy holds
\* every record up to it, each folded in once and in order, and the scope has
\* those records.
CursorDescribesCopy ==
    client.cursor # NoCursor =>
       /\ client.copy = client.cursor
       /\ client.cursor.epoch = stream.epoch => client.cursor.seq <= stream.head

\* websocket.ts:728-737, 1202-1299: an open scope is registered, under the id
\* the client holds and as the newest registration that is not about to be
\* answered or dropped, or it is being recovered; and frames it holds back have
\* an answer, a refusal or a catch-up coming that lets them go.
IsFollowed ==
    connected =>
       /\ client.holding =>
             \/ client.recovery /\ Asked
             \/ /\ client.sub # 0
                /\ client.sub \in DOMAIN w.lagging \/ Coming(client.sub, {"catchup"})
       /\ client.obj # 0 /\ ~refused =>
             /\ client.recovery => Asked
             /\ client.recovery \/ client.sub # 0
             /\ client.sub # 0 =>
                   /\ client.sub \in ToSet(subs) /\ ~LetGoOf(client.sub)
                   /\ Last(subs) # client.sub => Coming(Last(subs), {"answer", "subscribed"})

\* server websocket.ts:717-722: the server keeps no registration that the client
\* neither holds nor will hear of nor has let go of.
NoOrphans ==
    client.thread => \A id \in ToSet(subs) :
       id = client.sub \/ LetGoOf(id) \/ Coming(id, {"answer", "subscribed"})

\* What synchronisation promises: see Replica.
Replicated ==
    INSTANCE Replica
       WITH NoCopy <- None,
            present <- stream.head,
            copy <- IF client.cursor = NoCursor THEN None
                    ELSE IF client.copy = client.cursor THEN client.copy.seq
                    ELSE stream.head + 1,
            excused <- client.obj = 0 \/ refused
ImplementsReplica == Replicated!Spec
=============================================================================
