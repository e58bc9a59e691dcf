# Verification of OpenManager's environment

OpenManager runs coding agents in an *environment server* (`apps/server`) on the
user's machine. Any number of clients (desktop, web, mobile: all over
`packages/environment-client`) follow its threads over WebSocket connections and
keep a copy of every scope they have open. The server stores every event it
accepts in one SQLite log, projects it into tables, and sends it on.

This directory holds TLA+ modules of the part that everything else rests on,
the way of an event **from the code that produces it, through the durable log and
the delivery queue, over one connection's bounded backlog, into a client's copy**;
of the turns of a chat, which are what most events are about; and of the owner of the
agent processes (`packages/agent-runtime`), with TLC runs and TLAPS proofs. Paths below are relative to the
repository; `docs/sync-foundations.md` is the repository's own design document
and its invariants are cited by their numbers (I5, I9, I11).

Contents: [parts of the system](#parts-of-the-system) ·
[modules](#modules) · [runs](#runs) · [fairness](#fairness) ·
[disagreements found](#disagreements-found) · [proofs](#proofs) ·
[what is left out](#what-is-left-out) · [plan](#plan)

## Parts of the system

```
 agents ── agent runtime ──────── thread service                   SessionRegistry, TurnLifecycle
           processes, prompts,     turns, requests,
           brokers                 builds, boot  ─┐ append / appendAtomic / finalizeNow
                                                ▼
                           event service + streaming batcher          EventBatcher
                                                │ one transaction
                                                ▼
             event_log, event_streams, tombstones  (SQLite)           EventLog
                     │ replay reads        │ publish after commit
                     ▼                     ▼
                  replay rule        delivery queue                   Replay, Connection
                        └──────┬───────────┘
                               ▼
                connection: subscriptions + writer                    Connection
                               │ WebSocket
                               ▼
                client transport: hold, place, recover                Sync
                               ▼
                a copy of the scope                                   Replica (abstract)
```

| Part | State | Operations | Hard behaviour | What makes it correct |
|---|---|---|---|---|
| Batcher and event service (`db/event-batcher.ts`, `event-service.ts`, `db/write-errors.ts`) | queue, gathered batch, frozen batch of a failed write, 100 ms timer | append, flush/close, timer, direct write, transient notice | a write fails, or commits and its publish throws; a batch is refused for one event; more events arrive before the retry; a kill | accepted order is disk order and publish order; only a bad event is dropped; a suffix is lost at most |
| Event repository (`db/event-repository.ts`) | streams (epoch, head, oldest, floor), rows, tombstones | one transaction: ensure stream, answer or insert, advance head | rollback, kill at any statement, retry of what is stored | contiguous sequences, one cursor per event, for good |
| Retention and replay (`db/event-retention.ts`, `db/replay-floor.ts`, `db/replay.ts`, `packages/protocol/src/replay.ts`) | the same tables, the clock, the event format | prune, raise floors at boot, answer a cursor | timestamps out of order, empty ranges, older formats | a replay misses nothing; a client accepts every answer |
| Delivery queue and connection writer (`event-delivery.ts`, `connection-writer.ts`) | FIFO, byte counter, half-written message, window, promised and lagging cursors | enqueue, pump, cut, catch up, release, acknowledge, keepalive | all of these call each other; frames of many subscriptions share one bound | bounded; no gap; everyone lagging is caught up |
| WebSocket server (`websocket.ts`) | registrations of each connection | subscribe, replay, unsubscribe, deliver, close, catch-up answers | a read and a registration in one tick, the answer behind older records; a scope deleted; a read that throws | a registered scope is fed or told that it lags |
| Client transport (`environment-client/src/websocket.ts`, `placement.ts`, `state.ts`) | per scope: cursor, subscription object, held frames, recovery flag | open, leave, receive, recover, release, resync, close | answers for a scope closed and opened again, catch-ups that do not fit, refusals, lost connections, restarts | the cursor describes the copy; the copy converges |
| Thread service, turn closure, boot reconcile (`thread-service.ts`, `db/turn-closure.ts`, `db/boot-reconcile.ts`) | the record of a loaded thread: active turn, cancellation, pending build, its requests; the rows of turns and requests | send, retry, interrupt, answer, build, load, delete, end of turn, boot | a completion, an interrupt, a failure, a deletion and a timeout race; writes fail behind memory's back; records are dropped under their turns | one turn open at a time; one end per turn, which closes what it asked; a retry finds its turn |
| Session runtime registry, reaper (`packages/agent-runtime`) | runtimes, starts in flight, turns per runtime | ensure, supersede, evict, reap | everything happens across awaits | one runtime per session, never reaped in a turn, cap respected |
| Prompt queue and brokers (`core/AgentRuntime.ts`, `core/InteractionBroker.ts`, `core/PermissionBroker.ts`) | prompts waiting, requests parked with a timer | prompt, cancel, park, settle | an answer, a timeout, a cancel and an exit meet one request | one settlement, heard by whom it concerns |
| Drafts (`draft-service.ts`, `draft-sync.ts`) | revisions, own saves on the wire, tombstones | edit, save, settle, discard | two clients, lost answers | no edit silently lost, no deleted draft back |
| Overlay, outbox, heartbeat, pairing, rate limits, uploads, tunnel, supervisor | see PROJECT.json | | | |

How they interact: the thread service and the other services call the event
service synchronously; the event service publishes to the delivery queue in the
same tick as the commit; the queue is drained by a microtask, or by a command
that is about to answer; a connection's calls are nested in the drain; client
and server share nothing but the two message streams of a connection. Every
component runs in a single-threaded event loop, so **interleaving happens between
calls, at awaits and inside re-entrant calls**, and each module says which of
these it has.

Every part, modelled or not, is in `PROJECT.json` under `components`, and what is
hard to test in it, by line, under `hazards`, with the property that covers it
or the reason none does yet.

## Modules

| Module | Models | Kind |
|---|---|---|
| `EventBatcher` | the write path | detailed, fairness |
| `OrderedDurability` | what the write path promises (I11) | abstract; `EventBatcher` implements it |
| `EventLog` | the durable log, retention, floors, replay reads | detailed |
| `Replay` | the replay rule and the client's acceptance of an answer | operators, used by `EventLog` and `Sync` |
| `Connection` | one connection's outbound side, call by call | detailed, fairness |
| `Sync` | server and client keeping one scope in sync | composition, fairness |
| `Replica` | what synchronisation promises (I5, I9) | abstract; `Sync` implements it |
| `TurnLifecycle` | the turns of one thread: memory, rows, batcher, prompt queue, broker, agent, crash and boot | composition, fairness |
| `SessionRegistry` | agent processes: shared starts, capacity, turns, reaping, shutdown | detailed, fairness |
| `Queues` | what filtering a queue leaves, and what it counts | operators, used by `Connection`, `Sync`, `EventBatcher` and `OrderedDurability` |
| `EventBatcher_proofs` | theorems about `EventBatcher`, its refinement included | proofs |
| `EventLog_proofs` | theorems about `EventLog` | proofs |
| `TurnLifecycle_proofs` | theorems about `TurnLifecycle` | proofs |
| `TurnRows_proofs` | theorems about `TurnLifecycle` that relate memory, the agent and the rows | proofs |
| `SessionRegistry_proofs` | theorems about `SessionRegistry` | proofs |
| `Queues_proofs` | lemmas about the filters and sums of `Queues` | proofs |
| `Connection_proofs` | theorems about `Connection`: types, the backlog, live subscriptions, its feeds | proofs |
| `Sync_proofs` | theorems about `Sync`, the safety of its refinement included | proofs |
| `MC*` | constants for TLC | |

`PROJECT.json` maps every definition to the lines it translates. Definitions
with the comment `Mutant:` are deliberate mistakes, used by no specification; they
are there to show that the properties notice them.

### EventBatcher

A call (`append`, `flushAll`, `TimerFires`, `appendAtomic`, `publishTransient`)
sets `phase`; until it is `"idle"` again only the steps of that call, or a kill,
can be taken. `DrainPending`, `TakeBarrier` and `take` are the loop of `drain`;
`flushBuffered` is one write in all its outcomes: committed and published;
failed before the commit; committed, published in part and thrown; refused and
isolated event by event, where the k-th write may fail. `EndAppend`, `EndFlush`,
`EndNotice` and `WriteDirect` are how each call ends. An event is an id; what it
says (`Ev`) is its kind, scope, turn and part; an item is the id it keeps with the
ids whose text it carries, so coalescing is visible and text is not spelled out.

A direct write whose publish throws commits rows that nobody publishes: `silent`
remembers them, and `PublishedInOrder` excepts exactly those rows. (An enqueue throws
only when memory is exhausted; a client that replays still gets the rows.)

### EventLog and Replay

The transaction runs step by step (`Begin`, `ensureStream`, `AnswerAgain` or
`insertEvent` any number of times, `advanceHead`, and so on for further scopes,
`Commit`); at each step it may be rolled back or the process killed, which brings
back `saved`. `prune` is one transaction over all streams. `Restart` is a kill
followed by the next boot with, possibly, a newer event format, whose floors are
raised before anything else. `AnswersTo(s, c)` is what the server would answer in
this state to *any* cursor `c`, including those of other epochs and those ahead of
the log (a restored database), so nothing depends on how a client came by a cursor.

Whether a snapshot is smaller than the replay is left open (both answers are
allowed whenever the code compares). The code's `Invalid retention boundary`
throw is not modelled: `LogIsContiguous` makes its condition unreachable.

### Connection

JavaScript calls nest: `pump` may start `catchUp`, which drains the delivery queue,
which delivers a frame, which pumps. `stack` is the call stack by name; `due` is what
the running `catchUp` loop has left and `owed` the answer of the running command.
A new call (commit, command, acknowledgement, keepalive, close, the drain's
microtask) starts only on an empty stack. Frames carry sizes, so the window, the
byte bound and fragments are real; how the rate and the round trip are measured
is replaced by a free choice of the next `window`. Cursors are plain sequences:
an epoch does not change while the server lives. `reader` is a history variable:
where the frames written so far lead somebody who reads them in order.

### Sync and Replica

A handler on either side is one step, as it is in the code. The client's steps are
operators from the client's record to the record the handler leaves
(`route`, `recover`, `release`, `applyCatchup`, `fail`, ...), named after the
functions they translate; what a handler sends leaves with it. The writer appears
as far as a client can tell: a queue with a bound on live frames (counted, not
measured), promised and lagging cursors. The delivery queue appears as
`MaxUndelivered`: a replay, a subscribe or a catch-up can read up to that many
records that the queue has not handed over yet, and `DeliverNew` hands them over
where the code does (before the answer of a command, after a catch-up's).

`copy` is what the client's store holds, as the number of records folded in;
folding in a wrong record leaves `Broken`. The `Subscription` object a client
makes for a scope is `obj`; answers name the object that asked.

`Replica` has three variables, the scope's present, the copy and whether anybody
keeps it, and says: the copy is always a past state of the scope, it moves only
forward unless it is dropped, and it becomes and stays the present unless nobody
keeps it. `ImplementsReplica` is that refinement, liveness included.

### TurnLifecycle

A session with one thread. A *record* (`records`, the source's `ThreadRecord`) is the thread
as one load of it holds it in memory; `record` says which one the map `threads` holds, 0 for
none. A record that was dropped is still held by the promises it started, so its turns
remember their `owner`. What a `ThreadRecord` and its `ActiveTurn` hold is:

| In the module | In `thread-service.ts` |
|---|---|
| `session` | how far `runtimeSession` is |
| `active`, `cancelling`, `building`, `unrecorded` | `activeTurn`, `cancellation`, `pendingBuild`, `unrecordedBackgroundTurn` |
| `stop`, `heard`, `folded`, `said` | `interruptRequested`, `runtimeMessageId` set, `foldedMessageId`, the turn's `state` |
| `chain` | where the promise chain of a sent turn's `completion` is |
| `asker`, `entry`, `answered`, `parked` | `record.interactions` (its turn, unsettled or settled, `answer`) and the broker's `pending` map |
| `message`, `queue` | `activeMessageIds`, `promptQueues` of `AgentRuntime` |
| `row`, `command`, `ask` | the tables `turns` and `interactions` |
| `due`, `late` | ends, and askings and settlements of requests, that a failed write left in the batcher |

A command, an event of the agent, a continuation of a promise and a timer are one action
each. `Target` is the filter of `onRuntimeEvent`: which turn an event is filed under, or none.
`End` is the terminal path with everything it does to memory: it clears the active turn,
appends the end and settles the requests the committed rows cancelled. `Write` is
`appendRuntimeEvent`: behind what the batcher keeps already, and kept with it when the write
fails, while memory goes on; `Commit` is a later flush. Commands that must be durable first
(`SendAs`, `InterruptHeld`, `Delete`) flush, write at once, and are refused if either fails:
their guard `Quiet` says that the flush left nothing behind. A refusal that changes nothing is
not a step.

`Continues` and `Idle`: when the session has answered, the chain of a prompt goes on in the
same turn of the event loop, before any command or event; nothing else is given that priority.

The agent is what the two kinds of provider session have in common. It works on one run at a
time, the prompt of a sent turn or (Claude only) a turn it began by itself, which a prompt
supersedes. It may ask a human, have the request time out, end, fail, refuse, exit, fail to
cancel, or begin by itself whenever its process may have background tasks. Assumed of it: it
does not end a run while it waits for an answer, it asks each of `Requests` once, and a process
that is at work is reused and not started again when its thread is loaded (`SessionFails`).

`Boot` ends the open turns the kill left, any set of which may fail to be written;
`unrecovered` remembers those. `abandoned` are turns dropped by a workspace removal whose
write then failed and that no boot has closed since (see the
[disagreements](#disagreements-found)).

### SessionRegistry

An action is the code from one await to the next. `starting[t]` is the chain of
starts `ensureStarted` builds for a thread (its last element is what the source's
map holds); the first one goes through `createOrReuse`, perhaps `Removed`, the gate
(`Evict`, `Evicted`), `create`, and a boot: `connect`, then `bootstrap`, `bootFails`
or the death of the child. `stage` is the await it is at, `awaited` the runtime it
waits for. A runtime record holds what the source keeps in the entry and in the
runtime: `phase` is the source's field, written without regard to the others just as
in the source; `child` is the process; `exit` says that `exitValue` is set;
`signalled` that a kill is under way. `prompts` and `turn` are the prompt queue of
`AgentRuntime`: a prompt is queued when its start has answered and begins its turn
in a later step, `runPrompt`. A provider and a directory are one `Place`.

Time: `idle(i)` says that `idleMs` have passed for a runtime. It does not happen
while a prompt is queued and not begun, which is a matter of a few continuations.
The activity counter is `sweep.still`: the candidates without activity since the
list was taken. The least recently used candidate is a quiet one if there is any;
among equals the choice is free, so nothing rests on exact recency.

## Runs

All bounds are constants named in the configurations. Each passing run fires
every disjunct of its next-state relation, or another run of the module does.

| Run | What it asks | Bounds and why they are enough |
|---|---|---|
| `event_batcher` | every safety property of the write path, that it implements `OrderedDurability`, and, under fairness, that gathered text is written | five events: two deltas that coalesce, a delta of a second turn that the projection refuses, a terminal, an event of another scope; a batch limit of three, so that limits, barriers and coalescing all fire; two failures, so that a retry or an isolation can fail as well |
| `event_log` | contiguity, complete replays, one cursor per event, retention | two scopes that share three ids and a transaction; three sequences, a cap of two and a window of zero over two clock values: both kinds of prune boundary, the empty range, an id that comes back after its tombstone went, and a boot with a newer format at each state |
| `connection` | the writer's bound, gaps and progress, what it remembers, and calls that return | a window and a backlog of two bytes with frames of one and two: every frame may or may not fit; catch-ups may throw. From two states (`MCSpec`): a thread alone with three records, a notice and a keepalive ahead of it, so that a cut, a catch-up and a second cut happen; and a thread beside the environment scope, which is subscribed, each with one record ahead of it, so that one cut takes both. Both states follow `Init`; all that follows `Init` with two subscriptions is too much for a run, and the theorems have it |
| `connection_throws` | a statement of the repository that does not hold | one subscription, a window and a backlog of one byte, two records; see [below](#disagreements-found) |
| `sync` | a scope opened, left and opened again, over a connection that is lost, by the network or by a restart, with a replay refused; both a thread and a scope that then subscribes without a cursor | a backlog, a wire and a client window of one frame, so that cuts happen at every frame and catch-ups do not fit; two records undelivered at a read; one loss and one refusal; records, transients and openings share a bound of four (`MaxActivity`), so that each of them may be the many |
| `registry` | one process per thread, none lost, turns, the cap, reaping, shutdown | two threads in two directories, a cap of one and three calls: a start joined, a second that supersedes it, a third that wants what the first wanted, on one thread; or two starts at the gate, or one beside a live runtime; or two live runtimes over the cap, with background work, for a sweep to go through |
| `registry_live` | starts settle, idle runtimes are reaped, a shutdown ends | two threads, a cap of one, one of them deleted at any moment |
| `turns` | one open turn, one end, requests closed with their turn | two commands and a request whose answer may build: three turns, sent, built or begun by the agent; two records (`MaxFaults` 2, the first record counts), so that one dropped under its turn meets its successor; no failed write and no restart, which the next run and the theorems have |
| `turns_restart` | retries, memory against rows, and that turns end | one command, one request and two turns, but two records, a failed write and a restart together (`MaxFaults` 4): a retry after a restart, a turn the boot could not close, a dropped record whose write fails |
| `turns_stopped` | a statement of the repository that does not hold | one command; see [below](#disagreements-found) |
| `registry_evicts_turn`, `registry_deleted` | two statements of the repository that do not hold | see [below](#disagreements-found) |

`CHECK_DEADLOCK FALSE` stands where the bounds let the system come to rest (all
records written, the connection closed, the turns used up); `EventBatcher` and `EventLog` never stop
(a call may always begin, a kill always come), and deadlock is checked there.

Notable properties, each checked against a mutated definition in `PROJECT.json`:

* `NothingLostOrReordered`: what was accepted is exactly disk, then batch, then
  queue, in order, at every step of every call, also half-way through an isolation.
* `DroppedForCause`: the retry of a committed row is never refused because of
  itself or of the end of its own turn.
* `FeedIsWhole`: at every step inside the nested calls, the frames written and
  queued for a subscription lead its reader to all that left the delivery queue.
  It is asked of subscriptions that are alone in their scope: of two
  registrations of one scope the server feeds only the newest.
* `IsFollowed`: a client that keeps a scope over a connection is registered for it, or
  something is on its way that makes it so; frames it holds back have something coming
  that releases them. It is the invariant behind convergence.
* `OneOpenTurn` relates four ways a turn starts (a send, a build, the agent, the previous
  process) to the rows, through records that are dropped while their turns run on. It needs
  the second look of `sendTurn`, at the rows, as the mutant without it shows.
* `MemoryAgreesWithRows`: what memory would take an answer to is what the rows would, once
  the batch is written, though memory runs ahead of writes that fail. Its second half, that
  what memory settled the rows settle too, excepts a turn that took in output of a run the
  agent began by itself: after a failing cancel the rest of that run's events carry no
  message id (`activeMessageIds` was cleared by the error), so a settlement among them goes
  unheard by the turn, and the rows close the request with the turn.
* `RetryFindsItsTurn` compares the rows with the last answer the client got.
* `TurnIsReal`: the flag that protects a runtime from the reaper is set exactly
  while a prompt runs on it, though it is set and cleared by thread id, by code that
  runs after the runtime of that thread may have changed.
* `CapHolds` excepts what the code excepts: once a start was admitted over the cap
  because nothing could be stopped (`overfull`), the count may stay above it. The
  loop then also gives up early (`this.byThread.size >= size`) when a start admitted
  before enters the map while a victim dies.
* `ChildIsOwned` holds without deletions (`registry`), and not with them
  (`registry_deleted`).
* `NoOrphans` is asked of threads only (`client.thread`). In a scope with a fallback
  subscribe, a subscribe and a replay can both be on their way, and the server
  keeps two registrations; its comment (`websocket.ts`, at `deliverScoped`) says so.

## Fairness

* `EventBatcher`: a call that began runs to its end (a synchronous function), and
  an armed timer fires. Nothing is assumed of callers, nor of the disk.
* `Connection`: a call runs to its end, a scheduled microtask runs, and an open
  client acknowledges frames, which the client's transport does on a timer of its
  own. Closing is always possible and never assumed.
* `Sync`: frames are written and received and commands handled while a connection
  lasts, a catch-up is built once it can be, and the client connects again when it
  lost the connection (its backoff never gives up on a saved environment). The
  user is not assumed to do anything, records need not stop: they are bounded.
* `TurnLifecycle`: promises settle (a session answers or fails, a prompt's chain and a
  cancellation go on); the queue dispatches; the broker's timers fire (five minutes);
  the agent ends its run once it waits for nobody; a turn it began by itself goes on
  speaking; a batch that failed is written by a later flush, and a kill is followed by a
  boot. Users are not assumed to do anything. `OpenTurnsEnd` rests on these, and excepts
  `unrecovered` and `abandoned`.
* `SessionRegistry`: continuations run; a boot completes, fails or is cut off by its
  timeouts; a process that is being killed dies (SIGKILL after the grace window); a
  process's death rejects its prompt; the sweep's timer fires. Agents, users and
  prompts are not assumed to do anything.

All are weak fairness. None is needed by the safety properties.

## Disagreements found

1. `registry_evicts_turn`. `packages/agent-runtime/src/session/constants.ts:91-92`
   says that a runtime with a turn in flight is never evicted. The decision looks at
   `activeTurn`, which is set several continuations after the prompt was granted its
   runtime. A start of another thread in between (two prompts sent in one tick, at
   the cap) stops the runtime; the prompt still finds it in the map and runs on the
   process that is being killed.
2. `registry_deleted`. `stop()` on a runtime that has no child yet settles at once; the
   spawn under way completes afterwards, and `start()` marks the runtime ready. Nothing
   holds that process any more, though `closeThread` promises to resolve once the
   child is gone (`packages/agent-runtime/src/core/AgentRuntime.ts:1070-1071`).
3. `turns_stopped`. The chain of a send calls `runtime.prompt`, which awaits the session's
   process and then waits in the queue behind the prompt before it. A `turn.interrupt`
   meanwhile calls `runtime.cancel`, which finds no live process and resolves
   (`core/AgentRuntime.ts:1036-1049`), or cancels only the prompt in front. The turn is
   recorded and announced as interrupted, the thread accepts another send, and then the
   prompt is dispatched: nobody asks again whether it is wanted. The agent works on it with
   nobody listening. A deletion leads to the same through `abandonTurn`. The comment on
   `cancel` (1027-1031) argues that there is nothing to cancel without an entry; the comment
   in the chain (`thread-service.ts:2052-2054`) wants no provider work for a dropped record.

4. `connection_throws`. When a catch-up cannot be built (`options.replay` throws), the catch block of
   `catchUp` (`websocket.ts:376-383`) closes the connection and returns, but leaves the subscription in
   the writer's `lagging` map. `maybeCatchUp` then pumps, `pump` ends in `maybeCatchUp`, which
   finds something lagging and calls `catchUp`, which returns at once because the connection
   is closed: the three call each other without end while the window is open. In the model the call goes on for ever;
   in the engine it ends when the stack is used up, with a `RangeError` out of the call that
   found the failure. `deliver` catches that one; the handler of an acknowledgement (`websocket.ts:469`) does
   not. `websocket.ts:792-793` says that a frame one connection cannot take closes that
   connection, and `docs/sync-foundations.md:1430` that an error thrown while building a frame does. `OpenCallsReturn`
   (`connection`) is what does hold: while the connection is open, calls return.

Two have no run here:

* `unregister` of a workspace (`workspaces.ts:382-390`) lets go of the workspace's records,
  their turns included, before the write that takes their rows. If that write fails, the
  rows keep an open turn that no chain ends any more (`RemoveFails`, `abandoned`): the chain
  sees a turn that is not active. A new send is refused until a client interrupts that turn or
  the server restarts. `docs/sync-foundations.md:835-838` argues that workspace closing needs
  no terminal because "their rows go with them".
* `docs/sync-foundations.md:2164` says that the lagging cursor is the newest one the
  connection was sure to deliver. A record that was queued ahead of a replay answer takes
  `promised` back when it is written (`connection-writer.ts:159`), so a later notice may name
  an older cursor. The catch-up then overlaps what the client has; the client finds that it
  does not fit and recovers, so the copy is still right (`sync`).

## Proofs

### The log

`EventLog_proofs` proves, for every set of scopes and ids, every retention policy
and every bound, from the assumptions `EventLogAssumption` on the constants:

| Theorem | Says |
|---|---|
| `Inductive` | the inductive invariant `IInv` |
| `TypeCorrect` | `Spec => []TypeOK` |
| `Contiguity` | `Spec => []LogIsContiguous` |
| `Uniqueness` | `Spec => []OneCursorPerEvent` |
| `CompleteReplay` | `Spec => []ReplayIsComplete` |
| `Acceptance` | `Spec => []AnswersAreAccepted` |
| `Retention` | `Spec => PruneKeepsRecent` |
| `Monotonicity` | `Spec => HeadsNeverGoBack` |
| `HeardForever` | `Spec => []CursorsAreForever` |

The argument. `LogIsContiguous` is not inductive: a rollback or a kill replaces the
tables by `saved`, of which it says nothing, and a prune that leaves a hole above
a floor would need facts on tombstones and formats. `IInv` therefore states one
predicate, `Sound`, twice: of the tables as the open transaction sees them, with
the local `head` of the group being written as the top of its stream, and of the
saved tables, with the streams' own heads. `Sound` is a conjunction: the types;
oldest, floor and head in order; the rows of a stream are exactly its range; every
tombstone lies below its stream's range; ids and cursors are unique over rows and
tombstones together; what lies above the floor is in the present format. Tombstones below
the range are what makes a fresh sequence unique, and the format conjunct is what
makes a replay complete *and* readable. There is one lemma per action; the long one is
`PruneSound`, where a prefix of the range moves to the tombstones and the range
stays contiguous whichever boundary, window's or cap's, decided.

`ReplayIsComplete` and `AnswersAreAccepted` follow from the invariant by cases on
the replay rule (`ReadAnswers`, `ReplayedRows`, `OldestBounds`); the count the code
compares is `Cardinality`, taken from the library's facts on finite sets.
`HeadsNeverGoBack` needs the second, small invariant `Grown` (`StreamsGrow`): a
transaction's streams have the saved epochs and heads no lower. `TypeOK`,
`AnswersAreAccepted` and `HeadsNeverGoBack` are no longer asked of the run: the theorems say
more.

`CursorsAreForever` is about what clients heard, and neither `Sound` nor the heads speak of
it. `Remembers` adds it: of the present and of the saved tables, what was heard lies under its
stream's epoch and not above its top, nothing else is stored at its cursor, and it is still
stored, as a row or a tombstone, unless its id was forgotten; a record that a transaction
will answer with is stored. Nothing heard is taken back by a rollback because only a
commit lets anything be heard; nothing stored later can take its cursor because a stream that
keeps its epoch only grows at its top (`StaysNamed`, `Continues`).

### The turns

`TurnLifecycle_proofs` and `TurnRows_proofs` (the last two) prove, for every set of commands and
requests and every bound on turns, records, failed writes and restarts, from
`TurnLifecycleAssumption`:

| Theorem | Says |
|---|---|
| `TurnTypes` | `Spec => []TypeOK` |
| `NothingStaysPending` | `Spec => []NothingPendingAfterEnd` |
| `OneEndsIt` | `Spec => []EndedOnce` |
| `RetryIsAnswered` | `Spec => []RetryFindsItsTurn` |
| `OneTurnOpen` | `Spec => []OneOpenTurn` |
| `MemoryAgrees` | `Spec => []MemoryAgreesWithRows` |

The runs of `TurnLifecycle` have one failed write and one restart, in one of them; the theorems
have any number, in any order. The argument, from one invariant to the next:

* `Typed` is `TypeOK` grouped by who writes what (rows, batch, memory, agent, counters), with one
  addition: a server that is down has a boot left. The groups are lemmas about `Write`, `End`,
  `SendAs` and `Opens`, which the actions share.
* `Filed`: a request no turn was filed for has left no trace, in the rows or in what the batcher
  keeps, and a pending one has its turn, which is open. The step that matters is that one write
  folds what was kept into the rows and into the requests together, the ends by the same `due`
  (`RowsAfter`, `AskAfter`): the lemma `WrittenFiled`.
* `Owning` is why a turn ends once. A record's active turn is its own and has not said its end
  (`OwnsActive`); a start of the agent's that could not be written, and that is still to be
  tried, is a number no record is active under and no other record owes (`OwesStart`). `twice`
  grows only when `End` meets a turn that said its end already, and each of its callers found it active.
* `Retried` joins three facts: `RowsHold` (a command of a turn the rows ever held is still in
  them, unless the session is gone), `RetryFindsItsTurn`, and `BuildOnce`: a build that is pending has no turn
  yet, and one that is pending or has a turn was asked for by an answer nobody can give again. Without
  the last, a build could overwrite the answer of an earlier one under the same id.

* `Rowed` is why one turn is open at a time. The look at the rows before a start
  (`Conflicts`) refuses while a row is open, so what has to be excluded is a start that is
  already on its way when another row opens: a start the agent made and memory could not
  write, a prompt whose session has not answered, a run the agent begins by itself. `Placed` orders a
  prompt's way (numbered, waiting, queued, running); `Speaks` says that an event names the run the agent is
  on, and that the active turn of the thread's record, once heard, is that run. The invariant
  proper is `Anchors`: unless nothing that could start a turn is left (`Dormant`), every open
  turn has somebody to end it, a due end in the batcher or a record that has it active, which is the
  thread's own or one whose prompt is about to find that its session failed. A dropped
  record leaves exactly these behind. While the server is down, nothing but the boot's
  own closures is left (`Down`).
* `Agrees`, on top of all of these, is why memory agrees with the rows. It is stated of the active
  turn of the thread's record (`Stands`): its row is open with no end due, and each request filed
  under it either waits in memory and will wait in the rows (`Waits`), or was
  settled and will be. `WriteWaits` says that a write, or its failure, changes
  nothing of what `Waits` says: it is stated of the rows as they will be.

### The registry

`SessionRegistry_proofs` proves, for every set of threads and places and every bound:

| Theorem | Says |
|---|---|
| `TypeCorrect` | `Spec => []TypeOK` |
| `CapIsKept` | `Spec => []CapHolds` |
| `TurnsAreReal` | `Spec => []TurnIsReal` |
| `ProcessesAreOwned` | of threads that are not deleted: what lives is in the map, once |
| `ProcessesAreSpared` | of threads that are not deleted: no reaping under work, none left by a shutdown |
| `ChildrenAreOwned` | `Closable = {}` implies `Spec => []ChildIsOwned` |
| `OneProcessEach` | `Closable = {}` implies `Spec => []OneProcessPerThread` |
| `ReaperSparesWork` | `Closable = {}` implies `Spec => []ReapingSparesWork` |
| `ShutdownLeavesNone` | `Closable = {}` implies `Spec => []ShutdownIsComplete` |

`Closable = {}` is what the run `registry` has. With deletions `ChildIsOwned` does not hold
(`registry_deleted`), which is why `ProcessesAreOwned` and `ProcessesAreSpared` state the same
things of the threads that were not deleted, beside others that were.

The invariant `IInv` says at each await what the code relies on when it comes back. `Stages`: while a
start waits or boots, the map holds nothing of its thread but the runtime it waits on.
`Gated`: a start waits at the gate once. `Exits`: the map holds exactly the runtimes that
have not exited. `Asked`: a prompt that runs is the first of its queue. `Reserved`:
the counter the cap adds is the number of starts that were admitted and have not entered the map.
`Makes` is the half of `CapHolds` that crosses an await: a victim that is gone leaves
room for the start it was stopped for, unless the loop gave up. `Reaped` is what `ReapingSparesWork` needs:
what the sweep stopped has no prompt queued that could still begin on it, because what
is quiet has none (`Quiet`).

### The connection

`Connection_proofs` proves, for every set of scopes and
subscriptions, every set of frame sizes and windows, every backlog bound and any number of records,
notices and keepalives:

| Theorem | Says |
|---|---|
| `Inductive` | the inductive invariant `IInv` |
| `TypeCorrect` | `Spec => []TypeOK`, the byte counter included |
| `BoundedBacklog` | `Spec => []BacklogIsBounded` |
| `LiveOnly` | `Spec => []OnlyLiveSubscriptions` |
| `WholeFeed` | `Spec => []FeedIsWhole` |

`ConnectionAssumption` says what kind of thing each constant is, and that `None` is neither a number
nor a subscription; `NoneAssumption`, that it is not an item either.

*The queue is data.* The model filters it and sums the bytes of what is left, and what that yields for
a queue of any length needs an induction. `Queues` writes the filter as a
function along the positions of the queue and a set of elements, and the sum with `FoldLeft`; `Queues_proofs`
turns both into one function on sequences (`Run`), for which it proves what an appended element and a concatenation do, by
induction over a *set* of numbers or of sequences (`NatSet`, `SeqSet`), which needs no operator as a
parameter. The facts on `Only` (what it holds, of a concatenation, of two filters, of a
tail, that it keeps the order) and on `Bytes` are the lemmas that all proofs about the connection cite.

*Calls nest.* `Called` says what the stack may look like: the answer of a command is the
bottom of its call and is owed exactly while it is there, and the ids a `catchUp` has left
are lagging, even after whatever ran inside it. `Answers` crosses the
gap between reading the log and answering: the scope of an answer that is owed was not deleted, and
its subscription is still registered unless the connection closed. Together with `Queued` (the
counter equals the bytes of the queue's live frames, and these belong to nobody who lags) and `Lives`
they are inductive; one lemma per action shows it, over shared lemmas on the stack (`Goes`, `Nests`,
`Pushing`, `Popping`), on a cut (`Cuts`) and on a release (`Releases`).

*Feeds.* `FeedIsWhole` alone says nothing of what a cut will leave, since a cut throws frames away and
starts again from what was *promised*. `Fine` therefore states of each subscription two feeds, the one
with its queued live frames and the one without them: both are whole, and the second one reaches what was promised. What
that takes of the rest of the state:

* `Consecutive`: the records of a scope that the delivery queue still has are its last ones, in
  order, so the next one handed over is at most one past a reader that has all before it.
* `Rising`: a record does not outrun an answer or a catch-up queued behind it, so writing
  it, which moves both the reader and what was promised, does not take either past the feed without live frames.
* `Current`: no cursor lies ahead of its scope, and an answer that is owed still is its
  scope's head when it is given: a command runs in one tick, and no commit can come between.
* `Apart`, `Untraced`: two registrations of a scope know of each other, and an id that was never
  given out left no trace.

`Fed(at, q)` is the fold of `Follow`; `FedPop` (the first item is read first), `FedQuiet` (notices lead
nowhere) and `FedFurther` (a reader that is further on loses nothing by answers and catch-ups)
are its lemmas. TLC checked `IInv` and the invariant of the feeds on three small instances before they were
proved.

### Synchronisation

`Sync_proofs` proves, for every backlog bound, window, number of undelivered records, of records and of
subscription objects, and any number of restarts, gaps and lost connections, from `SyncAssumption`
(the bounds are numbers, the window and the backlog at least one):

| Theorem | Says |
|---|---|
| `Inductive` | the inductive invariant `IInv` |
| `TypeCorrect` | `Spec => []TypeOK` |
| `CursorIsKept` | `Spec => []CursorDescribesCopy` |
| `CopyIsAReplica` | `Spec => Replicated!Init /\ [][Replicated!Next]_(Replicated!vars)` |

`CopyIsAReplica` is `ImplementsReplica` without `Converges`: that the copy becomes the present stays with the run `sync`.

*The invariant.* That the copy is right depends on what the writer still has queued and on what was
written and not read, under whatever the client is doing. `IInv` says:

* `StreamOK`: the scope's epoch, head and oldest record fit each other. A stream that is not
  stored yet has no records, so a cursor of an epoch that is over has none either (`Positions`).
* `WriterOK`: no answer in the queue is behind a record, or an answer, that goes further than it
  (`Ordered`, from `Upto`); live frames belong to registrations; the bound on live frames is kept.
* `WireOK`: the same of what is written and not read, also against everything in the queue.
* `AsksOK` and `ClientOK` (`Sound`): a kept cursor is the copy. Neither the cursor, nor a record held back
  during a recovery, nor a cursor that was asked from is ahead of an answer still to arrive (`Behind`), so an answer
  that is accepted never takes the client back; and no replay on its way was asked from later than the
  cursor (`Since`), so one that reaches the cursor leads on from it without a gap.
* `OffOK`: without a connection nothing is on its way.

TLC checked `IInv` on the whole run `sync` before it was proved.

*The argument.* The handlers are operators from record to record, as in the model, so each is proved once
whatever step calls it: a lemma per handler of the client (`RouteSound`, `RecoverSound`,
`ReleaseSound`, `CatchupSound`, `FailSound`, ...) says that it leaves a sound client and what it sends, and one per
operation of the writer (`ScopedSound`, `CutSound`, `UnregisterSound`, ...) that it leaves a sound queue. The folds
(held frames that are released, a delivery to every registration) go by the induction over a set of
sequences that `Queues_proofs` has (`Run`). What a
step of the server and a step of the client have to show beyond this is said once for each. A restart keeps the
positions because those of older epochs have no records. For the refinement, every handler leaves the copy alone,
moves it to a position at or after its own, or drops it; a publication is the one step that moves the
present.

### The write path

`EventBatcher_proofs` proves, for any events and whatever they say, any set of refused events, any batch
limit and any number of failures and notices, from `EventAssumption` (the kinds of events; a
refusal is about the turn or the part, so the pieces that coalesce are refused together; the two bounds
are numbers):

| Theorem | Says |
|---|---|
| `Inductive` | the inductive invariant `IInv` |
| `TypeCorrect` | `Spec => []TypeOK` |
| `LineIsKept` | `Spec => []NothingLostOrReordered` |
| `OnlyRefusedDropped` | `Spec => []DroppedForCause` |
| `CommitOrderIsHeard` | `Spec => []PublishedInOrder` |
| `OrderedAndDurable` | `Spec => ImplementsOrderedDurability` |

*One write has one shape.* `flushBuffered` ends in many ways, and the proofs see one. A batch is always
`Cat(b1, Cat(p, Cat(p2, d)))` (`Batch`): `b1` is settled, a set `F` of it refused; `p` and `p2` are written
but stay in the frozen batch, and `p` is published too; `d` is not written and stays. `FlushSettles` finds
these parts for every outcome of `Attempts` and of `Isolated`: all of it is `b1` when the write
succeeds, all of it `d` when it fails before the commit, a prefix is `p` when a publish throws, and
isolation that fails at the k-th item has it in `p2` or in `d`. Everything else is said of the parts, as
algebra of sequences without some of their elements (`Without`, with `WithoutCat`, `WithoutTwice`,
`WithoutAgrees`).

*The invariant.* `NothingLostOrReordered` cannot stand alone: that a retry adds only the rows that are
missing, and drops nobody's text twice, holds because no event is anywhere twice. `IInv` adds:

* `Once`: no event is produced twice, and only produced ones are dropped or lost. With `Lined` (the accepted events
  are what is on disk, then what the buffer has that is not, then the queue) it follows
  that the three places share no event (`LineIs`).
* `Frozen`: the frozen batch is the buffer and has no item twice; a buffer that is not frozen has nothing that is on disk.
  Coalescing again what is partly on disk would make an item the rows know under another body.
* `Sounded`: an item's id is its first event, and its events say the same, so that they are refused
  together. That is what `DroppedForCause` needs: an item that is refused because its id is taken, or
  because its turn ended, would have to share an event with a row, which it does not, or come after the end
  in the line, and then it was produced after it (`RefusedForCause`).
* `Heard`: what is heard, followed by what the frozen batch has beyond it, is what is committed and not
  silent, followed by what the frozen batch has beyond that. Two cuts of one sequence
  (`TwoCuts`): the earlier one's first half starts the later one's, and this is
  `PublishedInOrder`. The equation, unlike the property, survives a retry (`SettledHeard`).
* `Running`: an event a direct write carries is new.

TLC checked each of these on the whole run `event_batcher` before it was proved.

*The refinement.* `SettledLine` says that a write takes from the line exactly the text of `F` and moves
the boundary between disk and memory forward: this is `Settle`. A new event is `Accept`, a direct write
that commits is `AcceptDurably`, because nothing waits before it then, a kill is `Crash`, and all other steps
leave the line and the disk as they were. `OrderedDurability` states no fairness, so this is the whole of
the property the run checks.

### Only model-checked

* Of `Sync`: `IsFollowed` and `NoOrphans`, and `Converges`, the liveness half of `Replica`. The two
  invariants say that a client out of date has something on its way to it, which needs, beside what `IInv` orders,
  an account of every answer, error and release that each side still owes the other.
* `StoppedTurnsNeverPrompt`, `EvictionSparesTurns` and `CallsReturn` are violated, and `ChildIsOwned` where sessions
  are deleted: TLC shows how.
* Liveness under fairness (`LaggingIsCaughtUp`, `OpenCallsReturn`, `BufferedIsFlushed`, `OpenTurnsEnd`,
  `StartsSettle`, `IdleIsReaped`, `ShutdownEnds`), and whatever rests on `ENABLED`: beyond this prover.

## What is left out

* Of the write path: the relational projection inside the transaction (a refusal is
  a property of the event), text and byte counts (one batch limit).
* Of the connection: upgrade, authentication, handshake, request de-duplication,
  rate limits, command dispatch; the measured rate and round trip.
* Of the client: commands, held sends and the outbox, the reducers that fold a
  record (a copy counts records), the resnapshot a reducer asks for when a turn is
  unknown, the cache reloaded when the client restarts, scope deletion, and a
  database restored behind the server (`cursor_ahead`, which `EventLog` covers).
* Of the turns: several threads in one session (every session the code
  creates has one thread), more than one sub-agent, the parts of a turn beside its requests (tools
  and thoughts close as requests do, in the same transaction), titles, settings, the
  session's status, drafts restored by a rollback, uploads, and the checks that refuse a
  command before it looks at a turn (provider, workspace, attachments, validation). A send
  without a command id cannot be retried, and is a command sent once.
  A build that finds the batch not empty waits for it to be written; the code flushes it and refuses the
  build when that fails.
* Of the agent: what it says between the start and the end of a run, recoverable errors, the
  watchdog of a wedged interrupt (its stop is an exit), configuration.
* Of the registry: `rekey` (the rename of a thread that was just created, between two
  calls of one caller), `disposeAll`, the session and cursor a respawn carries over,
  the shutdown's time budget.
* Whole components: see `PROJECT.json`, status `not_modelled`, each with its reason.

## Plan

In order of importance; each with a type invariant, mutants, and the hazards that
`PROJECT.json` lists without a property today.

1. `Drafts`: two clients and a server with revisions and tombstones, refining a
   last-writer register.
2. `TurnLifecycle`, continued: an abstract `TurnSpec` (a turn starts once, ends once, in
   order) that it implements; open tools and thoughts; two threads in a session.
   Composed with `EventBatcher`, whose retry it now states as `due` and `late`.
3. `SessionRegistry`, continued: `rekey` and `disposeAll`.
4. `Heartbeat` over a discrete clock; `Pairing` with one-use codes.
5. `Sync` extended by scope deletion, resnapshots and the reloaded cache.
6. Proofs: `Sync`'s `IsFollowed` and `NoOrphans`; lemmas on the replay rule stated once over `Replay`.
