--------------------------- MODULE TurnLifecycle ---------------------------
(***************************************************************************)
(* The turns of one chat: how they start, wait on a human and end          *)
(* (apps/server/src/thread-service.ts), the rows that outlive the process  *)
(* (db/event-projection.ts, db/turn-closure.ts), the boot that closes what *)
(* the last process left open (db/boot-reconcile.ts), and the agent behind *)
(* them: its queue of prompts and the broker that parks its requests       *)
(* (agent-runtime core/AgentRuntime.ts, core/InteractionBroker.ts).        *)
(*                                                                         *)
(* A session has one thread.  A record is the thread as one load of it     *)
(* holds it in memory; what a dropped record started runs on.  A command,  *)
(* an event of the agent and a continuation of a promise are one action    *)
(* each.  A run is what the agent works on: a sent turn's prompt, or a     *)
(* turn it began by itself; runs and turns share their numbers.            *)
(***************************************************************************)
EXTENDS Naturals, FiniteSets, Sequences

CONSTANTS
    Commands,    \* command ids of the sends of clients
    Requests,    \* what the agent asks a human
    Plans,       \* requests whose accepted answer builds in a follow-up turn
    MaxTurns,    \* bound: turns and runs
    MaxLoads,    \* bound: records of the thread, one after another
    MaxFailures, \* bound: writes that fail
    MaxBoots,    \* bound: restarts
    MaxFaults    \* bound: records, failures and restarts together

ASSUME TurnLifecycleAssumption ==
    /\ Plans \subseteq Requests
    /\ Commands \intersect Requests = {}
    /\ MaxTurns \in Nat /\ MaxLoads \in Nat \ {0}
    /\ MaxFailures \in Nat /\ MaxBoots \in Nat /\ MaxFaults \in Nat

VARIABLES
    child,       \* a sub-agent's session: loaded, never created, and under a parent
    held,        \* the rows hold the session
    row,         \* a turn's row: "absent", "open", or how it ended
    command,     \* the command id in a turn's row
    ask,         \* a request's row: "absent", "pending", "resolved", "cancelled"
    due,         \* ends whose write failed, kept by the batcher
    late,        \* what else it keeps of a request: its asking, its settlement
    up,          \* the server runs
    record,      \* threads: the record of the thread, 0 for none
    records,
    turns,       \* a turn in memory, and the promise chain of its prompt
    asker,       \* the turn a request was filed under, 0 for none
    requests,    \* record.interactions and the broker's pending map
    queue,       \* promptQueues: prompts waiting for the one before them
    work,        \* the run the agent is on, 0 for none
    message,     \* activeMessageIds: the run its events name, 0 for none
    background,  \* the agent may have background tasks
    reply,       \* history: the last answer to a build, and to a send that has a turn
    twice,       \* history: turns a record ended twice
    unrecovered, \* history: turns a boot could not close
    abandoned,   \* history: turns dropped by a removal that then failed
    used, loads, failures, boots

rows == <<held, row, command, ask>>
batch == <<due, late, failures>>
memory == <<record, records, turns, asker, requests>>
agent == <<queue, work, message, background>>
history == <<reply, twice, unrecovered, abandoned>>
bounds == <<used, loads, boots>>
vars == <<child, rows, batch, up, memory, agent, history, bounds>>

Turns == 1..MaxTurns
Loads == 1..MaxLoads
Ends == {"completed", "interrupted", "failed"}
NoReply == 0
Refused == MaxTurns + 1
CommandIds == Commands \union Requests

NoRecord == [session |-> "none", active |-> 0, cancelling |-> 0, cancel |-> "none",
             building |-> {}, unrecorded |-> 0]
NoTurn == [owner |-> 0, chain |-> "none", stop |-> FALSE, heard |-> FALSE, folded |-> 0,
           said |-> "none"]
NoRequest == [parked |-> FALSE, entry |-> "none", answered |-> FALSE]
NothingDue == [t \in Turns |-> "none"]
NothingLate == [q \in Requests |-> {}]

\* A session just created is in memory while its agent starts; a sub-agent's
\* is loaded from its rows when somebody asks for it.
Init ==
    /\ child \in BOOLEAN
    /\ held = TRUE
    /\ row = [t \in Turns |-> "absent"]
    /\ command = [t \in Turns |-> {}]
    /\ ask = [q \in Requests |-> "absent"]
    /\ due = NothingDue
    /\ late = NothingLate
    /\ up = TRUE
    /\ record = IF child THEN 0 ELSE 1
    /\ records = [g \in Loads |->
                    IF g = record THEN [NoRecord EXCEPT !.session = "loading"] ELSE NoRecord]
    /\ turns = [t \in Turns |-> NoTurn]
    /\ asker = [q \in Requests |-> 0]
    /\ requests = [q \in Requests |-> NoRequest]
    /\ queue = <<>>
    /\ work = 0
    /\ message = 0
    /\ background = FALSE
    /\ reply = [c \in CommandIds |-> NoReply]
    /\ twice = {}
    /\ unrecovered = {}
    /\ abandoned = {}
    /\ used = 0
    /\ loads = record
    /\ failures = 0
    /\ boots = 0

-----------------------------------------------------------------------------
(* Writes.                                                                 *)

OpenTurns == {t \in Turns : row[t] = "open"}
Quiet == due = NothingDue /\ late = NothingLate

\* A deletion takes the rows with it; what the batcher kept was flushed first.
RowsGo ==
    /\ held' = FALSE
    /\ row' = [t \in Turns |-> "absent"]
    /\ ask' = [q \in Requests |-> "absent"]
    /\ due' = NothingDue /\ late' = NothingLate
    /\ UNCHANGED command

\* Mutant: a turn is closed whether its end came or not.
RowsAfterAll(d) == [t \in Turns |-> IF row[t] = "open" THEN d[t] ELSE row[t]]

\* finishOpenTurn: a turn that is not open refuses its end.
RowsAfter(d) == [t \in Turns |-> IF d[t] # "none" /\ row[t] = "open" THEN d[t] ELSE row[t]]

\* Mutant: the end of a turn leaves what it asked pending.
AskAfterKept(by, d, l) ==
    [q \in Requests |->
      LET asked == IF "request" \in l[q] /\ row[by[q]] = "open" THEN "pending" ELSE ask[q]
      IN  IF "settle" \in l[q] /\ asked = "pending" THEN "resolved" ELSE asked]

\* A request is asked, then settled, then closed by the end of its turn, which
\* the same transaction writes (closesFor).
AskAfter(by, d, l) ==
    [q \in Requests |->
      LET asked == IF "request" \in l[q] /\ row[by[q]] = "open" THEN "pending" ELSE ask[q]
          settled == IF "settle" \in l[q] /\ asked = "pending" THEN "resolved" ELSE asked
      IN  IF settled = "pending" /\ d[by[q]] # "none" THEN "cancelled" ELSE settled]

\* The bounds leave something to happen.
Left == loads + failures + boots < MaxFaults

\* appendRuntimeEvent: an event is written behind what the batcher keeps; when
\* the write fails it is kept with it, and memory goes on.
WriteFails == failures < MaxFailures /\ Left /\ failures' = failures + 1

Written(by, d, l) ==
    /\ row' = RowsAfter(d) /\ ask' = AskAfter(by, d, l)
    /\ due' = NothingDue /\ late' = NothingLate
    /\ UNCHANGED failures

Write(by, d, l) ==
    /\ asker' = by
    /\ UNCHANGED <<held, command>>
    /\ \/ Written(by, d, l)
       \/ WriteFails /\ due' = d /\ late' = l /\ UNCHANGED <<row, ask>>

\* A flush by a timer or by another session's event. One that fails keeps all.
Commit ==
    /\ up /\ ~Quiet
    /\ Written(asker, due, late)
    /\ UNCHANGED <<child, held, command, up, memory, agent, history, bounds>>

-----------------------------------------------------------------------------
(* The thread service's memory.                                            *)

Active == IF record = 0 THEN 0 ELSE records[record].active

\* Mutant: whoever comes to end a turn does, were it ended already.
OwnedAnyway(t) == turns[t].owner # 0

Owned(t) == turns[t].owner # 0 /\ records[turns[t].owner].active = t

\* onRuntimeEvent files an event under the active turn whose run it names.
Target ==
    LET a == Active
    IN  IF a # 0 /\ \/ turns[a].folded # 0 /\ turns[a].folded = message
                    \/ turns[a].heard /\ message \in {0, a}
        THEN a ELSE 0

\* A prompt waits for its session, which answered: it is started or skipped in
\* the same tick, before any command or event of the agent.
Continues(t) ==
    turns[t].chain = "waiting" /\ records[turns[t].owner].session \in {"ready", "failed"}

Idle == up /\ \A t \in Turns : ~Continues(t)

\* The terminal path: the active turn is cleared and its end appended; the
\* requests the committed rows say were cancelled with it settle.
End(t, outcome, ts, rs, qs, l) ==
    /\ Write(asker, [due EXCEPT ![t] = IF @ = "none" THEN outcome ELSE @], l)
    /\ turns' = [ts EXCEPT ![t].said = outcome, ![t].heard = FALSE, ![t].folded = 0]
    /\ records' = [rs EXCEPT ![turns[t].owner].active = 0]
    /\ requests' = [q \in Requests |->
         IF /\ asker[q] = t /\ turns[t].owner = record
            /\ qs[q].entry = "open" /\ ask'[q] = "cancelled"
         THEN [qs[q] EXCEPT !.entry = "settled"] ELSE qs[q]]
    /\ twice' = IF turns[t].said = "none" THEN twice ELSE twice \union {t}
    /\ UNCHANGED <<reply, unrecovered, abandoned>>

Stopped(t, otherwise) == IF turns[t].stop THEN "interrupted" ELSE otherwise

\* loadSession: a record of the rows' thread, its session asked for.
Attached == IF record # 0 THEN record ELSE loads + 1
WithAttached ==
    IF record # 0 THEN records ELSE [records EXCEPT ![loads + 1] = [NoRecord EXCEPT !.session = "loading"]]
CanAttach == record # 0 \/ (held /\ loads < MaxLoads /\ Left)
Attach == record' = Attached /\ loads' = Attached

Load ==
    /\ Idle /\ Quiet
    /\ record = 0 /\ CanAttach /\ Attach
    /\ records' = WithAttached
    /\ UNCHANGED <<child, rows, batch, up, turns, asker, requests, agent, history, used, boots>>

SessionReady(g) ==
    /\ up /\ records[g].session = "loading"
    /\ records' = [records EXCEPT ![g].session = "ready"]
    /\ UNCHANGED <<child, rows, batch, up, record, turns, asker, requests, agent, history, bounds>>

\* A session that was being created is rolled back, rows and all; one that was
\* being restored lets go of its record. Neither is abandoned: the turn's own
\* chain ends it. A process still at work is reused, and does not fail.
SessionFails(g) ==
    /\ up /\ records[g].session = "loading"
    /\ work = 0 /\ ~background
    /\ records' = [records EXCEPT ![g].session = "failed"]
    /\ record' = IF record = g THEN 0 ELSE record
    /\ IF g = 1 /\ ~child /\ boots = 0 /\ record = g
       THEN \/ RowsGo /\ UNCHANGED failures
            \/ WriteFails /\ UNCHANGED <<rows, due, late>>
       ELSE UNCHANGED <<rows, batch>>
    /\ UNCHANGED <<child, up, turns, asker, requests, agent, history, bounds>>

\* A sub-agent's record goes with its parent's when the parent fails to load.
DroppedWithParent ==
    /\ Idle /\ child /\ record # 0
    /\ record' = 0
    /\ UNCHANGED <<child, rows, batch, up, records, turns, asker, requests, agent, history, bounds>>

-----------------------------------------------------------------------------
(* turn.send and the chain of its prompt.                                  *)

Remembered(c) == {t \in Turns : record # 0 /\ turns[t].owner = record /\ c \in command[t]}
Logged(c) == {t \in Turns : row[t] # "absent" /\ c \in command[t]}

\* Mutant: a retry is looked up in memory only.
KnownHere(c) == Remembered(c)

Known(c) == Remembered(c) \union Logged(c)

Busy(r) == r.active # 0 \/ r.cancelling # 0 \/ r.building # {}

\* Mutant: the rows are not asked.
ConflictsHere(rs) == Busy(rs[Attached])

\* Memory may hold a turn, and the rows one that no process runs.
Conflicts(rs) == Busy(rs[Attached]) \/ OpenTurns # {}

\* A command nobody knows: a load, if memory has no record; then the conflicts,
\* of memory and of the rows; then the start, durable or refused.
SendAs(c, rs) ==
    LET t == used + 1
    IN  /\ Quiet /\ CanAttach /\ Attach
        /\ \/ /\ IF Conflicts(rs) THEN UNCHANGED failures ELSE WriteFails
              /\ reply' = IF c \in Requests THEN [reply EXCEPT ![c] = Refused] ELSE reply
              /\ records' = rs
              /\ UNCHANGED <<rows, due, late, turns, used>>
           \/ /\ ~Conflicts(rs)
              /\ used < MaxTurns /\ used' = t
              /\ reply' = [reply EXCEPT ![c] = t]
              /\ records' = [rs EXCEPT ![Attached].active = t]
              /\ turns' = [turns EXCEPT ![t] =
                            [NoTurn EXCEPT !.owner = Attached, !.chain = "waiting"]]
              /\ row' = [row EXCEPT ![t] = "open"]
              /\ command' = [command EXCEPT ![t] = {c}]
              /\ UNCHANGED <<held, ask, batch>>

\* A retry finds its turn before anything else, in memory or in the rows.
Send(c) ==
    /\ Idle
    /\ \/ /\ Known(c) # {}
          /\ Quiet \/ Remembered(c) # {}
          /\ reply' = [reply EXCEPT ![c] = CHOOSE k \in Known(c) : TRUE]
          /\ UNCHANGED <<rows, batch, record, records, turns, used, loads>>
       \/ Known(c) = {} /\ SendAs(c, WithAttached)
    /\ UNCHANGED <<child, up, asker, requests, agent, twice, unrecovered, abandoned, boots>>

Skips(t) ==
    /\ turns' = [turns EXCEPT ![t].chain = "skipped"]
    /\ UNCHANGED <<rows, batch, records, asker, requests, history>>

\* The session answered: a turn nobody waits for any more is not prompted, and
\* one whose record was dropped under it ends here, or nowhere.
StartPrompt(t) ==
    /\ up /\ Continues(t) /\ records[turns[t].owner].session = "ready"
    /\ IF record # turns[t].owner
       THEN /\ IF Owned(t) /\ held
               THEN End(t, "failed", [turns EXCEPT ![t].chain = "skipped"], records, requests, late)
               ELSE Skips(t)
            /\ UNCHANGED queue
       ELSE IF ~Owned(t) \/ turns[t].stop
       THEN Skips(t) /\ UNCHANGED queue
       ELSE /\ turns' = [turns EXCEPT ![t].chain = "prompted"]
            /\ queue' = Append(queue, t)
            /\ UNCHANGED <<rows, batch, records, asker, requests, history>>
    /\ UNCHANGED <<child, up, record, work, message, background, bounds>>

\* Mutant: the rejection of the session is caught by nobody.
SettlesAlone(t) == turns[t].chain \in {"resolved", "rejected"}

\* The prompt's promise settled, or the session's rejected.
Settles(t) ==
    \/ turns[t].chain \in {"resolved", "rejected"}
    \/ Continues(t) /\ records[turns[t].owner].session = "failed"

PromptSettles(t) ==
    /\ up /\ Settles(t)
    /\ LET fine == turns[t].chain = "resolved"
           ts == [turns EXCEPT ![t].chain = IF fine THEN "settled" ELSE "failed"]
       IN  IF Owned(t)
           THEN End(t, Stopped(t, IF fine THEN "completed" ELSE "failed"), ts, records, requests, late)
           ELSE turns' = ts /\ UNCHANGED <<rows, batch, records, asker, requests, history>>
    /\ UNCHANGED <<child, up, record, agent, bounds>>

-----------------------------------------------------------------------------
(* The agent.                                                              *)

Parked == {q \in Requests : requests[q].parked}
IsPrompt(r) == turns[r].chain # "none"
Unrecorded == record # 0 /\ message # 0 /\ records[record].unrecorded = message

\* runPrompt, once the prompt before it has settled. It supersedes a turn the
\* agent began by itself, which ends first.
Dispatch ==
    /\ Idle /\ queue # <<>> /\ ~Unrecorded
    /\ work # 0 => ~IsPrompt(work)
    /\ LET t == Head(queue)
       IN  /\ work' = t /\ message' = t
           /\ IF work # 0 /\ Target = work
              THEN End(work, Stopped(work, "completed"), turns, records, requests, late)
              ELSE /\ turns' = IF Active = t THEN [turns EXCEPT ![t].heard = TRUE] ELSE turns
                   /\ UNCHANGED <<rows, batch, records, asker, requests, history>>
    /\ queue' = Tail(queue)
    /\ background' = ~child
    /\ UNCHANGED <<child, up, record, bounds>>

\* No process could be had for it, or it refused the prompt.
PromptRejected(t) ==
    /\ Idle
    /\ \E i \in DOMAIN queue :
          /\ queue[i] = t
          /\ queue' = SubSeq(queue, 1, i - 1) \o SubSeq(queue, i + 1, Len(queue))
    /\ turns' = [turns EXCEPT ![t].chain = "rejected"]
    /\ UNCHANGED <<child, rows, batch, up, record, records, asker, requests, work, message,
                   background, history, bounds>>

\* Mutant: the settlement is recorded in the rows and not in memory.
SettledInRows(S) ==
    [q \in Requests |-> IF q \notin S THEN requests[q] ELSE [requests[q] EXCEPT !.parked = FALSE]]

\* The broker settles what is parked and says so; an answer to a request that
\* the turn did not ask is refused by the rows.
SettledIn(S) ==
    [q \in Requests |->
       IF q \notin S THEN requests[q]
       ELSE [requests[q] EXCEPT !.parked = FALSE,
               !.entry = IF Target # 0 /\ @ = "open" THEN "settled" ELSE @]]
LateWith(S) ==
    [q \in Requests |->
       IF q \in S /\ Target # 0 /\ asker[q] = Target THEN late[q] \union {"settle"} ELSE late[q]]
SettleOnly(S) ==
    /\ requests' = SettledIn(S)
    /\ IF LateWith(S) = late THEN UNCHANGED <<rows, batch, asker>> ELSE Write(asker, due, LateWith(S))

ProviderAsks(q) ==
    /\ Idle /\ work # 0 /\ asker[q] = 0 /\ requests[q].entry = "none"
    /\ IF Unrecorded \/ Target = 0
       THEN /\ requests' = [requests EXCEPT ![q].parked = TRUE, ![q].entry = "unheard"]
            /\ UNCHANGED <<rows, batch, asker>>
       ELSE /\ requests' = [requests EXCEPT ![q].parked = TRUE, ![q].entry = "open"]
            /\ Write([asker EXCEPT ![q] = Target], due, [late EXCEPT ![q] = @ \union {"request"}])
    /\ UNCHANGED <<child, up, record, records, turns, agent, history, bounds>>

\* A timeout, or the agent giving one request up.
BrokerSettles(q) ==
    /\ Idle /\ requests[q].parked
    /\ SettleOnly({q})
    /\ UNCHANGED <<child, up, record, records, turns, agent, history, bounds>>

\* prompt_completed or a fatal error, and the promise of the prompt with it.
RunEnds(outcome) ==
    /\ Idle /\ work # 0 /\ Parked = {}
    /\ LET a == Target
           ts == IF IsPrompt(work)
                 THEN [turns EXCEPT ![work].chain =
                         IF outcome = "failed" THEN "rejected" ELSE "resolved"]
                 ELSE turns
       IN  IF a = 0 \/ (message # 0 /\ turns[a].folded = message)
           THEN turns' = ts /\ UNCHANGED <<rows, batch, records, asker, requests, history>>
           ELSE End(a, Stopped(a, outcome), ts, records, requests, late)
    /\ work' = 0 /\ message' = 0
    /\ UNCHANGED <<child, up, record, queue, background, bounds>>

\* settleExit: what is parked first, then process_exited, which ends a turn the
\* provider never heard of too, unless it names another run.
ProcessExits ==
    /\ Idle
    /\ LET a == Active
           qs == SettledIn(Parked)
           ts == IF work # 0 /\ IsPrompt(work)
                 THEN [turns EXCEPT ![work].chain = "rejected"] ELSE turns
       IN  IF a # 0 /\ (message = 0 \/ (turns[a].heard /\ message = a))
           THEN End(a, Stopped(a, "failed"), ts, records, qs, LateWith(Parked))
           ELSE SettleOnly(Parked) /\ turns' = ts /\ UNCHANGED <<records, history>>
    /\ work' = 0 /\ message' = 0 /\ background' = FALSE
    /\ UNCHANGED <<child, up, record, queue, bounds>>

\* startBackgroundTurn: folded into a sent turn the provider has not heard of,
\* dropped while the thread is kept for a stop or a build, or a turn of its own.
Opens(b) ==
    LET r == records[record]
        cleared == [records EXCEPT ![record].unrecorded = 0]
    IN  /\ UNCHANGED <<asker, held, command, failures>>
        /\ IF r.active # 0
           THEN /\ turns' = IF turns[r.active].heard THEN turns
                            ELSE [turns EXCEPT ![r.active].folded = b]
                /\ records' = cleared
                /\ UNCHANGED <<row, ask, due, late>>
           ELSE IF Busy(r)
           THEN records' = cleared /\ UNCHANGED <<row, ask, due, late, turns>>
           ELSE /\ row' = [RowsAfter(due) EXCEPT ![b] = "open"]
                /\ ask' = AskAfter(asker, due, late)
                /\ due' = NothingDue /\ late' = NothingLate
                /\ records' = [cleared EXCEPT ![record].active = b]
                /\ turns' = [turns EXCEPT ![b] = [NoTurn EXCEPT !.owner = record, !.heard = TRUE]]

BackgroundStarts ==
    /\ Idle /\ background /\ work = 0 /\ used < MaxTurns
    /\ used' = used + 1 /\ work' = used + 1 /\ message' = used + 1
    /\ \/ record = 0 /\ UNCHANGED <<rows, batch, records, turns, asker>>
       \/ record # 0 /\ Opens(used + 1)
       \/ /\ record # 0 /\ ~Busy(records[record]) /\ WriteFails
          /\ records' = [records EXCEPT ![record].unrecorded = used + 1]
          /\ UNCHANGED <<rows, due, late, turns, asker>>
    /\ UNCHANGED <<child, up, record, requests, queue, background, history, loads, boots>>

\* What the agent says next tries a start that could not be written again. One
\* that fails again leaves it unsaid, and is not counted as another failure.
BackgroundSpeaks ==
    /\ Idle /\ work # 0 /\ Unrecorded
    /\ Opens(message)
    /\ UNCHANGED <<child, up, record, requests, agent, history, bounds>>

-----------------------------------------------------------------------------
(* interaction.respond and the build that follows an accepted plan.        *)

\* Answered, or refused because it settled by itself: the provider holds it no
\* more. The answer and its settlement are one step.
Respond(q) ==
    LET t == asker[q]
    IN  /\ Idle /\ t # 0 /\ Active = t
        /\ requests[q].entry = "open" /\ ~requests[q].answered
        /\ IF ~requests[q].parked
           THEN /\ requests' = [requests EXCEPT ![q].entry = "settled"]
                /\ UNCHANGED <<rows, batch, asker, records>>
           ELSE /\ requests' = [SettledIn({q}) EXCEPT ![q].answered = TRUE]
                /\ Write(asker, due, LateWith({q}))
                /\ \/ UNCHANGED records
                   \/ /\ q \in Plans /\ IsPrompt(t)
                      /\ records' = [records EXCEPT ![record].building = {q}]
        /\ UNCHANGED <<child, up, record, turns, agent, history, bounds>>

\* The proposing turn's completion has settled: the follow-up is sent, in the
\* mode of the build, under an id of its own.
BuildContinues(g) ==
    \E q \in records[g].building :
      LET t == asker[q]
          rs == [records EXCEPT ![g].building = {}]
      IN  /\ up /\ turns[t].chain \in {"skipped", "settled", "failed"}
          /\ IF /\ record = g /\ turns[t].said = "completed"
                /\ turns[t].chain = "settled" /\ ~turns[t].stop
             THEN SendAs(q, rs)
             ELSE records' = rs /\ UNCHANGED <<rows, batch, record, turns, reply, used, loads>>
          /\ UNCHANGED <<child, up, asker, requests, agent, twice, unrecovered, abandoned, boots>>

\* The winning answer retried: only the start that failed is tried again.
RetryBuild(q) ==
    /\ Idle /\ reply[q] = Refused /\ asker[q] # 0
    /\ requests[q].answered /\ record # 0 /\ turns[asker[q]].owner = record
    /\ records' = [records EXCEPT ![record].building = {q}]
    /\ UNCHANGED <<child, rows, batch, up, record, turns, asker, requests, agent, history, bounds>>

-----------------------------------------------------------------------------
(* turn.interrupt.                                                         *)

Interrupt(t) ==
    /\ Idle /\ Active = t /\ ~turns[t].stop
    /\ turns' = [turns EXCEPT ![t].stop = TRUE]
    /\ records' = [records EXCEPT ![record].cancelling = t, ![record].cancel = "asked"]
    /\ UNCHANGED <<child, rows, batch, up, record, asker, requests, agent, history, bounds>>

\* A turn only the rows hold: its end is written, or the command fails.
InterruptHeld(t) ==
    /\ Idle /\ Quiet /\ Active # t /\ row[t] = "open"
    /\ \/ /\ row' = [row EXCEPT ![t] = "interrupted"]
          /\ ask' = AskAfter(asker, [due EXCEPT ![t] = "interrupted"], late)
          /\ UNCHANGED failures
       \/ WriteFails /\ UNCHANGED <<row, ask>>
    /\ UNCHANGED <<child, held, command, due, late, up, memory, agent, history, bounds>>

\* runtime.cancel: what the thread has parked is settled, the agent told.
CancelReaches(g) ==
    /\ Idle /\ records[g].cancel = "asked" /\ records[g].session = "ready"
    /\ records' = [records EXCEPT ![g].cancel = "sent"]
    /\ SettleOnly(Parked)
    /\ UNCHANGED <<child, up, record, turns, agent, history, bounds>>

\* The request failed: an error of the thread, then the rejection.
CancelErrs(g) ==
    /\ Idle /\ records[g].cancel = "sent"
    /\ LET rs == [records EXCEPT ![g].cancel = "failed"]
           a == Target
       IN  IF a = 0 \/ (message # 0 /\ turns[a].folded = message)
           THEN records' = rs /\ UNCHANGED <<rows, batch, turns, asker, requests, history>>
           ELSE End(a, Stopped(a, "failed"), turns, rs, requests, late)
    /\ message' = 0
    /\ UNCHANGED <<child, up, record, queue, work, background, bounds>>

\* The cancellation settles. One that failed leaves a prompt running, to be
\* stopped again; a prompt that never started has nothing to stop.
CancelReturns(g) ==
    LET t == records[g].cancelling
        rs == [records EXCEPT ![g].cancelling = 0, ![g].cancel = "none"]
        fails == records[g].cancel = "failed" \/ records[g].session = "failed"
    IN  /\ Idle /\ t # 0
        /\ fails \/ records[g].cancel = "sent"
        /\ IF records[g].active # t
           THEN records' = rs /\ UNCHANGED <<rows, batch, turns, asker, requests, history>>
           ELSE IF fails /\ turns[t].chain \notin {"waiting", "skipped"}
           THEN /\ turns' = [turns EXCEPT ![t].stop = FALSE]
                /\ records' = rs
                /\ UNCHANGED <<rows, batch, asker, requests, history>>
           ELSE End(t, "interrupted", turns, rs, requests, late)
        /\ UNCHANGED <<child, up, record, agent, bounds>>

-----------------------------------------------------------------------------
(* session.delete, workspace removal, crash and boot.                      *)

\* abandon: the record is let go of and its turn cleared; the cancel it asks
\* for settles and stops what the agent's own steps may, and a process with
\* background tasks is closed.
Abandon ==
    /\ record' = 0
    /\ records' = [g \in Loads |-> IF g = record THEN [records[g] EXCEPT !.active = 0] ELSE records[g]]
    /\ turns' = [t \in Turns |-> IF t = Active THEN [turns[t] EXCEPT !.stop = TRUE] ELSE turns[t]]
    /\ background' = FALSE

Delete ==
    /\ Idle /\ held
    /\ RowsGo /\ Abandon
    /\ abandoned' = {}
    /\ UNCHANGED <<child, failures, up, asker, requests, queue, work, message, reply, twice,
                   unrecovered, bounds>>

\* unregister: onUnregister lets go of the records, then the write that would
\* take the rows fails.
RemoveFails ==
    /\ Idle /\ held /\ Quiet /\ record # 0
    /\ WriteFails /\ Abandon
    /\ abandoned' = IF Active = 0 THEN abandoned ELSE abandoned \union {Active}
    /\ UNCHANGED <<child, rows, due, late, up, asker, requests, queue, work, message, reply, twice,
                   unrecovered, bounds>>

Crash ==
    /\ up /\ boots < MaxBoots /\ Left
    /\ up' = FALSE
    /\ due' = NothingDue /\ late' = NothingLate
    /\ record' = 0
    /\ records' = [g \in Loads |-> NoRecord]
    /\ turns' = [t \in Turns |-> NoTurn]
    /\ requests' = [q \in Requests |-> NoRequest]
    /\ queue' = <<>> /\ work' = 0 /\ message' = 0 /\ background' = FALSE
    /\ UNCHANGED <<child, rows, asker, failures, history, bounds>>

\* reconcileAfterRestart: each open turn ends in a write of its own; one whose
\* write fails is left to the next boot.
Boot ==
    /\ ~up /\ up' = TRUE /\ boots' = boots + 1
    /\ \E lost \in SUBSET OpenTurns :
         LET ends == [t \in Turns |-> IF t \in OpenTurns \ lost THEN "interrupted" ELSE "none"]
         IN  /\ failures + Cardinality(lost) <= MaxFailures
             /\ failures' = failures + Cardinality(lost)
             /\ row' = RowsAfter(ends) /\ ask' = AskAfter(asker, ends, late)
             /\ unrecovered' = lost
             /\ abandoned' = abandoned \intersect lost
    /\ UNCHANGED <<child, held, command, due, late, memory, agent, reply, twice, used, loads>>

-----------------------------------------------------------------------------
Clients ==
    \/ Load \/ Delete
    \/ \E c \in Commands : Send(c)
    \/ \E q \in Requests : Respond(q) \/ RetryBuild(q)
    \/ \E t \in Turns : Interrupt(t) \/ InterruptHeld(t)

Agent ==
    \/ Dispatch \/ ProcessExits \/ BackgroundStarts \/ BackgroundSpeaks
    \/ \E t \in Turns : PromptRejected(t)
    \/ \E q \in Requests : ProviderAsks(q) \/ BrokerSettles(q)
    \/ \E outcome \in Ends : RunEnds(outcome)

Promises ==
    \/ \E g \in Loads : SessionReady(g) \/ SessionFails(g) \/ BuildContinues(g)
                        \/ CancelReaches(g) \/ CancelErrs(g) \/ CancelReturns(g)
    \/ \E t \in Turns : StartPrompt(t) \/ PromptSettles(t)

Faults == DroppedWithParent \/ RemoveFails \/ Crash

Next == Clients \/ Agent \/ Promises \/ Faults \/ Commit \/ Boot

\* Promises settle, timers fire, a boot follows a crash, and the agent ends
\* what it works on once nobody is asked anything.
Fairness ==
    /\ WF_vars(Commit) /\ WF_vars(Boot)
    /\ WF_vars(Dispatch) /\ WF_vars(BackgroundSpeaks)
    /\ WF_vars(\E outcome \in Ends : RunEnds(outcome))
    /\ \A q \in Requests : WF_vars(BrokerSettles(q))
    /\ \A t \in Turns : WF_vars(StartPrompt(t)) /\ WF_vars(PromptSettles(t))
    /\ \A g \in Loads : /\ WF_vars(SessionReady(g) \/ SessionFails(g))
                        /\ WF_vars(CancelReaches(g)) /\ WF_vars(CancelReturns(g))

Spec == Init /\ [][Next]_vars /\ Fairness

-----------------------------------------------------------------------------
Outcomes == {"none"} \union Ends
RecordType == [session : {"none", "loading", "ready", "failed"},
               active : 0..MaxTurns, cancelling : 0..MaxTurns,
               cancel : {"none", "asked", "sent", "failed"},
               building : SUBSET Requests, unrecorded : 0..MaxTurns]
TurnType == [owner : 0..MaxLoads, stop : BOOLEAN, heard : BOOLEAN,
             chain : {"none", "waiting", "skipped", "prompted", "resolved",
                      "rejected", "settled", "failed"},
             folded : 0..MaxTurns, said : Outcomes]
RequestType == [parked : BOOLEAN, entry : {"none", "unheard", "open", "settled"},
                answered : BOOLEAN]

\* Every variable has its type.
TypeOK ==
    /\ child \in BOOLEAN /\ held \in BOOLEAN /\ up \in BOOLEAN
    /\ row \in [Turns -> {"absent", "open"} \union Ends]
    /\ command \in [Turns -> SUBSET CommandIds]
    /\ ask \in [Requests -> {"absent", "pending", "resolved", "cancelled"}]
    /\ due \in [Turns -> Outcomes]
    /\ late \in [Requests -> SUBSET {"request", "settle"}]
    /\ record \in 0..MaxLoads
    /\ records \in [Loads -> RecordType]
    /\ turns \in [Turns -> TurnType]
    /\ asker \in [Requests -> 0..MaxTurns]
    /\ requests \in [Requests -> RequestType]
    /\ queue \in Seq(Turns)
    /\ work \in 0..MaxTurns /\ message \in 0..MaxTurns
    /\ background \in BOOLEAN
    /\ reply \in [CommandIds -> 0..Refused]
    /\ twice \subseteq Turns /\ unrecovered \subseteq Turns /\ abandoned \subseteq Turns
    /\ used \in 0..MaxTurns /\ loads \in 0..MaxLoads
    /\ failures \in 0..MaxFailures /\ boots \in 0..MaxBoots

\* A thread never has two turns open in its rows, whoever started them: a
\* send, a build, the agent by itself, this process or the one before it.
OneOpenTurn == Cardinality(OpenTurns \ abandoned) <= 1

\* Of the terminal event, the settled prompt, the cancellation, an exit and a
\* dropped record that race to end a turn, one does.
EndedOnce == twice = {}

\* A send whose turn the rows hold was answered with that turn, the last time
\* it was asked as the first, before a restart or after it.
RetryFindsItsTurn ==
    \A c \in CommandIds, t \in Turns :
        row[t] # "absent" /\ c \in command[t] => reply[c] = t

\* A request memory takes an answer to is one whose answer the rows take, once
\* what is kept is written; one memory has settled no client is still asked. A
\* turn that took in output of another run is excepted from the second half: an
\* error can leave the rest of that output without a message, and unheard.
MemoryAgreesWithRows ==
    \A q \in Requests :
        record # 0 /\ asker[q] # 0 /\ asker[q] = Active =>
            LET pending == AskAfter(asker, due, late)[q] = "pending"
            IN  /\ requests[q].entry = "open" => pending
                /\ requests[q].entry = "settled" /\ turns[asker[q]].folded = 0 => ~pending

\* No request stays pending in the rows after its turn ended in them.
NothingPendingAfterEnd ==
    \A q \in Requests : ask[q] = "pending" => row[asker[q]] = "open"

\* A turn that was stopped, or ended, before its prompt reached the agent is
\* never worked on.
StoppedTurnsNeverPrompt ==
    [][\A t \in Turns : work' = t /\ work # t /\ IsPrompt(t) => Owned(t)]_vars

\* Every open turn ends, however its record fared, if the agent ends its work
\* and the failed writes are retried.
OpenTurnsEnd ==
    \A t \in Turns : row[t] = "open" ~> row[t] # "open" \/ t \in unrecovered \union abandoned
=============================================================================
