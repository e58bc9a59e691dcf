-------------------------- MODULE SessionRegistry --------------------------
(***************************************************************************)
(* The owner of agent processes, one per thread                            *)
(* (session/SessionRuntimeRegistryImpl.ts), the sweep that reaps idle ones  *)
(* (core/SessionReaper.ts), the process lifecycle under it                 *)
(* (session/AcpSessionRuntimeImpl.ts) and the calls that drive it          *)
(* (core/AgentRuntime.ts: ensureSession, prompt, closeThread, shutdown).   *)
(*                                                                         *)
(* JavaScript runs one continuation at a time: an action is the code from  *)
(* one await to the next.  A caller waits on the latest start of its       *)
(* thread; starts of one thread run one after another, and those that need *)
(* room pass one gate.                                                     *)
(***************************************************************************)
EXTENDS Naturals, FiniteSets, Sequences

CONSTANTS
    Threads,
    Places,     \* what sharesProcess compares: a provider in a directory
    limit,      \* soft ceiling on live runtimes; 0 disables it
    Closable,   \* threads whose session the user may delete
    Background, \* TRUE: the provider has work of its own (ClaudeSessionRuntime)
    MaxCalls    \* bound: calls of ensureSession and prompt

ASSUME SessionRegistryAssumption ==
    /\ limit \in Nat /\ MaxCalls \in Nat
    /\ Closable \subseteq Threads
    /\ Background \in BOOLEAN

VARIABLES
    runtimes, \* every runtime created, in order; 0 is no runtime
    byThread, \* the map: the runtime of each thread
    starting, \* per thread, the starts not settled: [place, prompts waiting]
    stage,    \* per thread, where its first start is
    awaited,  \* per thread, the runtime its first start stops or boots
    gate,     \* threads whose start waits in reserveCapacity
    victim,   \* the runtime evictForCapacity is stopping, and the size before
    reserved,
    overfull, \* history: a start was admitted over the cap, nothing to evict
    prompts,  \* promptQueues: per thread, the places of the queued prompts
    turn,     \* per thread, the runtime its first prompt runs on
    settled,  \* threads whose running prompt was answered or rejected
    quiet,    \* runtimes without activity for idleMs
    sweep,    \* reapIdle: candidates left, those without activity, the one stopping
    closed,
    gone,     \* threads deleted
    calls

registry == <<byThread, starting, stage, awaited, gate, victim, reserved, overfull, closed>>
vars == <<runtimes, registry, prompts, turn, settled, quiet, sweep, gone, calls>>

Ids == DOMAIN runtimes
Live == {i \in Ids : byThread[runtimes[i].thread] = i}
NoVictim == [id |-> 0, size |-> 0]

Init ==
    /\ runtimes = <<>>
    /\ byThread = [t \in Threads |-> 0]
    /\ starting = [t \in Threads |-> <<>>]
    /\ stage = [t \in Threads |-> "queued"]
    /\ awaited = [t \in Threads |-> 0]
    /\ gate = <<>>
    /\ victim = NoVictim
    /\ reserved = 0
    /\ overfull = FALSE
    /\ prompts = [t \in Threads |-> <<>>]
    /\ turn = [t \in Threads |-> 0]
    /\ settled = {}
    /\ quiet = {}
    /\ sweep = [left |-> {}, still |-> {}, stopping |-> 0]
    /\ closed = "no"
    /\ gone = {}
    /\ calls = 0

-----------------------------------------------------------------------------
(* Entries and their runtimes.                                             *)

isWorking(i) == runtimes[i].activeTurn \/ runtimes[i].busy
isStarting(i) == runtimes[i].phase = "starting"
isRuntimeAlive(i) == runtimes[i].phase \in {"starting", "ready"}

\* Activity resets the idle time and is seen by a sweep under way.
noteActivity(S) ==
    /\ quiet' = quiet \ S
    /\ sweep' = [sweep EXCEPT !.still = @ \ S]

\* settleExit, and the exit listener that forgets the entry in the same tick.
Exited(r) == [r EXCEPT !.phase = "exited", !.exit = TRUE,
                       !.activeTurn = FALSE, !.busy = FALSE]

\* stop() up to its first await: without a transport there is nothing to kill,
\* and the runtime has exited at once.
Stopped(r, reason) ==
    CASE r.exit -> r
      [] ~r.exit /\ r.child = "none" -> [Exited(r) EXCEPT !.reason = reason]
      [] OTHER -> [r EXCEPT !.phase = "stopping", !.reason = reason, !.signalled = TRUE]

Forget(S) ==
    byThread' = [t \in Threads |-> IF byThread[t] \in S THEN 0 ELSE byThread[t]]

\* Stop the runtimes of S; those that exit at once leave the map.
stop(S, reason) ==
    /\ runtimes' = [i \in Ids |-> IF i \in S THEN Stopped(runtimes[i], reason) ELSE runtimes[i]]
    /\ Forget({i \in S : runtimes'[i].exit})

-----------------------------------------------------------------------------
(* Calls.                                                                  *)

sharesProcess(start, place) == start.place = place

\* ensureStarted: join the latest start if it wants the same process, else
\* queue behind it.  `waiting` are the prompts that go on once it has settled.
ensureStarted(t, place, waiting) ==
    /\ closed = "no" /\ t \notin gone /\ calls < MaxCalls
    /\ calls' = calls + 1
    /\ LET s == starting[t] IN
       starting' = [starting EXCEPT ![t] =
           IF s # <<>> /\ sharesProcess(s[Len(s)], place)
           THEN [s EXCEPT ![Len(s)].prompts = @ \o waiting]
           ELSE Append(s, [place |-> place, prompts |-> waiting])]
    /\ UNCHANGED <<runtimes, byThread, stage, awaited, gate, victim, reserved, overfull, closed,
                   prompts, turn, settled, quiet, sweep, gone>>

ensureSession(t, place) == ensureStarted(t, place, <<>>)
prompt(t, place) == ensureStarted(t, place, <<place>>)

\* The first start of t settles: a success queues its callers' prompts.
Settle(t, ok) ==
    /\ starting' = [starting EXCEPT ![t] = Tail(@)]
    /\ stage' = [stage EXCEPT ![t] = "queued"]
    /\ awaited' = [awaited EXCEPT ![t] = 0]
    /\ prompts' = [prompts EXCEPT ![t] =
                     IF ok THEN @ \o Head(starting[t]).prompts ELSE @]

\* createOrReuse, to its first await.
Refused(t) ==
    /\ closed # "no"
    /\ Settle(t, FALSE)
    /\ UNCHANGED <<runtimes, byThread, gate, quiet, sweep>>

Reuses(t) == LET i == byThread[t] IN
    i # 0 /\ runtimes[i].place = Head(starting[t]).place /\ isRuntimeAlive(i)

Reuse(t) ==
    /\ closed = "no" /\ Reuses(t)
    /\ noteActivity({byThread[t]})
    /\ Settle(t, TRUE)
    /\ UNCHANGED <<runtimes, byThread, gate>>

Supersede(t) ==
    /\ closed = "no" /\ byThread[t] # 0 /\ ~Reuses(t)
    /\ stop({byThread[t]}, "superseded")
    /\ stage' = [stage EXCEPT ![t] = "removing"]
    /\ awaited' = [awaited EXCEPT ![t] = byThread[t]]
    /\ UNCHANGED <<starting, gate, prompts, quiet, sweep>>

reserveCapacity(t) ==
    /\ gate' = Append(gate, t)
    /\ stage' = [stage EXCEPT ![t] = "gate"]
    /\ awaited' = [awaited EXCEPT ![t] = 0]

CreateNew(t) ==
    /\ closed = "no" /\ byThread[t] = 0
    /\ reserveCapacity(t)
    /\ UNCHANGED <<runtimes, byThread, starting, prompts, quiet, sweep>>

createOrReuse(t) ==
    /\ starting[t] # <<>> /\ stage[t] = "queued"
    /\ Refused(t) \/ Reuse(t) \/ Supersede(t) \/ CreateNew(t)
    /\ UNCHANGED <<victim, reserved, overfull, closed, turn, settled, gone, calls>>

\* Mutant: the replacement does not wait for the process it replaces.
RemovedAtOnce(t) ==
    /\ stage[t] = "removing"
    /\ reserveCapacity(t)
    /\ UNCHANGED <<runtimes, byThread, starting, victim, reserved, overfull, closed, prompts, turn,
                   settled, quiet, sweep, gone, calls>>

\* The superseded process is gone.
Removed(t) ==
    /\ stage[t] = "removing" /\ runtimes[awaited[t]].exit
    /\ reserveCapacity(t)
    /\ UNCHANGED <<runtimes, byThread, starting, victim, reserved, overfull, closed, prompts, turn,
                   settled, quiet, sweep, gone, calls>>

-----------------------------------------------------------------------------
(* Capacity.                                                               *)

Size == Cardinality(Live)
evictionCandidates(t) ==
    {i \in Live : runtimes[i].thread # t /\ ~isWorking(i) /\ ~isStarting(i)}

\* Mutant: admissions not yet in the map are not counted.
hasRoomInMap == limit = 0 \/ Size < limit

hasRoom == limit = 0 \/ Size + reserved < limit

\* The least recently used: a quiet one before one that is not.
leastRecent(S) == IF S \cap quiet # {} THEN S \cap quiet ELSE S

\* Mutant: the reservation is not made.
admitUncounted(t) ==
    /\ reserved' = reserved
    /\ gate' = Tail(gate)
    /\ stage' = [stage EXCEPT ![t] = "admitted"]

admit(t) ==
    /\ reserved' = reserved + 1
    /\ gate' = Tail(gate)
    /\ stage' = [stage EXCEPT ![t] = "admitted"]

\* One turn of evictForCapacity's loop, up to the wait for its victim.
Evict ==
    /\ gate # <<>> /\ victim = NoVictim
    /\ LET t == Head(gate)
           C == evictionCandidates(t) IN
       \/ /\ hasRoom \/ C = {}
          /\ admit(t)
          /\ overfull' = (overfull \/ ~hasRoom)
          /\ UNCHANGED <<runtimes, byThread, victim>>
       \/ /\ ~hasRoom
          /\ \E v \in leastRecent(C) :
               /\ stop({v}, "evicted")
               /\ victim' = [id |-> v, size |-> Size]
          /\ UNCHANGED <<reserved, gate, stage, overfull>>
    /\ UNCHANGED <<starting, awaited, closed, prompts, turn, settled, quiet, sweep, gone, calls>>

\* The victim is gone: give up if the map is no smaller, else measure again.
Evicted ==
    /\ victim # NoVictim /\ runtimes[victim.id].exit
    /\ victim' = NoVictim
    /\ IF Size >= victim.size
       THEN admit(Head(gate))
       ELSE UNCHANGED <<reserved, gate, stage>>
    /\ UNCHANGED <<runtimes, byThread, starting, awaited, overfull, closed, prompts, turn,
                   settled, quiet, sweep, gone, calls>>

-----------------------------------------------------------------------------
(* A process from its creation to its exit.                                *)

NewRuntime(t, place) ==
    [thread |-> t, place |-> place, phase |-> "starting", child |-> "none", exit |-> FALSE,
     signalled |-> FALSE, reason |-> "none", activeTurn |-> FALSE, busy |-> FALSE]

\* The entry is made and its runtime started.
create(t) ==
    /\ stage[t] = "admitted"
    /\ LET i == Len(runtimes) + 1 IN
       /\ runtimes' = Append(runtimes, NewRuntime(t, Head(starting[t]).place))
       /\ byThread' = [byThread EXCEPT ![t] = i]
       /\ awaited' = [awaited EXCEPT ![t] = i]
    /\ reserved' = reserved - 1
    /\ stage' = [stage EXCEPT ![t] = "booting"]
    /\ UNCHANGED <<starting, gate, victim, overfull, closed, prompts, turn, settled, quiet, sweep, gone, calls>>

\* The factory throws; the reservation is returned.
createThrows(t) ==
    /\ stage[t] = "admitted"
    /\ reserved' = reserved - 1
    /\ Settle(t, FALSE)
    /\ UNCHANGED <<runtimes, byThread, gate, victim, overfull, closed, turn, settled, quiet, sweep, gone, calls>>

Booting(t) == stage[t] = "booting"
Boot(t) == runtimes[awaited[t]]

\* The child is there, whatever has become of the runtime meanwhile.
connect(t) ==
    /\ Booting(t) /\ Boot(t).child = "none"
    /\ runtimes' = [runtimes EXCEPT ![awaited[t]].child = "alive"]
    /\ noteActivity(IF Boot(t).exit THEN {} ELSE {awaited[t]})
    /\ UNCHANGED <<registry, prompts, turn, settled, gone, calls>>

\* Handshake and session are done: the phase becomes ready.
bootstrap(t) ==
    /\ Booting(t) /\ Boot(t).child = "alive"
    /\ runtimes' = [runtimes EXCEPT ![awaited[t]].phase = "ready"]
    /\ noteActivity(IF Boot(t).exit THEN {} ELSE {awaited[t]})
    /\ Settle(t, TRUE)
    /\ UNCHANGED <<byThread, gate, victim, reserved, overfull, closed, turn, settled, gone, calls>>

\* The spawn or the handshake fails: the runtime stops itself first.
bootFails(t) ==
    /\ Booting(t) /\ Boot(t).child # "dead"
    /\ stop({awaited[t]}, "start_failed")
    /\ stage' = [stage EXCEPT ![t] = "failing"]
    /\ UNCHANGED <<starting, awaited, gate, victim, reserved, overfull, closed, prompts, turn, settled,
                   quiet, sweep, gone, calls>>

\* Mutant: a failed start forgets its process without waiting for it.
startRejectsEarly(t) ==
    /\ stage[t] = "failing" \/ (Booting(t) /\ Boot(t).child = "dead")
    /\ Forget({awaited[t]})
    /\ Settle(t, FALSE)
    /\ UNCHANGED <<runtimes, gate, victim, reserved, overfull, closed, turn, settled, quiet, sweep, gone, calls>>

\* Mutant: the boot is not raced against its process's exit.
startRejectsOnFailure(t) ==
    /\ stage[t] = "failing" /\ Boot(t).exit
    /\ Forget({awaited[t]})
    /\ Settle(t, FALSE)
    /\ UNCHANGED <<runtimes, gate, victim, reserved, overfull, closed, turn, settled, quiet, sweep, gone, calls>>

\* start() rejects, once its process is gone.
startRejects(t) ==
    /\ \/ stage[t] = "failing" /\ Boot(t).exit
       \/ Booting(t) /\ Boot(t).child = "dead"
    /\ Forget({awaited[t]})
    /\ Settle(t, FALSE)
    /\ UNCHANGED <<runtimes, gate, victim, reserved, overfull, closed, turn, settled, quiet, sweep, gone, calls>>

\* The child dies, killed or on its own.
childExits(i) ==
    /\ runtimes[i].child = "alive"
    /\ runtimes' = [runtimes EXCEPT ![i] =
                      [(IF @.exit THEN @ ELSE Exited(@)) EXCEPT !.child = "dead"]]
    /\ Forget({i})
    /\ noteActivity({i})
    /\ UNCHANGED <<starting, stage, awaited, gate, victim, reserved, overfull, closed, prompts, turn,
                   settled, gone, calls>>

\* An event of the agent; background work begins or ends with one.
onEvent(i) ==
    /\ runtimes[i].child = "alive" /\ ~runtimes[i].exit
    /\ noteActivity({i})
    /\ \/ UNCHANGED runtimes
       \/ /\ Background /\ runtimes[i].phase = "ready"
          /\ runtimes' = [runtimes EXCEPT ![i].busy = ~@]
    /\ UNCHANGED <<registry, prompts, turn, settled, gone, calls>>

-----------------------------------------------------------------------------
(* Turns.                                                                  *)

\* entry(): the thread's runtime must be the one the caller asked for.
entry(t) == IF byThread[t] # 0 /\ runtimes[byThread[t]].place = Head(prompts[t])
            THEN byThread[t] ELSE 0

runPrompt(t) ==
    /\ prompts[t] # <<>> /\ turn[t] = 0
    /\ IF entry(t) = 0
       THEN /\ prompts' = [prompts EXCEPT ![t] = Tail(@)]
            /\ UNCHANGED <<runtimes, turn, quiet, sweep>>
       ELSE /\ turn' = [turn EXCEPT ![t] = entry(t)]
            /\ runtimes' = [runtimes EXCEPT ![entry(t)].activeTurn = TRUE]
            /\ noteActivity({entry(t)})
            /\ UNCHANGED prompts
    /\ UNCHANGED <<registry, settled, gone, calls>>

\* The prompt is answered, or rejected by its process's exit.
promptSettles(t) ==
    /\ turn[t] # 0 /\ t \notin settled
    /\ settled' = settled \union {t}
    /\ UNCHANGED <<runtimes, registry, prompts, turn, quiet, sweep, gone, calls>>

\* Mutant: the turn of the entry is left on.
endPrompt(t) ==
    /\ t \in settled
    /\ turn' = [turn EXCEPT ![t] = 0]
    /\ settled' = settled \ {t}
    /\ prompts' = [prompts EXCEPT ![t] = Tail(@)]
    /\ UNCHANGED <<runtimes, registry, quiet, sweep, gone, calls>>

\* endTurn, on whatever entry the thread has by now; the next prompt may run.
endTurn(t) ==
    /\ t \in settled
    /\ IF byThread[t] = 0
       THEN UNCHANGED <<runtimes, quiet, sweep>>
       ELSE /\ runtimes' = [runtimes EXCEPT ![byThread[t]].activeTurn = FALSE]
            /\ noteActivity({byThread[t]})
    /\ turn' = [turn EXCEPT ![t] = 0]
    /\ settled' = settled \ {t}
    /\ prompts' = [prompts EXCEPT ![t] = Tail(@)]
    /\ UNCHANGED <<registry, gone, calls>>

-----------------------------------------------------------------------------
(* The sweep.                                                              *)

\* idleMs pass without activity; none pass while a prompt is about to run.
idle(i) ==
    /\ i \in Live \ quiet
    /\ LET t == runtimes[i].thread IN
       prompts[t] # <<>> => turn[t] = i /\ t \notin settled
    /\ quiet' = quiet \union {i}
    /\ UNCHANGED <<runtimes, registry, prompts, turn, settled, sweep, gone, calls>>

idleEntries == {i \in Live : ~isWorking(i) /\ ~isStarting(i) /\ i \in quiet}

Sweeping == sweep.left # {} \/ sweep.stopping # 0

\* One sweep at a time, and none once the timer is stopped.  It stops its first
\* candidate as it takes the list.
runSweep ==
    /\ ~Sweeping /\ closed = "no"
    /\ \E i \in idleEntries :
         /\ stop({i}, "reaped")
         /\ sweep' = [left |-> idleEntries \ {i}, still |-> idleEntries \ {i}, stopping |-> i]
    /\ UNCHANGED <<starting, stage, awaited, gate, victim, reserved, overfull, closed, prompts,
                   turn, settled, quiet, gone, calls>>

\* Mutant: activity since the list was taken is not looked at.
mayReapAnyway(i) == i \in Live /\ ~isWorking(i) /\ ~isStarting(i)

\* What was idle is proved idle again at the moment of the kill.
mayReap(i) == i \in Live /\ ~isWorking(i) /\ ~isStarting(i) /\ i \in sweep.still

reapNext ==
    /\ sweep.stopping = 0
    /\ \E i \in sweep.left :
         /\ IF mayReap(i)
            THEN stop({i}, "reaped")
            ELSE UNCHANGED <<runtimes, byThread>>
         /\ sweep' = [left |-> sweep.left \ {i}, still |-> sweep.still \ {i},
                      stopping |-> IF mayReap(i) THEN i ELSE 0]
    /\ UNCHANGED <<starting, stage, awaited, gate, victim, reserved, overfull, closed, prompts,
                   turn, settled, quiet, gone, calls>>

\* Mutant: the sweep under way is never cleared.
reapedForever ==
    /\ sweep.stopping # 0 /\ runtimes[sweep.stopping].exit
    /\ UNCHANGED vars

reaped ==
    /\ sweep.stopping # 0 /\ runtimes[sweep.stopping].exit
    /\ sweep' = [sweep EXCEPT !.stopping = 0]
    /\ UNCHANGED <<runtimes, registry, prompts, turn, settled, quiet, gone, calls>>

-----------------------------------------------------------------------------
(* Deletion and shutdown.                                                  *)

\* The user deletes the session: its process is stopped, if there is one.
closeThread(t) ==
    /\ t \in Closable \ gone
    /\ gone' = gone \union {t}
    /\ stop({byThread[t]} \ {0}, "session_deleted")
    /\ UNCHANGED <<starting, stage, awaited, gate, victim, reserved, overfull, closed, prompts, turn,
                   settled, quiet, sweep, calls>>

shutdown ==
    /\ closed = "no"
    /\ closed' = "closing"
    /\ UNCHANGED <<runtimes, byThread, starting, stage, awaited, gate, victim, reserved, overfull,
                   prompts, turn, settled, quiet, sweep, gone, calls>>

\* Mutant: the starts under way are not awaited.
stopAllNow ==
    /\ closed = "closing"
    /\ closed' = "stopping"
    /\ stop(Live, "disposed")
    /\ UNCHANGED <<starting, stage, awaited, gate, victim, reserved, overfull, prompts, turn, settled,
                   quiet, sweep, gone, calls>>

\* Mutant: the processes are only waited for.
stopNone ==
    /\ closed = "closing" /\ \A t \in Threads : starting[t] = <<>>
    /\ closed' = "stopping"
    /\ UNCHANGED <<runtimes, byThread, starting, stage, awaited, gate, victim, reserved, overfull,
                   prompts, turn, settled, quiet, sweep, gone, calls>>

\* The starts that were pending have settled: stop what is in the map.
stopAll ==
    /\ closed = "closing" /\ \A t \in Threads : starting[t] = <<>>
    /\ closed' = "stopping"
    /\ stop(Live, "disposed")
    /\ UNCHANGED <<starting, stage, awaited, gate, victim, reserved, overfull, prompts, turn, settled,
                   quiet, sweep, gone, calls>>

\* Every stopped runtime has exited, and so has left the map.
shutDown ==
    /\ closed = "stopping" /\ Live = {}
    /\ closed' = "done"
    /\ UNCHANGED <<runtimes, byThread, starting, stage, awaited, gate, victim, reserved, overfull,
                   prompts, turn, settled, quiet, sweep, gone, calls>>

Next ==
    \/ \E t \in Threads :
         \/ \E place \in Places : ensureSession(t, place) \/ prompt(t, place)
         \/ createOrReuse(t) \/ Removed(t) \/ create(t) \/ createThrows(t)
         \/ connect(t) \/ bootstrap(t) \/ bootFails(t) \/ startRejects(t)
         \/ runPrompt(t) \/ promptSettles(t) \/ endTurn(t)
         \/ closeThread(t)
    \/ \E i \in Ids : childExits(i) \/ onEvent(i) \/ idle(i)
    \/ Evict \/ Evicted \/ runSweep \/ reapNext \/ reaped
    \/ shutdown \/ stopAll \/ shutDown

\* A boot is bounded by its timeouts, a kill by the escalation to SIGKILL; what
\* an agent does with a prompt is not bounded, but its exit rejects the prompt.
Fairness ==
    /\ \A t \in Threads :
         /\ WF_vars(createOrReuse(t)) /\ WF_vars(Removed(t))
         /\ WF_vars(create(t) \/ createThrows(t))
         /\ WF_vars(connect(t) \/ bootstrap(t) \/ bootFails(t) \/ startRejects(t))
         /\ WF_vars(runPrompt(t)) /\ WF_vars(endTurn(t))
         /\ WF_vars(turn[t] # 0 /\ runtimes[turn[t]].exit /\ promptSettles(t))
    /\ \A i \in 1..MaxCalls :
         WF_vars(i \in Ids /\ runtimes[i].signalled /\ childExits(i))
    /\ WF_vars(Evict) /\ WF_vars(Evicted)
    /\ WF_vars(runSweep) /\ WF_vars(reapNext) /\ WF_vars(reaped)
    /\ WF_vars(stopAll) /\ WF_vars(shutDown)

Spec == Init /\ [][Next]_vars
FairSpec == Spec /\ Fairness

-----------------------------------------------------------------------------
(* Properties.                                                             *)

Runtime == [thread : Threads, place : Places, phase : {"starting", "ready", "stopping", "exited"},
            child : {"none", "alive", "dead"}, exit : BOOLEAN, signalled : BOOLEAN,
            reason : {"none", "superseded", "evicted", "start_failed", "reaped",
                      "session_deleted", "disposed"},
            activeTurn : BOOLEAN, busy : BOOLEAN]

TypeOK ==
    /\ runtimes \in Seq(Runtime)
    /\ byThread \in [Threads -> Ids \union {0}]
    /\ \A t \in Threads : byThread[t] # 0 => runtimes[byThread[t]].thread = t
    /\ starting \in [Threads -> Seq([place : Places, prompts : Seq(Places)])]
    /\ stage \in [Threads -> {"queued", "removing", "gate", "admitted", "booting", "failing"}]
    /\ awaited \in [Threads -> Ids \union {0}]
    /\ gate \in Seq(Threads)
    /\ victim \in [id : Ids \union {0}, size : Nat]
    /\ reserved \in Nat
    /\ overfull \in BOOLEAN
    /\ prompts \in [Threads -> Seq(Places)]
    /\ turn \in [Threads -> Ids \union {0}]
    /\ settled \subseteq Threads
    /\ quiet \subseteq Ids
    /\ sweep \in [left : SUBSET Ids, still : SUBSET Ids, stopping : Ids \union {0}]
    /\ closed \in {"no", "closing", "stopping", "done"}
    /\ gone \subseteq Threads
    /\ calls \in 0..MaxCalls

\* Every live agent process is held by the registry, which can still stop it.
ChildIsOwned == \A i \in Ids : runtimes[i].child = "alive" => i \in Live

\* A thread never has two processes, whatever it is superseded by.
OneProcessPerThread ==
    \A i, j \in Ids : i # j /\ runtimes[i].thread = runtimes[j].thread
        => ~(runtimes[i].child = "alive" /\ runtimes[j].child = "alive")

\* A runtime is in a turn exactly while a prompt runs on it: no turn is left
\* behind to keep it from being reaped, and none is cleared too soon.
TurnIsReal == \A i \in Live : runtimes[i].activeTurn <=> turn[runtimes[i].thread] = i

\* The reaper never stops a process with a turn in flight, and none begins on
\* one it is stopping; work the provider began itself is spared too.
ReapingSparesWork == \A i \in Ids : runtimes[i].reason = "reaped" => ~isWorking(i)

\* A turn never dies to make room: the cap is exceeded instead.
EvictionSparesTurns == \A i \in Ids : runtimes[i].reason = "evicted" => ~runtimes[i].activeTurn

\* Concurrent starts do not exceed the cap among themselves: while every start
\* has found room or something to stop, it holds.
CapHolds == limit = 0 \/ overfull \/ Size + reserved <= limit

\* After a shutdown no process is left and none is started.
ShutdownIsComplete == closed = "done" => \A i \in Ids : runtimes[i].child # "alive"

\* Every call is answered, one way or the other.
StartsSettle == \A t \in Threads : starting[t] # <<>> ~> starting[t] = <<>>

\* A runtime left idle does not stay.
Lingers(i) == i \in Live /\ i \in quiet /\ ~isWorking(i) /\ ~isStarting(i)
IdleIsReaped == \A i \in 1..MaxCalls : (i \in Ids /\ Lingers(i)) ~> ~(i \in Ids /\ Lingers(i))

\* A shutdown ends, whatever it finds starting, running or dying.
ShutdownEnds == closed # "no" ~> closed = "done"
=============================================================================
