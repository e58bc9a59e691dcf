----------------------- MODULE SessionRegistry_proofs -----------------------
(***************************************************************************)
(* Proofs about the owner of agent processes, for any threads, places and  *)
(* cap and any number of calls.                                            *)
(***************************************************************************)
EXTENDS SessionRegistry, FiniteSetTheorems, SequenceTheorems, TLAPS

-----------------------------------------------------------------------------
(* The inductive invariant.                                                *)

\* A process of a session that was not deleted.
Standing(i) == runtimes[i].thread \notin gone

\* A start under way is the first of its thread; while it waits or boots, the
\* map holds nothing of its thread but the runtime it waits on.
Stages ==
    \A t \in Threads :
       /\ stage[t] # "queued" => starting[t] # <<>>
       /\ stage[t] \in {"removing", "booting", "failing"} =>
             /\ awaited[t] # 0 /\ runtimes[awaited[t]].thread = t
             /\ byThread[t] \in {0, awaited[t]}
       /\ stage[t] \in {"gate", "admitted"} => byThread[t] = 0

\* A start waits at the gate once, and its first is the one that evicts.
Gated ==
    /\ \A k \in DOMAIN gate : stage[gate[k]] = "gate"
    /\ \A j, k \in DOMAIN gate : j # k => gate[j] # gate[k]
    /\ victim # NoVictim => gate # <<>> /\ victim.id # 0

\* The map holds exactly the runtimes that have not exited.
Exits ==
    \A i \in Ids :
       /\ runtimes[i].exit <=> byThread[runtimes[i].thread] # i
       /\ runtimes[i].child = "dead" => runtimes[i].exit

\* A prompt that runs or was answered is still the first of its queue.
Asked ==
    \A t \in Threads :
       /\ t \in settled => turn[t] # 0
       /\ turn[t] # 0 => prompts[t] # <<>>

Admitted == {t \in Threads : stage[t] = "admitted"}
Reserved == IsFiniteSet(Admitted) /\ reserved = Cardinality(Admitted)

\* What is quiet has no prompt, or runs it: a prompt about to run is activity.
Quiet ==
    /\ sweep.still \subseteq quiet
    /\ \A i \in Live \cap quiet :
          prompts[runtimes[i].thread] # <<>> => turn[runtimes[i].thread] = i

\* Nothing but a deletion stops a runtime while it boots.
Boots ==
    \A t \in Threads \ gone : stage[t] = "booting" =>
       /\ Boot(t).child = "none" => ~Boot(t).exit
       /\ ~Boot(t).exit => Boot(t).phase = "starting"

Owned == \A i \in Ids : Standing(i) /\ runtimes[i].child = "alive" => ~runtimes[i].exit

\* What the sweep stopped has no prompt that could still begin on it.
Reaped ==
    \A i \in Ids : Standing(i) /\ runtimes[i].reason = "reaped" =>
       /\ ~runtimes[i].activeTurn /\ ~runtimes[i].busy
       /\ \/ runtimes[i].exit
          \/ runtimes[i].phase = "stopping" /\ prompts[runtimes[i].thread] = <<>>

Closing ==
    /\ closed \in {"stopping", "done"} => \A t \in Threads : starting[t] = <<>>
    /\ closed = "done" => Live = {}

\* A victim that is gone leaves room for the start it was stopped for.
Makes == victim # NoVictim /\ limit # 0 /\ ~overfull =>
            victim.id \in Live \/ Size + reserved < limit

IInv ==
    /\ TypeOK /\ Stages /\ Gated /\ Exits /\ Asked /\ Reserved /\ Quiet
    /\ Boots /\ Owned /\ Reaped /\ Closing /\ Makes /\ CapHolds /\ TurnIsReal

-----------------------------------------------------------------------------
(* Runtimes and the map.                                                   *)

Reasons == {"superseded", "evicted", "start_failed", "reaped", "session_deleted", "disposed"}

LEMMA StoppedEffect ==
    ASSUME NEW r \in Runtime, NEW reason \in Reasons
    PROVE  /\ Stopped(r, reason) \in Runtime
           /\ Stopped(r, reason).thread = r.thread
           /\ Stopped(r, reason).child = r.child
           /\ Stopped(r, reason).exit <=> r.exit \/ r.child = "none"
           /\ ~Stopped(r, reason).exit =>
                 /\ Stopped(r, reason).activeTurn = r.activeTurn
                 /\ Stopped(r, reason).busy = r.busy
                 /\ Stopped(r, reason).phase = "stopping"
                 /\ Stopped(r, reason).reason = reason
           /\ r.exit => Stopped(r, reason) = r
           /\ ~r.exit /\ Stopped(r, reason).exit =>
                 ~Stopped(r, reason).activeTurn /\ ~Stopped(r, reason).busy
           /\ ~r.exit => Stopped(r, reason).reason = reason
<1>1. CASE r.exit
  <2>1. Stopped(r, reason) = r
    BY <1>1 DEF Stopped
  <2> QED
    BY <2>1, <1>1
<1>2. CASE ~r.exit /\ r.child = "none"
  <2>1. Stopped(r, reason) = [Exited(r) EXCEPT !.reason = reason]
    BY <1>2 DEF Stopped
  <2> QED
    BY <2>1, <1>2 DEF Exited, Runtime, Reasons
<1>3. CASE ~r.exit /\ r.child # "none"
  <2>1. Stopped(r, reason) =
           [r EXCEPT !.phase = "stopping", !.reason = reason, !.signalled = TRUE]
    BY <1>3 DEF Stopped
  <2> QED
    BY <2>1, <1>3 DEF Runtime, Reasons
<1> QED
  BY <1>1, <1>2, <1>3

LEMMA RuntimeTypes ==
    ASSUME TypeOK
    PROVE  /\ Ids = 1..Len(runtimes) /\ Len(runtimes) \in Nat /\ 0 \notin Ids
           /\ \A i \in Ids : runtimes[i] \in Runtime /\ runtimes[i].thread \in Threads
           /\ Live \subseteq Ids
           /\ \A i \in Ids : i \in Live <=> byThread[runtimes[i].thread] = i
           /\ \A t \in Threads : byThread[t] # 0 => byThread[t] \in Live
<1>1. Ids = 1..Len(runtimes) /\ Len(runtimes) \in Nat
  BY DEF TypeOK, Ids
<1>2. \A i \in Ids : runtimes[i] \in Runtime
  BY <1>1 DEF TypeOK
<1>3. \A i \in Ids : runtimes[i].thread \in Threads
  BY <1>2 DEF Runtime
<1>4. /\ Live \subseteq Ids
      /\ \A i \in Ids : i \in Live <=> byThread[runtimes[i].thread] = i
  BY DEF Live
<1>5. \A t \in Threads : byThread[t] # 0 => byThread[t] \in Live
  BY DEF TypeOK, Live
<1> QED
  BY <1>1, <1>2, <1>3, <1>4, <1>5

LEMMA FunctionIsSeq ==
    ASSUME NEW S, NEW n \in Nat, NEW f \in [1..n -> S]
    PROVE  f \in Seq(S) /\ Len(f) = n /\ DOMAIN f = 1..n
  OBVIOUS

LEMMA LiveIsFinite ==
    ASSUME TypeOK
    PROVE  IsFiniteSet(Live) /\ Size \in Nat
<1>1. IsFiniteSet(1..Len(runtimes))
  BY RuntimeTypes, FS_Interval
<1>2. IsFiniteSet(Live)
  BY <1>1, RuntimeTypes, FS_Subset
<1> QED
  BY <1>2, FS_CardinalityType DEF Size

\* The runtimes keep their threads, and the map only lets go of some.
Kept ==
    /\ Ids' = Ids
    /\ \A i \in Ids : runtimes'[i].thread = runtimes[i].thread
Shrinks ==
    /\ byThread' \in [Threads -> Ids \union {0}]
    /\ \A t \in Threads : byThread'[t] \in {0, byThread[t]}

LEMMA StopEffect ==
    ASSUME TypeOK, Exits, NEW S \in SUBSET Ids, NEW reason \in Reasons, stop(S, reason)
    PROVE  /\ runtimes' \in Seq(Runtime) /\ Kept /\ Shrinks
           /\ \A i \in Ids : runtimes'[i] = IF i \in S THEN Stopped(runtimes[i], reason)
                                            ELSE runtimes[i]
           /\ \A i \in Ids : runtimes'[i].child = runtimes[i].child
           /\ Exits'
           /\ \A i \in Ids : runtimes'[i].exit <=>
                 runtimes[i].exit \/ (i \in S /\ runtimes[i].child = "none")
<1>1. /\ runtimes' \in [1..Len(runtimes) -> Runtime]
      /\ \A i \in Ids : runtimes'[i] = IF i \in S THEN Stopped(runtimes[i], reason)
                                       ELSE runtimes[i]
  BY RuntimeTypes, StoppedEffect DEF stop
<1>2. runtimes' \in Seq(Runtime) /\ Ids' = Ids
  BY <1>1, FunctionIsSeq, RuntimeTypes DEF Ids
<1>3. \A i \in Ids : /\ runtimes'[i].thread = runtimes[i].thread
                     /\ runtimes'[i].child = runtimes[i].child
                     /\ runtimes'[i].exit <=>
                           runtimes[i].exit \/ (i \in S /\ runtimes[i].child = "none")
  <2> SUFFICES ASSUME NEW i \in Ids
               PROVE  /\ runtimes'[i].thread = runtimes[i].thread
                      /\ runtimes'[i].child = runtimes[i].child
                      /\ runtimes'[i].exit <=>
                            runtimes[i].exit \/ (i \in S /\ runtimes[i].child = "none")
    OBVIOUS
  <2>1. CASE i \in S
    BY <2>1, <1>1, RuntimeTypes, StoppedEffect
  <2>2. CASE i \notin S
    BY <2>2, <1>1
  <2> QED
    BY <2>1, <2>2
<1>4. Shrinks
  BY DEF stop, Forget, Shrinks, TypeOK
<1>5. Exits'
  <2> SUFFICES ASSUME NEW i \in Ids
               PROVE  /\ runtimes'[i].exit <=> byThread'[runtimes'[i].thread] # i
                      /\ runtimes'[i].child = "dead" => runtimes'[i].exit
    BY <1>2 DEF Exits
  <2> DEFINE t == runtimes[i].thread
  <2>1. t \in Threads /\ i # 0
    BY RuntimeTypes
  <2>2. byThread'[t] = IF byThread[t] \in {j \in S : runtimes'[j].exit} THEN 0 ELSE byThread[t]
    BY <2>1 DEF stop, Forget
  <2>3. runtimes[i].exit <=> byThread[t] # i
    BY DEF Exits
  <2>4. CASE i \in S /\ runtimes'[i].exit
    BY <2>1, <2>2, <2>4, <1>3
  <2>5. CASE ~(i \in S /\ runtimes'[i].exit)
    <3>1. runtimes'[i].exit <=> runtimes[i].exit
      BY <2>5, <1>3
    <3>2. byThread'[t] = i <=> byThread[t] = i
      BY <2>1, <2>2, <2>5
    <3> QED
      BY <3>1, <3>2, <2>3, <1>3 DEF Exits
  <2> QED
    BY <2>4, <2>5
<1> QED
  BY <1>1, <1>2, <1>3, <1>4, <1>5 DEF Kept

-----------------------------------------------------------------------------
(* What a step that only lets go of runtimes keeps.                        *)

LEMMA LiveShrinks ==
    ASSUME TypeOK, Kept, Shrinks
    PROVE  Live' \subseteq Live
<1> SUFFICES ASSUME NEW i \in Live'
             PROVE  i \in Live
  OBVIOUS
<1>1. i \in Ids /\ byThread'[runtimes[i].thread] = i
  BY DEF Live, Kept
<1>2. i # 0 /\ runtimes[i].thread \in Threads
  BY <1>1, RuntimeTypes
<1> QED
  BY <1>1, <1>2, RuntimeTypes DEF Shrinks

LEMMA CapFrame ==
    ASSUME TypeOK, Makes, CapHolds, Kept, Shrinks,
           reserved' \in Nat, reserved' <= reserved, UNCHANGED <<victim, overfull>>
    PROVE  Makes' /\ CapHolds'
<1>1. Live' \subseteq Live
  BY LiveShrinks
<1>2. /\ IsFiniteSet(Live) /\ Size \in Nat /\ reserved \in Nat /\ limit \in Nat
      /\ Size' \in Nat /\ Size' <= Size
      /\ overfull \in BOOLEAN /\ overfull' = overfull /\ victim' = victim
  BY <1>1, LiveIsFinite, FS_Subset, FS_CardinalityType, SessionRegistryAssumption
  DEF Size, TypeOK
<1>3. CapHolds'
  BY <1>2 DEF CapHolds, Size
<1>4. ASSUME victim # NoVictim, limit # 0, ~overfull, victim.id \notin Live'
      PROVE  Size' + reserved' < limit
  <2>1. CASE victim.id \notin Live
    BY <2>1, <1>2, <1>4 DEF Makes, Size
  <2>2. CASE victim.id \in Live
    <3>1. /\ Live' \subseteq Live \ {victim.id} /\ IsFiniteSet(Live \ {victim.id})
          /\ Cardinality(Live \ {victim.id}) = Size - 1
      BY <1>1, <1>2, <1>4, <2>2, FS_RemoveElement DEF Size
    <3>2. Size' <= Size - 1
      BY <3>1, FS_Subset DEF Size
    <3> QED
      BY <3>2, <1>2, <1>4 DEF CapHolds, Size
  <2> QED
    BY <2>1, <2>2
<1> QED
  BY <1>3, <1>4 DEF Makes

LEMMA StagesFrame ==
    ASSUME TypeOK, Stages, Kept, Shrinks, UNCHANGED <<stage, starting, awaited>>
    PROVE  Stages'
<1> SUFFICES ASSUME NEW t \in Threads
             PROVE  /\ stage[t] # "queued" => starting[t] # <<>>
                    /\ stage[t] \in {"removing", "booting", "failing"} =>
                          /\ awaited[t] # 0 /\ runtimes'[awaited[t]].thread = t
                          /\ byThread'[t] \in {0, awaited[t]}
                    /\ stage[t] \in {"gate", "admitted"} => byThread'[t] = 0
  BY DEF Stages
<1>1. awaited[t] # 0 => runtimes'[awaited[t]].thread = runtimes[awaited[t]].thread
  BY DEF Kept, TypeOK
<1>2. byThread'[t] \in {0, byThread[t]}
  BY DEF Shrinks
<1> QED
  BY <1>1, <1>2 DEF Stages

LEMMA QuietFrame ==
    ASSUME TypeOK, Quiet, Kept, Shrinks, quiet' \subseteq quiet,
           sweep'.still \subseteq quiet', UNCHANGED <<prompts, turn>>
    PROVE  Quiet'
<1>1. Live' \subseteq Live /\ Live \subseteq Ids
  BY LiveShrinks, RuntimeTypes
<1> QED
  BY <1>1 DEF Quiet, Kept

LEMMA TurnFrame ==
    ASSUME TypeOK, TurnIsReal, Kept, Shrinks, Exits', UNCHANGED turn,
           \A i \in Ids : \/ runtimes'[i].exit
                          \/ runtimes'[i].activeTurn = runtimes[i].activeTurn
    PROVE  TurnIsReal'
<1> SUFFICES ASSUME NEW i \in Live'
             PROVE  runtimes'[i].activeTurn <=> turn[runtimes[i].thread] = i
  BY LiveShrinks, RuntimeTypes DEF TurnIsReal, Kept
<1>1. i \in Live /\ i \in Ids
  BY LiveShrinks, RuntimeTypes
<1>2. ~runtimes'[i].exit
  BY <1>1 DEF Exits, Live, Kept
<1> QED
  BY <1>1, <1>2 DEF TurnIsReal

LEMMA ClosingFrame ==
    ASSUME TypeOK, Closing, Kept, Shrinks, UNCHANGED closed,
           starting' = starting \/ closed \notin {"stopping", "done"}
    PROVE  Closing'
  BY LiveShrinks DEF Closing

\* What S had to stop was not booting, unless its session was deleted.
LEMMA BootsFrame ==
    ASSUME TypeOK, Boots, Stages, Kept, NEW S,
           \A i \in Ids \ S : runtimes'[i] = runtimes[i],
           \A i \in Ids : /\ runtimes'[i].child = "none" => runtimes[i].child = "none"
                          /\ runtimes[i].exit => runtimes'[i].exit,
           \A t \in Threads \ gone' : /\ t \notin gone
                                      /\ stage'[t] = "booting" => stage[t] = "booting",
           \A t \in Threads \ gone' : stage'[t] = "booting" =>
              /\ awaited'[t] = awaited[t]
              /\ awaited[t] \in S => runtimes[awaited[t]].phase # "starting"
    PROVE  Boots'
<1> SUFFICES ASSUME NEW t \in Threads \ gone', stage'[t] = "booting"
             PROVE  /\ Boot(t)'.child = "none" => ~Boot(t)'.exit
                    /\ ~Boot(t)'.exit => Boot(t)'.phase = "starting"
  BY DEF Boots
<1> DEFINE i == awaited[t]
<1>1. t \notin gone /\ stage[t] = "booting" /\ awaited'[t] = i
  OBVIOUS
<1>2. i \in Ids
  BY <1>1 DEF Stages, TypeOK
<1>3. /\ runtimes[i].child = "none" => ~runtimes[i].exit
      /\ ~runtimes[i].exit => runtimes[i].phase = "starting"
  BY <1>1 DEF Boots, Boot
<1>4. CASE i \in S
  <2>1. runtimes[i].exit
    BY <1>3, <1>4
  <2>2. runtimes'[i].exit /\ runtimes'[i].child # "none"
    BY <2>1, <1>2, <1>3
  <2> QED
    BY <2>2, <1>1 DEF Boot
<1>5. CASE i \notin S
  BY <1>1, <1>2, <1>3, <1>5 DEF Boot
<1> QED
  BY <1>4, <1>5

\* Stopping the runtimes of S, none of which boots, for a reason other than
\* being idle, or because they are idle indeed.
LEMMA StopKeeps ==
    ASSUME IInv, NEW S \in SUBSET Ids, NEW reason \in Reasons, stop(S, reason),
           gone \subseteq gone',
           UNCHANGED <<turn, prompts>>,
           reason = "reaped" => \A i \in S : /\ i \in Live /\ ~isWorking(i)
                                             /\ prompts[runtimes[i].thread] = <<>>
    PROVE  /\ Kept /\ Shrinks /\ Exits' /\ Owned' /\ TurnIsReal' /\ Reaped'
           /\ runtimes' \in Seq(Runtime)
           /\ \A t \in Threads : byThread'[t] # 0 => runtimes'[byThread'[t]].thread = t
<1> USE DEF IInv
<1>1. /\ runtimes' \in Seq(Runtime) /\ Kept /\ Shrinks /\ Exits'
      /\ \A i \in Ids : runtimes'[i] = IF i \in S THEN Stopped(runtimes[i], reason)
                                       ELSE runtimes[i]
      /\ \A i \in Ids : runtimes'[i].child = runtimes[i].child
      /\ \A i \in Ids : runtimes'[i].exit <=>
            runtimes[i].exit \/ (i \in S /\ runtimes[i].child = "none")
  BY StopEffect
<1>2. \A t \in Threads : byThread'[t] # 0 => runtimes'[byThread'[t]].thread = t
  <2> SUFFICES ASSUME NEW t \in Threads, byThread'[t] # 0
               PROVE  runtimes'[byThread'[t]].thread = t
    OBVIOUS
  <2>1. byThread'[t] = byThread[t]
    BY <1>1 DEF Shrinks
  <2>2. byThread[t] \in Ids /\ runtimes[byThread[t]].thread = t
    BY <2>1 DEF TypeOK
  <2> QED
    BY <1>1, <2>1, <2>2 DEF Kept
<1>3. Owned'
  BY <1>1 DEF Owned, Standing, Kept
<1>4. TurnIsReal'
  <2>1. ASSUME NEW i \in Ids
        PROVE  runtimes'[i].exit \/ runtimes'[i].activeTurn = runtimes[i].activeTurn
    BY <1>1, RuntimeTypes, StoppedEffect
  <2> QED
    BY <2>1, <1>1, TurnFrame
<1>5. Reaped'
  <2> SUFFICES ASSUME NEW i \in Ids, runtimes[i].thread \notin gone,
                      runtimes'[i].reason = "reaped"
               PROVE  /\ ~runtimes'[i].activeTurn /\ ~runtimes'[i].busy
                      /\ \/ runtimes'[i].exit
                         \/ /\ runtimes'[i].phase = "stopping"
                            /\ prompts[runtimes[i].thread] = <<>>
    BY <1>1 DEF Reaped, Standing, Kept
  <2>1. CASE i \notin S \/ runtimes[i].exit
    <3>1. runtimes'[i] = runtimes[i]
      BY <2>1, <1>1, RuntimeTypes, StoppedEffect
    <3> QED
      BY <3>1 DEF Reaped, Standing
  <2>2. CASE i \in S /\ ~runtimes[i].exit
    <3>1. runtimes'[i] = Stopped(runtimes[i], reason) /\ runtimes[i] \in Runtime
      BY <2>2, <1>1, RuntimeTypes
    <3>2. reason = "reaped"
      BY <3>1, <2>2, StoppedEffect
    <3>3. ~runtimes[i].activeTurn /\ ~runtimes[i].busy
          /\ prompts[runtimes[i].thread] = <<>>
      BY <3>2, <2>2 DEF isWorking
    <3> QED
      BY <3>1, <3>3, <2>2, StoppedEffect
  <2> QED
    BY <2>1, <2>2
<1> QED
  BY <1>1, <1>2, <1>3, <1>4, <1>5

LEMMA Untouched ==
    ASSUME TypeOK, UNCHANGED <<runtimes, byThread>>
    PROVE  /\ Kept /\ Shrinks /\ Ids' = Ids /\ Live' = Live
           /\ Exits => Exits'
           /\ Owned /\ UNCHANGED gone => Owned'
           /\ TurnIsReal /\ UNCHANGED turn => TurnIsReal'
           /\ Reaped /\ UNCHANGED <<gone, prompts>> => Reaped'
           /\ Boots /\ UNCHANGED <<gone, stage, awaited>> => Boots'
<1>1. Ids' = Ids /\ Live' = Live /\ runtimes' = runtimes /\ byThread' = byThread
  BY DEF Ids, Live
<1>2. Kept /\ Shrinks
  BY <1>1 DEF Kept, Shrinks, TypeOK
<1>3. Exits => Exits'
  BY <1>1 DEF Exits
<1>4. Owned /\ UNCHANGED gone => Owned'
  BY <1>1 DEF Owned, Standing
<1>5. TurnIsReal /\ UNCHANGED turn => TurnIsReal'
  BY <1>1 DEF TurnIsReal
<1>6. Reaped /\ UNCHANGED <<gone, prompts>> => Reaped'
  BY <1>1 DEF Reaped, Standing
<1>7. Boots /\ UNCHANGED <<gone, stage, awaited>> => Boots'
  BY <1>1 DEF Boots, Boot
<1> QED
  BY <1>1, <1>2, <1>3, <1>4, <1>5, <1>6, <1>7

LEMMA UnchangedKeeps == IInv /\ UNCHANGED vars => IInv'
<1> SUFFICES ASSUME IInv, UNCHANGED vars PROVE IInv'
  OBVIOUS
<1> USE DEF IInv, vars, registry
<1>1. Kept /\ Shrinks /\ Ids' = Ids /\ Live' = Live /\ Exits' /\ Owned' /\ TurnIsReal'
      /\ Reaped' /\ Boots'
  BY Untouched
<1>2. TypeOK'
  BY <1>1 DEF TypeOK
<1>3. Stages' /\ Gated' /\ Asked' /\ Reserved' /\ Closing'
  BY <1>1 DEF Stages, Gated, Asked, Reserved, Admitted, Closing
<1>4. Quiet'
  BY <1>1 DEF Quiet
<1>5. Makes' /\ CapHolds'
  BY <1>1 DEF Makes, CapHolds, Size
<1> QED
  BY <1>1, <1>2, <1>3, <1>4, <1>5

-----------------------------------------------------------------------------
(* Calls, and starts to their first await.                                 *)

StartType == [place : Places, prompts : Seq(Places)]

LEMMA EnsureStartedKeeps ==
    ASSUME IInv, NEW t \in Threads, NEW place \in Places, NEW waiting \in Seq(Places),
           ensureStarted(t, place, waiting)
    PROVE  IInv'
<1> USE DEF IInv
<1>0. UNCHANGED <<runtimes, byThread, stage, awaited, gate, victim, reserved, overfull, closed,
                   prompts, turn, settled, quiet, sweep, gone>>
  BY DEF ensureStarted
<1>1. /\ Kept /\ Shrinks /\ Ids' = Ids /\ Live' = Live /\ Exits' /\ Owned' /\ TurnIsReal'
      /\ Reaped' /\ Boots'
  BY <1>0, Untouched
<1>2. /\ starting' \in [Threads -> Seq(StartType)]
      /\ \A u \in Threads : starting[u] # <<>> => starting'[u] # <<>>
  <2> DEFINE s == starting[t]
             next == IF s # <<>> /\ sharesProcess(s[Len(s)], place)
                     THEN [s EXCEPT ![Len(s)].prompts = @ \o waiting]
                     ELSE Append(s, [place |-> place, prompts |-> waiting])
  <2>1. s \in Seq(StartType)
    BY DEF TypeOK, StartType
  <2>2. CASE s # <<>> /\ sharesProcess(s[Len(s)], place)
    <3>1. Len(s) \in 1..Len(s) /\ s[Len(s)] \in StartType
      BY <2>1, <2>2
    <3> DEFINE r == s[Len(s)]
    <3>2. [r EXCEPT !.prompts = @ \o waiting] \in StartType
      <4>1. r.prompts \in Seq(Places)
        BY <3>1 DEF StartType
      <4>2. r.prompts \o waiting \in Seq(Places)
        BY <4>1, ConcatProperties
      <4>3. r \in StartType
        BY <3>1
      <4> HIDE DEF r
      <4> QED
        BY <4>2, <4>3 DEF StartType
    <3>3. next = [s EXCEPT ![Len(s)] = [s[Len(s)] EXCEPT !.prompts = @ \o waiting]]
      BY <2>2
    <3>4. next \in Seq(StartType) /\ next # <<>>
      <4>1. next \in Seq(StartType) /\ Len(next) = Len(s)
        BY <3>1, <3>2, <3>3, <2>1, ExceptSeq
      <4> QED
        BY <4>1, <2>1, <2>2, EmptySeq
    <3>5. starting' = [starting EXCEPT ![t] = next]
      BY DEF ensureStarted
    <3> HIDE DEF next
    <3> QED
      BY <3>4, <3>5, <2>1 DEF TypeOK, StartType
  <2>3. CASE ~(s # <<>> /\ sharesProcess(s[Len(s)], place))
    <3>1. next = Append(s, [place |-> place, prompts |-> waiting])
      BY <2>3
    <3>2. [place |-> place, prompts |-> waiting] \in StartType
      BY DEF StartType
    <3>3. next \in Seq(StartType) /\ next # <<>>
      BY <3>1, <3>2, <2>1, AppendProperties
    <3>4. starting' = [starting EXCEPT ![t] = next]
      BY DEF ensureStarted
    <3> HIDE DEF next
    <3> QED
      BY <3>3, <3>4, <2>1 DEF TypeOK, StartType
  <2> QED
    BY <2>2, <2>3
<1>3. TypeOK'
  <2>1. calls' \in 0..MaxCalls
    BY SessionRegistryAssumption DEF ensureStarted, TypeOK
  <2> QED
    BY <1>0, <1>1, <1>2, <2>1 DEF TypeOK, StartType
<1>4. Stages' /\ Gated' /\ Asked' /\ Reserved'
  BY <1>0, <1>2 DEF Stages, Gated, Asked, Reserved, Admitted
<1>5. Quiet'
  BY <1>0, <1>1 DEF Quiet
<1>6. Makes' /\ CapHolds'
  BY <1>0, <1>1 DEF Makes, CapHolds, Size
<1>7. Closing'
  BY <1>0 DEF Closing, ensureStarted
<1> QED
  BY <1>1, <1>3, <1>4, <1>5, <1>6, <1>7

\* What a settled start changes.
LEMMA SettleEffect ==
    ASSUME TypeOK, Stages, Closing, NEW t \in Threads, NEW ok \in BOOLEAN,
           starting[t] # <<>>, Settle(t, ok)
    PROVE  /\ starting' \in [Threads -> Seq(StartType)]
           /\ stage' = [stage EXCEPT ![t] = "queued"]
           /\ awaited' \in [Threads -> Ids \union {0}]
           /\ prompts' \in [Threads -> Seq(Places)]
           /\ \A u \in Threads \ {t} : /\ starting'[u] = starting[u]
                                       /\ awaited'[u] = awaited[u]
                                       /\ prompts'[u] = prompts[u]
           /\ ~ok => prompts' = prompts
           /\ prompts[t] # <<>> => prompts'[t] # <<>>
           /\ closed \notin {"stopping", "done"}
<1>1. starting[t] \in Seq(StartType) /\ prompts[t] \in Seq(Places)
  BY DEF TypeOK, StartType
<1>2. Head(starting[t]).prompts \in Seq(Places) /\ Tail(starting[t]) \in Seq(StartType)
  <2>1. Head(starting[t]) \in StartType /\ Tail(starting[t]) \in Seq(StartType)
    BY <1>1, HeadTailProperties
  <2> QED
    BY <2>1 DEF StartType
<1>3. starting' \in [Threads -> Seq(StartType)]
  BY <1>2 DEF Settle, TypeOK, StartType
<1>4. stage' = [stage EXCEPT ![t] = "queued"] /\ awaited' \in [Threads -> Ids \union {0}]
  BY DEF Settle, TypeOK
<1>5. /\ prompts[t] \o Head(starting[t]).prompts \in Seq(Places)
      /\ prompts[t] # <<>> => prompts[t] \o Head(starting[t]).prompts # <<>>
  BY <1>1, <1>2, ConcatProperties, ConcatEqualIffEmpty
<1>6. /\ prompts' \in [Threads -> Seq(Places)]
      /\ prompts[t] # <<>> => prompts'[t] # <<>>
      /\ ~ok => prompts' = prompts
  BY <1>1, <1>5 DEF Settle, TypeOK
<1>7. \A u \in Threads \ {t} : /\ starting'[u] = starting[u]
                               /\ awaited'[u] = awaited[u]
                               /\ prompts'[u] = prompts[u]
  BY DEF Settle, TypeOK
<1>8. closed \notin {"stopping", "done"}
  BY DEF Closing
<1> QED
  BY <1>3, <1>4, <1>6, <1>7, <1>8

LEMMA SettleKeeps ==
    ASSUME IInv, NEW t \in Threads, NEW ok \in BOOLEAN, starting[t] # <<>>, stage[t] # "gate",
           Settle(t, ok), Kept, Shrinks, UNCHANGED <<gate, victim, settled, turn, closed>>
    PROVE  Stages' /\ Gated' /\ Asked' /\ Closing'
<1> USE DEF IInv
<1>1. /\ stage' = [stage EXCEPT ![t] = "queued"]
      /\ \A u \in Threads \ {t} : starting'[u] = starting[u] /\ awaited'[u] = awaited[u]
      /\ \A u \in Threads : prompts[u] # <<>> => prompts'[u] # <<>>
      /\ closed \notin {"stopping", "done"}
  <2>1. \A u \in Threads : prompts[u] # <<>> => prompts'[u] # <<>>
    BY SettleEffect
  <2> QED
    BY <2>1, SettleEffect
<1>2. Stages'
  <2> SUFFICES ASSUME NEW u \in Threads
               PROVE  /\ stage'[u] # "queued" => starting'[u] # <<>>
                      /\ stage'[u] \in {"removing", "booting", "failing"} =>
                            /\ awaited'[u] # 0 /\ runtimes'[awaited'[u]].thread = u
                            /\ byThread'[u] \in {0, awaited'[u]}
                      /\ stage'[u] \in {"gate", "admitted"} => byThread'[u] = 0
    BY DEF Stages
  <2>1. CASE u = t
    BY <2>1, <1>1 DEF TypeOK
  <2>2. CASE u # t
    <3>1. stage'[u] = stage[u] /\ starting'[u] = starting[u] /\ awaited'[u] = awaited[u]
      BY <2>2, <1>1 DEF TypeOK
    <3>2. awaited[u] # 0 => runtimes'[awaited[u]].thread = runtimes[awaited[u]].thread
      BY DEF Kept, TypeOK
    <3>3. byThread'[u] \in {0, byThread[u]}
      BY DEF Shrinks
    <3> QED
      BY <3>1, <3>2, <3>3 DEF Stages
  <2> QED
    BY <2>1, <2>2
<1>3. Gated'
  <2>1. \A k \in DOMAIN gate : gate[k] # t /\ gate[k] \in Threads
    BY DEF Gated, TypeOK
  <2> QED
    BY <2>1, <1>1 DEF Gated, TypeOK
<1>4. Asked'
  BY <1>1 DEF Asked
<1>5. Closing'
  BY <1>1 DEF Closing
<1> QED
  BY <1>2, <1>3, <1>4, <1>5

LEMMA RefusedKeeps ==
    ASSUME IInv, NEW t \in Threads, starting[t] # <<>>, stage[t] = "queued", Refused(t),
           UNCHANGED <<victim, reserved, overfull, closed, turn, settled, gone, calls>>
    PROVE  IInv'
<1> USE DEF IInv
<1>1. /\ Settle(t, FALSE) /\ UNCHANGED <<runtimes, byThread, gate, quiet, sweep>>
      /\ prompts' = prompts
  BY SettleEffect DEF Refused
<1>2. /\ Kept /\ Shrinks /\ Ids' = Ids /\ Live' = Live /\ Exits' /\ Owned' /\ TurnIsReal'
      /\ Reaped'
  BY <1>1, Untouched
<1>3. Stages' /\ Gated' /\ Asked' /\ Closing'
  BY <1>1, <1>2, SettleKeeps
<1>4. stage' = stage
  <2>1. stage' = [stage EXCEPT ![t] = "queued"]
    BY <1>1, SettleEffect
  <2> QED
    BY <2>1 DEF TypeOK
<1>5. TypeOK'
  BY <1>1, <1>2, <1>4, SettleEffect DEF TypeOK, StartType
<1>6. Reserved'
  BY <1>4 DEF Reserved, Admitted
<1>7. Quiet'
  BY <1>1, <1>2 DEF Quiet
<1>8. Boots'
  <2>1. \A u \in Threads : stage[u] = "booting" => awaited'[u] = awaited[u]
    BY <1>1, SettleEffect
  <2> QED
    BY <2>1, <1>1, <1>2, <1>4 DEF Boots, Boot
<1>9. Makes' /\ CapHolds'
  BY <1>1, <1>2 DEF Makes, CapHolds, Size
<1> QED
  BY <1>2, <1>3, <1>5, <1>6, <1>7, <1>8, <1>9

LEMMA ReuseKeeps ==
    ASSUME IInv, NEW t \in Threads, starting[t] # <<>>, stage[t] = "queued", Reuse(t),
           UNCHANGED <<victim, reserved, overfull, closed, turn, settled, gone, calls>>
    PROVE  IInv'
<1> USE DEF IInv
<1> DEFINE j == byThread[t]
<1>1. /\ Settle(t, TRUE) /\ UNCHANGED <<runtimes, byThread, gate>>
      /\ quiet' = quiet \ {j} /\ sweep' = [sweep EXCEPT !.still = @ \ {j}]
      /\ j # 0 /\ runtimes[j].phase \in {"starting", "ready"}
  BY DEF Reuse, Reuses, noteActivity, isRuntimeAlive
<1>2. /\ Kept /\ Shrinks /\ Ids' = Ids /\ Live' = Live /\ Exits' /\ Owned' /\ TurnIsReal'
  BY <1>1, Untouched
<1>3. Stages' /\ Gated' /\ Asked' /\ Closing'
  BY <1>1, <1>2, SettleKeeps
<1>4. stage' = stage
  <2>1. stage' = [stage EXCEPT ![t] = "queued"]
    BY <1>1, SettleEffect
  <2> QED
    BY <2>1 DEF TypeOK
<1>5. TypeOK'
  BY <1>1, <1>2, <1>4, SettleEffect DEF TypeOK, StartType
<1>6. Reserved'
  BY <1>4 DEF Reserved, Admitted
<1>7. \A i \in Ids : i # j /\ byThread[runtimes[i].thread] = i => runtimes[i].thread # t
  OBVIOUS
<1>8. \A u \in Threads \ {t} : prompts'[u] = prompts[u]
  BY <1>1, SettleEffect
<1>9. Quiet'
  <2>1. sweep'.still = sweep.still \ {j}
    BY <1>1 DEF TypeOK
  <2>2. ASSUME NEW i \in Live, i \in quiet'
        PROVE  prompts'[runtimes[i].thread] # <<>> => turn[runtimes[i].thread] = i
    <3>1. i \in Ids /\ i \in quiet /\ i # j /\ byThread[runtimes[i].thread] = i
      BY <2>2, <1>1 DEF Live
    <3>2. runtimes[i].thread \in Threads \ {t}
      BY <3>1, <1>7, RuntimeTypes
    <3> QED
      BY <3>1, <3>2, <1>8, <2>2 DEF Quiet
  <2> QED
    BY <2>1, <2>2, <1>1, <1>2 DEF Quiet
<1>10. Reaped'
  <2> SUFFICES ASSUME NEW i \in Ids, runtimes[i].thread \notin gone,
                      runtimes[i].reason = "reaped"
               PROVE  /\ ~runtimes[i].activeTurn /\ ~runtimes[i].busy
                      /\ \/ runtimes[i].exit
                         \/ /\ runtimes[i].phase = "stopping"
                            /\ prompts'[runtimes[i].thread] = <<>>
    BY <1>1, <1>2 DEF Reaped, Standing
  <2>1. /\ ~runtimes[i].activeTurn /\ ~runtimes[i].busy
        /\ \/ runtimes[i].exit
           \/ /\ runtimes[i].phase = "stopping"
              /\ prompts[runtimes[i].thread] = <<>>
    BY DEF Reaped, Standing
  <2>2. CASE runtimes[i].exit
    BY <2>1, <2>2
  <2>3. CASE ~runtimes[i].exit
    <3>1. byThread[runtimes[i].thread] = i
      BY <2>3 DEF Exits
    <3>2. i # j
      BY <2>1, <2>3, <1>1
    <3>3. runtimes[i].thread \in Threads \ {t}
      BY <3>1, <3>2, RuntimeTypes
    <3> QED
      BY <2>1, <3>3, <1>8
  <2> QED
    BY <2>2, <2>3
<1>11. Boots'
  <2>1. \A u \in Threads : stage[u] = "booting" => awaited'[u] = awaited[u]
    BY <1>1, SettleEffect
  <2> QED
    BY <2>1, <1>1, <1>2, <1>4 DEF Boots, Boot
<1>12. Makes' /\ CapHolds'
  BY <1>1, <1>2 DEF Makes, CapHolds, Size
<1> QED
  BY <1>2, <1>3, <1>5, <1>6, <1>9, <1>10, <1>11, <1>12

LEMMA SupersedeKeeps ==
    ASSUME IInv, NEW t \in Threads, starting[t] # <<>>, stage[t] = "queued", Supersede(t),
           UNCHANGED <<victim, reserved, overfull, closed, turn, settled, gone, calls>>
    PROVE  IInv'
<1> USE DEF IInv
<1> DEFINE j == byThread[t]
<1>1. /\ closed = "no" /\ j \in Ids /\ runtimes[j].thread = t
      /\ stop({j}, "superseded")
      /\ stage' = [stage EXCEPT ![t] = "removing"] /\ awaited' = [awaited EXCEPT ![t] = j]
      /\ UNCHANGED <<starting, gate, prompts, quiet, sweep>>
  BY DEF Supersede, TypeOK
<1>2. "superseded" \in Reasons
  BY DEF Reasons
<1>3. /\ Kept /\ Shrinks /\ Exits' /\ Owned' /\ TurnIsReal' /\ Reaped'
      /\ runtimes' \in Seq(Runtime)
      /\ \A u \in Threads : byThread'[u] # 0 => runtimes'[byThread'[u]].thread = u
  BY <1>1, <1>2, StopKeeps
<1>4. TypeOK'
  BY <1>1, <1>3 DEF TypeOK, Kept, Shrinks
<1>5. Stages'
  <2> SUFFICES ASSUME NEW u \in Threads
               PROVE  /\ stage'[u] # "queued" => starting[u] # <<>>
                      /\ stage'[u] \in {"removing", "booting", "failing"} =>
                            /\ awaited'[u] # 0 /\ runtimes'[awaited'[u]].thread = u
                            /\ byThread'[u] \in {0, awaited'[u]}
                      /\ stage'[u] \in {"gate", "admitted"} => byThread'[u] = 0
    BY <1>1 DEF Stages
  <2>1. byThread'[u] \in {0, byThread[u]}
    BY <1>3 DEF Shrinks
  <2>2. CASE u = t
    <3>1. stage'[t] = "removing" /\ awaited'[t] = j /\ j # 0 /\ runtimes'[j].thread = t
      BY <1>1, <1>3, RuntimeTypes DEF TypeOK, Kept
    <3> QED
      BY <3>1, <2>1, <2>2
  <2>3. CASE u # t
    <3>1. stage'[u] = stage[u] /\ awaited'[u] = awaited[u]
      BY <2>3, <1>1 DEF TypeOK
    <3>2. awaited[u] # 0 => runtimes'[awaited[u]].thread = runtimes[awaited[u]].thread
      BY <1>3 DEF Kept, TypeOK
    <3> QED
      BY <3>1, <3>2, <2>1 DEF Stages
  <2> QED
    BY <2>2, <2>3
<1>6. Gated'
  <2>1. \A k \in DOMAIN gate : gate[k] # t /\ gate[k] \in Threads
    BY DEF Gated, TypeOK
  <2> QED
    BY <2>1, <1>1 DEF Gated, TypeOK
<1>7. Asked' /\ Closing'
  BY <1>1 DEF Asked, Closing
<1>8. Reserved'
  <2>1. Admitted' = Admitted
    BY <1>1 DEF Admitted, TypeOK
  <2> QED
    BY <2>1 DEF Reserved
<1>9. Quiet'
  BY <1>1, <1>3, QuietFrame DEF Quiet
<1>10. Boots'
  <2>1. /\ \A i \in Ids \ {j} : runtimes'[i] = runtimes[i]
        /\ \A i \in Ids : /\ runtimes'[i].child = runtimes[i].child
                          /\ runtimes[i].exit => runtimes'[i].exit
    BY <1>1, <1>2, StopEffect
  <2>2. \A u \in Threads : stage'[u] = "booting" =>
           /\ u # t /\ stage[u] = "booting" /\ awaited'[u] = awaited[u]
           /\ awaited[u] # j
    BY <1>1 DEF TypeOK, Stages
  <2>3. gone' = gone
    OBVIOUS
  <2>4. \A u \in Threads \ gone' : /\ u \notin gone
                                    /\ stage'[u] = "booting" => stage[u] = "booting"
    BY <2>2, <2>3
  <2>5. \A u \in Threads \ gone' : stage'[u] = "booting" =>
           /\ awaited'[u] = awaited[u]
           /\ awaited[u] \in {j} => runtimes[awaited[u]].phase # "starting"
    BY <2>2
  <2>6. \A i \in Ids : /\ runtimes'[i].child = "none" => runtimes[i].child = "none"
                       /\ runtimes[i].exit => runtimes'[i].exit
    BY <2>1
  <2> QED
    BY <2>1, <2>4, <2>5, <2>6, <1>3, BootsFrame
<1>11. Makes' /\ CapHolds'
  <2>1. reserved' \in Nat /\ reserved' <= reserved
    BY DEF TypeOK
  <2> QED
    BY <2>1, <1>3, CapFrame
<1> QED
  BY <1>3, <1>4, <1>5, <1>6, <1>7, <1>8, <1>9, <1>10, <1>11

LEMMA ReserveCapacityKeeps ==
    ASSUME IInv, NEW t \in Threads, starting[t] # <<>>, stage[t] \in {"queued", "removing"},
           byThread[t] = 0, reserveCapacity(t),
           UNCHANGED <<runtimes, byThread, starting, victim, reserved, overfull, closed, prompts,
                       turn, settled, quiet, sweep, gone, calls>>
    PROVE  IInv'
<1> USE DEF IInv
<1>1. /\ gate' = Append(gate, t) /\ stage' = [stage EXCEPT ![t] = "gate"]
      /\ awaited' = [awaited EXCEPT ![t] = 0]
  BY DEF reserveCapacity
<1>2. /\ Kept /\ Shrinks /\ Ids' = Ids /\ Live' = Live /\ Exits' /\ Owned' /\ TurnIsReal'
      /\ Reaped'
  BY Untouched
<1>3. /\ gate \in Seq(Threads) /\ gate' \in Seq(Threads) /\ gate' # <<>>
      /\ DOMAIN gate = 1..Len(gate) /\ DOMAIN gate' = 1..(Len(gate) + 1) /\ Len(gate) \in Nat
      /\ \A k \in 1..Len(gate) : gate'[k] = gate[k]
      /\ gate'[Len(gate) + 1] = t
  <2>1. gate \in Seq(Threads)
    BY DEF TypeOK
  <2> QED
    BY <2>1, <1>1
<1>4. TypeOK'
  BY <1>1, <1>2, <1>3 DEF TypeOK
<1>5. Stages'
  BY <1>1 DEF Stages, TypeOK
<1>6. Gated'
  <2>1. \A k \in DOMAIN gate : gate[k] # t /\ gate[k] \in Threads
    BY DEF Gated, TypeOK
  <2>2. \A k \in DOMAIN gate' : stage'[gate'[k]] = "gate"
    BY <2>1, <1>1, <1>3 DEF Gated, TypeOK
  <2>3. \A j, k \in DOMAIN gate' : j # k => gate'[j] # gate'[k]
    BY <2>1, <1>3 DEF Gated
  <2> QED
    BY <2>2, <2>3, <1>3 DEF Gated
<1>7. Asked' /\ Closing'
  BY <1>2 DEF Asked, Closing
<1>8. Reserved'
  <2>1. Admitted' = Admitted
    BY <1>1 DEF Admitted, TypeOK
  <2> QED
    BY <2>1 DEF Reserved
<1>9. Quiet'
  BY <1>2 DEF Quiet
<1>10. Boots'
  <2>1. \A u \in Threads : stage'[u] = "booting" => stage[u] = "booting" /\ awaited'[u] = awaited[u]
    BY <1>1 DEF TypeOK
  <2> QED
    BY <2>1 DEF Boots, Boot
<1>11. Makes' /\ CapHolds'
  BY <1>2 DEF Makes, CapHolds, Size
<1> QED
  BY <1>2, <1>4, <1>5, <1>6, <1>7, <1>8, <1>9, <1>10, <1>11

LEMMA CreateOrReuseKeeps ==
    ASSUME IInv, NEW t \in Threads, createOrReuse(t)
    PROVE  IInv'
<1>1. /\ starting[t] # <<>> /\ stage[t] = "queued"
      /\ UNCHANGED <<victim, reserved, overfull, closed, turn, settled, gone, calls>>
  BY DEF createOrReuse
<1>2. CASE Refused(t)
  BY <1>1, <1>2, RefusedKeeps
<1>3. CASE Reuse(t)
  BY <1>1, <1>3, ReuseKeeps
<1>4. CASE Supersede(t)
  BY <1>1, <1>4, SupersedeKeeps
<1>5. CASE CreateNew(t)
  <2>1. /\ byThread[t] = 0 /\ reserveCapacity(t)
        /\ UNCHANGED <<runtimes, byThread, starting, prompts, quiet, sweep>>
    BY <1>5 DEF CreateNew
  <2> QED
    BY <1>1, <2>1, ReserveCapacityKeeps
<1> QED
  BY <1>2, <1>3, <1>4, <1>5 DEF createOrReuse

LEMMA RemovedKeeps ==
    ASSUME IInv, NEW t \in Threads, Removed(t)
    PROVE  IInv'
<1> USE DEF IInv
<1>1. stage[t] = "removing" /\ runtimes[awaited[t]].exit
  BY DEF Removed
<1>2. /\ awaited[t] \in Ids /\ runtimes[awaited[t]].thread = t
      /\ byThread[t] \in {0, awaited[t]} /\ starting[t] # <<>>
  BY <1>1 DEF Stages, TypeOK
<1>3. byThread[t] = 0
  BY <1>1, <1>2 DEF Exits
<1>4. /\ reserveCapacity(t)
      /\ UNCHANGED <<runtimes, byThread, starting, victim, reserved, overfull, closed, prompts,
                     turn, settled, quiet, sweep, gone, calls>>
  BY DEF Removed
<1> HIDE DEF IInv
<1> QED
  BY <1>1, <1>2, <1>3, <1>4, ReserveCapacityKeeps

-----------------------------------------------------------------------------
(* Capacity.                                                               *)

LEMMA CreateKeeps ==
    ASSUME IInv, NEW t \in Threads, create(t)
    PROVE  IInv'
<1> USE DEF IInv
<1> DEFINE n == Len(runtimes) + 1
           place == Head(starting[t]).place
<1>1. /\ stage[t] = "admitted" /\ starting[t] # <<>> /\ byThread[t] = 0
      /\ runtimes' = Append(runtimes, NewRuntime(t, place))
      /\ byThread' = [byThread EXCEPT ![t] = n] /\ awaited' = [awaited EXCEPT ![t] = n]
      /\ reserved' = reserved - 1 /\ stage' = [stage EXCEPT ![t] = "booting"]
      /\ UNCHANGED <<starting, gate, victim, overfull, closed, prompts, turn, settled, quiet,
                     sweep, gone, calls>>
  BY DEF create, Stages
<1>2. NewRuntime(t, place) \in Runtime
  <2>1. starting[t] \in Seq(StartType)
    BY DEF TypeOK, StartType
  <2>2. Head(starting[t]) \in StartType
    BY <2>1, <1>1, HeadTailProperties
  <2>3. place \in Places
    BY <2>2 DEF StartType
  <2> HIDE DEF place
  <2> QED
    BY <2>3 DEF NewRuntime, Runtime
<1>3. /\ runtimes' \in Seq(Runtime) /\ Ids' = Ids \union {n} /\ n \notin Ids /\ n # 0
      /\ \A i \in Ids : runtimes'[i] = runtimes[i]
      /\ runtimes'[n] = NewRuntime(t, place)
  <2>1. runtimes \in Seq(Runtime)
    BY DEF TypeOK
  <2> HIDE DEF place
  <2> QED
    BY <2>1, <1>1, <1>2, RuntimeTypes DEF Ids
<1>4. /\ runtimes'[n].thread = t /\ ~runtimes'[n].exit /\ runtimes'[n].child = "none"
      /\ runtimes'[n].phase = "starting" /\ ~runtimes'[n].activeTurn
      /\ runtimes'[n].reason = "none"
  BY <1>3 DEF NewRuntime
<1> HIDE DEF place
<1>5. \A u \in Threads : byThread'[u] = IF u = t THEN n ELSE byThread[u]
  BY <1>1 DEF TypeOK
<1>6. Live' = Live \union {n} /\ n \notin Live
  <2>1. \A i \in Ids : i \in Live' <=> i \in Live
    <3> SUFFICES ASSUME NEW i \in Ids
                 PROVE  i \in Live' <=> i \in Live
      OBVIOUS
    <3>1. i # n /\ i # 0 /\ runtimes[i].thread \in Threads /\ runtimes'[i] = runtimes[i]
      BY <1>3, RuntimeTypes
    <3>2. byThread'[runtimes[i].thread] = i <=> byThread[runtimes[i].thread] = i
      BY <3>1, <1>1, <1>5
    <3> QED
      BY <3>1, <3>2, <1>3 DEF Live
  <2>2. n \in Live' /\ n \notin Live
    BY <1>3, <1>4, <1>5 DEF Live
  <2>3. Live \subseteq Ids /\ Live' \subseteq Ids'
    BY DEF Live
  <2> QED
    BY <2>1, <2>2, <2>3, <1>3
<1>7. reserved \in Nat \ {0} /\ reserved' \in Nat /\ Reserved'
  <2>1. t \in Admitted /\ Admitted' = Admitted \ {t}
    BY <1>1 DEF Admitted, TypeOK
  <2>2. /\ IsFiniteSet(Admitted) /\ Cardinality(Admitted) = reserved /\ reserved \in Nat
        /\ Cardinality(Admitted) # 0
    BY <2>1, FS_EmptySet DEF Reserved, TypeOK
  <2>3. IsFiniteSet(Admitted \ {t}) /\ Cardinality(Admitted \ {t}) = reserved - 1
    BY <2>1, <2>2, FS_RemoveElement
  <2> QED
    BY <2>1, <2>2, <2>3, <1>1 DEF Reserved
<1>8. TypeOK'
  <2>1. byThread' \in [Threads -> Ids' \union {0}] /\ awaited' \in [Threads -> Ids' \union {0}]
    BY <1>1, <1>3 DEF TypeOK
  <2>2. \A u \in Threads : byThread'[u] # 0 => runtimes'[byThread'[u]].thread = u
    <3> SUFFICES ASSUME NEW u \in Threads, byThread'[u] # 0
                 PROVE  runtimes'[byThread'[u]].thread = u
      OBVIOUS
    <3>1. CASE u = t
      BY <3>1, <1>4, <1>5
    <3>2. CASE u # t
      <4>1. byThread'[u] = byThread[u]
        BY <3>2, <1>5
      <4>2. byThread[u] \in Ids /\ runtimes[byThread[u]].thread = u
        BY <4>1 DEF TypeOK
      <4> QED
        BY <4>1, <4>2, <1>3
    <3> QED
      BY <3>1, <3>2
  <2>3. stage' \in [Threads -> {"queued", "removing", "gate", "admitted", "booting", "failing"}]
    BY <1>1 DEF TypeOK
  <2> QED
    BY <2>1, <2>2, <2>3, <1>1, <1>3, <1>7 DEF TypeOK
<1>9. Stages'
  <2> SUFFICES ASSUME NEW u \in Threads
               PROVE  /\ stage'[u] # "queued" => starting[u] # <<>>
                      /\ stage'[u] \in {"removing", "booting", "failing"} =>
                            /\ awaited'[u] # 0 /\ runtimes'[awaited'[u]].thread = u
                            /\ byThread'[u] \in {0, awaited'[u]}
                      /\ stage'[u] \in {"gate", "admitted"} => byThread'[u] = 0
    BY <1>1 DEF Stages
  <2>1. CASE u = t
    BY <2>1, <1>1, <1>3, <1>4 DEF TypeOK
  <2>2. CASE u # t
    <3>1. stage'[u] = stage[u] /\ awaited'[u] = awaited[u] /\ byThread'[u] = byThread[u]
      BY <2>2, <1>1 DEF TypeOK
    <3>2. awaited[u] # 0 => runtimes'[awaited[u]] = runtimes[awaited[u]]
      BY <1>3 DEF TypeOK
    <3> QED
      BY <3>1, <3>2 DEF Stages
  <2> QED
    BY <2>1, <2>2
<1>10. Gated'
  <2>1. \A k \in DOMAIN gate : gate[k] # t /\ gate[k] \in Threads
    BY <1>1 DEF Gated, TypeOK
  <2> QED
    BY <2>1, <1>1 DEF Gated, TypeOK
<1>11. Exits'
  <2> SUFFICES ASSUME NEW i \in Ids'
               PROVE  /\ runtimes'[i].exit <=> byThread'[runtimes'[i].thread] # i
                      /\ runtimes'[i].child = "dead" => runtimes'[i].exit
    BY DEF Exits
  <2>1. CASE i = n
    BY <2>1, <1>4, <1>5
  <2>2. CASE i \in Ids
    <3>1. /\ runtimes'[i] = runtimes[i] /\ runtimes[i].thread \in Threads /\ i # n /\ i # 0
          /\ runtimes[i].exit <=> byThread[runtimes[i].thread] # i
          /\ runtimes[i].child = "dead" => runtimes[i].exit
      BY <2>2, <1>3, RuntimeTypes DEF Exits
    <3> QED
      BY <3>1, <1>1, <1>5
  <2> QED
    BY <2>1, <2>2, <1>3
<1>12. Asked' /\ Closing'
  <2>1. closed \notin {"stopping", "done"}
    BY <1>1 DEF Closing
  <2> QED
    BY <2>1, <1>1 DEF Asked, Closing
<1>13. Quiet'
  <2>1. n \notin quiet
    BY <1>3 DEF TypeOK
  <2>2. \A i \in Live : runtimes'[i] = runtimes[i]
    BY <1>3 DEF Live
  <2> QED
    BY <2>1, <2>2, <1>1, <1>6 DEF Quiet
<1>14. Boots'
  <2> SUFFICES ASSUME NEW u \in Threads \ gone, stage'[u] = "booting"
               PROVE  /\ Boot(u)'.child = "none" => ~Boot(u)'.exit
                      /\ ~Boot(u)'.exit => Boot(u)'.phase = "starting"
    BY <1>1 DEF Boots
  <2>1. CASE u = t
    <3>1. Boot(u)' = runtimes'[n]
      BY <2>1, <1>1 DEF Boot, TypeOK
    <3> QED
      BY <3>1, <1>4
  <2>2. CASE u # t
    <3>1. stage[u] = "booting" /\ awaited'[u] = awaited[u]
      BY <2>2, <1>1 DEF TypeOK
    <3>2. awaited[u] \in Ids
      BY <3>1 DEF Stages, TypeOK
    <3>3. Boot(u)' = Boot(u)
      BY <3>1, <3>2, <1>3 DEF Boot
    <3> QED
      BY <3>1, <3>3 DEF Boots
  <2> QED
    BY <2>1, <2>2
<1>15. Owned' /\ Reaped'
  <2>1. ASSUME NEW i \in Ids', Standing(i)', runtimes'[i].child = "alive"
        PROVE  ~runtimes'[i].exit
    BY <2>1, <1>1, <1>3, <1>4 DEF Owned, Standing
  <2>2. ASSUME NEW i \in Ids', Standing(i)', runtimes'[i].reason = "reaped"
        PROVE  /\ ~runtimes'[i].activeTurn /\ ~runtimes'[i].busy
               /\ \/ runtimes'[i].exit
                  \/ /\ runtimes'[i].phase = "stopping"
                     /\ prompts'[runtimes'[i].thread] = <<>>
    BY <2>2, <1>1, <1>3, <1>4 DEF Reaped, Standing
  <2> QED
    BY <2>1, <2>2 DEF Owned, Reaped
<1>16. TurnIsReal'
  <2> SUFFICES ASSUME NEW i \in Live'
               PROVE  runtimes'[i].activeTurn <=> turn[runtimes'[i].thread] = i
    BY <1>1 DEF TurnIsReal
  <2>1. CASE i = n
    BY <2>1, <1>3, <1>4 DEF TypeOK
  <2>2. CASE i \in Live
    BY <2>2, <1>3 DEF TurnIsReal, Live
  <2> QED
    BY <2>1, <2>2, <1>6
<1>17. Makes' /\ CapHolds'
  <2>1. /\ Cardinality(Live') = Cardinality(Live) + 1
        /\ Cardinality(Live) \in Nat /\ limit \in Nat
    BY <1>6, LiveIsFinite, FS_AddElement, SessionRegistryAssumption DEF Size
  <2>2. Cardinality(Live') + reserved' = Cardinality(Live) + reserved
    BY <2>1, <1>1, <1>7
  <2>3. overfull \in BOOLEAN /\ overfull' = overfull /\ victim' = victim
    BY <1>1 DEF TypeOK
  <2>4. CapHolds'
    BY <2>2, <2>3 DEF CapHolds, Size
  <2>5. Makes'
    BY <2>2, <2>3, <1>6 DEF Makes, Size
  <2> QED
    BY <2>4, <2>5
<1> QED
  BY <1>7, <1>8, <1>9, <1>10, <1>11, <1>12, <1>13, <1>14, <1>15, <1>16, <1>17

LEMMA AdmitKeeps ==
    ASSUME IInv, gate # <<>>, admit(Head(gate)), victim' = NoVictim, overfull' \in BOOLEAN,
           CapHolds',
           UNCHANGED <<runtimes, byThread, starting, awaited, closed, prompts, turn, settled,
                       quiet, sweep, gone, calls>>
    PROVE  IInv'
<1> USE DEF IInv
<1> DEFINE t == Head(gate)
<1>1. /\ reserved' = reserved + 1 /\ gate' = Tail(gate)
      /\ stage' = [stage EXCEPT ![t] = "admitted"]
  BY DEF admit
<1>2. /\ Kept /\ Shrinks /\ Ids' = Ids /\ Live' = Live /\ Exits' /\ Owned' /\ TurnIsReal'
      /\ Reaped'
  BY Untouched
<1>3. /\ gate \in Seq(Threads) /\ t = gate[1] /\ t \in Threads /\ 1 \in DOMAIN gate
      /\ gate' \in Seq(Threads) /\ DOMAIN gate' = 1..(Len(gate) - 1)
      /\ DOMAIN gate = 1..Len(gate) /\ Len(gate) \in Nat
      /\ \A k \in 1..(Len(gate) - 1) : gate'[k] = gate[k + 1]
  <2>1. gate \in Seq(Threads)
    BY DEF TypeOK
  <2> QED
    BY <2>1, <1>1
<1>4. stage[t] = "gate"
  BY <1>3 DEF Gated
<1>5. TypeOK'
  <2>1. reserved' \in Nat
    BY <1>1 DEF TypeOK
  <2>2. stage' \in [Threads -> {"queued", "removing", "gate", "admitted", "booting", "failing"}]
    BY <1>1 DEF TypeOK
  <2>3. victim' \in [id : Ids \union {0}, size : Nat]
    BY DEF NoVictim
  <2>4. gate' \in Seq(Threads)
    BY <1>3
  <2> HIDE DEF t
  <2> QED
    BY <1>2, <2>1, <2>2, <2>3, <2>4 DEF TypeOK
<1>6. Stages'
  BY <1>1, <1>3, <1>4 DEF Stages, TypeOK
<1>7. Gated'
  <2>1. \A k \in DOMAIN gate' : gate'[k] # t /\ gate'[k] \in Threads /\ stage[gate'[k]] = "gate"
    <3> SUFFICES ASSUME NEW k \in DOMAIN gate'
                 PROVE  gate'[k] # t /\ gate'[k] \in Threads /\ stage[gate'[k]] = "gate"
      OBVIOUS
    <3>1. k + 1 \in DOMAIN gate /\ k + 1 # 1 /\ gate'[k] = gate[k + 1]
      BY <1>3
    <3>2. gate[k + 1] # gate[1] /\ stage[gate[k + 1]] = "gate"
      BY <3>1, <1>3 DEF Gated
    <3>3. gate[k + 1] \in Threads
      BY <3>1, <1>3
    <3> QED
      BY <3>1, <3>2, <3>3, <1>3
  <2>2. \A k \in DOMAIN gate' : stage'[gate'[k]] = "gate"
    BY <2>1, <1>1 DEF TypeOK
  <2>3. \A j, k \in DOMAIN gate' : j # k => gate'[j] # gate'[k]
    <3> SUFFICES ASSUME NEW j \in DOMAIN gate', NEW k \in DOMAIN gate', j # k
                 PROVE  gate'[j] # gate'[k]
      OBVIOUS
    <3>1. /\ j + 1 \in DOMAIN gate /\ k + 1 \in DOMAIN gate /\ j + 1 # k + 1
          /\ gate'[j] = gate[j + 1] /\ gate'[k] = gate[k + 1]
      BY <1>3
    <3> QED
      BY <3>1 DEF Gated
  <2> QED
    BY <2>2, <2>3 DEF Gated
<1>8. Asked' /\ Closing'
  BY <1>2 DEF Asked, Closing
<1>9. Reserved'
  <2>1. t \notin Admitted /\ Admitted' = Admitted \union {t}
    BY <1>1, <1>3, <1>4 DEF Admitted, TypeOK
  <2>2. IsFiniteSet(Admitted) /\ Cardinality(Admitted) = reserved
    BY DEF Reserved
  <2>3. IsFiniteSet(Admitted \union {t}) /\ Cardinality(Admitted \union {t}) = reserved + 1
    BY <2>1, <2>2, FS_AddElement
  <2> QED
    BY <2>1, <2>3, <1>1 DEF Reserved
<1>10. Quiet'
  BY <1>2 DEF Quiet
<1>11. Boots'
  <2>1. \A u \in Threads : stage'[u] = "booting" => stage[u] = "booting"
    BY <1>1, <1>3 DEF TypeOK
  <2> QED
    BY <2>1 DEF Boots, Boot
<1>12. Makes'
  BY DEF Makes
<1> QED
  BY <1>2, <1>5, <1>6, <1>7, <1>8, <1>9, <1>10, <1>11, <1>12

\* Stopping runtimes that do not boot, without a change of any start.
LEMMA StopsKeep ==
    ASSUME IInv, NEW S \in SUBSET Ids, NEW reason \in Reasons, stop(S, reason),
           \A t \in Threads \ gone' : stage[t] = "booting" /\ awaited[t] \in S =>
              runtimes[awaited[t]].phase # "starting",
           reason = "reaped" => \A i \in S : /\ i \in Live /\ ~isWorking(i)
                                             /\ prompts[runtimes[i].thread] = <<>>,
           UNCHANGED <<starting, stage, awaited, gate, reserved, overfull, prompts, turn,
                       settled, quiet, calls>>,
           gone \subseteq gone', gone' \subseteq Threads,
           victim' \in [id : Ids \union {0}, size : Nat],
           victim' # NoVictim => gate # <<>> /\ victim'.id # 0,
           Makes' /\ CapHolds',
           sweep' \in [left : SUBSET Ids, still : SUBSET Ids, stopping : Ids \union {0}],
           sweep'.still \subseteq quiet,
           closed' \in {"no", "closing", "stopping", "done"},
           Closing'
    PROVE  IInv'
<1> USE DEF IInv
<1>1. /\ Kept /\ Shrinks /\ Exits' /\ Owned' /\ TurnIsReal' /\ Reaped'
      /\ runtimes' \in Seq(Runtime)
      /\ \A t \in Threads : byThread'[t] # 0 => runtimes'[byThread'[t]].thread = t
  BY StopKeeps
<1>2. TypeOK'
  BY <1>1 DEF TypeOK, Kept, Shrinks
<1>3. Stages'
  BY <1>1, StagesFrame
<1>4. Gated' /\ Asked' /\ Reserved'
  BY DEF Gated, Asked, Reserved, Admitted
<1>5. Quiet'
  <2>1. quiet' \subseteq quiet /\ sweep'.still \subseteq quiet'
    OBVIOUS
  <2> QED
    BY <2>1, <1>1, QuietFrame
<1>6. Boots'
  <2>1. /\ \A i \in Ids \ S : runtimes'[i] = runtimes[i]
        /\ \A i \in Ids : /\ runtimes'[i].child = "none" => runtimes[i].child = "none"
                          /\ runtimes[i].exit => runtimes'[i].exit
    BY StopEffect
  <2>2. \A t \in Threads \ gone' : t \notin gone /\ (stage'[t] = "booting" => stage[t] = "booting")
    OBVIOUS
  <2>3. \A t \in Threads \ gone' : stage'[t] = "booting" =>
           /\ awaited'[t] = awaited[t]
           /\ awaited[t] \in S => runtimes[awaited[t]].phase # "starting"
    OBVIOUS
  <2> QED
    BY <2>1, <2>2, <2>3, <1>1, BootsFrame
<1> QED
  BY <1>1, <1>2, <1>3, <1>4, <1>5, <1>6

LEMMA EvictKeeps ==
    ASSUME IInv, Evict
    PROVE  IInv'
<1> USE DEF IInv
<1> DEFINE C == evictionCandidates(Head(gate))
<1>0. /\ gate # <<>> /\ victim = NoVictim
      /\ UNCHANGED <<starting, awaited, closed, prompts, turn, settled, quiet, sweep, gone, calls>>
  BY DEF Evict
<1>1. CASE /\ hasRoom \/ C = {}
           /\ admit(Head(gate)) /\ overfull' = (overfull \/ ~hasRoom)
           /\ UNCHANGED <<runtimes, byThread, victim>>
  <2>1. Live' = Live
    BY <1>1, Untouched
  <2>2. Cardinality(Live) \in Nat /\ reserved \in Nat /\ limit \in Nat /\ reserved' = reserved + 1
    BY <1>1, LiveIsFinite, SessionRegistryAssumption DEF TypeOK, admit, Size
  <2>3. overfull' \in BOOLEAN
    BY <1>1
  <2>4. CapHolds'
    <3>1. CASE overfull \/ ~hasRoom
      <4>1. overfull' = TRUE
        BY <1>1, <3>1
      <4> QED
        BY <4>1 DEF CapHolds
    <3>2. CASE ~overfull /\ hasRoom
      BY <3>2, <2>1, <2>2 DEF CapHolds, hasRoom, Size
    <3> QED
      BY <3>1, <3>2
  <2>5. victim' = NoVictim
    BY <1>0, <1>1
  <2> HIDE DEF IInv
  <2> QED
    BY <1>0, <1>1, <2>3, <2>4, <2>5, AdmitKeeps
<1>2. ASSUME ~hasRoom, NEW v \in leastRecent(C), stop({v}, "evicted"),
             victim' = [id |-> v, size |-> Size],
             UNCHANGED <<reserved, overfull, gate, stage>>
      PROVE  IInv'
  <2>1. /\ v \in Live /\ v \in Ids /\ v # 0 /\ runtimes[v].phase # "starting"
        /\ "evicted" \in Reasons /\ "evicted" # "reaped"
    BY <1>2, RuntimeTypes DEF leastRecent, evictionCandidates, isStarting, Live, Reasons
  <2>2. Kept /\ Shrinks /\ Exits'
    BY <1>2, <2>1, StopEffect
  <2>3. Live' \subseteq Live
    BY <2>2, LiveShrinks
  <2>4. /\ IsFiniteSet(Live) /\ Cardinality(Live) \in Nat /\ reserved \in Nat /\ limit \in Nat
        /\ Cardinality(Live') \in Nat /\ Cardinality(Live') <= Cardinality(Live)
    BY <2>3, LiveIsFinite, FS_Subset, FS_CardinalityType, SessionRegistryAssumption
    DEF Size, TypeOK
  <2>5. overfull \in BOOLEAN /\ overfull' = overfull /\ reserved' = reserved
    BY <1>2 DEF TypeOK
  <2>6. CapHolds'
    BY <2>4, <2>5 DEF CapHolds, Size
  <2>7. Makes'
    <3> SUFFICES ASSUME limit # 0, ~overfull, v \notin Live'
                 PROVE  Cardinality(Live') + reserved < limit
      BY <1>2, <2>5 DEF Makes, Size
    <3>1. /\ Live' \subseteq Live \ {v} /\ IsFiniteSet(Live \ {v})
          /\ Cardinality(Live \ {v}) = Cardinality(Live) - 1
      BY <2>1, <2>3, <2>4, FS_RemoveElement
    <3>2. Cardinality(Live') <= Cardinality(Live) - 1
      BY <3>1, FS_Subset
    <3> QED
      BY <3>2, <2>4 DEF CapHolds, Size
  <2>8. victim' \in [id : Ids \union {0}, size : Nat] /\ victim'.id # 0
    BY <1>2, <2>1, LiveIsFinite
  <2>9. Closing'
    BY <1>0, <2>2, ClosingFrame
  <2>10. sweep'.still \subseteq quiet /\ sweep' = sweep /\ closed' = closed /\ gone' = gone
    BY <1>0 DEF Quiet
  <2>11. /\ sweep' \in [left : SUBSET Ids, still : SUBSET Ids, stopping : Ids \union {0}]
         /\ closed' \in {"no", "closing", "stopping", "done"} /\ gone' \subseteq Threads
    BY <2>10 DEF TypeOK
  <2>12. /\ {v} \in SUBSET Ids
         /\ \A t \in Threads \ gone' : stage[t] = "booting" /\ awaited[t] \in {v} =>
               runtimes[awaited[t]].phase # "starting"
    BY <2>1
  <2>13. UNCHANGED <<starting, stage, awaited, gate, reserved, overfull, prompts, turn,
                     settled, quiet, calls>>
    BY <1>0, <1>2
  <2> HIDE DEF IInv
  <2> QED
    BY <1>0, <1>2, <2>1, <2>6, <2>7, <2>8, <2>9, <2>10, <2>11, <2>12, <2>13, StopsKeep
<1> QED
  BY <1>1, <1>2 DEF Evict

LEMMA EvictedKeeps ==
    ASSUME IInv, Evicted
    PROVE  IInv'
<1> USE DEF IInv
<1>0. /\ victim # NoVictim /\ runtimes[victim.id].exit /\ victim' = NoVictim
      /\ UNCHANGED <<runtimes, byThread, starting, awaited, overfull, closed, prompts, turn,
                     settled, quiet, sweep, gone, calls>>
  BY DEF Evicted
<1>1. gate # <<>> /\ victim.id \in Ids /\ victim.id \notin Live
  BY <1>0 DEF Gated, TypeOK, Exits, Live
<1>2. Live' = Live /\ Ids' = Ids
  BY <1>0, Untouched
<1>3. Cardinality(Live) \in Nat /\ reserved \in Nat /\ limit \in Nat
      /\ overfull \in BOOLEAN /\ overfull' = overfull
  BY <1>0, LiveIsFinite, SessionRegistryAssumption DEF Size, TypeOK
<1>4. CASE Size >= victim.size
  <2>1. admit(Head(gate))
    BY <1>4 DEF Evicted
  <2>2. CapHolds'
    BY <1>0, <1>1, <1>2, <1>3, <2>1 DEF Makes, CapHolds, Size, admit
  <2> HIDE DEF IInv
  <2> QED
    BY <1>0, <1>1, <1>3, <2>1, <2>2, AdmitKeeps
<1>5. CASE ~(Size >= victim.size)
  <2>1. UNCHANGED <<reserved, gate, stage>>
    BY <1>5 DEF Evicted
  <2>2. /\ Kept /\ Shrinks /\ Exits' /\ Owned' /\ TurnIsReal' /\ Reaped' /\ Boots'
    BY <1>0, <2>1, Untouched
  <2>3. TypeOK'
    BY <1>0, <1>2, <2>1, RuntimeTypes DEF TypeOK, NoVictim
  <2>4. Stages' /\ Gated' /\ Asked' /\ Reserved' /\ Closing' /\ Quiet'
    BY <1>0, <1>2, <2>1
    DEF Stages, Gated, Asked, Reserved, Admitted, Closing, Quiet
  <2>5. Makes' /\ CapHolds'
    BY <1>0, <1>2, <2>1 DEF Makes, CapHolds, Size
  <2> QED
    BY <2>2, <2>3, <2>4, <2>5
<1> QED
  BY <1>4, <1>5

-----------------------------------------------------------------------------
(* Starts that fail.                                                       *)

LEMMA SettleFails ==
    ASSUME IInv, NEW t \in Threads, starting[t] # <<>>, stage[t] # "gate", Settle(t, FALSE),
           reserved' \in Nat, reserved' <= reserved, Reserved',
           UNCHANGED <<runtimes, byThread, gate, victim, overfull, closed, turn, settled,
                       quiet, sweep, gone, calls>>
    PROVE  IInv'
<1> USE DEF IInv
<1>1. prompts' = prompts
  BY SettleEffect
<1>2. /\ Kept /\ Shrinks /\ Ids' = Ids /\ Live' = Live /\ Exits' /\ Owned' /\ TurnIsReal'
      /\ Reaped'
  BY <1>1, Untouched
<1>3. Stages' /\ Gated' /\ Asked' /\ Closing'
  BY <1>2, SettleKeeps
<1>4. /\ stage' = [stage EXCEPT ![t] = "queued"]
      /\ awaited' \in [Threads -> Ids \union {0}]
      /\ starting' \in [Threads -> Seq(StartType)]
      /\ \A u \in Threads \ {t} : awaited'[u] = awaited[u]
  BY SettleEffect
<1>5. TypeOK'
  <2>1. stage' \in [Threads -> {"queued", "removing", "gate", "admitted", "booting", "failing"}]
    BY <1>4 DEF TypeOK
  <2> QED
    BY <1>1, <1>2, <1>4, <2>1 DEF TypeOK, StartType
<1>6. Quiet'
  BY <1>1, <1>2 DEF Quiet
<1>7. Boots'
  <2>1. \A u \in Threads : stage'[u] = "booting" => stage[u] = "booting" /\ awaited'[u] = awaited[u]
    BY <1>4 DEF TypeOK
  <2> QED
    BY <2>1 DEF Boots, Boot
<1>8. Makes' /\ CapHolds'
  BY <1>2, CapFrame
<1> QED
  BY <1>2, <1>3, <1>5, <1>6, <1>7, <1>8

LEMMA CreateThrowsKeeps ==
    ASSUME IInv, NEW t \in Threads, createThrows(t)
    PROVE  IInv'
<1> USE DEF IInv
<1>1. /\ stage[t] = "admitted" /\ starting[t] # <<>> /\ Settle(t, FALSE)
      /\ reserved' = reserved - 1
      /\ UNCHANGED <<runtimes, byThread, gate, victim, overfull, closed, turn, settled,
                     quiet, sweep, gone, calls>>
  BY DEF createThrows, Stages
<1>2. stage' = [stage EXCEPT ![t] = "queued"]
  BY <1>1, SettleEffect
<1>3. reserved' \in Nat /\ reserved' <= reserved /\ Reserved'
  <2>1. t \in Admitted /\ Admitted' = Admitted \ {t}
    BY <1>1, <1>2 DEF Admitted, TypeOK
  <2>2. /\ IsFiniteSet(Admitted) /\ Cardinality(Admitted) = reserved /\ reserved \in Nat
        /\ Cardinality(Admitted) # 0
    BY <2>1, FS_EmptySet DEF Reserved, TypeOK
  <2>3. IsFiniteSet(Admitted \ {t}) /\ Cardinality(Admitted \ {t}) = reserved - 1
    BY <2>1, <2>2, FS_RemoveElement
  <2> QED
    BY <2>1, <2>2, <2>3, <1>1 DEF Reserved
<1> HIDE DEF IInv
<1> QED
  BY <1>1, <1>3, SettleFails

LEMMA StartRejectsKeeps ==
    ASSUME IInv, NEW t \in Threads, startRejects(t)
    PROVE  IInv'
<1> USE DEF IInv
<1>1. /\ stage[t] \in {"booting", "failing"} /\ Settle(t, FALSE) /\ Forget({awaited[t]})
      /\ UNCHANGED <<runtimes, gate, victim, reserved, overfull, closed, turn, settled,
                     quiet, sweep, gone, calls>>
      /\ Boot(t).exit \/ Boot(t).child = "dead"
  BY DEF startRejects, Booting
<1>2. awaited[t] \in Ids /\ awaited[t] # 0 /\ starting[t] # <<>>
  BY <1>1 DEF Stages, TypeOK
<1>3. byThread' = byThread
  <2>1. runtimes[awaited[t]].exit
    BY <1>1, <1>2 DEF Boot, Exits
  <2>2. \A u \in Threads : byThread[u] # awaited[t]
    BY <2>1, <1>2 DEF Exits, TypeOK
  <2> QED
    BY <2>2, <1>1 DEF Forget, TypeOK
<1>4. Reserved'
  <2>1. stage' = [stage EXCEPT ![t] = "queued"]
    BY <1>1, <1>2, SettleEffect
  <2>2. Admitted' = Admitted
    BY <2>1, <1>1 DEF Admitted, TypeOK
  <2> QED
    BY <2>2, <1>1 DEF Reserved
<1>5. reserved' \in Nat /\ reserved' <= reserved /\ stage[t] # "gate"
  BY <1>1 DEF TypeOK
<1> HIDE DEF IInv
<1> QED
  BY <1>1, <1>2, <1>3, <1>4, <1>5, SettleFails

LEMMA BootFailsKeeps ==
    ASSUME IInv, NEW t \in Threads, bootFails(t)
    PROVE  IInv'
<1> USE DEF IInv
<1> DEFINE j == awaited[t]
<1>1. /\ stage[t] = "booting" /\ stop({j}, "start_failed")
      /\ stage' = [stage EXCEPT ![t] = "failing"]
      /\ UNCHANGED <<starting, awaited, gate, victim, reserved, overfull, closed, prompts, turn,
                     settled, quiet, sweep, gone, calls>>
  BY DEF bootFails, Booting
<1>2. j \in Ids /\ j # 0 /\ runtimes[j].thread = t /\ "start_failed" \in Reasons
  BY <1>1 DEF Stages, TypeOK, Reasons
<1>3. /\ Kept /\ Shrinks /\ Exits' /\ Owned' /\ TurnIsReal' /\ Reaped'
      /\ runtimes' \in Seq(Runtime)
      /\ \A u \in Threads : byThread'[u] # 0 => runtimes'[byThread'[u]].thread = u
  <2>1. {j} \in SUBSET Ids /\ gone \subseteq gone' /\ UNCHANGED <<turn, prompts>>
        /\ "start_failed" # "reaped"
    BY <1>1, <1>2
  <2> HIDE DEF j, IInv
  <2> QED
    BY <2>1, <1>1, <1>2, StopKeeps
<1>4. TypeOK'
  <2>1. stage' \in [Threads -> {"queued", "removing", "gate", "admitted", "booting", "failing"}]
    BY <1>1 DEF TypeOK
  <2> QED
    BY <2>1, <1>1, <1>3 DEF TypeOK, Kept, Shrinks
<1>5. Stages'
  <2> SUFFICES ASSUME NEW u \in Threads
               PROVE  /\ stage'[u] # "queued" => starting[u] # <<>>
                      /\ stage'[u] \in {"removing", "booting", "failing"} =>
                            /\ awaited[u] # 0 /\ runtimes'[awaited[u]].thread = u
                            /\ byThread'[u] \in {0, awaited[u]}
                      /\ stage'[u] \in {"gate", "admitted"} => byThread'[u] = 0
    BY <1>1 DEF Stages
  <2>1. byThread'[u] \in {0, byThread[u]}
    BY <1>3 DEF Shrinks
  <2>2. awaited[u] # 0 => runtimes'[awaited[u]].thread = runtimes[awaited[u]].thread
    BY <1>3 DEF Kept, TypeOK
  <2>3. stage'[u] = IF u = t THEN "failing" ELSE stage[u]
    BY <1>1 DEF TypeOK
  <2> QED
    BY <1>1, <2>1, <2>2, <2>3 DEF Stages
<1>6. Gated'
  <2>1. \A k \in DOMAIN gate : gate[k] # t /\ gate[k] \in Threads
    BY <1>1 DEF Gated, TypeOK
  <2> QED
    BY <2>1, <1>1 DEF Gated, TypeOK
<1>7. Asked'
  BY <1>1 DEF Asked
<1>8. Closing'
  BY <1>1, <1>3, ClosingFrame
<1>9. Reserved'
  <2>1. Admitted' = Admitted
    BY <1>1 DEF Admitted, TypeOK
  <2> QED
    BY <2>1, <1>1 DEF Reserved
<1>10. Quiet'
  <2>1. quiet' \subseteq quiet /\ sweep'.still \subseteq quiet' /\ UNCHANGED <<prompts, turn>>
    BY <1>1 DEF Quiet
  <2> QED
    BY <2>1, <1>3, QuietFrame
<1>11. Boots'
  <2>1. \A i \in Ids \ {j} : runtimes'[i] = runtimes[i]
    BY <1>1, <1>2, StopEffect
  <2>2. \A u \in Threads : stage'[u] = "booting" =>
           stage[u] = "booting" /\ awaited[u] # j /\ awaited[u] \in Ids
    BY <1>1, <1>2 DEF TypeOK, Stages
  <2>3. \A u \in Threads : stage'[u] = "booting" => Boot(u)' = Boot(u)
    BY <2>1, <2>2, <1>1 DEF Boot
  <2> QED
    BY <2>2, <2>3, <1>1 DEF Boots
<1>12. Makes' /\ CapHolds'
  <2>1. reserved' \in Nat /\ reserved' <= reserved /\ UNCHANGED <<victim, overfull>>
    BY <1>1 DEF TypeOK
  <2> QED
    BY <2>1, <1>3, CapFrame
<1> QED
  BY <1>3, <1>4, <1>5, <1>6, <1>7, <1>8, <1>9, <1>10, <1>11, <1>12

-----------------------------------------------------------------------------
(* One runtime changes, and the map does not.                              *)

LEMMA NoteEffect ==
    ASSUME TypeOK, Quiet, NEW S, noteActivity(S)
    PROVE  /\ quiet' \subseteq quiet /\ quiet' \subseteq Ids /\ quiet' \cap S = {}
           /\ sweep' \in [left : SUBSET Ids, still : SUBSET Ids, stopping : Ids \union {0}]
           /\ sweep'.still \subseteq quiet'
<1>1. quiet' = quiet \ S /\ sweep' = [sweep EXCEPT !.still = @ \ S]
  BY DEF noteActivity
<1>2. sweep \in [left : SUBSET Ids, still : SUBSET Ids, stopping : Ids \union {0}]
  BY DEF TypeOK
<1>3. /\ sweep' \in [left : SUBSET Ids, still : SUBSET Ids, stopping : Ids \union {0}]
      /\ sweep'.still = sweep.still \ S
  BY <1>1, <1>2
<1> QED
  BY <1>1, <1>3 DEF Quiet, TypeOK

\* Everything but the parts that look at turns, reasons and boots.
LEMMA UpdateKeeps ==
    ASSUME IInv, NEW i \in Ids, NEW r \in Runtime, runtimes' = [runtimes EXCEPT ![i] = r],
           r.thread = runtimes[i].thread, r.exit = runtimes[i].exit,
           r.child \in {runtimes[i].child, "alive"},
           UNCHANGED <<byThread, victim, overfull, reserved>>
    PROVE  /\ runtimes' \in Seq(Runtime) /\ Kept /\ Shrinks /\ Exits' /\ Ids' = Ids
           /\ Live' = Live
           /\ runtimes'[i] = r /\ \A j \in Ids \ {i} : runtimes'[j] = runtimes[j]
           /\ \A t \in Threads : byThread'[t] # 0 => runtimes'[byThread'[t]].thread = t
           /\ Makes' /\ CapHolds'
           /\ UNCHANGED <<stage, starting, awaited>> => Stages'
<1> USE DEF IInv
<1>1. /\ runtimes \in Seq(Runtime) /\ runtimes' \in Seq(Runtime) /\ Ids' = Ids
      /\ runtimes'[i] = r /\ \A j \in Ids \ {i} : runtimes'[j] = runtimes[j]
  <2>1. runtimes \in Seq(Runtime)
    BY DEF TypeOK
  <2> QED
    BY <2>1 DEF Ids
<1>2. \A j \in Ids : runtimes'[j].thread = runtimes[j].thread
  BY <1>1
<1>3. Kept /\ Shrinks
  BY <1>1, <1>2 DEF Kept, Shrinks, TypeOK
<1>4. Exits'
  BY <1>1, <1>2 DEF Exits
<1>5. Live' = Live
  BY <1>1, <1>2 DEF Live
<1>6. \A t \in Threads : byThread'[t] # 0 => runtimes'[byThread'[t]].thread = t
  BY <1>2 DEF TypeOK
<1>7. Makes' /\ CapHolds'
  <2>1. reserved' \in Nat /\ reserved' <= reserved /\ UNCHANGED <<victim, overfull>>
    BY DEF TypeOK
  <2> QED
    BY <2>1, <1>3, CapFrame
<1>8. UNCHANGED <<stage, starting, awaited>> => Stages'
  BY <1>3, StagesFrame
<1> QED
  BY <1>1, <1>3, <1>4, <1>5, <1>6, <1>7, <1>8

LEMMA BootsUpdate ==
    ASSUME IInv, Kept, NEW i \in Ids,
           \A j \in Ids \ {i} : runtimes'[j] = runtimes[j],
           runtimes'[i].child # "none",
           runtimes[i].exit => runtimes'[i].exit,
           runtimes'[i].exit \/ runtimes'[i].phase = runtimes[i].phase,
           UNCHANGED <<stage, awaited, gone>>
    PROVE  Boots'
<1> USE DEF IInv
<1> SUFFICES ASSUME NEW u \in Threads \ gone, stage[u] = "booting"
             PROVE  /\ Boot(u)'.child = "none" => ~Boot(u)'.exit
                    /\ ~Boot(u)'.exit => Boot(u)'.phase = "starting"
  BY DEF Boots
<1>1. awaited[u] \in Ids /\ Boot(u)' = runtimes'[awaited[u]]
  BY DEF Stages, TypeOK, Boot
<1>2. /\ runtimes[awaited[u]].child = "none" => ~runtimes[awaited[u]].exit
      /\ ~runtimes[awaited[u]].exit => runtimes[awaited[u]].phase = "starting"
  BY DEF Boots, Boot
<1>3. CASE awaited[u] = i
  BY <1>1, <1>2, <1>3
<1>4. CASE awaited[u] # i
  BY <1>1, <1>2, <1>4
<1> QED
  BY <1>3, <1>4

LEMMA ConnectKeeps ==
    ASSUME IInv, NEW t \in Threads, connect(t)
    PROVE  IInv'
<1> USE DEF IInv
<1> DEFINE i == awaited[t]
           r == [runtimes[i] EXCEPT !.child = "alive"]
<1>1. /\ stage[t] = "booting" /\ runtimes[i].child = "none"
      /\ runtimes' = [runtimes EXCEPT ![i] = r]
      /\ noteActivity(IF Boot(t).exit THEN {} ELSE {i})
      /\ UNCHANGED <<byThread, starting, stage, awaited, gate, victim, reserved, overfull, closed,
                     prompts, turn, settled, gone, calls>>
  BY DEF connect, Booting, Boot, registry
<1>2. i \in Ids /\ i # 0 /\ runtimes[i].thread = t /\ runtimes[i] \in Runtime
  <2>1. i \in Ids /\ i # 0 /\ runtimes[i].thread = t
    BY <1>1 DEF Stages, TypeOK
  <2> QED
    BY <2>1, RuntimeTypes
<1>3. /\ r \in Runtime /\ r.thread = t /\ r.exit = runtimes[i].exit /\ r.child = "alive"
      /\ r.phase = runtimes[i].phase /\ r.reason = runtimes[i].reason
      /\ r.activeTurn = runtimes[i].activeTurn /\ r.busy = runtimes[i].busy
  BY <1>2 DEF Runtime
<1> HIDE DEF r
<1>4. /\ runtimes' \in Seq(Runtime) /\ Kept /\ Shrinks /\ Exits' /\ Ids' = Ids
      /\ Live' = Live
      /\ runtimes'[i] = r /\ \A j \in Ids \ {i} : runtimes'[j] = runtimes[j]
      /\ \A u \in Threads : byThread'[u] # 0 => runtimes'[byThread'[u]].thread = u
      /\ Makes' /\ CapHolds' /\ Stages'
  BY <1>1, <1>2, <1>3, UpdateKeeps
<1>5. /\ quiet' \subseteq quiet /\ quiet' \subseteq Ids
      /\ sweep' \in [left : SUBSET Ids, still : SUBSET Ids, stopping : Ids \union {0}]
      /\ sweep'.still \subseteq quiet'
  BY <1>1, NoteEffect
<1>6. TypeOK'
  BY <1>1, <1>4, <1>5 DEF TypeOK
<1>7. Gated' /\ Asked' /\ Reserved'
  BY <1>1 DEF Gated, Asked, Reserved, Admitted
<1>8. Closing'
  BY <1>1, <1>4 DEF Closing
<1>9. Quiet'
  BY <1>1, <1>4, <1>5, QuietFrame
<1>10. Boots'
  BY <1>1, <1>2, <1>3, <1>4, BootsUpdate
<1>11. Owned'
  <2>1. t \notin gone => ~runtimes[i].exit
    BY <1>1 DEF Boots, Boot
  <2> QED
    BY <2>1, <1>1, <1>3, <1>4 DEF Owned, Standing
<1>12. Reaped'
  BY <1>1, <1>2, <1>3, <1>4 DEF Reaped, Standing
<1>13. TurnIsReal'
  BY <1>1, <1>2, <1>3, <1>4 DEF TurnIsReal
<1> QED
  BY <1>4, <1>6, <1>7, <1>8, <1>9, <1>10, <1>11, <1>12, <1>13

LEMMA OnEventKeeps ==
    ASSUME IInv, NEW i \in Ids, onEvent(i)
    PROVE  IInv'
<1> USE DEF IInv
<1>1. /\ runtimes[i].child = "alive" /\ ~runtimes[i].exit
      /\ noteActivity({i})
      /\ UNCHANGED <<byThread, starting, stage, awaited, gate, victim, reserved, overfull, closed,
                     prompts, turn, settled, gone, calls>>
      /\ \/ runtimes' = runtimes
         \/ /\ runtimes[i].phase = "ready"
            /\ runtimes' = [runtimes EXCEPT ![i] = [runtimes[i] EXCEPT !.busy = ~@]]
  BY DEF onEvent, registry
<1>2. runtimes[i] \in Runtime
  BY RuntimeTypes
<1>3. PICK r \in Runtime :
         /\ runtimes' = [runtimes EXCEPT ![i] = r]
         /\ r.thread = runtimes[i].thread /\ r.exit = runtimes[i].exit
         /\ r.child = runtimes[i].child /\ r.phase = runtimes[i].phase
         /\ r.reason = runtimes[i].reason /\ r.activeTurn = runtimes[i].activeTurn
         /\ r = runtimes[i] \/ runtimes[i].phase = "ready"
  <2>1. CASE runtimes' = runtimes
    <3>1. runtimes' = [runtimes EXCEPT ![i] = runtimes[i]]
      BY <2>1 DEF TypeOK
    <3> QED
      BY <3>1, <1>2
  <2>2. CASE /\ runtimes[i].phase = "ready"
             /\ runtimes' = [runtimes EXCEPT ![i] = [runtimes[i] EXCEPT !.busy = ~@]]
    <3> DEFINE r == [runtimes[i] EXCEPT !.busy = ~@]
    <3>1. /\ r \in Runtime /\ r.thread = runtimes[i].thread /\ r.child = runtimes[i].child
          /\ r.phase = runtimes[i].phase /\ r.reason = runtimes[i].reason
      BY <1>2 DEF Runtime
    <3>2. r.exit = runtimes[i].exit /\ r.activeTurn = runtimes[i].activeTurn
      BY <1>2, Zenon DEF Runtime
    <3>3. runtimes' = [runtimes EXCEPT ![i] = r]
      BY <2>2
    <3> HIDE DEF r
    <3> QED
      BY <3>1, <3>2, <3>3, <2>2
  <2> QED
    BY <1>1, <2>1, <2>2
<1>4. /\ runtimes' \in Seq(Runtime) /\ Kept /\ Shrinks /\ Exits' /\ Ids' = Ids
      /\ Live' = Live
      /\ runtimes'[i] = r /\ \A j \in Ids \ {i} : runtimes'[j] = runtimes[j]
      /\ \A u \in Threads : byThread'[u] # 0 => runtimes'[byThread'[u]].thread = u
      /\ Makes' /\ CapHolds' /\ Stages'
  BY <1>1, <1>3, UpdateKeeps
<1>5. /\ quiet' \subseteq quiet /\ quiet' \subseteq Ids
      /\ sweep' \in [left : SUBSET Ids, still : SUBSET Ids, stopping : Ids \union {0}]
      /\ sweep'.still \subseteq quiet'
  BY <1>1, NoteEffect
<1>6. TypeOK'
  BY <1>1, <1>4, <1>5 DEF TypeOK
<1>7. Gated' /\ Asked' /\ Reserved'
  BY <1>1 DEF Gated, Asked, Reserved, Admitted
<1>8. Closing'
  BY <1>1, <1>4 DEF Closing
<1>9. Quiet'
  BY <1>1, <1>4, <1>5, QuietFrame
<1>10. Boots'
  BY <1>1, <1>3, <1>4, BootsUpdate
<1>11. Owned'
  BY <1>1, <1>3, <1>4 DEF Owned, Standing
<1>12. Reaped'
  <2>1. ASSUME NEW j \in Ids, runtimes'[j].reason = "reaped", runtimes'[j].thread \notin gone
        PROVE  /\ ~runtimes'[j].activeTurn /\ ~runtimes'[j].busy
               /\ \/ runtimes'[j].exit
                  \/ runtimes'[j].phase = "stopping" /\ prompts[runtimes'[j].thread] = <<>>
    <3>1. runtimes'[j] = runtimes[j]
      BY <2>1, <1>1, <1>3, <1>4 DEF Reaped, Standing
    <3> QED
      BY <3>1, <2>1 DEF Reaped, Standing
  <2> QED
    BY <2>1, <1>1, <1>4 DEF Reaped, Standing
<1>13. TurnIsReal'
  BY <1>1, <1>3, <1>4 DEF TurnIsReal
<1> QED
  BY <1>4, <1>6, <1>7, <1>8, <1>9, <1>10, <1>11, <1>12, <1>13

LEMMA BootstrapKeeps ==
    ASSUME IInv, NEW t \in Threads, bootstrap(t)
    PROVE  IInv'
<1> USE DEF IInv
<1> DEFINE i == awaited[t]
           r == [runtimes[i] EXCEPT !.phase = "ready"]
<1>1. /\ stage[t] = "booting" /\ runtimes[i].child = "alive" /\ Settle(t, TRUE)
      /\ runtimes' = [runtimes EXCEPT ![i] = r]
      /\ noteActivity(IF runtimes[i].exit THEN {} ELSE {i})
      /\ UNCHANGED <<byThread, gate, victim, reserved, overfull, closed, turn, settled, gone, calls>>
  BY DEF bootstrap, Booting, Boot
<1>2. i \in Ids /\ i # 0 /\ runtimes[i].thread = t /\ starting[t] # <<>> /\ byThread[t] \in {0, i}
      /\ runtimes[i] \in Runtime
  <2>1. i \in Ids /\ i # 0 /\ runtimes[i].thread = t /\ starting[t] # <<>> /\ byThread[t] \in {0, i}
    BY <1>1 DEF Stages, TypeOK
  <2> QED
    BY <2>1, RuntimeTypes
<1>3. /\ r \in Runtime /\ r.thread = t /\ r.exit = runtimes[i].exit /\ r.child = "alive"
      /\ r.reason = runtimes[i].reason
      /\ r.activeTurn = runtimes[i].activeTurn /\ r.busy = runtimes[i].busy
  BY <1>1, <1>2 DEF Runtime
<1> HIDE DEF r
<1>4. /\ runtimes' \in Seq(Runtime) /\ Kept /\ Shrinks /\ Exits' /\ Ids' = Ids
      /\ Live' = Live
      /\ runtimes'[i] = r /\ \A j \in Ids \ {i} : runtimes'[j] = runtimes[j]
      /\ \A u \in Threads : byThread'[u] # 0 => runtimes'[byThread'[u]].thread = u
      /\ Makes' /\ CapHolds'
  BY <1>1, <1>2, <1>3, UpdateKeeps
<1>5. /\ quiet' \subseteq quiet /\ quiet' \subseteq Ids
      /\ sweep' \in [left : SUBSET Ids, still : SUBSET Ids, stopping : Ids \union {0}]
      /\ sweep'.still \subseteq quiet' /\ quiet' \cap (IF runtimes[i].exit THEN {} ELSE {i}) = {}
  BY <1>1, NoteEffect
<1>6. Stages' /\ Gated' /\ Asked' /\ Closing'
  <2>1. stage[t] # "gate" /\ TRUE \in BOOLEAN /\ starting[t] # <<>>
    BY <1>1, <1>2
  <2> HIDE DEF i, IInv
  <2> QED
    BY <2>1, <1>1, <1>4, SettleKeeps
<1>7. /\ stage' = [stage EXCEPT ![t] = "queued"]
      /\ awaited' \in [Threads -> Ids \union {0}]
      /\ starting' \in [Threads -> Seq(StartType)]
      /\ prompts' \in [Threads -> Seq(Places)]
      /\ \A u \in Threads \ {t} : awaited'[u] = awaited[u] /\ prompts'[u] = prompts[u]
  BY <1>1, <1>2, SettleEffect
<1>8. TypeOK'
  <2>1. stage' \in [Threads -> {"queued", "removing", "gate", "admitted", "booting", "failing"}]
    BY <1>7 DEF TypeOK
  <2> QED
    BY <1>1, <1>4, <1>5, <1>7, <2>1 DEF TypeOK, StartType
<1>9. Reserved'
  <2>1. Admitted' = Admitted
    BY <1>1, <1>7 DEF Admitted, TypeOK
  <2> QED
    BY <2>1, <1>1 DEF Reserved
<1>10. i \in Live <=> ~runtimes[i].exit
  BY <1>2 DEF Exits, Live
<1>11. Quiet'
  <2>1. ASSUME NEW j \in Live, j \in quiet', prompts'[runtimes[j].thread] # <<>>
        PROVE  turn[runtimes[j].thread] = j
    <3>1. j \in Ids /\ j \in quiet /\ byThread[runtimes[j].thread] = j /\ j # 0
          /\ runtimes[j].thread \in Threads
      BY <2>1, <1>5, RuntimeTypes DEF Live
    <3>2. j # i
      BY <2>1, <1>5, <1>10
    <3>3. runtimes[j].thread # t
      BY <3>1, <3>2, <1>2
    <3> QED
      BY <3>1, <3>3, <2>1, <1>7 DEF Quiet
  <2> QED
    BY <2>1, <1>1, <1>4, <1>5 DEF Quiet, Kept, Live
<1>12. Boots'
  <2> SUFFICES ASSUME NEW u \in Threads \ gone, stage'[u] = "booting"
               PROVE  /\ Boot(u)'.child = "none" => ~Boot(u)'.exit
                      /\ ~Boot(u)'.exit => Boot(u)'.phase = "starting"
    BY <1>1 DEF Boots
  <2>1. u # t /\ stage[u] = "booting" /\ awaited'[u] = awaited[u]
    BY <1>7 DEF TypeOK
  <2>2. awaited[u] \in Ids /\ awaited[u] # i
    BY <2>1, <1>2 DEF Stages, TypeOK
  <2>3. Boot(u)' = Boot(u)
    BY <2>1, <2>2, <1>4 DEF Boot
  <2> QED
    BY <2>1, <2>3 DEF Boots
<1>13. Owned'
  <2>1. ASSUME NEW j \in Ids, runtimes[j].thread \notin gone, runtimes'[j].child = "alive"
        PROVE  ~runtimes'[j].exit
    <3>1. CASE j = i
      BY <3>1, <2>1, <1>1, <1>3, <1>4 DEF Owned, Standing
    <3>2. CASE j # i
      BY <3>2, <2>1, <1>4 DEF Owned, Standing
    <3> QED
      BY <3>1, <3>2
  <2> QED
    BY <2>1, <1>1, <1>4 DEF Owned, Standing, Kept
<1>14. Reaped'
  <2> SUFFICES ASSUME NEW j \in Ids, runtimes[j].thread \notin gone, runtimes[j].reason = "reaped"
               PROVE  /\ ~runtimes'[j].activeTurn /\ ~runtimes'[j].busy
                      /\ \/ runtimes'[j].exit
                         \/ /\ runtimes'[j].phase = "stopping"
                            /\ prompts'[runtimes[j].thread] = <<>>
    BY <1>1, <1>2, <1>3, <1>4 DEF Reaped, Standing, Kept
  <2>1. /\ ~runtimes[j].activeTurn /\ ~runtimes[j].busy
        /\ \/ runtimes[j].exit
           \/ /\ runtimes[j].phase = "stopping"
              /\ prompts[runtimes[j].thread] = <<>>
    BY DEF Reaped, Standing
  <2>2. CASE runtimes[j].exit
    BY <2>1, <2>2, <1>3, <1>4
  <2>3. CASE ~runtimes[j].exit
    <3>1. byThread[runtimes[j].thread] = j /\ runtimes[j].thread \in Threads /\ j # 0
      BY <2>3, RuntimeTypes DEF Exits
    <3>2. j # i
      BY <2>1, <2>3, <1>1, <1>2 DEF Boots, Boot
    <3>3. runtimes[j].thread # t
      BY <3>1, <3>2, <1>2
    <3> QED
      BY <3>1, <3>2, <3>3, <2>1, <1>4, <1>7
  <2> QED
    BY <2>2, <2>3
<1>15. TurnIsReal'
  BY <1>1, <1>2, <1>3, <1>4 DEF TurnIsReal
<1> QED
  BY <1>4, <1>6, <1>8, <1>9, <1>11, <1>12, <1>13, <1>14, <1>15

LEMMA ChildExitsKeeps ==
    ASSUME IInv, NEW i \in Ids, childExits(i)
    PROVE  IInv'
<1> USE DEF IInv
<1> DEFINE e == IF runtimes[i].exit THEN runtimes[i] ELSE Exited(runtimes[i])
           r == [e EXCEPT !.child = "dead"]
<1>1. /\ runtimes[i].child = "alive" /\ Forget({i}) /\ noteActivity({i})
      /\ runtimes' = [runtimes EXCEPT ![i] = r]
      /\ UNCHANGED <<starting, stage, awaited, gate, victim, reserved, overfull, closed, prompts,
                     turn, settled, gone, calls>>
  BY DEF childExits
<1>2. /\ r \in Runtime /\ r.thread = runtimes[i].thread /\ r.exit /\ r.child = "dead"
      /\ r.reason = runtimes[i].reason
      /\ ~runtimes[i].activeTurn => ~r.activeTurn
      /\ ~runtimes[i].busy => ~r.busy
  <2>1. runtimes[i] \in Runtime
    BY RuntimeTypes
  <2>2. CASE runtimes[i].exit
    <3>1. r = [runtimes[i] EXCEPT !.child = "dead"]
      BY <2>2
    <3> HIDE DEF r
    <3> QED
      BY <3>1, <2>1, <2>2 DEF Runtime
  <2>3. CASE ~runtimes[i].exit
    <3>1. r = [Exited(runtimes[i]) EXCEPT !.child = "dead"]
      BY <2>3
    <3> HIDE DEF r
    <3> QED
      BY <3>1, <2>1, <2>3 DEF Runtime, Exited
  <2> QED
    BY <2>2, <2>3
<1> HIDE DEF r
<1>3. /\ runtimes' \in Seq(Runtime) /\ Ids' = Ids
      /\ runtimes'[i] = r /\ \A j \in Ids \ {i} : runtimes'[j] = runtimes[j]
  <2>1. runtimes \in Seq(Runtime)
    BY DEF TypeOK
  <2> QED
    BY <2>1, <1>1, <1>2 DEF Ids
<1>4. \A j \in Ids : runtimes'[j].thread = runtimes[j].thread
  BY <1>2, <1>3
<1>5. Kept /\ Shrinks
  BY <1>1, <1>3, <1>4 DEF Kept, Shrinks, Forget, TypeOK
<1>6. \A u \in Threads : byThread'[u] = IF byThread[u] = i THEN 0 ELSE byThread[u]
  BY <1>1 DEF Forget
<1>7. Exits'
  <2> SUFFICES ASSUME NEW j \in Ids
               PROVE  /\ runtimes'[j].exit <=> byThread'[runtimes[j].thread] # j
                      /\ runtimes'[j].child = "dead" => runtimes'[j].exit
    BY <1>3, <1>4 DEF Exits
  <2>1. runtimes[j].thread \in Threads /\ j # 0
    BY RuntimeTypes
  <2>2. CASE j = i
    BY <2>1, <2>2, <1>2, <1>3, <1>6
  <2>3. CASE j # i
    BY <2>1, <2>3, <1>3, <1>6 DEF Exits
  <2> QED
    BY <2>2, <2>3
<1>8. /\ quiet' \subseteq quiet /\ quiet' \subseteq Ids
      /\ sweep' \in [left : SUBSET Ids, still : SUBSET Ids, stopping : Ids \union {0}]
      /\ sweep'.still \subseteq quiet'
  BY <1>1, NoteEffect
<1>9. TypeOK'
  <2>1. \A u \in Threads : byThread'[u] # 0 => runtimes'[byThread'[u]].thread = u
    BY <1>4, <1>6 DEF TypeOK
  <2> QED
    BY <1>1, <1>3, <1>5, <1>8, <2>1 DEF TypeOK, Shrinks
<1>10. Stages' /\ Closing'
  BY <1>1, <1>5, StagesFrame, ClosingFrame
<1>11. Gated' /\ Asked' /\ Reserved'
  BY <1>1 DEF Gated, Asked, Reserved, Admitted
<1>12. Quiet'
  BY <1>1, <1>5, <1>8, QuietFrame
<1>13. Boots'
  BY <1>1, <1>2, <1>3, <1>5, BootsUpdate
<1>14. Owned'
  BY <1>1, <1>2, <1>3 DEF Owned, Standing
<1>15. Reaped'
  <2>1. ASSUME NEW j \in Ids, runtimes'[j].reason = "reaped", runtimes[j].thread \notin gone
        PROVE  /\ ~runtimes'[j].activeTurn /\ ~runtimes'[j].busy
               /\ \/ runtimes'[j].exit
                  \/ runtimes'[j].phase = "stopping" /\ prompts[runtimes[j].thread] = <<>>
    <3>1. CASE j = i
      BY <3>1, <2>1, <1>2, <1>3 DEF Reaped, Standing
    <3>2. CASE j # i
      BY <3>2, <2>1, <1>3 DEF Reaped, Standing
    <3> QED
      BY <3>1, <3>2
  <2> QED
    BY <2>1, <1>1, <1>3, <1>4 DEF Reaped, Standing
<1>16. TurnIsReal'
  <2>1. ASSUME NEW j \in Ids
        PROVE  runtimes'[j].exit \/ runtimes'[j].activeTurn = runtimes[j].activeTurn
    BY <1>2, <1>3
  <2> QED
    BY <2>1, <1>1, <1>5, <1>7, TurnFrame
<1>17. Makes' /\ CapHolds'
  <2>1. reserved' \in Nat /\ reserved' <= reserved /\ UNCHANGED <<victim, overfull>>
    BY <1>1 DEF TypeOK
  <2> QED
    BY <2>1, <1>5, CapFrame
<1> QED
  BY <1>7, <1>9, <1>10, <1>11, <1>12, <1>13, <1>14, <1>15, <1>16, <1>17

-----------------------------------------------------------------------------
(* Turns.                                                                  *)

\* A queued prompt is dropped, and its thread's turn is over.
LEMMA TailKeeps ==
    ASSUME TypeOK, NEW t \in Threads, prompts[t] # <<>>,
           prompts' = [prompts EXCEPT ![t] = Tail(@)]
    PROVE  /\ prompts' \in [Threads -> Seq(Places)]
           /\ \A u \in Threads \ {t} : prompts'[u] = prompts[u]
<1>1. prompts[t] \in Seq(Places)
  BY DEF TypeOK
<1>2. Tail(prompts[t]) \in Seq(Places)
  BY <1>1, HeadTailProperties
<1> QED
  BY <1>2 DEF TypeOK

LEMMA RunPromptKeeps ==
    ASSUME IInv, NEW t \in Threads, runPrompt(t)
    PROVE  IInv'
<1> USE DEF IInv
<1> DEFINE i == byThread[t]
<1>1. /\ prompts[t] # <<>> /\ turn[t] = 0
      /\ UNCHANGED <<byThread, starting, stage, awaited, gate, victim, reserved, overfull, closed,
                     settled, gone, calls>>
  BY DEF runPrompt, registry
<1>2. entry(t) \in {0, i} /\ i \in Ids \union {0}
  BY DEF entry, TypeOK
<1>3. CASE entry(t) = 0
  <2>1. /\ prompts' = [prompts EXCEPT ![t] = Tail(@)]
        /\ UNCHANGED <<runtimes, turn, quiet, sweep>>
    BY <1>3 DEF runPrompt
  <2>2. /\ prompts' \in [Threads -> Seq(Places)]
        /\ \A u \in Threads \ {t} : prompts'[u] = prompts[u]
    BY <1>1, <2>1, TailKeeps
  <2>3. /\ Kept /\ Shrinks /\ Ids' = Ids /\ Live' = Live /\ Exits' /\ Owned' /\ TurnIsReal'
        /\ Boots'
    BY <1>1, <2>1, Untouched
  <2>4. TypeOK'
    BY <1>1, <2>1, <2>2, <2>3 DEF TypeOK
  <2>5. Stages' /\ Gated' /\ Reserved' /\ Closing'
    BY <1>1, <2>1, <2>3 DEF Stages, Gated, Reserved, Admitted, Closing
  <2>6. Asked'
    BY <1>1, <2>1, <2>2 DEF Asked
  <2>7. Quiet'
    <3>1. ASSUME NEW j \in Live, j \in quiet, prompts'[runtimes[j].thread] # <<>>
          PROVE  turn[runtimes[j].thread] = j
      <4>1. runtimes[j].thread \in Threads
        BY RuntimeTypes
      <4>2. prompts[runtimes[j].thread] # <<>>
        BY <1>1, <2>2, <3>1, <4>1
      <4> QED
        BY <4>2, <3>1 DEF Quiet
    <3> QED
      BY <3>1, <2>1, <2>3 DEF Quiet
  <2>8. Reaped'
    <3> SUFFICES ASSUME NEW j \in Ids, runtimes[j].thread \notin gone,
                        runtimes[j].reason = "reaped"
                 PROVE  /\ ~runtimes[j].activeTurn /\ ~runtimes[j].busy
                        /\ \/ runtimes[j].exit
                           \/ /\ runtimes[j].phase = "stopping"
                              /\ prompts'[runtimes[j].thread] = <<>>
      BY <1>1, <2>1, <2>3 DEF Reaped, Standing
    <3>1. /\ ~runtimes[j].activeTurn /\ ~runtimes[j].busy
          /\ \/ runtimes[j].exit
             \/ /\ runtimes[j].phase = "stopping"
                /\ prompts[runtimes[j].thread] = <<>>
      BY DEF Reaped, Standing
    <3>2. runtimes[j].thread \in Threads
      BY RuntimeTypes
    <3> QED
      BY <3>1, <3>2, <1>1, <2>2
  <2>9. Makes' /\ CapHolds'
    BY <1>1, <2>3 DEF Makes, CapHolds, Size
  <2> QED
    BY <2>3, <2>4, <2>5, <2>6, <2>7, <2>8, <2>9
<1>4. CASE entry(t) # 0
  <2> DEFINE r == [runtimes[i] EXCEPT !.activeTurn = TRUE]
  <2>1. /\ i \in Ids /\ i # 0
        /\ turn' = [turn EXCEPT ![t] = i]
        /\ runtimes' = [runtimes EXCEPT ![i] = r]
        /\ noteActivity({i})
        /\ prompts' = prompts
    <3>1. entry(t) = i
      BY <1>2, <1>4
    <3> QED
      BY <1>2, <1>4, <3>1 DEF runPrompt
  <2>2. runtimes[i].thread = t /\ runtimes[i] \in Runtime /\ i \in Live
    BY <2>1, RuntimeTypes DEF TypeOK
  <2>3. ~runtimes[i].exit
    BY <2>1, <2>2 DEF Exits
  <2>4. /\ r \in Runtime /\ r.thread = t /\ r.exit = runtimes[i].exit
        /\ r.child = runtimes[i].child /\ r.phase = runtimes[i].phase
        /\ r.reason = runtimes[i].reason /\ r.activeTurn
    BY <2>2 DEF Runtime
  <2> HIDE DEF r
  <2>5. /\ runtimes' \in Seq(Runtime) /\ Kept /\ Shrinks /\ Exits' /\ Ids' = Ids
        /\ Live' = Live
        /\ runtimes'[i] = r /\ \A j \in Ids \ {i} : runtimes'[j] = runtimes[j]
        /\ \A u \in Threads : byThread'[u] # 0 => runtimes'[byThread'[u]].thread = u
        /\ Makes' /\ CapHolds' /\ Stages'
    BY <1>1, <2>1, <2>2, <2>4, UpdateKeeps
  <2>6. /\ quiet' \subseteq quiet /\ quiet' \subseteq Ids /\ quiet' \cap {i} = {}
        /\ sweep' \in [left : SUBSET Ids, still : SUBSET Ids, stopping : Ids \union {0}]
        /\ sweep'.still \subseteq quiet'
    BY <2>1, NoteEffect
  <2>7. turn' \in [Threads -> Ids \union {0}] /\ turn'[t] = i
        /\ \A u \in Threads \ {t} : turn'[u] = turn[u]
    BY <2>1 DEF TypeOK
  <2>8. TypeOK'
    BY <1>1, <2>1, <2>5, <2>6, <2>7 DEF TypeOK
  <2>9. Gated' /\ Reserved'
    BY <1>1, <2>1 DEF Gated, Reserved, Admitted
  <2>10. Closing'
    BY <1>1, <2>5 DEF Closing
  <2>11. Asked'
    BY <1>1, <2>1, <2>7 DEF Asked
  <2>12. \A j \in Live \ {i} : runtimes[j].thread \in Threads \ {t} /\ j \in Ids
    BY RuntimeTypes
  <2>13. Quiet'
    <3>1. \A j \in Live : runtimes'[j].thread = runtimes[j].thread
      BY <2>5, RuntimeTypes DEF Kept
    <3>2. ASSUME NEW j \in Live, j \in quiet', prompts[runtimes[j].thread] # <<>>
          PROVE  turn'[runtimes[j].thread] = j
      <4>1. j # i /\ j \in quiet
        BY <3>2, <2>6
      <4> QED
        BY <4>1, <3>2, <2>7, <2>12 DEF Quiet
    <3> QED
      BY <3>1, <3>2, <2>1, <2>5, <2>6 DEF Quiet
  <2>14. Boots'
    <3> SUFFICES ASSUME NEW u \in Threads \ gone, stage[u] = "booting"
                 PROVE  /\ Boot(u)'.child = "none" => ~Boot(u)'.exit
                        /\ ~Boot(u)'.exit => Boot(u)'.phase = "starting"
      BY <1>1 DEF Boots
    <3>1. awaited[u] \in Ids /\ Boot(u)' = runtimes'[awaited[u]]
      BY <1>1 DEF Stages, TypeOK, Boot
    <3>2. /\ runtimes[awaited[u]].child = "none" => ~runtimes[awaited[u]].exit
          /\ ~runtimes[awaited[u]].exit => runtimes[awaited[u]].phase = "starting"
      BY DEF Boots, Boot
    <3>3. CASE awaited[u] = i
      BY <3>1, <3>2, <3>3, <2>3, <2>4, <2>5
    <3>4. CASE awaited[u] # i
      BY <3>1, <3>2, <3>4, <2>5
    <3> QED
      BY <3>3, <3>4
  <2>15. Owned'
    <3>1. ASSUME NEW j \in Ids, runtimes[j].thread \notin gone, runtimes'[j].child = "alive"
          PROVE  ~runtimes'[j].exit
      <4>1. CASE j = i
        BY <4>1, <2>3, <2>4, <2>5
      <4>2. CASE j # i
        BY <4>2, <3>1, <2>5 DEF Owned, Standing
      <4> QED
        BY <4>1, <4>2
    <3> QED
      BY <3>1, <1>1, <2>5 DEF Owned, Standing, Kept
  <2>16. Reaped'
    <3>1. ASSUME NEW j \in Ids, runtimes'[j].reason = "reaped", runtimes[j].thread \notin gone
          PROVE  /\ ~runtimes'[j].activeTurn /\ ~runtimes'[j].busy
                 /\ \/ runtimes'[j].exit
                    \/ runtimes'[j].phase = "stopping" /\ prompts[runtimes[j].thread] = <<>>
      <4>1. j # i
        BY <3>1, <1>1, <2>2, <2>3, <2>4, <2>5 DEF Reaped, Standing
      <4> QED
        BY <4>1, <3>1, <2>5 DEF Reaped, Standing
    <3> QED
      BY <3>1, <1>1, <2>1, <2>5 DEF Reaped, Standing, Kept
  <2>17. TurnIsReal'
    <3>1. ASSUME NEW j \in Live
          PROVE  runtimes'[j].activeTurn <=> turn'[runtimes'[j].thread] = j
      <4>1. CASE j = i
        BY <4>1, <2>4, <2>5, <2>7
      <4>2. CASE j # i
        <5>1. runtimes[j].thread \in Threads \ {t} /\ runtimes'[j] = runtimes[j]
          BY <4>2, <2>5, <2>12
        <5>2. turn'[runtimes'[j].thread] = turn[runtimes[j].thread]
          BY <5>1, <2>7
        <5> QED
          BY <5>1, <5>2 DEF TurnIsReal
      <4> QED
        BY <4>1, <4>2
    <3> QED
      BY <3>1, <2>5 DEF TurnIsReal
  <2> QED
    BY <2>5, <2>8, <2>9, <2>10, <2>11, <2>13, <2>14, <2>15, <2>16, <2>17
<1> QED
  BY <1>3, <1>4

LEMMA PromptSettlesKeeps ==
    ASSUME IInv, NEW t \in Threads, promptSettles(t)
    PROVE  IInv'
<1> USE DEF IInv
<1>1. /\ turn[t] # 0 /\ settled' = settled \union {t}
      /\ UNCHANGED <<runtimes, byThread, starting, stage, awaited, gate, victim, reserved, overfull,
                     closed, prompts, turn, quiet, sweep, gone, calls>>
  BY DEF promptSettles, registry
<1>2. /\ Kept /\ Shrinks /\ Ids' = Ids /\ Live' = Live /\ Exits' /\ Owned' /\ TurnIsReal'
      /\ Reaped' /\ Boots'
  BY <1>1, Untouched
<1>3. TypeOK'
  BY <1>1, <1>2 DEF TypeOK
<1>4. Stages' /\ Gated' /\ Reserved' /\ Closing'
  BY <1>1, <1>2 DEF Stages, Gated, Reserved, Admitted, Closing
<1>5. Asked'
  BY <1>1 DEF Asked
<1>6. Quiet'
  BY <1>1, <1>2 DEF Quiet
<1>7. Makes' /\ CapHolds'
  BY <1>1, <1>2 DEF Makes, CapHolds, Size
<1> QED
  BY <1>2, <1>3, <1>4, <1>5, <1>6, <1>7

LEMMA EndTurnKeeps ==
    ASSUME IInv, NEW t \in Threads, endTurn(t)
    PROVE  IInv'
<1> USE DEF IInv
<1> DEFINE i == byThread[t]
<1>1. /\ t \in settled /\ turn' = [turn EXCEPT ![t] = 0] /\ settled' = settled \ {t}
      /\ prompts' = [prompts EXCEPT ![t] = Tail(@)]
      /\ UNCHANGED <<byThread, starting, stage, awaited, gate, victim, reserved, overfull, closed,
                     gone, calls>>
  BY DEF endTurn, registry
<1>2. prompts[t] # <<>> /\ i \in Ids \union {0}
  BY <1>1 DEF Asked, TypeOK
<1>3. /\ prompts' \in [Threads -> Seq(Places)]
      /\ \A u \in Threads \ {t} : prompts'[u] = prompts[u]
  BY <1>1, <1>2, TailKeeps
<1>4. /\ turn' \in [Threads -> Ids \union {0}] /\ turn'[t] = 0
      /\ \A u \in Threads \ {t} : turn'[u] = turn[u]
  BY <1>1 DEF TypeOK
<1>5. \A j \in Live \ {i} : runtimes[j].thread \in Threads \ {t} /\ j \in Ids
  BY RuntimeTypes
<1>6. Gated' /\ Reserved'
  BY <1>1 DEF Gated, Reserved, Admitted
<1>7. Asked'
  BY <1>1, <1>3, <1>4 DEF Asked
<1>8. CASE i = 0
  <2>1. UNCHANGED <<runtimes, quiet, sweep>>
    BY <1>8 DEF endTurn
  <2>2. /\ Kept /\ Shrinks /\ Ids' = Ids /\ Live' = Live /\ Exits' /\ Owned' /\ Boots'
    BY <1>1, <2>1, Untouched
  <2>3. TypeOK'
    BY <1>1, <1>3, <1>4, <2>1, <2>2 DEF TypeOK
  <2>4. Stages' /\ Closing'
    BY <1>1, <2>1, <2>2 DEF Stages, Closing
  <2>5. \A j \in Live : runtimes[j].thread \in Threads \ {t}
    BY <1>5, <1>8, RuntimeTypes
  <2>6. Quiet'
    BY <1>3, <1>4, <2>1, <2>2, <2>5 DEF Quiet
  <2>7. Reaped'
    <3>1. ASSUME NEW j \in Ids, runtimes[j].reason = "reaped", runtimes[j].thread \notin gone
          PROVE  /\ ~runtimes[j].activeTurn /\ ~runtimes[j].busy
                 /\ \/ runtimes[j].exit
                    \/ runtimes[j].phase = "stopping" /\ prompts'[runtimes[j].thread] = <<>>
      <4>1. /\ ~runtimes[j].activeTurn /\ ~runtimes[j].busy
            /\ \/ runtimes[j].exit
               \/ runtimes[j].phase = "stopping" /\ prompts[runtimes[j].thread] = <<>>
        BY <3>1 DEF Reaped, Standing
      <4>2. runtimes[j].thread \in Threads
        BY RuntimeTypes
      <4> QED
        BY <4>1, <4>2, <1>2, <1>3
    <3> QED
      BY <3>1, <1>1, <2>1, <2>2 DEF Reaped, Standing
  <2>8. TurnIsReal'
    BY <1>4, <2>1, <2>2, <2>5 DEF TurnIsReal
  <2>9. Makes' /\ CapHolds'
    BY <1>1, <2>2 DEF Makes, CapHolds, Size
  <2> QED
    BY <1>6, <1>7, <2>2, <2>3, <2>4, <2>6, <2>7, <2>8, <2>9
<1>9. CASE i # 0
  <2> DEFINE r == [runtimes[i] EXCEPT !.activeTurn = FALSE]
  <2>1. i \in Ids /\ runtimes' = [runtimes EXCEPT ![i] = r] /\ noteActivity({i})
    BY <1>2, <1>9 DEF endTurn
  <2>2. runtimes[i].thread = t /\ runtimes[i] \in Runtime /\ i \in Live
    BY <2>1, <1>9, RuntimeTypes DEF TypeOK
  <2>3. ~runtimes[i].exit
    BY <2>1, <2>2 DEF Exits
  <2>4. /\ r \in Runtime /\ r.thread = t /\ r.exit = runtimes[i].exit
        /\ r.child = runtimes[i].child /\ r.phase = runtimes[i].phase
        /\ r.reason = runtimes[i].reason /\ ~r.activeTurn /\ r.busy = runtimes[i].busy
    BY <2>2 DEF Runtime
  <2> HIDE DEF r
  <2>5. /\ runtimes' \in Seq(Runtime) /\ Kept /\ Shrinks /\ Exits' /\ Ids' = Ids
        /\ Live' = Live
        /\ runtimes'[i] = r /\ \A j \in Ids \ {i} : runtimes'[j] = runtimes[j]
        /\ \A u \in Threads : byThread'[u] # 0 => runtimes'[byThread'[u]].thread = u
        /\ Makes' /\ CapHolds' /\ Stages'
    BY <1>1, <2>1, <2>2, <2>4, UpdateKeeps
  <2>6. /\ quiet' \subseteq quiet /\ quiet' \subseteq Ids /\ quiet' \cap {i} = {}
        /\ sweep' \in [left : SUBSET Ids, still : SUBSET Ids, stopping : Ids \union {0}]
        /\ sweep'.still \subseteq quiet'
    BY <2>1, NoteEffect
  <2>7. TypeOK'
    BY <1>1, <1>3, <1>4, <2>5, <2>6 DEF TypeOK
  <2>8. Closing'
    BY <1>1, <2>5 DEF Closing
  <2>9. Quiet'
    <3>1. \A j \in Live : runtimes'[j].thread = runtimes[j].thread
      BY <2>5, RuntimeTypes DEF Kept
    <3>2. ASSUME NEW j \in Live, j \in quiet', prompts'[runtimes[j].thread] # <<>>
          PROVE  turn'[runtimes[j].thread] = j
      <4>1. j # i /\ j \in quiet
        BY <3>2, <2>6
      <4> QED
        BY <4>1, <3>2, <1>3, <1>4, <1>5 DEF Quiet
    <3> QED
      BY <3>1, <3>2, <2>5, <2>6 DEF Quiet
  <2>10. Boots'
    <3> SUFFICES ASSUME NEW u \in Threads \ gone, stage[u] = "booting"
                 PROVE  /\ Boot(u)'.child = "none" => ~Boot(u)'.exit
                        /\ ~Boot(u)'.exit => Boot(u)'.phase = "starting"
      BY <1>1 DEF Boots
    <3>1. awaited[u] \in Ids /\ Boot(u)' = runtimes'[awaited[u]]
      BY <1>1 DEF Stages, TypeOK, Boot
    <3>2. /\ runtimes[awaited[u]].child = "none" => ~runtimes[awaited[u]].exit
          /\ ~runtimes[awaited[u]].exit => runtimes[awaited[u]].phase = "starting"
      BY DEF Boots, Boot
    <3>3. CASE awaited[u] = i
      BY <3>1, <3>2, <3>3, <2>3, <2>4, <2>5
    <3>4. CASE awaited[u] # i
      BY <3>1, <3>2, <3>4, <2>5
    <3> QED
      BY <3>3, <3>4
  <2>11. Owned'
    <3>1. ASSUME NEW j \in Ids, runtimes[j].thread \notin gone, runtimes'[j].child = "alive"
          PROVE  ~runtimes'[j].exit
      <4>1. CASE j = i
        BY <4>1, <2>3, <2>4, <2>5
      <4>2. CASE j # i
        BY <4>2, <3>1, <2>5 DEF Owned, Standing
      <4> QED
        BY <4>1, <4>2
    <3> QED
      BY <3>1, <1>1, <2>5 DEF Owned, Standing, Kept
  <2>12. Reaped'
    <3>1. ASSUME NEW j \in Ids, runtimes'[j].reason = "reaped", runtimes[j].thread \notin gone
          PROVE  /\ ~runtimes'[j].activeTurn /\ ~runtimes'[j].busy
                 /\ \/ runtimes'[j].exit
                    \/ runtimes'[j].phase = "stopping" /\ prompts'[runtimes[j].thread] = <<>>
      <4>1. j # i
        BY <3>1, <1>2, <2>2, <2>3, <2>4, <2>5 DEF Reaped, Standing
      <4>2. /\ runtimes'[j] = runtimes[j] /\ ~runtimes[j].activeTurn /\ ~runtimes[j].busy
            /\ \/ runtimes[j].exit
               \/ runtimes[j].phase = "stopping" /\ prompts[runtimes[j].thread] = <<>>
        BY <4>1, <3>1, <2>5 DEF Reaped, Standing
      <4>3. runtimes[j].thread \in Threads
        BY RuntimeTypes
      <4> QED
        BY <4>2, <4>3, <1>2, <1>3
    <3> QED
      BY <3>1, <1>1, <2>5 DEF Reaped, Standing, Kept
  <2>13. TurnIsReal'
    <3>1. ASSUME NEW j \in Live
          PROVE  runtimes'[j].activeTurn <=> turn'[runtimes'[j].thread] = j
      <4>1. CASE j = i
        BY <4>1, <1>4, <1>9, <2>4, <2>5
      <4>2. CASE j # i
        <5>1. runtimes[j].thread \in Threads \ {t} /\ runtimes'[j] = runtimes[j]
          BY <4>2, <2>5, <1>5
        <5>2. turn'[runtimes'[j].thread] = turn[runtimes[j].thread]
          BY <5>1, <1>4
        <5> QED
          BY <5>1, <5>2 DEF TurnIsReal
      <4> QED
        BY <4>1, <4>2
    <3> QED
      BY <3>1, <2>5 DEF TurnIsReal
  <2> QED
    BY <1>6, <1>7, <2>5, <2>7, <2>8, <2>9, <2>10, <2>11, <2>12, <2>13
<1> QED
  BY <1>8, <1>9

-----------------------------------------------------------------------------
(* The sweep, deletion and shutdown.                                       *)

LEMMA IdleKeeps ==
    ASSUME IInv, NEW i \in Ids, idle(i)
    PROVE  IInv'
<1> USE DEF IInv
<1>1. /\ i \in Live
      /\ prompts[runtimes[i].thread] # <<>> => turn[runtimes[i].thread] = i
      /\ quiet' = quiet \union {i}
      /\ UNCHANGED <<runtimes, byThread, starting, stage, awaited, gate, victim, reserved, overfull,
                     closed, prompts, turn, settled, sweep, gone, calls>>
  BY DEF idle, registry
<1>2. /\ Kept /\ Shrinks /\ Ids' = Ids /\ Live' = Live /\ Exits' /\ Owned' /\ TurnIsReal'
      /\ Reaped' /\ Boots'
  BY <1>1, Untouched
<1>3. TypeOK'
  BY <1>1, <1>2 DEF TypeOK
<1>4. Stages' /\ Gated' /\ Asked' /\ Reserved' /\ Closing'
  BY <1>1, <1>2 DEF Stages, Gated, Asked, Reserved, Admitted, Closing
<1>5. Quiet'
  BY <1>1, <1>2 DEF Quiet
<1>6. Makes' /\ CapHolds'
  BY <1>1, <1>2 DEF Makes, CapHolds, Size
<1> QED
  BY <1>2, <1>3, <1>4, <1>5, <1>6

\* What the sweep may stop has nothing queued: its prompt would be running.
LEMMA NothingQueued ==
    ASSUME TypeOK, Quiet, TurnIsReal, NEW i \in Live, i \in quiet, ~isWorking(i)
    PROVE  prompts[runtimes[i].thread] = <<>>
<1>1. ~runtimes[i].activeTurn
  BY DEF isWorking
<1>2. turn[runtimes[i].thread] # i
  BY <1>1 DEF TurnIsReal
<1> QED
  BY <1>2 DEF Quiet

\* Stopping a runtime of the sweep, or none.
LEMMA SweepKeeps ==
    ASSUME IInv, NEW i \in Live, i \in quiet, ~isWorking(i), ~isStarting(i), stop({i}, "reaped"),
           sweep' \in [left : SUBSET Ids, still : SUBSET Ids, stopping : Ids \union {0}],
           sweep'.still \subseteq quiet,
           UNCHANGED <<starting, stage, awaited, gate, victim, reserved, overfull, closed, prompts,
                       turn, settled, quiet, gone, calls>>
    PROVE  IInv'
<1> USE DEF IInv
<1>1. prompts[runtimes[i].thread] = <<>> /\ i \in Ids /\ runtimes[i].phase # "starting"
  BY NothingQueued, RuntimeTypes DEF isStarting
<1>2. {i} \in SUBSET Ids /\ "reaped" \in Reasons
  BY <1>1 DEF Reasons
<1>3. Kept /\ Shrinks /\ Exits'
  BY <1>2, StopEffect
<1>4. Closing'
  BY <1>3, ClosingFrame
<1>5. Makes' /\ CapHolds'
  <2>1. reserved' \in Nat /\ reserved' <= reserved /\ UNCHANGED <<victim, overfull>>
    BY DEF TypeOK
  <2> QED
    BY <2>1, <1>3, CapFrame
<1>6. \A t \in Threads \ gone' : stage[t] = "booting" /\ awaited[t] \in {i} =>
         runtimes[awaited[t]].phase # "starting"
  BY <1>1
<1>7. \A j \in {i} : j \in Live /\ ~isWorking(j) /\ prompts[runtimes[j].thread] = <<>>
  BY <1>1
<1>8. /\ gone \subseteq gone' /\ gone' \subseteq Threads
      /\ victim' \in [id : Ids \union {0}, size : Nat]
      /\ victim' # NoVictim => gate # <<>> /\ victim'.id # 0
      /\ closed' \in {"no", "closing", "stopping", "done"}
  BY DEF TypeOK, Gated
<1> HIDE DEF IInv
<1> QED
  BY <1>2, <1>4, <1>5, <1>6, <1>7, <1>8, StopsKeep

\* A step of the sweep that stops nothing.
LEMMA SweepPasses ==
    ASSUME IInv,
           sweep' \in [left : SUBSET Ids, still : SUBSET Ids, stopping : Ids \union {0}],
           sweep'.still \subseteq quiet,
           UNCHANGED <<runtimes, byThread, starting, stage, awaited, gate, victim, reserved,
                       overfull, closed, prompts, turn, settled, quiet, gone, calls>>
    PROVE  IInv'
<1> USE DEF IInv
<1>1. /\ Kept /\ Shrinks /\ Ids' = Ids /\ Live' = Live /\ Exits' /\ Owned' /\ TurnIsReal'
      /\ Reaped' /\ Boots'
  BY Untouched
<1>2. TypeOK'
  BY <1>1 DEF TypeOK
<1>3. Stages' /\ Gated' /\ Asked' /\ Reserved' /\ Closing'
  BY <1>1 DEF Stages, Gated, Asked, Reserved, Admitted, Closing
<1>4. Quiet'
  BY <1>1 DEF Quiet
<1>5. Makes' /\ CapHolds'
  BY <1>1 DEF Makes, CapHolds, Size
<1> QED
  BY <1>1, <1>2, <1>3, <1>4, <1>5

LEMMA RunSweepKeeps ==
    ASSUME IInv, runSweep
    PROVE  IInv'
<1>1. PICK i \in idleEntries :
         /\ stop({i}, "reaped")
         /\ sweep' = [left |-> idleEntries \ {i}, still |-> idleEntries \ {i}, stopping |-> i]
  BY DEF runSweep
<1>2. UNCHANGED <<starting, stage, awaited, gate, victim, reserved, overfull, closed, prompts,
                  turn, settled, quiet, gone, calls>>
  BY DEF runSweep
<1>3. /\ i \in Live /\ i \in quiet /\ ~isWorking(i) /\ ~isStarting(i)
      /\ idleEntries \subseteq quiet /\ idleEntries \subseteq Ids
  BY DEF idleEntries, Live
<1>4. /\ sweep' \in [left : SUBSET Ids, still : SUBSET Ids, stopping : Ids \union {0}]
      /\ sweep'.still \subseteq quiet
  BY <1>1, <1>3 DEF Live
<1> QED
  BY <1>1, <1>2, <1>3, <1>4, SweepKeeps

LEMMA ReapNextKeeps ==
    ASSUME IInv, reapNext
    PROVE  IInv'
<1>1. PICK i \in sweep.left :
         /\ IF mayReap(i) THEN stop({i}, "reaped") ELSE UNCHANGED <<runtimes, byThread>>
         /\ sweep' = [left |-> sweep.left \ {i}, still |-> sweep.still \ {i},
                      stopping |-> IF mayReap(i) THEN i ELSE 0]
  BY DEF reapNext
<1>2. UNCHANGED <<starting, stage, awaited, gate, victim, reserved, overfull, closed, prompts,
                  turn, settled, quiet, gone, calls>>
  BY DEF reapNext
<1>3. /\ sweep \in [left : SUBSET Ids, still : SUBSET Ids, stopping : Ids \union {0}]
      /\ sweep.still \subseteq quiet
  BY DEF IInv, TypeOK, Quiet
<1>4. /\ sweep' \in [left : SUBSET Ids, still : SUBSET Ids, stopping : Ids \union {0}]
      /\ sweep'.still \subseteq quiet
  BY <1>1, <1>3
<1>5. CASE mayReap(i)
  <2>1. /\ i \in Live /\ i \in quiet /\ ~isWorking(i) /\ ~isStarting(i) /\ stop({i}, "reaped")
    BY <1>1, <1>3, <1>5 DEF mayReap
  <2> QED
    BY <2>1, <1>2, <1>4, SweepKeeps
<1>6. CASE ~mayReap(i)
  BY <1>1, <1>2, <1>4, <1>6, SweepPasses
<1> QED
  BY <1>5, <1>6

LEMMA ReapedKeeps ==
    ASSUME IInv, reaped
    PROVE  IInv'
<1>1. /\ sweep' = [sweep EXCEPT !.stopping = 0]
      /\ UNCHANGED <<runtimes, byThread, starting, stage, awaited, gate, victim, reserved,
                     overfull, closed, prompts, turn, settled, quiet, gone, calls>>
  BY DEF reaped, registry
<1>2. /\ sweep \in [left : SUBSET Ids, still : SUBSET Ids, stopping : Ids \union {0}]
      /\ sweep.still \subseteq quiet
  BY DEF IInv, TypeOK, Quiet
<1>3. /\ sweep' \in [left : SUBSET Ids, still : SUBSET Ids, stopping : Ids \union {0}]
      /\ sweep'.still \subseteq quiet
  BY <1>1, <1>2
<1> QED
  BY <1>1, <1>3, SweepPasses

LEMMA CloseThreadKeeps ==
    ASSUME IInv, NEW t \in Threads, closeThread(t)
    PROVE  IInv'
<1> USE DEF IInv
<1> DEFINE S == {byThread[t]} \ {0}
<1>1. /\ t \in Closable /\ gone' = gone \union {t} /\ stop(S, "session_deleted")
      /\ UNCHANGED <<starting, stage, awaited, gate, victim, reserved, overfull, closed, prompts,
                     turn, settled, quiet, sweep, calls>>
  BY DEF closeThread
<1>2. S \in SUBSET Ids /\ "session_deleted" \in Reasons /\ "session_deleted" # "reaped"
  BY DEF Reasons, TypeOK
<1>3. \A i \in S : runtimes[i].thread = t
  BY DEF TypeOK
<1>4. Kept /\ Shrinks /\ Exits'
  BY <1>1, <1>2, StopEffect
<1>5. Closing'
  BY <1>1, <1>4, ClosingFrame
<1>6. Makes' /\ CapHolds'
  <2>1. reserved' \in Nat /\ reserved' <= reserved /\ UNCHANGED <<victim, overfull>>
    BY <1>1 DEF TypeOK
  <2> QED
    BY <2>1, <1>4, CapFrame
<1>7. \A u \in Threads \ gone' : stage[u] = "booting" /\ awaited[u] \in S =>
         runtimes[awaited[u]].phase # "starting"
  <2>1. \A u \in Threads \ gone' : u # t
    BY <1>1
  <2>2. \A u \in Threads : stage[u] = "booting" => runtimes[awaited[u]].thread = u
    BY DEF Stages
  <2> QED
    BY <2>1, <2>2, <1>3
<1>8. /\ gone \subseteq gone' /\ gone' \subseteq Threads
      /\ victim' \in [id : Ids \union {0}, size : Nat]
      /\ victim' # NoVictim => gate # <<>> /\ victim'.id # 0
      /\ closed' \in {"no", "closing", "stopping", "done"}
      /\ sweep' \in [left : SUBSET Ids, still : SUBSET Ids, stopping : Ids \union {0}]
      /\ sweep'.still \subseteq quiet
      /\ UNCHANGED <<starting, stage, awaited, gate, reserved, overfull, prompts, turn,
                     settled, quiet, calls>>
  BY <1>1 DEF TypeOK, Gated, Quiet
<1> HIDE DEF IInv, S
<1> QED
  BY <1>1, <1>2, <1>5, <1>6, <1>7, <1>8, StopsKeep

LEMMA ShutdownKeeps ==
    ASSUME IInv, shutdown \/ shutDown
    PROVE  IInv'
<1> USE DEF IInv
<1>1. UNCHANGED <<runtimes, byThread, starting, stage, awaited, gate, victim, reserved, overfull,
                   prompts, turn, settled, quiet, sweep, gone, calls>>
  BY DEF shutdown, shutDown
<1>2. /\ Kept /\ Shrinks /\ Ids' = Ids /\ Live' = Live /\ Exits' /\ Owned' /\ TurnIsReal'
      /\ Reaped' /\ Boots'
  BY <1>1, Untouched
<1>3. closed' \in {"no", "closing", "stopping", "done"} /\ Closing'
  BY <1>1, <1>2 DEF shutdown, shutDown, Closing
<1>4. TypeOK'
  BY <1>1, <1>2, <1>3 DEF TypeOK
<1>5. Stages' /\ Gated' /\ Asked' /\ Reserved'
  BY <1>1 DEF Stages, Gated, Asked, Reserved, Admitted
<1>6. Quiet'
  BY <1>1, <1>2 DEF Quiet
<1>7. Makes' /\ CapHolds'
  BY <1>1, <1>2 DEF Makes, CapHolds, Size
<1> QED
  BY <1>2, <1>3, <1>4, <1>5, <1>6, <1>7

LEMMA StopAllKeeps ==
    ASSUME IInv, stopAll
    PROVE  IInv'
<1> USE DEF IInv
<1>1. /\ \A t \in Threads : starting[t] = <<>>
      /\ closed' = "stopping" /\ stop(Live, "disposed")
      /\ UNCHANGED <<starting, stage, awaited, gate, victim, reserved, overfull, prompts, turn,
                     settled, quiet, sweep, gone, calls>>
  BY DEF stopAll
<1>2. Live \in SUBSET Ids /\ "disposed" \in Reasons /\ "disposed" # "reaped"
  BY DEF Reasons, Live
<1>3. Kept /\ Shrinks /\ Exits'
  BY <1>1, <1>2, StopEffect
<1>4. Closing'
  BY <1>1 DEF Closing
<1>5. Makes' /\ CapHolds'
  <2>1. reserved' \in Nat /\ reserved' <= reserved /\ UNCHANGED <<victim, overfull>>
    BY <1>1 DEF TypeOK
  <2> QED
    BY <2>1, <1>3, CapFrame
<1>6. \A u \in Threads \ gone' : stage[u] = "booting" /\ awaited[u] \in Live =>
         runtimes[awaited[u]].phase # "starting"
  BY <1>1 DEF Stages
<1>7. /\ gone \subseteq gone' /\ gone' \subseteq Threads
      /\ victim' \in [id : Ids \union {0}, size : Nat]
      /\ victim' # NoVictim => gate # <<>> /\ victim'.id # 0
      /\ closed' \in {"no", "closing", "stopping", "done"}
      /\ sweep' \in [left : SUBSET Ids, still : SUBSET Ids, stopping : Ids \union {0}]
      /\ sweep'.still \subseteq quiet
      /\ UNCHANGED <<starting, stage, awaited, gate, reserved, overfull, prompts, turn,
                     settled, quiet, calls>>
  BY <1>1 DEF TypeOK, Gated, Quiet
<1> HIDE DEF IInv
<1> QED
  BY <1>1, <1>2, <1>4, <1>5, <1>6, <1>7, StopsKeep

-----------------------------------------------------------------------------
(* The specification.                                                      *)

LEMMA InitHolds == Init => IInv
<1> SUFFICES ASSUME Init
             PROVE  IInv
  OBVIOUS
<1> USE DEF Init
<1>1. Ids = {} /\ Live = {}
  BY DEF Ids, Live
<1>2. TypeOK
  <2>1. runtimes \in Seq(Runtime) /\ gate \in Seq(Threads)
    OBVIOUS
  <2>2. /\ starting \in [Threads -> Seq([place : Places, prompts : Seq(Places)])]
        /\ prompts \in [Threads -> Seq(Places)]
    OBVIOUS
  <2>3. victim \in [id : Ids \union {0}, size : Nat]
    BY DEF NoVictim
  <2>4. sweep \in [left : SUBSET Ids, still : SUBSET Ids, stopping : Ids \union {0}]
    OBVIOUS
  <2>5. calls \in 0..MaxCalls
    BY SessionRegistryAssumption
  <2>6. /\ byThread \in [Threads -> Ids \union {0}] /\ awaited \in [Threads -> Ids \union {0}]
        /\ turn \in [Threads -> Ids \union {0}]
        /\ \A t \in Threads : byThread[t] = 0
    OBVIOUS
  <2>7. stage \in [Threads -> {"queued", "removing", "gate", "admitted", "booting", "failing"}]
    OBVIOUS
  <2>8. /\ reserved \in Nat /\ overfull \in BOOLEAN /\ settled \subseteq Threads /\ quiet \subseteq Ids
        /\ closed \in {"no", "closing", "stopping", "done"} /\ gone \subseteq Threads
    OBVIOUS
  <2> QED
    BY <2>1, <2>2, <2>3, <2>4, <2>5, <2>6, <2>7, <2>8 DEF TypeOK
<1>3. Stages /\ Gated /\ Exits /\ Asked
  BY <1>1 DEF Stages, Gated, Exits, Asked
<1>4. Reserved
  <2>1. Admitted = {}
    BY DEF Admitted
  <2> QED
    BY <2>1, FS_EmptySet DEF Reserved
<1>5. Quiet /\ Boots /\ Owned /\ Reaped /\ Closing /\ TurnIsReal
  BY <1>1 DEF Quiet, Boots, Owned, Reaped, Closing, TurnIsReal
<1>6. Makes /\ CapHolds
  <2>1. Size = 0
    BY <1>1, FS_EmptySet DEF Size
  <2> QED
    BY <2>1, SessionRegistryAssumption DEF Makes, CapHolds
<1> QED
  BY <1>2, <1>3, <1>4, <1>5, <1>6 DEF IInv

\* A session is deleted only by closeThread.
Deletes == gone' = gone \/ \E t \in Closable : gone' = gone \union {t}

LEMMA NextKeeps ==
    ASSUME IInv, [Next]_vars
    PROVE  IInv' /\ Deletes
<1>1. CASE UNCHANGED vars
  BY <1>1, UnchangedKeeps DEF Deletes, vars
<1>2. ASSUME NEW t \in Threads, NEW place \in Places, ensureSession(t, place) \/ prompt(t, place)
      PROVE  IInv' /\ Deletes
  <2>1. <<>> \in Seq(Places) /\ <<place>> \in Seq(Places)
    OBVIOUS
  <2>2. PICK waiting \in Seq(Places) : ensureStarted(t, place, waiting)
    BY <1>2, <2>1 DEF ensureSession, prompt
  <2> QED
    BY <2>2, EnsureStartedKeeps DEF Deletes, ensureStarted
<1>3. ASSUME NEW t \in Threads, createOrReuse(t) PROVE IInv' /\ Deletes
  BY <1>3, CreateOrReuseKeeps DEF Deletes, createOrReuse
<1>4. ASSUME NEW t \in Threads, Removed(t) PROVE IInv' /\ Deletes
  BY <1>4, RemovedKeeps DEF Deletes, Removed
<1>5. ASSUME NEW t \in Threads, create(t) PROVE IInv' /\ Deletes
  BY <1>5, CreateKeeps DEF Deletes, create
<1>6. ASSUME NEW t \in Threads, createThrows(t) PROVE IInv' /\ Deletes
  BY <1>6, CreateThrowsKeeps DEF Deletes, createThrows
<1>7. ASSUME NEW t \in Threads, connect(t) PROVE IInv' /\ Deletes
  BY <1>7, ConnectKeeps DEF Deletes, connect
<1>8. ASSUME NEW t \in Threads, bootstrap(t) PROVE IInv' /\ Deletes
  BY <1>8, BootstrapKeeps DEF Deletes, bootstrap
<1>9. ASSUME NEW t \in Threads, bootFails(t) PROVE IInv' /\ Deletes
  BY <1>9, BootFailsKeeps DEF Deletes, bootFails
<1>10. ASSUME NEW t \in Threads, startRejects(t) PROVE IInv' /\ Deletes
  BY <1>10, StartRejectsKeeps DEF Deletes, startRejects
<1>11. ASSUME NEW t \in Threads, runPrompt(t) PROVE IInv' /\ Deletes
  BY <1>11, RunPromptKeeps DEF Deletes, runPrompt
<1>12. ASSUME NEW t \in Threads, promptSettles(t) PROVE IInv' /\ Deletes
  BY <1>12, PromptSettlesKeeps DEF Deletes, promptSettles
<1>13. ASSUME NEW t \in Threads, endTurn(t) PROVE IInv' /\ Deletes
  BY <1>13, EndTurnKeeps DEF Deletes, endTurn
<1>14. ASSUME NEW t \in Threads, closeThread(t) PROVE IInv' /\ Deletes
  BY <1>14, CloseThreadKeeps DEF Deletes, closeThread
<1>15. ASSUME NEW i \in Ids, childExits(i) \/ onEvent(i) \/ idle(i) PROVE IInv' /\ Deletes
  BY <1>15, ChildExitsKeeps, OnEventKeeps, IdleKeeps DEF Deletes, childExits, onEvent, idle
<1>16. CASE Evict \/ Evicted
  BY <1>16, EvictKeeps, EvictedKeeps DEF Deletes, Evict, Evicted
<1>17. CASE runSweep \/ reapNext \/ reaped
  BY <1>17, RunSweepKeeps, ReapNextKeeps, ReapedKeeps DEF Deletes, runSweep, reapNext, reaped
<1>18. CASE shutdown \/ stopAll \/ shutDown
  BY <1>18, ShutdownKeeps, StopAllKeeps DEF Deletes, shutdown, stopAll, shutDown
<1> QED
  BY <1>1, <1>2, <1>3, <1>4, <1>5, <1>6, <1>7, <1>8, <1>9, <1>10, <1>11, <1>12, <1>13, <1>14,
     <1>15, <1>16, <1>17, <1>18 DEF Next

LEMMA Invariance == Spec => [](IInv /\ gone \subseteq Closable)
<1>1. Init => IInv /\ gone \subseteq Closable
  BY InitHolds DEF Init
<1>2. IInv /\ gone \subseteq Closable /\ [Next]_vars => (IInv /\ gone \subseteq Closable)'
  BY NextKeeps DEF Deletes
<1> QED
  BY <1>1, <1>2, PTL DEF Spec

-----------------------------------------------------------------------------
(* Theorems.                                                               *)

\* Every variable keeps its type: in particular the map of a thread never
\* holds the runtime of another (SessionRuntimeRegistryImpl's byThread).
THEOREM TypeCorrect == Spec => []TypeOK
  BY Invariance, PTL DEF IInv

\* Live and reserved runtimes stay within the cap until a start finds nothing
\* to evict, however starts, kills and exits interleave at the gate.
THEOREM CapIsKept == Spec => []CapHolds
  BY Invariance, PTL DEF IInv

\* An entry's activeTurn is set exactly while a prompt runs on that entry,
\* whatever replaced, stopped or killed it between run and endTurn.
THEOREM TurnsAreReal == Spec => []TurnIsReal
  BY Invariance, PTL DEF IInv

-----------------------------------------------------------------------------
(* Sessions that were not deleted.  closeThread lets go of a process before *)
(* it has a child to kill, so what follows is about the other threads.      *)

\* The registry holds every live process of such a session, and only one.
StandingOwned ==
    /\ \A i \in Ids : Standing(i) /\ runtimes[i].child = "alive" => i \in Live
    /\ \A i, j \in Ids : i # j /\ Standing(i) /\ runtimes[i].thread = runtimes[j].thread
                            => ~(runtimes[i].child = "alive" /\ runtimes[j].child = "alive")

\* The sweep stops nothing of it at work; a shutdown leaves nothing of it alive.
StandingSpared ==
    /\ \A i \in Ids : Standing(i) /\ runtimes[i].reason = "reaped" => ~isWorking(i)
    /\ closed = "done" => \A i \in Ids : Standing(i) => runtimes[i].child # "alive"

LEMMA StandingHolds == IInv => StandingOwned /\ StandingSpared
<1> SUFFICES ASSUME IInv
             PROVE  StandingOwned /\ StandingSpared
  OBVIOUS
<1>1. \A i \in Ids : Standing(i) /\ runtimes[i].child = "alive" =>
         i \in Live /\ byThread[runtimes[i].thread] = i
  BY DEF IInv, Owned, Exits, Live
<1>2. StandingOwned
  BY <1>1 DEF StandingOwned, Standing
<1>3. StandingSpared
  BY <1>1 DEF IInv, StandingSpared, Reaped, Closing, isWorking
<1> QED
  BY <1>2, <1>3

\* A session that was not deleted never has a live process that the registry
\* does not hold, nor two of them.
THEOREM ProcessesAreOwned == Spec => []StandingOwned
  BY Invariance, StandingHolds, PTL

\* For a session that was not deleted the reaper never stops one at work, and
\* after a shutdown there is none.
THEOREM ProcessesAreSpared == Spec => []StandingSpared
  BY Invariance, StandingHolds, PTL

LEMMA NothingDeleted ==
    ASSUME Closable = {}, IInv, gone \subseteq Closable
    PROVE  ChildIsOwned /\ OneProcessPerThread /\ ReapingSparesWork /\ ShutdownIsComplete
<1>1. StandingOwned /\ StandingSpared /\ \A i \in Ids : Standing(i)
  BY StandingHolds DEF Standing
<1> QED
  BY <1>1 DEF StandingOwned, StandingSpared, ChildIsOwned, OneProcessPerThread,
              ReapingSparesWork, ShutdownIsComplete

\* Where no session is deleted, every live process is held by the registry.
THEOREM ChildrenAreOwned ==
    ASSUME Closable = {} PROVE Spec => []ChildIsOwned
  BY Invariance, NothingDeleted, PTL

\* Where no session is deleted, a superseded, evicted, reaped or failed process
\* is dead before its thread has another.
THEOREM OneProcessEach ==
    ASSUME Closable = {} PROVE Spec => []OneProcessPerThread
  BY Invariance, NothingDeleted, PTL

\* Where no session is deleted, no turn is in flight on what the sweep stops,
\* and none begins on it between the list, the look and the kill.
THEOREM ReaperSparesWork ==
    ASSUME Closable = {} PROVE Spec => []ReapingSparesWork
  BY Invariance, NothingDeleted, PTL

\* Where no session is deleted, a finished shutdown has left no process,
\* not even of a start that was pending when it began.
THEOREM ShutdownLeavesNone ==
    ASSUME Closable = {} PROVE Spec => []ShutdownIsComplete
  BY Invariance, NothingDeleted, PTL
=============================================================================
