--------------------------- MODULE TurnRows_proofs ---------------------------
(***************************************************************************)
(* Proofs about the rows of a thread's turns: never two of them open, and  *)
(* no request whose answer memory would take and the rows would not.       *)
(***************************************************************************)
EXTENDS TurnLifecycle_proofs

-----------------------------------------------------------------------------
(* The inductive invariant.                                                *)

\* Turns are numbered as they start; a start that could not be written has no
\* prompt.
Numbered ==
    /\ work <= used
    /\ \A t \in Turns : t > used => turns[t].chain = "none"
    /\ \A g \in Loads : records[g].unrecorded # 0 => turns[records[g].unrecorded].chain = "none"

\* A prompt reaches the queue, and from there the agent, after its session
\* answered.
Queued ==
    /\ \A i \in 1..Len(queue) : turns[queue[i]].chain \notin {"none", "waiting"}
    /\ work # 0 => turns[work].chain # "waiting"

\* The record of the thread is the last that was made; a prompt is a record's,
\* and stops waiting when the record's session answered.
Attaching ==
    /\ record # 0 => record = loads
    /\ \A t \in Turns :
         /\ turns[t].owner <= loads
         /\ turns[t].chain # "none" => turns[t].owner # 0
         /\ turns[t].chain \notin {"none", "waiting"} =>
               records[turns[t].owner].session \in {"ready", "failed"}

\* A sub-agent's thread has no turns but those it is sent.
ChildRests ==
    child => /\ ~background
             /\ \A g \in Loads :
                  /\ records[g].unrecorded = 0
                  /\ records[g].active # 0 => turns[records[g].active].chain # "none"

Placed == Numbered /\ Queued /\ Attaching /\ ChildRests

\* Events name the run the agent is on, if they name one.  A turn the agent
\* began is active in the thread's record and heard there; what is heard there
\* is what the agent is on.
Speaking(g) ==
    LET a == records[g].active
    IN  a # 0 => /\ turns[a].folded # a
                 /\ turns[a].chain = "none" => g = record /\ turns[a].heard
                 /\ g = record /\ turns[a].heard => work = a /\ message = a
Speaks == message \in {0, work} /\ \A g \in Loads : Speaking(g)

\* Nothing the agent or a promise still does starts another turn.
Dormant ==
    /\ ~background
    /\ \A g \in Loads : records[g].unrecorded = 0
    /\ child \/ (queue = <<>> /\ \A t \in Turns : turns[t].chain # "waiting")

\* Somebody is to end the turn: the batcher keeps its end, or a record has it
\* active, the thread's own or one whose prompt is about to find that out.
Anchored(t) ==
    \/ due[t] # "none"
    \/ /\ turns[t].owner # 0 /\ records[turns[t].owner].active = t
       /\ \/ turns[t].owner = record
          \/ turns[t].chain = "waiting" /\ records[turns[t].owner].session = "failed"

Anchors == Dormant \/ \A t \in OpenTurns \ abandoned : Anchored(t)
Alone == \A t, u \in OpenTurns \ abandoned : t = u
Down == ~up => Quiet /\ Dormant

Rowed == Placed /\ Speaks /\ (up => Anchors) /\ Alone /\ Down

-----------------------------------------------------------------------------
(* What steps do.                                                          *)

\* A turn keeps its record; a prompt is not waited for once its session answered.
Advances(ts) ==
    \A t \in Turns :
       /\ ts[t].owner = turns[t].owner
       /\ \/ ts[t].chain = turns[t].chain
          \/ /\ turns[t].chain # "none" /\ ts[t].chain \notin {"none", "waiting"}
             /\ records[turns[t].owner].session \in {"ready", "failed"}

\* A turn is heard, and takes in a run, as before.
Hears(ts) ==
    \A t \in Turns : ts[t].heard = turns[t].heard /\ ts[t].folded = turns[t].folded

\* A record lets go of what it had, and its session may answer.
Answers(rs) ==
    \A g \in Loads :
       \/ rs[g].session = records[g].session
       \/ records[g].session = "loading" /\ rs[g].session \in {"ready", "failed"}
LetsGo(rs) == Fewer(rs) /\ Answers(rs)
Holds(rs) == Alike(rs) /\ Answers(rs)

\* No row opens; a turn left open is due its end if it was.
Shuts(d) ==
    \A t \in Turns : row'[t] = "open" => row[t] = "open" /\ (d[t] # "none" => due'[t] # "none")

LEMMA Kinds ==
    ASSUME Typed
    PROVE  /\ record \in 0..MaxLoads /\ loads \in Nat /\ used \in Nat /\ MaxTurns \in Nat
           /\ MaxLoads \in Nat /\ work \in 0..MaxTurns /\ message \in 0..MaxTurns
           /\ queue \in Seq(Turns) /\ records \in [Loads -> RecordType]
           /\ turns \in [Turns -> TurnType] /\ due \in Dues /\ row \in [Turns -> Rows]
           /\ \A g \in Loads : /\ records[g] \in RecordType
                               /\ records[g].active \in 0..MaxTurns
                               /\ records[g].unrecorded \in 0..MaxTurns
           /\ \A t \in Turns : /\ turns[t] \in TurnType /\ turns[t].owner \in 0..MaxLoads
                               /\ turns[t].chain \in Chains
           /\ used \in 0..MaxTurns /\ \A t \in 0..MaxTurns : t # 0 => t \in Turns
           /\ \A g \in 0..MaxLoads : g # 0 => g \in Loads
<1>1. /\ record \in 0..MaxLoads /\ loads \in Nat /\ used \in Nat /\ used \in 0..MaxTurns /\ MaxTurns \in Nat
      /\ MaxLoads \in Nat /\ work \in 0..MaxTurns /\ message \in 0..MaxTurns
      /\ queue \in Seq(Turns) /\ records \in [Loads -> RecordType]
      /\ turns \in [Turns -> TurnType] /\ due \in Dues /\ row \in [Turns -> Rows]
  BY TurnLifecycleAssumption DEF Typed, Memory, Working, Counted, Batched
<1>2. \A g \in Loads : /\ records[g] \in RecordType
                       /\ records[g].active \in 0..MaxTurns
                       /\ records[g].unrecorded \in 0..MaxTurns
  BY <1>1 DEF RecordType
<1>3. \A t \in Turns : /\ turns[t] \in TurnType /\ turns[t].owner \in 0..MaxLoads
                       /\ turns[t].chain \in Chains
  BY <1>1 DEF TurnType, Chains
<1> QED
  BY <1>1, <1>2, <1>3 DEF Turns, Loads

\* The active turn of a record is its own.
LEMMA Actives ==
    ASSUME Typed, Owning
    PROVE  /\ \A g \in Loads : records[g].active # 0 =>
                 /\ records[g].active \in Turns /\ records[g].active <= used
                 /\ turns[records[g].active].owner = g
           /\ Active # 0 => /\ Active \in Turns /\ record \in Loads
                            /\ records[record].active = Active /\ turns[Active].owner = record
           /\ Target \in {0, Active}
<1>1. \A g \in Loads : records[g].active # 0 =>
         /\ records[g].active \in Turns /\ records[g].active <= used
         /\ turns[records[g].active].owner = g
  BY Kinds DEF Owning, OwnsActive
<1>2. Active # 0 => record \in Loads /\ records[record].active = Active
  BY Kinds DEF Active
<1>3. Target \in {0, Active}
  BY DEF Target
<1> QED
  BY <1>1, <1>2, <1>3

LEMMA KeepsPlaced ==
    ASSUME Typed, Placed, Advances(turns'), LetsGo(records'), record' \in {record, 0},
           UNCHANGED <<child, loads>>, used' \in {used, used + 1},
           \A i \in 1..Len(queue') : turns'[queue'[i]].chain \notin {"none", "waiting"},
           work' <= used', work' # 0 => turns'[work'].chain # "waiting", child => ~background'
    PROVE  Placed'
<1> USE Kinds
<1>1. Numbered'
  <2>1. ASSUME NEW t \in Turns, t > used' PROVE turns'[t].chain = "none"
    <3>1. t > used
      BY <2>1 DEF Turns
    <3> QED
      BY <3>1 DEF Placed, Numbered, Advances
  <2>2. ASSUME NEW g \in Loads, records'[g].unrecorded # 0
        PROVE  turns'[records'[g].unrecorded].chain = "none"
    <3>1. records'[g].unrecorded = records[g].unrecorded /\ records[g].unrecorded \in Turns
      BY <2>2 DEF LetsGo, Fewer
    <3> QED
      BY <2>2, <3>1 DEF Placed, Numbered, Advances
  <2> QED
    BY <2>1, <2>2 DEF Numbered
<1>2. Queued'
  BY DEF Queued
<1>3. Attaching'
  <2>1. record' # 0 => record' = loads'
    BY DEF Placed, Attaching
  <2>2. ASSUME NEW t \in Turns
        PROVE  /\ turns'[t].owner <= loads'
               /\ turns'[t].chain # "none" => turns'[t].owner # 0
    BY DEF Placed, Attaching, Advances
  <2>3. ASSUME NEW t \in Turns, turns'[t].chain \notin {"none", "waiting"}
        PROVE  records'[turns'[t].owner].session \in {"ready", "failed"}
    <3>1. turns'[t].owner = turns[t].owner /\ turns[t].owner # 0 /\ turns[t].owner \in Loads
      BY <2>3 DEF Placed, Attaching, Advances
    <3>2. records[turns[t].owner].session \in {"ready", "failed"}
      BY <2>3 DEF Placed, Attaching, Advances
    <3> QED
      BY <3>1, <3>2 DEF LetsGo, Answers
  <2> QED
    BY <2>1, <2>2, <2>3 DEF Attaching
<1>4. ChildRests'
  <2> SUFFICES ASSUME child PROVE ChildRests'
    BY DEF ChildRests
  <2>1. ASSUME NEW g \in Loads
        PROVE  /\ records'[g].unrecorded = 0
               /\ records'[g].active # 0 => turns'[records'[g].active].chain # "none"
    BY DEF Placed, ChildRests, LetsGo, Fewer, Advances
  <2> QED
    BY <2>1 DEF ChildRests
<1> QED
  BY <1>1, <1>2, <1>3, <1>4 DEF Placed

\* What the agent and the promises may still start stays to be seen.
LEMMA KeepsDormant ==
    ASSUME Typed, Dormant, Placed', Advances(turns'), LetsGo(records'), UNCHANGED child,
           ~child => ~background' /\ queue' = <<>>
    PROVE  Dormant'
<1>1. ~background'
  BY DEF Placed, ChildRests
<1>2. \A g \in Loads : records'[g].unrecorded = 0
  BY DEF LetsGo, Fewer, Dormant
<1>3. ~child => \A t \in Turns : turns'[t].chain # "waiting"
  BY DEF Dormant, Advances
<1> QED
  BY <1>1, <1>2, <1>3 DEF Dormant

\* The open turns of a step that opens none stay anchored: an active turn is
\* let go of with its end, and a dropped prompt that stops waiting ends.
LEMMA KeepsAnchors ==
    ASSUME Typed, Owning, Placed, Anchors, Alone, Placed', Advances(turns'), LetsGo(records'),
           UNCHANGED <<child, record, abandoned>>, NEW d, Shuts(d),
           \A t \in Turns : due[t] # "none" => d[t] # "none",
           \A g \in Loads : records[g].active # 0 /\ records'[g].active # records[g].active
              => d[records[g].active] # "none",
           \A t \in Turns : /\ turns[t].chain = "waiting" /\ turns'[t].chain # "waiting"
                            /\ turns[t].owner # record
              => \/ records'[turns[t].owner].active # t
                 \/ records[turns[t].owner].session = "ready",
           ~child /\ Dormant => ~background' /\ queue' = <<>>
    PROVE  Anchors' /\ Alone'
<1> USE Kinds
<1>1. \A t \in OpenTurns' \ abandoned' :
         t \in OpenTurns \ abandoned /\ (d[t] # "none" => due'[t] # "none")
  BY DEF OpenTurns, Shuts
<1>2. Alone'
  BY <1>1 DEF Alone
<1>3. CASE Dormant
  <2>1. ~child => ~background' /\ queue' = <<>>
    BY <1>3
  <2>2. UNCHANGED child
    OBVIOUS
  <2>3. Dormant'
    BY <1>3, <2>1, <2>2, KeepsDormant
  <2> QED
    BY <1>2, <2>3 DEF Anchors
<1>4. CASE ~Dormant
  <2> SUFFICES ASSUME NEW t \in OpenTurns' \ abandoned', due'[t] = "none"
               PROVE  Anchored(t)'
    BY <1>2 DEF Anchors, Anchored, OpenTurns
  <2> DEFINE o == turns[t].owner
  <2>1. t \in Turns /\ Anchored(t) /\ d[t] = "none" /\ due[t] = "none"
    BY <1>1, <1>4 DEF Anchors, OpenTurns
  <2>2. o # 0 /\ o \in Loads /\ records[o].active = t /\ t # 0
    BY <2>1 DEF Anchored, Turns
  <2>3. records'[o].active = t /\ turns'[t].owner = o
    BY <2>1, <2>2 DEF Advances
  <2>4. CASE o = record
    BY <2>2, <2>3, <2>4 DEF Anchored
  <2>5. CASE o # record
    <3>1. turns[t].chain = "waiting" /\ records[o].session = "failed"
      BY <2>1, <2>5 DEF Anchored
    <3>2. turns'[t].chain = "waiting"
      BY <2>1, <2>2, <2>3, <2>5, <3>1
    <3>3. records'[o].session = "failed"
      BY <2>2, <3>1 DEF LetsGo, Answers
    <3> QED
      BY <2>2, <2>3, <3>2, <3>3 DEF Anchored
  <2> QED
    BY <2>4, <2>5
<1> QED
  BY <1>2, <1>3, <1>4

LEMMA WriteShuts ==
    ASSUME Typed, NEW by, NEW d \in Dues, NEW l, Write(by, d, l)
    PROVE  Shuts(d)
<1>1. ASSUME NEW t \in Turns, row'[t] = "open"
      PROVE  row[t] = "open" /\ (d[t] # "none" => due'[t] # "none")
  <2>1. CASE Written(by, d, l)
    <3>1. row'[t] = IF d[t] # "none" /\ row[t] = "open" THEN d[t] ELSE row[t]
      BY <2>1 DEF Written, RowsAfter
    <3>2. d[t] # "open"
      BY DEF Dues, Outcomes, Ends
    <3> QED
      BY <1>1, <3>1, <3>2
  <2>2. CASE due' = d /\ UNCHANGED row
    BY <1>1, <2>2
  <2> QED
    BY <2>1, <2>2 DEF Write
<1> QED
  BY <1>1 DEF Shuts

LEMMA OtherShuts ==
    ASSUME Typed
    PROVE  /\ UNCHANGED <<rows, batch>> => Shuts(due)
           /\ \A by, l : Write(by, due, l) => Shuts(due)
           /\ \A S : SettleOnly(S) => Shuts(due)
<1>1. UNCHANGED <<rows, batch>> => Shuts(due)
  BY DEF Shuts, rows, batch
<1>2. ASSUME NEW by, NEW l, Write(by, due, l)
      PROVE  Shuts(due)
  BY <1>2, Kinds, WriteShuts
<1>3. ASSUME NEW S, SettleOnly(S)
      PROVE  Shuts(due)
  BY <1>1, <1>2, <1>3 DEF SettleOnly
<1> QED
  BY <1>1, <1>2, <1>3

LEMMA SameQueue ==
    ASSUME Typed, Queued, Advances(turns'), queue' = queue
    PROVE  \A i \in 1..Len(queue') : turns'[queue'[i]].chain \notin {"none", "waiting"}
<1>1. ASSUME NEW i \in 1..Len(queue)
      PROVE  turns'[queue[i]].chain \notin {"none", "waiting"}
  <2>1. queue[i] \in Turns
    BY Kinds
  <2> QED
    BY <2>1 DEF Queued, Advances
<1> QED
  BY <1>1

LEMMA SameWork ==
    ASSUME Typed, Queued, Advances(turns'), work' \in {work, 0}
    PROVE  work' # 0 => turns'[work'].chain # "waiting"
  BY Kinds DEF Queued, Advances

\* A step that ends no turn and starts none.
LEMMA KeepsRowed ==
    ASSUME Typed, Owning, Rowed, up, up', UNCHANGED <<child, record, loads, used, abandoned>>,
           Advances(turns'), Hears(turns'), Holds(records'), Shuts(due),
           \A i \in 1..Len(queue') : turns'[queue'[i]].chain \notin {"none", "waiting"},
           ~child /\ Dormant => queue' = <<>>,
           background' \in {background, FALSE}, work' \in {work, 0}, message' \in {message, 0},
           message' \in {0, work'},
           work' # work \/ message' # message => Active = 0 \/ ~turns[Active].heard,
           \A t \in Turns : /\ turns[t].chain = "waiting" /\ turns'[t].chain # "waiting"
                            /\ turns[t].owner # record
              => \/ records[turns[t].owner].active # t
                 \/ records[turns[t].owner].session = "ready"
    PROVE  Rowed'
<1> USE Kinds
<1>1. Placed /\ Speaks /\ Anchors /\ Alone
  BY DEF Rowed
<1>2. LetsGo(records')
  BY AlikeFewer DEF LetsGo, Holds
<1>3. Placed'
  <2>1. work' # 0 => turns'[work'].chain # "waiting"
    BY <1>1, SameWork DEF Placed
  <2>2. work' <= used'
    BY <1>1 DEF Placed, Numbered
  <2>3. child => ~background'
    BY <1>1 DEF Placed, ChildRests
  <2> QED
    BY <1>1, <1>2, <2>1, <2>2, <2>3, KeepsPlaced
<1>4. Speaks'
  <2>1. ASSUME NEW g \in Loads PROVE Speaking(g)'
    <3> DEFINE a == records[g].active
    <3> SUFFICES ASSUME a # 0
                 PROVE  /\ turns'[a].folded # a
                        /\ turns'[a].chain = "none" => g = record' /\ turns'[a].heard
                        /\ g = record' /\ turns'[a].heard => work' = a /\ message' = a
      BY DEF Speaking, Holds, Alike
    <3>1. a \in Turns
      BY Actives
    <3>2. /\ turns'[a].heard = turns[a].heard /\ turns'[a].folded = turns[a].folded
          /\ turns'[a].chain = "none" => turns[a].chain = "none"
      BY <3>1 DEF Hears, Advances
    <3>3. Speaking(g)
      BY <1>1 DEF Speaks
    <3>4. g = record /\ turns[a].heard => work' = work /\ message' = message
      BY DEF Active, Loads
    <3> QED
      BY <3>2, <3>3, <3>4 DEF Speaking
  <2> QED
    BY <2>1 DEF Speaks
<1>5. Anchors' /\ Alone'
  <2>1. \A g \in Loads : records'[g].active = records[g].active
    BY DEF Holds, Alike
  <2>2. \A t \in Turns : /\ turns[t].chain = "waiting" /\ turns'[t].chain # "waiting"
                         /\ turns[t].owner # record
           => \/ records'[turns[t].owner].active # t
              \/ records[turns[t].owner].session = "ready"
    <3> SUFFICES ASSUME NEW t \in Turns, turns[t].chain = "waiting", turns'[t].chain # "waiting",
                        turns[t].owner # record
                 PROVE  \/ records'[turns[t].owner].active # t
                        \/ records[turns[t].owner].session = "ready"
      OBVIOUS
    <3>1. turns[t].owner \in Loads
      BY <1>1 DEF Placed, Attaching
    <3> QED
      BY <2>1, <3>1
  <2>3. ~child /\ Dormant => ~background' /\ queue' = <<>>
    BY DEF Dormant
  <2> QED
    BY <1>1, <1>2, <1>3, <2>1, <2>2, <2>3, KeepsAnchors
<1> QED
  BY <1>3, <1>4, <1>5 DEF Rowed, Down

\* What the end of a turn does to it and to its record.
LEMMA EndFields ==
    ASSUME Typed, NEW t \in Turns, NEW outcome, NEW ts \in [Turns -> TurnType],
           NEW rs \in [Loads -> RecordType], NEW qs, NEW l, turns[t].owner \in Loads,
           End(t, outcome, ts, rs, qs, l)
    PROVE  /\ \A u \in Turns : u # t => turns'[u] = ts[u]
           /\ turns'[t].owner = ts[t].owner /\ turns'[t].chain = ts[t].chain
           /\ turns'[t].stop = ts[t].stop
           /\ turns'[t].heard = FALSE /\ turns'[t].folded = 0 /\ turns'[t].said = outcome
           /\ \A g \in Loads : /\ g # turns[t].owner => records'[g] = rs[g]
                               /\ records'[g].session = rs[g].session
                               /\ records'[g].unrecorded = rs[g].unrecorded
           /\ records'[turns[t].owner].active = 0
<1>1. turns' = [ts EXCEPT ![t].said = outcome, ![t].heard = FALSE, ![t].folded = 0]
      /\ records' = [rs EXCEPT ![turns[t].owner].active = 0]
  BY DEF End
<1>2. ts[t] \in TurnType /\ rs[turns[t].owner] \in RecordType
  OBVIOUS
<1>3. turns'[t] = [ts[t] EXCEPT !.said = outcome, !.heard = FALSE, !.folded = 0]
  BY <1>1
<1>4. /\ turns'[t].owner = ts[t].owner /\ turns'[t].chain = ts[t].chain
      /\ turns'[t].stop = ts[t].stop
      /\ turns'[t].heard = FALSE /\ turns'[t].folded = 0 /\ turns'[t].said = outcome
  BY <1>2, <1>3 DEF TurnType
<1>5. \A u \in Turns : u # t => turns'[u] = ts[u]
  BY <1>1
<1>6. records'[turns[t].owner] = [rs[turns[t].owner] EXCEPT !.active = 0]
  BY <1>1
<1>7. /\ records'[turns[t].owner].session = rs[turns[t].owner].session
      /\ records'[turns[t].owner].unrecorded = rs[turns[t].owner].unrecorded
      /\ records'[turns[t].owner].active = 0
  BY <1>2, <1>6 DEF RecordType
<1>8. \A g \in Loads : g # turns[t].owner => records'[g] = rs[g]
  BY <1>1
<1> QED
  BY <1>4, <1>5, <1>7, <1>8

\* A step that ends a turn.
LEMMA EndRowed ==
    ASSUME Typed, Owning, Rowed, up, up', UNCHANGED <<child, record, loads, used>>,
           NEW t \in Turns, NEW outcome \in Ends, NEW ts \in [Turns -> TurnType],
           NEW rs \in [Loads -> RecordType], NEW qs, NEW l,
           Owned(t), End(t, outcome, ts, rs, qs, l),
           Advances(ts), Hears(ts), Holds(rs),
           \A u \in Turns : turns[u].chain = "waiting" /\ ts[u].chain # "waiting" => u = t,
           \A i \in 1..Len(queue') : ts[queue'[i]].chain \notin {"none", "waiting"},
           queue' \in Seq(Turns),
           ~child /\ Dormant => queue' = <<>> /\ ~background', child => ~background',
           work' \in 0..used, work' # 0 => ts[work'].chain # "waiting",
           message' \in {0, work'}, turns[t].owner = record \/ UNCHANGED <<work, message>>
    PROVE  Rowed'
<1>1. turns[t].owner \in Loads /\ records[turns[t].owner].active = t /\ t # 0
  BY Kinds DEF Owned, Turns
<1>2. /\ \A u \in Turns : u # t => turns'[u] = ts[u]
      /\ turns'[t].owner = ts[t].owner /\ turns'[t].chain = ts[t].chain
      /\ turns'[t].stop = ts[t].stop
      /\ turns'[t].heard = FALSE /\ turns'[t].folded = 0 /\ turns'[t].said = outcome
      /\ \A g \in Loads : /\ g # turns[t].owner => records'[g] = rs[g]
                          /\ records'[g].session = rs[g].session
                          /\ records'[g].unrecorded = rs[g].unrecorded
      /\ records'[turns[t].owner].active = 0
  <2>1. Typed /\ turns[t].owner \in Loads /\ End(t, outcome, ts, rs, qs, l)
    BY <1>1
  <2> QED
    BY <2>1, EndFields, Zenon
<1> USE Kinds
<1> DEFINE o == turns[t].owner
           d == [due EXCEPT ![t] = IF @ = "none" THEN outcome ELSE @]
<1>0. Placed /\ Speaks /\ Anchors /\ Alone
  BY DEF Rowed
<1>3. \A u \in Turns : turns'[u].owner = ts[u].owner /\ turns'[u].chain = ts[u].chain
  BY <1>2
<1>4. Advances(turns')
  BY <1>3 DEF Advances
<1>6. \A g \in Loads : g # o => records'[g].active = records[g].active
  BY <1>2 DEF Holds, Alike
<1>5. LetsGo(records')
  <2>1. \A g \in Loads : records'[g].active \in {records[g].active, 0}
    BY <1>2, <1>6
  <2>2. \A g \in Loads : records'[g].unrecorded = records[g].unrecorded
    BY <1>2 DEF Holds, Alike
  <2>3. Answers(records')
    BY <1>2 DEF Holds, Answers
  <2> QED
    BY <2>1, <2>2, <2>3 DEF LetsGo, Fewer
<1>7. Placed'
  <2>1. ASSUME NEW i \in 1..Len(queue') PROVE turns'[queue'[i]].chain \notin {"none", "waiting"}
    <3>1. queue'[i] \in Turns
      OBVIOUS
    <3> QED
      BY <1>3, <3>1
  <2>2. work' # 0 => turns'[work'].chain # "waiting"
    <3>1. work' # 0 => work' \in Turns
      BY DEF Turns
    <3> QED
      BY <1>3, <3>1
  <2>3. work' <= used'
    OBVIOUS
  <2> QED
    BY <1>0, <1>4, <1>5, <2>1, <2>2, <2>3, KeepsPlaced
<1>8. Speaks'
  <2>1. ASSUME NEW g \in Loads PROVE Speaking(g)'
    <3>1. CASE g = o
      BY <1>2, <3>1 DEF Speaking
    <3>2. CASE g # o
      <4> DEFINE a == records[g].active
      <4> SUFFICES ASSUME a # 0
                   PROVE  /\ turns'[a].folded # a
                          /\ turns'[a].chain = "none" => g = record /\ turns'[a].heard
                          /\ g = record /\ turns'[a].heard => work' = a /\ message' = a
        BY <1>6, <3>2 DEF Speaking
      <4>1. a \in Turns /\ turns[a].owner = g
        BY Actives
      <4>2. a # t
        BY <3>2, <4>1
      <4>3. /\ turns'[a].heard = turns[a].heard /\ turns'[a].folded = turns[a].folded
            /\ turns'[a].chain = "none" => turns[a].chain = "none"
        BY <1>2, <4>1, <4>2 DEF Hears, Advances
      <4>4. Speaking(g)
        BY <1>0 DEF Speaks
      <4> QED
        BY <3>2, <4>3, <4>4 DEF Speaking
    <3> QED
      BY <3>1, <3>2
  <2> QED
    BY <2>1 DEF Speaks
<1>9. Anchors' /\ Alone'
  <2>1. /\ d \in Dues /\ d[t] # "none" /\ \A u \in Turns : due[u] # "none" => d[u] # "none"
    BY DEF Dues, Outcomes, Ends
  <2>2. Shuts(d)
    <3>1. Write(asker, d, l)
      BY DEF End
    <3> QED
      BY <2>1, <3>1, WriteShuts
  <2>3. \A g \in Loads : records[g].active # 0 /\ records'[g].active # records[g].active
           => d[records[g].active] # "none"
    BY <1>1, <1>6, <2>1
  <2>4. \A u \in Turns : /\ turns[u].chain = "waiting" /\ turns'[u].chain # "waiting"
                         /\ turns[u].owner # record
           => records'[turns[u].owner].active # u
    BY <1>1, <1>2, <1>3
  <2>5. UNCHANGED abandoned
    BY DEF End
  <2> HIDE DEF d
  <2> QED
    BY <1>0, <1>4, <1>5, <1>7, <2>1, <2>2, <2>3, <2>4, <2>5, KeepsAnchors
<1> QED
  BY <1>7, <1>8, <1>9 DEF Rowed, Down

-----------------------------------------------------------------------------
(* A record that is made, a turn that starts, a record that is let go of.  *)

\* What a send finds: the thread's record, or a new one behind all others.
Attaches(rs) ==
    IF record # 0 THEN Holds(rs)
    ELSE \A g \in Loads : IF g = loads + 1 THEN rs[g].active = 0 /\ rs[g].unrecorded = 0
                          ELSE rs[g] = records[g]

LEMMA WithAttachedAttaches ==
    ASSUME Typed, CanAttach
    PROVE  Attaches(WithAttached)
<1> USE Kinds
<1>1. CASE record # 0
  BY <1>1 DEF WithAttached, Attaches, Holds, Alike, Answers
<1>2. CASE record = 0
  <2>1. loads + 1 \in Loads
    BY <1>2 DEF CanAttach, Loads
  <2>2. WithAttached = [records EXCEPT ![loads + 1] = [NoRecord EXCEPT !.session = "loading"]]
    BY <1>2 DEF WithAttached
  <2>3. WithAttached[loads + 1].active = 0 /\ WithAttached[loads + 1].unrecorded = 0
    BY <2>1, <2>2 DEF NoRecord
  <2>4. \A g \in Loads : g # loads + 1 => WithAttached[g] = records[g]
    BY <2>2
  <2> QED
    BY <1>2, <2>3, <2>4 DEF Attaches
<1> QED
  BY <1>1, <1>2

\* The records of the turns there are are left alone.
LEMMA AttachesFacts ==
    ASSUME Typed, Owning, Placed, NEW rs, Attaches(rs), CanAttach
    PROVE  /\ Attached \in Loads /\ loads <= Attached
           /\ \A g \in Loads : rs[g].active \in {records[g].active, 0}
           /\ \A g \in Loads : rs[g].unrecorded \in {records[g].unrecorded, 0}
           /\ \A t \in Turns : turns[t].owner # 0 =>
                 /\ rs[turns[t].owner].active = records[turns[t].owner].active
                 /\ records[turns[t].owner].session \in {"ready", "failed"} =>
                       rs[turns[t].owner].session = records[turns[t].owner].session
           /\ record = 0 => rs[Attached].active = 0 /\ \A t \in Turns : turns[t].owner # Attached
           /\ record # 0 => Attached = record /\ rs[record].active = records[record].active
<1> USE Kinds
<1>1. Attached \in Loads /\ loads <= Attached
  BY DEF CanAttach, Attached, Loads, Placed, Attaching
<1>2. CASE record # 0
  BY <1>1, <1>2 DEF Attaches, Holds, Alike, Answers, Attached
<1>3. CASE record = 0
  <2>1. Attached = loads + 1
    BY <1>3 DEF Attached
  <2>2. \A t \in Turns : turns[t].owner <= loads /\ turns[t].owner # loads + 1
    BY DEF Placed, Attaching
  <2>3. \A g \in Loads : IF g = loads + 1 THEN rs[g].active = 0 /\ rs[g].unrecorded = 0
                         ELSE rs[g] = records[g]
    BY <1>3 DEF Attaches
  <2>4. \A t \in Turns : turns[t].owner # 0 => rs[turns[t].owner] = records[turns[t].owner]
    BY <2>2, <2>3
  <2> QED
    BY <1>1, <1>3, <2>1, <2>2, <2>3, <2>4
<1> QED
  BY <1>2, <1>3

\* A record is made, if there was none, and nothing starts.
LEMMA AttachRowed ==
    ASSUME Typed, Owning, Rowed, up, up', NEW rs, Attaches(rs), CanAttach, Attach, records' = rs,
           UNCHANGED <<child, row, due, turns, queue, work, message, background, used, abandoned>>
    PROVE  Rowed'
<1> USE Kinds
<1>0. Placed /\ Speaks /\ Anchors /\ Alone
  BY DEF Rowed
<1>1. /\ Attached \in Loads /\ loads <= Attached
      /\ \A g \in Loads : rs[g].active \in {records[g].active, 0}
      /\ \A g \in Loads : rs[g].unrecorded \in {records[g].unrecorded, 0}
      /\ \A t \in Turns : turns[t].owner # 0 =>
            /\ rs[turns[t].owner].active = records[turns[t].owner].active
            /\ records[turns[t].owner].session \in {"ready", "failed"} =>
                  rs[turns[t].owner].session = records[turns[t].owner].session
      /\ record = 0 => rs[Attached].active = 0 /\ \A t \in Turns : turns[t].owner # Attached
      /\ record # 0 => Attached = record /\ rs[record].active = records[record].active
  BY <1>0, AttachesFacts
<1>2. record' = Attached /\ loads' = Attached /\ Attached \in Nat /\ Attached # 0
  BY <1>1 DEF Attach, Loads
<1>3. Placed'
  <2>1. Numbered'
    BY <1>0, <1>1 DEF Placed, Numbered
  <2>2. Queued'
    BY <1>0 DEF Placed, Queued
  <2>3. Attaching'
    <3>1. ASSUME NEW t \in Turns
          PROVE  /\ turns[t].owner <= loads'
                 /\ turns[t].chain # "none" => turns[t].owner # 0
                 /\ turns[t].chain \notin {"none", "waiting"} =>
                       rs[turns[t].owner].session \in {"ready", "failed"}
      <4>1. /\ turns[t].owner <= loads /\ turns[t].owner <= loads'
            /\ turns[t].chain # "none" => turns[t].owner # 0
            /\ turns[t].chain \notin {"none", "waiting"} =>
                  records[turns[t].owner].session \in {"ready", "failed"}
        BY <1>0, <1>1, <1>2 DEF Placed, Attaching
      <4> QED
        BY <1>1, <4>1
    <3> QED
      BY <1>2, <3>1 DEF Attaching
  <2>4. ChildRests'
    BY <1>0, <1>1 DEF Placed, ChildRests
  <2> QED
    BY <2>1, <2>2, <2>3, <2>4 DEF Placed
<1>4. Speaks'
  <2>1. ASSUME NEW g \in Loads PROVE Speaking(g)'
    <3>1. CASE rs[g].active = 0
      BY <3>1 DEF Speaking
    <3>2. CASE rs[g].active = records[g].active /\ records[g].active # 0
      <4>1. Speaking(g) /\ turns[records[g].active].owner = g /\ records[g].active \in Turns
        BY <1>0, <3>2, Actives DEF Speaks
      <4>2. g = record' <=> g = record
        BY <1>1, <1>2, <4>1 DEF Loads
      <4> QED
        BY <3>2, <4>1, <4>2 DEF Speaking
    <3> QED
      BY <1>1, <3>1, <3>2
  <2> QED
    BY <1>0, <2>1 DEF Speaks
<1>5. Anchors' /\ Alone'
  <2>1. Alone' /\ OpenTurns' = OpenTurns
    BY <1>0 DEF Alone, OpenTurns
  <2>2. Dormant => Dormant'
    BY <1>1 DEF Dormant
  <2>3. ASSUME NEW t \in OpenTurns, Anchored(t)
        PROVE  Anchored(t)'
    <3>1. t \in Turns
      BY DEF OpenTurns
    <3>2. CASE due[t] # "none"
      BY <3>2 DEF Anchored
    <3>3. CASE due[t] = "none"
      <4>1. /\ turns[t].owner # 0 /\ records[turns[t].owner].active = t
            /\ \/ turns[t].owner = record
               \/ turns[t].chain = "waiting" /\ records[turns[t].owner].session = "failed"
        BY <2>3, <3>3 DEF Anchored
      <4>2. rs[turns[t].owner].active = t
        BY <1>1, <3>1, <4>1
      <4>3. CASE turns[t].owner = record
        BY <1>1, <1>2, <4>1, <4>2, <4>3 DEF Anchored
      <4>4. CASE turns[t].chain = "waiting" /\ records[turns[t].owner].session = "failed"
        BY <1>1, <3>1, <4>1, <4>2, <4>4 DEF Anchored
      <4> QED
        BY <4>1, <4>3, <4>4
    <3> QED
      BY <3>2, <3>3
  <2> QED
    BY <1>0, <2>1, <2>2, <2>3 DEF Anchors
<1> QED
  BY <1>3, <1>4, <1>5 DEF Rowed, Down

\* A send starts a turn: the rows held no other.
LEMMA StartRowed ==
    ASSUME Typed, Owning, Rowed, up', NEW rs \in [Loads -> RecordType], Attaches(rs),
           CanAttach, Attach, OpenTurns = {}, used < MaxTurns, used' = used + 1,
           records' = [rs EXCEPT ![Attached].active = used + 1],
           turns' = [turns EXCEPT ![used + 1] = [NoTurn EXCEPT !.owner = Attached, !.chain = "waiting"]],
           row' = [row EXCEPT ![used + 1] = "open"],
           UNCHANGED <<child, queue, work, message, background>>
    PROVE  Rowed'
<1> USE Kinds
<1>t. PICK t \in Turns : t = used + 1
  BY DEF Turns
<1>0. Placed /\ Speaks
  BY DEF Rowed
<1>1. /\ Attached \in Loads /\ loads <= Attached
      /\ \A g \in Loads : rs[g].active \in {records[g].active, 0}
      /\ \A g \in Loads : rs[g].unrecorded \in {records[g].unrecorded, 0}
      /\ \A u \in Turns : turns[u].owner # 0 =>
            /\ rs[turns[u].owner].active = records[turns[u].owner].active
            /\ records[turns[u].owner].session \in {"ready", "failed"} =>
                  rs[turns[u].owner].session = records[turns[u].owner].session
      /\ record = 0 => rs[Attached].active = 0 /\ \A u \in Turns : turns[u].owner # Attached
      /\ record # 0 => Attached = record /\ rs[record].active = records[record].active
  BY <1>0, AttachesFacts
<1>2. record' = Attached /\ loads' = Attached /\ Attached \in Nat /\ Attached # 0
  BY <1>1 DEF Attach, Loads
<1>3. t \in Turns /\ t # 0 /\ t > used
  BY <1>t DEF Turns
<1>4. /\ turns'[t].owner = Attached /\ turns'[t].chain = "waiting"
      /\ turns'[t].folded = 0 /\ turns'[t].heard = FALSE
      /\ \A u \in Turns : u # t => turns'[u] = turns[u]
  BY <1>3, <1>t DEF NoTurn
<1>5. /\ records'[Attached].active = t
      /\ \A g \in Loads : g # Attached => records'[g] = rs[g]
      /\ \A g \in Loads : /\ records'[g].unrecorded = rs[g].unrecorded
                          /\ records'[g].session = rs[g].session
  <2>1. rs[Attached] \in RecordType /\ records'[Attached] = [rs[Attached] EXCEPT !.active = t]
    BY <1>1, <1>t
  <2>2. /\ records'[Attached].active = t
        /\ records'[Attached].unrecorded = rs[Attached].unrecorded
        /\ records'[Attached].session = rs[Attached].session
    BY <2>1 DEF RecordType
  <2>3. \A g \in Loads : g # Attached => records'[g] = rs[g]
    OBVIOUS
  <2> QED
    BY <2>2, <2>3
<1>6. turns[t].chain = "none"
  BY <1>0, <1>3 DEF Placed, Numbered
<1>7. \A g \in Loads : records'[g].unrecorded # 0 =>
         /\ records'[g].unrecorded = records[g].unrecorded
         /\ records[g].unrecorded \in Turns /\ records[g].unrecorded # t
  <2>1. \A g \in Loads : records[g].unrecorded # 0 => records[g].unrecorded <= used
    BY DEF Owning, OwesStart
  <2> QED
    BY <1>1, <1>3, <1>5, <1>t, <2>1
<1>8. Placed'
  <2>1. Numbered'
    <3>1. work' <= used'
      BY <1>0 DEF Placed, Numbered
    <3>2. \A u \in Turns : u > used' => turns'[u].chain = "none"
      BY <1>0, <1>4, <1>t DEF Placed, Numbered, Turns
    <3>3. ASSUME NEW g \in Loads, records'[g].unrecorded # 0
          PROVE  turns'[records'[g].unrecorded].chain = "none"
      <4>1. /\ records'[g].unrecorded = records[g].unrecorded
            /\ records[g].unrecorded \in Turns /\ records[g].unrecorded # t
        BY <1>7, <3>3
      <4>2. turns[records[g].unrecorded].chain = "none"
        BY <1>0, <3>3, <4>1 DEF Placed, Numbered
      <4> QED
        BY <1>4, <4>1, <4>2
    <3> QED
      BY <3>1, <3>2, <3>3 DEF Numbered
  <2>2. Queued'
    <3>1. ASSUME NEW i \in 1..Len(queue) PROVE turns'[queue[i]].chain \notin {"none", "waiting"}
      <4>1. queue[i] \in Turns /\ turns[queue[i]].chain \notin {"none", "waiting"}
        BY <1>0 DEF Placed, Queued
      <4> QED
        BY <1>4, <1>6, <4>1
    <3>2. work # 0 => turns'[work].chain # "waiting"
      <4>1. work # t
        BY <1>0, <1>3, <1>t DEF Placed, Numbered
      <4> QED
        BY <1>0, <1>4, <4>1 DEF Placed, Queued
    <3> QED
      BY <3>1, <3>2 DEF Queued
  <2>3. Attaching'
    <3>1. ASSUME NEW u \in Turns
          PROVE  /\ turns'[u].owner <= loads'
                 /\ turns'[u].chain # "none" => turns'[u].owner # 0
                 /\ turns'[u].chain \notin {"none", "waiting"} =>
                       records'[turns'[u].owner].session \in {"ready", "failed"}
      <4>1. CASE u = t
        BY <1>1, <1>2, <1>4, <4>1
      <4>2. CASE u # t
        <5>1. /\ turns[u].owner <= loads
              /\ turns[u].chain # "none" => turns[u].owner # 0
              /\ turns[u].chain \notin {"none", "waiting"} =>
                    records[turns[u].owner].session \in {"ready", "failed"}
          BY <1>0 DEF Placed, Attaching
        <5>2. turns'[u] = turns[u] /\ turns[u].owner <= loads'
          BY <1>1, <1>2, <1>4, <4>2, <5>1
        <5>3. turns[u].owner # 0 => turns[u].owner \in Loads
          OBVIOUS
        <5>4. turns[u].owner # 0 => records'[turns[u].owner].session = rs[turns[u].owner].session
          BY <1>5, <5>3
        <5> QED
          BY <1>1, <5>1, <5>2, <5>4
      <4> QED
        BY <4>1, <4>2
    <3> QED
      BY <1>2, <3>1 DEF Attaching
  <2>4. ChildRests'
    <3>1. ASSUME child, NEW g \in Loads
          PROVE  /\ records'[g].unrecorded = 0
                 /\ records'[g].active # 0 => turns'[records'[g].active].chain # "none"
      <4>1. CASE g = Attached
        BY <1>0, <1>1, <1>4, <1>5, <3>1, <4>1 DEF Placed, ChildRests
      <4>2. CASE g # Attached
        <5>1. records'[g].active \in {records[g].active, 0}
          BY <1>1, <1>5, <4>2
        <5> QED
          <6>1. records'[g].unrecorded = 0
            BY <1>0, <1>1, <1>5, <3>1 DEF Placed, ChildRests
          <6>2. ASSUME records'[g].active # 0 PROVE turns'[records'[g].active].chain # "none"
            <7>1. records'[g].active = records[g].active /\ records[g].active \in Turns
              BY <5>1, <6>2
            <7>2. turns[records[g].active].chain # "none"
              BY <1>0, <3>1, <6>2, <7>1 DEF Placed, ChildRests
            <7> QED
              BY <1>4, <7>1, <7>2
          <6> QED
            BY <6>1, <6>2
      <4> QED
        BY <4>1, <4>2
    <3> QED
      BY <1>0, <3>1 DEF Placed, ChildRests
  <2> QED
    BY <2>1, <2>2, <2>3, <2>4 DEF Placed
<1>9. Speaks'
  <2>1. ASSUME NEW g \in Loads PROVE Speaking(g)'
    <3>1. CASE g = Attached
      BY <1>3, <1>4, <1>5, <3>1 DEF Speaking
    <3>2. CASE g # Attached /\ records'[g].active # 0
      <4>1. records'[g].active = records[g].active
        BY <1>1, <1>5, <3>2
      <4>2. records[g].active \in Turns /\ records[g].active # t
        BY <1>3, <1>t, <3>2, <4>1, Actives
      <4>3. Speaking(g)
        BY <1>0 DEF Speaks
      <4>4. g # record
        BY <1>1, <1>2, <3>2 DEF Loads
      <4> QED
        BY <1>2, <1>4, <3>2, <4>1, <4>2, <4>3, <4>4 DEF Speaking
    <3>3. CASE g # Attached /\ records'[g].active = 0
      BY <3>3 DEF Speaking
    <3> QED
      BY <3>1, <3>2, <3>3
  <2> QED
    BY <1>0, <2>1 DEF Speaks
<1>10. Anchors' /\ Alone'
  <2>1. OpenTurns' \subseteq {t}
    BY <1>t DEF OpenTurns
  <2>2. Anchored(t)'
    BY <1>2, <1>4, <1>5 DEF Anchored
  <2> QED
    BY <2>1, <2>2 DEF Anchors, Alone, OpenTurns
<1> QED
  BY <1>8, <1>9, <1>10 DEF Rowed, Down

LEMMA SendAsRowed ==
    ASSUME Typed, Owning, Rowed, up, up', NEW c, NEW rs \in [Loads -> RecordType], Attaches(rs),
           SendAs(c, rs), UNCHANGED <<child, queue, work, message, background, abandoned>>
    PROVE  Rowed'
<1>1. CanAttach /\ Attach
  BY DEF SendAs
<1>2. CASE records' = rs /\ UNCHANGED <<rows, due, late, turns, used>>
  <2>1. UNCHANGED <<row, due, turns, used>>
    BY <1>2 DEF rows
  <2> QED
    BY <1>1, <1>2, <2>1, AttachRowed
<1>3. CASE ~(records' = rs /\ UNCHANGED <<rows, due, late, turns, used>>)
  <2>1. /\ ~Conflicts(rs) /\ used < MaxTurns /\ used' = used + 1
        /\ records' = [rs EXCEPT ![Attached].active = used + 1]
        /\ turns' = [turns EXCEPT ![used + 1] = [NoTurn EXCEPT !.owner = Attached, !.chain = "waiting"]]
        /\ row' = [row EXCEPT ![used + 1] = "open"]
    BY <1>3 DEF SendAs
  <2>2. OpenTurns = {}
    BY <2>1 DEF Conflicts
  <2> QED
    BY <1>1, <2>1, <2>2, StartRowed
<1> QED
  BY <1>2, <1>3

LEMMA AbandonFields ==
    ASSUME Typed, Abandon
    PROVE  /\ LetsGo(records') /\ Advances(turns') /\ Hears(turns')
           /\ \A g \in Loads : /\ g # record => records'[g] = records[g]
                               /\ g = record => records'[g].active = 0
<1> USE Kinds
<1>1. ASSUME NEW t \in Turns
      PROVE  /\ turns'[t].owner = turns[t].owner /\ turns'[t].chain = turns[t].chain
             /\ turns'[t].heard = turns[t].heard /\ turns'[t].folded = turns[t].folded
  <2>1. turns'[t] \in {turns[t], [turns[t] EXCEPT !.stop = TRUE]}
    BY DEF Abandon
  <2> QED
    BY <2>1 DEF TurnType
<1>2. ASSUME NEW g \in Loads
      PROVE  /\ records'[g].active \in {records[g].active, 0}
             /\ records'[g].unrecorded = records[g].unrecorded
             /\ records'[g].session = records[g].session
             /\ g # record => records'[g] = records[g]
             /\ g = record => records'[g].active = 0
  <2>1. records'[g] = IF g = record THEN [records[g] EXCEPT !.active = 0] ELSE records[g]
    BY DEF Abandon
  <2> QED
    BY <2>1 DEF RecordType
<1> QED
  BY <1>1, <1>2 DEF LetsGo, Fewer, Answers, Advances, Hears

\* A record is let go of with its turn: what it was to start, nobody does.
LEMMA AbandonRowed ==
    ASSUME Typed, Owning, Rowed, Abandon, UNCHANGED <<child, loads, used, queue, work, message>>
    PROVE  Placed' /\ Speaks' /\ (Dormant => Dormant')
<1> USE Kinds
<1>0. Placed /\ Speaks /\ record' = 0 /\ ~background'
  BY DEF Rowed, Abandon
<1>1. /\ LetsGo(records') /\ Advances(turns') /\ Hears(turns')
      /\ \A g \in Loads : /\ g # record => records'[g] = records[g]
                          /\ g = record => records'[g].active = 0
  BY AbandonFields
<1>2. Placed'
  <2>1. \A i \in 1..Len(queue') : turns'[queue'[i]].chain \notin {"none", "waiting"}
    BY <1>0, <1>1, SameQueue DEF Placed
  <2>2. work' # 0 => turns'[work'].chain # "waiting"
    BY <1>0, <1>1, SameWork DEF Placed
  <2>3. work' <= used'
    BY <1>0 DEF Placed, Numbered
  <2> QED
    BY <1>0, <1>1, <2>1, <2>2, <2>3, KeepsPlaced
<1>3. Speaks'
  <2>1. ASSUME NEW g \in Loads PROVE Speaking(g)'
    <3>1. CASE records'[g].active = 0
      BY <3>1 DEF Speaking
    <3>2. CASE records'[g].active # 0
      <4> DEFINE a == records[g].active
      <4>1. g # record /\ records'[g].active = a /\ a # 0
        BY <1>1, <3>2
      <4>2. a \in Turns /\ Speaking(g)
        BY <1>0, <4>1, Actives DEF Speaks
      <4>3. turns'[a].folded = turns[a].folded /\ (turns'[a].chain = "none" => turns[a].chain = "none")
        BY <1>1, <4>2 DEF Hears, Advances
      <4>4. g # record'
        BY <1>0 DEF Loads
      <4> QED
        BY <4>1, <4>2, <4>3, <4>4 DEF Speaking
    <3> QED
      BY <3>1, <3>2
  <2> QED
    BY <1>0, <2>1 DEF Speaks
<1>4. Dormant => Dormant'
  <2>1. Dormant /\ ~child => ~background' /\ queue' = <<>>
    BY <1>0 DEF Dormant
  <2> QED
    BY <1>1, <1>2, <2>1, KeepsDormant
<1> QED
  BY <1>2, <1>3, <1>4

\* The agent's own start is taken in, dropped, or a turn of its own.
LEMMA OpensRowed ==
    ASSUME Typed, Owning, Rowed, Idle, up', NEW b \in Turns, record # 0, Opens(b),
           turns[b].chain = "none", b <= used', used' \in {used, used + 1},
           work \in {0, b}, work' = b, message' = b, ~Dormant, ~child,
           \A g \in Loads : records[g].active # b /\ (g # record => records[g].unrecorded # b),
           UNCHANGED <<child, record, loads, queue, background, abandoned>>
    PROVE  Rowed'
<1> USE Kinds
<1> DEFINE r == records[record]
           cleared == [records EXCEPT ![record].unrecorded = 0]
<1>0. Placed /\ Speaks /\ Anchors /\ Alone /\ up /\ record \in Loads /\ b # 0
  BY DEF Rowed, Idle, Turns
<1>1. /\ \A g \in Loads : /\ cleared[g].active = records[g].active
                          /\ cleared[g].session = records[g].session
                          /\ cleared[g].unrecorded = IF g = record THEN 0 ELSE records[g].unrecorded
      /\ cleared \in [Loads -> RecordType]
  <2>1. r \in RecordType /\ 0 \in 0..MaxTurns
    BY <1>0
  <2>2. cleared[record] = [r EXCEPT !.unrecorded = 0] /\ cleared \in [Loads -> RecordType]
    BY <1>0, <2>1, RecordsWith
  <2>3. /\ cleared[record].active = r.active /\ cleared[record].session = r.session
        /\ cleared[record].unrecorded = 0
    BY <2>1, <2>2 DEF RecordType
  <2>4. \A g \in Loads : g # record => cleared[g] = records[g]
    BY <1>0
  <2> QED
    BY <2>2, <2>3, <2>4
<1> HIDE DEF cleared
<1>2. LetsGo(cleared)
  BY <1>1 DEF LetsGo, Fewer, Answers
<1>3. CASE records' = cleared /\ Advances(turns') /\ UNCHANGED <<row, due>>
           /\ \A t \in Turns : /\ turns'[t].heard = turns[t].heard
                               /\ turns'[t].folded # turns[t].folded =>
                                     t = r.active /\ turns'[t].folded = b
           /\ (r.active # 0 => ~turns[r.active].heard)
  <2>1. Placed'
    <3>1. \A i \in 1..Len(queue') : turns'[queue'[i]].chain \notin {"none", "waiting"}
      BY <1>0, <1>3, SameQueue DEF Placed
    <3>2. work' # 0 => turns'[work'].chain # "waiting"
      BY <1>3 DEF Advances
    <3> QED
      BY <1>0, <1>2, <1>3, <3>1, <3>2, KeepsPlaced
  <2>2. Speaks'
    <3>1. ASSUME NEW g \in Loads PROVE Speaking(g)'
      <4> DEFINE a == records[g].active
      <4> SUFFICES ASSUME a # 0
                   PROVE  /\ turns'[a].folded # a
                          /\ turns'[a].chain = "none" => g = record /\ turns'[a].heard
                          /\ g = record /\ turns'[a].heard => work' = a /\ message' = a
        BY <1>1, <1>3 DEF Speaking
      <4>1. a \in Turns /\ a # b /\ Speaking(g)
        BY <1>0, Actives DEF Speaks
      <4>2. turns'[a].folded # a
        BY <1>3, <4>1 DEF Speaking
      <4>3. turns'[a].chain = "none" => g = record /\ turns'[a].heard
        BY <1>3, <4>1 DEF Speaking, Advances
      <4>4. ~(g = record /\ turns'[a].heard)
        BY <1>3, <4>1
      <4> QED
        BY <4>2, <4>3, <4>4
    <3> QED
      BY <3>1 DEF Speaks
  <2>3. Anchors' /\ Alone'
    <3>1. Shuts(due)
      BY <1>3 DEF Shuts
    <3>2. \A g \in Loads : records[g].active # 0 /\ records'[g].active # records[g].active
             => due[records[g].active] # "none"
      BY <1>1, <1>3
    <3>3. \A t \in Turns : /\ turns[t].chain = "waiting" /\ turns'[t].chain # "waiting"
                           /\ turns[t].owner # record
             => records'[turns[t].owner].active # t
      <4> SUFFICES ASSUME NEW t \in Turns, turns[t].chain = "waiting", turns'[t].chain # "waiting"
                   PROVE  FALSE
        OBVIOUS
      <4>1. turns[t].owner \in Loads /\ records[turns[t].owner].session \in {"ready", "failed"}
        BY <1>0, <1>3 DEF Advances, Placed, Attaching
      <4> QED
        BY <4>1 DEF Idle, Continues
    <3> QED
      BY <1>0, <1>2, <1>3, <2>1, <3>1, <3>2, <3>3, KeepsAnchors
  <2> QED
    BY <2>1, <2>2, <2>3 DEF Rowed, Down
<1>4. CASE r.active # 0
  <2>1. /\ turns' = IF turns[r.active].heard THEN turns ELSE [turns EXCEPT ![r.active].folded = b]
        /\ records' = cleared /\ UNCHANGED <<row, due>>
    BY <1>4 DEF Opens, cleared
  <2>2. r.active \in Turns /\ r.active # b /\ Speaking(record)
    BY <1>0, <1>4 DEF Speaks
  <2>3. ~turns[r.active].heard
    BY <1>4, <2>2 DEF Speaking
  <2>4. turns' = [turns EXCEPT ![r.active].folded = b]
    BY <2>1, <2>3
  <2>5. turns'[r.active] = [turns[r.active] EXCEPT !.folded = b]
        /\ \A t \in Turns : t # r.active => turns'[t] = turns[t]
    BY <2>2, <2>4
  <2>6. /\ turns'[r.active].owner = turns[r.active].owner
        /\ turns'[r.active].chain = turns[r.active].chain
        /\ turns'[r.active].heard = turns[r.active].heard /\ turns'[r.active].folded = b
    BY <2>2, <2>5 DEF TurnType
  <2> QED
    BY <1>3, <2>1, <2>3, <2>5, <2>6 DEF Advances
<1>5. CASE r.active = 0 /\ Busy(r)
  <2>1. records' = cleared /\ UNCHANGED <<row, due, turns>>
    BY <1>5 DEF Opens, cleared
  <2> QED
    BY <1>3, <1>5, <2>1 DEF Advances
<1>6. CASE r.active = 0 /\ ~Busy(r)
  <2>1. /\ row' = [RowsAfter(due) EXCEPT ![b] = "open"] /\ due' = NothingDue
        /\ records' = [cleared EXCEPT ![record].active = b]
        /\ turns' = [turns EXCEPT ![b] = [NoTurn EXCEPT !.owner = record, !.heard = TRUE]]
    BY <1>6 DEF Opens, cleared
  <2>2. /\ records'[record].active = b
        /\ \A g \in Loads : g # record => records'[g] = cleared[g]
        /\ \A g \in Loads : /\ records'[g].session = records[g].session
                            /\ records'[g].unrecorded = cleared[g].unrecorded
    <3>1. cleared[record] \in RecordType /\ records'[record] = [cleared[record] EXCEPT !.active = b]
      BY <1>0, <1>1, <2>1
    <3>2. /\ records'[record].active = b /\ records'[record].session = cleared[record].session
          /\ records'[record].unrecorded = cleared[record].unrecorded
      BY <3>1 DEF RecordType
    <3>3. \A g \in Loads : g # record => records'[g] = cleared[g]
      BY <1>1, <2>1
    <3> QED
      BY <1>1, <3>2, <3>3
  <2>3. /\ turns'[b].owner = record /\ turns'[b].chain = "none" /\ turns'[b].heard = TRUE
        /\ turns'[b].folded = 0
        /\ \A t \in Turns : t # b => turns'[t] = turns[t]
    BY <2>1 DEF NoTurn
  <2>4. Placed'
    <3>1. Numbered'
      <4>1. \A t \in Turns : t > used' => turns'[t].chain = "none"
        BY <1>0, <2>3 DEF Placed, Numbered, Turns
      <4>2. ASSUME NEW g \in Loads, records'[g].unrecorded # 0
            PROVE  turns'[records'[g].unrecorded].chain = "none"
        <5>1. records'[g].unrecorded = records[g].unrecorded /\ records[g].unrecorded \in Turns
          BY <1>1, <2>2, <4>2
        <5> QED
          BY <1>0, <2>3, <4>2, <5>1 DEF Placed, Numbered
      <4> QED
        BY <4>1, <4>2 DEF Numbered
    <3>2. Queued'
      <4>1. ASSUME NEW i \in 1..Len(queue) PROVE turns'[queue[i]].chain \notin {"none", "waiting"}
        <5>1. queue[i] \in Turns /\ turns[queue[i]].chain \notin {"none", "waiting"}
          BY <1>0 DEF Placed, Queued
        <5> QED
          BY <2>3, <5>1
      <4> QED
        BY <2>3, <4>1 DEF Queued
    <3>3. Attaching'
      <4>1. ASSUME NEW t \in Turns
            PROVE  /\ turns'[t].owner <= loads'
                   /\ turns'[t].chain # "none" => turns'[t].owner # 0
                   /\ turns'[t].chain \notin {"none", "waiting"} =>
                         records'[turns'[t].owner].session \in {"ready", "failed"}
        <5>1. CASE t = b
          BY <1>0, <2>3, <5>1 DEF Placed, Attaching
        <5>2. CASE t # b
          BY <1>0, <2>2, <2>3, <5>2 DEF Placed, Attaching
        <5> QED
          BY <5>1, <5>2
      <4> QED
        BY <1>0, <4>1 DEF Placed, Attaching
    <3> QED
      BY <3>1, <3>2, <3>3 DEF Placed, ChildRests
  <2>5. Speaks'
    <3>1. ASSUME NEW g \in Loads PROVE Speaking(g)'
      <4>1. CASE g = record
        BY <1>0, <2>2, <2>3, <4>1 DEF Speaking
      <4>2. CASE g # record /\ records'[g].active # 0
        <5>1. records'[g].active = records[g].active /\ records[g].active # b
          BY <1>1, <2>2, <4>2
        <5>2. records[g].active \in Turns /\ Speaking(g)
          BY <1>0, <4>2, <5>1, Actives DEF Speaks
        <5> QED
          BY <2>3, <4>2, <5>1, <5>2 DEF Speaking
      <4>3. CASE g # record /\ records'[g].active = 0
        BY <4>3 DEF Speaking
      <4> QED
        BY <4>1, <4>2, <4>3
    <3> QED
      BY <3>1 DEF Speaks
  <2>6. OpenTurns' \ abandoned' \subseteq {b}
    <3> SUFFICES ASSUME NEW t \in OpenTurns' \ abandoned', t # b
                 PROVE  FALSE
      OBVIOUS
    <3>1. t \in Turns /\ row'[t] = "open" /\ t \notin abandoned
      BY DEF OpenTurns
    <3>2. row[t] = "open" /\ due[t] = "none"
      <4>1. row'[t] = IF due[t] # "none" /\ row[t] = "open" THEN due[t] ELSE row[t]
        BY <2>1, <3>1 DEF RowsAfter
      <4>2. due[t] # "open"
        BY <3>1 DEF Dues, Outcomes, Ends
      <4> QED
        BY <3>1, <4>1, <4>2
    <3>3. Anchored(t)
      BY <1>0, <3>1, <3>2 DEF Anchors, OpenTurns
    <3>4. turns[t].owner # record
      BY <1>6, <3>1, <3>2, <3>3 DEF Anchored, Turns
    <3>5. turns[t].chain = "waiting" /\ records[turns[t].owner].session = "failed"
      BY <3>2, <3>3, <3>4 DEF Anchored
    <3> QED
      BY <3>1, <3>5 DEF Idle, Continues
  <2>7. Anchored(b)'
    BY <1>0, <2>2, <2>3 DEF Anchored
  <2>8. Anchors' /\ Alone'
    BY <2>6, <2>7 DEF Anchors, Alone
  <2> QED
    BY <2>4, <2>5, <2>8 DEF Rowed, Down
<1> QED
  BY <1>4, <1>5, <1>6

-----------------------------------------------------------------------------
(* The steps.                                                              *)

SameRuns(ts) ==
    \A t \in Turns : /\ ts[t].owner = turns[t].owner /\ ts[t].chain = turns[t].chain
                     /\ ts[t].heard = turns[t].heard /\ ts[t].folded = turns[t].folded

LEMMA RunsWith ==
    ASSUME Typed, NEW t \in Turns
    PROVE  SameRuns(turns) /\ \A v : SameRuns([turns EXCEPT ![t].stop = v])
<1>1. turns[t] \in TurnType /\ turns \in [Turns -> TurnType]
  BY Kinds
<1>2. \A v : SameRuns([turns EXCEPT ![t].stop = v])
  BY <1>1 DEF SameRuns, TurnType
<1>3. SameRuns(turns)
  BY DEF SameRuns
<1> QED
  BY <1>2, <1>3

\* A prompt moves on: its turn is as it was otherwise.
LEMMA ChainWith ==
    ASSUME Typed, NEW t \in Turns, NEW c, c \notin {"none", "waiting"}, turns[t].chain # "none",
           records[turns[t].owner].session \in {"ready", "failed"}
    PROVE  /\ Advances([turns EXCEPT ![t].chain = c]) /\ Hears([turns EXCEPT ![t].chain = c])
           /\ [turns EXCEPT ![t].chain = c][t].chain = c
           /\ \A u \in Turns : u # t => [turns EXCEPT ![t].chain = c][u] = turns[u]
<1> DEFINE ts == [turns EXCEPT ![t].chain = c]
<1>1. turns[t] \in TurnType /\ turns \in [Turns -> TurnType]
  BY Kinds
<1>2. ts[t] = [turns[t] EXCEPT !.chain = c]
  BY <1>1
<1>3. /\ ts[t].owner = turns[t].owner /\ ts[t].chain = c /\ ts[t].heard = turns[t].heard
      /\ ts[t].folded = turns[t].folded
  BY <1>1, <1>2 DEF TurnType
<1>4. \A u \in Turns : u # t => ts[u] = turns[u]
  BY <1>1
<1> HIDE DEF ts
<1>5. Advances(ts) /\ Hears(ts)
  BY <1>3, <1>4 DEF Advances, Hears
<1> QED
  BY <1>3, <1>4, <1>5 DEF ts

LEMMA RecordsHold ==
    ASSUME Typed, NEW g \in Loads
    PROVE  /\ Holds(records)
           /\ \A v : Holds([records EXCEPT ![g].cancel = v])
           /\ \A v : Holds([records EXCEPT ![g].building = v])
           /\ \A v, w : Holds([records EXCEPT ![g].cancelling = v, ![g].cancel = w])
<1>1. records[g] \in RecordType /\ records \in [Loads -> RecordType]
  BY Kinds
<1>2. \A v : Holds([records EXCEPT ![g].cancel = v])
  BY <1>1 DEF Holds, Alike, Answers, RecordType
<1>3. \A v : Holds([records EXCEPT ![g].building = v])
  BY <1>1 DEF Holds, Alike, Answers, RecordType
<1>4. \A v, w : Holds([records EXCEPT ![g].cancelling = v, ![g].cancel = w])
  BY <1>1 DEF Holds, Alike, Answers, RecordType
<1>5. Holds(records)
  BY DEF Holds, Alike, Answers
<1> QED
  BY <1>2, <1>3, <1>4, <1>5

\* A step that moves no prompt.
LEMMA SteadyRowed ==
    ASSUME Typed, Owning, Rowed, up, up', SameRuns(turns'), Holds(records'), Shuts(due),
           UNCHANGED <<child, record, loads, used, abandoned, queue, work, message>>,
           UNCHANGED background
    PROVE  Rowed'
<1>1. Advances(turns') /\ Hears(turns')
  BY DEF SameRuns, Advances, Hears
<1>2. \A i \in 1..Len(queue') : turns'[queue'[i]].chain \notin {"none", "waiting"}
  BY <1>1, SameQueue DEF Rowed, Placed
<1>3. ~child /\ Dormant => queue' = <<>>
  BY DEF Dormant
<1>4. message' \in {0, work'}
  BY DEF Rowed, Speaks
<1>5. \A t \in Turns : /\ turns[t].chain = "waiting" /\ turns'[t].chain # "waiting"
                       /\ turns[t].owner # record
        => records[turns[t].owner].active # t
  BY DEF SameRuns
<1>6. work' # work \/ message' # message => Active = 0 \/ ~turns[Active].heard
  OBVIOUS
<1>7. background' \in {background, FALSE} /\ work' \in {work, 0} /\ message' \in {message, 0}
  OBVIOUS
<1>8. UNCHANGED <<child, record, loads, used, abandoned>>
  OBVIOUS
<1> QED
  BY <1>1, <1>2, <1>3, <1>4, <1>5, <1>6, <1>7, <1>8, KeepsRowed

LEMMA ClientsRowed ==
    ASSUME Typed, Owning, Rowed, Clients
    PROVE  Rowed'
<1> USE TurnLifecycleAssumption
<1>0. /\ Memory /\ Counted /\ records \in [Loads -> RecordType] /\ record \in 0..MaxLoads
      /\ \A g \in 0..MaxLoads : g # 0 => g \in Loads
  BY Kinds DEF Typed
<1>a. Active # 0 => record \in Loads
  BY Actives
<1>1. CASE Load
  <2>1. /\ up /\ CanAttach /\ Attach /\ records' = WithAttached
        /\ UNCHANGED <<rows, batch, up, turns, agent, history, used>>
    BY <1>1 DEF Load, Idle
  <2>2. UNCHANGED child
    BY <1>1, Zenon DEF Load
  <2>3. UNCHANGED background
    BY <2>1, Zenon DEF agent
  <2>4. UNCHANGED <<child, row, due, turns, queue, work, message, background, used, abandoned>>
    BY <2>1, <2>2, <2>3 DEF rows, batch, agent, history
  <2>5. Attaches(WithAttached)
    BY <2>1, WithAttachedAttaches
  <2> QED
    BY <2>1, <2>4, <2>5, AttachRowed
<1>2. CASE Delete
  <2>1. up /\ RowsGo /\ Abandon /\ UNCHANGED <<up, queue, work, message, used, loads>>
    BY <1>2 DEF Delete, Idle, bounds
  <2>2. UNCHANGED child
    BY <1>2, Zenon DEF Delete
  <2>3. Placed' /\ Speaks'
    BY <2>1, <2>2, AbandonRowed
  <2>4. OpenTurns' = {}
    BY <2>1 DEF RowsGo, OpenTurns
  <2> QED
    BY <2>1, <2>3, <2>4 DEF Rowed, Anchors, Alone, Down
<1>3. ASSUME NEW c \in Commands, Send(c)
      PROVE  Rowed'
  <2>1. up /\ UNCHANGED <<up, agent, abandoned>>
    BY <1>3 DEF Send, Idle
  <2>2. UNCHANGED child /\ UNCHANGED background
    BY <1>3, Zenon DEF Send, agent
  <2>3. CASE UNCHANGED <<rows, batch, record, records, turns, used, loads>>
    <3>1. SameRuns(turns') /\ Holds(records')
      BY <2>3 DEF SameRuns, Holds, Alike, Answers
    <3>2. Shuts(due)
      BY <2>3, OtherShuts
    <3>3. UNCHANGED <<child, record, loads, used, abandoned, queue, work, message>>
      BY <2>1, <2>2, <2>3 DEF agent
    <3> QED
      BY <2>1, <2>2, <3>1, <3>2, <3>3, SteadyRowed
  <2>4. CASE SendAs(c, WithAttached)
    <3>1. UNCHANGED <<child, queue, work, message, background, abandoned>>
      BY <2>1, <2>2 DEF agent
    <3>2. CanAttach
      BY <2>4 DEF SendAs
    <3>3. WithAttached \in [Loads -> RecordType] /\ Attaches(WithAttached)
      BY <1>0, <3>2, WithAttachedType, WithAttachedAttaches
    <3> QED
      BY <2>1, <2>4, <3>1, <3>3, SendAsRowed
  <2> QED
    BY <1>3, <2>3, <2>4 DEF Send
<1>4. ASSUME NEW q \in Requests, Respond(q)
      PROVE  Rowed'
  <2>1. up /\ UNCHANGED <<up, record, turns, agent, history, bounds>>
    BY <1>4 DEF Respond, Idle
  <2>2. UNCHANGED child /\ UNCHANGED background
    BY <1>4, Zenon DEF Respond, agent
  <2>3. record \in Loads
    BY <1>a, <1>4 DEF Respond
  <2>4. records' = records \/ records' = [records EXCEPT ![record].building = {q}]
    BY <1>4 DEF Respond
  <2>5. Holds(records') /\ SameRuns(turns')
    <3>1. SameRuns(turns')
      BY <2>1 DEF SameRuns
    <3> QED
      BY <2>3, <2>4, <3>1, RecordsHold
  <2>6. Shuts(due)
    BY <1>4, OtherShuts DEF Respond
  <2>7. UNCHANGED <<child, record, loads, used, abandoned, queue, work, message>>
    BY <2>1, <2>2 DEF agent, history, bounds
  <2> QED
    BY <2>1, <2>2, <2>5, <2>6, <2>7, SteadyRowed
<1>5. ASSUME NEW q \in Requests, RetryBuild(q)
      PROVE  Rowed'
  <2>1. up /\ UNCHANGED <<rows, batch, up, record, turns, agent, history, bounds>>
    BY <1>5 DEF RetryBuild, Idle
  <2>2. UNCHANGED child /\ UNCHANGED background
    BY <1>5, Zenon DEF RetryBuild, agent
  <2>3. record \in Loads /\ records' = [records EXCEPT ![record].building = {q}]
    BY <1>0, <1>5 DEF RetryBuild
  <2>4. SameRuns(turns')
    BY <2>1 DEF SameRuns
  <2>5. Holds(records')
    BY <2>3, RecordsHold
  <2>6. Shuts(due)
    BY <2>1, OtherShuts
  <2>7. UNCHANGED <<child, record, loads, used, abandoned, queue, work, message>>
    BY <2>1, <2>2 DEF agent, history, bounds
  <2> QED
    BY <2>1, <2>2, <2>4, <2>5, <2>6, <2>7, SteadyRowed
<1>6. ASSUME NEW t \in Turns, Interrupt(t)
      PROVE  Rowed'
  <2>1. up /\ UNCHANGED <<rows, batch, up, record, agent, history, bounds>>
    BY <1>6 DEF Interrupt, Idle
  <2>2. UNCHANGED child /\ UNCHANGED background
    BY <1>6, Zenon DEF Interrupt, agent
  <2>3. record \in Loads /\ records' = [records EXCEPT ![record].cancelling = t, ![record].cancel = "asked"]
    BY <1>a, <1>6 DEF Interrupt, Turns
  <2>4. SameRuns(turns')
    BY <1>6, RunsWith DEF Interrupt
  <2>5. Holds(records')
    BY <2>3, RecordsHold
  <2>6. Shuts(due)
    BY <2>1, OtherShuts
  <2>7. UNCHANGED <<child, record, loads, used, abandoned, queue, work, message>>
    BY <2>1, <2>2 DEF agent, history, bounds
  <2> QED
    BY <2>1, <2>2, <2>4, <2>5, <2>6, <2>7, SteadyRowed
<1>7. ASSUME NEW t \in Turns, InterruptHeld(t)
      PROVE  Rowed'
  <2>1. up /\ UNCHANGED <<due, up, memory, agent, history, bounds>>
    BY <1>7 DEF InterruptHeld, Idle
  <2>2. UNCHANGED child /\ UNCHANGED background
    BY <1>7, Zenon DEF InterruptHeld, agent
  <2>3. SameRuns(turns')
    BY <2>1 DEF SameRuns, memory
  <2>4. Holds(records')
    BY <2>1 DEF Holds, Alike, Answers, memory
  <2>5. row' \in {row, [row EXCEPT ![t] = "interrupted"]}
    BY <1>7 DEF InterruptHeld
  <2>6. Shuts(due)
    BY <2>1, <2>5, Kinds DEF Shuts
  <2>7. UNCHANGED <<child, record, loads, used, abandoned, queue, work, message>>
    BY <2>1, <2>2 DEF agent, history, bounds, memory
  <2> QED
    BY <2>1, <2>2, <2>3, <2>4, <2>6, <2>7, SteadyRowed
<1> QED
  BY <1>1, <1>2, <1>3, <1>4, <1>5, <1>6, <1>7 DEF Clients

LEMMA QueueUnder ==
    ASSUME Typed, Queued, NEW ts, Advances(ts)
    PROVE  \A i \in 1..Len(queue) : ts[queue[i]].chain \notin {"none", "waiting"}
<1> SUFFICES ASSUME NEW i \in 1..Len(queue)
             PROVE  ts[queue[i]].chain \notin {"none", "waiting"}
  OBVIOUS
<1>1. queue[i] \in Turns
  BY Kinds
<1> QED
  BY <1>1 DEF Queued, Advances

LEMMA NothingMoves ==
    Advances(turns) /\ Hears(turns) /\ Holds(records)
  BY DEF Advances, Hears, Holds, Alike, Answers

\* An event of the agent names the turn that is heard.
LEMMA HeardIsNamed ==
    ASSUME Typed, Owning, Speaks, Active # 0, turns[Active].heard
    PROVE  /\ Target = Active /\ work = Active /\ message = Active
           /\ turns[Active].folded # message
<1>1. record \in Loads /\ records[record].active = Active
  BY Actives
<1>2. Speaking(record)
  BY <1>1 DEF Speaks
<1>3. work = Active /\ message = Active /\ turns[Active].folded # Active
  BY <1>1, <1>2 DEF Speaking
<1>4. Target = Active
  BY <1>3 DEF Target
<1> QED
  BY <1>3, <1>4

\* The prompt the agent is on was started with an answered session.
LEMMA WorkIsPrompted ==
    ASSUME Typed, Placed, work # 0, IsPrompt(work)
    PROVE  /\ work \in Turns /\ turns[work].chain \notin {"none", "waiting"}
           /\ records[turns[work].owner].session \in {"ready", "failed"}
<1>1. work \in Turns /\ turns[work].chain \notin {"none", "waiting"}
  BY Kinds DEF IsPrompt, Placed, Queued
<1> QED
  BY <1>1 DEF Placed, Attaching

LEMMA DispatchRowed ==
    ASSUME Typed, Owning, Rowed, Dispatch
    PROVE  Rowed'
<1> USE Kinds
<1> DEFINE t == Head(queue)
<1>0. Placed /\ Speaks /\ Anchors /\ Alone /\ up
  BY DEF Rowed, Dispatch, Idle
<1>1. /\ queue # <<>> /\ queue' = Tail(queue) /\ work' = t /\ message' = t
      /\ UNCHANGED <<up, record, bounds>>
  BY DEF Dispatch
<1>2. UNCHANGED child /\ (child => ~background')
  BY Zenon DEF Dispatch
<1>3. /\ t \in Turns /\ turns[t].chain \notin {"none", "waiting"} /\ queue' \in Seq(Turns)
      /\ \A i \in 1..Len(queue') : /\ queue'[i] \in Turns
                                   /\ turns[queue'[i]].chain \notin {"none", "waiting"}
  <2>1. Len(queue) \in Nat /\ Len(queue) # 0 /\ t = queue[1]
    BY <1>1
  <2>2. t \in Turns /\ turns[t].chain \notin {"none", "waiting"}
    BY <1>0, <2>1 DEF Placed, Queued
  <2>3. queue' \in Seq(Turns)
    BY <1>1
  <2>4. ASSUME NEW i \in 1..Len(queue')
        PROVE  queue'[i] \in Turns /\ turns[queue'[i]].chain \notin {"none", "waiting"}
    <3>1. queue'[i] = queue[i + 1] /\ i + 1 \in 1..Len(queue)
      BY <1>1, <2>1
    <3> QED
      BY <1>0, <3>1 DEF Placed, Queued
  <2> QED
    BY <2>2, <2>3, <2>4
<1>4. t <= used /\ t # 0 /\ t \in 0..used
  BY <1>0, <1>3 DEF Placed, Numbered, Turns
<1>5. ~(~child /\ Dormant)
  BY <1>1 DEF Dormant
<1>6. UNCHANGED <<record, loads, used>>
  BY <1>1 DEF bounds
<1> HIDE DEF t
<1>7. CASE /\ work # 0 /\ Target = work
           /\ End(work, Stopped(work, "completed"), turns, records, requests, late)
  <2>1. work \in Turns /\ Owned(work) /\ turns[work].owner = record
    BY <1>7, Actives DEF Owned, Loads
  <2>2. Stopped(work, "completed") \in Ends
    BY StoppedType DEF Ends
  <2>3. Advances(turns) /\ Hears(turns) /\ Holds(records)
    BY NothingMoves
  <2>4. work' \in 0..used /\ (work' # 0 => turns[work'].chain # "waiting") /\ message' \in {0, work'}
    BY <1>1, <1>3, <1>4
  <2>5. UNCHANGED <<child, record, loads, used>> /\ up'
    BY <1>0, <1>1, <1>2, <1>6
  <2> QED
    BY <1>0, <1>2, <1>3, <1>5, <1>7, <2>1, <2>2, <2>3, <2>4, <2>5, EndRowed
<1>8. CASE /\ ~(work # 0 /\ Target = work)
           /\ turns' = IF Active = t THEN [turns EXCEPT ![t].heard = TRUE] ELSE turns
           /\ UNCHANGED <<rows, batch, records, asker, requests, history>>
  <2>1. \A u \in Turns : /\ turns'[u].owner = turns[u].owner /\ turns'[u].chain = turns[u].chain
                         /\ turns'[u].folded = turns[u].folded
                         /\ turns'[u].heard = IF u = t /\ Active = t THEN TRUE ELSE turns[u].heard
    <3>1. CASE Active = t
      <4>1. turns'[t] = [turns[t] EXCEPT !.heard = TRUE]
            /\ \A u \in Turns : u # t => turns'[u] = turns[u]
        BY <1>3, <1>8, <3>1
      <4>2. /\ turns'[t].owner = turns[t].owner /\ turns'[t].chain = turns[t].chain
            /\ turns'[t].folded = turns[t].folded /\ turns'[t].heard = TRUE
        BY <1>3, <4>1 DEF TurnType
      <4> QED
        BY <3>1, <4>1, <4>2
    <3>2. CASE Active # t
      BY <1>8, <3>2
    <3> QED
      BY <3>1, <3>2
  <2>2. Advances(turns') /\ LetsGo(records') /\ records' = records
    BY <1>8, <2>1, NothingMoves, AlikeFewer DEF Advances, LetsGo, Holds
  <2>3. Placed'
    <3>1. \A i \in 1..Len(queue') : turns'[queue'[i]].chain \notin {"none", "waiting"}
      BY <1>3, <2>1
    <3>2. work' <= used' /\ (work' # 0 => turns'[work'].chain # "waiting")
      BY <1>1, <1>3, <1>4, <1>6, <2>1
    <3> QED
      BY <1>0, <1>2, <1>6, <2>2, <3>1, <3>2, KeepsPlaced
  <2>4. Speaks'
    <3>1. ASSUME NEW g \in Loads PROVE Speaking(g)'
      <4> DEFINE a == records[g].active
      <4> SUFFICES ASSUME a # 0
                   PROVE  /\ turns'[a].folded # a
                          /\ turns'[a].chain = "none" => g = record' /\ turns'[a].heard
                          /\ g = record' /\ turns'[a].heard => work' = a /\ message' = a
        BY <2>2 DEF Speaking
      <4>1. a \in Turns /\ Speaking(g)
        BY <1>0, Actives DEF Speaks
      <4>2. turns'[a].folded # a /\ (turns'[a].chain = "none" => g = record' /\ turns'[a].heard)
        BY <1>6, <2>1, <4>1 DEF Speaking
      <4>3. ASSUME g = record', turns'[a].heard PROVE work' = a /\ message' = a
        <5>1. a = Active
          BY <1>6, <4>3 DEF Active, Loads
        <5>2. CASE a = t
          BY <1>1, <5>2
        <5>3. CASE a # t
          <6>1. turns[Active].heard
            BY <2>1, <4>1, <4>3, <5>1, <5>3
          <6> QED
            BY <1>0, <1>8, <5>1, <6>1, HeardIsNamed
        <5> QED
          BY <5>2, <5>3
      <4> QED
        BY <4>2, <4>3
    <3> QED
      BY <1>1, <3>1 DEF Speaks
  <2>5. Anchors' /\ Alone'
    <3>1. Shuts(due) /\ UNCHANGED <<child, record, abandoned>>
      BY <1>2, <1>6, <1>8, OtherShuts DEF history
    <3>2. \A g \in Loads : records[g].active # 0 /\ records'[g].active # records[g].active
             => due[records[g].active] # "none"
      BY <2>2
    <3>3. \A u \in Turns : /\ turns[u].chain = "waiting" /\ turns'[u].chain # "waiting"
                           /\ turns[u].owner # record
             => records'[turns[u].owner].active # u
      BY <2>1
    <3> QED
      BY <1>0, <1>5, <2>2, <2>3, <3>1, <3>2, <3>3, KeepsAnchors
  <2> QED
    BY <1>0, <1>1, <2>3, <2>4, <2>5 DEF Rowed, Down
<1> QED
  BY <1>7, <1>8 DEF Dispatch, t

LEMMA RejectedRowed ==
    ASSUME Typed, Owning, Rowed, NEW t \in Turns, PromptRejected(t)
    PROVE  Rowed'
<1> USE Kinds
<1>0. Placed /\ Speaks /\ Anchors /\ Alone /\ up
  BY DEF Rowed, PromptRejected, Idle
<1>1. /\ turns' = [turns EXCEPT ![t].chain = "rejected"]
      /\ UNCHANGED <<rows, batch, up, record, records, work, message, history, bounds>>
  BY Zenon DEF PromptRejected
<1>2. UNCHANGED child /\ UNCHANGED background
  BY Zenon DEF PromptRejected
<1>3. PICK i \in 1..Len(queue) :
         /\ queue[i] = t
         /\ queue' = SubSeq(queue, 1, i - 1) \o SubSeq(queue, i + 1, Len(queue))
  <2>1. DOMAIN queue = 1..Len(queue)
    OBVIOUS
  <2> QED
    BY <2>1, Zenon DEF PromptRejected
<1>4. turns[t].chain \notin {"none", "waiting"} /\ records[turns[t].owner].session \in {"ready", "failed"}
  BY <1>0, <1>3 DEF Placed, Queued, Attaching
<1>5. /\ Advances(turns') /\ Hears(turns') /\ turns'[t].chain = "rejected"
      /\ \A u \in Turns : u # t => turns'[u] = turns[u]
  <2>1. "rejected" \notin {"none", "waiting"} /\ turns[t].chain # "none"
    BY <1>4
  <2> QED
    BY <1>1, <1>4, <2>1, ChainWith
<1>6. \A k \in 1..Len(queue') : turns'[queue'[k]].chain \notin {"none", "waiting"}
  <2> DEFINE S == {u \in Turns : turns[u].chain \notin {"none", "waiting"}}
             before == SubSeq(queue, 1, i - 1)
             behind == SubSeq(queue, i + 1, Len(queue))
  <2>1. Len(queue) \in Nat /\ \A k \in 1..Len(queue) : queue[k] \in S
    BY <1>0 DEF Placed, Queued
  <2>2. queue \in Seq(S)
    BY <2>1
  <2> HIDE DEF S
  <2>3. before \in Seq(S) /\ behind \in Seq(S)
    BY <2>2
  <2>4. queue' \in Seq(S)
    BY <1>3, <2>3
  <2>5. ASSUME NEW k \in 1..Len(queue') PROVE turns'[queue'[k]].chain \notin {"none", "waiting"}
    <3>1. queue'[k] \in S
      BY <2>4
    <3> QED
      BY <1>5, <3>1 DEF S
  <2> QED
    BY <2>5
<1>7. ~child /\ Dormant => queue' = <<>>
  BY <1>3 DEF Dormant
<1>8. Holds(records') /\ Shuts(due)
  BY <1>1, OtherShuts, NothingMoves
<1>9. \A u \in Turns : /\ turns[u].chain = "waiting" /\ turns'[u].chain # "waiting"
                       /\ turns[u].owner # record
        => records[turns[u].owner].active # u
  BY <1>4, <1>5
<1>10. /\ background' \in {background, FALSE} /\ work' \in {work, 0} /\ message' \in {message, 0}
       /\ message' \in {0, work'} /\ work' = work /\ message' = message
  BY <1>0, <1>1, <1>2 DEF Speaks
<1>11. UNCHANGED <<child, record, loads, used, abandoned>> /\ up'
  BY <1>0, <1>1, <1>2 DEF bounds, history
<1> QED
  BY <1>0, <1>5, <1>6, <1>7, <1>8, <1>9, <1>10, <1>11, KeepsRowed

LEMMA AskRowed ==
    ASSUME Typed, Owning, Rowed, NEW q \in Requests, ProviderAsks(q) \/ BrokerSettles(q)
    PROVE  Rowed'
<1>1. up /\ UNCHANGED <<up, record, records, turns, agent, history, bounds>>
  BY DEF ProviderAsks, BrokerSettles, Idle
<1>2. UNCHANGED child /\ UNCHANGED background
  BY Zenon DEF ProviderAsks, BrokerSettles, agent
<1>3. SameRuns(turns') /\ Holds(records')
  BY <1>1 DEF SameRuns, Holds, Alike, Answers
<1>4. Shuts(due)
  <2>1. CASE ProviderAsks(q)
    BY <2>1, OtherShuts DEF ProviderAsks
  <2>2. CASE BrokerSettles(q)
    BY <2>2, OtherShuts DEF BrokerSettles
  <2> QED
    BY <2>1, <2>2
<1>5. UNCHANGED <<child, record, loads, used, abandoned, queue, work, message>>
  BY <1>1, <1>2 DEF agent, history, bounds
<1> QED
  BY <1>1, <1>2, <1>3, <1>4, <1>5, SteadyRowed

\* The run the agent was on is over, well or not.
LEMMA WorkEnds ==
    ASSUME Typed, Owning, Placed, NEW c \in {"resolved", "rejected"}, NEW ts,
           ts = IF work # 0 /\ IsPrompt(work) THEN [turns EXCEPT ![work].chain = c] ELSE turns
    PROVE  /\ ts \in [Turns -> TurnType] /\ Advances(ts) /\ Hears(ts)
           /\ \A u \in Turns : ts[u].chain = turns[u].chain \/ turns[u].chain # "waiting"
           /\ \A i \in 1..Len(queue) : ts[queue[i]].chain \notin {"none", "waiting"}
<1>1. /\ ts \in [Turns -> TurnType] /\ Advances(ts) /\ Hears(ts)
      /\ \A u \in Turns : ts[u].chain = turns[u].chain \/ turns[u].chain # "waiting"
  <2>1. CASE work # 0 /\ IsPrompt(work)
    <3>1. /\ work \in Turns /\ turns[work].chain \notin {"none", "waiting"}
          /\ records[turns[work].owner].session \in {"ready", "failed"}
      BY <2>1, WorkIsPrompted
    <3>2. ts \in [Turns -> TurnType]
      BY <2>1, <3>1, Kinds, TurnsWith DEF Chains
    <3>3. c \notin {"none", "waiting"} /\ turns[work].chain # "none"
      BY <3>1
    <3>4. ts = [turns EXCEPT ![work].chain = c]
      BY <2>1
    <3>5. Advances(ts) /\ Hears(ts) /\ \A u \in Turns : u # work => ts[u] = turns[u]
      <4>1. /\ Advances([turns EXCEPT ![work].chain = c]) /\ Hears([turns EXCEPT ![work].chain = c])
            /\ \A u \in Turns : u # work => [turns EXCEPT ![work].chain = c][u] = turns[u]
        BY <3>1, <3>3, ChainWith, Zenon
      <4> QED
        BY <3>4, <4>1, Zenon
    <3> QED
      BY <3>1, <3>2, <3>5
  <2>2. CASE ~(work # 0 /\ IsPrompt(work))
    BY <2>2, Kinds, NothingMoves
  <2> QED
    BY <2>1, <2>2
<1>2. \A i \in 1..Len(queue) : ts[queue[i]].chain \notin {"none", "waiting"}
  BY <1>1, QueueUnder DEF Placed
<1> QED
  BY <1>1, <1>2

\* The agent is on nothing any more, and its turn has ended or goes on unheard.
LEMMA WorkOver ==
    ASSUME Typed, Owning, Rowed, up, up', UNCHANGED <<child, record, loads, used, queue>>,
           background' \in {background, FALSE}, work' = 0, message' = 0,
           NEW c \in {"resolved", "rejected"}, NEW ts,
           ts = IF work # 0 /\ IsPrompt(work) THEN [turns EXCEPT ![work].chain = c] ELSE turns,
           \/ /\ turns' = ts /\ UNCHANGED <<records, history>> /\ Shuts(due)
              /\ Active = 0 \/ ~turns[Active].heard
           \/ /\ Active # 0
              /\ \E qs, l : \E outcome \in Ends : End(Active, outcome, ts, records, qs, l)
    PROVE  Rowed'
<1> USE Kinds
<1>0. Placed /\ Speaks /\ Anchors /\ Alone
  BY DEF Rowed
<1>1. /\ ts \in [Turns -> TurnType] /\ Advances(ts) /\ Hears(ts)
      /\ \A u \in Turns : ts[u].chain = turns[u].chain \/ turns[u].chain # "waiting"
      /\ \A i \in 1..Len(queue) : ts[queue[i]].chain \notin {"none", "waiting"}
  BY <1>0, WorkEnds
<1>2. ~child /\ Dormant => queue' = <<>> /\ ~background'
  BY DEF Dormant
<1>3. CASE /\ turns' = ts /\ UNCHANGED <<records, history>> /\ Shuts(due)
           /\ Active = 0 \/ ~turns[Active].heard
  <2>1. Advances(turns') /\ Hears(turns') /\ Holds(records')
    BY <1>1, <1>3, NothingMoves
  <2>2. \A i \in 1..Len(queue') : turns'[queue'[i]].chain \notin {"none", "waiting"}
    BY <1>1, <1>3
  <2>3. \A u \in Turns : /\ turns[u].chain = "waiting" /\ turns'[u].chain # "waiting"
                         /\ turns[u].owner # record
          => records[turns[u].owner].active # u
    BY <1>1, <1>3
  <2>4. work' \in {work, 0} /\ message' \in {message, 0} /\ message' \in {0, work'}
    OBVIOUS
  <2>5. UNCHANGED <<child, record, loads, used, abandoned>>
    BY <1>3 DEF history
  <2>6. ~child /\ Dormant => queue' = <<>>
    BY <1>2
  <2>7. work' # work \/ message' # message => Active = 0 \/ ~turns[Active].heard
    BY <1>3
  <2> QED
    BY <1>3, <2>1, <2>2, <2>3, <2>4, <2>5, <2>6, <2>7, KeepsRowed
<1>4. CASE Active # 0 /\ \E qs, l : \E outcome \in Ends : End(Active, outcome, ts, records, qs, l)
  <2>0. PICK qs, l : \E outcome \in Ends : End(Active, outcome, ts, records, qs, l)
    BY <1>4
  <2>1. PICK outcome \in Ends : End(Active, outcome, ts, records, qs, l)
    BY <2>0
  <2>2. Active \in Turns /\ Owned(Active) /\ turns[Active].owner = record
    BY <1>4, Actives DEF Owned, Loads
  <2>3. \A u \in Turns : turns[u].chain = "waiting" /\ ts[u].chain # "waiting" => u = Active
    BY <1>1
  <2>4. \A i \in 1..Len(queue') : ts[queue'[i]].chain \notin {"none", "waiting"}
    BY <1>1
  <2>5. queue' \in Seq(Turns) /\ work' \in 0..used /\ message' \in {0, work'}
    OBVIOUS
  <2>6. child => ~background'
    BY <1>0 DEF Placed, ChildRests
  <2>7. Holds(records) /\ (work' # 0 => ts[work'].chain # "waiting")
    BY NothingMoves
  <2>8. UNCHANGED <<child, record, loads, used>>
    OBVIOUS
  <2> QED
    BY <1>1, <1>2, <2>1, <2>2, <2>3, <2>4, <2>5, <2>6, <2>7, <2>8, EndRowed
<1> QED
  BY <1>3, <1>4

LEMMA RunEndsRowed ==
    ASSUME Typed, Owning, Rowed, NEW outcome \in Ends, RunEnds(outcome)
    PROVE  Rowed'
<1>1. PICK c \in {"resolved", "rejected"} : c = IF outcome = "failed" THEN "rejected" ELSE "resolved"
  OBVIOUS
<1> DEFINE ts == IF work # 0 /\ IsPrompt(work) THEN [turns EXCEPT ![work].chain = c] ELSE turns
<1>2. /\ up /\ work # 0 /\ work' = 0 /\ message' = 0
      /\ UNCHANGED <<up, record, queue, bounds>>
  BY DEF RunEnds, Idle
<1>3. UNCHANGED child /\ UNCHANGED background
  BY Zenon DEF RunEnds
<1>4. ts = IF IsPrompt(work)
           THEN [turns EXCEPT ![work].chain = IF outcome = "failed" THEN "rejected" ELSE "resolved"]
           ELSE turns
  BY <1>1, <1>2
<1> HIDE DEF ts
<1>5. \/ /\ turns' = ts /\ UNCHANGED <<rows, batch, records, asker, requests, history>>
         /\ Target = 0 \/ (message # 0 /\ turns[Target].folded = message)
      \/ Target # 0 /\ End(Target, Stopped(Target, outcome), ts, records, requests, late)
  BY <1>4 DEF RunEnds
<1>6. Speaks
  BY DEF Rowed
<1>7. \/ /\ turns' = ts /\ UNCHANGED <<records, history>> /\ Shuts(due)
         /\ Active = 0 \/ ~turns[Active].heard
      \/ Active # 0 /\ \E qs, l : \E o \in Ends : End(Active, o, ts, records, qs, l)
  <2>1. CASE /\ turns' = ts /\ UNCHANGED <<rows, batch, records, asker, requests, history>>
             /\ Target = 0 \/ (message # 0 /\ turns[Target].folded = message)
    <3>1. Active = 0 \/ ~turns[Active].heard
      BY <1>6, <2>1, HeardIsNamed
    <3>2. Shuts(due)
      BY <2>1, OtherShuts
    <3> QED
      BY <2>1, <3>1, <3>2
  <2>2. CASE Target # 0 /\ End(Target, Stopped(Target, outcome), ts, records, requests, late)
    <3>1. Target = Active
      BY <2>2, Actives
    <3>2. Stopped(Target, outcome) \in Ends
      BY StoppedType
    <3> QED
      BY <2>2, <3>1, <3>2
  <2> QED
    BY <1>5, <2>1, <2>2
<1>8. background' \in {background, FALSE} /\ up' /\ UNCHANGED <<child, record, loads, used, queue>>
  BY <1>2, <1>3 DEF bounds
<1>9. ts = IF work # 0 /\ IsPrompt(work) THEN [turns EXCEPT ![work].chain = c] ELSE turns
  BY DEF ts
<1> QED
  BY <1>2, <1>7, <1>8, <1>9, WorkOver

LEMMA ExitRowed ==
    ASSUME Typed, Owning, Rowed, ProcessExits
    PROVE  Rowed'
<1> DEFINE ts == IF work # 0 /\ IsPrompt(work) THEN [turns EXCEPT ![work].chain = "rejected"] ELSE turns
<1>2. /\ up /\ work' = 0 /\ message' = 0
      /\ UNCHANGED <<up, record, queue, bounds>>
  BY DEF ProcessExits, Idle
<1>3. UNCHANGED child /\ ~background'
  BY Zenon DEF ProcessExits
<1>4. ts = IF work # 0 /\ IsPrompt(work) THEN [turns EXCEPT ![work].chain = "rejected"] ELSE turns
  OBVIOUS
<1> HIDE DEF ts
<1>5. \/ /\ Active # 0 /\ (message = 0 \/ (turns[Active].heard /\ message = Active))
         /\ End(Active, Stopped(Active, "failed"), ts, records, SettledIn(Parked), LateWith(Parked))
      \/ /\ ~(Active # 0 /\ (message = 0 \/ (turns[Active].heard /\ message = Active)))
         /\ SettleOnly(Parked) /\ turns' = ts /\ UNCHANGED <<records, history>>
  BY <1>4 DEF ProcessExits
<1>6. Speaks
  BY DEF Rowed
<1>7. \/ /\ turns' = ts /\ UNCHANGED <<records, history>> /\ Shuts(due)
         /\ Active = 0 \/ ~turns[Active].heard
      \/ Active # 0 /\ \E qs, l : \E o \in Ends : End(Active, o, ts, records, qs, l)
  <2>1. CASE /\ ~(Active # 0 /\ (message = 0 \/ (turns[Active].heard /\ message = Active)))
             /\ SettleOnly(Parked) /\ turns' = ts /\ UNCHANGED <<records, history>>
    <3>1. Active = 0 \/ ~turns[Active].heard
      BY <1>6, <2>1, HeardIsNamed
    <3>2. Shuts(due)
      BY <2>1, OtherShuts
    <3> QED
      BY <2>1, <3>1, <3>2
  <2>2. CASE Active # 0 /\ End(Active, Stopped(Active, "failed"), ts, records, SettledIn(Parked), LateWith(Parked))
    <3>1. Stopped(Active, "failed") \in Ends
      BY StoppedType DEF Ends
    <3> QED
      BY <2>2, <3>1
  <2> QED
    BY <1>5, <2>1, <2>2
<1>8. background' \in {background, FALSE} /\ up' /\ UNCHANGED <<child, record, loads, used, queue>>
  <2>1. background' = FALSE
    BY Zenon DEF ProcessExits
  <2> QED
    BY <1>2, <1>3, <2>1 DEF bounds
<1> QED
  BY <1>2, <1>4, <1>7, <1>8, WorkOver

LEMMA BackgroundRowed ==
    ASSUME Typed, Owning, Rowed, BackgroundStarts
    PROVE  Rowed'
<1> USE Kinds
<1>0. Placed /\ Speaks /\ Anchors /\ Alone /\ up
  BY DEF Rowed, BackgroundStarts, Idle
<1>1. /\ Idle /\ work = 0 /\ used < MaxTurns /\ used' = used + 1 /\ work' = used + 1
      /\ message' = used + 1 /\ UNCHANGED <<up, record, queue, loads>>
  BY DEF BackgroundStarts
<1>2. UNCHANGED child /\ UNCHANGED background /\ UNCHANGED abandoned /\ background
  BY Zenon DEF BackgroundStarts, history
<1>3. ~child /\ ~Dormant
  BY <1>0, <1>2 DEF Placed, ChildRests, Dormant
<1>t. PICK b \in Turns : b = used + 1
  BY <1>1 DEF Turns
<1>4. turns[b].chain = "none"
  BY <1>0, <1>t DEF Placed, Numbered
<1>5. \A g \in Loads : records[g].active # b /\ records[g].unrecorded # b
  <2>1. \A g \in Loads : records[g].active <= used /\ records[g].unrecorded <= used
    BY DEF Owning, OwnsActive, OwesStart
  <2> QED
    BY <1>t, <2>1
<1>6. CASE record # 0 /\ Opens(used + 1)
  <2>1. Opens(b) /\ b <= used' /\ work' = b /\ message' = b /\ work \in {0, b} /\ record # 0
    BY <1>1, <1>6, <1>t
  <2>2. UNCHANGED <<child, record, loads, queue, background, abandoned>> /\ up'
    BY <1>0, <1>1, <1>2
  <2>3. used' \in {used, used + 1}
    BY <1>1
  <2>4. \A g \in Loads : records[g].active # b /\ (g # record => records[g].unrecorded # b)
    BY <1>5
  <2> QED
    BY <1>1, <1>3, <1>4, <2>1, <2>2, <2>3, <2>4, OpensRowed
<1>7. CASE /\ UNCHANGED <<row, due, turns>>
           /\ \/ records' = records
              \/ record # 0 /\ records' = [records EXCEPT ![record].unrecorded = used + 1]
  <2>1. \A g \in Loads : /\ records'[g].active = records[g].active
                         /\ records'[g].session = records[g].session
                         /\ records'[g].unrecorded \in {records[g].unrecorded, b}
    <3>1. CASE records' = records
      BY <3>1
    <3>2. CASE record # 0 /\ records' = [records EXCEPT ![record].unrecorded = used + 1]
      <4>1. /\ record \in Loads /\ records'[record] = [records[record] EXCEPT !.unrecorded = b]
            /\ \A g \in Loads : g # record => records'[g] = records[g]
        BY <1>t, <3>2
      <4>2. /\ records'[record].active = records[record].active
            /\ records'[record].session = records[record].session
            /\ records'[record].unrecorded = b
        BY <4>1 DEF RecordType
      <4> QED
        BY <4>1, <4>2
    <3> QED
      BY <1>7, <3>1, <3>2
  <2>2. Placed'
    <3>1. Numbered'
      <4>1. work' <= used' /\ \A t \in Turns : t > used' => turns[t].chain = "none"
        BY <1>0, <1>1 DEF Placed, Numbered, Turns
      <4>2. \A g \in Loads : records'[g].unrecorded # 0 => turns[records'[g].unrecorded].chain = "none"
        BY <1>0, <1>4, <2>1 DEF Placed, Numbered
      <4> QED
        BY <1>7, <4>1, <4>2 DEF Numbered
    <3>2. Queued'
      BY <1>0, <1>1, <1>4, <1>7, <1>t DEF Placed, Queued
    <3>3. Attaching'
      <4>1. \A t \in Turns : turns[t].owner # 0 => turns[t].owner \in Loads
        OBVIOUS
      <4> QED
        BY <1>0, <1>1, <1>7, <2>1, <4>1 DEF Placed, Attaching
    <3> QED
      BY <1>2, <1>3, <3>1, <3>2, <3>3 DEF Placed, ChildRests
  <2>3. Speaks'
    <3>1. ASSUME NEW g \in Loads PROVE Speaking(g)'
      <4>1. Speaking(g)
        BY <1>0 DEF Speaks
      <4>2. records[g].active # 0 => records[g].active \in Turns /\ ~(g = record /\ turns[records[g].active].heard)
        BY <1>1, <4>1 DEF Speaking
      <4> QED
        BY <1>1, <1>7, <2>1, <4>1, <4>2 DEF Speaking
    <3> QED
      BY <1>1, <3>1 DEF Speaks
  <2>4. Anchors' /\ Alone'
    <3>1. OpenTurns' \ abandoned' = OpenTurns \ abandoned
      BY <1>2, <1>7 DEF OpenTurns
    <3>2. ASSUME NEW t \in OpenTurns \ abandoned PROVE Anchored(t)'
      <4>1. Anchored(t)
        BY <1>0, <1>3 DEF Anchors
      <4>2. t \in Turns /\ (turns[t].owner # 0 => turns[t].owner \in Loads)
        BY DEF OpenTurns
      <4> QED
        BY <1>1, <1>7, <2>1, <4>1, <4>2 DEF Anchored
    <3>3. Alone'
      BY <1>0, <3>1 DEF Alone
    <3>4. Anchors'
      BY <3>1, <3>2 DEF Anchors
    <3> QED
      BY <3>3, <3>4
  <2> QED
    BY <1>0, <1>1, <2>2, <2>3, <2>4 DEF Rowed, Down
<1> QED
  BY <1>6, <1>7 DEF BackgroundStarts, rows, batch

LEMMA BackgroundSpeaksRowed ==
    ASSUME Typed, Owning, Rowed, BackgroundSpeaks
    PROVE  Rowed'
<1> USE Kinds
<1>0. Placed /\ Speaks /\ up
  BY DEF Rowed, BackgroundSpeaks, Idle
<1>1. /\ Idle /\ work # 0 /\ record # 0 /\ message # 0 /\ records[record].unrecorded = message
      /\ Opens(message) /\ UNCHANGED <<up, record, agent, history, bounds>>
  BY DEF BackgroundSpeaks, Unrecorded
<1>2. UNCHANGED child /\ UNCHANGED background
  BY Zenon DEF BackgroundSpeaks, agent
<1>3. PICK b \in Turns : b = message
  BY <1>1
<1>4. ~child /\ ~Dormant /\ record \in Loads
  BY <1>0, <1>1 DEF Placed, ChildRests, Dormant
<1>5. /\ b <= used' /\ work' = b /\ message' = b /\ work \in {0, b} /\ Opens(b)
      /\ turns[b].chain = "none" /\ used' \in {used, used + 1}
      /\ \A g \in Loads : records[g].active # b /\ (g # record => records[g].unrecorded # b)
  <2>1. /\ b <= used
        /\ \A g \in Loads : records[g].active # b /\ (g # record => records[g].unrecorded # b)
    BY <1>1, <1>3, <1>4 DEF Owning, OwesStart
  <2>2. work = b /\ work' = work /\ message' = message /\ used' = used
    BY <1>0, <1>1, <1>3 DEF Speaks, agent, bounds
  <2>3. turns[b].chain = "none"
    BY <1>0, <1>1, <1>3, <1>4 DEF Placed, Numbered
  <2>4. Opens(b)
    BY <1>1, <1>3
  <2> QED
    BY <1>3, <2>1, <2>2, <2>3, <2>4
<1>6. UNCHANGED <<child, record, loads, queue, background, abandoned>> /\ up'
  BY <1>0, <1>1, <1>2 DEF agent, history, bounds
<1> QED
  BY <1>1, <1>4, <1>5, <1>6, OpensRowed

LEMMA AgentRowed ==
    ASSUME Typed, Owning, Rowed, Agent
    PROVE  Rowed'
  BY DispatchRowed, RejectedRowed, AskRowed, RunEndsRowed, ExitRowed, BackgroundRowed,
     BackgroundSpeaksRowed DEF Agent

-----------------------------------------------------------------------------
(* Promises, faults, writes.                                               *)

LEMMA SessionRowed ==
    ASSUME Typed, Owning, Rowed, NEW g \in Loads, SessionReady(g) \/ SessionFails(g)
    PROVE  Rowed'
<1> USE Kinds
<1>0. Placed /\ Speaks /\ Anchors /\ Alone /\ up
  BY DEF Rowed, SessionReady, SessionFails
<1>1. PICK s \in {"ready", "failed"} : records' = [records EXCEPT ![g].session = s]
  BY DEF SessionReady, SessionFails
<1>2. /\ records[g].session = "loading"
      /\ UNCHANGED <<up, turns, agent, history, bounds>>
  BY DEF SessionReady, SessionFails
<1>3. UNCHANGED child /\ UNCHANGED background
  BY Zenon DEF SessionReady, SessionFails, agent
<1>4. /\ Holds(records')
      /\ \A h \in Loads : /\ records'[h].active = records[h].active
                          /\ h # g => records'[h] = records[h]
  <2>1. records[g] \in RecordType
    OBVIOUS
  <2>2. records'[g] = [records[g] EXCEPT !.session = s]
        /\ \A h \in Loads : h # g => records'[h] = records[h]
    BY <1>1
  <2>3. /\ records'[g].session = s /\ records'[g].active = records[g].active
        /\ records'[g].unrecorded = records[g].unrecorded
    BY <2>1, <2>2 DEF RecordType
  <2> QED
    BY <1>2, <2>2, <2>3 DEF Holds, Alike, Answers
<1>5. SameRuns(turns')
  BY <1>2 DEF SameRuns
<1>6. CASE record' = record
  <2>1. Shuts(due)
    <3>1. CASE UNCHANGED <<rows, batch>>
      BY <3>1, OtherShuts
    <3>2. CASE RowsGo
      BY <3>2 DEF RowsGo, Shuts
    <3>3. CASE UNCHANGED <<rows, due, late>>
      BY <3>3 DEF Shuts, rows
    <3> QED
      BY <3>1, <3>2, <3>3 DEF SessionReady, SessionFails
  <2>2. UNCHANGED <<child, record, loads, used, abandoned, queue, work, message>> /\ up'
    BY <1>0, <1>2, <1>3, <1>6 DEF agent, history, bounds
  <2> QED
    BY <1>0, <1>3, <1>4, <1>5, <2>1, <2>2, SteadyRowed
<1>7. CASE record' # record
  <2>1. /\ record = g /\ record' = 0 /\ work = 0 /\ s = "failed"
        /\ \/ RowsGo
           \/ UNCHANGED <<rows, due, late>>
           \/ UNCHANGED <<rows, batch>>
    <3>1. SessionFails(g)
      BY <1>7 DEF SessionReady
    <3>2. /\ record = g /\ record' = 0 /\ work = 0
          /\ \/ RowsGo
             \/ UNCHANGED <<rows, due, late>>
             \/ UNCHANGED <<rows, batch>>
      BY <1>7, <3>1 DEF SessionFails
    <3>3. records' = [records EXCEPT ![g].session = "failed"]
      BY <3>1 DEF SessionFails
    <3>4. records'[g].session = "failed" /\ records'[g].session = s
      BY <1>1, <3>3 DEF RecordType
    <3> QED
      BY <3>2, <3>4
  <2>2. \A t \in Turns : records[g].active = t => turns[t].chain = "waiting"
    <3> SUFFICES ASSUME NEW t \in Turns, records[g].active = t
                 PROVE  turns[t].chain = "waiting"
      OBVIOUS
    <3>0. t # 0 /\ records[g].active # 0
      BY DEF Turns
    <3>1. t # 0 /\ turns[t].owner = g
      BY <3>0, Actives
    <3>2. turns[t].chain # "none"
      <4>1. Speaking(g)
        BY <1>0 DEF Speaks
      <4> QED
        BY <2>1, <3>1, <4>1 DEF Speaking
    <3>3. turns[t].chain \in {"none", "waiting"}
      BY <1>0, <1>2, <3>1 DEF Placed, Attaching
    <3> QED
      BY <3>2, <3>3
  <2>3. Advances(turns') /\ LetsGo(records') /\ Hears(turns')
    BY <1>4, <1>5, AlikeFewer DEF SameRuns, Advances, Hears, Holds, LetsGo
  <2>4. Placed'
    <3>1. \A i \in 1..Len(queue') : turns'[queue'[i]].chain \notin {"none", "waiting"}
      BY <1>0, <1>2, <2>3, SameQueue DEF Placed, agent
    <3>2. work' <= used' /\ (work' # 0 => turns'[work'].chain # "waiting")
      BY <1>2, <2>1 DEF agent, bounds
    <3>3. child => ~background'
      BY <1>0, <1>3 DEF Placed, ChildRests
    <3>4. record' \in {record, 0} /\ UNCHANGED <<child, loads>> /\ used' \in {used, used + 1}
      BY <1>2, <1>3, <2>1 DEF bounds
    <3> QED
      BY <1>0, <2>3, <3>1, <3>2, <3>3, <3>4, KeepsPlaced
  <2>5. Speaks'
    <3>1. ASSUME NEW h \in Loads PROVE Speaking(h)'
      <4> DEFINE a == records[h].active
      <4> SUFFICES ASSUME a # 0
                   PROVE  turns[a].folded # a /\ turns[a].chain # "none"
        BY <1>2, <1>4, <2>1 DEF Speaking, Loads
      <4>1. a \in Turns /\ Speaking(h)
        BY <1>0, Actives DEF Speaks
      <4>2. turns[a].chain # "none"
        <5>1. CASE h = g
          BY <2>2, <4>1, <5>1
        <5>2. CASE h # g
          BY <2>1, <4>1, <5>2 DEF Speaking
        <5> QED
          BY <5>1, <5>2
      <4> QED
        BY <4>1, <4>2 DEF Speaking
    <3> QED
      BY <1>0, <1>2, <3>1 DEF Speaks, agent
  <2>6. Anchors' /\ Alone'
    <3>1. Alone'
      BY <1>0, <1>2, <2>1 DEF Alone, OpenTurns, RowsGo, rows, history
    <3>2. CASE RowsGo
      <4>1. OpenTurns' = {}
        BY <3>2 DEF OpenTurns, RowsGo
      <4> QED
        BY <3>1, <4>1 DEF Anchors
    <3>3. CASE Dormant
      <4>1. ~child => ~background' /\ queue' = <<>>
        BY <1>2, <1>3, <3>3 DEF Dormant, agent
      <4>2. UNCHANGED child
        BY <1>3
      <4>3. Dormant'
        BY <2>3, <2>4, <3>3, <4>1, <4>2, KeepsDormant
      <4> QED
        BY <3>1, <4>3 DEF Anchors
    <3>4. CASE ~Dormant /\ ~RowsGo
      <4>1. row' = row /\ due' = due /\ abandoned' = abandoned /\ turns' = turns
        BY <1>2, <2>1, <3>4 DEF rows, batch, history
      <4>2. OpenTurns' \ abandoned' = OpenTurns \ abandoned
        BY <4>1 DEF OpenTurns
      <4>3. ASSUME NEW t \in OpenTurns \ abandoned PROVE Anchored(t)'
        <5>1. Anchored(t) /\ t \in Turns
          BY <1>0, <3>4 DEF Anchors, OpenTurns
        <5>2. CASE due[t] # "none"
          BY <4>1, <5>2 DEF Anchored
        <5>3. CASE due[t] = "none"
          <6> DEFINE o == turns[t].owner
          <6>1. o \in Loads /\ o # 0 /\ records[o].active = t
            BY <5>1, <5>3 DEF Anchored
          <6>2. turns[t].chain = "waiting" /\ records'[o].session = "failed"
            <7>1. CASE o = g
              <8>1. records'[g].session = "failed"
                BY <1>1, <2>1 DEF RecordType
              <8> QED
                BY <2>2, <5>1, <6>1, <7>1, <8>1
            <7>2. CASE o # g
              BY <1>4, <2>1, <5>1, <5>3, <6>1, <7>2 DEF Anchored
            <7> QED
              BY <7>1, <7>2
          <6>3. records'[o].active = t
            BY <1>4, <6>1
          <6> QED
            BY <4>1, <6>1, <6>2, <6>3 DEF Anchored
        <5> QED
          BY <5>2, <5>3
      <4>4. Anchors'
        BY <4>2, <4>3 DEF Anchors
      <4> QED
        BY <3>1, <4>4
    <3> QED
      BY <3>2, <3>3, <3>4
  <2> QED
    BY <1>0, <1>2, <2>4, <2>5, <2>6 DEF Rowed, Down
<1> QED
  BY <1>6, <1>7

\* A step that ends a turn and leaves the agent at its work.
LEMMA EndsRowed ==
    ASSUME Typed, Owning, Rowed, up, up', UNCHANGED <<child, record, loads, used, queue, work>>,
           UNCHANGED background,
           NEW t \in Turns, NEW outcome \in Ends, NEW ts \in [Turns -> TurnType],
           NEW rs \in [Loads -> RecordType], NEW qs, NEW l,
           Owned(t), End(t, outcome, ts, rs, qs, l),
           Advances(ts), Hears(ts), Holds(rs),
           \A u \in Turns : turns[u].chain = "waiting" /\ ts[u].chain # "waiting" => u = t,
           message' \in {message, 0}, turns[t].owner = record \/ UNCHANGED message
    PROVE  Rowed'
<1>0. Placed /\ Speaks
  BY DEF Rowed
<1>1. \A i \in 1..Len(queue') : ts[queue'[i]].chain \notin {"none", "waiting"}
  <2>1. \A i \in 1..Len(queue) : ts[queue[i]].chain \notin {"none", "waiting"}
    BY <1>0, QueueUnder DEF Placed
  <2> QED
    BY <2>1
<1>2. queue' \in Seq(Turns) /\ work' \in 0..used
  BY <1>0, Kinds DEF Placed, Numbered
<1>3. work' # 0 => ts[work'].chain # "waiting"
  <2> SUFFICES ASSUME work # 0 PROVE ts[work].chain # "waiting"
    OBVIOUS
  <2>1. work \in Turns
    BY Kinds
  <2> QED
    BY <1>0, <2>1 DEF Placed, Queued, Advances
<1>4. ~child /\ Dormant => queue' = <<>> /\ ~background'
  BY DEF Dormant
<1>5. child => ~background'
  BY <1>0 DEF Placed, ChildRests
<1>6. message' \in {0, work'}
  BY <1>0 DEF Speaks
<1>7. turns[t].owner = record \/ UNCHANGED <<work, message>>
  OBVIOUS
<1>8. UNCHANGED <<child, record, loads, used>>
  OBVIOUS
<1> QED
  BY <1>1, <1>2, <1>3, <1>4, <1>5, <1>6, <1>7, <1>8, EndRowed

LEMMA BuildRowed ==
    ASSUME Typed, Owning, Rowed, NEW g \in Loads, BuildContinues(g)
    PROVE  Rowed'
<1> DEFINE rs == [records EXCEPT ![g].building = {}]
<1>1. up /\ UNCHANGED <<up, agent, abandoned>>
  BY DEF BuildContinues
<1>2. UNCHANGED child /\ UNCHANGED background
  BY Zenon DEF BuildContinues, agent
<1>3. Holds(rs)
  BY RecordsHold
<1>4. rs \in [Loads -> RecordType]
  BY Kinds, {} \in SUBSET Requests, RecordsWith
<1>5. PICK q \in Requests :
         \/ record = g /\ SendAs(q, rs)
         \/ records' = rs /\ UNCHANGED <<rows, batch, record, turns, reply, used, loads>>
  <2>1. records[g] \in RecordType
    BY Kinds
  <2>2. records[g].building \subseteq Requests
    BY <2>1 DEF RecordType
  <2> QED
    BY <2>2 DEF BuildContinues
<1> HIDE DEF rs
<1>6. CASE record = g /\ SendAs(q, rs)
  <2>1. Attaches(rs)
    <3>1. record # 0
      BY <1>6 DEF Loads
    <3> QED
      BY <1>3, <3>1 DEF Attaches
  <2>2. UNCHANGED <<child, queue, work, message, background, abandoned>> /\ up'
    BY <1>1, <1>2 DEF agent
  <2> QED
    BY <1>1, <1>4, <1>6, <2>1, <2>2, SendAsRowed
<1>7. CASE records' = rs /\ UNCHANGED <<rows, batch, record, turns, reply, used, loads>>
  <2>1. SameRuns(turns') /\ Holds(records')
    BY <1>3, <1>7 DEF SameRuns
  <2>2. Shuts(due)
    BY <1>7, OtherShuts
  <2>3. UNCHANGED <<child, record, loads, used, abandoned, queue, work, message>> /\ up'
    BY <1>1, <1>2, <1>7 DEF agent
  <2> QED
    BY <1>1, <1>2, <2>1, <2>2, <2>3, SteadyRowed
<1> QED
  BY <1>5, <1>6, <1>7

LEMMA CancelReachesRowed ==
    ASSUME Typed, Owning, Rowed, NEW g \in Loads, CancelReaches(g)
    PROVE  Rowed'
<1>1. up /\ UNCHANGED <<up, record, turns, agent, history, bounds>>
  BY DEF CancelReaches, Idle
<1>2. UNCHANGED child /\ UNCHANGED background
  BY Zenon DEF CancelReaches, agent
<1>3. SameRuns(turns') /\ Holds(records')
  <2>1. records' = [records EXCEPT ![g].cancel = "sent"]
    BY DEF CancelReaches
  <2> QED
    BY <1>1, <2>1, RecordsHold DEF SameRuns
<1>4. Shuts(due)
  BY OtherShuts DEF CancelReaches
<1>5. UNCHANGED <<child, record, loads, used, abandoned, queue, work, message>> /\ up'
  BY <1>1, <1>2 DEF agent, history, bounds
<1> QED
  BY <1>1, <1>2, <1>3, <1>4, <1>5, SteadyRowed

LEMMA CancelErrsRowed ==
    ASSUME Typed, Owning, Rowed, NEW g \in Loads, CancelErrs(g)
    PROVE  Rowed'
<1> DEFINE rs == [records EXCEPT ![g].cancel = "failed"]
<1>0. Placed /\ Speaks /\ up
  BY DEF Rowed, CancelErrs, Idle
<1>1. message' = 0 /\ UNCHANGED <<up, record, queue, work, bounds>>
  BY DEF CancelErrs
<1>2. UNCHANGED child /\ UNCHANGED background
  BY Zenon DEF CancelErrs
<1>3. Holds(rs)
  BY RecordsHold
<1>4. rs \in [Loads -> RecordType]
  BY Kinds, RecordsWith
<1>5. \/ /\ Target = 0 \/ (message # 0 /\ turns[Target].folded = message)
         /\ records' = rs /\ UNCHANGED <<rows, batch, turns, asker, requests, history>>
      \/ Target # 0 /\ End(Target, Stopped(Target, "failed"), turns, rs, requests, late)
  BY DEF CancelErrs
<1> HIDE DEF rs
<1>6. Advances(turns) /\ Hears(turns)
  BY NothingMoves
<1>7. UNCHANGED <<child, record, loads, used, queue, work>> /\ up'
  BY <1>0, <1>1, <1>2 DEF bounds
<1>8. CASE /\ Target = 0 \/ (message # 0 /\ turns[Target].folded = message)
           /\ records' = rs /\ UNCHANGED <<rows, batch, turns, asker, requests, history>>
  <2>1. Active = 0 \/ ~turns[Active].heard
    BY <1>0, <1>8, HeardIsNamed
  <2>2. Shuts(due)
    BY <1>8, OtherShuts
  <2>3. Advances(turns') /\ Hears(turns') /\ Holds(records') /\ turns' = turns
    BY <1>3, <1>6, <1>8
  <2>4. \A i \in 1..Len(queue') : turns'[queue'[i]].chain \notin {"none", "waiting"}
    BY <1>0, <1>1, <2>3, SameQueue DEF Placed
  <2>5. ~child /\ Dormant => queue' = <<>>
    BY <1>1 DEF Dormant
  <2>6. UNCHANGED <<child, record, loads, used, abandoned>>
    BY <1>7, <1>8 DEF history
  <2>7. background' \in {background, FALSE} /\ work' \in {work, 0} /\ message' \in {message, 0}
    BY <1>1, <1>2
  <2>8. message' \in {0, work'}
    BY <1>1
  <2>9. \A t \in Turns : /\ turns[t].chain = "waiting" /\ turns'[t].chain # "waiting"
                         /\ turns[t].owner # record
          => \/ records[turns[t].owner].active # t
             \/ records[turns[t].owner].session = "ready"
    BY <2>3
  <2> QED
    BY <1>0, <1>7, <2>1, <2>2, <2>3, <2>4, <2>5, <2>6, <2>7, <2>8, <2>9, KeepsRowed
<1>9. CASE Target # 0 /\ End(Target, Stopped(Target, "failed"), turns, rs, requests, late)
  <2>1. Target = Active /\ Active # 0
    BY <1>9, Actives
  <2>2. PICK t \in Turns : t = Target
    BY <2>1, Actives
  <2>3. Owned(t) /\ turns[t].owner = record
    BY <2>1, <2>2, Actives, Kinds DEF Owned, Loads
  <2>4. PICK outcome \in Ends : outcome = Stopped(Target, "failed")
    <3>1. "failed" \in Ends
      BY DEF Ends
    <3> QED
      BY <3>1, StoppedType
  <2>5. End(t, outcome, turns, rs, requests, late)
    BY <1>9, <2>2, <2>4
  <2>6. \A u \in Turns : turns[u].chain = "waiting" /\ turns[u].chain # "waiting" => u = t
    OBVIOUS
  <2>7. message' \in {message, 0} /\ turns \in [Turns -> TurnType]
    BY <1>1, Kinds
  <2> QED
    BY <1>0, <1>2, <1>3, <1>4, <1>6, <1>7, <2>3, <2>5, <2>6, <2>7, EndsRowed
<1> QED
  BY <1>5, <1>8, <1>9

LEMMA CancelReturnsRowed ==
    ASSUME Typed, Owning, Rowed, NEW g \in Loads, CancelReturns(g)
    PROVE  Rowed'
<1> DEFINE t == records[g].cancelling
           rs == [records EXCEPT ![g].cancelling = 0, ![g].cancel = "none"]
<1>0. /\ up /\ t # 0 /\ UNCHANGED <<up, record, agent, bounds>>
  BY DEF CancelReturns, Idle
<1>1. UNCHANGED child /\ UNCHANGED background
  BY Zenon DEF CancelReturns, agent
<1>2. Holds(rs)
  BY RecordsHold
<1>3. t \in Turns
  <2>1. records[g] \in RecordType
    BY Kinds
  <2>2. t \in 0..MaxTurns
    BY <2>1 DEF RecordType
  <2> QED
    BY <1>0, <2>2, Kinds
<1>4. rs \in [Loads -> RecordType]
  <2>1. records[g] \in RecordType /\ records \in [Loads -> RecordType] /\ 0 \in 0..MaxTurns
    BY Kinds
  <2>2. [records[g] EXCEPT !.cancelling = 0, !.cancel = "none"] \in RecordType
    BY <2>1 DEF RecordType
  <2>3. rs = [records EXCEPT ![g] = [records[g] EXCEPT !.cancelling = 0, !.cancel = "none"]]
    BY <2>1
  <2> QED
    BY <2>1, <2>2, <2>3
<1>5. \/ /\ turns' = turns \/ turns' = [turns EXCEPT ![t].stop = FALSE]
         /\ records' = rs /\ UNCHANGED <<rows, batch, asker, requests, history>>
      \/ records[g].active = t /\ End(t, "interrupted", turns, rs, requests, late)
  BY DEF CancelReturns
<1> HIDE DEF t, rs
<1>6. UNCHANGED <<child, record, loads, used, queue, work, message>> /\ up'
  BY <1>0, <1>1 DEF bounds, agent
<1>7. CASE /\ turns' = turns \/ turns' = [turns EXCEPT ![t].stop = FALSE]
           /\ records' = rs /\ UNCHANGED <<rows, batch, asker, requests, history>>
  <2>1. SameRuns(turns') /\ Holds(records')
    BY <1>2, <1>3, <1>7, RunsWith
  <2>2. Shuts(due)
    BY <1>7, OtherShuts
  <2>3. UNCHANGED <<child, record, loads, used, abandoned, queue, work, message>>
    BY <1>6, <1>7 DEF history
  <2> QED
    BY <1>0, <1>1, <1>6, <2>1, <2>2, <2>3, SteadyRowed
<1>8. CASE records[g].active = t /\ End(t, "interrupted", turns, rs, requests, late)
  <2>1. Owned(t)
    <3>1. turns[t].owner = g
      BY <1>0, <1>8, Actives
    <3> QED
      BY <1>8, <3>1 DEF Owned, Loads
  <2>2. Advances(turns) /\ Hears(turns) /\ turns \in [Turns -> TurnType] /\ "interrupted" \in Ends
    BY NothingMoves, Kinds DEF Ends
  <2>3. \A u \in Turns : turns[u].chain = "waiting" /\ turns[u].chain # "waiting" => u = t
    OBVIOUS
  <2>4. message' \in {message, 0} /\ UNCHANGED message
        /\ UNCHANGED <<child, record, loads, used, queue, work>>
    BY <1>6
  <2> QED
    BY <1>0, <1>1, <1>2, <1>3, <1>4, <1>6, <1>8, <2>1, <2>2, <2>3, <2>4, EndsRowed
<1> QED
  BY <1>5, <1>7, <1>8

\* A prompt that moves on, its turn left to others or to the agent.
LEMMA MovesRowed ==
    ASSUME Typed, Owning, Rowed, up, up', UNCHANGED <<child, record, loads, used, abandoned, work, message>>,
           UNCHANGED background, UNCHANGED records, Shuts(due),
           NEW t \in Turns, NEW c, c \notin {"none", "waiting"}, turns[t].chain # "none",
           records[turns[t].owner].session \in {"ready", "failed"},
           turns' = [turns EXCEPT ![t].chain = c],
           \/ UNCHANGED queue
           \/ queue' = Append(queue, t) /\ turns[t].chain = "waiting" /\ turns[t].owner = record,
           turns[t].owner # record =>
              records[turns[t].owner].active # t \/ records[turns[t].owner].session = "ready"
    PROVE  Rowed'
<1>0. Placed /\ Speaks
  BY DEF Rowed
<1>1. /\ Advances(turns') /\ Hears(turns') /\ turns'[t].chain = c
      /\ \A u \in Turns : u # t => turns'[u] = turns[u]
  <2>1. /\ Advances([turns EXCEPT ![t].chain = c]) /\ Hears([turns EXCEPT ![t].chain = c])
        /\ [turns EXCEPT ![t].chain = c][t].chain = c
        /\ \A u \in Turns : u # t => [turns EXCEPT ![t].chain = c][u] = turns[u]
    BY ChainWith
  <2> QED
    BY <2>1
<1>2. \A i \in 1..Len(queue') : turns'[queue'[i]].chain \notin {"none", "waiting"}
  <2>1. CASE UNCHANGED queue
    BY <1>0, <1>1, <2>1, SameQueue DEF Placed
  <2>2. CASE queue' = Append(queue, t)
    <3>1. ASSUME NEW i \in 1..Len(queue')
          PROVE  turns'[queue'[i]].chain \notin {"none", "waiting"}
      <4>1. queue \in Seq(Turns)
        BY Kinds
      <4>2. (i \in 1..Len(queue) /\ queue'[i] = queue[i]) \/ queue'[i] = t
        BY <2>2, <4>1
      <4>3. \A j \in 1..Len(queue) : turns'[queue[j]].chain \notin {"none", "waiting"}
        BY <1>0, <1>1, QueueUnder DEF Placed
      <4> QED
        BY <1>1, <4>2, <4>3
    <3> QED
      BY <3>1
  <2> QED
    BY <2>1, <2>2
<1>3. ~child /\ Dormant => queue' = <<>>
  BY DEF Dormant
<1>4. Holds(records')
  BY NothingMoves
<1>5. message' \in {0, work'}
  BY <1>0 DEF Speaks
<1>6. \A u \in Turns : /\ turns[u].chain = "waiting" /\ turns'[u].chain # "waiting"
                       /\ turns[u].owner # record
        => \/ records[turns[u].owner].active # u
           \/ records[turns[u].owner].session = "ready"
  BY <1>1
<1>7. background' \in {background, FALSE} /\ work' \in {work, 0} /\ message' \in {message, 0}
  OBVIOUS
<1>8. work' # work \/ message' # message => Active = 0 \/ ~turns[Active].heard
  OBVIOUS
<1>9. UNCHANGED <<child, record, loads, used, abandoned>>
  OBVIOUS
<1> QED
  BY <1>1, <1>2, <1>3, <1>4, <1>5, <1>6, <1>7, <1>8, <1>9, KeepsRowed

\* The turn of a prompt that moves on ends with it.
LEMMA MovesAndEnds ==
    ASSUME Typed, Owning, Rowed, up, up', UNCHANGED <<child, record, loads, used, queue, work, message>>,
           UNCHANGED background, NEW t \in Turns, NEW outcome \in Ends,
           NEW c \in Chains, c \notin {"none", "waiting"}, turns[t].chain # "none",
           records[turns[t].owner].session \in {"ready", "failed"}, Owned(t),
           End(t, outcome, [turns EXCEPT ![t].chain = c], records, requests, late)
    PROVE  Rowed'
<1> DEFINE ts == [turns EXCEPT ![t].chain = c]
<1>1. /\ Advances(ts) /\ Hears(ts) /\ ts[t].chain = c
      /\ \A u \in Turns : u # t => ts[u] = turns[u]
  BY ChainWith
<1>2. ts \in [Turns -> TurnType]
  BY Kinds, TurnsWith
<1>3. End(t, outcome, ts, records, requests, late)
  OBVIOUS
<1> HIDE DEF ts
<1>4. \A u \in Turns : turns[u].chain = "waiting" /\ ts[u].chain # "waiting" => u = t
  BY <1>1
<1>5. Holds(records) /\ records \in [Loads -> RecordType]
  BY NothingMoves, Kinds
<1>6. UNCHANGED <<child, record, loads, used, queue, work>> /\ message' \in {message, 0}
  OBVIOUS
<1> QED
  BY <1>1, <1>2, <1>3, <1>4, <1>5, <1>6, EndsRowed

LEMMA StartPromptRowed ==
    ASSUME Typed, Owning, Rowed, NEW t \in Turns, StartPrompt(t)
    PROVE  Rowed'
<1> DEFINE o == turns[t].owner
<1>0. /\ up /\ turns[t].chain = "waiting" /\ records[o].session = "ready"
      /\ UNCHANGED <<up, record, work, message, bounds>>
  BY DEF StartPrompt, Continues
<1>1. UNCHANGED child /\ UNCHANGED background
  BY Zenon DEF StartPrompt
<1>2. \/ /\ Owned(t) /\ UNCHANGED queue
         /\ End(t, "failed", [turns EXCEPT ![t].chain = "skipped"], records, requests, late)
      \/ Skips(t) /\ UNCHANGED queue
      \/ /\ record = o /\ queue' = Append(queue, t)
         /\ turns' = [turns EXCEPT ![t].chain = "prompted"]
         /\ UNCHANGED <<rows, batch, records, asker, requests, history>>
  BY DEF StartPrompt
<1>3. UNCHANGED <<child, record, loads, used, work, message>> /\ up'
  BY <1>0, <1>1 DEF bounds
<1>7. up /\ turns[t].chain # "none" /\ records[o].session = "ready"
      /\ records[o].session \in {"ready", "failed"}
  BY <1>0
<1>4. CASE /\ Owned(t) /\ UNCHANGED queue
           /\ End(t, "failed", [turns EXCEPT ![t].chain = "skipped"], records, requests, late)
  <2>1. "failed" \in Ends /\ "skipped" \in Chains
    BY DEF Ends, Chains
  <2>2. UNCHANGED <<child, record, loads, used, queue, work, message>>
    BY <1>3, <1>4
  <2> QED
    BY <1>0, <1>1, <1>3, <1>4, <2>1, <2>2, MovesAndEnds
<1>5. CASE Skips(t) /\ UNCHANGED queue
  <2>1. /\ turns' = [turns EXCEPT ![t].chain = "skipped"]
        /\ UNCHANGED <<rows, batch, records, asker, requests, history>>
    BY <1>5 DEF Skips
  <2>2. Shuts(due)
    BY <2>1, OtherShuts
  <2>3. UNCHANGED <<child, record, loads, used, abandoned, work, message>>
    BY <1>3, <2>1 DEF history
  <2>4. UNCHANGED records
    BY <2>1
  <2>5. PICK c \in Chains : c = "skipped" /\ c \notin {"none", "waiting"}
    BY DEF Chains
  <2>6. turns' = [turns EXCEPT ![t].chain = c] /\ UNCHANGED queue
    BY <1>5, <2>1, <2>5
  <2> QED
    BY <1>1, <1>3, <1>7, <2>2, <2>3, <2>4, <2>5, <2>6, MovesRowed
<1>6. CASE /\ record = o /\ queue' = Append(queue, t)
           /\ turns' = [turns EXCEPT ![t].chain = "prompted"]
           /\ UNCHANGED <<rows, batch, records, asker, requests, history>>
  <2>1. Shuts(due)
    BY <1>6, OtherShuts
  <2>2. UNCHANGED <<child, record, loads, used, abandoned, work, message>>
    BY <1>3, <1>6 DEF history
  <2>3. UNCHANGED records
    BY <1>6
  <2>5. PICK c \in Chains : c = "prompted" /\ c \notin {"none", "waiting"}
    BY DEF Chains
  <2>6. /\ turns' = [turns EXCEPT ![t].chain = c] /\ queue' = Append(queue, t)
        /\ turns[t].chain = "waiting" /\ o = record
    BY <1>0, <1>6, <2>5
  <2> QED
    BY <1>1, <1>3, <1>7, <2>1, <2>2, <2>3, <2>5, <2>6, MovesRowed
<1> QED
  BY <1>2, <1>4, <1>5, <1>6

LEMMA PromptSettlesRowed ==
    ASSUME Typed, Owning, Rowed, NEW t \in Turns, PromptSettles(t)
    PROVE  Rowed'
<1> DEFINE o == turns[t].owner
<1>0. Placed /\ up /\ Settles(t) /\ UNCHANGED <<up, record, agent, bounds>>
  BY DEF Rowed, PromptSettles
<1>1. UNCHANGED child /\ UNCHANGED background
  BY Zenon DEF PromptSettles, agent
<1>2. turns[t].chain # "none" /\ records[o].session \in {"ready", "failed"} /\ o # 0
  BY <1>0 DEF Settles, Continues, Placed, Attaching
<1>3. PICK c \in {"settled", "failed"} :
         \/ \E outcome \in Ends :
               Owned(t) /\ End(t, outcome, [turns EXCEPT ![t].chain = c], records, requests, late)
         \/ /\ ~Owned(t) /\ turns' = [turns EXCEPT ![t].chain = c]
            /\ UNCHANGED <<rows, batch, records, asker, requests, history>>
  <2>1. PICK c \in {"settled", "failed"} : c = IF turns[t].chain = "resolved" THEN "settled" ELSE "failed"
    OBVIOUS
  <2>2. PICK e \in {"completed", "failed"} : e = IF turns[t].chain = "resolved" THEN "completed" ELSE "failed"
    OBVIOUS
  <2>3. Stopped(t, e) \in Ends
    <3>1. e \in Ends
      BY DEF Ends
    <3> QED
      BY <3>1, StoppedType
  <2>4. \/ Owned(t) /\ End(t, Stopped(t, e), [turns EXCEPT ![t].chain = c], records, requests, late)
        \/ /\ ~Owned(t) /\ turns' = [turns EXCEPT ![t].chain = c]
           /\ UNCHANGED <<rows, batch, records, asker, requests, history>>
    BY <2>1, <2>2 DEF PromptSettles
  <2> QED
    BY <2>3, <2>4
<1>4. UNCHANGED <<child, record, loads, used, queue, work, message>> /\ up'
  BY <1>0, <1>1 DEF bounds, agent
<1>5. c \in Chains /\ c \notin {"none", "waiting"}
  BY DEF Chains
<1>6. CASE \E outcome \in Ends :
             Owned(t) /\ End(t, outcome, [turns EXCEPT ![t].chain = c], records, requests, late)
  BY <1>0, <1>1, <1>2, <1>4, <1>5, <1>6, MovesAndEnds
<1>7. CASE /\ ~Owned(t) /\ turns' = [turns EXCEPT ![t].chain = c]
           /\ UNCHANGED <<rows, batch, records, asker, requests, history>>
  <2>1. Shuts(due)
    BY <1>7, OtherShuts
  <2>2. UNCHANGED <<child, record, loads, used, abandoned, work, message>>
    BY <1>4, <1>7 DEF history
  <2>3. UNCHANGED records /\ UNCHANGED queue
    BY <1>4, <1>7
  <2>4. records[o].active # t
    BY <1>2, <1>7 DEF Owned
  <2> QED
    BY <1>0, <1>1, <1>2, <1>4, <1>5, <1>7, <2>1, <2>2, <2>3, <2>4, MovesRowed
<1> QED
  BY <1>3, <1>6, <1>7

LEMMA PromisesRowed ==
    ASSUME Typed, Owning, Rowed, Promises
    PROVE  Rowed'
  BY SessionRowed, BuildRowed, CancelReachesRowed, CancelErrsRowed, CancelReturnsRowed,
     StartPromptRowed, PromptSettlesRowed DEF Promises

LEMMA DroppedRowed ==
    ASSUME Typed, Owning, Rowed, DroppedWithParent
    PROVE  Rowed'
<1> USE Kinds
<1>0. /\ Placed /\ Speaks /\ Anchors /\ Alone /\ up /\ record' = 0
      /\ UNCHANGED <<rows, batch, up, records, turns, agent, history, bounds>>
  BY DEF Rowed, DroppedWithParent, Idle
<1>1. child /\ UNCHANGED child /\ UNCHANGED background
  BY Zenon DEF DroppedWithParent, agent
<1>2. Advances(turns') /\ LetsGo(records')
  BY <1>0 DEF Advances, LetsGo, Fewer, Answers
<1>3. Placed'
  <2>1. \A i \in 1..Len(queue') : turns'[queue'[i]].chain \notin {"none", "waiting"}
    BY <1>0, <1>2, SameQueue DEF Placed, agent
  <2>2. work' <= used' /\ (work' # 0 => turns'[work'].chain # "waiting")
    BY <1>0 DEF Placed, Numbered, Queued, agent, bounds
  <2>3. child => ~background'
    BY <1>0, <1>1 DEF Placed, ChildRests
  <2>4. record' \in {record, 0} /\ UNCHANGED <<child, loads>> /\ used' \in {used, used + 1}
    BY <1>0, <1>1 DEF bounds
  <2> QED
    BY <1>0, <1>2, <2>1, <2>2, <2>3, <2>4, KeepsPlaced
<1>4. Speaks'
  <2>1. ASSUME NEW g \in Loads PROVE Speaking(g)'
    <3>1. Speaking(g) /\ (records[g].active # 0 => turns[records[g].active].chain # "none")
      BY <1>0, <1>1 DEF Speaks, Placed, ChildRests
    <3> QED
      BY <1>0, <3>1 DEF Speaking, Loads
  <2> QED
    BY <1>0, <2>1 DEF Speaks, agent
<1>5. Dormant'
  BY <1>1, <1>3 DEF Placed, ChildRests, Dormant
<1>6. Alone'
  BY <1>0 DEF Alone, OpenTurns, rows, history
<1> QED
  BY <1>0, <1>3, <1>4, <1>5, <1>6 DEF Rowed, Anchors, Down

\* The turn of the dropped record is abandoned; no other was open, for nothing
\* was kept and no prompt is about to find its session gone.
LEMMA RemoveRowed ==
    ASSUME Typed, Owning, Rowed, RemoveFails
    PROVE  Rowed'
<1> USE Kinds
<1>0. /\ Placed /\ Speaks /\ Anchors /\ Alone /\ Idle /\ Quiet /\ up /\ record # 0 /\ Abandon
      /\ abandoned' = IF Active = 0 THEN abandoned ELSE abandoned \union {Active}
      /\ UNCHANGED <<rows, due, up, queue, work, message, bounds>>
  BY DEF Rowed, RemoveFails, Idle
<1>1. UNCHANGED child
  BY Zenon DEF RemoveFails
<1>2. Placed' /\ Speaks' /\ (Dormant => Dormant')
  <2>1. UNCHANGED <<child, loads, used, queue, work, message>>
    BY <1>0, <1>1 DEF bounds
  <2> QED
    BY <1>0, <2>1, AbandonRowed
<1>3. OpenTurns' = OpenTurns /\ abandoned \subseteq abandoned'
  BY <1>0 DEF OpenTurns, rows
<1>4. Alone'
  BY <1>0, <1>3 DEF Alone
<1>5. Anchors'
  <2>1. CASE Dormant
    BY <1>2, <2>1 DEF Anchors
  <2>2. CASE ~Dormant
    <3>1. ASSUME NEW t \in OpenTurns \ abandoned
          PROVE  t \in abandoned'
      <4>1. t \in Turns /\ t # 0 /\ due[t] = "none" /\ Anchored(t)
        BY <1>0, <2>2 DEF Anchors, OpenTurns, Turns, Quiet, NothingDue
      <4>2. /\ turns[t].owner # 0 /\ records[turns[t].owner].active = t
            /\ \/ turns[t].owner = record
               \/ turns[t].chain = "waiting" /\ records[turns[t].owner].session = "failed"
        BY <4>1 DEF Anchored
      <4>3. turns[t].owner = record
        BY <1>0, <4>1, <4>2 DEF Idle, Continues
      <4>4. Active = t
        BY <1>0, <4>2, <4>3 DEF Active
      <4> QED
        BY <1>0, <4>1, <4>4
    <3> QED
      BY <1>3, <3>1 DEF Anchors
  <2> QED
    BY <2>1, <2>2
<1> QED
  BY <1>0, <1>2, <1>4, <1>5 DEF Rowed, Down

\* Nothing of memory is left, and what the rows hold open waits for the boot.
LEMMA CrashRowed ==
    ASSUME Typed, Owning, Rowed, Crash
    PROVE  Rowed'
<1> USE Kinds
<1>0. /\ Alone /\ record' = 0 /\ queue' = <<>> /\ work' = 0 /\ message' = 0
      /\ records' = [g \in Loads |-> NoRecord] /\ turns' = [t \in Turns |-> NoTurn]
      /\ due' = NothingDue /\ late' = NothingLate
      /\ UNCHANGED <<rows, history, bounds>>
  BY DEF Rowed, Crash
<1>1. UNCHANGED child /\ ~background' /\ ~up'
  BY Zenon DEF Crash
<1>2. /\ \A g \in Loads : records'[g].active = 0 /\ records'[g].unrecorded = 0
      /\ \A t \in Turns : turns'[t].owner = 0 /\ turns'[t].chain = "none"
  BY <1>0 DEF NoRecord, NoTurn
<1>3. Placed'
  <2>1. Numbered'
    BY <1>0, <1>2 DEF Numbered, bounds
  <2>2. Queued'
    BY <1>0 DEF Queued
  <2>3. Attaching'
    BY <1>0, <1>2 DEF Attaching, bounds
  <2>4. ChildRests'
    BY <1>1, <1>2 DEF ChildRests
  <2> QED
    BY <2>1, <2>2, <2>3, <2>4 DEF Placed
<1>4. Speaks'
  BY <1>0, <1>2 DEF Speaks, Speaking
<1>5. Quiet' /\ Dormant'
  <2>1. Quiet'
    BY <1>0 DEF Quiet, NothingDue, NothingLate
  <2>2. Dormant'
    BY <1>0, <1>1, <1>2 DEF Dormant
  <2> QED
    BY <2>1, <2>2
<1>6. Alone'
  BY <1>0 DEF Alone, OpenTurns, rows, history
<1> QED
  BY <1>1, <1>3, <1>4, <1>5, <1>6 DEF Rowed, Down

LEMMA CommitRowed ==
    ASSUME Typed, Owning, Rowed, Commit
    PROVE  Rowed'
<1>1. up /\ UNCHANGED <<held, command, up, memory, agent, history, bounds>>
  BY DEF Commit
<1>2. UNCHANGED child /\ UNCHANGED background
  BY Zenon DEF Commit, agent
<1>3. SameRuns(turns') /\ Holds(records')
  BY <1>1 DEF SameRuns, Holds, Alike, Answers, memory
<1>4. Shuts(due)
  <2>1. Write(asker, due, late)
    BY DEF Commit, Write, memory
  <2> QED
    BY <2>1, OtherShuts
<1>5. UNCHANGED <<child, record, loads, used, abandoned, queue, work, message>> /\ up'
  BY <1>1, <1>2 DEF memory, agent, history, bounds
<1> QED
  BY <1>1, <1>2, <1>3, <1>4, <1>5, SteadyRowed

\* Memory is as it was.
LEMMA Rests ==
    ASSUME Rowed, UNCHANGED <<record, records, turns, queue, work, message, used, loads>>,
           UNCHANGED child, UNCHANGED background
    PROVE  Placed' /\ Speaks' /\ (Dormant => Dormant')
<1>0. Placed /\ Speaks
  BY DEF Rowed
<1>1. Numbered' /\ Queued' /\ Attaching'
  BY <1>0 DEF Placed, Numbered, Queued, Attaching
<1>2. ChildRests'
  BY <1>0 DEF Placed, ChildRests
<1>3. Speaks'
  BY <1>0 DEF Speaks, Speaking
<1>4. Dormant => Dormant'
  BY DEF Dormant
<1> QED
  BY <1>1, <1>2, <1>3, <1>4 DEF Placed

\* What a boot cannot close was open, and stays the one that is.
LEMMA BootRowed ==
    ASSUME Typed, Owning, Rowed, Boot
    PROVE  Rowed'
<1>1. ~up /\ up' /\ UNCHANGED <<due, memory, agent, used, loads>>
  BY DEF Boot
<1>2. UNCHANGED child /\ UNCHANGED background
  BY Zenon DEF Boot, agent
<1>3. Dormant /\ Alone
  BY <1>1 DEF Rowed, Down
<1>4. Placed' /\ Speaks' /\ Dormant'
  <2>1. UNCHANGED <<record, records, turns, queue, work, message, used, loads>>
    BY <1>1 DEF memory, agent
  <2> QED
    BY <1>2, <1>3, <2>1, Rests
<1>5. Alone'
  <2>1. PICK lost \in SUBSET OpenTurns :
           /\ row' = RowsAfter([t \in Turns |-> IF t \in OpenTurns \ lost THEN "interrupted" ELSE "none"])
           /\ abandoned' = abandoned \intersect lost
    BY DEF Boot
  <2>2. OpenTurns' \subseteq lost
    BY <2>1 DEF OpenTurns, RowsAfter
  <2>3. OpenTurns' \ abandoned' \subseteq OpenTurns \ abandoned
    BY <2>1, <2>2
  <2> QED
    BY <1>3, <2>3 DEF Alone
<1> QED
  BY <1>1, <1>4, <1>5 DEF Rowed, Anchors, Down

LEMMA StepRowed ==
    ASSUME Typed, Owning, Rowed, [Next]_vars
    PROVE  Rowed'
<1>1. CASE Next
  BY <1>1, ClientsRowed, AgentRowed, PromisesRowed, DroppedRowed, RemoveRowed, CrashRowed,
     CommitRowed, BootRowed DEF Next, Faults
<1>2. CASE UNCHANGED vars
  <2>1. UNCHANGED child /\ UNCHANGED up /\ UNCHANGED background
    BY <1>2, Zenon DEF vars, agent
  <2>2. UNCHANGED <<rows, batch, memory, agent, history, bounds>>
    BY <1>2, Zenon DEF vars
  <2>3. UNCHANGED <<record, records, turns, queue, work, message, used, loads, row, due, late, abandoned>>
    BY <2>2 DEF rows, batch, memory, agent, history, bounds
  <2>4. Placed' /\ Speaks' /\ (Dormant => Dormant')
    BY <2>1, <2>3, Rests
  <2>5. OpenTurns' = OpenTurns /\ \A t \in Turns : Anchored(t) => Anchored(t)'
    BY <2>3 DEF OpenTurns, Anchored
  <2>6. Alone' /\ (Anchors => Anchors')
    BY <2>3, <2>4, <2>5 DEF Alone, Anchors, OpenTurns, Rowed
  <2>7. Quiet => Quiet'
    BY <2>3 DEF Quiet
  <2> QED
    BY <2>1, <2>4, <2>6, <2>7 DEF Rowed, Down
<1> QED
  BY <1>1, <1>2

LEMMA InitRowed == Init => Rowed
<1> SUFFICES ASSUME Init PROVE Rowed
  OBVIOUS
<1>0. /\ queue = <<>> /\ work = 0 /\ message = 0 /\ used = 0 /\ loads = record
      /\ row = [t \in Turns |-> "absent"] /\ turns = [t \in Turns |-> NoTurn]
      /\ records = [g \in Loads |->
                      IF g = record THEN [NoRecord EXCEPT !.session = "loading"] ELSE NoRecord]
      /\ record \in {0, 1}
  BY DEF Init
<1>1. up /\ ~background
  BY Zenon DEF Init
<1>2. /\ \A g \in Loads : records[g].active = 0 /\ records[g].unrecorded = 0
      /\ \A t \in Turns : turns[t].owner = 0 /\ turns[t].chain = "none"
  BY <1>0 DEF NoRecord, NoTurn
<1>3. Placed
  <2>1. Numbered
    BY <1>0, <1>2 DEF Numbered
  <2>2. Queued
    BY <1>0 DEF Queued
  <2>3. Attaching
    BY <1>0, <1>2 DEF Attaching
  <2>4. ChildRests
    BY <1>1, <1>2 DEF ChildRests
  <2> QED
    BY <2>1, <2>2, <2>3, <2>4 DEF Placed
<1>4. Speaks
  BY <1>0, <1>2 DEF Speaks, Speaking
<1>5. Dormant
  BY <1>0, <1>1, <1>2 DEF Dormant
<1>6. OpenTurns = {}
  BY <1>0 DEF OpenTurns
<1> QED
  BY <1>1, <1>3, <1>4, <1>5, <1>6 DEF Rowed, Anchors, Alone, Down

\* No two turns of a thread are ever open in its rows, whoever started them and
\* whatever failed; but for turns a removal that failed had dropped.
THEOREM OneTurnOpen == Spec => []OneOpenTurn
<1>1. Init => Typed /\ Owning /\ Rowed
  <2> SUFFICES ASSUME Init PROVE Owning
    BY InitTyped, InitRowed
  <2>1. \A g \in Loads : records[g].active = 0 /\ records[g].unrecorded = 0
    BY DEF Init, NoRecord
  <2> QED
    BY <2>1 DEF Init, Owning, OwnsActive, OwesStart
<1>2. Typed /\ Owning /\ Rowed /\ [Next]_vars => (Typed /\ Owning /\ Rowed)'
  BY StepTyped, StepOwning, StepRowed
<1>3. Rowed => OneOpenTurn
  <2> SUFFICES ASSUME Rowed PROVE Cardinality(OpenTurns \ abandoned) <= 1
    BY DEF OneOpenTurn
  <2> DEFINE open == OpenTurns \ abandoned
  <2>1. CASE open = {}
    BY <2>1, FS_EmptySet
  <2>2. CASE open # {}
    <3>1. PICK t : t \in open
      BY <2>2
    <3>2. open = {t}
      BY <3>1 DEF Rowed, Alone
    <3> QED
      BY <3>2, FS_Singleton
  <2> QED
    BY <2>1, <2>2
<1> QED
  BY <1>1, <1>2, <1>3, PTL DEF Spec

-----------------------------------------------------------------------------
(* What memory and the rows say of a request.                              *)

\* A request of a turn that is open, and due no end, is pending in the rows
\* once what is kept is written.
WaitsIn(l, q) == ("request" \in l[q] \/ ask[q] = "pending") /\ "settle" \notin l[q]
Waits(q) == WaitsIn(late, q)

\* What memory takes an answer to waits in the rows, and for a turn that took
\* in no other run the broker holds it; what memory has settled does not.
Agreeing(q, a) ==
    /\ requests[q].entry = "open" =>
          /\ Waits(q)
          /\ turns[a].folded = 0 => requests[q].parked /\ turns[a].heard
    /\ requests[q].entry = "settled" /\ turns[a].folded = 0 => ~Waits(q)

\* The active turn is open in the rows, and nothing kept for them ends it.
Stands(a) ==
    /\ row[a] = "open" /\ due[a] = "none"
    /\ \A q \in Requests : asker[q] = a => Agreeing(q, a)

\* Requests are filed under turns that were started, and written.
Asked ==
    \A q \in Requests :
       /\ asker[q] <= used
       /\ asker[q] # 0 => \A g \in Loads : records[g].unrecorded # asker[q]

Agrees == (~up => record = 0) /\ Asked /\ (Active # 0 => Stands(Active))

LEMMA WaitingIsPending ==
    ASSUME Typed, NEW q \in Requests, row[asker[q]] = "open", due[asker[q]] = "none"
    PROVE  AskAfter(asker, due, late)[q] = "pending" <=> Waits(q)
  BY DEF AskAfter, Waits, WaitsIn

LEMMA WriteWaits ==
    ASSUME Typed, NEW by, NEW d, NEW l, NEW a \in Turns, Write(by, d, l),
           row[a] = "open", d[a] = "none"
    PROVE  /\ row'[a] = "open" /\ due'[a] = "none"
           /\ \A q \in Requests : by[q] = a => (Waits(q)' <=> WaitsIn(l, q))
<1>1. CASE Written(by, d, l)
  <2>1. row'[a] = "open" /\ due'[a] = "none"
    BY <1>1 DEF Written, RowsAfter, NothingDue
  <2>2. ASSUME NEW q \in Requests, by[q] = a
        PROVE  Waits(q)' <=> WaitsIn(l, q)
    <3>1. late'[q] = {}
      BY <1>1 DEF Written, NothingLate
    <3>2. ask'[q] = AskAfter(by, d, l)[q]
      BY <1>1 DEF Written
    <3>3. ask'[q] = "pending" <=> WaitsIn(l, q)
      BY <2>2, <3>2 DEF AskAfter, WaitsIn
    <3> QED
      BY <3>1, <3>3 DEF Waits, WaitsIn
  <2> QED
    BY <2>1, <2>2
<1>2. CASE due' = d /\ late' = l /\ UNCHANGED <<row, ask>>
  BY <1>2 DEF Waits, WaitsIn
<1> QED
  BY <1>1, <1>2 DEF Write

LEMMA AskedStill ==
    ASSUME Typed, Asked, UNCHANGED asker, used' \in {used, used + 1},
           \A g \in Loads : records'[g].unrecorded \in {records[g].unrecorded, 0, used + 1}
    PROVE  Asked'
<1> SUFFICES ASSUME NEW q \in Requests
             PROVE  /\ asker[q] <= used'
                    /\ asker[q] # 0 => \A g \in Loads : records'[g].unrecorded # asker[q]
  BY DEF Asked
<1>1. /\ asker[q] <= used /\ asker[q] \in Nat
      /\ asker[q] # 0 => \A g \in Loads : records[g].unrecorded # asker[q]
  BY Kinds DEF Asked, Typed, Batched
<1> QED
  BY <1>1, Kinds

\* The active turn is the same one, or there is none.
LEMMA KeepsAgrees ==
    ASSUME Typed, Owning, Agrees, up', UNCHANGED asker, used' \in {used, used + 1},
           record' \in {record, 0},
           \A g \in Loads : /\ records'[g].active \in {records[g].active, 0}
                            /\ records'[g].unrecorded \in {records[g].unrecorded, 0, used + 1},
           NEW a, a = Active, a # 0 /\ Active' = a => Stands(a)'
    PROVE  Agrees'
<1>1. Asked'
  BY AskedStill DEF Agrees
<1>2. Active' \in {0, a}
  BY Kinds DEF Active, Loads
<1> QED
  BY <1>1, <1>2 DEF Agrees

LEMMA StandsStill ==
    ASSUME Typed, NEW a \in Turns, Stands(a), UNCHANGED asker, row'[a] = "open", due'[a] = "none",
           turns'[a].folded = turns[a].folded \/ turns'[a].folded # 0,
           turns[a].heard => turns'[a].heard,
           \A q \in Requests : asker[q] = a =>
              /\ requests'[q] = requests[q]
              /\ Waits(q)' <=> Waits(q)
    PROVE  Stands(a)'
<1>1. ASSUME NEW q \in Requests, asker[q] = a
      PROVE  Agreeing(q, a)'
  <2>1. Agreeing(q, a)
    BY <1>1 DEF Stands
  <2> QED
    BY <1>1, <2>1 DEF Agreeing
<1> QED
  BY <1>1 DEF Stands

\* A turn hears no less, and takes in no other run.
Listens(ts) ==
    \A t \in Turns : ts[t].folded = turns[t].folded /\ (turns[t].heard => ts[t].heard)

\* Nothing is written, asked or settled.
LEMMA SteadyAgrees ==
    ASSUME Typed, Owning, Agrees, up', UNCHANGED <<asker, requests, used>>, record' \in {record, 0},
           record' # 0 => UNCHANGED <<row, ask, due, late>>,
           Fewer(records'), Listens(turns')
    PROVE  Agrees'
<1>1. PICK a : a = Active
  OBVIOUS
<1>2. ASSUME a # 0, Active' = a
      PROVE  Stands(a)'
  <2>1. a \in Turns /\ Stands(a)
    BY <1>1, <1>2, Actives DEF Agrees
  <2>2. record' # 0
    BY <1>2 DEF Active
  <2>3. row'[a] = "open" /\ due'[a] = "none"
    BY <2>1, <2>2 DEF Stands
  <2>4. \A q \in Requests : requests'[q] = requests[q] /\ (Waits(q)' <=> Waits(q))
    BY <2>2 DEF Waits, WaitsIn
  <2> QED
    BY <2>1, <2>3, <2>4, StandsStill DEF Listens
<1>3. \A g \in Loads : /\ records'[g].active \in {records[g].active, 0}
                       /\ records'[g].unrecorded \in {records[g].unrecorded, 0, used + 1}
  BY DEF Fewer
<1> QED
  BY <1>1, <1>2, <1>3, KeepsAgrees

LEMMA EndAgrees ==
    ASSUME Typed, Owning, Agrees, up', UNCHANGED <<record, used>>, NEW t \in Turns, NEW outcome \in Ends,
           NEW ts \in [Turns -> TurnType], NEW rs \in [Loads -> RecordType], NEW qs, NEW l,
           Owned(t), End(t, outcome, ts, rs, qs, l), Listens(ts), Alike(rs),
           turns[t].owner = record \/ (qs = requests /\ l = late)
    PROVE  Agrees'
<1>1. turns[t].owner \in Loads /\ records[turns[t].owner].active = t /\ t # 0
  BY Kinds DEF Owned, Turns
<1>2. /\ \A u \in Turns : u # t => turns'[u] = ts[u]
      /\ turns'[t].owner = ts[t].owner /\ turns'[t].chain = ts[t].chain
      /\ turns'[t].stop = ts[t].stop
      /\ turns'[t].heard = FALSE /\ turns'[t].folded = 0 /\ turns'[t].said = outcome
      /\ \A g \in Loads : /\ g # turns[t].owner => records'[g] = rs[g]
                          /\ records'[g].session = rs[g].session
                          /\ records'[g].unrecorded = rs[g].unrecorded
      /\ records'[turns[t].owner].active = 0
  <2>1. Typed /\ turns[t].owner \in Loads /\ End(t, outcome, ts, rs, qs, l)
    BY <1>1
  <2> QED
    BY <2>1, EndFields, Zenon
<1>3. PICK a : a = Active
  OBVIOUS
<1>4. ASSUME a # 0, Active' = a
      PROVE  Stands(a)'
  <2>1. a \in Turns /\ Stands(a) /\ turns[a].owner = record /\ record \in Loads
    BY <1>3, <1>4, Actives DEF Agrees
  <2>2. turns[t].owner # record /\ a # t
    BY <1>2, <1>4, <2>1 DEF Active
  <2> DEFINE d == [due EXCEPT ![t] = IF @ = "none" THEN outcome ELSE @]
  <2>3. Write(asker, d, late) /\ d[a] = "none" /\ row[a] = "open" /\ UNCHANGED asker
    BY <2>1, <2>2, Kinds DEF End, Write, Stands, Dues
  <2> HIDE DEF d
  <2>4. /\ row'[a] = "open" /\ due'[a] = "none"
        /\ \A q \in Requests : asker[q] = a => (Waits(q)' <=> WaitsIn(late, q))
    BY <2>1, <2>3, WriteWaits
  <2>5. \A q \in Requests : requests'[q] = requests[q]
    BY <2>2 DEF End
  <2>6. turns'[a] = ts[a]
    BY <1>2, <2>1, <2>2
  <2> QED
    BY <2>1, <2>3, <2>4, <2>5, <2>6, StandsStill DEF Listens, Waits
<1>5. \A g \in Loads : /\ records'[g].active \in {records[g].active, 0}
                       /\ records'[g].unrecorded \in {records[g].unrecorded, 0, used + 1}
  BY <1>2 DEF Alike
<1>6. UNCHANGED asker /\ used' \in {used, used + 1} /\ record' \in {record, 0}
  BY DEF End, Write
<1> QED
  BY <1>3, <1>4, <1>5, <1>6, KeepsAgrees

LEMMA SettledFields ==
    ASSUME Typed, NEW S, NEW q \in Requests
    PROVE  /\ q \notin S => SettledIn(S)[q] = requests[q]
           /\ q \in S => /\ ~SettledIn(S)[q].parked
                         /\ SettledIn(S)[q].entry =
                               IF Target # 0 /\ requests[q].entry = "open" THEN "settled"
                               ELSE requests[q].entry
<1>1. requests[q] \in RequestType
  BY DEF Typed, Memory
<1>2. q \notin S => SettledIn(S)[q] = requests[q]
  BY DEF SettledIn
<1>3. ASSUME q \in S
      PROVE  SettledIn(S)[q] = [requests[q] EXCEPT !.parked = FALSE,
                                  !.entry = IF Target # 0 /\ @ = "open" THEN "settled" ELSE @]
  BY <1>3 DEF SettledIn
<1> QED
  BY <1>1, <1>2, <1>3 DEF RequestType

\* What the broker settles for the active turn is settled in memory and kept
\* for the rows, or it is of a turn that took in another run.
LEMMA SettleAgrees ==
    ASSUME Typed, Owning, Speaks, Agrees, up', UNCHANGED <<record, used>>, NEW S,
           \/ LateWith(S) = late /\ UNCHANGED <<row, ask, due, late, asker>>
           \/ Write(asker, due, LateWith(S)),
           \A q \in Requests : /\ requests'[q].parked = SettledIn(S)[q].parked
                               /\ requests'[q].entry = SettledIn(S)[q].entry,
           Fewer(records'), Listens(turns')
    PROVE  Agrees'
<1>1. PICK a : a = Active
  OBVIOUS
<1>2. ASSUME a # 0, Active' = a
      PROVE  Stands(a)'
  <2>1. a \in Turns /\ Stands(a) /\ Target \in {0, a}
    BY <1>1, <1>2, Actives DEF Agrees
  <2>2. /\ row'[a] = "open" /\ due'[a] = "none" /\ UNCHANGED asker
        /\ \A q \in Requests : asker[q] = a => (Waits(q)' <=> WaitsIn(LateWith(S), q))
    <3>1. CASE LateWith(S) = late /\ UNCHANGED <<row, ask, due, late, asker>>
      BY <2>1, <3>1 DEF Stands, Waits, WaitsIn
    <3>2. CASE Write(asker, due, LateWith(S))
      <4>1. row[a] = "open" /\ due[a] = "none"
        BY <2>1 DEF Stands
      <4>2. UNCHANGED asker
        BY <3>2 DEF Write
      <4> QED
        BY <2>1, <3>2, <4>1, <4>2, WriteWaits
    <3> QED
      BY <3>1, <3>2
  <2>3. ASSUME NEW q \in Requests, asker[q] = a
        PROVE  Agreeing(q, a)'
    <3>1. Agreeing(q, a)
      BY <2>1, <2>3 DEF Stands
    <3>2. turns'[a].folded = turns[a].folded /\ (turns[a].heard => turns'[a].heard)
      BY <2>1 DEF Listens
    <3>3. Waits(q)' <=> WaitsIn(LateWith(S), q)
      BY <2>2, <2>3
    <3>4. CASE q \notin S
      <4>1. requests'[q].parked = requests[q].parked /\ requests'[q].entry = requests[q].entry
        BY <3>4, SettledFields
      <4>2. Waits(q)' <=> Waits(q)
        BY <3>3, <3>4 DEF LateWith, Waits, WaitsIn
      <4> QED
        BY <3>1, <3>2, <4>1, <4>2 DEF Agreeing
    <3>5. CASE q \in S /\ Target # 0
      <4>1. ~Waits(q)'
        BY <1>2, <2>1, <2>3, <3>3, <3>5 DEF LateWith, WaitsIn
      <4>2. requests'[q].entry # "open"
        BY <3>5, SettledFields
      <4> QED
        BY <4>1, <4>2 DEF Agreeing
    <3>6. CASE q \in S /\ Target = 0
      <4>1. requests'[q].entry = requests[q].entry
        BY <3>6, SettledFields
      <4>2. Waits(q)' <=> Waits(q)
        BY <3>3, <3>6 DEF LateWith, Waits, WaitsIn
      <4>3. ~turns[a].heard
        BY <1>1, <1>2, <3>6, HeardIsNamed
      <4> QED
        BY <3>1, <3>2, <4>1, <4>2, <4>3 DEF Agreeing
    <3> QED
      BY <3>4, <3>5, <3>6
  <2> QED
    BY <2>2, <2>3 DEF Stands
<1>3. \A g \in Loads : /\ records'[g].active \in {records[g].active, 0}
                       /\ records'[g].unrecorded \in {records[g].unrecorded, 0, used + 1}
  BY DEF Fewer
<1>4. UNCHANGED asker
  BY DEF Write
<1> QED
  BY <1>1, <1>2, <1>3, <1>4, KeepsAgrees

\* A turn that starts has asked nothing.
LEMMA StartAgrees ==
    ASSUME Typed, Owning, Agrees, up', UNCHANGED asker, used' \in {used, used + 1},
           NEW b \in Turns, Active' = b, row'[b] = "open", due'[b] = "none",
           \A q \in Requests : asker[q] # b,
           \A g \in Loads : records'[g].unrecorded \in {records[g].unrecorded, 0}
    PROVE  Agrees'
<1>1. Asked'
  BY AskedStill DEF Agrees
<1>2. Stands(b)'
  BY DEF Stands
<1> QED
  BY <1>1, <1>2 DEF Agrees

LEMMA HearsListens ==
    ASSUME NEW ts, Hears(ts)
    PROVE  Listens(ts)
  BY DEF Hears, Listens

LEMMA NothingMoved ==
    Fewer(records) /\ Listens(turns) /\ Alike(records)
  BY DEF Fewer, Listens, Alike

\* A record that was just made has no active turn.
LEMMA AttachAgrees ==
    ASSUME Typed, Owning, Placed, Agrees, up', NEW rs, Attaches(rs), CanAttach, Attach, records' = rs,
           UNCHANGED <<row, ask, due, late, asker, requests, turns, used>>
    PROVE  Agrees'
<1> USE Kinds
<1>1. /\ Attached \in Loads
      /\ \A g \in Loads : rs[g].active \in {records[g].active, 0}
      /\ \A g \in Loads : rs[g].unrecorded \in {records[g].unrecorded, 0}
      /\ record = 0 => rs[Attached].active = 0
      /\ record # 0 => Attached = record
  BY AttachesFacts
<1>2. record' = Attached
  BY DEF Attach
<1>3. CASE record # 0
  <2>1. Fewer(records') /\ Listens(turns')
    BY <1>1, NothingMoved DEF Fewer
  <2> QED
    BY <1>1, <1>2, <1>3, <2>1, SteadyAgrees
<1>4. CASE record = 0
  <2>1. Active' = 0
    BY <1>1, <1>2, <1>4 DEF Active
  <2>2. Asked'
    BY <1>1, AskedStill DEF Agrees
  <2> QED
    BY <2>1, <2>2 DEF Agrees
<1> QED
  BY <1>3, <1>4

LEMMA SendAsAgrees ==
    ASSUME Typed, Owning, Placed, Agrees, up', NEW c, NEW rs \in [Loads -> RecordType], Attaches(rs),
           SendAs(c, rs), UNCHANGED <<asker, requests>>
    PROVE  Agrees'
<1> USE Kinds
<1>1. CanAttach /\ Attach /\ Quiet
  BY DEF SendAs
<1>2. CASE records' = rs /\ UNCHANGED <<rows, due, late, turns, used>>
  <2>1. UNCHANGED <<row, ask, due, late, asker, requests, turns, used>>
    BY <1>2 DEF rows
  <2> QED
    BY <1>1, <1>2, <2>1, AttachAgrees
<1>3. CASE ~(records' = rs /\ UNCHANGED <<rows, due, late, turns, used>>)
  <2>1. /\ used < MaxTurns /\ used' = used + 1
        /\ records' = [rs EXCEPT ![Attached].active = used + 1]
        /\ row' = [row EXCEPT ![used + 1] = "open"] /\ UNCHANGED batch
    BY <1>3 DEF SendAs
  <2>2. PICK b \in Turns : b = used + 1
    BY <2>1 DEF Turns
  <2>3. /\ Attached \in Loads
        /\ \A g \in Loads : rs[g].unrecorded \in {records[g].unrecorded, 0}
    BY <1>1, AttachesFacts
  <2>4. \A g \in Loads : records'[g].unrecorded = rs[g].unrecorded
    <3>1. rs[Attached] \in RecordType
      BY <2>3
    <3>2. records'[Attached] = [rs[Attached] EXCEPT !.active = used + 1]
          /\ \A g \in Loads : g # Attached => records'[g] = rs[g]
      BY <2>1, <2>3
    <3> QED
      BY <3>1, <3>2 DEF RecordType
  <2>5. Active' = b
    <3>1. records'[Attached].active = b
      BY <2>1, <2>2, <2>3 DEF RecordType
    <3>2. record' = Attached /\ Attached # 0
      BY <1>1, <2>3 DEF Attach, Loads
    <3> QED
      BY <3>1, <3>2 DEF Active
  <2>6. row'[b] = "open" /\ due'[b] = "none"
    BY <1>1, <2>1, <2>2 DEF Quiet, NothingDue, batch
  <2>7. \A q \in Requests : asker[q] # b
    BY <2>2 DEF Agrees, Asked
  <2>8. \A g \in Loads : records'[g].unrecorded \in {records[g].unrecorded, 0}
    BY <2>3, <2>4
  <2> QED
    BY <2>1, <2>5, <2>6, <2>7, <2>8, StartAgrees
<1> QED
  BY <1>2, <1>3

LEMMA OpensAgrees ==
    ASSUME Typed, Owning, Agrees, up', NEW b \in Turns, record # 0, Opens(b),
           used' \in {used, used + 1}, UNCHANGED <<record, requests>>,
           \A q \in Requests : asker[q] # b
    PROVE  Agrees'
<1> USE Kinds
<1> DEFINE r == records[record]
           cleared == [records EXCEPT ![record].unrecorded = 0]
<1>0. record \in Loads /\ UNCHANGED asker /\ b # 0 /\ r \in RecordType
  BY DEF Opens, Turns
<1>1. /\ cleared[record].unrecorded = 0 /\ cleared[record].active = r.active
      /\ \A g \in Loads : g # record => cleared[g] = records[g]
      /\ cleared[record] \in RecordType /\ cleared \in [Loads -> RecordType]
  <2>1. /\ cleared[record] = [r EXCEPT !.unrecorded = 0]
        /\ \A g \in Loads : g # record => cleared[g] = records[g]
    BY <1>0
  <2>2. cleared[record].unrecorded = 0 /\ cleared[record].active = r.active
    BY <1>0, <2>1 DEF RecordType
  <2>3. cleared \in [Loads -> RecordType]
    <3>1. 0 \in 0..MaxTurns /\ records \in [Loads -> RecordType]
      OBVIOUS
    <3> QED
      BY <1>0, <3>1, RecordsWith
  <2> QED
    BY <1>0, <2>1, <2>2, <2>3
<1>2. \/ /\ r.active # 0 /\ records' = cleared /\ UNCHANGED <<row, ask, due, late>>
         /\ turns' = IF turns[r.active].heard THEN turns ELSE [turns EXCEPT ![r.active].folded = b]
      \/ r.active = 0 /\ records' = cleared
      \/ /\ r.active = 0
         /\ row' = [RowsAfter(due) EXCEPT ![b] = "open"] /\ due' = NothingDue
         /\ records' = [cleared EXCEPT ![record].active = b]
  BY DEF Opens
<1> HIDE DEF cleared
<1>3. CASE records' = cleared
  <2>1. PICK a : a = Active
    OBVIOUS
  <2>2. ASSUME a # 0, Active' = a
        PROVE  Stands(a)'
    <3>1. a \in Turns /\ a = r.active /\ Stands(a)
      BY <2>1, <2>2, Actives DEF Active, Agrees
    <3>2. UNCHANGED <<row, ask, due, late>>
          /\ turns' = IF turns[a].heard THEN turns ELSE [turns EXCEPT ![a].folded = b]
      BY <1>2, <2>2, <3>1
    <3>3. /\ turns'[a].folded = turns[a].folded \/ turns'[a].folded # 0
          /\ turns[a].heard => turns'[a].heard
      <4>1. CASE turns[a].heard
        BY <3>2, <4>1
      <4>2. CASE ~turns[a].heard
        <5>1. turns'[a] = [turns[a] EXCEPT !.folded = b] /\ turns[a] \in TurnType
          BY <3>1, <3>2, <4>2
        <5> QED
          BY <1>0, <4>2, <5>1 DEF TurnType
      <4> QED
        BY <4>1, <4>2
    <3>4. row'[a] = "open" /\ due'[a] = "none"
      BY <3>1, <3>2 DEF Stands
    <3>5. \A q \in Requests : requests'[q] = requests[q] /\ (Waits(q)' <=> Waits(q))
      BY <3>2 DEF Waits, WaitsIn
    <3> QED
      BY <1>0, <3>1, <3>3, <3>4, <3>5, StandsStill
  <2>3. \A g \in Loads : /\ records'[g].active \in {records[g].active, 0}
                         /\ records'[g].unrecorded \in {records[g].unrecorded, 0, used + 1}
    BY <1>1, <1>3
  <2> QED
    BY <1>0, <2>1, <2>2, <2>3, KeepsAgrees
<1>4. CASE /\ row' = [RowsAfter(due) EXCEPT ![b] = "open"] /\ due' = NothingDue
           /\ records' = [cleared EXCEPT ![record].active = b]
  <2>1. /\ records'[record].active = b /\ records'[record].unrecorded = 0
        /\ \A g \in Loads : g # record => records'[g] = records[g]
    <3>1. records'[record] = [cleared[record] EXCEPT !.active = b]
          /\ \A g \in Loads : g # record => records'[g] = cleared[g]
      BY <1>0, <1>1, <1>4
    <3> QED
      BY <1>1, <3>1 DEF RecordType
  <2>2. Active' = b
    BY <2>1 DEF Active
  <2>3. row'[b] = "open" /\ due'[b] = "none"
    BY <1>4 DEF RowsAfter, NothingDue
  <2>4. \A g \in Loads : records'[g].unrecorded \in {records[g].unrecorded, 0}
    BY <2>1
  <2> QED
    BY <1>0, <2>2, <2>3, <2>4, StartAgrees
<1> QED
  BY <1>2, <1>3, <1>4

LEMMA ClientsAgree ==
    ASSUME Typed, Owning, Rowed, Agrees, Clients
    PROVE  Agrees'
<1> USE TurnLifecycleAssumption
<1>0. /\ Placed /\ Speaks /\ records \in [Loads -> RecordType]
      /\ record \in 0..MaxLoads /\ \A g \in 0..MaxLoads : g # 0 => g \in Loads
  BY Kinds DEF Rowed
<1>a. Active # 0 => record \in Loads
  BY Actives
<1>1. CASE Load
  <2>1. /\ up' /\ CanAttach /\ Attach /\ records' = WithAttached
        /\ UNCHANGED <<row, ask, due, late, asker, requests, turns, used>>
    BY <1>1 DEF Load, Idle, rows, batch
  <2>2. Attaches(WithAttached)
    BY <2>1, WithAttachedAttaches
  <2> QED
    BY <1>0, <2>1, <2>2, AttachAgrees
<1>2. CASE Delete
  <2>1. up' /\ Abandon /\ record' = 0 /\ UNCHANGED <<asker, requests, used>>
    BY <1>2 DEF Delete, Idle, bounds, Abandon
  <2>2. Fewer(records') /\ Listens(turns')
    BY <2>1, AbandonFields, HearsListens DEF LetsGo
  <2> QED
    BY <2>1, <2>2, SteadyAgrees
<1>3. ASSUME NEW c \in Commands, Send(c)
      PROVE  Agrees'
  <2>1. up' /\ UNCHANGED <<asker, requests>>
    BY <1>3 DEF Send, Idle
  <2>2. CASE UNCHANGED <<rows, batch, record, records, turns, used, loads>>
    <3>1. UNCHANGED <<row, ask, due, late, record, records, turns, used>>
      BY <2>2 DEF rows, batch
    <3>2. Fewer(records') /\ Listens(turns')
      BY <3>1, NothingMoved
    <3> QED
      BY <2>1, <3>1, <3>2, SteadyAgrees
  <2>3. CASE SendAs(c, WithAttached)
    <3>1. CanAttach
      BY <2>3 DEF SendAs
    <3>2. WithAttached \in [Loads -> RecordType] /\ Attaches(WithAttached)
      BY <1>0, <3>1, WithAttachedType, WithAttachedAttaches DEF Typed
    <3> QED
      BY <1>0, <2>1, <2>3, <3>2, SendAsAgrees
  <2> QED
    BY <1>3, <2>2, <2>3 DEF Send
<1>4. ASSUME NEW q \in Requests, Respond(q)
      PROVE  Agrees'
  <2>1. /\ up' /\ UNCHANGED <<record, turns, used>> /\ record \in Loads
        /\ records' = records \/ records' = [records EXCEPT ![record].building = {q}]
        /\ asker[q] = Active /\ Active # 0 /\ requests[q].entry = "open"
    BY <1>a, <1>4 DEF Respond, Idle, bounds
  <2>2. Fewer(records') /\ Listens(turns')
    BY <2>1, RecordsHold, NothingMoved, AlikeFewer DEF Holds
  <2>3. CASE /\ ~requests[q].parked /\ UNCHANGED <<rows, batch, asker, records>>
             /\ requests' = [requests EXCEPT ![q].entry = "settled"]
    <3>1. PICK a : a = Active
      OBVIOUS
    <3>2. Stands(a) /\ a \in Turns /\ a # 0
      BY <2>1, <3>1, Actives DEF Agrees
    <3>3. turns[a].folded # 0
      BY <2>1, <2>3, <3>1, <3>2 DEF Stands, Agreeing
    <3>4. UNCHANGED <<row, ask, due, late, asker>>
      BY <2>3 DEF rows, batch
    <3>5. ASSUME NEW p \in Requests, asker[p] = a PROVE Agreeing(p, a)'
      <4>1. Agreeing(p, a) /\ turns'[a].folded = turns[a].folded
        BY <2>1, <3>2, <3>5 DEF Stands
      <4>2. CASE p = q
        <5>1. requests'[q].entry = "settled"
          <6>1. requests[q] \in RequestType /\ requests \in [Requests -> RequestType]
            BY DEF Typed, Memory
          <6> QED
            BY <2>3, <6>1 DEF RequestType
        <5> QED
          BY <3>3, <4>1, <4>2, <5>1 DEF Agreeing
      <4>3. CASE p # q
        <5>1. requests'[p] = requests[p]
          <6>1. requests \in [Requests -> RequestType]
            BY DEF Typed, Memory
          <6> QED
            BY <2>3, <4>3, <6>1
        <5> QED
          BY <2>1, <3>4, <4>1, <5>1 DEF Agreeing, Waits, WaitsIn
      <4> QED
        BY <4>2, <4>3
    <3>6. Stands(a)'
      BY <3>2, <3>4, <3>5 DEF Stands
    <3>7. \A g \in Loads : /\ records'[g].active \in {records[g].active, 0}
                           /\ records'[g].unrecorded \in {records[g].unrecorded, 0, used + 1}
      BY <2>2 DEF Fewer
    <3> QED
      BY <2>1, <3>1, <3>4, <3>6, <3>7, KeepsAgrees
  <2>4. CASE /\ Write(asker, due, LateWith({q}))
             /\ requests' = [SettledIn({q}) EXCEPT ![q].answered = TRUE]
    <3>1. SettledIn({q}) \in [Requests -> RequestType]
      BY SettledInType DEF Typed, Memory
    <3>2. \A p \in Requests : /\ requests'[p].parked = SettledIn({q})[p].parked
                              /\ requests'[p].entry = SettledIn({q})[p].entry
      BY <2>4, <3>1 DEF RequestType
    <3> QED
      BY <1>0, <2>1, <2>2, <2>4, <3>2, SettleAgrees
  <2> QED
    BY <1>4, <2>3, <2>4 DEF Respond
<1>5. ASSUME NEW q \in Requests, RetryBuild(q)
      PROVE  Agrees'
  <2>1. /\ up' /\ UNCHANGED <<row, ask, due, late, asker, requests, record, turns, used>>
        /\ record \in Loads /\ records' = [records EXCEPT ![record].building = {q}]
    BY <1>0, <1>5 DEF RetryBuild, Idle, rows, batch, bounds
  <2>2. Fewer(records') /\ Listens(turns')
    BY <2>1, RecordsHold, NothingMoved, AlikeFewer DEF Holds
  <2> QED
    BY <2>1, <2>2, SteadyAgrees
<1>6. ASSUME NEW t \in Turns, Interrupt(t)
      PROVE  Agrees'
  <2>1. /\ up' /\ UNCHANGED <<row, ask, due, late, asker, requests, record, used>>
        /\ record \in Loads /\ turns' = [turns EXCEPT ![t].stop = TRUE]
        /\ records' = [records EXCEPT ![record].cancelling = t, ![record].cancel = "asked"]
    BY <1>a, <1>6 DEF Interrupt, Idle, rows, batch, bounds, Turns
  <2>2. Holds(records') /\ SameRuns(turns')
    BY <2>1, RecordsHold, RunsWith
  <2>3. Fewer(records') /\ Listens(turns')
    BY <2>2, AlikeFewer DEF Holds, SameRuns, Listens
  <2> QED
    BY <2>1, <2>3, SteadyAgrees
<1>7. ASSUME NEW t \in Turns, InterruptHeld(t)
      PROVE  Agrees'
  <2>1. /\ up' /\ Quiet /\ Active # t
        /\ UNCHANGED <<due, late, asker, requests, record, records, turns, used>>
        /\ \/ /\ row' = [row EXCEPT ![t] = "interrupted"]
              /\ ask' = AskAfter(asker, [due EXCEPT ![t] = "interrupted"], late)
           \/ UNCHANGED <<row, ask>>
    BY <1>7 DEF InterruptHeld, Idle, memory, bounds
  <2>2. PICK a : a = Active
    OBVIOUS
  <2>3. ASSUME a # 0, Active' = a
        PROVE  Stands(a)'
    <3>1. a \in Turns /\ Stands(a) /\ a # t
      BY <2>1, <2>2, <2>3, Actives DEF Agrees
    <3>2. row'[a] = "open" /\ due'[a] = "none" /\ due[a] = "none"
      BY <2>1, <3>1, Kinds DEF Stands
    <3>3. ASSUME NEW q \in Requests, asker[q] = a
          PROVE  Waits(q)' <=> Waits(q)
      <4>1. late[q] = {} /\ late'[q] = {}
        BY <2>1 DEF Quiet, NothingLate
      <4>2. ask'[q] = "pending" <=> ask[q] = "pending"
        <5>1. CASE ask' = AskAfter(asker, [due EXCEPT ![t] = "interrupted"], late)
          <6>1. [due EXCEPT ![t] = "interrupted"][a] = "none"
            BY <3>1, <3>2, Kinds DEF Dues
          <6> QED
            BY <3>3, <4>1, <5>1, <6>1 DEF AskAfter
        <5> QED
          BY <2>1, <5>1
      <4> QED
        BY <4>1, <4>2 DEF Waits, WaitsIn
    <3> QED
      BY <2>1, <3>1, <3>2, <3>3, StandsStill
  <2>4. \A g \in Loads : /\ records'[g].active \in {records[g].active, 0}
                         /\ records'[g].unrecorded \in {records[g].unrecorded, 0, used + 1}
    BY <2>1
  <2> QED
    BY <2>1, <2>2, <2>3, <2>4, KeepsAgrees
<1> QED
  BY <1>1, <1>2, <1>3, <1>4, <1>5, <1>6, <1>7 DEF Clients

LEMMA DispatchAgrees ==
    ASSUME Typed, Owning, Rowed, Agrees, Dispatch
    PROVE  Agrees'
<1>1. /\ up' /\ UNCHANGED <<record, used>> /\ queue # <<>>
  BY DEF Dispatch, Idle, bounds
<1>2. CASE work # 0 /\ Target = work
  <2>1. PICK t \in Turns : t = work
    BY <1>2, Kinds
  <2>2. t = Active /\ Active # 0
    BY <1>2, <2>1, Actives
  <2>3. Owned(t) /\ turns[t].owner = record
    BY <2>2, Actives, Kinds DEF Owned, Loads
  <2>4. PICK outcome \in Ends : outcome = Stopped(work, "completed")
    <3>1. "completed" \in Ends
      BY DEF Ends
    <3> QED
      BY <3>1, StoppedType
  <2>5. End(t, outcome, turns, records, requests, late)
    BY <1>2, <2>1, <2>4 DEF Dispatch
  <2> QED
    BY <1>1, <2>3, <2>5, NothingMoved, EndAgrees, Kinds
<1>3. CASE ~(work # 0 /\ Target = work)
  <2>1. /\ turns' = IF Active = Head(queue) THEN [turns EXCEPT ![Head(queue)].heard = TRUE] ELSE turns
        /\ UNCHANGED <<row, ask, due, late, records, asker, requests>>
    BY <1>3 DEF Dispatch, rows, batch
  <2>2. Listens(turns')
    <3>1. ASSUME NEW t \in Turns
          PROVE  turns'[t].folded = turns[t].folded /\ (turns[t].heard => turns'[t].heard)
      <4>1. turns[t] \in TurnType
        BY Kinds
      <4>2. turns'[t] = turns[t] \/ turns'[t] = [turns[t] EXCEPT !.heard = TRUE]
        BY <2>1, Kinds
      <4> QED
        BY <4>1, <4>2 DEF TurnType
    <3> QED
      BY <3>1 DEF Listens
  <2>3. Fewer(records')
    BY <2>1 DEF Fewer
  <2> QED
    BY <1>1, <2>1, <2>2, <2>3, SteadyAgrees
<1> QED
  BY <1>2, <1>3

\* A request is filed under the active turn: it waits in what is kept, or in the
\* rows.
LEMMA AsksAgree ==
    ASSUME Typed, Owning, Filed, Rowed, Agrees, NEW q \in Requests, ProviderAsks(q)
    PROVE  Agrees'
<1>1. /\ up' /\ UNCHANGED <<record, records, turns, used>>
      /\ asker[q] = 0 /\ requests[q].entry = "none"
  BY DEF ProviderAsks, Idle, bounds
<1>2. requests \in [Requests -> RequestType] /\ asker \in [Requests -> 0..MaxTurns]
  BY DEF Typed, Memory, Batched
<1>3. Active' = Active
  BY <1>1 DEF Active
<1>4. CASE Unrecorded \/ Target = 0
  <2>1. /\ requests' = [requests EXCEPT ![q].parked = TRUE, ![q].entry = "unheard"]
        /\ UNCHANGED <<row, ask, due, late, asker>>
    BY <1>4 DEF ProviderAsks, rows, batch
  <2>2. PICK a : a = Active
    OBVIOUS
  <2>3. ASSUME a # 0 PROVE Stands(a)'
    <3>1. a \in Turns /\ Stands(a)
      BY <2>2, <2>3, Actives DEF Agrees
    <3>2. \A p \in Requests : asker[p] = a => requests'[p] = requests[p] /\ (Waits(p)' <=> Waits(p))
      BY <1>1, <1>2, <2>1, <2>3 DEF Waits, WaitsIn
    <3>3. row'[a] = "open" /\ due'[a] = "none"
      BY <2>1, <3>1 DEF Stands
    <3> QED
      BY <1>1, <2>1, <3>1, <3>2, <3>3, StandsStill
  <2>4. Asked'
    BY <1>1, <2>1, AskedStill DEF Agrees
  <2> QED
    BY <1>1, <1>3, <2>2, <2>3, <2>4 DEF Agrees
<1>5. CASE ~(Unrecorded \/ Target = 0)
  <2>1. PICK a \in Turns : a = Target /\ a = Active
    BY <1>5, Actives
  <2> DEFINE by == [asker EXCEPT ![q] = a]
             l == [late EXCEPT ![q] = @ \union {"request"}]
  <2>2. /\ requests' = [requests EXCEPT ![q].parked = TRUE, ![q].entry = "open"]
        /\ Write(by, due, l) /\ asker' = by
    BY <1>5, <2>1 DEF ProviderAsks, Write
  <2>3. /\ by[q] = a /\ \A p \in Requests : p # q => by[p] = asker[p] /\ l[p] = late[p]
        /\ l[q] = {"request"}
    <3>1. late[q] = {} /\ late \in Lates
      BY <1>1 DEF Filed, Typed, Batched
    <3> QED
      BY <1>2, <3>1 DEF Lates
  <2> HIDE DEF by, l
  <2>4. Stands(a) /\ a # 0
    BY <2>1 DEF Agrees, Turns
  <2>5. /\ row'[a] = "open" /\ due'[a] = "none"
        /\ \A p \in Requests : by[p] = a => (Waits(p)' <=> WaitsIn(l, p))
    BY <2>2, <2>4, WriteWaits DEF Stands
  <2>6. ASSUME NEW p \in Requests, by[p] = a
        PROVE  Agreeing(p, a)'
    <3>1. CASE p = q
      <4>1. requests'[q] = [requests[q] EXCEPT !.parked = TRUE, !.entry = "open"]
            /\ requests[q] \in RequestType
        BY <1>2, <2>2
      <4>2. requests'[q].parked /\ requests'[q].entry = "open"
        BY <4>1 DEF RequestType
      <4>3. Waits(q)'
        BY <2>3, <2>5 DEF WaitsIn
      <4>4. turns[a].folded = 0 => turns[a].heard
        <5>1. a # 0 /\ ((turns[a].folded # 0 /\ turns[a].folded = message) \/ turns[a].heard)
          BY <2>1, <2>4 DEF Target
        <5> QED
          BY <5>1
      <4> QED
        BY <1>1, <3>1, <4>2, <4>3, <4>4 DEF Agreeing
    <3>2. CASE p # q
      <4>1. Agreeing(p, a)
        BY <2>3, <2>4, <2>6, <3>2 DEF Stands
      <4>2. requests'[p] = requests[p]
        BY <1>2, <2>2, <3>2
      <4>3. Waits(p)' <=> Waits(p)
        BY <2>3, <2>5, <2>6, <3>2 DEF Waits, WaitsIn
      <4> QED
        BY <1>1, <4>1, <4>2, <4>3 DEF Agreeing
    <3> QED
      BY <3>1, <3>2
  <2>7. Stands(a)'
    BY <2>2, <2>5, <2>6 DEF Stands
  <2>8. Asked'
    <3> SUFFICES ASSUME NEW p \in Requests
                 PROVE  /\ by[p] <= used
                        /\ by[p] # 0 => \A g \in Loads : records[g].unrecorded # by[p]
      BY <1>1, <2>2 DEF Asked
    <3>1. CASE p = q
      <4>1. record \in Loads /\ records[record].active = a /\ a <= used
        BY <2>1, <2>4, Actives
      <4>2. \A g \in Loads : records[g].unrecorded # 0 => records[record].active # records[g].unrecorded
        BY <4>1 DEF Owning, OwesStart
      <4> QED
        BY <2>3, <2>4, <3>1, <4>1, <4>2
    <3>2. CASE p # q
      BY <2>3, <3>2 DEF Agrees, Asked
    <3> QED
      BY <3>1, <3>2
  <2> QED
    BY <1>1, <1>3, <2>1, <2>7, <2>8 DEF Agrees
<1> QED
  BY <1>4, <1>5

LEMMA BrokerAgrees ==
    ASSUME Typed, Owning, Rowed, Agrees, NEW S, SettleOnly(S), up',
           UNCHANGED <<record, used>>, Fewer(records'), Listens(turns')
    PROVE  Agrees'
<1>1. Speaks
  BY DEF Rowed
<1>2. \A q \in Requests : /\ requests'[q].parked = SettledIn(S)[q].parked
                          /\ requests'[q].entry = SettledIn(S)[q].entry
  BY DEF SettleOnly
<1>3. \/ LateWith(S) = late /\ UNCHANGED <<row, ask, due, late, asker>>
      \/ Write(asker, due, LateWith(S))
  BY DEF SettleOnly, rows, batch
<1> QED
  BY <1>1, <1>2, <1>3, SettleAgrees

\* The active turn ends, or the agent has none to name.
LEMMA OverAgrees ==
    ASSUME Typed, Owning, Rowed, Agrees, up', UNCHANGED <<record, used>>,
           NEW c \in {"resolved", "rejected"}, NEW ts,
           ts = IF work # 0 /\ IsPrompt(work) THEN [turns EXCEPT ![work].chain = c] ELSE turns,
           \/ turns' = ts /\ UNCHANGED <<rows, batch, records, asker, requests>>
           \/ turns' = ts /\ UNCHANGED records /\ \E S : SettleOnly(S)
           \/ /\ Active # 0
              /\ \E qs, l : \E outcome \in Ends : End(Active, outcome, ts, records, qs, l)
    PROVE  Agrees'
<1>0. Placed
  BY DEF Rowed
<1>1. ts \in [Turns -> TurnType] /\ Hears(ts)
  BY <1>0, WorkEnds
<1>2. Listens(ts)
  BY <1>1, HearsListens
<1>3. CASE turns' = ts /\ UNCHANGED <<rows, batch, records, asker, requests>>
  <2>1. UNCHANGED <<row, ask, due, late, asker, requests, records>>
    BY <1>3 DEF rows, batch
  <2>2. Fewer(records') /\ Listens(turns')
    BY <1>2, <1>3 DEF Fewer
  <2> QED
    BY <2>1, <2>2, SteadyAgrees
<1>4. CASE turns' = ts /\ UNCHANGED records /\ \E S : SettleOnly(S)
  <2>1. Fewer(records') /\ Listens(turns')
    BY <1>2, <1>4 DEF Fewer
  <2>2. PICK S : SettleOnly(S)
    BY <1>4
  <2> QED
    BY <2>1, <2>2, BrokerAgrees
<1>5. CASE /\ Active # 0
           /\ \E qs, l : \E outcome \in Ends : End(Active, outcome, ts, records, qs, l)
  <2>1. PICK t \in Turns : t = Active
    BY <1>5, Actives
  <2>2. Owned(t) /\ turns[t].owner = record
    BY <1>5, <2>1, Actives, Kinds DEF Owned, Loads
  <2>3. PICK qs, l : \E outcome \in Ends : End(t, outcome, ts, records, qs, l)
    BY <1>5, <2>1
  <2>4. PICK outcome \in Ends : End(t, outcome, ts, records, qs, l)
    BY <2>3
  <2>5. Alike(records) /\ records \in [Loads -> RecordType]
    BY NothingMoved, Kinds
  <2> QED
    BY <1>1, <1>2, <2>2, <2>4, <2>5, EndAgrees
<1> QED
  BY <1>3, <1>4, <1>5

LEMMA RunEndsAgrees ==
    ASSUME Typed, Owning, Rowed, Agrees, NEW outcome \in Ends, RunEnds(outcome)
    PROVE  Agrees'
<1>1. PICK c \in {"resolved", "rejected"} : c = IF outcome = "failed" THEN "rejected" ELSE "resolved"
  OBVIOUS
<1> DEFINE ts == IF work # 0 /\ IsPrompt(work) THEN [turns EXCEPT ![work].chain = c] ELSE turns
<1>2. up' /\ work # 0 /\ UNCHANGED <<record, used>>
  BY DEF RunEnds, Idle, bounds
<1>3. ts = IF IsPrompt(work)
           THEN [turns EXCEPT ![work].chain = IF outcome = "failed" THEN "rejected" ELSE "resolved"]
           ELSE turns
  BY <1>1, <1>2
<1> HIDE DEF ts
<1>4. \/ turns' = ts /\ UNCHANGED <<rows, batch, records, asker, requests>>
      \/ Target # 0 /\ End(Target, Stopped(Target, outcome), ts, records, requests, late)
  BY <1>3 DEF RunEnds
<1>5. CASE Target # 0 /\ End(Target, Stopped(Target, outcome), ts, records, requests, late)
  <2>1. Target = Active /\ Active # 0
    BY <1>5, Actives
  <2>2. Stopped(Target, outcome) \in Ends
    BY StoppedType
  <2>3. \E qs, l : \E o \in Ends : End(Active, o, ts, records, qs, l)
    BY <1>5, <2>1, <2>2
  <2>4. ts = IF work # 0 /\ IsPrompt(work) THEN [turns EXCEPT ![work].chain = c] ELSE turns
    BY DEF ts
  <2> QED
    BY <1>2, <2>1, <2>3, <2>4, OverAgrees
<1>6. CASE turns' = ts /\ UNCHANGED <<rows, batch, records, asker, requests>>
  <2>1. ts = IF work # 0 /\ IsPrompt(work) THEN [turns EXCEPT ![work].chain = c] ELSE turns
    BY DEF ts
  <2> QED
    BY <1>2, <1>6, <2>1, OverAgrees
<1> QED
  BY <1>4, <1>5, <1>6

LEMMA ExitAgrees ==
    ASSUME Typed, Owning, Rowed, Agrees, ProcessExits
    PROVE  Agrees'
<1> DEFINE ts == IF work # 0 /\ IsPrompt(work) THEN [turns EXCEPT ![work].chain = "rejected"] ELSE turns
<1>1. PICK c \in {"resolved", "rejected"} : c = "rejected"
  OBVIOUS
<1>2. up' /\ UNCHANGED <<record, used>>
  BY DEF ProcessExits, Idle, bounds
<1>3. ts = IF work # 0 /\ IsPrompt(work) THEN [turns EXCEPT ![work].chain = c] ELSE turns
  BY <1>1
<1>4. ts = IF work # 0 /\ IsPrompt(work) THEN [turns EXCEPT ![work].chain = "rejected"] ELSE turns
  OBVIOUS
<1> HIDE DEF ts
<1>5. \/ /\ Active # 0
         /\ End(Active, Stopped(Active, "failed"), ts, records, SettledIn(Parked), LateWith(Parked))
      \/ SettleOnly(Parked) /\ turns' = ts /\ UNCHANGED records
  BY <1>4 DEF ProcessExits
<1>6. Stopped(Active, "failed") \in Ends
  <2>1. "failed" \in Ends
    BY DEF Ends
  <2> QED
    BY <2>1, StoppedType
<1>7. \/ turns' = ts /\ UNCHANGED records /\ \E S : SettleOnly(S)
      \/ /\ Active # 0
         /\ \E qs, l : \E outcome \in Ends : End(Active, outcome, ts, records, qs, l)
  BY <1>5, <1>6
<1> QED
  BY <1>2, <1>3, <1>7, OverAgrees

LEMMA BackgroundAgrees ==
    ASSUME Typed, Owning, Agrees, BackgroundStarts
    PROVE  Agrees'
<1> USE Kinds
<1>1. up' /\ used < MaxTurns /\ used' = used + 1 /\ UNCHANGED <<record, requests>>
  BY DEF BackgroundStarts, Idle
<1>2. PICK b \in Turns : b = used + 1
  BY <1>1 DEF Turns
<1>3. CASE record # 0 /\ Opens(used + 1)
  <2>1. Opens(b) /\ record # 0 /\ used' \in {used, used + 1}
    BY <1>1, <1>2, <1>3
  <2>2. \A q \in Requests : asker[q] # b
    BY <1>2 DEF Agrees, Asked
  <2> QED
    BY <1>1, <2>1, <2>2, OpensAgrees
<1>4. CASE ~(record # 0 /\ Opens(used + 1))
  <2>1. /\ UNCHANGED <<row, ask, due, late, turns, asker>>
        /\ \/ records' = records
           \/ record # 0 /\ records' = [records EXCEPT ![record].unrecorded = used + 1]
    BY <1>4 DEF BackgroundStarts, rows, batch
  <2>2. \A g \in Loads : /\ records'[g].active = records[g].active
                         /\ records'[g].unrecorded \in {records[g].unrecorded, used + 1}
    <3>1. ASSUME NEW g \in Loads
          PROVE  /\ records'[g].active = records[g].active
                 /\ records'[g].unrecorded \in {records[g].unrecorded, used + 1}
      <4>1. records'[g] \in {records[g], [records[g] EXCEPT !.unrecorded = used + 1]}
        BY <2>1
      <4> QED
        BY <4>1 DEF RecordType
    <3> QED
      BY <3>1
  <2>3. PICK a : a = Active
    OBVIOUS
  <2>4. ASSUME a # 0
        PROVE  Stands(a)'
    <3>1. a \in Turns /\ Stands(a)
      BY <2>3, <2>4, Actives DEF Agrees
    <3>2. row'[a] = "open" /\ due'[a] = "none"
      BY <2>1, <3>1 DEF Stands
    <3>3. \A q \in Requests : requests'[q] = requests[q] /\ (Waits(q)' <=> Waits(q))
      BY <1>1, <2>1 DEF Waits, WaitsIn
    <3> QED
      BY <2>1, <3>1, <3>2, <3>3, StandsStill
  <2>5. \A g \in Loads : /\ records'[g].active \in {records[g].active, 0}
                         /\ records'[g].unrecorded \in {records[g].unrecorded, 0, used + 1}
    BY <2>2
  <2> QED
    BY <1>1, <2>1, <2>3, <2>4, <2>5, KeepsAgrees
<1> QED
  BY <1>3, <1>4

LEMMA AgentAgrees ==
    ASSUME Typed, Owning, Filed, Rowed, Agrees, Agent
    PROVE  Agrees'
<1>1. ASSUME NEW t \in Turns, PromptRejected(t)
      PROVE  Agrees'
  <2>1. /\ up' /\ turns' = [turns EXCEPT ![t].chain = "rejected"]
        /\ UNCHANGED <<row, ask, due, late, asker, requests, record, records, used>>
    BY <1>1 DEF PromptRejected, Idle, rows, batch, bounds
  <2>2. Fewer(records') /\ Listens(turns')
    <3>1. ASSUME NEW u \in Turns
          PROVE  turns'[u].folded = turns[u].folded /\ (turns[u].heard => turns'[u].heard)
      <4>1. turns'[u] \in {turns[u], [turns[u] EXCEPT !.chain = "rejected"]} /\ turns[u] \in TurnType
        BY <2>1, Kinds
      <4> QED
        BY <4>1 DEF TurnType
    <3> QED
      BY <2>1, <3>1 DEF Fewer, Listens
  <2> QED
    BY <2>1, <2>2, SteadyAgrees
<1>2. ASSUME NEW q \in Requests, BrokerSettles(q)
      PROVE  Agrees'
  <2>1. up' /\ SettleOnly({q}) /\ UNCHANGED <<record, records, turns, used>>
    BY <1>2 DEF BrokerSettles, Idle, bounds
  <2>2. Fewer(records') /\ Listens(turns')
    BY <2>1 DEF Fewer, Listens
  <2> QED
    BY <2>1, <2>2, BrokerAgrees
<1>3. CASE BackgroundSpeaks
  <2>1. /\ up' /\ record # 0 /\ message # 0 /\ records[record].unrecorded = message /\ Opens(message)
        /\ UNCHANGED <<record, requests, used>>
    BY <1>3 DEF BackgroundSpeaks, Unrecorded, Idle, bounds
  <2>2. PICK b \in Turns : b = message
    BY <2>1, Kinds
  <2>3. \A q \in Requests : asker[q] # b
    BY <2>1, <2>2, Kinds DEF Agrees, Asked
  <2>4. Opens(b) /\ used' \in {used, used + 1}
    BY <2>1, <2>2
  <2> QED
    BY <2>1, <2>3, <2>4, OpensAgrees
<1> QED
  BY <1>1, <1>2, <1>3, DispatchAgrees, AsksAgree, RunEndsAgrees, ExitAgrees, BackgroundAgrees DEF Agent

LEMMA CancelAgrees ==
    ASSUME Typed, Owning, Rowed, Agrees, NEW g \in Loads,
           CancelReaches(g) \/ CancelErrs(g) \/ CancelReturns(g)
    PROVE  Agrees'
<1>0. up' /\ UNCHANGED <<record, used>>
  BY DEF CancelReaches, CancelErrs, CancelReturns, Idle, bounds
<1>1. CASE CancelReaches(g)
  <2>1. SettleOnly(Parked) /\ records' = [records EXCEPT ![g].cancel = "sent"] /\ UNCHANGED turns
    BY <1>1 DEF CancelReaches
  <2>2. Fewer(records') /\ Listens(turns')
    BY <2>1, RecordsHold, AlikeFewer DEF Holds, Listens
  <2> QED
    BY <1>0, <2>1, <2>2, BrokerAgrees
<1>2. CASE CancelErrs(g)
  <2> DEFINE rs == [records EXCEPT ![g].cancel = "failed"]
  <2>1. Alike(rs) /\ rs \in [Loads -> RecordType]
    BY RecordsHold, RecordsWith, Kinds DEF Holds
  <2>2. \/ records' = rs /\ UNCHANGED <<rows, batch, turns, asker, requests, history>>
        \/ Target # 0 /\ End(Target, Stopped(Target, "failed"), turns, rs, requests, late)
    BY <1>2 DEF CancelErrs
  <2> HIDE DEF rs
  <2>3. CASE records' = rs /\ UNCHANGED <<rows, batch, turns, asker, requests, history>>
    <3>1. UNCHANGED <<row, ask, due, late, asker, requests>>
      BY <2>3 DEF rows, batch
    <3>2. Fewer(records') /\ Listens(turns')
      BY <2>1, <2>3, AlikeFewer DEF Listens
    <3> QED
      BY <1>0, <3>1, <3>2, SteadyAgrees
  <2>4. CASE Target # 0 /\ End(Target, Stopped(Target, "failed"), turns, rs, requests, late)
    <3>1. PICK t \in Turns : t = Target
      BY <2>4, Actives
    <3>2. Owned(t)
      BY <2>4, <3>1, Actives, Kinds DEF Owned, Loads
    <3>3. PICK outcome \in Ends : outcome = Stopped(Target, "failed")
      <4>1. "failed" \in Ends
        BY DEF Ends
      <4> QED
        BY <4>1, StoppedType
    <3>4. End(t, outcome, turns, rs, requests, late)
      BY <2>4, <3>1, <3>3
    <3>5. Listens(turns) /\ turns \in [Turns -> TurnType]
      BY NothingMoved, Kinds
    <3> QED
      BY <1>0, <2>1, <3>2, <3>4, <3>5, EndAgrees
  <2> QED
    BY <2>2, <2>3, <2>4
<1>3. CASE CancelReturns(g)
  <2> DEFINE t == records[g].cancelling
             rs == [records EXCEPT ![g].cancelling = 0, ![g].cancel = "none"]
  <2>1. Alike(rs)
    BY RecordsHold DEF Holds
  <2>2. t \in Turns
    <3>1. records[g] \in RecordType
      BY Kinds
    <3>2. t \in 0..MaxTurns /\ t # 0
      BY <1>3, <3>1 DEF RecordType, CancelReturns
    <3> QED
      BY <3>2, Kinds
  <2>3. rs \in [Loads -> RecordType]
    <3>1. records[g] \in RecordType /\ records \in [Loads -> RecordType] /\ 0 \in 0..MaxTurns
      BY Kinds
    <3>2. [records[g] EXCEPT !.cancelling = 0, !.cancel = "none"] \in RecordType
      BY <3>1 DEF RecordType
    <3>3. rs = [records EXCEPT ![g] = [records[g] EXCEPT !.cancelling = 0, !.cancel = "none"]]
      BY <3>1
    <3> QED
      BY <3>1, <3>2, <3>3
  <2>4. \/ /\ turns' = turns \/ turns' = [turns EXCEPT ![t].stop = FALSE]
           /\ records' = rs /\ UNCHANGED <<rows, batch, asker, requests, history>>
        \/ records[g].active = t /\ End(t, "interrupted", turns, rs, requests, late)
    BY <1>3 DEF CancelReturns
  <2> HIDE DEF t, rs
  <2>5. CASE /\ turns' = turns \/ turns' = [turns EXCEPT ![t].stop = FALSE]
             /\ records' = rs /\ UNCHANGED <<rows, batch, asker, requests, history>>
    <3>1. UNCHANGED <<row, ask, due, late, asker, requests>>
      BY <2>5 DEF rows, batch
    <3>2. SameRuns(turns')
      BY <2>2, <2>5, RunsWith
    <3>3. Fewer(records') /\ Listens(turns')
      BY <2>1, <2>5, <3>2, AlikeFewer DEF SameRuns, Listens
    <3> QED
      BY <1>0, <3>1, <3>3, SteadyAgrees
  <2>6. CASE records[g].active = t /\ End(t, "interrupted", turns, rs, requests, late)
    <3>1. Owned(t)
      <4>1. t # 0
        BY <2>2 DEF Turns
      <4>2. turns[t].owner = g
        BY <2>6, <4>1, Actives
      <4> QED
        BY <2>6, <4>2 DEF Owned, Loads
    <3>2. Listens(turns) /\ turns \in [Turns -> TurnType] /\ "interrupted" \in Ends
      BY NothingMoved, Kinds DEF Ends
    <3> QED
      BY <1>0, <2>1, <2>2, <2>3, <2>6, <3>1, <3>2, EndAgrees
  <2> QED
    BY <2>4, <2>5, <2>6
<1> QED
  BY <1>1, <1>2, <1>3

LEMMA ChainListens ==
    ASSUME Typed, NEW t \in Turns, NEW c \in Chains
    PROVE  /\ Listens([turns EXCEPT ![t].chain = c])
           /\ [turns EXCEPT ![t].chain = c] \in [Turns -> TurnType]
<1>1. turns \in [Turns -> TurnType]
  BY Kinds
<1>2. ASSUME NEW u \in Turns
      PROVE  /\ [turns EXCEPT ![t].chain = c][u].folded = turns[u].folded
             /\ turns[u].heard => [turns EXCEPT ![t].chain = c][u].heard
  <2>1. turns[u] \in TurnType
    BY <1>1
  <2>2. [turns EXCEPT ![t].chain = c][u] \in {turns[u], [turns[u] EXCEPT !.chain = c]}
    BY <1>1
  <2> QED
    BY <2>1, <2>2 DEF TurnType
<1> QED
  BY <1>1, <1>2, TurnsWith DEF Listens

\* A prompt moves on, with its turn or without.
LEMMA MovesAgree ==
    ASSUME Typed, Owning, Agrees, up', UNCHANGED <<record, used>>, NEW t \in Turns, NEW c \in Chains,
           \/ /\ turns' = [turns EXCEPT ![t].chain = c]
              /\ UNCHANGED <<rows, batch, records, asker, requests>>
           \/ /\ Owned(t)
              /\ \E outcome \in Ends :
                    End(t, outcome, [turns EXCEPT ![t].chain = c], records, requests, late)
    PROVE  Agrees'
<1> DEFINE ts == [turns EXCEPT ![t].chain = c]
<1>1. Listens(ts) /\ ts \in [Turns -> TurnType]
  BY ChainListens
<1>2. \/ turns' = ts /\ UNCHANGED <<rows, batch, records, asker, requests>>
      \/ /\ Owned(t)
         /\ \E outcome \in Ends : End(t, outcome, ts, records, requests, late)
  OBVIOUS
<1> HIDE DEF ts
<1>3. CASE turns' = ts /\ UNCHANGED <<rows, batch, records, asker, requests>>
  <2>1. UNCHANGED <<row, ask, due, late, asker, requests>>
    BY <1>3 DEF rows, batch
  <2>2. Fewer(records') /\ Listens(turns')
    BY <1>1, <1>3 DEF Fewer
  <2> QED
    BY <2>1, <2>2, SteadyAgrees
<1>4. CASE /\ Owned(t)
           /\ \E outcome \in Ends : End(t, outcome, ts, records, requests, late)
  <2>1. PICK outcome \in Ends : End(t, outcome, ts, records, requests, late)
    BY <1>4
  <2>2. Alike(records) /\ records \in [Loads -> RecordType]
    BY NothingMoved, Kinds
  <2> QED
    BY <1>1, <1>4, <2>1, <2>2, EndAgrees
<1> QED
  BY <1>2, <1>3, <1>4

LEMMA PromisesAgree ==
    ASSUME Typed, Owning, Rowed, Agrees, Promises
    PROVE  Agrees'
<1>1. ASSUME NEW g \in Loads, SessionReady(g) \/ SessionFails(g)
      PROVE  Agrees'
  <2>1. /\ up' /\ UNCHANGED <<asker, requests, turns, used>> /\ record' \in {record, 0}
        /\ \E s : records' = [records EXCEPT ![g].session = s]
        /\ record' # 0 => UNCHANGED <<row, ask, due, late>>
    <3>1. CASE SessionReady(g)
      BY <3>1 DEF SessionReady, rows, batch, bounds
    <3>2. CASE SessionFails(g)
      BY <3>2 DEF SessionFails, rows, batch, bounds, Loads
    <3> QED
      BY <1>1, <3>1, <3>2
  <2>2. Fewer(records')
    BY <2>1, RecordsAlike, AlikeFewer, Kinds
  <2>3. Listens(turns')
    BY <2>1 DEF Listens
  <2> QED
    BY <2>1, <2>2, <2>3, SteadyAgrees
<1>2. ASSUME NEW g \in Loads, BuildContinues(g)
      PROVE  Agrees'
  <2> DEFINE rs == [records EXCEPT ![g].building = {}]
  <2>1. up' /\ UNCHANGED <<asker, requests>> /\ Placed
    BY <1>2 DEF BuildContinues, Rowed
  <2>2. Holds(rs) /\ rs \in [Loads -> RecordType]
    BY RecordsHold, Kinds, {} \in SUBSET Requests, RecordsWith
  <2>3. PICK q \in Requests :
           \/ record = g /\ SendAs(q, rs)
           \/ records' = rs /\ UNCHANGED <<rows, batch, record, turns, reply, used, loads>>
    <3>1. records[g] \in RecordType
      BY Kinds
    <3>2. records[g].building \subseteq Requests
      BY <3>1 DEF RecordType
    <3> QED
      BY <1>2, <3>2 DEF BuildContinues
  <2> HIDE DEF rs
  <2>4. CASE record = g /\ SendAs(q, rs)
    <3>1. Attaches(rs)
      BY <2>2, <2>4 DEF Attaches, Loads
    <3> QED
      BY <2>1, <2>2, <2>4, <3>1, SendAsAgrees
  <2>5. CASE records' = rs /\ UNCHANGED <<rows, batch, record, turns, reply, used, loads>>
    <3>1. UNCHANGED <<row, ask, due, late, record, turns, used>>
      BY <2>5 DEF rows, batch
    <3>2. Fewer(records') /\ Listens(turns')
      BY <2>2, <2>5, AlikeFewer DEF Holds, Listens
    <3> QED
      BY <2>1, <3>1, <3>2, SteadyAgrees
  <2> QED
    BY <2>3, <2>4, <2>5
<1>3. ASSUME NEW t \in Turns, StartPrompt(t)
      PROVE  Agrees'
  <2>1. up' /\ UNCHANGED <<record, used>> /\ "failed" \in Ends
    BY <1>3 DEF StartPrompt, bounds, Ends
  <2>2. \E c \in {"skipped", "prompted"} :
           \/ /\ turns' = [turns EXCEPT ![t].chain = c]
              /\ UNCHANGED <<rows, batch, records, asker, requests>>
           \/ /\ Owned(t)
              /\ End(t, "failed", [turns EXCEPT ![t].chain = c], records, requests, late)
    BY <1>3 DEF StartPrompt, Skips
  <2>3. {"skipped", "prompted"} \subseteq Chains
    BY DEF Chains
  <2> QED
    BY <2>1, <2>2, <2>3, MovesAgree
<1>4. ASSUME NEW t \in Turns, PromptSettles(t)
      PROVE  Agrees'
  <2>1. up' /\ UNCHANGED <<record, used>>
    BY <1>4 DEF PromptSettles, bounds
  <2>2. PICK c \in {"settled", "failed"} : c = IF turns[t].chain = "resolved" THEN "settled" ELSE "failed"
    OBVIOUS
  <2>3. PICK e \in {"completed", "failed"} : e = IF turns[t].chain = "resolved" THEN "completed" ELSE "failed"
    OBVIOUS
  <2>4. Stopped(t, e) \in Ends /\ c \in Chains
    <3>1. e \in Ends
      BY DEF Ends
    <3> QED
      BY <3>1, StoppedType DEF Chains
  <2>5. \/ Owned(t) /\ End(t, Stopped(t, e), [turns EXCEPT ![t].chain = c], records, requests, late)
        \/ /\ turns' = [turns EXCEPT ![t].chain = c]
           /\ UNCHANGED <<rows, batch, records, asker, requests>>
    BY <1>4, <2>2, <2>3 DEF PromptSettles
  <2> QED
    BY <2>1, <2>4, <2>5, MovesAgree
<1> QED
  BY <1>1, <1>2, <1>3, <1>4, CancelAgrees DEF Promises

LEMMA OthersAgree ==
    ASSUME Typed, Owning, Agrees, Faults \/ Commit \/ Boot
    PROVE  Agrees'
<1>1. CASE DroppedWithParent \/ RemoveFails
  <2>1. up' /\ record' = 0 /\ UNCHANGED <<asker, requests, used>>
    BY <1>1 DEF DroppedWithParent, RemoveFails, Idle, bounds, Abandon
  <2>2. Fewer(records') /\ Listens(turns')
    <3>1. CASE DroppedWithParent
      BY <3>1 DEF DroppedWithParent, Fewer, Listens
    <3>2. CASE RemoveFails
      <4>1. Abandon
        BY <3>2 DEF RemoveFails
      <4> QED
        BY <4>1, AbandonFields, HearsListens DEF LetsGo
    <3> QED
      BY <1>1, <3>1, <3>2
  <2> QED
    BY <2>1, <2>2, SteadyAgrees
<1>2. CASE Crash
  <2>1. /\ record' = 0 /\ UNCHANGED <<asker, used>>
        /\ records' = [g \in Loads |-> NoRecord]
    BY <1>2 DEF Crash, bounds
  <2>2. \A g \in Loads : records'[g].unrecorded \in {records[g].unrecorded, 0, used + 1}
    BY <2>1 DEF NoRecord
  <2>3. Active' = 0
    BY <2>1 DEF Active
  <2>4. Asked'
    BY <2>1, <2>2, AskedStill DEF Agrees
  <2> QED
    BY <2>1, <2>3, <2>4 DEF Agrees
<1>3. CASE Commit
  <2>1. /\ up' /\ UNCHANGED <<asker, requests, record, records, turns, used>>
        /\ Write(asker, due, late)
    BY <1>3 DEF Commit, Write, memory, bounds
  <2>2. PICK a : a = Active
    OBVIOUS
  <2>3. ASSUME a # 0
        PROVE  Stands(a)'
    <3>1. a \in Turns /\ Stands(a)
      BY <2>2, <2>3, Actives DEF Agrees
    <3>2. /\ row'[a] = "open" /\ due'[a] = "none"
          /\ \A q \in Requests : asker[q] = a => (Waits(q)' <=> WaitsIn(late, q))
      BY <2>1, <3>1, WriteWaits DEF Stands
    <3> QED
      BY <2>1, <3>1, <3>2, StandsStill DEF Waits
  <2>4. \A g \in Loads : /\ records'[g].active \in {records[g].active, 0}
                         /\ records'[g].unrecorded \in {records[g].unrecorded, 0, used + 1}
    BY <2>1
  <2> QED
    BY <2>1, <2>2, <2>3, <2>4, KeepsAgrees
<1>4. CASE Boot
  <2>1. up' /\ record' = 0 /\ UNCHANGED <<asker, requests, turns, records, used>>
        /\ record' \in {record, 0}
    BY <1>4 DEF Boot, memory, Agrees
  <2>2. Fewer(records') /\ Listens(turns')
    BY <2>1 DEF Fewer, Listens
  <2> QED
    BY <2>1, <2>2, SteadyAgrees
<1> QED
  BY <1>1, <1>2, <1>3, <1>4 DEF Faults

LEMMA StepAgrees ==
    ASSUME Typed, Owning, Filed, Rowed, Agrees, [Next]_vars
    PROVE  Agrees'
<1>1. CASE Next
  BY <1>1, ClientsAgree, AgentAgrees, PromisesAgree, OthersAgree DEF Next
<1>2. CASE UNCHANGED vars
  <2>1. UNCHANGED up
    BY <1>2, Zenon DEF vars
  <2>2. UNCHANGED <<rows, batch, memory, bounds>>
    BY <1>2, Zenon DEF vars
  <2>3. UNCHANGED <<row, ask, due, late, asker, requests, record, records, turns, used>>
    BY <2>2 DEF rows, batch, memory, bounds
  <2>4. Asked' /\ Active' = Active
    BY <2>3 DEF Agrees, Asked, Active
  <2>5. \A a : Stands(a) => Stands(a)'
    BY <2>3 DEF Stands, Agreeing, Waits, WaitsIn
  <2>6. ~up' => ~up
    BY <2>1, Zenon
  <2> QED
    BY <2>3, <2>4, <2>5, <2>6 DEF Agrees
<1> QED
  BY <1>1, <1>2

\* What memory takes an answer to is pending in the rows once what is kept is
\* written, and what memory has settled is not: no client answers a request the
\* rows have closed, and none is asked again what was answered.
THEOREM MemoryAgrees == Spec => []MemoryAgreesWithRows
<1>1. Init => Typed /\ Owning /\ Filed /\ Rowed /\ Agrees
  <2> SUFFICES ASSUME Init PROVE Owning /\ Filed /\ Agrees
    BY InitTyped, InitRowed
  <2>1. \A g \in Loads : records[g].active = 0 /\ records[g].unrecorded = 0
    BY DEF Init, NoRecord
  <2>2. Owning
    BY <2>1 DEF Init, Owning, OwnsActive, OwesStart
  <2>3. Filed
    BY DEF Init, Filed, NothingLate
  <2>4. Active = 0 /\ up
    <3>1. record \in 0..MaxLoads
      BY InitTyped, Kinds
    <3>2. up
      BY Zenon DEF Init
    <3> QED
      BY <2>1, <3>1, <3>2, InitTyped, Kinds DEF Active
  <2>5. Asked
    BY DEF Init, Asked
  <2> QED
    BY <2>2, <2>3, <2>4, <2>5 DEF Agrees
<1>2. Typed /\ Owning /\ Filed /\ Rowed /\ Agrees /\ [Next]_vars
         => (Typed /\ Owning /\ Filed /\ Rowed /\ Agrees)'
  BY StepTyped, StepOwning, StepFiled, StepRowed, StepAgrees
<1>3. Typed /\ Owning /\ Agrees => MemoryAgreesWithRows
  <2> SUFFICES ASSUME Typed, Owning, Agrees, NEW q \in Requests, record # 0, asker[q] # 0,
                      asker[q] = Active
               PROVE  LET pending == AskAfter(asker, due, late)[q] = "pending"
                      IN  /\ requests[q].entry = "open" => pending
                          /\ requests[q].entry = "settled" /\ turns[asker[q]].folded = 0 => ~pending
    BY DEF MemoryAgreesWithRows
  <2>1. Stands(asker[q])
    BY DEF Agrees
  <2>2. AskAfter(asker, due, late)[q] = "pending" <=> Waits(q)
    BY <2>1, WaitingIsPending DEF Stands
  <2> QED
    BY <2>1, <2>2 DEF Stands, Agreeing
<1> QED
  BY <1>1, <1>2, <1>3, PTL DEF Spec
=============================================================================
