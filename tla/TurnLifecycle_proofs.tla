------------------------ MODULE TurnLifecycle_proofs ------------------------
(***************************************************************************)
(* Proofs about the turns of a thread, for any commands and requests and   *)
(* any number of turns, records, failing writes and restarts.              *)
(***************************************************************************)
EXTENDS TurnLifecycle, FiniteSetTheorems, TLAPS

Rows == {"absent", "open"} \union Ends
Asks == {"absent", "pending", "resolved", "cancelled"}
Dues == [Turns -> Outcomes]
Lates == [Requests -> SUBSET {"request", "settle"}]

LEMMA TypesOfNothing ==
    /\ NothingDue \in Dues /\ NothingLate \in Lates
    /\ NoRecord \in RecordType /\ NoTurn \in TurnType /\ NoRequest \in RequestType
  BY TurnLifecycleAssumption
  DEF NothingDue, NothingLate, NoRecord, NoTurn, NoRequest, Dues, Lates, Outcomes, Ends,
      RecordType, TurnType, RequestType

LEMMA RowsAfterType ==
    ASSUME NEW d \in Dues, row \in [Turns -> Rows]
    PROVE  RowsAfter(d) \in [Turns -> Rows]
  BY DEF RowsAfter, Rows, Dues, Outcomes, Ends

LEMMA AskAfterType ==
    ASSUME NEW by, NEW d, NEW l, ask \in [Requests -> Asks]
    PROVE  AskAfter(by, d, l) \in [Requests -> Asks]
  BY DEF AskAfter, Asks

Batched ==
    /\ held \in BOOLEAN /\ row \in [Turns -> Rows]
    /\ command \in [Turns -> SUBSET CommandIds] /\ ask \in [Requests -> Asks]
    /\ due \in Dues /\ late \in Lates
    /\ asker \in [Requests -> 0..MaxTurns] /\ failures \in 0..MaxFailures

LEMMA WriteType ==
    ASSUME Batched,
           NEW by \in [Requests -> 0..MaxTurns], NEW d \in Dues, NEW l \in Lates,
           Write(by, d, l)
    PROVE  Batched'
  BY RowsAfterType, AskAfterType, TypesOfNothing, TurnLifecycleAssumption
  DEF Batched, Write, Written, WriteFails

LEMMA EndType ==
    ASSUME Batched, NEW t \in Turns, NEW outcome \in Ends, NEW ts \in [Turns -> TurnType],
           NEW rs \in [Loads -> RecordType], NEW qs \in [Requests -> RequestType],
           NEW l \in Lates, twice \subseteq Turns, End(t, outcome, ts, rs, qs, l)
    PROVE  /\ Batched' /\ turns' \in [Turns -> TurnType] /\ records' \in [Loads -> RecordType]
           /\ requests' \in [Requests -> RequestType] /\ twice' \subseteq Turns
<1>1. [due EXCEPT ![t] = IF @ = "none" THEN outcome ELSE @] \in Dues
  BY DEF Batched, Dues, Outcomes
<1>2. Batched'
  BY <1>1, WriteType DEF End, Batched
<1>3. turns' \in [Turns -> TurnType]
  <2>1. \A x \in TurnType :
           [x EXCEPT !.said = outcome, !.heard = FALSE, !.folded = 0] \in TurnType
    <3> SUFFICES ASSUME NEW x \in TurnType
                 PROVE  [x EXCEPT !.said = outcome, !.heard = FALSE, !.folded = 0] \in TurnType
      OBVIOUS
    <3>1. 0 \in 0..MaxTurns /\ outcome \in Outcomes
      BY TurnLifecycleAssumption DEF Outcomes
    <3> QED
      BY <3>1 DEF TurnType
  <2>2. turns' = [ts EXCEPT ![t] = [ts[t] EXCEPT !.said = outcome, !.heard = FALSE, !.folded = 0]]
    BY DEF End
  <2> QED
    BY <2>1, <2>2
<1>4. records' \in [Loads -> RecordType]
  <2>1. \A r \in RecordType : [r EXCEPT !.active = 0] \in RecordType
    BY TurnLifecycleAssumption DEF RecordType
  <2>2. records' = [rs EXCEPT ![turns[t].owner] = [@ EXCEPT !.active = 0]]
    BY DEF End
  <2> QED
    BY <2>1, <2>2
<1>5. requests' \in [Requests -> RequestType]
  <2>1. \A r \in RequestType : [r EXCEPT !.entry = "settled"] \in RequestType
    BY DEF RequestType
  <2>2. \A q \in Requests : requests'[q] \in {qs[q], [qs[q] EXCEPT !.entry = "settled"]}
    BY DEF End
  <2>3. DOMAIN requests' = Requests /\ requests' = [q \in Requests |-> requests'[q]]
    BY DEF End
  <2> QED
    BY <2>1, <2>2, <2>3
<1> QED
  BY <1>2, <1>3, <1>4, <1>5 DEF End

Chains == {"none", "waiting", "skipped", "prompted", "resolved", "rejected", "settled", "failed"}

LEMMA TurnFields ==
    ASSUME NEW x \in TurnType
    PROVE  /\ \A c \in Chains : [x EXCEPT !.chain = c] \in TurnType
           /\ \A b \in BOOLEAN : [x EXCEPT !.stop = b] \in TurnType
           /\ \A b \in BOOLEAN : [x EXCEPT !.heard = b] \in TurnType
           /\ \A n \in 0..MaxTurns : [x EXCEPT !.folded = n] \in TurnType
  BY DEF TurnType, Chains

LEMMA NewTurns ==
    ASSUME NEW g \in 0..MaxLoads
    PROVE  /\ [NoTurn EXCEPT !.owner = g, !.chain = "waiting"] \in TurnType
           /\ [NoTurn EXCEPT !.owner = g, !.heard = TRUE] \in TurnType
<1>1. [NoTurn EXCEPT !.owner = g] \in TurnType
  BY TypesOfNothing DEF TurnType
<1>2. [[NoTurn EXCEPT !.owner = g] EXCEPT !.chain = "waiting"] \in TurnType
  BY <1>1, TurnFields DEF Chains
<1>3. [[NoTurn EXCEPT !.owner = g] EXCEPT !.heard = TRUE] \in TurnType
  BY <1>1, TurnFields
<1> QED
  BY <1>2, <1>3

LEMMA RecordFields ==
    ASSUME NEW x \in RecordType
    PROVE  /\ \A n \in 0..MaxTurns : /\ [x EXCEPT !.active = n] \in RecordType
                                     /\ [x EXCEPT !.cancelling = n] \in RecordType
                                     /\ [x EXCEPT !.unrecorded = n] \in RecordType
           /\ \A v \in {"none", "loading", "ready", "failed"} :
                 [x EXCEPT !.session = v] \in RecordType
           /\ \A v \in {"none", "asked", "sent", "failed"} : [x EXCEPT !.cancel = v] \in RecordType
           /\ \A S \in SUBSET Requests : [x EXCEPT !.building = S] \in RecordType
<1>1. \A n \in 0..MaxTurns : [x EXCEPT !.active = n] \in RecordType
  BY DEF RecordType
<1>2. \A n \in 0..MaxTurns : [x EXCEPT !.cancelling = n] \in RecordType
  BY DEF RecordType
<1>3. \A n \in 0..MaxTurns : [x EXCEPT !.unrecorded = n] \in RecordType
  BY DEF RecordType
<1>4. \A v \in {"none", "loading", "ready", "failed"} : [x EXCEPT !.session = v] \in RecordType
  BY DEF RecordType
<1>5. \A v \in {"none", "asked", "sent", "failed"} : [x EXCEPT !.cancel = v] \in RecordType
  BY DEF RecordType
<1>6. \A S \in SUBSET Requests : [x EXCEPT !.building = S] \in RecordType
  BY DEF RecordType
<1> QED
  BY <1>1, <1>2, <1>3, <1>4, <1>5, <1>6

LEMMA RequestFields ==
    ASSUME NEW x \in RequestType
    PROVE  /\ \A b \in BOOLEAN : [x EXCEPT !.parked = b] \in RequestType
           /\ \A b \in BOOLEAN : [x EXCEPT !.answered = b] \in RequestType
           /\ \A v \in {"none", "unheard", "open", "settled"} :
                 [x EXCEPT !.entry = v] \in RequestType
  BY DEF RequestType

Memory ==
    /\ record \in 0..MaxLoads /\ records \in [Loads -> RecordType]
    /\ turns \in [Turns -> TurnType] /\ requests \in [Requests -> RequestType]
Working ==
    /\ queue \in Seq(Turns) /\ work \in 0..MaxTurns /\ message \in 0..MaxTurns
    /\ background \in BOOLEAN
Heard ==
    /\ reply \in [CommandIds -> 0..Refused]
    /\ twice \subseteq Turns /\ unrecovered \subseteq Turns /\ abandoned \subseteq Turns
Counted == used \in 0..MaxTurns /\ loads \in 0..MaxLoads /\ boots \in 0..MaxBoots

LEMMA Parts ==
    TypeOK <=> /\ child \in BOOLEAN /\ up \in BOOLEAN
               /\ Batched /\ Memory /\ Working /\ Heard /\ Counted
  BY DEF TypeOK, Batched, Memory, Working, Heard, Counted, Rows, Asks, Dues, Lates

LEMMA InitType == Init => TypeOK
<1> SUFFICES ASSUME Init PROVE TypeOK
  OBVIOUS
<1> USE TurnLifecycleAssumption
<1>1. Batched
  BY TypesOfNothing DEF Init, Batched, Rows, Asks
<1>2. Memory
  <2>1. [NoRecord EXCEPT !.session = "loading"] \in RecordType
    BY TypesOfNothing, RecordFields
  <2>2. record \in 0..MaxLoads
    BY DEF Init
  <2> QED
    BY <2>1, <2>2, TypesOfNothing DEF Init, Memory
<1>3. Working
  <2>1. queue \in Seq(Turns)
    BY DEF Init
  <2>2. work \in 0..MaxTurns /\ message \in 0..MaxTurns
    BY DEF Init
  <2>3. background \in BOOLEAN
    BY Zenon DEF Init
  <2> QED
    BY <2>1, <2>2, <2>3 DEF Working
<1>4. Heard
  BY DEF Init, Heard, NoReply, Refused
<1>5. Counted
  BY <1>2 DEF Init, Counted, Memory
<1> QED
  BY <1>1, <1>2, <1>3, <1>4, <1>5, Parts DEF Init

LEMMA ActiveType ==
    ASSUME Memory
    PROVE  Active \in 0..MaxTurns /\ Target \in {0, Active}
<1>1. Active \in 0..MaxTurns
  BY TurnLifecycleAssumption DEF Memory, Active, RecordType, Loads
<1> QED
  BY <1>1 DEF Target

LEMMA SettledInType ==
    ASSUME Memory, NEW S
    PROVE  SettledIn(S) \in [Requests -> RequestType]
<1>1. \A x \in RequestType, e \in {"none", "unheard", "open", "settled"} :
         [x EXCEPT !.parked = FALSE, !.entry = e] \in RequestType
  BY DEF RequestType
<1>2. ASSUME NEW q \in Requests
      PROVE  SettledIn(S)[q] \in RequestType
  <2>1. requests[q] \in RequestType
    BY DEF Memory
  <2>2. requests[q].entry \in {"none", "unheard", "open", "settled"}
    BY <2>1 DEF RequestType
  <2> QED
    BY <1>1, <2>1, <2>2 DEF SettledIn
<1> QED
  BY <1>2 DEF SettledIn

LEMMA LateWithType ==
    ASSUME Batched, NEW S
    PROVE  LateWith(S) \in Lates
  BY DEF Batched, LateWith, Lates

LEMMA SettleOnlyType ==
    ASSUME Batched, Memory, NEW S, SettleOnly(S)
    PROVE  Batched' /\ requests' \in [Requests -> RequestType]
<1>1. requests' \in [Requests -> RequestType]
  BY SettledInType DEF SettleOnly
<1>2. CASE LateWith(S) = late
  BY <1>1, <1>2 DEF SettleOnly, Batched, rows, batch
<1>3. CASE LateWith(S) # late
  <2>1. Write(asker, due, LateWith(S))
    BY <1>3 DEF SettleOnly
  <2> QED
    BY <1>1, <2>1, WriteType, LateWithType DEF Batched
<1> QED
  BY <1>2, <1>3

LEMMA RowsGoType ==
    ASSUME Batched, RowsGo, UNCHANGED asker, failures' \in 0..MaxFailures
    PROVE  Batched'
  BY TypesOfNothing DEF RowsGo, Batched, Rows, Asks

LEMMA WithAttachedType ==
    ASSUME Memory
    PROVE  WithAttached \in [Loads -> RecordType]
<1>1. [NoRecord EXCEPT !.session = "loading"] \in RecordType
  BY TypesOfNothing, RecordFields
<1> QED
  BY <1>1 DEF WithAttached, Memory

LEMMA AttachType ==
    ASSUME Memory, Counted, CanAttach
    PROVE  Attached \in Loads
  BY TurnLifecycleAssumption DEF Memory, Counted, CanAttach, Attached, Loads

LEMMA SendAsType ==
    ASSUME Batched, Memory, Heard, Counted, NEW c \in CommandIds,
           NEW rs \in [Loads -> RecordType], SendAs(c, rs), UNCHANGED asker
    PROVE  /\ Batched' /\ record' \in 0..MaxLoads /\ records' \in [Loads -> RecordType]
           /\ turns' \in [Turns -> TurnType] /\ reply' \in [CommandIds -> 0..Refused]
           /\ used' \in 0..MaxTurns /\ loads' \in 0..MaxLoads
<1> USE TurnLifecycleAssumption
<1>1. Attached \in Loads
  BY AttachType DEF SendAs
<1>2. record' \in 0..MaxLoads /\ loads' \in 0..MaxLoads
  BY <1>1 DEF SendAs, Attach, Loads
<1>3. CASE /\ IF Conflicts(rs) THEN UNCHANGED failures ELSE WriteFails
           /\ reply' = IF c \in Requests THEN [reply EXCEPT ![c] = Refused] ELSE reply
           /\ records' = rs
           /\ UNCHANGED <<rows, due, late, turns, used>>
  <2>1. failures' \in 0..MaxFailures
    BY <1>3 DEF WriteFails, Batched
  <2>2. Batched'
    BY <1>3, <2>1 DEF Batched, rows
  <2>3. records' \in [Loads -> RecordType] /\ turns' \in [Turns -> TurnType]
    BY <1>3 DEF Memory
  <2>4. reply' \in [CommandIds -> 0..Refused]
    BY <1>3 DEF Heard, Refused
  <2>5. used' \in 0..MaxTurns
    BY <1>3 DEF Counted
  <2> QED
    BY <1>2, <2>2, <2>3, <2>4, <2>5
<1>4. CASE /\ used < MaxTurns /\ used' = used + 1
           /\ reply' = [reply EXCEPT ![c] = used + 1]
           /\ records' = [rs EXCEPT ![Attached].active = used + 1]
           /\ turns' = [turns EXCEPT ![used + 1] =
                          [NoTurn EXCEPT !.owner = Attached, !.chain = "waiting"]]
           /\ row' = [row EXCEPT ![used + 1] = "open"]
           /\ command' = [command EXCEPT ![used + 1] = {c}]
           /\ UNCHANGED <<held, ask, batch>>
  <2>1. used + 1 \in Turns /\ used + 1 \in 0..MaxTurns
    BY <1>4 DEF Counted, Turns
  <2>2. Batched'
    BY <1>4 DEF Batched, batch, Rows
  <2>3. [rs[Attached] EXCEPT !.active = used + 1] \in RecordType
    BY <1>1, <2>1, RecordFields
  <2>4. records' \in [Loads -> RecordType]
    BY <1>4, <2>3
  <2>5. Attached \in 0..MaxLoads
    BY <1>1 DEF Loads
  <2>6. turns' \in [Turns -> TurnType]
    BY <1>4, <2>5, NewTurns DEF Memory
  <2>7. reply' \in [CommandIds -> 0..Refused] /\ used' \in 0..MaxTurns
    BY <1>4, <2>1 DEF Heard, Refused
  <2> QED
    BY <1>2, <2>2, <2>4, <2>6, <2>7
<1> QED
  BY <1>3, <1>4 DEF SendAs

LEMMA TurnsWith ==
    ASSUME NEW ts \in [Turns -> TurnType], NEW t \in Turns
    PROVE  /\ \A c \in Chains : [ts EXCEPT ![t].chain = c] \in [Turns -> TurnType]
           /\ \A b \in BOOLEAN : [ts EXCEPT ![t].stop = b] \in [Turns -> TurnType]
           /\ \A b \in BOOLEAN : [ts EXCEPT ![t].heard = b] \in [Turns -> TurnType]
           /\ \A n \in 0..MaxTurns : [ts EXCEPT ![t].folded = n] \in [Turns -> TurnType]
<1>1. ts[t] \in TurnType
  OBVIOUS
<1>2. \A c \in Chains : [ts EXCEPT ![t].chain = c] \in [Turns -> TurnType]
  BY <1>1, TurnFields
<1>3. \A b \in BOOLEAN : [ts EXCEPT ![t].stop = b] \in [Turns -> TurnType]
  BY <1>1, TurnFields
<1>4. \A b \in BOOLEAN : [ts EXCEPT ![t].heard = b] \in [Turns -> TurnType]
  BY <1>1, TurnFields
<1>5. \A n \in 0..MaxTurns : [ts EXCEPT ![t].folded = n] \in [Turns -> TurnType]
  BY <1>1, TurnFields
<1> QED
  BY <1>2, <1>3, <1>4, <1>5

LEMMA RecordsWith ==
    ASSUME NEW rs \in [Loads -> RecordType], NEW g \in Loads
    PROVE  /\ \A n \in 0..MaxTurns :
                 /\ [rs EXCEPT ![g].active = n] \in [Loads -> RecordType]
                 /\ [rs EXCEPT ![g].cancelling = n] \in [Loads -> RecordType]
                 /\ [rs EXCEPT ![g].unrecorded = n] \in [Loads -> RecordType]
           /\ \A v \in {"none", "loading", "ready", "failed"} :
                 [rs EXCEPT ![g].session = v] \in [Loads -> RecordType]
           /\ \A v \in {"none", "asked", "sent", "failed"} :
                 [rs EXCEPT ![g].cancel = v] \in [Loads -> RecordType]
           /\ \A S \in SUBSET Requests : [rs EXCEPT ![g].building = S] \in [Loads -> RecordType]
<1>1. rs[g] \in RecordType
  OBVIOUS
<1>2. \A n \in 0..MaxTurns : [rs EXCEPT ![g].active = n] \in [Loads -> RecordType]
  BY <1>1, RecordFields
<1>3. \A n \in 0..MaxTurns : [rs EXCEPT ![g].cancelling = n] \in [Loads -> RecordType]
  BY <1>1, RecordFields
<1>4. \A n \in 0..MaxTurns : [rs EXCEPT ![g].unrecorded = n] \in [Loads -> RecordType]
  BY <1>1, RecordFields
<1>5. \A v \in {"none", "loading", "ready", "failed"} :
        [rs EXCEPT ![g].session = v] \in [Loads -> RecordType]
  BY <1>1, RecordFields
<1>6. \A v \in {"none", "asked", "sent", "failed"} :
        [rs EXCEPT ![g].cancel = v] \in [Loads -> RecordType]
  BY <1>1, RecordFields
<1>7. \A S \in SUBSET Requests : [rs EXCEPT ![g].building = S] \in [Loads -> RecordType]
  BY <1>1, RecordFields
<1> QED
  BY <1>2, <1>3, <1>4, <1>5, <1>6, <1>7

LEMMA RequestsWith ==
    ASSUME NEW qs \in [Requests -> RequestType], NEW q \in Requests
    PROVE  /\ \A b \in BOOLEAN : [qs EXCEPT ![q].parked = b] \in [Requests -> RequestType]
           /\ \A b \in BOOLEAN : [qs EXCEPT ![q].answered = b] \in [Requests -> RequestType]
           /\ \A v \in {"none", "unheard", "open", "settled"} :
                 [qs EXCEPT ![q].entry = v] \in [Requests -> RequestType]
<1>1. qs[q] \in RequestType
  OBVIOUS
<1>2. \A b \in BOOLEAN : [qs EXCEPT ![q].parked = b] \in [Requests -> RequestType]
  BY <1>1, RequestFields
<1>3. \A b \in BOOLEAN : [qs EXCEPT ![q].answered = b] \in [Requests -> RequestType]
  BY <1>1, RequestFields
<1>4. \A v \in {"none", "unheard", "open", "settled"} :
        [qs EXCEPT ![q].entry = v] \in [Requests -> RequestType]
  BY <1>1, RequestFields
<1> QED
  BY <1>2, <1>3, <1>4

LEMMA StoppedType ==
    ASSUME NEW t, NEW o \in Ends
    PROVE  Stopped(t, o) \in Ends
  BY DEF Stopped, Ends

\* What of the state an action of the agent or a promise may touch.
LEMMA EndKeepsType ==
    ASSUME Batched, Memory, Heard, NEW t \in Turns, NEW outcome \in Ends,
           NEW ts \in [Turns -> TurnType], NEW rs \in [Loads -> RecordType],
           NEW qs \in [Requests -> RequestType], NEW l \in Lates,
           End(t, outcome, ts, rs, qs, l), UNCHANGED record
    PROVE  Batched' /\ Memory' /\ Heard'
<1>1. twice \subseteq Turns
  BY DEF Heard
<1>2. /\ Batched' /\ turns' \in [Turns -> TurnType] /\ records' \in [Loads -> RecordType]
      /\ requests' \in [Requests -> RequestType] /\ twice' \subseteq Turns
  BY <1>1, EndType
<1>3. Memory'
  BY <1>2 DEF Memory
<1>4. UNCHANGED <<reply, unrecovered, abandoned>>
  BY DEF End
<1> QED
  BY <1>2, <1>3, <1>4 DEF Heard

\* What a step leaves alone keeps its type.
LEMMA Unmoved ==
    /\ Batched /\ UNCHANGED <<rows, batch, asker>> => Batched'
    /\ Memory /\ UNCHANGED <<record, records, turns, requests>> => Memory'
    /\ Working /\ UNCHANGED agent => Working'
    /\ Heard /\ UNCHANGED history => Heard'
    /\ Counted /\ UNCHANGED bounds => Counted'
<1>1. Batched /\ UNCHANGED <<rows, batch, asker>> => Batched'
  BY DEF Batched, rows, batch
<1>2. Memory /\ UNCHANGED <<record, records, turns, requests>> => Memory'
  BY DEF Memory
<1>3. Working /\ UNCHANGED agent => Working'
  <2> SUFFICES ASSUME Working, UNCHANGED agent PROVE Working'
    OBVIOUS
  <2>1. queue' = queue /\ work' = work /\ message' = message
    BY DEF agent
  <2>2. background' = background
    BY Zenon DEF agent
  <2>3. background' \in BOOLEAN
    BY <2>2, Zenon DEF Working
  <2> QED
    BY <2>1, <2>3 DEF Working
<1>4. Heard /\ UNCHANGED history => Heard'
  BY DEF Heard, history
<1>5. Counted /\ UNCHANGED bounds => Counted'
  BY DEF Counted, bounds
<1> QED
  BY <1>1, <1>2, <1>3, <1>4, <1>5

\* A server that is down has a restart left: with it the count of restarts
\* stays in its bound.
Flags == child \in BOOLEAN /\ up \in BOOLEAN /\ (~up => boots < MaxBoots)

LEMMA FlagsKept ==
    /\ Flags /\ UNCHANGED <<child, up, boots>> => Flags'
    /\ Flags /\ UNCHANGED <<child, up, bounds>> => Flags'
<1>1. Flags /\ UNCHANGED <<child, up, boots>> => Flags'
  <2> SUFFICES ASSUME Flags, child' = child, up' = up, boots' = boots PROVE Flags'
    BY Zenon
  <2>1. child' \in BOOLEAN /\ up' \in BOOLEAN
    BY Zenon DEF Flags
  <2>2. ~up' => boots' < MaxBoots
    BY Zenon DEF Flags
  <2> QED
    BY <2>1, <2>2, Zenon DEF Flags
<1>2. Flags /\ UNCHANGED <<child, up, bounds>> => Flags'
  <2>1. UNCHANGED bounds => boots' = boots
    BY DEF bounds
  <2> QED
    BY <1>1, <2>1, Zenon
<1> QED
  BY <1>1, <1>2

Typed == Flags /\ Batched /\ Memory /\ Working /\ Heard /\ Counted

LEMMA TypedHasTypes == Typed => TypeOK
  BY Parts, Zenon DEF Typed, Flags

LEMMA AbandonType ==
    ASSUME Memory, Abandon
    PROVE  turns' \in [Turns -> TurnType] /\ records' \in [Loads -> RecordType]
<1>1. ASSUME NEW t \in Turns PROVE turns'[t] \in TurnType
  <2>1. turns[t] \in TurnType
    BY DEF Memory
  <2>2. turns'[t] \in {turns[t], [turns[t] EXCEPT !.stop = TRUE]}
    BY DEF Abandon
  <2> QED
    BY <2>1, <2>2, TurnFields
<1>2. ASSUME NEW g \in Loads PROVE records'[g] \in RecordType
  <2>1. records[g] \in RecordType
    BY DEF Memory
  <2>2. records'[g] \in {records[g], [records[g] EXCEPT !.active = 0]}
    BY DEF Abandon
  <2>3. 0 \in 0..MaxTurns
    BY TurnLifecycleAssumption
  <2> QED
    BY <2>1, <2>2, <2>3, RecordFields
<1> QED
  BY <1>1, <1>2 DEF Abandon

LEMMA ClientsType ==
    ASSUME Typed, Clients
    PROVE  Typed'
<1> USE TurnLifecycleAssumption
<1>0. Flags /\ Batched /\ Memory /\ Working /\ Heard /\ Counted
  BY DEF Typed
<1>1. CASE Load
  <2>1. Attached \in Loads
    BY <1>0, <1>1, AttachType DEF Load
  <2>2. record' \in 0..MaxLoads /\ loads' \in 0..MaxLoads
    BY <1>1, <2>1 DEF Load, Attach, Loads
  <2>3. Memory'
    BY <1>0, <1>1, <2>2, WithAttachedType DEF Load, Memory
  <2>4. Counted'
    BY <1>0, <1>1, <2>2 DEF Load, Counted
  <2> QED
    BY <1>0, <1>1, <2>3, <2>4, Unmoved, FlagsKept DEF Load, Typed
<1>2. CASE Delete
  <2>1. Batched'
    BY <1>0, <1>2, RowsGoType DEF Delete, Batched
  <2>3. turns' \in [Turns -> TurnType] /\ records' \in [Loads -> RecordType]
    BY <1>0, <1>2, AbandonType DEF Delete
  <2>4. Memory'
    BY <1>0, <1>2, <2>3 DEF Delete, Abandon, Memory
  <2>5. Working'
    <3>1. queue' = queue /\ work' = work /\ message' = message
      BY <1>2 DEF Delete
    <3>2. background' \in BOOLEAN
      BY <1>2, Zenon DEF Delete, Abandon
    <3> QED
      BY <1>0, <3>1, <3>2 DEF Working
  <2>6. Heard'
    BY <1>0, <1>2 DEF Delete, Heard
  <2> QED
    BY <1>0, <1>2, <2>1, <2>4, <2>5, <2>6, Unmoved, FlagsKept DEF Delete, Typed
<1>3. ASSUME NEW c \in Commands, Send(c)
      PROVE  Typed'
  <2>1. c \in CommandIds
    BY DEF CommandIds
  <2>2. CASE Known(c) # {}
    <3>1. UNCHANGED <<child, up, asker, requests, agent, twice, unrecovered, abandoned, boots>>
      BY <1>3 DEF Send
    <3>2. /\ reply' = [reply EXCEPT ![c] = CHOOSE k \in Known(c) : TRUE]
          /\ UNCHANGED <<rows, batch, record, records, turns, used, loads>>
      BY <1>3, <2>2 DEF Send
    <3>3. (CHOOSE k \in Known(c) : TRUE) \in 0..Refused
      <4>1. Known(c) \subseteq 0..Refused
        BY DEF Known, Remembered, Logged, Turns, Refused
      <4> QED
        BY <2>2, <4>1
    <3>4. Heard'
      BY <1>0, <3>1, <3>2, <3>3 DEF Heard
    <3> QED
      BY <1>0, <3>1, <3>2, <3>4, Unmoved, FlagsKept DEF Typed, bounds
  <2>3. CASE SendAs(c, WithAttached)
    <3>1. UNCHANGED <<child, up, asker, requests, agent, twice, unrecovered, abandoned, boots>>
      BY <1>3 DEF Send
    <3>2. /\ Batched' /\ record' \in 0..MaxLoads /\ records' \in [Loads -> RecordType]
          /\ turns' \in [Turns -> TurnType] /\ reply' \in [CommandIds -> 0..Refused]
          /\ used' \in 0..MaxTurns /\ loads' \in 0..MaxLoads
      BY <1>0, <2>1, <2>3, <3>1, SendAsType, WithAttachedType
    <3>3. Memory' /\ Heard' /\ Counted'
      BY <1>0, <3>1, <3>2 DEF Memory, Heard, Counted
    <3> QED
      BY <1>0, <3>1, <3>2, <3>3, Unmoved, FlagsKept DEF Typed
  <2> QED
    BY <1>3, <2>2, <2>3 DEF Send
<1>4. ASSUME NEW q \in Requests, Respond(q)
      PROVE  Typed'
  <2>1. UNCHANGED <<child, up, record, turns, agent, history, bounds>>
    BY <1>4 DEF Respond
  <2>2. CASE ~requests[q].parked
    <3>1. /\ requests' = [requests EXCEPT ![q].entry = "settled"]
          /\ UNCHANGED <<rows, batch, asker, records>>
      BY <1>4, <2>2 DEF Respond
    <3>2. Memory'
      BY <1>0, <2>1, <3>1, RequestsWith DEF Memory
    <3> QED
      BY <1>0, <2>1, <3>1, <3>2, Unmoved, FlagsKept DEF Typed
  <2>3. CASE requests[q].parked
    <3>1. /\ requests' = [SettledIn({q}) EXCEPT ![q].answered = TRUE]
          /\ Write(asker, due, LateWith({q}))
          /\ \/ UNCHANGED records
             \/ record # 0 /\ records' = [records EXCEPT ![record].building = {q}]
      <4>1. asker[q] # 0 /\ Active = asker[q]
        BY <1>4 DEF Respond
      <4>2. record # 0
        BY <4>1 DEF Active
      <4> QED
        BY <1>4, <2>3, <4>2 DEF Respond
    <3>2. Batched'
      BY <1>0, <3>1, WriteType, LateWithType DEF Batched
    <3>3. requests' \in [Requests -> RequestType]
      BY <1>0, <3>1, SettledInType, RequestsWith
    <3>4. records' \in [Loads -> RecordType]
      <4>1. record # 0 => record \in Loads
        BY <1>0 DEF Memory, Loads
      <4>2. record # 0 => [records EXCEPT ![record].building = {q}] \in [Loads -> RecordType]
        BY <1>0, <4>1, {q} \in SUBSET Requests, RecordsWith DEF Memory
      <4> QED
        BY <1>0, <3>1, <4>2 DEF Memory
    <3>5. Memory'
      BY <1>0, <2>1, <3>3, <3>4 DEF Memory
    <3> QED
      BY <1>0, <2>1, <3>2, <3>5, Unmoved, FlagsKept DEF Typed
  <2> QED
    BY <2>2, <2>3
<1>5. ASSUME NEW q \in Requests, RetryBuild(q)
      PROVE  Typed'
  <2>1. record \in Loads
    BY <1>0, <1>5 DEF RetryBuild, Memory, Loads
  <2>2. records' \in [Loads -> RecordType]
    BY <1>0, <1>5, <2>1, {q} \in SUBSET Requests, RecordsWith DEF RetryBuild, Memory
  <2>3. Memory'
    BY <1>0, <1>5, <2>2 DEF RetryBuild, Memory
  <2> QED
    BY <1>0, <1>5, <2>3, Unmoved, FlagsKept DEF RetryBuild, Typed
<1>6. ASSUME NEW t \in Turns, Interrupt(t)
      PROVE  Typed'
  <2>1. record \in Loads
    BY <1>0, <1>6 DEF Interrupt, Active, Memory, Loads, Turns
  <2>2. t \in 0..MaxTurns
    BY DEF Turns
  <2>3. records' \in [Loads -> RecordType]
    <3> DEFINE rs == [records EXCEPT ![record].cancelling = t]
    <3>1. rs \in [Loads -> RecordType]
      BY <1>0, <2>1, <2>2, RecordsWith DEF Memory
    <3>2. records' = [rs EXCEPT ![record].cancel = "asked"]
      BY <1>0, <1>6, <2>1 DEF Interrupt, Memory
    <3> QED
      BY <2>1, <3>1, <3>2, RecordsWith
  <2>4. Memory'
    BY <1>0, <1>6, <2>3, TurnsWith DEF Interrupt, Memory
  <2> QED
    BY <1>0, <1>6, <2>4, Unmoved, FlagsKept DEF Interrupt, Typed
<1>7. ASSUME NEW t \in Turns, InterruptHeld(t)
      PROVE  Typed'
  <2>1. UNCHANGED <<child, held, command, due, late, up, memory, agent, history, bounds>>
    BY <1>7 DEF InterruptHeld
  <2>2. row' \in [Turns -> Rows]
    BY <1>0, <1>7 DEF InterruptHeld, Batched, Rows, Ends
  <2>3. ask' \in [Requests -> Asks]
    BY <1>0, <1>7, AskAfterType DEF InterruptHeld, Batched
  <2>4. failures' \in 0..MaxFailures
    BY <1>0, <1>7 DEF InterruptHeld, Batched, WriteFails
  <2>5. Batched'
    BY <1>0, <2>1, <2>2, <2>3, <2>4 DEF Batched, memory
  <2> QED
    BY <1>0, <2>1, <2>5, Unmoved, FlagsKept DEF Typed, memory
<1> QED
  BY <1>1, <1>2, <1>3, <1>4, <1>5, <1>6, <1>7 DEF Clients

LEMMA WorkingWith ==
    ASSUME queue' \in Seq(Turns), work' \in 0..MaxTurns, message' \in 0..MaxTurns,
           background' \in BOOLEAN
    PROVE  Working'
  BY DEF Working

LEMMA OpensType ==
    ASSUME Batched, Memory, record # 0, NEW b \in Turns, Opens(b)
    PROVE  /\ Batched' /\ turns' \in [Turns -> TurnType] /\ records' \in [Loads -> RecordType]
<1> USE TurnLifecycleAssumption
<1> DEFINE cleared == [records EXCEPT ![record].unrecorded = 0]
           r == records[record]
<1>1. record \in Loads /\ record \in 0..MaxLoads /\ b \in 0..MaxTurns /\ 0 \in 0..MaxTurns
  BY DEF Memory, Loads, Turns
<1>2. cleared \in [Loads -> RecordType]
  BY <1>1, RecordsWith DEF Memory
<1>3. r.active \in 0..MaxTurns
  BY <1>1 DEF Memory, RecordType
<1>4. CASE r.active # 0
  <2>1. /\ turns' = IF turns[r.active].heard THEN turns
                    ELSE [turns EXCEPT ![r.active].folded = b]
        /\ records' = cleared
        /\ UNCHANGED <<asker, held, command, failures, row, ask, due, late>>
    BY <1>4 DEF Opens
  <2>2. r.active \in Turns
    BY <1>3, <1>4 DEF Turns
  <2>3. turns' \in [Turns -> TurnType]
    BY <1>1, <2>1, <2>2, TurnsWith DEF Memory
  <2> QED
    BY <1>2, <2>1, <2>3 DEF Batched
<1>5. CASE r.active = 0 /\ Busy(r)
  <2>1. UNCHANGED <<asker, held, command, failures, row, ask, due, late, turns>>
    BY <1>5 DEF Opens
  <2>2. records' = cleared
    BY <1>5 DEF Opens
  <2> QED
    BY <1>2, <2>1, <2>2 DEF Batched, Memory
<1>6. CASE r.active = 0 /\ ~Busy(r)
  <2>1. /\ row' = [RowsAfter(due) EXCEPT ![b] = "open"]
        /\ ask' = AskAfter(asker, due, late)
        /\ due' = NothingDue /\ late' = NothingLate
        /\ UNCHANGED <<asker, held, command, failures>>
    BY <1>6 DEF Opens
  <2>2. /\ records' = [cleared EXCEPT ![record].active = b]
        /\ turns' = [turns EXCEPT ![b] = [NoTurn EXCEPT !.owner = record, !.heard = TRUE]]
    BY <1>6 DEF Opens
  <2>3. row' \in [Turns -> Rows]
    BY <2>1, RowsAfterType DEF Batched, Rows
  <2>4. Batched'
    BY <2>1, <2>3, AskAfterType, TypesOfNothing DEF Batched
  <2>5. records' \in [Loads -> RecordType]
    BY <1>1, <1>2, <2>2, RecordsWith
  <2>6. turns' \in [Turns -> TurnType]
    BY <1>1, <2>2, NewTurns DEF Memory
  <2> QED
    BY <2>4, <2>5, <2>6
<1> QED
  BY <1>4, <1>5, <1>6

LEMMA AgentType ==
    ASSUME Typed, Agent
    PROVE  Typed'
<1> USE TurnLifecycleAssumption
<1>0. /\ Flags /\ Batched /\ Memory /\ Working /\ Heard /\ Counted
      /\ turns \in [Turns -> TurnType] /\ records \in [Loads -> RecordType]
      /\ requests \in [Requests -> RequestType] /\ late \in Lates
  BY DEF Typed, Memory, Batched
<1>a. Active \in 0..MaxTurns /\ Target \in {0, Active}
  BY <1>0, ActiveType
<1>b. 0 \in 0..MaxTurns /\ \A t \in 0..MaxTurns : t # 0 => t \in Turns
  BY DEF Turns
<1>c. {"interrupted", "completed", "failed"} \subseteq Ends
  BY DEF Ends
<1>1. CASE Dispatch
  <2>1. UNCHANGED <<child, up, record, bounds>>
    BY <1>1 DEF Dispatch
  <2>2. Head(queue) \in Turns /\ Tail(queue) \in Seq(Turns)
    BY <1>0, <1>1 DEF Dispatch, Working
  <2>3. Working'
    <3>1. queue' = Tail(queue) /\ work' = Head(queue) /\ message' = Head(queue)
      BY <1>1 DEF Dispatch
    <3>2. background' \in BOOLEAN
      BY <1>1, Zenon DEF Dispatch
    <3>3. Head(queue) \in 0..MaxTurns
      BY <2>2 DEF Turns
    <3> QED
      BY <2>2, <3>1, <3>2, <3>3, WorkingWith
  <2>4. CASE work # 0 /\ Target = work
    <3>1. End(work, Stopped(work, "completed"), turns, records, requests, late)
      BY <1>1, <2>4 DEF Dispatch
    <3>2. work \in Turns /\ Stopped(work, "completed") \in Ends
      BY <1>0, <1>b, <1>c, <2>4, StoppedType DEF Working
    <3>3. Batched' /\ Memory' /\ Heard'
      BY <1>0, <2>1, <3>1, <3>2, EndKeepsType
    <3> QED
      BY <1>0, <2>1, <2>3, <3>3, Unmoved, FlagsKept DEF Typed
  <2>5. CASE ~(work # 0 /\ Target = work)
    <3>1. /\ turns' = IF Active = Head(queue) THEN [turns EXCEPT ![Head(queue)].heard = TRUE]
                      ELSE turns
          /\ UNCHANGED <<rows, batch, records, asker, requests, history>>
      BY <1>1, <2>5 DEF Dispatch
    <3>2. turns' \in [Turns -> TurnType]
      BY <1>0, <2>2, <3>1, TurnsWith
    <3>3. Memory'
      BY <1>0, <2>1, <3>1, <3>2 DEF Memory
    <3> QED
      BY <1>0, <2>1, <2>3, <3>1, <3>3, Unmoved, FlagsKept DEF Typed
  <2> QED
    BY <2>4, <2>5
<1>2. CASE ProcessExits
  <2> DEFINE ts == IF work # 0 /\ IsPrompt(work)
                   THEN [turns EXCEPT ![work].chain = "rejected"] ELSE turns
  <2>1. UNCHANGED <<child, up, record, queue, bounds>>
    BY <1>2 DEF ProcessExits
  <2>2. ts \in [Turns -> TurnType]
    <3>1. "rejected" \in Chains
      BY DEF Chains
    <3>2. work # 0 => work \in Turns
      BY <1>0, <1>b DEF Working
    <3> QED
      BY <1>0, <3>1, <3>2, TurnsWith
  <2>3. Working'
    <3>1. queue' = queue /\ work' = 0 /\ message' = 0
      BY <1>2 DEF ProcessExits
    <3>2. background' \in BOOLEAN
      BY <1>2, Zenon DEF ProcessExits
    <3> QED
      BY <1>0, <1>b, <3>1, <3>2, WorkingWith DEF Working
  <2>4. CASE Active # 0 /\ (message = 0 \/ (turns[Active].heard /\ message = Active))
    <3>1. End(Active, Stopped(Active, "failed"), ts, records, SettledIn(Parked), LateWith(Parked))
      BY <1>2, <2>4 DEF ProcessExits
    <3>2. Active \in Turns /\ Stopped(Active, "failed") \in Ends
      BY <1>a, <1>b, <1>c, <2>4, StoppedType
    <3>3. SettledIn(Parked) \in [Requests -> RequestType] /\ LateWith(Parked) \in Lates
      BY <1>0, SettledInType, LateWithType
    <3>4. Batched' /\ Memory' /\ Heard'
      BY <1>0, <2>1, <2>2, <3>1, <3>2, <3>3, EndKeepsType
    <3> QED
      BY <1>0, <2>1, <2>3, <3>4, Unmoved, FlagsKept DEF Typed
  <2>5. CASE SettleOnly(Parked) /\ turns' = ts /\ UNCHANGED <<records, history>>
    <3>1. Batched' /\ requests' \in [Requests -> RequestType]
      BY <1>0, <2>5, SettleOnlyType
    <3>2. Memory'
      BY <1>0, <2>1, <2>2, <2>5, <3>1 DEF Memory
    <3> QED
      BY <1>0, <2>1, <2>3, <2>5, <3>1, <3>2, Unmoved, FlagsKept DEF Typed
  <2> QED
    BY <1>2, <2>4, <2>5 DEF ProcessExits
<1>3. ASSUME NEW t \in Turns, PromptRejected(t)
      PROVE  Typed'
  <2>1. UNCHANGED <<child, rows, batch, up, record, records, asker, requests, work, message,
                    background, history, bounds>>
    BY <1>3, Zenon DEF PromptRejected
  <2>2. queue' \in Seq(Turns)
    <3>1. PICK i \in DOMAIN queue :
             queue' = SubSeq(queue, 1, i - 1) \o SubSeq(queue, i + 1, Len(queue))
      BY <1>3 DEF PromptRejected
    <3>2. queue \in Seq(Turns) /\ i \in 1..Len(queue)
      BY <1>0 DEF Working
    <3>3. SubSeq(queue, 1, i - 1) \in Seq(Turns) /\ SubSeq(queue, i + 1, Len(queue)) \in Seq(Turns)
      BY <3>2
    <3> QED
      BY <3>1, <3>3
  <2>3. Working'
    <3>1. background' \in BOOLEAN
      BY <1>0, <2>1, Zenon DEF Working
    <3> QED
      BY <1>0, <2>1, <2>2, <3>1, WorkingWith DEF Working
  <2>4. turns' \in [Turns -> TurnType]
    BY <1>0, <1>3, TurnsWith DEF PromptRejected, Chains
  <2>5. Memory'
    BY <1>0, <2>1, <2>4 DEF Memory
  <2> QED
    BY <1>0, <2>1, <2>3, <2>5, Unmoved, FlagsKept DEF Typed
<1>4. ASSUME NEW q \in Requests, ProviderAsks(q)
      PROVE  Typed'
  <2>1. UNCHANGED <<child, up, record, records, turns, agent, history, bounds>>
    BY <1>4 DEF ProviderAsks
  <2>2. \A e \in {"unheard", "open"} :
           [requests EXCEPT ![q].parked = TRUE, ![q].entry = e] \in [Requests -> RequestType]
    <3> SUFFICES ASSUME NEW e \in {"unheard", "open"}
                 PROVE  [requests EXCEPT ![q].parked = TRUE, ![q].entry = e]
                           \in [Requests -> RequestType]
      OBVIOUS
    <3> DEFINE qs == [requests EXCEPT ![q].parked = TRUE]
    <3>1. qs \in [Requests -> RequestType]
      BY <1>0, RequestsWith
    <3>2. [requests EXCEPT ![q].parked = TRUE, ![q].entry = e] = [qs EXCEPT ![q].entry = e]
      BY <1>0
    <3> QED
      BY <3>1, <3>2, RequestsWith
  <2>3. requests' \in [Requests -> RequestType]
    BY <1>4, <2>2 DEF ProviderAsks
  <2>4. Batched'
    <3>1. CASE UNCHANGED <<rows, batch, asker>>
      BY <1>0, <3>1, Unmoved
    <3>2. CASE Write([asker EXCEPT ![q] = Target], due, [late EXCEPT ![q] = @ \union {"request"}])
      <4>1. [asker EXCEPT ![q] = Target] \in [Requests -> 0..MaxTurns]
        BY <1>0, <1>a, <1>b DEF Batched
      <4>2. [late EXCEPT ![q] = @ \union {"request"}] \in Lates
        BY <1>0 DEF Lates
      <4> QED
        BY <1>0, <3>2, <4>1, <4>2, WriteType DEF Batched
    <3> QED
      BY <1>4, <3>1, <3>2 DEF ProviderAsks
  <2>5. Memory'
    BY <1>0, <2>1, <2>3 DEF Memory
  <2> QED
    BY <1>0, <2>1, <2>4, <2>5, Unmoved, FlagsKept DEF Typed
<1>5. ASSUME NEW q \in Requests, BrokerSettles(q)
      PROVE  Typed'
  <2>1. UNCHANGED <<child, up, record, records, turns, agent, history, bounds>>
    BY <1>5 DEF BrokerSettles
  <2>2. Batched' /\ requests' \in [Requests -> RequestType]
    BY <1>0, <1>5, SettleOnlyType DEF BrokerSettles
  <2>3. Memory'
    BY <1>0, <2>1, <2>2 DEF Memory
  <2> QED
    BY <1>0, <2>1, <2>2, <2>3, Unmoved, FlagsKept DEF Typed
<1>6. ASSUME NEW outcome \in Ends, RunEnds(outcome)
      PROVE  Typed'
  <2> DEFINE ts == IF IsPrompt(work)
                   THEN [turns EXCEPT ![work].chain =
                           IF outcome = "failed" THEN "rejected" ELSE "resolved"]
                   ELSE turns
  <2>1. UNCHANGED <<child, up, record, queue, background, bounds>>
    BY <1>6, Zenon DEF RunEnds
  <2>2. ts \in [Turns -> TurnType]
    <3>1. (IF outcome = "failed" THEN "rejected" ELSE "resolved") \in Chains
      BY DEF Chains
    <3>2. work \in Turns
      BY <1>0, <1>b, <1>6 DEF Working, RunEnds
    <3> QED
      BY <1>0, <3>1, <3>2, TurnsWith
  <2>3. Working'
    <3>1. queue' = queue /\ work' = 0 /\ message' = 0
      BY <1>6 DEF RunEnds
    <3>2. background' \in BOOLEAN
      BY <1>0, <2>1, Zenon DEF Working
    <3> QED
      BY <1>0, <1>b, <3>1, <3>2, WorkingWith DEF Working
  <2>4. CASE turns' = ts /\ UNCHANGED <<rows, batch, records, asker, requests, history>>
    <3>1. Memory'
      BY <1>0, <2>1, <2>2, <2>4 DEF Memory
    <3> QED
      BY <1>0, <2>1, <2>3, <2>4, <3>1, Unmoved, FlagsKept DEF Typed
  <2>5. CASE Target # 0 /\ End(Target, Stopped(Target, outcome), ts, records, requests, late)
    <3>1. Target \in Turns /\ Stopped(Target, outcome) \in Ends
      BY <1>a, <1>b, <2>5, StoppedType
    <3>2. Batched' /\ Memory' /\ Heard'
      BY <1>0, <2>1, <2>2, <2>5, <3>1, EndKeepsType
    <3> QED
      BY <1>0, <2>1, <2>3, <3>2, Unmoved, FlagsKept DEF Typed
  <2> QED
    BY <1>6, <2>4, <2>5 DEF RunEnds
<1>7. CASE BackgroundStarts
  <2>1. UNCHANGED <<child, up, record, requests, queue, background, history, loads, boots>>
    BY <1>7, Zenon DEF BackgroundStarts
  <2>2. /\ used < MaxTurns /\ used' = used + 1 /\ work' = used + 1 /\ message' = used + 1
        /\ \/ record = 0 /\ UNCHANGED <<rows, batch, records, turns, asker>>
           \/ record # 0 /\ Opens(used + 1)
           \/ /\ record # 0 /\ WriteFails
              /\ records' = [records EXCEPT ![record].unrecorded = used + 1]
              /\ UNCHANGED <<rows, due, late, turns, asker>>
    BY <1>7 DEF BackgroundStarts
  <2>3. used + 1 \in Turns /\ used + 1 \in 0..MaxTurns
    BY <1>0, <2>2 DEF Counted, Turns
  <2>4. Working'
    <3>1. background' \in BOOLEAN
      BY <1>0, <2>1, Zenon DEF Working
    <3> QED
      BY <1>0, <2>1, <2>2, <2>3, <3>1, WorkingWith DEF Working
  <2>5. Counted'
    BY <1>0, <2>1, <2>2, <2>3 DEF Counted
  <2>6. Batched' /\ turns' \in [Turns -> TurnType] /\ records' \in [Loads -> RecordType]
    <3>1. CASE record = 0 /\ UNCHANGED <<rows, batch, records, turns, asker>>
      BY <1>0, <3>1, Unmoved
    <3>2. CASE record # 0 /\ Opens(used + 1)
      BY <1>0, <2>3, <3>2, OpensType
    <3>3. CASE /\ record # 0 /\ WriteFails
               /\ records' = [records EXCEPT ![record].unrecorded = used + 1]
               /\ UNCHANGED <<rows, due, late, turns, asker>>
      <4>1. record \in Loads
        BY <1>0, <3>3 DEF Memory, Loads
      <4>2. Batched'
        BY <1>0, <3>3 DEF Batched, WriteFails, rows
      <4> QED
        BY <1>0, <2>3, <3>3, <4>1, <4>2, RecordsWith
    <3> QED
      BY <2>2, <3>1, <3>2, <3>3
  <2>7. Memory'
    BY <1>0, <2>1, <2>6 DEF Memory
  <2> QED
    BY <1>0, <2>1, <2>4, <2>5, <2>6, <2>7, Unmoved, FlagsKept DEF Typed
<1>8. CASE BackgroundSpeaks
  <2>1. UNCHANGED <<child, up, record, requests, agent, history, bounds>>
    BY <1>8, Zenon DEF BackgroundSpeaks
  <2>2. message \in Turns /\ record # 0
    BY <1>0, <1>b, <1>8 DEF BackgroundSpeaks, Unrecorded, Working
  <2>3. Batched' /\ turns' \in [Turns -> TurnType] /\ records' \in [Loads -> RecordType]
    BY <1>0, <1>8, <2>2, OpensType DEF BackgroundSpeaks
  <2>4. Memory'
    BY <1>0, <2>1, <2>3 DEF Memory
  <2> QED
    BY <1>0, <2>1, <2>3, <2>4, Unmoved, FlagsKept DEF Typed
<1> QED
  BY <1>1, <1>2, <1>3, <1>4, <1>5, <1>6, <1>7, <1>8 DEF Agent

LEMMA PromisesType ==
    ASSUME Typed, Promises
    PROVE  Typed'
<1> USE TurnLifecycleAssumption
<1>0. /\ Flags /\ Batched /\ Memory /\ Working /\ Heard /\ Counted
      /\ turns \in [Turns -> TurnType] /\ records \in [Loads -> RecordType]
      /\ requests \in [Requests -> RequestType] /\ late \in Lates
  BY DEF Typed, Memory, Batched
<1>a. Active \in 0..MaxTurns /\ Target \in {0, Active}
  BY <1>0, ActiveType
<1>b. 0 \in 0..MaxTurns /\ \A t \in 0..MaxTurns : t # 0 => t \in Turns
  BY DEF Turns
<1>c. {"interrupted", "completed", "failed"} \subseteq Ends
  BY DEF Ends
<1>d. {"waiting", "skipped", "prompted", "settled", "failed"} \subseteq Chains
  BY DEF Chains
<1>1. ASSUME NEW g \in Loads, SessionReady(g)
      PROVE  Typed'
  <2>1. Memory'
    BY <1>0, <1>1, RecordsWith DEF SessionReady, Memory
  <2> QED
    BY <1>0, <1>1, <2>1, Unmoved, FlagsKept DEF SessionReady, Typed
<1>2. ASSUME NEW g \in Loads, SessionFails(g)
      PROVE  Typed'
  <2>1. UNCHANGED <<child, up, turns, asker, requests, agent, history, bounds>>
    BY <1>2 DEF SessionFails
  <2>2. record' \in 0..MaxLoads
    BY <1>0, <1>2 DEF SessionFails, Memory
  <2>3. Memory'
    BY <1>0, <1>2, <2>1, <2>2, RecordsWith DEF SessionFails, Memory
  <2>4. Batched'
    <3>1. CASE UNCHANGED <<rows, batch>>
      BY <1>0, <2>1, <3>1, Unmoved
    <3>2. CASE RowsGo /\ UNCHANGED failures
      BY <1>0, <2>1, <3>2, RowsGoType DEF Batched
    <3>3. CASE WriteFails /\ UNCHANGED <<rows, due, late>>
      BY <1>0, <2>1, <3>3 DEF Batched, WriteFails, rows
    <3> QED
      BY <1>2, <3>1, <3>2, <3>3 DEF SessionFails
  <2> QED
    BY <1>0, <2>1, <2>3, <2>4, Unmoved, FlagsKept DEF Typed
<1>3. ASSUME NEW g \in Loads, BuildContinues(g)
      PROVE  Typed'
  <2>1. UNCHANGED <<child, up, asker, requests, agent, twice, unrecovered, abandoned, boots>>
    BY <1>3 DEF BuildContinues
  <2> DEFINE rs == [records EXCEPT ![g].building = {}]
  <2>2. rs \in [Loads -> RecordType]
    BY <1>0, {} \in SUBSET Requests, RecordsWith
  <2>3. PICK q \in Requests :
           \/ SendAs(q, rs)
           \/ records' = rs /\ UNCHANGED <<rows, batch, record, turns, reply, used, loads>>
    <3>1. records[g].building \subseteq Requests
      BY <1>0 DEF RecordType
    <3> QED
      BY <1>3, <3>1 DEF BuildContinues
  <2>4. CASE SendAs(q, rs)
    <3>1. q \in CommandIds
      BY DEF CommandIds
    <3>2. /\ Batched' /\ record' \in 0..MaxLoads /\ records' \in [Loads -> RecordType]
          /\ turns' \in [Turns -> TurnType] /\ reply' \in [CommandIds -> 0..Refused]
          /\ used' \in 0..MaxTurns /\ loads' \in 0..MaxLoads
      BY <1>0, <2>1, <2>2, <2>4, <3>1, SendAsType
    <3>3. Memory' /\ Heard' /\ Counted'
      BY <1>0, <2>1, <3>2 DEF Memory, Heard, Counted
    <3> QED
      BY <1>0, <2>1, <3>2, <3>3, Unmoved, FlagsKept DEF Typed
  <2>5. CASE records' = rs /\ UNCHANGED <<rows, batch, record, turns, reply, used, loads>>
    <3>1. Memory' /\ Heard' /\ Counted'
      BY <1>0, <2>1, <2>2, <2>5 DEF Memory, Heard, Counted
    <3> QED
      BY <1>0, <2>1, <2>5, <3>1, Unmoved, FlagsKept DEF Typed
  <2> QED
    BY <2>3, <2>4, <2>5
<1>4. ASSUME NEW g \in Loads, CancelReaches(g)
      PROVE  Typed'
  <2>1. UNCHANGED <<child, up, record, turns, agent, history, bounds>>
    BY <1>4 DEF CancelReaches
  <2>2. records' \in [Loads -> RecordType]
    BY <1>0, <1>4, RecordsWith DEF CancelReaches
  <2>3. Batched' /\ requests' \in [Requests -> RequestType]
    BY <1>0, <1>4, SettleOnlyType DEF CancelReaches
  <2>4. Memory'
    BY <1>0, <2>1, <2>2, <2>3 DEF Memory
  <2> QED
    BY <1>0, <2>1, <2>3, <2>4, Unmoved, FlagsKept DEF Typed
<1>5. ASSUME NEW g \in Loads, CancelErrs(g)
      PROVE  Typed'
  <2> DEFINE rs == [records EXCEPT ![g].cancel = "failed"]
  <2>1. UNCHANGED <<child, up, record, queue, work, background, bounds>> /\ message' = 0
    BY <1>5, Zenon DEF CancelErrs
  <2>2. rs \in [Loads -> RecordType]
    BY <1>0, RecordsWith
  <2>3. Working'
    <3>1. background' \in BOOLEAN
      BY <1>0, <2>1, Zenon DEF Working
    <3> QED
      BY <1>0, <1>b, <2>1, <3>1, WorkingWith DEF Working
  <2>4. CASE records' = rs /\ UNCHANGED <<rows, batch, turns, asker, requests, history>>
    <3>1. Memory'
      BY <1>0, <2>1, <2>2, <2>4 DEF Memory
    <3> QED
      BY <1>0, <2>1, <2>3, <2>4, <3>1, Unmoved, FlagsKept DEF Typed
  <2>5. CASE Target # 0 /\ End(Target, Stopped(Target, "failed"), turns, rs, requests, late)
    <3>1. Target \in Turns /\ Stopped(Target, "failed") \in Ends
      BY <1>a, <1>b, <1>c, <2>5, StoppedType
    <3>2. Batched' /\ Memory' /\ Heard'
      BY <1>0, <2>1, <2>2, <2>5, <3>1, EndKeepsType
    <3> QED
      BY <1>0, <2>1, <2>3, <3>2, Unmoved, FlagsKept DEF Typed
  <2> QED
    BY <1>5, <2>4, <2>5 DEF CancelErrs
<1>6. ASSUME NEW g \in Loads, CancelReturns(g)
      PROVE  Typed'
  <2> DEFINE t == records[g].cancelling
             rs == [records EXCEPT ![g].cancelling = 0, ![g].cancel = "none"]
  <2>1. UNCHANGED <<child, up, record, agent, bounds>>
    BY <1>6 DEF CancelReturns
  <2>2. rs \in [Loads -> RecordType]
    <3> DEFINE half == [records EXCEPT ![g].cancelling = 0]
    <3>1. half \in [Loads -> RecordType]
      BY <1>0, <1>b, RecordsWith
    <3>2. rs = [half EXCEPT ![g].cancel = "none"]
      BY <1>0
    <3> QED
      BY <3>1, <3>2, RecordsWith
  <2>3. t \in Turns
    BY <1>0, <1>b, <1>6 DEF CancelReturns, RecordType
  <2>4. CASE records' = rs /\ UNCHANGED <<rows, batch, turns, asker, requests, history>>
    <3>1. Memory'
      BY <1>0, <2>1, <2>2, <2>4 DEF Memory
    <3> QED
      BY <1>0, <2>1, <2>4, <3>1, Unmoved, FlagsKept DEF Typed
  <2>5. CASE /\ turns' = [turns EXCEPT ![t].stop = FALSE] /\ records' = rs
             /\ UNCHANGED <<rows, batch, asker, requests, history>>
    <3>1. turns' \in [Turns -> TurnType]
      BY <1>0, <2>3, <2>5, TurnsWith
    <3>2. Memory'
      BY <1>0, <2>1, <2>2, <2>5, <3>1 DEF Memory
    <3> QED
      BY <1>0, <2>1, <2>5, <3>2, Unmoved, FlagsKept DEF Typed
  <2>6. CASE End(t, "interrupted", turns, rs, requests, late)
    <3>1. Batched' /\ Memory' /\ Heard'
      BY <1>0, <1>c, <2>1, <2>2, <2>3, <2>6, EndKeepsType
    <3> QED
      BY <1>0, <2>1, <3>1, Unmoved, FlagsKept DEF Typed
  <2> QED
    BY <1>6, <2>4, <2>5, <2>6 DEF CancelReturns
<1>7. ASSUME NEW t \in Turns, StartPrompt(t)
      PROVE  Typed'
  <2> DEFINE ts == [turns EXCEPT ![t].chain = "skipped"]
  <2>1. UNCHANGED <<child, up, record, work, message, background, bounds>>
    BY <1>7, Zenon DEF StartPrompt
  <2>2. ts \in [Turns -> TurnType]
    BY <1>0, <1>d, TurnsWith
  <2>3. Working'
    <3>1. background' \in BOOLEAN
      BY <1>0, <2>1, Zenon DEF Working
    <3>2. queue' \in {queue, Append(queue, t)}
      BY <1>7 DEF StartPrompt
    <3>3. queue' \in Seq(Turns)
      BY <1>0, <3>2 DEF Working
    <3> QED
      BY <1>0, <2>1, <3>1, <3>3, WorkingWith DEF Working
  <2>4. CASE End(t, "failed", ts, records, requests, late)
    <3>1. Batched' /\ Memory' /\ Heard'
      BY <1>0, <1>c, <2>1, <2>2, <2>4, EndKeepsType
    <3> QED
      BY <1>0, <2>1, <2>3, <3>1, Unmoved, FlagsKept DEF Typed
  <2>5. CASE /\ turns' \in {ts, [turns EXCEPT ![t].chain = "prompted"]}
             /\ UNCHANGED <<rows, batch, records, asker, requests, history>>
    <3>1. turns' \in [Turns -> TurnType]
      BY <1>0, <1>d, <2>2, <2>5, TurnsWith
    <3>2. Memory'
      BY <1>0, <2>1, <2>5, <3>1 DEF Memory
    <3> QED
      BY <1>0, <2>1, <2>3, <2>5, <3>2, Unmoved, FlagsKept DEF Typed
  <2> QED
    BY <1>7, <2>4, <2>5 DEF StartPrompt, Skips
<1>8. ASSUME NEW t \in Turns, PromptSettles(t)
      PROVE  Typed'
  <2> DEFINE fine == turns[t].chain = "resolved"
             ts == [turns EXCEPT ![t].chain = IF fine THEN "settled" ELSE "failed"]
             outcome == Stopped(t, IF fine THEN "completed" ELSE "failed")
  <2>1. UNCHANGED <<child, up, record, agent, bounds>>
    BY <1>8 DEF PromptSettles
  <2>2. ts \in [Turns -> TurnType]
    <3>1. (IF fine THEN "settled" ELSE "failed") \in Chains
      BY <1>d
    <3> QED
      BY <1>0, <3>1, TurnsWith
  <2>3. CASE End(t, outcome, ts, records, requests, late)
    <3>1. outcome \in Ends
      BY <1>c, StoppedType
    <3>2. Batched' /\ Memory' /\ Heard'
      BY <1>0, <2>1, <2>2, <2>3, <3>1, EndKeepsType
    <3> QED
      BY <1>0, <2>1, <3>2, Unmoved, FlagsKept DEF Typed
  <2>4. CASE turns' = ts /\ UNCHANGED <<rows, batch, records, asker, requests, history>>
    <3>1. Memory'
      BY <1>0, <2>1, <2>2, <2>4 DEF Memory
    <3> QED
      BY <1>0, <2>1, <2>4, <3>1, Unmoved, FlagsKept DEF Typed
  <2> QED
    BY <1>8, <2>3, <2>4 DEF PromptSettles
<1> QED
  BY <1>1, <1>2, <1>3, <1>4, <1>5, <1>6, <1>7, <1>8 DEF Promises

LEMMA OtherStepsType ==
    ASSUME Typed, Faults \/ Commit \/ Boot
    PROVE  Typed'
<1> USE TurnLifecycleAssumption
<1>0. /\ Flags /\ Batched /\ Memory /\ Working /\ Heard /\ Counted
  BY DEF Typed
<1>1. CASE DroppedWithParent
  <2>1. Memory'
    BY <1>0, <1>1 DEF DroppedWithParent, Memory
  <2> QED
    BY <1>0, <1>1, <2>1, Unmoved, FlagsKept DEF DroppedWithParent, Typed
<1>2. CASE RemoveFails
  <2>1. UNCHANGED <<child, rows, due, late, up, asker, requests, queue, work, message, reply,
                    twice, unrecovered, bounds>>
    BY <1>2 DEF RemoveFails
  <2>2. Batched'
    BY <1>0, <1>2, <2>1 DEF RemoveFails, WriteFails, Batched, rows
  <2>3. turns' \in [Turns -> TurnType] /\ records' \in [Loads -> RecordType] /\ record' = 0
    BY <1>0, <1>2, AbandonType DEF RemoveFails, Abandon
  <2>4. Memory'
    BY <1>0, <2>1, <2>3 DEF Memory
  <2>5. Working'
    <3>1. background' \in BOOLEAN
      BY <1>2, Zenon DEF RemoveFails, Abandon
    <3> QED
      BY <1>0, <2>1, <3>1, WorkingWith DEF Working
  <2>6. Heard'
    <3>1. Active \in 0..MaxTurns
      BY <1>0, ActiveType
    <3>2. abandoned' \subseteq Turns
      BY <1>0, <1>2, <3>1 DEF RemoveFails, Heard, Turns
    <3> QED
      BY <1>0, <2>1, <3>2 DEF Heard
  <2> QED
    BY <1>0, <2>1, <2>2, <2>4, <2>5, <2>6, Unmoved, FlagsKept DEF Typed
<1>3. CASE Crash
  <2>1. UNCHANGED <<child, rows, asker, failures, history, bounds>>
    BY <1>3 DEF Crash
  <2>2. Batched'
    BY <1>0, <1>3, <2>1, TypesOfNothing DEF Crash, Batched, rows
  <2>3. Memory'
    BY <1>3, TypesOfNothing DEF Crash, Memory
  <2>4. Working'
    <3>1. background' \in BOOLEAN
      BY <1>3, Zenon DEF Crash
    <3>2. queue' = <<>> /\ work' = 0 /\ message' = 0
      BY <1>3 DEF Crash
    <3> QED
      BY <3>1, <3>2, WorkingWith
  <2>5. Flags'
    <3>1. child' = child /\ boots' = boots /\ boots < MaxBoots /\ up' = FALSE
      BY <1>3, Zenon DEF Crash, bounds
    <3> QED
      BY <1>0, <3>1, Zenon DEF Flags
  <2> QED
    BY <1>0, <2>1, <2>2, <2>3, <2>4, <2>5, Unmoved DEF Typed
<1>4. CASE Commit
  <2>1. Batched'
    BY <1>0, <1>4, RowsAfterType, AskAfterType, TypesOfNothing
    DEF Commit, Written, Batched, memory
  <2> QED
    BY <1>0, <1>4, <2>1, Unmoved, FlagsKept DEF Commit, Typed, memory
<1>5. CASE Boot
  <2>1. /\ boots' = boots + 1
        /\ UNCHANGED <<child, held, command, due, late, memory, agent, reply, twice, used, loads>>
    BY <1>5 DEF Boot
  <2>2. PICK lost \in SUBSET OpenTurns :
           LET ends == [t \in Turns |-> IF t \in OpenTurns \ lost THEN "interrupted" ELSE "none"]
           IN  /\ failures + Cardinality(lost) <= MaxFailures
               /\ failures' = failures + Cardinality(lost)
               /\ row' = RowsAfter(ends) /\ ask' = AskAfter(asker, ends, late)
               /\ unrecovered' = lost
    BY <1>5 DEF Boot
  <2>3. Cardinality(lost) \in Nat
    <3>1. IsFiniteSet(Turns)
      BY FS_Interval DEF Turns
    <3>2. lost \subseteq Turns
      BY DEF OpenTurns
    <3> QED
      BY <3>1, <3>2, FS_Subset, FS_CardinalityType
  <2>4. Batched'
    <3> DEFINE ends == [t \in Turns |-> IF t \in OpenTurns \ lost THEN "interrupted" ELSE "none"]
    <3>1. ends \in Dues
      BY DEF Dues, Outcomes, Ends
    <3>2. row' = RowsAfter(ends) /\ ask' = AskAfter(asker, ends, late)
      BY <2>2
    <3>3. row' \in [Turns -> Rows]
      BY <1>0, <3>1, <3>2, RowsAfterType DEF Batched
    <3>4. ask' \in [Requests -> Asks]
      BY <1>0, <3>2, AskAfterType DEF Batched
    <3>5. failures' \in 0..MaxFailures
      BY <1>0, <2>2, <2>3 DEF Batched
    <3> QED
      BY <1>0, <2>1, <3>3, <3>4, <3>5 DEF Batched, memory
  <2>5. Heard'
    BY <1>0, <1>5, <2>1, <2>2 DEF Heard, OpenTurns, Boot
  <2>6. Flags'
    BY <1>0, <1>5, Zenon DEF Boot, Flags
  <2>7. boots' \in 0..MaxBoots
    <3>1. boots < MaxBoots
      BY <1>0, <1>5, Zenon DEF Boot, Flags
    <3> QED
      BY <1>0, <2>1, <3>1 DEF Counted
  <2>8. Counted'
    BY <1>0, <2>1, <2>7 DEF Counted
  <2> QED
    BY <1>0, <2>1, <2>4, <2>5, <2>6, <2>8, Unmoved DEF Typed, memory
<1> QED
  BY <1>1, <1>2, <1>3, <1>4, <1>5 DEF Faults

LEMMA StepTyped ==
    ASSUME Typed, [Next]_vars
    PROVE  Typed'
<1>1. CASE Next
  BY <1>1, ClientsType, AgentType, PromisesType, OtherStepsType DEF Next
<1>2. CASE UNCHANGED vars
  <2>1. /\ UNCHANGED <<child, up, bounds>> /\ UNCHANGED <<rows, batch, asker>>
        /\ UNCHANGED <<record, records, turns, requests>> /\ UNCHANGED agent /\ UNCHANGED history
    BY <1>2, Zenon DEF vars, memory
  <2> QED
    BY <2>1, Unmoved, FlagsKept DEF Typed
<1> QED
  BY <1>1, <1>2

LEMMA InitTyped == Init => Typed
<1> SUFFICES ASSUME Init PROVE Typed
  OBVIOUS
<1>1. Flags
  BY Zenon DEF Init, Flags
<1> QED
  BY <1>1, InitType, Parts DEF Typed

\* Every variable keeps its type, for any commands, requests and bounds.
THEOREM TurnTypes == Spec => []TypeOK
<1>1. Init => Typed
  BY InitTyped
<1>2. Typed /\ [Next]_vars => Typed'
  BY StepTyped
<1> QED
  BY <1>1, <1>2, TypedHasTypes, PTL DEF Spec

-----------------------------------------------------------------------------
(* What the rows keep pending.                                             *)

\* A request the service never filed has left no trace in the rows or in what
\* is kept for them; a pending one was filed under a turn that is open.
Filed ==
    \A q \in Requests :
        /\ asker[q] = 0 => ask[q] = "absent" /\ late[q] = {}
        /\ ask[q] = "pending" => asker[q] # 0 /\ row[asker[q]] = "open"

\* A request keeps the turn it was filed under; one filed now had left no trace.
FiledUnder(by) == \A q \in Requests : asker[q] # 0 => by[q] = asker[q]

LEMMA WrittenFiled ==
    ASSUME Batched, Filed, NEW by \in [Requests -> 0..MaxTurns], FiledUnder(by),
           NEW d \in Dues, NEW l \in Lates, \A q \in Requests : by[q] = 0 => l[q] = {}
    PROVE  \A q \in Requests :
             /\ by[q] = 0 => AskAfter(by, d, l)[q] = "absent"
             /\ AskAfter(by, d, l)[q] = "pending" => by[q] # 0 /\ RowsAfter(d)[by[q]] = "open"
<1> SUFFICES ASSUME NEW q \in Requests
             PROVE  /\ by[q] = 0 => AskAfter(by, d, l)[q] = "absent"
                    /\ AskAfter(by, d, l)[q] = "pending" =>
                          by[q] # 0 /\ RowsAfter(d)[by[q]] = "open"
  OBVIOUS
<1>1. ask[q] \in Asks
  BY DEF Batched
<1>2. CASE by[q] = 0
  <2>1. asker[q] = 0 /\ ask[q] = "absent" /\ l[q] = {}
    BY <1>2 DEF Filed, FiledUnder
  <2> QED
    BY <1>2, <2>1 DEF AskAfter
<1>3. CASE by[q] # 0
  <2>1. by[q] \in Turns
    BY <1>3 DEF Turns
  <2>2. ask[q] = "pending" => row[by[q]] = "open"
    BY DEF Filed, FiledUnder
  <2>3. AskAfter(by, d, l)[q] = "pending" => row[by[q]] = "open" /\ d[by[q]] = "none"
    BY <2>2 DEF AskAfter
  <2>4. RowsAfter(d)[by[q]] = IF d[by[q]] # "none" /\ row[by[q]] = "open"
                              THEN d[by[q]] ELSE row[by[q]]
    BY <2>1 DEF RowsAfter
  <2> QED
    BY <1>3, <2>3, <2>4
<1> QED
  BY <1>2, <1>3

LEMMA WriteFiled ==
    ASSUME Batched, Filed, NEW by \in [Requests -> 0..MaxTurns], FiledUnder(by),
           NEW d \in Dues, NEW l \in Lates, \A q \in Requests : by[q] = 0 => l[q] = {},
           Write(by, d, l)
    PROVE  Filed'
<1>1. asker' = by
  BY DEF Write
<1>2. CASE Written(by, d, l)
  <2>1. row' = RowsAfter(d) /\ ask' = AskAfter(by, d, l) /\ late' = NothingLate
    BY <1>2 DEF Written
  <2>2. \A q \in Requests : late'[q] = {}
    BY <2>1 DEF NothingLate
  <2> QED
    BY <1>1, <2>1, <2>2, WrittenFiled DEF Filed
<1>3. CASE UNCHANGED <<row, ask>> /\ late' = l
  <2> SUFFICES ASSUME NEW q \in Requests
               PROVE  /\ by[q] = 0 => ask[q] = "absent" /\ l[q] = {}
                      /\ ask[q] = "pending" => by[q] # 0 /\ row[by[q]] = "open"
    BY <1>1, <1>3 DEF Filed
  <2> QED
    BY DEF Filed, FiledUnder
<1> QED
  BY <1>2, <1>3 DEF Write

LEMMA SameFiled ==
    ASSUME Filed, UNCHANGED <<row, ask, late, asker>>
    PROVE  Filed'
  BY DEF Filed

LEMMA RowsGoFiled ==
    ASSUME Filed, RowsGo
    PROVE  Filed'
  BY DEF RowsGo, Filed, NothingLate

LEMMA EndFiled ==
    ASSUME Batched, Filed, NEW t \in Turns, NEW outcome \in Ends, NEW ts, NEW rs, NEW qs,
           NEW l \in Lates, \A q \in Requests : asker[q] = 0 => l[q] = {},
           End(t, outcome, ts, rs, qs, l)
    PROVE  Filed'
<1>1. [due EXCEPT ![t] = IF @ = "none" THEN outcome ELSE @] \in Dues
  BY DEF Batched, Dues, Outcomes
<1>2. Write(asker, [due EXCEPT ![t] = IF @ = "none" THEN outcome ELSE @], l)
  BY DEF End
<1>3. asker \in [Requests -> 0..MaxTurns] /\ FiledUnder(asker)
  BY DEF Batched, FiledUnder
<1> QED
  BY <1>1, <1>2, <1>3, WriteFiled

LEMMA SettledFiled ==
    ASSUME Filed, NEW S
    PROVE  \A q \in Requests : asker[q] = 0 => LateWith(S)[q] = {}
  BY DEF Filed, LateWith

LEMMA SettleOnlyFiled ==
    ASSUME Batched, Filed, NEW S, SettleOnly(S)
    PROVE  Filed'
<1>1. CASE UNCHANGED <<rows, batch, asker>>
  BY <1>1, SameFiled DEF rows, batch
<1>2. CASE Write(asker, due, LateWith(S))
  <2>1. FiledUnder(asker)
    BY DEF FiledUnder
  <2> QED
    BY <1>2, <2>1, WriteFiled, LateWithType, SettledFiled DEF Batched
<1> QED
  BY <1>1, <1>2 DEF SettleOnly

LEMMA SendAsFiled ==
    ASSUME Batched, Counted, Filed, NEW c, NEW rs, SendAs(c, rs), UNCHANGED asker
    PROVE  Filed'
<1>1. CASE UNCHANGED <<rows, due, late>>
  BY <1>1, SameFiled DEF rows
<1>2. CASE row' = [row EXCEPT ![used + 1] = "open"] /\ UNCHANGED <<held, ask, batch>>
  <2>1. UNCHANGED <<ask, late>>
    BY <1>2 DEF batch
  <2>2. \A t \in Turns : row[t] = "open" => row'[t] = "open"
    BY <1>2 DEF Batched
  <2> SUFFICES ASSUME NEW q \in Requests
               PROVE  /\ asker[q] = 0 => ask[q] = "absent" /\ late[q] = {}
                      /\ ask[q] = "pending" => asker[q] # 0 /\ row'[asker[q]] = "open"
    BY <2>1 DEF Filed
  <2>3. asker[q] # 0 => asker[q] \in Turns
    BY DEF Batched, Turns
  <2> QED
    BY <2>2, <2>3 DEF Filed
<1> QED
  BY <1>1, <1>2 DEF SendAs

LEMMA OpensFiled ==
    ASSUME Batched, Filed, NEW b \in Turns, Opens(b)
    PROVE  Filed'
<1>1. UNCHANGED asker
  BY DEF Opens
<1>2. CASE UNCHANGED <<row, ask, due, late>>
  BY <1>1, <1>2, SameFiled
<1>3. CASE /\ row' = [RowsAfter(due) EXCEPT ![b] = "open"]
           /\ ask' = AskAfter(asker, due, late)
           /\ due' = NothingDue /\ late' = NothingLate
  <2>1. FiledUnder(asker) /\ \A q \in Requests : asker[q] = 0 => late[q] = {}
    BY DEF FiledUnder, Filed
  <2>2. \A q \in Requests :
           /\ asker[q] = 0 => ask'[q] = "absent"
           /\ ask'[q] = "pending" => asker[q] # 0 /\ RowsAfter(due)[asker[q]] = "open"
    BY <1>3, <2>1, WrittenFiled DEF Batched
  <2>3. \A t \in Turns : RowsAfter(due)[t] = "open" => row'[t] = "open"
    BY <1>3 DEF RowsAfter
  <2>4. \A q \in Requests : asker[q] # 0 => asker[q] \in Turns
    BY DEF Batched, Turns
  <2>5. \A q \in Requests : late'[q] = {}
    BY <1>3 DEF NothingLate
  <2> QED
    BY <1>1, <2>2, <2>3, <2>4, <2>5 DEF Filed
<1> QED
  BY <1>2, <1>3 DEF Opens

LEMMA StepFiled ==
    ASSUME Typed, Filed, [Next]_vars
    PROVE  Filed'
<1> USE TurnLifecycleAssumption
<1>0. /\ Batched /\ Memory /\ Counted /\ late \in Lates /\ due \in Dues
      /\ \A q \in Requests : asker[q] = 0 => late[q] = {}
  BY DEF Typed, Filed, Batched
<1>a. Active \in 0..MaxTurns /\ Target \in {0, Active}
  BY <1>0, ActiveType
<1>b. \A t \in 0..MaxTurns : t # 0 => t \in Turns
  BY DEF Turns
<1>c. {"interrupted", "completed", "failed"} \subseteq Ends
  BY DEF Ends
<1>d. work \in 0..MaxTurns /\ message \in 0..MaxTurns
  BY DEF Typed, Working
<1>1. ASSUME UNCHANGED <<rows, batch, asker>>
      PROVE  Filed'
  BY <1>1, SameFiled DEF rows, batch
<1>2. ASSUME NEW t \in Turns, NEW outcome \in Ends, NEW ts, NEW rs, NEW qs,
             End(t, outcome, ts, rs, qs, late)
      PROVE  Filed'
  BY <1>0, <1>2, EndFiled
<1>3. ASSUME Clients
      PROVE  Filed'
  <2>1. CASE Load
    BY <1>1, <2>1 DEF Load
  <2>2. CASE Delete
    BY <2>2, RowsGoFiled DEF Delete
  <2>3. ASSUME NEW c \in Commands, Send(c)
        PROVE  Filed'
    <3>1. UNCHANGED asker
      BY <2>3 DEF Send
    <3>2. CASE UNCHANGED <<rows, batch>>
      BY <1>1, <3>1, <3>2
    <3>3. CASE SendAs(c, WithAttached)
      BY <1>0, <3>1, <3>3, SendAsFiled
    <3> QED
      BY <2>3, <3>2, <3>3 DEF Send
  <2>4. ASSUME NEW q \in Requests, Respond(q)
        PROVE  Filed'
    <3>1. CASE UNCHANGED <<rows, batch, asker>>
      BY <1>1, <3>1
    <3>2. CASE Write(asker, due, LateWith({q}))
      <4>1. FiledUnder(asker)
        BY DEF FiledUnder
      <4> QED
        BY <1>0, <3>2, <4>1, WriteFiled, LateWithType, SettledFiled DEF Batched
    <3> QED
      BY <2>4, <3>1, <3>2 DEF Respond
  <2>5. ASSUME NEW q \in Requests, RetryBuild(q)
        PROVE  Filed'
    BY <1>1, <2>5 DEF RetryBuild
  <2>6. ASSUME NEW t \in Turns, Interrupt(t)
        PROVE  Filed'
    BY <1>1, <2>6 DEF Interrupt
  <2>7. ASSUME NEW t \in Turns, InterruptHeld(t)
        PROVE  Filed'
    <3>1. UNCHANGED <<asker, late>> /\ due = NothingDue /\ late = NothingLate
      BY <2>7 DEF InterruptHeld, memory, Quiet
    <3>2. CASE UNCHANGED <<row, ask>>
      BY <3>1, <3>2, SameFiled
    <3>3. CASE /\ row' = [row EXCEPT ![t] = "interrupted"]
               /\ ask' = AskAfter(asker, [due EXCEPT ![t] = "interrupted"], late)
      <4> DEFINE d == [due EXCEPT ![t] = "interrupted"]
      <4>1. d \in Dues
        BY <1>0 DEF Dues, Outcomes, Ends
      <4>2. row' = RowsAfter(d)
        BY <1>0, <2>7, <3>1, <3>3 DEF RowsAfter, NothingDue, Batched, InterruptHeld
      <4>3. FiledUnder(asker)
        BY DEF FiledUnder
      <4>4. ask' = AskAfter(asker, d, late)
        BY <3>3
      <4> HIDE DEF d
      <4>5. \A q \in Requests :
               /\ asker[q] = 0 => ask'[q] = "absent"
               /\ ask'[q] = "pending" => asker[q] # 0 /\ row'[asker[q]] = "open"
        BY <1>0, <4>1, <4>2, <4>3, <4>4, WrittenFiled DEF Batched
      <4> QED
        BY <1>0, <3>1, <4>5 DEF Filed
    <3> QED
      BY <2>7, <3>2, <3>3 DEF InterruptHeld
  <2> QED
    BY <1>3, <2>1, <2>2, <2>3, <2>4, <2>5, <2>6, <2>7 DEF Clients
<1>4. ASSUME Agent
      PROVE  Filed'
  <2>1. CASE Dispatch
    <3>1. CASE UNCHANGED <<rows, batch, asker>>
      BY <1>1, <3>1
    <3>2. CASE work # 0 /\ End(work, Stopped(work, "completed"), turns, records, requests, late)
      BY <1>2, <1>b, <1>c, <1>d, <3>2, StoppedType
    <3> QED
      BY <2>1, <3>1, <3>2 DEF Dispatch
  <2>2. CASE ProcessExits
    <3>1. CASE SettleOnly(Parked)
      BY <1>0, <3>1, SettleOnlyFiled
    <3>2. ASSUME Active # 0, NEW ts,
                 End(Active, Stopped(Active, "failed"), ts, records, SettledIn(Parked),
                     LateWith(Parked))
          PROVE  Filed'
      BY <1>0, <1>a, <1>b, <1>c, <3>2, StoppedType, LateWithType, SettledFiled, EndFiled
    <3> QED
      BY <2>2, <3>1, <3>2 DEF ProcessExits
  <2>3. ASSUME NEW t \in Turns, PromptRejected(t)
        PROVE  Filed'
    BY <1>1, <2>3 DEF PromptRejected
  <2>4. ASSUME NEW q \in Requests, ProviderAsks(q)
        PROVE  Filed'
    <3>1. CASE UNCHANGED <<rows, batch, asker>>
      BY <1>1, <3>1
    <3>2. CASE /\ Target # 0 /\ asker[q] = 0
               /\ Write([asker EXCEPT ![q] = Target], due, [late EXCEPT ![q] = @ \union {"request"}])
      <4> DEFINE by == [asker EXCEPT ![q] = Target]
                 l == [late EXCEPT ![q] = @ \union {"request"}]
      <4>1. by \in [Requests -> 0..MaxTurns] /\ FiledUnder(by)
        BY <1>0, <1>a, <3>2 DEF Batched, FiledUnder
      <4>2. l \in Lates
        BY <1>0 DEF Lates
      <4>3. \A p \in Requests : by[p] = 0 => l[p] = {}
        <5> SUFFICES ASSUME NEW p \in Requests, by[p] = 0 PROVE l[p] = {}
          OBVIOUS
        <5>1. p # q
          BY <1>0, <3>2 DEF Batched
        <5>2. asker[p] = 0
          BY <1>0, <5>1 DEF Batched
        <5>3. l[p] = late[p]
          BY <1>0, <5>1 DEF Lates
        <5> QED
          BY <1>0, <5>2, <5>3
      <4> QED
        BY <1>0, <3>2, <4>1, <4>2, <4>3, WriteFiled
    <3> QED
      BY <2>4, <3>1, <3>2 DEF ProviderAsks
  <2>5. ASSUME NEW q \in Requests, BrokerSettles(q)
        PROVE  Filed'
    BY <1>0, <2>5, SettleOnlyFiled DEF BrokerSettles
  <2>6. ASSUME NEW outcome \in Ends, RunEnds(outcome)
        PROVE  Filed'
    <3>1. CASE UNCHANGED <<rows, batch, asker>>
      BY <1>1, <3>1
    <3>2. ASSUME Target # 0, NEW ts,
                 End(Target, Stopped(Target, outcome), ts, records, requests, late)
          PROVE  Filed'
      BY <1>2, <1>a, <1>b, <3>2, StoppedType
    <3> QED
      BY <2>6, <3>1, <3>2 DEF RunEnds
  <2>7. CASE BackgroundStarts
    <3>1. used + 1 \in Turns
      BY <1>0, <2>7 DEF BackgroundStarts, Counted, Turns
    <3>2. CASE UNCHANGED <<row, ask, late, asker>>
      BY <3>2, SameFiled
    <3>3. CASE Opens(used + 1)
      BY <1>0, <3>1, <3>3, OpensFiled
    <3> QED
      BY <2>7, <3>2, <3>3 DEF BackgroundStarts, rows, batch
  <2>8. CASE BackgroundSpeaks
    BY <1>0, <1>b, <1>d, <2>8, OpensFiled DEF BackgroundSpeaks, Unrecorded
  <2> QED
    BY <1>4, <2>1, <2>2, <2>3, <2>4, <2>5, <2>6, <2>7, <2>8 DEF Agent
<1>5. ASSUME Promises
      PROVE  Filed'
  <2>1. ASSUME NEW g \in Loads, SessionReady(g)
        PROVE  Filed'
    BY <1>1, <2>1 DEF SessionReady
  <2>2. ASSUME NEW g \in Loads, SessionFails(g)
        PROVE  Filed'
    <3>1. UNCHANGED asker
      BY <2>2 DEF SessionFails
    <3>2. CASE RowsGo
      BY <3>2, RowsGoFiled, <3>1
    <3>3. CASE UNCHANGED <<rows, late>>
      BY <3>1, <3>3, SameFiled DEF rows
    <3> QED
      BY <2>2, <3>2, <3>3 DEF SessionFails, batch
  <2>3. ASSUME NEW g \in Loads, BuildContinues(g)
        PROVE  Filed'
    <3> DEFINE rs == [records EXCEPT ![g].building = {}]
    <3>1. UNCHANGED asker
      BY <2>3 DEF BuildContinues
    <3>2. PICK q \in records[g].building : SendAs(q, rs) \/ UNCHANGED <<rows, batch>>
      BY <2>3 DEF BuildContinues
    <3>3. CASE SendAs(q, rs)
      BY <1>0, <3>1, <3>3, SendAsFiled
    <3> QED
      BY <1>1, <3>1, <3>2, <3>3
  <2>4. ASSUME NEW g \in Loads, CancelReaches(g)
        PROVE  Filed'
    BY <1>0, <2>4, SettleOnlyFiled DEF CancelReaches
  <2>5. ASSUME NEW g \in Loads, CancelErrs(g)
        PROVE  Filed'
    <3>1. CASE UNCHANGED <<rows, batch, asker>>
      BY <1>1, <3>1
    <3>2. ASSUME Target # 0, NEW rs,
                 End(Target, Stopped(Target, "failed"), turns, rs, requests, late)
          PROVE  Filed'
      BY <1>2, <1>a, <1>b, <1>c, <3>2, StoppedType
    <3> QED
      BY <2>5, <3>1, <3>2 DEF CancelErrs
  <2>6. ASSUME NEW g \in Loads, CancelReturns(g)
        PROVE  Filed'
    <3>1. CASE UNCHANGED <<rows, batch, asker>>
      BY <1>1, <3>1
    <3>2. ASSUME NEW rs, End(records[g].cancelling, "interrupted", turns, rs, requests, late)
          PROVE  Filed'
      <4>1. records[g].cancelling \in Turns
        BY <1>0, <1>b, <2>6 DEF CancelReturns, Memory, RecordType
      <4> QED
        BY <1>2, <1>c, <3>2, <4>1
    <3> QED
      BY <2>6, <3>1, <3>2 DEF CancelReturns
  <2>7. ASSUME NEW t \in Turns, StartPrompt(t)
        PROVE  Filed'
    <3>1. CASE UNCHANGED <<rows, batch, asker>>
      BY <1>1, <3>1
    <3>2. ASSUME NEW ts, End(t, "failed", ts, records, requests, late)
          PROVE  Filed'
      BY <1>2, <1>c, <3>2
    <3> QED
      BY <2>7, <3>1, <3>2 DEF StartPrompt, Skips
  <2>8. ASSUME NEW t \in Turns, PromptSettles(t)
        PROVE  Filed'
    <3>1. CASE UNCHANGED <<rows, batch, asker>>
      BY <1>1, <3>1
    <3>2. ASSUME NEW ts, NEW o \in {"completed", "failed"},
                 End(t, Stopped(t, o), ts, records, requests, late)
          PROVE  Filed'
      BY <1>2, <1>c, <3>2, StoppedType
    <3> QED
      BY <2>8, <3>1, <3>2 DEF PromptSettles
  <2> QED
    BY <1>5, <2>1, <2>2, <2>3, <2>4, <2>5, <2>6, <2>7, <2>8 DEF Promises
<1>6. CASE Faults
  <2>1. CASE UNCHANGED <<rows, late, asker>>
    BY <2>1, SameFiled DEF rows
  <2>2. CASE Crash
    <3>1. UNCHANGED <<row, ask, asker>> /\ \A q \in Requests : late'[q] = {}
      BY <2>2 DEF Crash, rows, NothingLate
    <3> QED
      BY <3>1 DEF Filed
  <2> QED
    BY <1>6, <2>1, <2>2 DEF Faults, DroppedWithParent, RemoveFails, batch
<1>7. CASE Commit
  <2>1. Written(asker, due, late) /\ UNCHANGED asker
    BY <1>7 DEF Commit, memory
  <2>2. FiledUnder(asker) /\ \A q \in Requests : NothingLate[q] = {}
    BY DEF FiledUnder, NothingLate
  <2> QED
    BY <1>0, <2>1, <2>2, WrittenFiled DEF Written, Batched, Filed
<1>8. CASE Boot
  <2>1. UNCHANGED <<asker, late>>
    BY <1>8 DEF Boot, memory
  <2>2. PICK lost \in SUBSET OpenTurns :
           LET ends == [t \in Turns |-> IF t \in OpenTurns \ lost THEN "interrupted" ELSE "none"]
           IN  row' = RowsAfter(ends) /\ ask' = AskAfter(asker, ends, late)
    BY <1>8 DEF Boot
  <2> DEFINE ends == [t \in Turns |-> IF t \in OpenTurns \ lost THEN "interrupted" ELSE "none"]
  <2>3. ends \in Dues
    BY DEF Dues, Outcomes, Ends
  <2>4. FiledUnder(asker)
    BY DEF FiledUnder
  <2>5. row' = RowsAfter(ends) /\ ask' = AskAfter(asker, ends, late)
    BY <2>2
  <2> HIDE DEF ends
  <2>6. \A q \in Requests :
           /\ asker[q] = 0 => ask'[q] = "absent"
           /\ ask'[q] = "pending" => asker[q] # 0 /\ row'[asker[q]] = "open"
    BY <1>0, <2>3, <2>4, <2>5, WrittenFiled DEF Batched
  <2> QED
    BY <1>0, <2>1, <2>6 DEF Filed
<1>9. CASE UNCHANGED vars
  BY <1>1, <1>9 DEF vars, memory
<1> QED
  BY <1>3, <1>4, <1>5, <1>6, <1>7, <1>8, <1>9 DEF Next

\* No request stays pending in the rows after its turn ended in them.
THEOREM NothingStaysPending == Spec => []NothingPendingAfterEnd
<1>1. Init => Typed /\ Filed
  <2> SUFFICES ASSUME Init PROVE Typed /\ Filed
    OBVIOUS
  <2>1. Typed
    BY InitTyped
  <2>2. Filed
    BY DEF Init, Filed, NothingLate
  <2> QED
    BY <2>1, <2>2
<1>2. Typed /\ Filed /\ [Next]_vars => (Typed /\ Filed)'
  BY StepTyped, StepFiled
<1>3. Filed => NothingPendingAfterEnd
  BY DEF Filed, NothingPendingAfterEnd
<1> QED
  BY <1>1, <1>2, <1>3, PTL DEF Spec

-----------------------------------------------------------------------------
(* Who may end a turn.                                                     *)

\* A record's active turn is its own and has not ended; the start a record
\* could not write is of a run no record has for its turn, or to start.
OwnsActive(g) ==
    LET a == records[g].active
    IN  a # 0 => a <= used /\ turns[a].owner = g /\ turns[a].said = "none"

OwesStart(g) ==
    LET u == records[g].unrecorded
    IN  u # 0 => /\ u <= used
                 /\ \A h \in Loads : records[h].active # u /\ (h # g => records[h].unrecorded # u)

Owning == twice = {} /\ \A g \in Loads : OwnsActive(g) /\ OwesStart(g)

\* What the steps that start no turn do to memory.
SameTurns(ts) == \A t \in Turns : ts[t].owner = turns[t].owner /\ ts[t].said = turns[t].said
Fewer(rs) == \A g \in Loads : /\ rs[g].active \in {records[g].active, 0}
                               /\ rs[g].unrecorded \in {records[g].unrecorded, 0}
Alike(rs) == \A g \in Loads : /\ rs[g].active = records[g].active
                               /\ rs[g].unrecorded = records[g].unrecorded

LEMMA KeepsOwning ==
    ASSUME Typed, Owning, SameTurns(turns'), Fewer(records'), UNCHANGED twice,
           used' \in {used, used + 1}
    PROVE  Owning'
<1>0. records \in [Loads -> RecordType] /\ \A g \in Loads : records[g].active \in 0..MaxTurns
  BY DEF Typed, Memory, RecordType
<1>a. used \in Nat
  BY TurnLifecycleAssumption DEF Typed, Counted
<1>b. \A n \in 0..MaxTurns : n <= used => n <= used'
  BY <1>a
<1> SUFFICES ASSUME NEW g \in Loads PROVE OwnsActive(g)' /\ OwesStart(g)'
  BY DEF Owning
<1>1. OwnsActive(g)'
  <2> SUFFICES ASSUME records'[g].active # 0
               PROVE  LET a == records'[g].active
                      IN  a <= used' /\ turns'[a].owner = g /\ turns'[a].said = "none"
    BY DEF OwnsActive
  <2>1. records'[g].active = records[g].active /\ records[g].active \in Turns
    BY <1>0 DEF Fewer, Turns
  <2> QED
    BY <1>0, <1>b, <2>1 DEF Owning, OwnsActive, SameTurns
<1>2. OwesStart(g)'
  <2>1. records[g].unrecorded \in 0..MaxTurns
    BY <1>0 DEF RecordType
  <2> QED
    BY <1>b, <2>1 DEF Owning, OwesStart, Fewer
<1> QED
  BY <1>1, <1>2

LEMMA EndOwning ==
    ASSUME Typed, Owning, NEW t \in Turns, NEW outcome, NEW ts \in [Turns -> TurnType],
           NEW rs \in [Loads -> RecordType], NEW qs, NEW l, SameTurns(ts), Alike(rs),
           turns[t].owner \in Loads, records[turns[t].owner].active = t,
           End(t, outcome, ts, rs, qs, l), UNCHANGED used
    PROVE  Owning'
<1> DEFINE o == turns[t].owner
<1>0. /\ records \in [Loads -> RecordType]
      /\ \A g \in Loads : records[g].active \in 0..MaxTurns
  BY DEF Typed, Memory, RecordType
<1>1. turns[t].said = "none" /\ t # 0
  BY DEF Owning, OwnsActive, Turns
<1>2. twice' = {}
  BY <1>1 DEF End, Owning
<1>3. \A u \in Turns : u # t => turns'[u].owner = turns[u].owner /\ turns'[u].said = turns[u].said
  BY DEF End, SameTurns
<1>4. /\ records'[o].active = 0
      /\ \A g \in Loads : g # o => records'[g].active = records[g].active
      /\ \A g \in Loads : records'[g].unrecorded = records[g].unrecorded
  <2>1. records' = [rs EXCEPT ![o].active = 0]
    BY DEF End
  <2>2. rs[o] \in RecordType
    OBVIOUS
  <2>3. \A g \in Loads : g # o => records'[g] = rs[g]
    BY <2>1
  <2>4. records'[o] = [rs[o] EXCEPT !.active = 0]
    BY <2>1
  <2>5. records'[o].active = 0 /\ records'[o].unrecorded = rs[o].unrecorded
    BY <2>2, <2>4 DEF RecordType
  <2> QED
    BY <2>3, <2>5 DEF Alike
<1> SUFFICES ASSUME NEW g \in Loads PROVE OwnsActive(g)' /\ OwesStart(g)'
  BY <1>2 DEF Owning
<1>5. OwnsActive(g)'
  <2>1. CASE records'[g].active = 0
    BY <2>1 DEF OwnsActive
  <2>2. CASE records'[g].active # 0
    <3>1. g # o /\ records'[g].active = records[g].active
      BY <1>4, <2>2
    <3>2. records[g].active \in Turns
      BY <1>0, <2>2, <3>1 DEF Turns
    <3>3. turns[records[g].active].owner = g /\ turns[records[g].active].said = "none"
          /\ records[g].active <= used
      BY <2>2, <3>1 DEF Owning, OwnsActive
    <3>4. records[g].active # t
      BY <3>1, <3>3
    <3> QED
      BY <1>3, <3>1, <3>2, <3>3, <3>4 DEF OwnsActive
  <2> QED
    BY <2>1, <2>2
<1>6. OwesStart(g)'
  <2>1. \A h \in Loads : records'[h].active \in {records[h].active, 0}
    BY <1>4
  <2> QED
    BY <1>4, <2>1 DEF Owning, OwesStart
<1> QED
  BY <1>5, <1>6

\* A turn that starts takes a number no record has.
LEMMA StartOwning ==
    ASSUME Typed, Owning, NEW g \in Loads, NEW t \in Turns, t <= used',
           used <= used', used' \in Nat,
           \A h \in Loads : records[h].active # t /\ (h # g => records[h].unrecorded # t),
           \A h \in Loads : h # g => /\ records'[h].active \in {records[h].active, 0}
                                     /\ records'[h].unrecorded \in {records[h].unrecorded, 0},
           records'[g].active = t, records'[g].unrecorded \in {records[g].unrecorded, 0},
           records'[g].unrecorded # t,
           turns'[t].owner = g, turns'[t].said = "none",
           \A u \in Turns : u # t => /\ turns'[u].owner = turns[u].owner
                                     /\ turns'[u].said = turns[u].said,
           UNCHANGED twice
    PROVE  Owning'
<1>0. /\ \A h \in Loads : records[h].active \in 0..MaxTurns /\ records[h].unrecorded \in 0..MaxTurns
      /\ used \in Nat /\ MaxTurns \in Nat
  BY TurnLifecycleAssumption DEF Typed, Memory, Counted, RecordType
<1>1. t # 0
  BY DEF Turns
<1> SUFFICES ASSUME NEW h \in Loads PROVE OwnsActive(h)' /\ OwesStart(h)'
  BY DEF Owning
<1>2. OwnsActive(h)'
  <2>1. CASE h = g
    BY <2>1 DEF OwnsActive
  <2>2. CASE h # g /\ records'[h].active # 0
    <3>1. records'[h].active = records[h].active /\ records[h].active \in Turns
      BY <1>0, <2>2 DEF Turns
    <3>2. records[h].active # t
      OBVIOUS
    <3>3. /\ records[h].active <= used /\ turns[records[h].active].owner = h
          /\ turns[records[h].active].said = "none"
      BY <2>2, <3>1 DEF Owning, OwnsActive
    <3>4. records[h].active <= used'
      BY <1>0, <3>3
    <3> QED
      BY <3>1, <3>2, <3>3, <3>4 DEF OwnsActive
  <2>3. CASE records'[h].active = 0
    BY <2>3 DEF OwnsActive
  <2> QED
    BY <2>1, <2>2, <2>3
<1>3. OwesStart(h)'
  <2> SUFFICES ASSUME records'[h].unrecorded # 0
               PROVE  LET u == records'[h].unrecorded
                      IN  /\ u <= used'
                          /\ \A k \in Loads : /\ records'[k].active # u
                                               /\ (k # h => records'[k].unrecorded # u)
    BY DEF OwesStart
  <2> DEFINE u == records'[h].unrecorded
  <2>1. u = records[h].unrecorded
    OBVIOUS
  <2>2. u <= used /\ \A k \in Loads : records[k].active # u /\ (k # h => records[k].unrecorded # u)
    BY <2>1 DEF Owning, OwesStart
  <2>3. u # t
    BY <2>1
  <2>4. u <= used'
    BY <1>0, <2>1, <2>2
  <2>5. ASSUME NEW k \in Loads PROVE records'[k].active # u /\ (k # h => records'[k].unrecorded # u)
    BY <2>1, <2>2, <2>3
  <2> QED
    BY <2>4, <2>5
<1> QED
  BY <1>2, <1>3

LEMMA RecordsAlike ==
    ASSUME records \in [Loads -> RecordType], NEW g \in Loads
    PROVE  /\ \A v : Alike([records EXCEPT ![g].session = v])
           /\ \A v : Alike([records EXCEPT ![g].cancel = v])
           /\ \A v : Alike([records EXCEPT ![g].cancelling = v])
           /\ \A v : Alike([records EXCEPT ![g].building = v])
<1>1. records[g] \in RecordType
  OBVIOUS
<1>2. \A v : Alike([records EXCEPT ![g].session = v])
  BY <1>1 DEF Alike, RecordType
<1>3. \A v : Alike([records EXCEPT ![g].cancel = v])
  BY <1>1 DEF Alike, RecordType
<1>4. \A v : Alike([records EXCEPT ![g].cancelling = v])
  BY <1>1 DEF Alike, RecordType
<1>5. \A v : Alike([records EXCEPT ![g].building = v])
  BY <1>1 DEF Alike, RecordType
<1> QED
  BY <1>2, <1>3, <1>4, <1>5

LEMMA AlikeFewer ==
    ASSUME NEW rs, Alike(rs)
    PROVE  Fewer(rs)
  BY DEF Alike, Fewer

LEMMA TurnsAlike ==
    ASSUME turns \in [Turns -> TurnType], NEW t \in Turns
    PROVE  /\ SameTurns(turns)
           /\ \A c : SameTurns([turns EXCEPT ![t].chain = c])
           /\ \A c : SameTurns([turns EXCEPT ![t].stop = c])
           /\ \A c : SameTurns([turns EXCEPT ![t].heard = c])
           /\ \A c : SameTurns([turns EXCEPT ![t].folded = c])
<1>1. turns[t] \in TurnType
  OBVIOUS
<1>2. \A c : SameTurns([turns EXCEPT ![t].chain = c])
  BY <1>1 DEF SameTurns, TurnType
<1>3. \A c : SameTurns([turns EXCEPT ![t].stop = c])
  BY <1>1 DEF SameTurns, TurnType
<1>4. \A c : SameTurns([turns EXCEPT ![t].heard = c])
  BY <1>1 DEF SameTurns, TurnType
<1>5. \A c : SameTurns([turns EXCEPT ![t].folded = c])
  BY <1>1 DEF SameTurns, TurnType
<1>6. SameTurns(turns)
  BY DEF SameTurns
<1> QED
  BY <1>2, <1>3, <1>4, <1>5, <1>6

LEMMA AbandonOwning ==
    ASSUME Memory, Abandon
    PROVE  SameTurns(turns') /\ Fewer(records')
<1>1. ASSUME NEW t \in Turns
      PROVE  turns'[t].owner = turns[t].owner /\ turns'[t].said = turns[t].said
  <2>1. turns[t] \in TurnType
    BY DEF Memory
  <2>2. turns'[t] \in {turns[t], [turns[t] EXCEPT !.stop = TRUE]}
    BY DEF Abandon
  <2> QED
    BY <2>1, <2>2 DEF TurnType
<1>2. ASSUME NEW g \in Loads
      PROVE  /\ records'[g].active \in {records[g].active, 0}
             /\ records'[g].unrecorded = records[g].unrecorded
  <2>1. records[g] \in RecordType
    BY DEF Memory
  <2>2. records'[g] \in {records[g], [records[g] EXCEPT !.active = 0]}
    BY DEF Abandon
  <2> QED
    BY <2>1, <2>2 DEF RecordType
<1> QED
  BY <1>1, <1>2 DEF SameTurns, Fewer

LEMMA SendAsOwning ==
    ASSUME Typed, Owning, NEW c, NEW rs \in [Loads -> RecordType], Fewer(rs),
           SendAs(c, rs), UNCHANGED twice
    PROVE  Owning'
<1>0. Memory /\ Counted /\ records \in [Loads -> RecordType] /\ turns \in [Turns -> TurnType]
  BY DEF Typed, Memory
<1>1. Attached \in Loads
  BY <1>0, AttachType DEF SendAs
<1>2. CASE records' = rs /\ UNCHANGED <<turns, used>>
  <2>1. SameTurns(turns')
    BY <1>2 DEF SameTurns
  <2> QED
    BY <1>2, <2>1, KeepsOwning
<1>3. CASE /\ used < MaxTurns /\ used' = used + 1
           /\ records' = [rs EXCEPT ![Attached].active = used + 1]
           /\ turns' = [turns EXCEPT ![used + 1] =
                          [NoTurn EXCEPT !.owner = Attached, !.chain = "waiting"]]
  <2> DEFINE t == used + 1
  <2>1. /\ used \in Nat /\ t \in Turns /\ t <= used' /\ used <= used' /\ used' \in Nat
    BY <1>0, <1>3, TurnLifecycleAssumption DEF Counted, Turns
  <2>2. \A h \in Loads : records[h].active \in Nat /\ records[h].unrecorded \in Nat
    BY <1>0 DEF RecordType
  <2>3. \A h \in Loads : records[h].active <= used /\ records[h].unrecorded <= used
    BY <2>1, <2>2 DEF Owning, OwnsActive, OwesStart
  <2>4. \A h \in Loads : records[h].active # t /\ records[h].unrecorded # t
    BY <2>1, <2>2, <2>3
  <2>5. /\ records'[Attached].active = t
        /\ records'[Attached].unrecorded \in {records[Attached].unrecorded, 0}
        /\ records'[Attached].unrecorded # t
    <3>1. rs[Attached] \in RecordType /\ records'[Attached] = [rs[Attached] EXCEPT !.active = t]
      BY <1>1, <1>3
    <3>2. records'[Attached].active = t /\ records'[Attached].unrecorded = rs[Attached].unrecorded
      BY <3>1 DEF RecordType
    <3> QED
      BY <1>1, <2>1, <2>4, <3>2 DEF Fewer
  <2>6. \A h \in Loads : h # Attached => /\ records'[h].active \in {records[h].active, 0}
                                        /\ records'[h].unrecorded \in {records[h].unrecorded, 0}
    BY <1>1, <1>3 DEF Fewer
  <2>7. turns'[t].owner = Attached /\ turns'[t].said = "none"
    BY <1>0, <1>3, <2>1 DEF NoTurn
  <2>8. \A u \in Turns : u # t => turns'[u].owner = turns[u].owner /\ turns'[u].said = turns[u].said
    BY <1>0, <1>3, <2>1
  <2> HIDE DEF t
  <2> QED
    BY <1>1, <2>1, <2>4, <2>5, <2>6, <2>7, <2>8, StartOwning
<1> QED
  BY <1>2, <1>3 DEF SendAs

LEMMA OpensOwning ==
    ASSUME Typed, Owning, record # 0, NEW b \in Turns, b <= used', used <= used', used' \in Nat,
           used' \in {used, used + 1},
           \A h \in Loads : records[h].active # b /\ (h # record => records[h].unrecorded # b),
           Opens(b), UNCHANGED twice
    PROVE  Owning'
<1> DEFINE cleared == [records EXCEPT ![record].unrecorded = 0]
           r == records[record]
<1>0. /\ Memory /\ Counted /\ records \in [Loads -> RecordType] /\ turns \in [Turns -> TurnType]
      /\ record \in Loads
  BY DEF Typed, Memory, Loads
<1>1. /\ \A h \in Loads : cleared[h].active = records[h].active
      /\ \A h \in Loads : cleared[h].unrecorded \in {records[h].unrecorded, 0}
      /\ cleared[record].unrecorded = 0 /\ cleared \in [Loads -> RecordType]
  <2>1. records[record] \in RecordType /\ 0 \in 0..MaxTurns
    BY <1>0, TurnLifecycleAssumption
  <2>2. cleared \in [Loads -> RecordType]
    BY <1>0, <2>1, RecordsWith
  <2> QED
    BY <1>0, <2>1, <2>2 DEF RecordType
<1>2. Fewer(cleared)
  BY <1>1 DEF Fewer
<1>3. CASE r.active # 0
  <2>1. /\ turns' = IF turns[r.active].heard THEN turns
                    ELSE [turns EXCEPT ![r.active].folded = b]
        /\ records' = cleared
    BY <1>3 DEF Opens
  <2>2. r.active \in Turns
    BY <1>0, <1>3 DEF Turns, RecordType
  <2>3. SameTurns(turns')
    BY <1>0, <2>1, <2>2, TurnsAlike
  <2> QED
    BY <1>2, <2>1, <2>3, KeepsOwning
<1>4. CASE r.active = 0 /\ Busy(r)
  <2>1. records' = cleared /\ turns' = turns
    BY <1>4 DEF Opens
  <2>2. SameTurns(turns')
    BY <2>1 DEF SameTurns
  <2> QED
    BY <1>2, <2>1, <2>2, KeepsOwning
<1>5. CASE r.active = 0 /\ ~Busy(r)
  <2>1. /\ records' = [cleared EXCEPT ![record].active = b]
        /\ turns' = [turns EXCEPT ![b] = [NoTurn EXCEPT !.owner = record, !.heard = TRUE]]
    BY <1>5 DEF Opens
  <2>2. records'[record].active = b /\ records'[record].unrecorded = 0
    <3>1. cleared[record] \in RecordType
      BY <1>0, <1>1
    <3>2. records'[record] = [cleared[record] EXCEPT !.active = b]
      BY <1>0, <1>1, <2>1
    <3> HIDE DEF cleared
    <3> QED
      BY <1>1, <3>1, <3>2 DEF RecordType
  <2>3. \A h \in Loads : h # record => /\ records'[h].active \in {records[h].active, 0}
                                      /\ records'[h].unrecorded \in {records[h].unrecorded, 0}
    BY <1>0, <2>1
  <2>4. turns'[b].owner = record /\ turns'[b].said = "none"
    BY <1>0, <2>1 DEF NoTurn
  <2>5. \A u \in Turns : u # b => turns'[u].owner = turns[u].owner /\ turns'[u].said = turns[u].said
    BY <1>0, <2>1
  <2>6. b # 0
    BY DEF Turns
  <2> QED
    BY <1>0, <2>2, <2>3, <2>4, <2>5, <2>6, StartOwning
<1> QED
  BY <1>3, <1>4, <1>5

LEMMA WithAttachedFewer ==
    ASSUME records \in [Loads -> RecordType]
    PROVE  Fewer(WithAttached)
<1>1. ASSUME NEW g \in Loads
      PROVE  /\ WithAttached[g].active \in {records[g].active, 0}
             /\ WithAttached[g].unrecorded \in {records[g].unrecorded, 0}
  <2>1. WithAttached[g] \in {records[g], [NoRecord EXCEPT !.session = "loading"]}
    BY DEF WithAttached
  <2> QED
    BY <2>1 DEF NoRecord
<1> QED
  BY <1>1 DEF Fewer

LEMMA StepOwning ==
    ASSUME Typed, Owning, [Next]_vars
    PROVE  Owning'
<1> USE TurnLifecycleAssumption
<1>0. /\ Memory /\ Counted /\ records \in [Loads -> RecordType] /\ turns \in [Turns -> TurnType]
      /\ requests \in [Requests -> RequestType] /\ late \in Lates /\ record \in 0..MaxLoads
      /\ used \in Nat /\ work \in 0..MaxTurns /\ message \in 0..MaxTurns
  BY DEF Typed, Memory, Counted, Batched, Working
<1>a. /\ Active \in 0..MaxTurns /\ Target \in {0, Active}
      /\ Active # 0 => /\ Active \in Turns /\ record \in Loads
                       /\ turns[Active].owner = record /\ records[record].active = Active
  <2>1. Active \in 0..MaxTurns /\ Target \in {0, Active}
    BY <1>0, ActiveType
  <2>2. Active # 0 => record \in Loads /\ records[record].active = Active
    BY <1>0 DEF Active, Loads
  <2> QED
    BY <2>1, <2>2 DEF Turns, Owning, OwnsActive
<1>b. \A t \in 0..MaxTurns : t # 0 => t \in Turns
  BY DEF Turns
<1>c. SameTurns(turns) /\ Alike(records) /\ Fewer(records)
  BY DEF SameTurns, Alike, Fewer
<1>1. ASSUME SameTurns(turns'), Fewer(records'), UNCHANGED <<twice, used>>
      PROVE  Owning'
  BY <1>1, KeepsOwning
<1>2. ASSUME NEW t \in Turns, NEW outcome, NEW ts \in [Turns -> TurnType],
             NEW rs \in [Loads -> RecordType], NEW qs, NEW l, SameTurns(ts), Alike(rs),
             Owned(t), End(t, outcome, ts, rs, qs, l), UNCHANGED used
      PROVE  Owning'
  <2>1. turns[t].owner \in Loads /\ records[turns[t].owner].active = t
    BY <1>0, <1>2 DEF Owned, TurnType, Loads
  <2> QED
    BY <1>2, <2>1, EndOwning
<1>d. /\ Active # 0 => Active \in Turns /\ Owned(Active)
      /\ Target # 0 => Target \in Turns /\ Owned(Target)
  BY <1>a DEF Owned, Loads
<1>3. ASSUME Clients
      PROVE  Owning'
  <2>1. CASE Load
    <3>1. records' = WithAttached /\ turns' = turns /\ UNCHANGED <<twice, used>>
      BY <2>1 DEF Load, history
    <3> QED
      BY <1>0, <1>1, <1>c, <3>1, WithAttachedFewer
  <2>2. CASE Delete
    BY <1>0, <1>1, <2>2, AbandonOwning DEF Delete, bounds
  <2>3. ASSUME NEW c \in Commands, Send(c)
        PROVE  Owning'
    <3>1. UNCHANGED twice
      BY <2>3 DEF Send
    <3>2. CASE UNCHANGED <<records, turns, used>>
      BY <1>1, <1>c, <3>1, <3>2
    <3>3. CASE SendAs(c, WithAttached)
      BY <1>0, <3>1, <3>3, SendAsOwning, WithAttachedType, WithAttachedFewer
    <3> QED
      BY <2>3, <3>2, <3>3 DEF Send
  <2>4. ASSUME NEW q \in Requests, Respond(q)
        PROVE  Owning'
    <3>1. turns' = turns /\ UNCHANGED <<twice, used>>
      BY <2>4 DEF Respond, history, bounds
    <3>2. records' = records \/ records' = [records EXCEPT ![record].building = {q}]
      BY <2>4 DEF Respond
    <3>3. record \in Loads
      BY <1>a, <2>4 DEF Respond
    <3>4. Fewer(records')
      BY <1>0, <1>c, <3>2, <3>3, RecordsAlike, AlikeFewer
    <3> QED
      BY <1>1, <1>c, <3>1, <3>4
  <2>5. ASSUME NEW q \in Requests, RetryBuild(q)
        PROVE  Owning'
    <3>1. turns' = turns /\ UNCHANGED <<twice, used>>
      BY <2>5 DEF RetryBuild, history, bounds
    <3>2. record \in Loads /\ records' = [records EXCEPT ![record].building = {q}]
      BY <1>0, <2>5 DEF RetryBuild, Loads
    <3>3. Fewer(records')
      BY <1>0, <3>2, RecordsAlike, AlikeFewer
    <3> QED
      BY <1>1, <1>c, <3>1, <3>3
  <2>6. ASSUME NEW t \in Turns, Interrupt(t)
        PROVE  Owning'
    <3>1. UNCHANGED <<twice, used>> /\ turns' = [turns EXCEPT ![t].stop = TRUE]
      BY <2>6 DEF Interrupt, history, bounds
    <3>2. record \in Loads
      BY <1>a, <2>6 DEF Interrupt, Turns
    <3>3. records' = [records EXCEPT ![record].cancelling = t, ![record].cancel = "asked"]
      BY <2>6 DEF Interrupt
    <3>4. records[record] \in RecordType
      BY <1>0, <3>2
    <3>5. Fewer(records')
      BY <1>0, <3>2, <3>3, <3>4 DEF Fewer, RecordType
    <3>6. SameTurns(turns')
      BY <1>0, <3>1, TurnsAlike
    <3> QED
      BY <1>1, <3>1, <3>5, <3>6
  <2>7. ASSUME NEW t \in Turns, InterruptHeld(t)
        PROVE  Owning'
    BY <1>1, <1>c, <2>7 DEF InterruptHeld, memory, history, bounds
  <2> QED
    BY <1>3, <2>1, <2>2, <2>3, <2>4, <2>5, <2>6, <2>7 DEF Clients
<1>4. ASSUME Agent
      PROVE  Owning'
  <2>1. CASE Dispatch
    <3>1. UNCHANGED used /\ Head(queue) \in Turns
      BY <2>1 DEF Dispatch, bounds, Typed, Working
    <3>2. CASE /\ turns' = IF Active = Head(queue) THEN [turns EXCEPT ![Head(queue)].heard = TRUE]
                           ELSE turns
               /\ UNCHANGED <<records, history>>
      <4>1. SameTurns(turns')
        BY <1>0, <1>c, <3>1, <3>2, TurnsAlike
      <4> QED
        BY <1>1, <1>c, <3>1, <3>2, <4>1 DEF history
    <3>3. CASE /\ work # 0 /\ Target = work
               /\ End(work, Stopped(work, "completed"), turns, records, requests, late)
      BY <1>0, <1>2, <1>c, <1>d, <3>1, <3>3
    <3> QED
      BY <2>1, <3>2, <3>3 DEF Dispatch
  <2>2. CASE ProcessExits
    <3> DEFINE ts == IF work # 0 /\ IsPrompt(work)
                     THEN [turns EXCEPT ![work].chain = "rejected"] ELSE turns
    <3>1. ts \in [Turns -> TurnType] /\ SameTurns(ts)
      <4>1. "rejected" \in Chains
        BY DEF Chains
      <4>2. work # 0 => work \in Turns
        BY <1>0, <1>b
      <4> QED
        BY <1>0, <1>c, <4>1, <4>2, TurnsWith, TurnsAlike
    <3>2. UNCHANGED used
      BY <2>2 DEF ProcessExits, bounds
    <3>3. CASE turns' = ts /\ UNCHANGED <<records, history>>
      BY <1>1, <1>c, <3>1, <3>2, <3>3 DEF history
    <3>4. CASE /\ Active # 0
               /\ End(Active, Stopped(Active, "failed"), ts, records, SettledIn(Parked),
                      LateWith(Parked))
      BY <1>0, <1>2, <1>c, <1>d, <3>1, <3>2, <3>4
    <3> QED
      BY <2>2, <3>3, <3>4 DEF ProcessExits
  <2>3. ASSUME NEW t \in Turns, PromptRejected(t)
        PROVE  Owning'
    <3>1. turns' = [turns EXCEPT ![t].chain = "rejected"] /\ UNCHANGED <<records, twice, used>>
      BY <2>3 DEF PromptRejected, history, bounds
    <3> QED
      BY <1>0, <1>1, <1>c, <3>1, TurnsAlike
  <2>4. ASSUME NEW q \in Requests, ProviderAsks(q)
        PROVE  Owning'
    BY <1>1, <1>c, <2>4 DEF ProviderAsks, history, bounds
  <2>5. ASSUME NEW q \in Requests, BrokerSettles(q)
        PROVE  Owning'
    BY <1>1, <1>c, <2>5 DEF BrokerSettles, history, bounds
  <2>6. ASSUME NEW outcome \in Ends, RunEnds(outcome)
        PROVE  Owning'
    <3> DEFINE ts == IF IsPrompt(work)
                     THEN [turns EXCEPT ![work].chain =
                             IF outcome = "failed" THEN "rejected" ELSE "resolved"]
                     ELSE turns
    <3>1. ts \in [Turns -> TurnType] /\ SameTurns(ts)
      <4>1. (IF outcome = "failed" THEN "rejected" ELSE "resolved") \in Chains
        BY DEF Chains
      <4>2. work \in Turns
        BY <1>0, <1>b, <2>6 DEF RunEnds
      <4> QED
        BY <1>0, <1>c, <4>1, <4>2, TurnsWith, TurnsAlike
    <3>2. UNCHANGED used
      BY <2>6 DEF RunEnds, bounds
    <3>3. CASE turns' = ts /\ UNCHANGED <<records, history>>
      BY <1>1, <1>c, <3>1, <3>2, <3>3 DEF history
    <3>4. CASE Target # 0 /\ End(Target, Stopped(Target, outcome), ts, records, requests, late)
      BY <1>0, <1>2, <1>c, <1>d, <3>1, <3>2, <3>4
    <3> QED
      BY <2>6, <3>3, <3>4 DEF RunEnds
  <2>7. CASE BackgroundStarts
    <3>1. /\ used < MaxTurns /\ used' = used + 1 /\ UNCHANGED twice
      BY <2>7 DEF BackgroundStarts, history
    <3>2. used + 1 \in Turns
      BY <1>0, <3>1 DEF Turns
    <3>3. \A h \in Loads : records[h].active \in Nat /\ records[h].unrecorded \in Nat
      BY <1>0 DEF RecordType
    <3>4. \A h \in Loads : records[h].active <= used /\ records[h].unrecorded <= used
      BY <1>0, <3>3 DEF Owning, OwnsActive, OwesStart
    <3>5. \A h \in Loads : records[h].active # used + 1 /\ records[h].unrecorded # used + 1
      BY <1>0, <3>3, <3>4
    <3>6. CASE UNCHANGED <<records, turns>>
      BY <1>c, <3>1, <3>6, KeepsOwning
    <3>7. CASE record # 0 /\ Opens(used + 1)
      <4>1. used + 1 <= used' /\ used <= used' /\ used' \in Nat /\ used' \in {used, used + 1}
        BY <1>0, <3>1
      <4> QED
        BY <3>1, <3>2, <3>5, <3>7, <4>1, OpensOwning
    <3>8. CASE /\ record # 0 /\ records' = [records EXCEPT ![record].unrecorded = used + 1]
               /\ UNCHANGED turns
      <4>1. record \in Loads /\ records[record] \in RecordType
        BY <1>0, <3>8 DEF Loads
      <4>2. /\ \A h \in Loads : records'[h].active = records[h].active
            /\ \A h \in Loads : records'[h].unrecorded =
                   IF h = record THEN used + 1 ELSE records[h].unrecorded
        BY <1>0, <3>8, <4>1 DEF RecordType
      <4>3. ASSUME NEW h \in Loads PROVE OwnsActive(h)'
        BY <1>0, <3>1, <3>3, <3>8, <4>2 DEF Owning, OwnsActive
      <4>4. ASSUME NEW h \in Loads PROVE OwesStart(h)'
        BY <1>0, <3>1, <3>3, <3>5, <4>2 DEF Owning, OwesStart
      <4> QED
        BY <3>1, <4>3, <4>4 DEF Owning
    <3> QED
      BY <2>7, <3>6, <3>7, <3>8 DEF BackgroundStarts
  <2>8. CASE BackgroundSpeaks
    <3>1. /\ record \in Loads /\ record # 0 /\ message # 0 /\ records[record].unrecorded = message
          /\ Opens(message) /\ UNCHANGED <<used, twice>>
      BY <1>0, <2>8 DEF BackgroundSpeaks, Unrecorded, Loads, bounds, history
    <3>2. /\ message \in Turns /\ message <= used
          /\ \A h \in Loads : /\ records[h].active # message
                               /\ (h # record => records[h].unrecorded # message)
      BY <1>0, <1>b, <3>1 DEF Owning, OwesStart
    <3> QED
      BY <1>0, <3>1, <3>2, OpensOwning
  <2> QED
    BY <1>4, <2>1, <2>2, <2>3, <2>4, <2>5, <2>6, <2>7, <2>8 DEF Agent
<1>5. ASSUME Promises
      PROVE  Owning'
  <2>1. ASSUME NEW g \in Loads, SessionReady(g) \/ SessionFails(g)
        PROVE  Owning'
    <3>1. turns' = turns /\ UNCHANGED <<twice, used>>
      BY <2>1 DEF SessionReady, SessionFails, history, bounds
    <3>2. \E v : records' = [records EXCEPT ![g].session = v]
      BY <2>1 DEF SessionReady, SessionFails
    <3> QED
      BY <1>0, <1>1, <1>c, <3>1, <3>2, RecordsAlike, AlikeFewer
  <2>2. ASSUME NEW g \in Loads, BuildContinues(g)
        PROVE  Owning'
    <3> DEFINE rs == [records EXCEPT ![g].building = {}]
    <3>1. UNCHANGED twice
      BY <2>2 DEF BuildContinues
    <3>2. rs \in [Loads -> RecordType] /\ Fewer(rs)
      BY <1>0, {} \in SUBSET Requests, RecordsWith, RecordsAlike, AlikeFewer
    <3>3. PICK q \in records[g].building :
             SendAs(q, rs) \/ (records' = rs /\ UNCHANGED <<turns, used>>)
      BY <2>2 DEF BuildContinues
    <3>4. CASE SendAs(q, rs)
      BY <3>1, <3>2, <3>4, SendAsOwning
    <3>5. CASE records' = rs /\ UNCHANGED <<turns, used>>
      BY <1>1, <1>c, <3>1, <3>2, <3>5
    <3> QED
      BY <3>3, <3>4, <3>5
  <2>3. ASSUME NEW g \in Loads, CancelReaches(g)
        PROVE  Owning'
    <3>1. turns' = turns /\ UNCHANGED <<twice, used>> /\ records' = [records EXCEPT ![g].cancel = "sent"]
      BY <2>3 DEF CancelReaches, history, bounds
    <3> QED
      BY <1>0, <1>1, <1>c, <3>1, RecordsAlike, AlikeFewer
  <2>4. ASSUME NEW g \in Loads, CancelErrs(g)
        PROVE  Owning'
    <3> DEFINE rs == [records EXCEPT ![g].cancel = "failed"]
    <3>1. rs \in [Loads -> RecordType] /\ Alike(rs) /\ Fewer(rs)
      BY <1>0, RecordsWith, RecordsAlike, AlikeFewer
    <3>2. UNCHANGED used
      BY <2>4 DEF CancelErrs, bounds
    <3>3. CASE records' = rs /\ UNCHANGED <<turns, history>>
      BY <1>1, <1>c, <3>1, <3>2, <3>3 DEF history
    <3>4. CASE Target # 0 /\ End(Target, Stopped(Target, "failed"), turns, rs, requests, late)
      BY <1>0, <1>2, <1>c, <1>d, <3>1, <3>2, <3>4
    <3> QED
      BY <2>4, <3>3, <3>4 DEF CancelErrs
  <2>5. ASSUME NEW g \in Loads, CancelReturns(g)
        PROVE  Owning'
    <3> DEFINE t == records[g].cancelling
               rs == [records EXCEPT ![g].cancelling = 0, ![g].cancel = "none"]
    <3>1. rs \in [Loads -> RecordType] /\ Alike(rs)
      <4> DEFINE half == [records EXCEPT ![g].cancelling = 0]
      <4>1. half \in [Loads -> RecordType]
        BY <1>0, RecordsWith, 0 \in 0..MaxTurns
      <4>2. rs = [half EXCEPT ![g].cancel = "none"]
        BY <1>0
      <4>3. rs \in [Loads -> RecordType]
        BY <4>1, <4>2, RecordsWith
      <4>4. records[g] \in RecordType
        BY <1>0
      <4>5. Alike(rs)
        BY <1>0, <4>4 DEF Alike, RecordType
      <4> QED
        BY <4>3, <4>5
    <3>2. UNCHANGED used /\ t \in Turns
      BY <1>0, <1>b, <2>5 DEF CancelReturns, bounds, RecordType
    <3>3. CASE records' = rs /\ UNCHANGED <<turns, history>>
      BY <1>1, <1>c, <3>1, <3>2, <3>3, AlikeFewer DEF history
    <3>4. CASE records' = rs /\ turns' = [turns EXCEPT ![t].stop = FALSE] /\ UNCHANGED history
      BY <1>0, <1>1, <3>1, <3>2, <3>4, TurnsAlike, AlikeFewer DEF history
    <3>5. CASE records[g].active = t /\ End(t, "interrupted", turns, rs, requests, late)
      <4>1. Owned(t)
        BY <3>2, <3>5 DEF Owned, Owning, OwnsActive, Loads, Turns
      <4> QED
        BY <1>0, <1>2, <1>c, <3>1, <3>2, <3>5, <4>1
    <3> QED
      BY <2>5, <3>3, <3>4, <3>5 DEF CancelReturns
  <2>6. ASSUME NEW t \in Turns, StartPrompt(t)
        PROVE  Owning'
    <3> DEFINE ts == [turns EXCEPT ![t].chain = "skipped"]
    <3>1. ts \in [Turns -> TurnType] /\ SameTurns(ts)
      BY <1>0, TurnsWith, TurnsAlike DEF Chains
    <3>2. UNCHANGED used
      BY <2>6 DEF StartPrompt, bounds
    <3>3. CASE /\ turns' = ts \/ turns' = [turns EXCEPT ![t].chain = "prompted"]
               /\ UNCHANGED <<records, history>>
      BY <1>0, <1>1, <1>c, <3>1, <3>2, <3>3, TurnsAlike DEF history
    <3>4. CASE Owned(t) /\ End(t, "failed", ts, records, requests, late)
      BY <1>0, <1>2, <1>c, <3>1, <3>2, <3>4
    <3> QED
      BY <2>6, <3>3, <3>4 DEF StartPrompt, Skips
  <2>7. ASSUME NEW t \in Turns, PromptSettles(t)
        PROVE  Owning'
    <3> DEFINE fine == turns[t].chain = "resolved"
               ts == [turns EXCEPT ![t].chain = IF fine THEN "settled" ELSE "failed"]
    <3>1. ts \in [Turns -> TurnType] /\ SameTurns(ts)
      <4>1. (IF fine THEN "settled" ELSE "failed") \in Chains
        BY DEF Chains
      <4> QED
        BY <1>0, <4>1, TurnsWith, TurnsAlike
    <3>2. UNCHANGED used
      BY <2>7 DEF PromptSettles, bounds
    <3>3. CASE turns' = ts /\ UNCHANGED <<records, history>>
      BY <1>1, <1>c, <3>1, <3>2, <3>3 DEF history
    <3>4. CASE /\ Owned(t)
               /\ End(t, Stopped(t, IF fine THEN "completed" ELSE "failed"), ts, records, requests, late)
      BY <1>0, <1>2, <1>c, <3>1, <3>2, <3>4
    <3> QED
      BY <2>7, <3>3, <3>4 DEF PromptSettles
  <2> QED
    BY <1>5, <2>1, <2>2, <2>3, <2>4, <2>5, <2>6, <2>7 DEF Promises
<1>6. CASE Faults
  <2>1. CASE DroppedWithParent
    BY <1>1, <1>c, <2>1 DEF DroppedWithParent, history, bounds
  <2>2. CASE RemoveFails
    BY <1>0, <1>1, <2>2, AbandonOwning DEF RemoveFails, bounds
  <2>3. CASE Crash
    <3>1. UNCHANGED twice /\ \A g \in Loads : records'[g].active = 0 /\ records'[g].unrecorded = 0
      BY <2>3 DEF Crash, NoRecord, history
    <3> QED
      BY <3>1 DEF Owning, OwnsActive, OwesStart
  <2> QED
    BY <1>6, <2>1, <2>2, <2>3 DEF Faults
<1>7. CASE Commit
  BY <1>1, <1>7, <1>c DEF Commit, memory, history, bounds
<1>8. CASE Boot
  BY <1>1, <1>8, <1>c DEF Boot, memory
<1>9. CASE UNCHANGED vars
  BY <1>1, <1>9, <1>c DEF vars, memory, history, bounds
<1> QED
  BY <1>3, <1>4, <1>5, <1>6, <1>7, <1>8, <1>9 DEF Next

\* Of all that race to end a turn, one does.
THEOREM OneEndsIt == Spec => []EndedOnce
<1>1. Init => Typed /\ Owning
  <2> SUFFICES ASSUME Init PROVE Owning
    BY InitTyped
  <2>1. \A g \in Loads : records[g].active = 0 /\ records[g].unrecorded = 0
    BY DEF Init, NoRecord
  <2> QED
    BY <2>1 DEF Init, Owning, OwnsActive, OwesStart
<1>2. Typed /\ Owning /\ [Next]_vars => (Typed /\ Owning)'
  BY StepTyped, StepOwning
<1>3. Owning => EndedOnce
  BY DEF Owning, EndedOnce
<1> QED
  BY <1>1, <1>2, <1>3, PTL DEF Spec

-----------------------------------------------------------------------------
(* What a retry finds.                                                     *)

\* Rows that went stay gone, and nobody loads their thread; a command that
\* started a turn left it in the rows.
RowsHold ==
    /\ ~held => record = 0 /\ \A t \in Turns : row[t] = "absent"
    /\ held => \A t \in Turns : command[t] # {} => row[t] # "absent"

\* A build the thread has pending has no turn; one that has a turn, or is
\* pending, was asked for by an answer that no client can give again.
BuildOnce ==
    \A q \in Requests :
        /\ record # 0 /\ q \in records[record].building => Logged(q) = {}
        /\ Logged(q) # {} \/ (\E g \in Loads : q \in records[g].building)
              => asker[q] # 0 /\ (requests[q].answered \/ requests[q].entry # "open")

Retried == RowsHold /\ RetryFindsItsTurn /\ BuildOnce

\* What the steps that answer no send do.
KeptRows == UNCHANGED <<held, command>> /\ \A t \in Turns : row[t] = "absent" <=> row'[t] = "absent"
KeptBuilds(rs) == \A g \in Loads : rs[g].building \subseteq records[g].building
KeptAsks(qs) ==
    \A q \in Requests : /\ qs[q].answered = requests[q].answered
                        /\ qs[q].entry = "open" => requests[q].entry = "open" \/ asker[q] = 0
KeptAskers == \A q \in Requests : asker[q] # 0 => asker'[q] # 0

LEMMA KeepsRetried ==
    ASSUME Typed, Retried, KeptRows, KeptBuilds(records'), KeptAsks(requests'), KeptAskers,
           UNCHANGED reply,
           record' \in {0, record} \/ (held /\ records'[record'].building = {})
    PROVE  Retried'
<1>1. RowsHold'
  BY DEF Retried, RowsHold, KeptRows
<1>2. RetryFindsItsTurn'
  BY DEF Retried, RetryFindsItsTurn, KeptRows
<1>3. \A c : Logged(c)' = Logged(c)
  BY DEF Logged, KeptRows
<1>4. BuildOnce'
  <2> SUFFICES ASSUME NEW q \in Requests
               PROVE  /\ record' # 0 /\ q \in records'[record'].building => Logged(q)' = {}
                      /\ Logged(q)' # {} \/ (\E g \in Loads : q \in records'[g].building)
                            => asker'[q] # 0 /\ (requests'[q].answered \/ requests'[q].entry # "open")
    BY DEF BuildOnce
  <2>1. record' # 0 /\ q \in records'[record'].building => Logged(q)' = {}
    <3>1. record # 0 => record \in Loads
      BY DEF Typed, Memory, Loads
    <3> QED
      BY <1>3, <3>1 DEF Retried, BuildOnce, KeptBuilds
  <2>2. Logged(q)' # {} \/ (\E g \in Loads : q \in records'[g].building)
            => asker'[q] # 0 /\ (requests'[q].answered \/ requests'[q].entry # "open")
    BY <1>3 DEF Retried, BuildOnce, KeptBuilds, KeptAsks, KeptAskers
  <2> QED
    BY <2>1, <2>2
<1> QED
  BY <1>1, <1>2, <1>4 DEF Retried

\* The rows of a turn come and go with the thread's only.
LEMMA RowsAfterAbsent ==
    ASSUME NEW d \in Dues
    PROVE  \A t \in Turns : row[t] = "absent" <=> RowsAfter(d)[t] = "absent"
  BY DEF RowsAfter, Dues, Outcomes, Ends

LEMMA WriteKeepsRows ==
    ASSUME NEW by, NEW d \in Dues, NEW l, Write(by, d, l)
    PROVE  KeptRows
  BY RowsAfterAbsent DEF Write, Written, KeptRows

LEMMA SameKept ==
    /\ UNCHANGED rows => KeptRows
    /\ KeptBuilds(records) /\ KeptAsks(requests)
    /\ UNCHANGED asker => KeptAskers
  BY DEF KeptRows, KeptBuilds, KeptAsks, KeptAskers, rows

LEMMA SettledKept ==
    ASSUME NEW S, requests \in [Requests -> RequestType]
    PROVE  KeptAsks(SettledIn(S))
<1> SUFFICES ASSUME NEW q \in Requests
             PROVE  /\ SettledIn(S)[q].answered = requests[q].answered
                    /\ SettledIn(S)[q].entry = "open" => requests[q].entry = "open"
  BY DEF KeptAsks
<1>1. requests[q] \in RequestType
  OBVIOUS
<1> QED
  BY <1>1 DEF SettledIn, RequestType

LEMMA SettleOnlyKept ==
    ASSUME Batched, Memory, NEW S, SettleOnly(S)
    PROVE  KeptRows /\ KeptAsks(requests') /\ KeptAskers
<1>1. KeptAsks(requests')
  BY SettledKept DEF SettleOnly, Memory
<1>2. CASE UNCHANGED <<rows, batch, asker>>
  BY <1>1, <1>2, SameKept
<1>3. CASE Write(asker, due, LateWith(S))
  BY <1>1, <1>3, WriteKeepsRows DEF Write, KeptAskers, Batched
<1> QED
  BY <1>1, <1>2, <1>3 DEF SettleOnly

LEMMA EndKept ==
    ASSUME Typed, NEW t \in Turns, NEW outcome \in Ends, NEW ts, NEW rs \in [Loads -> RecordType],
           NEW qs \in [Requests -> RequestType], NEW l, KeptBuilds(rs), KeptAsks(qs),
           End(t, outcome, ts, rs, qs, l)
    PROVE  /\ KeptRows /\ KeptBuilds(records') /\ KeptAsks(requests') /\ KeptAskers
           /\ UNCHANGED reply
<1>1. [due EXCEPT ![t] = IF @ = "none" THEN outcome ELSE @] \in Dues
  BY DEF Typed, Batched, Dues, Outcomes
<1>2. KeptRows /\ UNCHANGED asker
  BY <1>1, WriteKeepsRows DEF End, Write
<1>3. KeptBuilds(records')
  <2>1. ASSUME NEW g \in Loads PROVE records'[g].building = rs[g].building
    <3>1. rs[g] \in RecordType
      OBVIOUS
    <3>2. records'[g] \in {rs[g], [rs[g] EXCEPT !.active = 0]}
      BY DEF End
    <3> QED
      BY <3>1, <3>2 DEF RecordType
  <2> QED
    BY <2>1 DEF KeptBuilds
<1>4. KeptAsks(requests')
  <2>1. ASSUME NEW q \in Requests
        PROVE  requests'[q].answered = qs[q].answered /\ (requests'[q].entry = "open" => qs[q].entry = "open")
    <3>1. qs[q] \in RequestType
      OBVIOUS
    <3>2. requests'[q] \in {qs[q], [qs[q] EXCEPT !.entry = "settled"]}
      BY DEF End
    <3> QED
      BY <3>1, <3>2 DEF RequestType
  <2> QED
    BY <2>1 DEF KeptAsks
<1> QED
  BY <1>2, <1>3, <1>4 DEF End, KeptAskers

LEMMA BuildsKept ==
    ASSUME records \in [Loads -> RecordType], NEW g \in Loads
    PROVE  /\ \A v : KeptBuilds([records EXCEPT ![g].session = v])
           /\ \A v : KeptBuilds([records EXCEPT ![g].cancel = v])
           /\ \A v : KeptBuilds([records EXCEPT ![g].cancelling = v])
           /\ \A v : KeptBuilds([records EXCEPT ![g].unrecorded = v])
           /\ \A v : KeptBuilds([records EXCEPT ![g].active = v])
           /\ KeptBuilds([records EXCEPT ![g].building = {}])
<1>1. records[g] \in RecordType
  OBVIOUS
<1>2. \A v : KeptBuilds([records EXCEPT ![g].session = v])
  BY <1>1 DEF KeptBuilds, RecordType
<1>3. \A v : KeptBuilds([records EXCEPT ![g].cancel = v])
  BY <1>1 DEF KeptBuilds, RecordType
<1>4. \A v : KeptBuilds([records EXCEPT ![g].cancelling = v])
  BY <1>1 DEF KeptBuilds, RecordType
<1>5. \A v : KeptBuilds([records EXCEPT ![g].unrecorded = v])
  BY <1>1 DEF KeptBuilds, RecordType
<1>6. \A v : KeptBuilds([records EXCEPT ![g].active = v])
  BY <1>1 DEF KeptBuilds, RecordType
<1>7. KeptBuilds([records EXCEPT ![g].building = {}])
  BY <1>1 DEF KeptBuilds, RecordType
<1> QED
  BY <1>2, <1>3, <1>4, <1>5, <1>6, <1>7

LEMMA AbandonBuilds ==
    ASSUME Memory, Abandon
    PROVE  KeptBuilds(records')
<1>1. ASSUME NEW g \in Loads PROVE records'[g].building = records[g].building
  <2>1. records[g] \in RecordType
    BY DEF Memory
  <2>2. records'[g] \in {records[g], [records[g] EXCEPT !.active = 0]}
    BY DEF Abandon
  <2> QED
    BY <2>1, <2>2 DEF RecordType
<1> QED
  BY <1>1 DEF KeptBuilds

LEMMA RowsGoRetried ==
    ASSUME Typed, Retried, RowsGo, record' = 0, KeptBuilds(records'), UNCHANGED <<asker, requests, reply>>
    PROVE  Retried'
<1>1. \A t \in Turns : row'[t] = "absent"
  BY DEF RowsGo
<1>2. held' = FALSE
  BY Zenon DEF RowsGo
<1>3. RowsHold'
  BY <1>1, <1>2, Zenon DEF RowsHold
<1>4. RetryFindsItsTurn'
  BY <1>1 DEF RetryFindsItsTurn
<1>5. \A c : Logged(c)' = {}
  BY <1>1 DEF Logged
<1>6. BuildOnce'
  BY <1>5 DEF Retried, BuildOnce, KeptBuilds
<1> QED
  BY <1>3, <1>4, <1>6 DEF Retried

\* A command without a turn starts one, or is refused.
LEMMA SendAsRetried ==
    ASSUME Typed, Retried, NEW c \in CommandIds, NEW rs \in [Loads -> RecordType], KeptBuilds(rs),
           rs[Attached].building = {} \/ (Attached = record /\ c \notin Requests),
           Logged(c) = {}, SendAs(c, rs), UNCHANGED <<asker, requests>>,
           c \in Requests => asker[c] # 0 /\ (requests[c].answered \/ requests[c].entry # "open")
    PROVE  Retried'
<1>0. /\ Memory /\ Counted /\ Batched /\ Heard /\ CanAttach /\ record' = Attached
      /\ record' \in Loads
  BY AttachType DEF Typed, SendAs, Attach
<1>1. held
  BY <1>0 DEF Retried, RowsHold, CanAttach
<1>2. CASE /\ reply' = IF c \in Requests THEN [reply EXCEPT ![c] = Refused] ELSE reply
           /\ records' = rs
           /\ UNCHANGED <<rows, due, late, turns, used>>
  <2>1. UNCHANGED <<held, row, command>>
    BY <1>2 DEF rows
  <2>2. \A k : Logged(k)' = Logged(k)
    BY <2>1 DEF Logged
  <2>3. RowsHold'
    BY <1>1, <2>1 DEF Retried, RowsHold
  <2>4. RetryFindsItsTurn'
    <3> SUFFICES ASSUME NEW k \in CommandIds, NEW t \in Turns, row[t] # "absent", k \in command[t]
                 PROVE  reply'[k] = t
      BY <2>1 DEF RetryFindsItsTurn
    <3>1. k # c
      BY DEF Logged
    <3> QED
      BY <1>0, <1>2, <3>1 DEF Retried, RetryFindsItsTurn, Heard
  <2>5. BuildOnce'
    BY <1>0, <1>2, <2>2 DEF Retried, BuildOnce, KeptBuilds
  <2> QED
    BY <2>3, <2>4, <2>5 DEF Retried
<1>3. CASE /\ used < MaxTurns
           /\ reply' = [reply EXCEPT ![c] = used + 1]
           /\ records' = [rs EXCEPT ![Attached].active = used + 1]
           /\ row' = [row EXCEPT ![used + 1] = "open"]
           /\ command' = [command EXCEPT ![used + 1] = {c}]
           /\ UNCHANGED <<held, ask, batch>>
  <2> DEFINE t == used + 1
  <2>1. t \in Turns
    BY <1>0, <1>3, TurnLifecycleAssumption DEF Counted, Turns
  <2>2. /\ row'[t] = "open" /\ command'[t] = {c} /\ reply'[c] = t
        /\ \A u \in Turns : u # t => row'[u] = row[u] /\ command'[u] = command[u]
        /\ \A k \in CommandIds : k # c => reply'[k] = reply[k]
    BY <1>0, <1>3, <2>1 DEF Batched, Heard
  <2> HIDE DEF t
  <2>3. RowsHold'
    BY <1>1, <1>3, <2>1, <2>2 DEF Retried, RowsHold
  <2>4. RetryFindsItsTurn'
    <3> SUFFICES ASSUME NEW k \in CommandIds, NEW u \in Turns, row'[u] # "absent", k \in command'[u]
                 PROVE  reply'[k] = u
      BY DEF RetryFindsItsTurn
    <3>1. CASE u = t
      BY <2>2, <3>1
    <3>2. CASE u # t
      <4>1. row[u] # "absent" /\ k \in command[u]
        BY <2>2, <3>2
      <4>2. k # c
        BY <4>1 DEF Logged
      <4> QED
        BY <2>2, <4>1, <4>2 DEF Retried, RetryFindsItsTurn
    <3> QED
      BY <3>1, <3>2
  <2>5. \A k : k # c => Logged(k)' \subseteq Logged(k)
    BY <2>2 DEF Logged
  <2>6. KeptBuilds(records') /\ records'[Attached].building = rs[Attached].building
    <3>1. ASSUME NEW g \in Loads PROVE records'[g].building = rs[g].building
      <4>1. rs[g] \in RecordType
        OBVIOUS
      <4>2. records'[g] \in {rs[g], [rs[g] EXCEPT !.active = used + 1]}
        BY <1>3
      <4> QED
        BY <4>1, <4>2 DEF RecordType
    <3> QED
      BY <1>0, <3>1 DEF KeptBuilds
  <2>7. BuildOnce'
    <3> SUFFICES ASSUME NEW q \in Requests
                 PROVE  /\ q \in records'[Attached].building => Logged(q)' = {}
                        /\ Logged(q)' # {} \/ (\E g \in Loads : q \in records'[g].building)
                              => asker[q] # 0 /\ (requests[q].answered \/ requests[q].entry # "open")
      BY <1>0 DEF BuildOnce
    <3>1. q \in records'[Attached].building => Logged(q)' = {}
      <4> SUFFICES ASSUME q \in records'[Attached].building PROVE Logged(q)' = {}
        OBVIOUS
      <4>1. Attached = record /\ c \notin Requests /\ record # 0
        BY <1>0, <2>6 DEF Loads
      <4>2. Logged(q) = {}
        BY <1>0, <2>6, <4>1 DEF Retried, BuildOnce, KeptBuilds
      <4> QED
        BY <2>5, <4>1, <4>2
    <3>2. CASE q = c
      BY <3>1, <3>2
    <3>3. CASE q # c
      BY <2>5, <2>6, <3>1, <3>3 DEF Retried, BuildOnce, KeptBuilds
    <3> QED
      BY <3>2, <3>3
  <2> QED
    BY <2>3, <2>4, <2>7 DEF Retried
<1> QED
  BY <1>2, <1>3 DEF SendAs

LEMMA OpensKept ==
    ASSUME Batched, Memory, record # 0, held, RowsHold, NEW b \in Turns, Opens(b)
    PROVE  /\ UNCHANGED <<held, command>> /\ KeptBuilds(records') /\ KeptAskers
           /\ \A t \in Turns : row[t] = "absent" => row'[t] = "absent" \/ (t = b /\ command[t] = {})
           /\ \A t \in Turns : row'[t] = "absent" => row[t] = "absent"
<1> DEFINE cleared == [records EXCEPT ![record].unrecorded = 0]
           r == records[record]
<1>0. record \in Loads /\ records \in [Loads -> RecordType]
  BY DEF Memory, Loads
<1>1. KeptBuilds(cleared) /\ cleared \in [Loads -> RecordType]
  <2>1. 0 \in 0..MaxTurns
    BY TurnLifecycleAssumption
  <2>2. cleared \in [Loads -> RecordType]
    BY <1>0, <2>1, RecordsWith
  <2> QED
    BY <1>0, <2>2, BuildsKept
<1>2. UNCHANGED <<held, command, asker>>
  BY DEF Opens
<1>3. records' = cleared \/ records' = [cleared EXCEPT ![record].active = b]
  BY DEF Opens
<1> HIDE DEF cleared
<1>4. KeptBuilds(records')
  <2>1. ASSUME NEW g \in Loads PROVE records'[g].building = cleared[g].building
    <3>1. cleared[g] \in RecordType
      BY <1>1
    <3>2. records'[g] \in {cleared[g], [cleared[g] EXCEPT !.active = b]}
      BY <1>1, <1>3
    <3> QED
      BY <3>1, <3>2 DEF RecordType
  <2> QED
    BY <1>1, <2>1 DEF KeptBuilds
<1>5. row' = row \/ row' = [RowsAfter(due) EXCEPT ![b] = "open"]
  BY DEF Opens
<1>6. ASSUME NEW t \in Turns
      PROVE  /\ row[t] = "absent" => row'[t] = "absent" \/ (t = b /\ command[t] = {})
             /\ row'[t] = "absent" => row[t] = "absent"
  <2>1. row[t] = "absent" <=> RowsAfter(due)[t] = "absent"
    BY RowsAfterAbsent DEF Batched
  <2>2. row[t] = "absent" => command[t] = {}
    BY DEF RowsHold
  <2>3. CASE row' = row
    BY <2>3
  <2>4. CASE row' = [RowsAfter(due) EXCEPT ![b] = "open"]
    <3>1. row'[t] = IF t = b THEN "open" ELSE RowsAfter(due)[t]
      BY <2>4 DEF RowsAfter
    <3> QED
      BY <2>1, <2>2, <3>1
  <2> QED
    BY <1>5, <2>3, <2>4
<1> QED
  BY <1>2, <1>4, <1>6 DEF KeptAskers

\* A turn the agent begins has no command.
LEMMA OpensRetried ==
    ASSUME Typed, Retried, record # 0, NEW b \in Turns, Opens(b), UNCHANGED <<record, requests, reply>>
    PROVE  Retried'
<1>0. Batched /\ Memory /\ RowsHold /\ held
  BY DEF Typed, Retried, RowsHold
<1>1. /\ UNCHANGED <<held, command>> /\ KeptBuilds(records') /\ KeptAskers
      /\ \A t \in Turns : row[t] = "absent" => row'[t] = "absent" \/ (t = b /\ command[t] = {})
      /\ \A t \in Turns : row'[t] = "absent" => row[t] = "absent"
  BY <1>0, OpensKept
<1>2. RowsHold'
  BY <1>0, <1>1 DEF RowsHold
<1>3. RetryFindsItsTurn'
  BY <1>1 DEF Retried, RetryFindsItsTurn
<1>4. \A c : Logged(c)' = Logged(c)
  BY <1>1 DEF Logged
<1>5. record \in Loads
  BY <1>0 DEF Memory, Loads
<1>6. BuildOnce'
  BY <1>1, <1>4, <1>5 DEF Retried, BuildOnce, KeptBuilds, KeptAskers
<1> QED
  BY <1>2, <1>3, <1>6 DEF Retried

LEMMA StepRetried ==
    ASSUME Typed, Retried, [Next]_vars
    PROVE  Retried'
<1> USE TurnLifecycleAssumption
<1>0. /\ Batched /\ Memory /\ Counted /\ records \in [Loads -> RecordType]
      /\ requests \in [Requests -> RequestType] /\ late \in Lates /\ due \in Dues
      /\ record \in 0..MaxLoads /\ work \in 0..MaxTurns /\ message \in 0..MaxTurns
  BY DEF Typed, Memory, Batched, Working
<1>a. Active \in 0..MaxTurns /\ Target \in {0, Active} /\ (Active # 0 => record \in Loads)
  <2>1. Active # 0 => record \in Loads
    BY <1>0 DEF Active, Loads
  <2> QED
    BY <1>0, <2>1, ActiveType
<1>b. \A t \in 0..MaxTurns : t # 0 => t \in Turns
  BY DEF Turns
<1>c. {"interrupted", "completed", "failed"} \subseteq Ends
  BY DEF Ends
<1>1. ASSUME KeptRows, KeptBuilds(records'), KeptAsks(requests'), KeptAskers,
             UNCHANGED <<record, reply>>
      PROVE  Retried'
  BY <1>1, KeepsRetried
<1>2. ASSUME NEW t \in Turns, NEW outcome \in Ends, NEW ts, NEW rs \in [Loads -> RecordType],
             NEW qs \in [Requests -> RequestType], NEW l, KeptBuilds(rs), KeptAsks(qs),
             End(t, outcome, ts, rs, qs, l), UNCHANGED record
      PROVE  Retried'
  BY <1>1, <1>2, EndKept
<1>3. ASSUME UNCHANGED <<rows, asker, record, reply>>, KeptBuilds(records'), KeptAsks(requests')
      PROVE  Retried'
  BY <1>1, <1>3, SameKept
<1>4. ASSUME Clients
      PROVE  Retried'
  <2>1. CASE Load
    <3>1. record = 0 /\ held /\ record' = loads + 1 /\ records' = WithAttached
      BY <2>1 DEF Load, CanAttach, Attach, Attached
    <3>2. record' \in Loads
      BY <1>0, <2>1, AttachType DEF Load, Attach
    <3>3. records'[record'].building = {}
      BY <1>0, <3>1, <3>2 DEF WithAttached, NoRecord
    <3>4. KeptBuilds(records')
      BY <1>0, <3>1 DEF WithAttached, KeptBuilds, NoRecord
    <3>5. KeptRows /\ KeptAsks(requests') /\ KeptAskers /\ UNCHANGED reply
      BY <2>1, SameKept DEF Load, history
    <3> QED
      BY <3>1, <3>3, <3>4, <3>5, KeepsRetried
  <2>2. CASE Delete
    <3>1. record' = 0 /\ KeptBuilds(records')
      BY <1>0, <2>2, AbandonBuilds DEF Delete, Abandon
    <3> QED
      BY <2>2, <3>1, RowsGoRetried DEF Delete
  <2>3. ASSUME NEW c \in Commands, Send(c)
        PROVE  Retried'
    <3>1. /\ c \in CommandIds /\ c \notin Requests /\ UNCHANGED <<asker, requests>>
      BY <2>3 DEF Send, CommandIds
    <3>2. CASE /\ Known(c) # {}
               /\ reply' = [reply EXCEPT ![c] = CHOOSE k \in Known(c) : TRUE]
               /\ UNCHANGED <<rows, record, records>>
      <4>1. \A k \in Known(c) : reply[c] = k
        BY <3>1 DEF Known, Remembered, Logged, Retried, RowsHold, RetryFindsItsTurn
      <4>2. (CHOOSE k \in Known(c) : TRUE) = reply[c]
        BY <3>2, <4>1
      <4>3. UNCHANGED reply
        BY <3>1, <3>2, <4>2 DEF Typed, Heard
      <4> QED
        BY <1>3, <3>1, <3>2, <4>3, SameKept
    <3>3. CASE Known(c) = {} /\ SendAs(c, WithAttached)
      <4>1. Logged(c) = {}
        BY <3>3 DEF Known
      <4>2. WithAttached \in [Loads -> RecordType] /\ KeptBuilds(WithAttached)
        <5>1. KeptBuilds(WithAttached)
          BY DEF WithAttached, KeptBuilds, NoRecord
        <5> QED
          BY <1>0, <5>1, WithAttachedType
      <4>3. WithAttached[Attached].building = {} \/ Attached = record
        <5>1. Attached \in Loads
          BY <1>0, <3>3, AttachType DEF SendAs
        <5> QED
          BY <1>0, <5>1 DEF WithAttached, Attached, NoRecord
      <4> QED
        BY <3>1, <3>3, <4>1, <4>2, <4>3, SendAsRetried
    <3> QED
      BY <2>3, <3>2, <3>3 DEF Send
  <2>4. ASSUME NEW q \in Requests, Respond(q)
        PROVE  Retried'
    <3>1. /\ asker[q] # 0 /\ record \in Loads /\ requests[q] \in RequestType
          /\ requests[q].entry = "open" /\ ~requests[q].answered /\ UNCHANGED <<record, reply>>
      BY <1>0, <1>a, <2>4 DEF Respond, history
    <3>2. CASE /\ requests' = [requests EXCEPT ![q].entry = "settled"]
               /\ UNCHANGED <<rows, batch, asker, records>>
      <4>1. KeptAsks(requests')
        BY <1>0, <3>1, <3>2 DEF KeptAsks, RequestType
      <4> QED
        BY <1>3, <3>1, <3>2, <4>1, SameKept
    <3>3. CASE /\ requests' = [SettledIn({q}) EXCEPT ![q].answered = TRUE]
               /\ Write(asker, due, LateWith({q}))
               /\ UNCHANGED records \/ records' = [records EXCEPT ![record].building = {q}]
      <4>1. KeptRows /\ UNCHANGED asker
        BY <1>0, <3>3, WriteKeepsRows DEF Write
      <4>2. Logged(q) = {} /\ \A g \in Loads : q \notin records[g].building
        BY <3>1 DEF Retried, BuildOnce
      <4>3. \A c : Logged(c)' = Logged(c)
        BY <4>1 DEF Logged, KeptRows
      <4>4. RowsHold'
        BY <3>1, <4>1 DEF Retried, RowsHold, KeptRows
      <4>5. RetryFindsItsTurn'
        BY <3>1, <4>1 DEF Retried, RetryFindsItsTurn, KeptRows
      <4>6. /\ requests'[q].answered
            /\ \A p \in Requests : p # q => requests'[p] = requests[p]
        <5>1. SettledIn({q}) \in [Requests -> RequestType]
          BY <1>0, SettledInType
        <5>2. \A p \in Requests : p # q => SettledIn({q})[p] = requests[p]
          BY DEF SettledIn
        <5>3. SettledIn({q})[q] \in RequestType
          BY <5>1
        <5> QED
          BY <3>3, <5>1, <5>2, <5>3 DEF RequestType
      <4>7. /\ \A g \in Loads : g # record => records'[g] = records[g]
            /\ records'[record].building \in {records[record].building, {q}}
        <5>1. records[record] \in RecordType
          BY <1>0, <3>1
        <5> QED
          BY <1>0, <3>1, <3>3, <5>1 DEF RecordType
      <4>8. BuildOnce'
        <5> SUFFICES ASSUME NEW p \in Requests
                     PROVE  /\ p \in records'[record].building => Logged(p) = {}
                            /\ Logged(p) # {} \/ (\E g \in Loads : p \in records'[g].building)
                                  => asker[p] # 0 /\ (requests'[p].answered \/ requests'[p].entry # "open")
          BY <3>1, <4>1, <4>3 DEF BuildOnce
        <5>1. CASE p = q
          BY <3>1, <4>2, <4>6, <5>1
        <5>2. CASE p # q
          <6>1. \A g \in Loads : p \in records'[g].building => p \in records[g].building
            BY <4>7, <5>2
          <6> QED
            BY <3>1, <4>6, <5>2, <6>1 DEF Retried, BuildOnce, Loads
        <5> QED
          BY <5>1, <5>2
      <4> QED
        BY <4>4, <4>5, <4>8 DEF Retried
    <3> QED
      BY <2>4, <3>2, <3>3 DEF Respond
  <2>5. ASSUME NEW q \in Requests, RetryBuild(q)
        PROVE  Retried'
    <3>1. /\ reply[q] = Refused /\ asker[q] # 0 /\ requests[q].answered /\ record # 0
          /\ records' = [records EXCEPT ![record].building = {q}]
          /\ UNCHANGED <<rows, record, asker, requests, reply>>
      BY <2>5 DEF RetryBuild, history
    <3>2. record \in Loads /\ records[record] \in RecordType
      BY <1>0, <3>1 DEF Loads
    <3>3. Logged(q) = {}
      <4>1. \A t \in Turns : t # Refused
        BY DEF Turns, Refused
      <4>2. q \in CommandIds
        BY DEF CommandIds
      <4> QED
        BY <3>1, <4>1, <4>2 DEF Logged, Retried, RetryFindsItsTurn
    <3>4. \A c : Logged(c)' = Logged(c)
      BY <3>1 DEF Logged, rows
    <3>5. RowsHold' /\ RetryFindsItsTurn'
      BY <3>1 DEF Retried, RowsHold, RetryFindsItsTurn, rows
    <3>6. /\ \A g \in Loads : g # record => records'[g] = records[g]
          /\ records'[record].building = {q}
      BY <1>0, <3>1, <3>2 DEF RecordType
    <3>7. BuildOnce'
      BY <3>1, <3>2, <3>3, <3>4, <3>6 DEF Retried, BuildOnce
    <3> QED
      BY <3>5, <3>7 DEF Retried
  <2>6. ASSUME NEW t \in Turns, Interrupt(t)
        PROVE  Retried'
    <3>1. records' = [records EXCEPT ![record].cancelling = t, ![record].cancel = "asked"]
      BY <2>6 DEF Interrupt
    <3>2. record \in Loads /\ records[record] \in RecordType
      BY <1>0, <1>a, <2>6 DEF Interrupt, Turns
    <3>3. KeptBuilds(records')
      BY <1>0, <3>1, <3>2 DEF KeptBuilds, RecordType
    <3> QED
      BY <1>3, <2>6, <3>3, SameKept DEF Interrupt, history
  <2>7. ASSUME NEW t \in Turns, InterruptHeld(t)
        PROVE  Retried'
    <3>1. UNCHANGED <<held, command, record, records, requests, asker, reply>>
      BY <2>7 DEF InterruptHeld, memory, history
    <3>2. \A u \in Turns : row[u] = "absent" <=> row'[u] = "absent"
      BY <1>0, <2>7 DEF InterruptHeld, Batched
    <3> QED
      BY <1>1, <3>1, <3>2, SameKept DEF KeptRows
  <2> QED
    BY <1>4, <2>1, <2>2, <2>3, <2>4, <2>5, <2>6, <2>7 DEF Clients
<1>5. ASSUME Agent
      PROVE  Retried'
  <2>1. CASE Dispatch
    <3>1. UNCHANGED record
      BY <2>1 DEF Dispatch
    <3>2. CASE UNCHANGED <<rows, records, asker, requests, history>>
      BY <1>3, <3>1, <3>2, SameKept DEF history
    <3>3. CASE work # 0 /\ End(work, Stopped(work, "completed"), turns, records, requests, late)
      BY <1>0, <1>2, <1>b, <1>c, <3>1, <3>3, StoppedType, SameKept
    <3> QED
      BY <2>1, <3>2, <3>3 DEF Dispatch
  <2>2. CASE ProcessExits
    <3>1. UNCHANGED record
      BY <2>2 DEF ProcessExits
    <3>2. CASE SettleOnly(Parked) /\ UNCHANGED <<records, history>>
      BY <1>0, <1>1, <3>1, <3>2, SettleOnlyKept, SameKept DEF history
    <3>3. ASSUME Active # 0, NEW ts,
                 End(Active, Stopped(Active, "failed"), ts, records, SettledIn(Parked),
                     LateWith(Parked))
          PROVE  Retried'
      BY <1>0, <1>2, <1>a, <1>b, <1>c, <3>1, <3>3, StoppedType, SameKept, SettledKept, SettledInType
    <3> QED
      BY <2>2, <3>2, <3>3 DEF ProcessExits
  <2>3. ASSUME NEW t \in Turns, PromptRejected(t)
        PROVE  Retried'
    BY <1>3, <2>3, SameKept DEF PromptRejected, history
  <2>4. ASSUME NEW q \in Requests, ProviderAsks(q)
        PROVE  Retried'
    <3>1. asker[q] = 0 /\ requests[q] \in RequestType /\ UNCHANGED <<record, records, reply>>
      BY <1>0, <2>4 DEF ProviderAsks, history
    <3>2. \E e \in {"unheard", "open"} : requests' = [requests EXCEPT ![q].parked = TRUE, ![q].entry = e]
      BY <2>4 DEF ProviderAsks
    <3>3. KeptAsks(requests')
      BY <1>0, <3>1, <3>2 DEF KeptAsks, RequestType
    <3>4. KeptRows /\ KeptAskers
      <4>1. CASE UNCHANGED <<rows, batch, asker>>
        BY <4>1, SameKept
      <4>2. CASE Write([asker EXCEPT ![q] = Target], due, [late EXCEPT ![q] = @ \union {"request"}])
        BY <1>0, <3>1, <4>2, WriteKeepsRows DEF Write, KeptAskers, Batched
      <4> QED
        BY <2>4, <4>1, <4>2 DEF ProviderAsks
    <3> QED
      BY <1>1, <3>1, <3>3, <3>4, SameKept
  <2>5. ASSUME NEW q \in Requests, BrokerSettles(q)
        PROVE  Retried'
    BY <1>0, <1>1, <2>5, SettleOnlyKept, SameKept DEF BrokerSettles, history
  <2>6. ASSUME NEW outcome \in Ends, RunEnds(outcome)
        PROVE  Retried'
    <3>1. UNCHANGED record
      BY <2>6 DEF RunEnds
    <3>2. CASE UNCHANGED <<rows, records, asker, requests, history>>
      BY <1>3, <3>1, <3>2, SameKept DEF history
    <3>3. ASSUME Target # 0, NEW ts,
                 End(Target, Stopped(Target, outcome), ts, records, requests, late)
          PROVE  Retried'
      BY <1>0, <1>2, <1>a, <1>b, <3>1, <3>3, StoppedType, SameKept
    <3> QED
      BY <2>6, <3>2, <3>3 DEF RunEnds
  <2>7. CASE BackgroundStarts
    <3>1. UNCHANGED <<record, requests, reply>>
      BY <2>7 DEF BackgroundStarts, history
    <3>2. CASE UNCHANGED <<rows, records, asker>>
      BY <1>3, <3>1, <3>2, SameKept
    <3>3. CASE record # 0 /\ Opens(used + 1)
      <4>1. used + 1 \in Turns
        BY <1>0, <2>7 DEF BackgroundStarts, Counted, Turns
      <4> QED
        BY <3>1, <3>3, <4>1, OpensRetried
    <3>4. CASE /\ record # 0 /\ records' = [records EXCEPT ![record].unrecorded = used + 1]
               /\ UNCHANGED <<rows, asker>>
      <4>1. record \in Loads
        BY <1>0, <3>4 DEF Loads
      <4> QED
        BY <1>0, <1>3, <3>1, <3>4, <4>1, BuildsKept, SameKept
    <3> QED
      BY <2>7, <3>2, <3>3, <3>4 DEF BackgroundStarts
  <2>8. CASE BackgroundSpeaks
    <3>1. UNCHANGED <<record, requests, reply>> /\ record # 0 /\ message \in Turns
      BY <1>0, <1>b, <2>8 DEF BackgroundSpeaks, Unrecorded, history
    <3> QED
      BY <2>8, <3>1, OpensRetried DEF BackgroundSpeaks
  <2> QED
    BY <1>5, <2>1, <2>2, <2>3, <2>4, <2>5, <2>6, <2>7, <2>8 DEF Agent
<1>6. ASSUME Promises
      PROVE  Retried'
  <2>1. ASSUME NEW g \in Loads, SessionReady(g)
        PROVE  Retried'
    BY <1>0, <1>3, <2>1, BuildsKept, SameKept DEF SessionReady, history
  <2>2. ASSUME NEW g \in Loads, SessionFails(g)
        PROVE  Retried'
    <3>1. /\ UNCHANGED <<asker, requests, reply>> /\ record' \in {0, record}
          /\ records' = [records EXCEPT ![g].session = "failed"]
      BY <2>2 DEF SessionFails, history
    <3>2. KeptBuilds(records')
      BY <1>0, <3>1, BuildsKept
    <3>3. CASE UNCHANGED rows
      BY <3>1, <3>2, <3>3, SameKept, KeepsRetried
    <3>4. CASE record' = 0 /\ RowsGo
      BY <3>1, <3>2, <3>4, RowsGoRetried
    <3> QED
      BY <2>2, <3>3, <3>4 DEF SessionFails
  <2>3. ASSUME NEW g \in Loads, BuildContinues(g)
        PROVE  Retried'
    <3> DEFINE rs == [records EXCEPT ![g].building = {}]
    <3>1. UNCHANGED <<asker, requests>>
      BY <2>3 DEF BuildContinues
    <3>2. rs \in [Loads -> RecordType] /\ KeptBuilds(rs)
      BY <1>0, {} \in SUBSET Requests, RecordsWith, BuildsKept
    <3>3. PICK q \in records[g].building :
             \/ record = g /\ SendAs(q, rs)
             \/ records' = rs /\ UNCHANGED <<rows, record, reply>>
      BY <2>3 DEF BuildContinues
    <3>4. CASE record = g /\ SendAs(q, rs)
      <4>1. q \in Requests /\ q \in CommandIds /\ g # 0
        BY <1>0 DEF RecordType, CommandIds, Loads
      <4>2. Attached = g /\ rs[Attached].building = {}
        <5>1. records[g] \in RecordType
          BY <1>0
        <5> QED
          BY <1>0, <3>4, <4>1, <5>1 DEF Attached, RecordType
      <4>3. /\ Logged(q) = {} /\ asker[q] # 0
            /\ requests[q].answered \/ requests[q].entry # "open"
        BY <3>4, <4>1 DEF Retried, BuildOnce
      <4>4. SendAs(q, rs) /\ rs \in [Loads -> RecordType] /\ KeptBuilds(rs)
        BY <3>2, <3>4
      <4> HIDE DEF rs
      <4>5. Retried'
        BY <3>1, <4>1, <4>2, <4>3, <4>4, SendAsRetried, Zenon
      <4> QED
        BY <4>5
    <3>5. CASE records' = rs /\ UNCHANGED <<rows, record, reply>>
      BY <1>3, <3>1, <3>2, <3>5, SameKept
    <3> QED
      BY <3>3, <3>4, <3>5
  <2>4. ASSUME NEW g \in Loads, CancelReaches(g)
        PROVE  Retried'
    BY <1>0, <1>1, <2>4, SettleOnlyKept, BuildsKept DEF CancelReaches, history
  <2>5. ASSUME NEW g \in Loads, CancelErrs(g)
        PROVE  Retried'
    <3> DEFINE rs == [records EXCEPT ![g].cancel = "failed"]
    <3>1. UNCHANGED record /\ rs \in [Loads -> RecordType] /\ KeptBuilds(rs)
      BY <1>0, <2>5, RecordsWith, BuildsKept DEF CancelErrs
    <3>2. CASE records' = rs /\ UNCHANGED <<rows, asker, requests, history>>
      BY <1>3, <3>1, <3>2, SameKept DEF history
    <3>3. CASE Target # 0 /\ End(Target, Stopped(Target, "failed"), turns, rs, requests, late)
      BY <1>0, <1>2, <1>a, <1>b, <1>c, <3>1, <3>3, StoppedType, SameKept
    <3> QED
      BY <2>5, <3>2, <3>3 DEF CancelErrs
  <2>6. ASSUME NEW g \in Loads, CancelReturns(g)
        PROVE  Retried'
    <3> DEFINE t == records[g].cancelling
               rs == [records EXCEPT ![g].cancelling = 0, ![g].cancel = "none"]
    <3>1. UNCHANGED record /\ t \in Turns
      BY <1>0, <1>b, <2>6 DEF CancelReturns, RecordType
    <3>2. rs \in [Loads -> RecordType] /\ KeptBuilds(rs)
      <4> DEFINE half == [records EXCEPT ![g].cancelling = 0]
      <4>1. half \in [Loads -> RecordType]
        BY <1>0, RecordsWith, 0 \in 0..MaxTurns
      <4>2. rs = [half EXCEPT ![g].cancel = "none"]
        BY <1>0
      <4>3. rs \in [Loads -> RecordType]
        BY <4>1, <4>2, RecordsWith
      <4>4. records[g] \in RecordType
        BY <1>0
      <4>5. KeptBuilds(rs)
        BY <1>0, <4>4 DEF KeptBuilds, RecordType
      <4> QED
        BY <4>3, <4>5
    <3>3. CASE records' = rs /\ UNCHANGED <<rows, asker, requests, history>>
      BY <1>3, <3>1, <3>2, <3>3, SameKept DEF history
    <3>4. CASE End(t, "interrupted", turns, rs, requests, late)
      BY <1>0, <1>2, <1>c, <3>1, <3>2, <3>4, SameKept
    <3> QED
      BY <2>6, <3>3, <3>4 DEF CancelReturns
  <2>7. ASSUME NEW t \in Turns, StartPrompt(t)
        PROVE  Retried'
    <3>1. UNCHANGED record
      BY <2>7 DEF StartPrompt
    <3>2. CASE UNCHANGED <<rows, records, asker, requests, history>>
      BY <1>3, <3>1, <3>2, SameKept DEF history
    <3>3. ASSUME NEW ts, End(t, "failed", ts, records, requests, late)
          PROVE  Retried'
      BY <1>0, <1>2, <1>c, <3>1, <3>3, SameKept
    <3> QED
      BY <2>7, <3>2, <3>3 DEF StartPrompt, Skips
  <2>8. ASSUME NEW t \in Turns, PromptSettles(t)
        PROVE  Retried'
    <3>1. UNCHANGED record
      BY <2>8 DEF PromptSettles
    <3>2. CASE UNCHANGED <<rows, records, asker, requests, history>>
      BY <1>3, <3>1, <3>2, SameKept DEF history
    <3>3. ASSUME NEW ts, NEW o \in {"completed", "failed"},
                 End(t, Stopped(t, o), ts, records, requests, late)
          PROVE  Retried'
      BY <1>0, <1>2, <1>c, <3>1, <3>3, StoppedType, SameKept
    <3> QED
      BY <2>8, <3>2, <3>3 DEF PromptSettles
  <2> QED
    BY <1>6, <2>1, <2>2, <2>3, <2>4, <2>5, <2>6, <2>7, <2>8 DEF Promises
<1>7. CASE Faults
  <2>1. CASE DroppedWithParent
    BY <2>1, SameKept, KeepsRetried DEF DroppedWithParent, history
  <2>2. CASE RemoveFails
    <3>1. record' = 0 /\ KeptBuilds(records')
      BY <1>0, <2>2, AbandonBuilds DEF RemoveFails, Abandon
    <3> QED
      BY <2>2, <3>1, SameKept, KeepsRetried DEF RemoveFails
  <2>3. CASE Crash
    <3>1. /\ UNCHANGED <<rows, asker, reply>> /\ record' = 0
          /\ records' = [g \in Loads |-> NoRecord] /\ requests' = [q \in Requests |-> NoRequest]
      BY <2>3 DEF Crash, history
    <3>2. RowsHold' /\ RetryFindsItsTurn'
      BY <3>1 DEF Retried, RowsHold, RetryFindsItsTurn, rows
    <3>3. \A c : Logged(c)' = Logged(c)
      BY <3>1 DEF Logged, rows
    <3>4. BuildOnce'
      BY <3>1, <3>3 DEF Retried, BuildOnce, NoRecord, NoRequest
    <3> QED
      BY <3>2, <3>4 DEF Retried
  <2> QED
    BY <1>7, <2>1, <2>2, <2>3 DEF Faults
<1>8. CASE Commit
  <2>1. UNCHANGED <<held, command, record, records, requests, asker, reply>> /\ row' = RowsAfter(due)
    BY <1>8 DEF Commit, Written, memory, history
  <2>2. KeptRows
    BY <1>0, <2>1, RowsAfterAbsent DEF KeptRows
  <2> QED
    BY <1>1, <2>1, <2>2, SameKept
<1>9. CASE Boot
  <2>1. UNCHANGED <<held, command, record, records, requests, asker, reply>>
    BY <1>9 DEF Boot, memory
  <2>2. PICK lost \in SUBSET OpenTurns :
           row' = RowsAfter([t \in Turns |-> IF t \in OpenTurns \ lost THEN "interrupted" ELSE "none"])
    BY <1>9 DEF Boot
  <2>3. [t \in Turns |-> IF t \in OpenTurns \ lost THEN "interrupted" ELSE "none"] \in Dues
    BY DEF Dues, Outcomes, Ends
  <2>4. KeptRows
    BY <2>1, <2>2, <2>3, RowsAfterAbsent DEF KeptRows
  <2> QED
    BY <1>1, <2>1, <2>4, SameKept
<1>10. CASE UNCHANGED vars
  BY <1>3, <1>10, SameKept DEF vars, memory, history
<1> QED
  BY <1>4, <1>5, <1>6, <1>7, <1>8, <1>9, <1>10 DEF Next

\* A send whose turn the rows hold was answered with that turn, every time,
\* over any number of restarts, failed writes, deletions and records dropped.
THEOREM RetryIsAnswered == Spec => []RetryFindsItsTurn
<1>1. Init => Typed /\ Retried
  <2> SUFFICES ASSUME Init PROVE Retried
    BY InitTyped
  <2>1. \A c : Logged(c) = {}
    BY DEF Init, Logged
  <2>2. \A g \in Loads : records[g].building = {}
    BY DEF Init, NoRecord
  <2>3. RowsHold
    <3>1. held = TRUE /\ \A t \in Turns : command[t] = {}
      BY DEF Init
    <3> QED
      BY <3>1, Zenon DEF RowsHold
  <2>4. RetryFindsItsTurn
    BY DEF Init, RetryFindsItsTurn
  <2>5. BuildOnce
    <3>1. record # 0 => record \in Loads
      BY InitType DEF TypeOK, Loads
    <3> QED
      BY <2>1, <2>2, <3>1 DEF BuildOnce
  <2> QED
    BY <2>3, <2>4, <2>5 DEF Retried
<1>2. Typed /\ Retried /\ [Next]_vars => (Typed /\ Retried)'
  BY StepTyped, StepRetried
<1>3. Retried => RetryFindsItsTurn
  BY DEF Retried
<1> QED
  BY <1>1, <1>2, <1>3, PTL DEF Spec
=============================================================================
