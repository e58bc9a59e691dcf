------------------------------- MODULE Replay -------------------------------
(***************************************************************************)
(* The replay rule: what the server answers a client that names the cursor *)
(* it holds (protocol/src/replay.ts, db/replay.ts), and what that client   *)
(* accepts as an answer.  A cursor is an epoch and a sequence; epoch 0 is  *)
(* the `null` cursor, and the oldest sequence 0 is "nothing retained".     *)
(***************************************************************************)
EXTENDS Naturals

Cursor(e, n) == [epoch |-> e, seq |-> n]
NoCursor == Cursor(0, 0)

Reasons ==
    {"initial", "stream_reset", "cursor_ahead", "gap_expired", "snapshot_smaller"}

\* Retention prunes from the front; the floor hides what was written in an
\* older event format.
oldestReplayable(bounds) ==
    IF bounds.oldest = 0 \/ bounds.floor = 0 THEN bounds.oldest
    ELSE IF bounds.floor >= bounds.head THEN 0
    ELSE IF bounds.oldest > bounds.floor THEN bounds.oldest ELSE bounds.floor + 1

NotRetained(cursor, head, oldest) ==
    IF oldest = 0 THEN cursor.seq < head.seq ELSE cursor.seq + 1 < oldest

\* "replay", or the reason a snapshot is sent instead.
decideReplay(cursor, head, oldest) ==
    IF cursor = NoCursor THEN "initial"
    ELSE IF cursor.epoch # head.epoch THEN "stream_reset"
    ELSE IF cursor.seq > head.seq THEN "cursor_ahead"
    ELSE IF NotRetained(cursor, head, oldest) THEN "gap_expired"
    ELSE "replay"

ReplayFrom(cursor, head) ==
    [mode |-> "replay", reason |-> "none", from |-> cursor, to |-> head]
SnapshotFor(reason, head) ==
    [mode |-> "snapshot", reason |-> reason, from |-> NoCursor, to |-> head]

\* Every answer `read` may give, `count` being the rows it finds after the
\* cursor: whether a snapshot is smaller than a non-empty replay is left open.
read(cursor, head, oldest, count) ==
    LET decision == decideReplay(cursor, head, oldest)
        missing == head.seq - cursor.seq
    IN  IF decision # "replay" THEN {SnapshotFor(decision, head)}
        ELSE IF count # missing THEN {SnapshotFor("gap_expired", head)}
        ELSE {ReplayFrom(cursor, head)} \cup
             (IF missing > 0 THEN {SnapshotFor("snapshot_smaller", head)} ELSE {})

\* parseReplayResult: a replay starts at the cursor that was sent, and the
\* reason of a snapshot does not contradict it.
ReasonFits(reason, cursor, to) ==
    CASE reason = "initial" -> cursor = NoCursor
      [] reason = "stream_reset" -> cursor # NoCursor /\ cursor.epoch # to.epoch
      [] reason = "cursor_ahead" ->
            cursor # NoCursor /\ cursor.epoch = to.epoch /\ cursor.seq > to.seq
      [] OTHER ->
            cursor # NoCursor /\ cursor.epoch = to.epoch /\ cursor.seq < to.seq

AcceptsAnswer(cursor, answer) ==
    IF answer.mode = "replay"
    THEN cursor # NoCursor /\ answer.from = cursor
    ELSE ReasonFits(answer.reason, cursor, answer.to)
=============================================================================
