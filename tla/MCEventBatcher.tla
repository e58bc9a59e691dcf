--------------------------- MODULE MCEventBatcher ---------------------------
(* Two deltas of one message and one of another, the turn's end, an event   *)
(* of a second scope and a delta the projection refuses.                    *)
EXTENDS EventBatcher

CONSTANTS d1, d2, x1, w1, end1

Said(kind, scope, turn, part) ==
    [kind |-> kind, scope |-> scope, turn |-> turn, part |-> part]

MCEvents == {d1, d2, x1, w1, end1}
MCEv ==
    [e \in MCEvents |->
       CASE e \in {d1, d2} -> Said("delta", "thread", "t1", "m1")
         [] e = x1 -> Said("delta", "thread", "t2", "m2")
         [] e = w1 -> Said("whole", "environment", "none", "w1")
         [] e = end1 -> Said("terminal", "thread", "t1", "end")]
MCRefusable == {x1}
=============================================================================
