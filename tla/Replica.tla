------------------------------- MODULE Replica -------------------------------
(***************************************************************************)
(* What synchronisation promises, without connections, queues or frames    *)
(* (docs/sync-foundations.md I5, I9): a client's copy of a scope is at all *)
(* times a state the scope has been in, it only moves forward, and it gets *)
(* to the scope's present state unless nobody is keeping it up to date.    *)
(***************************************************************************)
EXTENDS Naturals

CONSTANT NoCopy

VARIABLES
    present,  \* how many records the scope has
    copy,     \* how many of them the copy holds, or NoCopy
    excused   \* nobody is keeping the copy up to date

vars == <<present, copy, excused>>

Init ==
    /\ present = 0
    /\ copy = NoCopy
    /\ excused \in BOOLEAN

Publish ==
    /\ present' \in Nat
    /\ present' > present
    /\ UNCHANGED copy

\* Records are folded in, or a snapshot replaces the copy.
Refresh ==
    /\ copy' \in 0..present
    /\ copy # NoCopy => copy' >= copy
    /\ UNCHANGED present

Forget ==
    /\ copy' = NoCopy
    /\ UNCHANGED present

\* Somebody starts or stops keeping the copy, whatever else happens.
Next ==
    /\ Publish \/ Refresh \/ Forget
    /\ excused' \in BOOLEAN

Converges == <>[](excused \/ copy = present)

Spec == Init /\ [][Next]_vars /\ Converges
=============================================================================
