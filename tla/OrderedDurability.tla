-------------------------- MODULE OrderedDurability --------------------------
(***************************************************************************)
(* What the server's write path promises its callers, without saying how   *)
(* (event-batcher.ts:75-85, docs/sync-foundations.md I11): an event that   *)
(* was accepted becomes durable in the order it was accepted, or nothing   *)
(* accepted after it does either.  Only a refused event leaves the line,   *)
(* and only a killed process loses a suffix of it.                         *)
(***************************************************************************)
EXTENDS Queues

CONSTANT Events

VARIABLES
    accepted,   \* accepted and not refused, in order
    durable     \* what is on disk

vars == <<accepted, durable>>

Init == accepted = <<>> /\ durable = <<>>

Accept(e) ==
    /\ accepted' = Append(accepted, e)
    /\ UNCHANGED durable

\* Some of the waiting events are refused, the others keep their order, and
\* the line moves on to disk.
Settle ==
    /\ accepted' = Only(accepted, ToSet(accepted'))
    /\ IsPrefix(durable', accepted')
    /\ IsPrefix(durable, durable')

\* Accepted and written in one call, behind everything accepted before it.
AcceptDurably(e) ==
    /\ durable = accepted
    /\ accepted' = Append(accepted, e)
    /\ durable' = accepted'

Crash ==
    /\ accepted' = durable
    /\ UNCHANGED durable

Next ==
    \/ \E e \in Events \ ToSet(accepted) : Accept(e) \/ AcceptDurably(e)
    \/ Settle
    \/ Crash

Spec == Init /\ [][Next]_vars
=============================================================================
