-------------------------------- MODULE Queues --------------------------------
(***************************************************************************)
(* Filtering a queue, which is what `Array.prototype.filter` leaves of it, *)
(* and summing it.  The filter is a recursive function along a sequence,   *)
(* rather than SelectSeq over a predicate, so that proofs can look inside. *)
(***************************************************************************)
EXTENDS SequencesExt

\* The elements of a sequence that are in T, in their order.
Only(s, T) ==
    LET kept[i \in 0..Len(s)] ==
            IF i = 0 THEN <<>>
            ELSE IF s[i] \in T THEN Append(kept[i - 1], s[i]) ELSE kept[i - 1]
    IN  kept[Len(s)]

Bytes(frames) == FoldLeft(LAMBDA sum, frame : sum + frame.bytes, 0, frames)
=============================================================================
