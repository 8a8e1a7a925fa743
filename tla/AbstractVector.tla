--------------------------- MODULE AbstractVector ---------------------------
(***************************************************************************)
(* What an llv vector promises its client: a sequence of items. A call     *)
(* does what its name says or, when memory is refused, nothing, and only   *)
(* releasing the vector or failing to shrink it loses the items. Once an   *)
(* insert has moved a tail over itself, nothing is promised any more.      *)
(***************************************************************************)
EXTENDS Naturals, Sequences, SequencesExt

CONSTANTS Values, MaxBatch
VARIABLES items, trusted

Batches == UNION {[1 .. n -> Values] : n \in 1 .. MaxBatch}

Init == items = <<>> /\ trusted = TRUE

Insert == \E xs \in Batches, k \in 0 .. Len(items) :
  items' = SubSeq(items, 1, k) \o xs \o SubSeq(items, k + 1, Len(items))
DropLast == items # <<>> /\ items' = SubSeq(items, 1, Len(items) - 1)
Turn == items' = Reverse(items)
Lose == items' = <<>>
Keep == (Insert \/ DropLast \/ Turn \/ Lose) /\ UNCHANGED trusted
Break == trusted' = FALSE

Next == trusted => Keep \/ Break

Spec == Init /\ [][Next]_<<items, trusted>>
=============================================================================
