---------------------------- MODULE MCRingBuffer ----------------------------
EXTENDS RingBuffer, TLC

CONSTANTS single, double, half, whole, oversize
(* Blocks of 1, 2, 4 and 8 units, the whole memory, and one too big for it. *)
MCBytes == single :> 0 @@ double :> 3 @@ half :> 9 @@ whole :> 28 @@ oversize :> 29
=============================================================================
