-------------------------------- MODULE Fifo --------------------------------
(* What a ring buffer (engine/shared/ringbuffer.h) promises: a queue whose     *)
(* oldest items may be given up for a new one only under FLAG_RECYCLE, each of *)
(* them announced to the pop callback, oldest first.                           *)
EXTENDS Sequences, Naturals

CONSTANT Items

VARIABLES recycle,   \* FLAG_RECYCLE
          queue,     \* the items, the oldest first
          popped     \* the items the last call took out, in this order

Init == recycle \in BOOLEAN /\ queue = <<>> /\ popped = <<>>

TakeOut(k) == popped' = SubSeq(queue, 1, k)
Rest(k) == SubSeq(queue, k + 1, Len(queue))

Put == \E x \in Items, k \in 0..Len(queue) :
          /\ k > 0 => recycle
          /\ TakeOut(k)
          /\ queue' = Append(Rest(k), x)
          /\ UNCHANGED recycle

Refuse == popped' = <<>> /\ UNCHANGED <<recycle, queue>>

Get == /\ queue # <<>>
       /\ TakeOut(1)
       /\ queue' = Rest(1)
       /\ UNCHANGED recycle

Forget == queue' = <<>> /\ popped' = <<>> /\ UNCHANGED recycle

Next == Put \/ Refuse \/ Get \/ Forget

Spec == Init /\ [][Next]_<<recycle, queue, popped>>
=============================================================================
