----------------------------- MODULE RingBuffer -----------------------------
(* CRingBufferBase (engine/shared/ringbuffer.cpp): a queue of items of         *)
(* different sizes kept in one piece of memory, cut into blocks that form a    *)
(* doubly linked list.  Sizes of blocks are counted in units of sizeof(CItem), *)
(* the size of a block's header, which m_Size is rounded down to.  The resend  *)
(* buffers of the connections refuse what does not fit; the console, the chat, *)
(* the log and the graphs set FLAG_RECYCLE and give up their oldest items.     *)
EXTENDS Integers, Sequences, FiniteSets

CONSTANTS Units,   \* m_Size / sizeof(CItem)
          Unit,    \* sizeof(CItem), in bytes
          Items,   \* what is stored
          Bytes,   \* the Size asked for an item
          Null     \* nullptr

ASSUME UnitsAssumption == Units \in Nat \ {0} /\ Unit \in Nat \ {0}
ASSUME BytesAssumption == Bytes \in [Items -> Nat]

VARIABLES recycle,   \* m_Flags & FLAG_RECYCLE
          ring,      \* the blocks on the list by their address (Null where none
                     \* starts), m_pProduce, m_pConsume, m_pLast
          popped     \* the items given to m_PopCallback by the last call

ringVars == <<recycle, ring, popped>>

(* m_pFirst never changes: it is the block at the start of the memory. *)
First == 0

Address == 0..Units - 1
Block == [prev : Address \cup {Null}, next : Address \cup {Null},
          size : 1..Units, item : Items \cup {Null}]

ASSUME NullAssumption == Null \notin 0..Units /\ Null \notin Items /\ Null \notin Block

(* A block holds an item or is free (m_Free). *)
Free(r, b) == r.block[b].item = Null

NextBlock(r, b) == IF r.block[b].next # Null THEN r.block[b].next ELSE First
PrevBlock(r, b) == IF r.block[b].prev # Null THEN r.block[b].prev ELSE r.last

(* Clear: the memory is one free block. *)
Cleared == [block |-> [b \in Address |-> IF b # First THEN Null
                          ELSE [prev |-> Null, next |-> Null, size |-> Units, item |-> Null]],
            produce |-> First, consume |-> First, last |-> First]

(***************************************************************************)
(* MergeBack: a free block is joined with the free block before it; the    *)
(* pointers to it move back to that one, which the function returns.       *)
(***************************************************************************)
Joins(r, b) == /\ Free(r, b)
               /\ r.block[b].prev # Null
               /\ Free(r, r.block[b].prev)

(* Mutant: the consume pointer stays on the block that is gone. *)
Redirect_Produce(r, b, p) == [r EXCEPT !.produce = IF @ = b THEN p ELSE @]
(* The pointers of the buffer to the joined block b move to p. *)
Redirect(r, b, p) == [r EXCEPT !.produce = IF @ = b THEN p ELSE @,
                               !.consume = IF @ = b THEN p ELSE @]

Merge(r, b) ==
    IF ~Joins(r, b) THEN r
    ELSE LET p == r.block[b].prev
             n == r.block[b].next
         IN  Redirect([r EXCEPT !.block[p].size = @ + r.block[b].size,
                                !.block[p].next = n,
                                !.block[n].prev = p,
                                !.block[b] = Null,
                                !.last = IF n = Null THEN p ELSE @], b, p)

(***************************************************************************)
(* PopFirst, when there is an item: the block becomes free and m_pConsume  *)
(* walks on to the next item, or to m_pProduce, joining free blocks.       *)
(***************************************************************************)
Onward(r) == LET m == Merge(r, r.consume) IN [m EXCEPT !.consume = NextBlock(m, @)]

(* The loop's condition. *)
Passes(r) == Free(r, r.consume) /\ r.consume # r.produce

Walked(r) ==
    LET walk[n \in 0..Units] ==
            IF n = 0 THEN Onward([r EXCEPT !.block[r.consume].item = Null])
            ELSE LET w == walk[n - 1] IN IF Passes(w) THEN Onward(w) ELSE w
    IN  walk[Units]

Popped(r) == LET w == Walked(r) IN Merge(w, w.consume)

Empty(r) == Free(r, r.consume)

(***************************************************************************)
(* Allocate                                                                *)
(***************************************************************************)
(* The block's size in units: the header and the item, rounded up. *)
Wanted(x) == (Bytes[x] + Unit + Unit - 1) \div Unit

Big(r, b, x) == Free(r, b) /\ r.block[b].size >= Wanted(x)

(* The block for x: m_pProduce, or the first one when m_pProduce is free but   *)
(* too small.                                                                  *)
Place(r, x) == IF Big(r, r.produce, x) THEN r.produce
               ELSE IF Free(r, r.produce) /\ Big(r, First, x) THEN First ELSE Null

(* Block b cut after w units: the rest is a free block. *)
Cut(r, b, w) ==
    LET new == b + w
        n == r.block[b].next
    IN  [r EXCEPT !.block[b].next = new,
                  !.block[b].size = w,
                  !.block[new] = [prev |-> b, next |-> n,
                                  size |-> r.block[b].size - w, item |-> Null],
                  !.block[n].prev = new,
                  !.last = IF n = Null THEN new ELSE @]

(* Mutant: a block is cut even when nothing is left of it. *)
Split_Always(r, b, w) == Cut(r, b, w)
(* A block that is more than one unit too big is cut. *)
Split(r, b, w) == IF r.block[b].size > w + 1 THEN Cut(r, b, w) ELSE r

Stored(r, b, x) ==
    LET s == Split(r, b, Wanted(x))
    IN  [s EXCEPT !.produce = NextBlock(s, b), !.block[b].item = x]

(* Mutant: the callback gets the item m_pConsume is on after the pop. *)
PopOne_Late(p) == LET r == Popped(p.ring)
                  IN  [ring |-> r, popped |-> Append(p.popped, r.block[r.consume].item)]
(* A pop whose item the callback sees. *)
PopOne(p) == [ring |-> Popped(p.ring),
              popped |-> Append(p.popped, p.ring.block[p.ring.consume].item)]

(* FLAG_RECYCLE: the buffer after as many pops as it takes to find a place or  *)
(* to be empty.                                                                *)
Recycled(x) ==
    LET pops[n \in 0..Units] ==
            IF n = 0 THEN [ring |-> ring, popped |-> <<>>]
            ELSE LET p == pops[n - 1]
                 IN  IF Place(p.ring, x) # Null \/ Empty(p.ring) THEN p ELSE PopOne(p)
    IN  pops[Units]

(***************************************************************************)
(* The calls.                                                              *)
(***************************************************************************)
RingInit == recycle \in BOOLEAN /\ ring = Cleared /\ popped = <<>>

TooBig(x) == Wanted(x) > Units

Refused == UNCHANGED ring /\ popped' = <<>>

Allocate(x) ==
    /\ UNCHANGED recycle
    /\ \/ TooBig(x) /\ Refused
       \/ ~TooBig(x) /\ ~recycle /\ Place(ring, x) = Null /\ Refused
       \/ /\ ~TooBig(x)
          /\ recycle \/ Place(ring, x) # Null
          /\ LET p == Recycled(x)
                 b == Place(p.ring, x)
             IN  /\ ring' = IF b = Null THEN p.ring ELSE Stored(p.ring, b, x)
                 /\ popped' = p.popped

PopFirst ==
    /\ UNCHANGED recycle
    /\ IF Empty(ring) THEN Refused
       ELSE LET p == PopOne([ring |-> ring, popped |-> <<>>])
            IN  ring' = p.ring /\ popped' = p.popped

Clear == ring' = Cleared /\ popped' = <<>> /\ UNCHANGED recycle

RingNext == (\E x \in Items : Allocate(x)) \/ PopFirst \/ Clear

RingSpec == RingInit /\ [][RingNext]_ringVars

(***************************************************************************)
(* First/Next and Last/Prev: how the users go through the items.           *)
(***************************************************************************)
Step(r, b, way) == IF way = "next" THEN NextBlock(r, b) ELSE PrevBlock(r, b)

(* Next and Prev: from block b on to the next block in use that way; none      *)
(* beyond m_pProduce.                                                          *)
Skip(r, b, way) ==
    LET go[n \in 0..Units] ==
            IF n = 0 THEN Step(r, b, way)
            ELSE LET c == go[n - 1] IN IF c = r.produce \/ ~Free(r, c) THEN c ELSE Step(r, c, way)
    IN  IF go[Units] = r.produce THEN Null ELSE go[Units]

FirstItem(r) == IF Free(r, r.consume) THEN Null ELSE r.consume
LastItem(r) == Skip(r, r.produce, "prev")

(* The items met from block b on, until Next or Prev gives nullptr. *)
Met(r, b, way) ==
    LET at[n \in 1..Units] ==
            IF n = 1 THEN b
            ELSE LET c == at[n - 1] IN IF c = Null THEN Null ELSE Skip(r, c, way)
    IN  [i \in 1..Cardinality({n \in 1..Units : at[n] # Null}) |-> r.block[at[i]].item]

Forward == Met(ring, FirstItem(ring), "next")
Backward == Met(ring, LastItem(ring), "prev")

(***************************************************************************)
(* Properties                                                              *)
(***************************************************************************)
Blocks == {b \in Address : ring.block[b] # Null}
Holds == {b \in Blocks : ~Free(ring, b)}

(* The blocks cover the memory without gap or overlap and in the order of      *)
(* their links, both ways; m_pLast is the last of them; the buffer's pointers  *)
(* are on blocks; and the block of an item has room for the header and it.     *)
Tiles ==
    /\ ring \in [block : [Address -> Block \cup {Null}], produce : Blocks,
                 consume : Blocks, last : Blocks]
    /\ First \in Blocks /\ ring.block[First].prev = Null
    /\ \A b \in Blocks :
          LET n == ring.block[b].next
              end == b + ring.block[b].size
          IN  /\ IF n = Null THEN end = Units /\ ring.last = b
                 ELSE n = end /\ n \in Blocks /\ ring.block[n].prev = b
              /\ ~Free(ring, b) => ring.block[b].size * Unit >= Unit + Bytes[ring.block[b].item]
    /\ Holds = {} => ring = Cleared

(* The items by their place in the memory, from m_pConsume round to m_pProduce. *)
Ahead(b) == (b - ring.consume) % Units
Kept == {b \in Holds : ring.produce = ring.consume \/ Ahead(b) < Ahead(ring.produce)}
Contents == [i \in 1..Cardinality(Kept) |->
                ring.block[CHOOSE b \in Kept :
                              Cardinality({c \in Kept : Ahead(c) < Ahead(b)}) = i - 1].item]

(* First/Next go through the items from m_pConsume to m_pProduce and Last/Prev *)
(* through the same in the reverse order; except that when no block is free,   *)
(* and m_pProduce has come round to the oldest item, the walk back stops       *)
(* before that one.                                                            *)
WalksBothWays ==
    LET n == Len(Contents)
        left == IF Holds # {} /\ ring.produce = ring.consume THEN 1 ELSE 0
    IN  /\ {ring.produce, ring.consume} \subseteq Blocks
        /\ Kept = Holds
        /\ Forward = Contents
        /\ Backward = [i \in 1..n - left |-> Contents[n + 1 - i]]

(* The contents are a queue: the items in the order they were stored, none of  *)
(* them outside the walk, the oldest given up first, only under FLAG_RECYCLE,  *)
(* and announced to the callback.                                              *)
F == INSTANCE Fifo WITH queue <- Contents
FifoSpec == F!Spec
=============================================================================
