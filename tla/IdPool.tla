------------------------------- MODULE IdPool -------------------------------
(***************************************************************************)
(* What a pool of snapshot ids promises: an id has at most one holder, and *)
(* an id that was given back waits for those given back before it.         *)
(***************************************************************************)
EXTENDS Sequences

CONSTANT PoolIds

VARIABLES
    free,       \* ids that can be handed out
    holders,    \* ids some part of the program holds
    resting     \* ids given back and not yet free

poolVars == <<free, holders, resting>>

PoolInit ==
    /\ free = PoolIds
    /\ holders = {}
    /\ resting = <<>>

HandOut ==
    \E id \in free :
        /\ free' = free \ {id}
        /\ holders' = holders \cup {id}
        /\ resting' = resting

GiveBack ==
    \E id \in holders :
        /\ holders' = holders \ {id}
        /\ resting' = Append(resting, id)
        /\ free' = free

Release ==
    /\ resting # <<>>
    /\ free' = free \cup {Head(resting)}
    /\ resting' = Tail(resting)
    /\ holders' = holders

PoolSpec == PoolInit /\ [][HandOut \/ GiveBack \/ Release]_poolVars
=============================================================================
