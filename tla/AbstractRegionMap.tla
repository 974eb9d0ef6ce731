------------------------- MODULE AbstractRegionMap -------------------------
(***************************************************************************)
(* What the region map of an mblock file promises (spec 4.C), with no     *)
(* intervals: a set of free block keys.  alloc returns the smallest free   *)
(* key or 0 (ENOSPC); insert and free move one key out of / into the set,  *)
(* failing with ENOENT when it is already on the other side; find reports *)
(* whether a key is allocated.                                            *)
(***************************************************************************)
EXTENDS Integers, FiniteSets

CONSTANT MaxKey

VARIABLES free, ret

Keys == 1..MaxKey

SmallestFree == CHOOSE k \in free : \A j \in free : k <= j

Init ==
    /\ free = Keys
    /\ ret = [op |-> "none", key |-> 0, err |-> "OK"]

Alloc ==
    IF free = {}
    THEN /\ ret' = [op |-> "alloc", key |-> 0, err |-> "ENOSPC"]
         /\ UNCHANGED free
    ELSE /\ free' = free \ {SmallestFree}
         /\ ret' = [op |-> "alloc", key |-> SmallestFree, err |-> "OK"]

Insert(k) ==
    /\ free' = free \ {k}
    /\ ret' = [op |-> "insert", key |-> k,
               err |-> IF k \in free THEN "OK" ELSE "ENOENT"]

Free(k) ==
    /\ free' = free \cup {k}
    /\ ret' = [op |-> "free", key |-> k,
               err |-> IF k \in free THEN "ENOENT" ELSE "OK"]

Find(k) ==
    /\ ret' = [op |-> "find", key |-> k,
               err |-> IF k \in free THEN "ENOENT" ELSE "OK"]
    /\ UNCHANGED free

Next == Alloc \/ \E k \in Keys : Insert(k) \/ Free(k) \/ Find(k)

Spec == Init /\ [][Next]_<<free, ret>>
=============================================================================
