--------------------------- MODULE DistLockAbstract ---------------------------
(***************************************************************************)
(* What a distributed lock promises its users: at most one holder, a      *)
(* holder is taken only while the lock is free and is released before     *)
(* anyone else takes it.                                                  *)
(***************************************************************************)
CONSTANT Lockers
VARIABLE holders     \* the lockers holding the lock

Init == holders = {}

Acquire(l) == holders = {} /\ holders' = {l}

Release(l) == l \in holders /\ holders' = holders \ {l}

Next == \E l \in Lockers : Acquire(l) \/ Release(l)

Spec == Init /\ [][Next]_holders
===============================================================================
