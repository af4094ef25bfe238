----------------------------- MODULE AbstractLock -----------------------------
(***************************************************************************)
(* What the kernel expects of SpinLock in src/src/sync/spinlock.rs: a lock  *)
(* has at most one holder, and only the holder gives it back.               *)
(***************************************************************************)
CONSTANTS Locks, Users, Free

VARIABLE holder   \* of each lock

Init == holder = [l \in Locks |-> Free]

Acquire(u, l) == holder[l] = Free /\ holder' = [holder EXCEPT ![l] = u]

Release(u, l) == holder[l] = u /\ holder' = [holder EXCEPT ![l] = Free]

Next == \E u \in Users, l \in Locks : Acquire(u, l) \/ Release(u, l)

Spec == Init /\ [][Next]_holder
=============================================================================
