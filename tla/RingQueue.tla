------------------------------ MODULE RingQueue ------------------------------
(***************************************************************************)
(* Queue<T> of src/src/sched/thread.rs: a ring buffer over an array that    *)
(* starts uninitialized, with head, tail and len kept separately.  It       *)
(* implements BoundedFifo, which is how Scheduler uses the ready queues.    *)
(***************************************************************************)
EXTENDS Integers, Sequences

CONSTANTS
  Items,   \* the values of type T
  Cap,     \* length of `data`, 256 in the code
  Uninit   \* the content of a slot nothing was written to

ASSUME RingQueueAssumption ==
  /\ Cap \in Nat \ {0}
  /\ Uninit \notin Items

VARIABLES data, head, tail, len,
          result   \* what the last call returned

vars == <<data, head, tail, len, result>>

Init ==
  /\ data = [i \in 0..(Cap - 1) |-> Uninit]
  /\ head = 0
  /\ tail = 0
  /\ len = 0
  /\ result = [op |-> "new", out |-> {}]

FullOffByOne == len = Cap - 1
Full == len = Cap

NotWrapped(i) == IF i = Cap - 1 THEN i ELSE i + 1
Following(i) == (i + 1) % Cap

Push(item) ==
  IF Full
  THEN /\ result' = [op |-> "push", out |-> {item}]
       /\ UNCHANGED <<data, head, tail, len>>
  ELSE /\ data' = [data EXCEPT ![tail] = item]
       /\ tail' = Following(tail)
       /\ len' = len + 1
       /\ result' = [op |-> "push", out |-> {}]
       /\ UNCHANGED head

Empty == len = 0

(* assume_init_read copies the slot out and leaves it as it is.             *)
Pop ==
  IF Empty
  THEN /\ result' = [op |-> "pop", out |-> {}]
       /\ UNCHANGED <<data, head, tail, len>>
  ELSE /\ result' = [op |-> "pop", out |-> {data[head]}]
       /\ head' = Following(head)
       /\ len' = len - 1
       /\ UNCHANGED <<data, tail>>

Next == Pop \/ \E item \in Items : Push(item)

Spec == Init /\ [][Next]_vars

-----------------------------------------------------------------------------
(* Properties *)

(* The i-th slot of a ring that starts at h.                                *)
Slot(h, i) == (h + i) % Cap

TypeOK ==
  /\ data \in [0..(Cap - 1) -> Items \cup {Uninit}]
  /\ head \in 0..(Cap - 1)
  /\ tail \in 0..(Cap - 1)
  /\ len \in 0..Cap
  /\ result \in [op : {"new", "push", "pop"}, out : SUBSET (Items \cup {Uninit})]

(* assume_init_read is never applied to a slot that was not written: the    *)
(* len slots from head on hold items, and tail is where they end, so the    *)
(* next push lands on none of them.                                         *)
LiveSlotsInitialized ==
  /\ tail = Slot(head, len)
  /\ \A i \in 0..(len - 1) : data[Slot(head, i)] \in Items

(* What the queue holds, oldest first.                                      *)
Contents == [i \in 1..len |-> data[Slot(head, i - 1)]]

Abstract == INSTANCE BoundedFifo WITH items <- Contents

(* push and pop are a first-in first-out queue of Cap items, wrapped head   *)
(* and tail and the full and the empty queue (head = tail in both) included.*)
Fifo == Abstract!Spec
=============================================================================
