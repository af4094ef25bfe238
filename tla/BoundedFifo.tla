----------------------------- MODULE BoundedFifo -----------------------------
(***************************************************************************)
(* What the scheduler expects of Queue<T> in src/src/sched/thread.rs: a     *)
(* first-in first-out queue of at most Cap items that gives an item back    *)
(* when it is full and nothing when it is empty.                            *)
(***************************************************************************)
EXTENDS Naturals, Sequences

CONSTANTS Items, Cap

VARIABLES
  items,   \* what the queue holds, oldest first
  result   \* the last call and the items it handed back: Err(item), Some(item)

Init == items = <<>> /\ result = [op |-> "new", out |-> {}]

Push(x) ==
  IF Len(items) < Cap
  THEN items' = Append(items, x) /\ result' = [op |-> "push", out |-> {}]
  ELSE items' = items /\ result' = [op |-> "push", out |-> {x}]

Pop ==
  IF items # <<>>
  THEN items' = Tail(items) /\ result' = [op |-> "pop", out |-> {Head(items)}]
  ELSE items' = items /\ result' = [op |-> "pop", out |-> {}]

Next == Pop \/ \E x \in Items : Push(x)

Spec == Init /\ [][Next]_<<items, result>>
=============================================================================
