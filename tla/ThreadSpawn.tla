----------------------------- MODULE ThreadSpawn -----------------------------
(***************************************************************************)
(* Thread::spawn and the start of the new thread, src/src/sched/thread.rs:  *)
(* the closure page, the thread id, the two critical sections on            *)
(* GLOBAL_THREAD_TABLE and thread_trampoline.  Scheduler has what happens   *)
(* to a thread once it is ready.                                            *)
(*                                                                         *)
(* Several callers spawn at once.  Frames are numbered in the order they    *)
(* are handed out, and nothing here gives one back.                         *)
(***************************************************************************)
EXTENDS Integers, Sequences, FiniteSets

CONSTANTS
  Callers,     \* threads and boot code that call spawn
  Capturing,   \* closures with captured values, of size > 0
  Plain,       \* closures without, of size 0
  TableCap,    \* slots of the thread table, 256
  Frames,      \* frames the allocator has left
  StackFrames, \* of a thread's stack, 4
  NULL

ASSUME SpawnAssumption ==
  /\ IsFiniteSet(Callers)
  /\ TableCap \in Nat /\ Frames \in Nat /\ StackFrames \in Nat
  /\ NULL \notin [id : Nat, arg : Nat]

Closures == Capturing \cup Plain

CLOSURE_OFFSET == 64   \* of closure_slot in the page; the fat pointer is at 0

VARIABLES
  next_frame,  \* frames 1..next_frame-1 are handed out
  memory,      \* the closure pages, by frame: what is at offset 0 and at 64
  id_counter,  \* GLOBAL_THREAD_ID_COUNTER
  threads,     \* ThreadTable::threads
  readied,     \* ids in the order ready() was called on them
  started,     \* what the threads that started run
  pc, arg, id, \* each caller: where it is, its closure page, the id it drew
  closure,     \* the closure it passed to spawn
  returned     \* the Some(id) results, with the closure passed

vars == <<next_frame, memory, id_counter, threads, readied, started, pc, arg, id, closure, returned>>

Pages == [fat : [data : Nat, vtable : Closures], closure : Closures]

TypeOK ==
  /\ next_frame \in 1..(Frames + 1)
  /\ DOMAIN memory \subseteq 1..(next_frame - 1)
  /\ \A p \in DOMAIN memory : memory[p] \in Pages
  /\ id_counter \in Nat
  /\ threads \in [1..TableCap -> [id : Nat, arg : 1..Frames] \cup {NULL}]
  /\ readied \in Seq(1..id_counter)
  /\ \A s \in started : s.id \in 1..id_counter /\ s.code \in Closures
  /\ pc \in [Callers -> {"idle", "id", "stack", "add", "ready", "panic"}]
  /\ returned \subseteq (1..id_counter) \X Closures

Init ==
  /\ next_frame = 1
  /\ memory = [p \in {} |-> NULL]
  /\ id_counter = 1
  /\ threads = [s \in 1..TableCap |-> NULL]
  /\ readied = <<>>
  /\ started = {}
  /\ pc = [c \in Callers |-> "idle"]
  /\ arg = [c \in Callers |-> NULL]
  /\ id = [c \in Callers |-> NULL]
  /\ closure = [c \in Callers |-> NULL]
  /\ returned = {}

Goto(c, label) == pc' = [pc EXCEPT ![c] = label]

(* alloc_frames(n) finds fewer than n frames: expect("Out of memory").      *)
OutOfFrames(n) == next_frame + n - 1 > Frames

(* spawn: a page gets the fat pointer and, at CLOSURE_OFFSET, the closure.  *)
AllocPage(c, f) ==
  /\ pc[c] = "idle"
  /\ IF OutOfFrames(1)
     THEN /\ Goto(c, "panic")
          /\ UNCHANGED <<next_frame, memory, arg, closure>>
     ELSE /\ Goto(c, "id")
          /\ memory' = [p \in DOMAIN memory \cup {next_frame} |->
               IF p = next_frame
               THEN [fat |-> [data |-> CLOSURE_OFFSET, vtable |-> f], closure |-> f]
               ELSE memory[p]]
          /\ arg' = [arg EXCEPT ![c] = next_frame]
          /\ closure' = [closure EXCEPT ![c] = f]
          /\ next_frame' = next_frame + 1
  /\ UNCHANGED <<id_counter, threads, readied, started, id, returned>>

SameId == id_counter
NextId == id_counter + 1

(* spawn_raw: the id is drawn ...                                           *)
TakeId(c) ==
  /\ pc[c] = "id"
  /\ id' = [id EXCEPT ![c] = id_counter]
  /\ id_counter' = NextId
  /\ Goto(c, "stack")
  /\ UNCHANGED <<next_frame, memory, threads, readied, started, arg, closure, returned>>

(* ... and then the stack allocated and its registers written.              *)
AllocStack(c) ==
  /\ pc[c] = "stack"
  /\ IF OutOfFrames(StackFrames)
     THEN /\ Goto(c, "panic")
          /\ UNCHANGED next_frame
     ELSE /\ Goto(c, "add")
          /\ next_frame' = next_frame + StackFrames
  /\ UNCHANGED <<memory, id_counter, threads, readied, started, arg, id, closure, returned>>

FirstSlot(s) == s = 1
FirstEmptySlot(s) == threads[s] = NULL /\ \A r \in 1..(s - 1) : threads[r] # NULL

(* add_thread under the table's lock.                                       *)
AddThread(c) ==
  /\ pc[c] = "add"
  /\ \E s \in 1..TableCap :
       /\ FirstEmptySlot(s)
       /\ threads' = [threads EXCEPT ![s] = [id |-> id[c], arg |-> arg[c]]]
  /\ Goto(c, "ready")
  /\ UNCHANGED <<next_frame, memory, id_counter, readied, started, arg, id, closure, returned>>

(* The table is full: spawn returns None.  Neither the stack nor the page   *)
(* is given back.                                                           *)
TableFull(c) ==
  /\ pc[c] = "add"
  /\ \A s \in 1..TableCap : threads[s] # NULL
  /\ Goto(c, "idle")
  /\ UNCHANGED <<next_frame, memory, id_counter, threads, readied, started, arg, id, closure, returned>>

AnyThread(s, n) == threads[s] # NULL
GetThreadMut(s, n) == threads[s] # NULL /\ threads[s].id = n

FirstFound(s, n) == GetThreadMut(s, n) /\ \A r \in 1..(s - 1) : ~GetThreadMut(r, n)

(* get_thread_mut(id).unwrap().ready() under the table's lock, taken again. *)
(* That the push in ready() finds room is Scheduler's ReadyQueueNeverFull.  *)
Ready(c) ==
  /\ pc[c] = "ready"
  /\ IF \A s \in 1..TableCap : ~GetThreadMut(s, id[c])
     THEN /\ Goto(c, "panic")
          /\ UNCHANGED <<readied, returned>>
     ELSE /\ \E s \in 1..TableCap :
               FirstFound(s, id[c]) /\ readied' = Append(readied, threads[s].id)
          /\ returned' = returned \cup {<<id[c], closure[c]>>}
          /\ Goto(c, "idle")
  /\ UNCHANGED <<next_frame, memory, id_counter, threads, started, arg, id, closure>>

(* core::ptr::read::<F>(page + offset): a closure of size 0 needs no bytes. *)
ReadClosure(page, offset, f) ==
  IF f \in Plain THEN f
  ELSE IF offset = CLOSURE_OFFSET THEN memory[page].closure
  ELSE memory[page].fat

(* thread_trampoline: the vtable of the fat pointer at arg says which code, *)
(* run_and_cleanup(arg) reads the closure from arg itself.                  *)
Start(s) ==
  /\ threads[s] # NULL
  /\ \E k \in DOMAIN readied : readied[k] = threads[s].id
  /\ \A r \in started : r.id # threads[s].id
  /\ LET f == memory[threads[s].arg].fat.vtable
     IN  started' = started \cup
           {[id |-> threads[s].id, code |-> f, captures |-> ReadClosure(threads[s].arg, 0, f)]}
  /\ UNCHANGED <<next_frame, memory, id_counter, threads, readied, pc, arg, id, closure, returned>>

Next ==
  \/ \E c \in Callers :
       \/ \E f \in Closures : AllocPage(c, f)
       \/ TakeId(c)
       \/ AllocStack(c)
       \/ AddThread(c)
       \/ TableFull(c)
       \/ Ready(c)
  \/ \E s \in 1..TableCap : Start(s)

Spec == Init /\ [][Next]_vars

-----------------------------------------------------------------------------
(* Properties *)

(* Two spawns whose critical sections interleave do not take each other's   *)
(* thread: a spawn that returned Some(id) has put one thread with that id   *)
(* and its own closure in the table and made it ready, once.                *)
SpawnedThreadReady ==
  \A r \in returned :
    /\ Cardinality({s \in 1..TableCap : threads[s] # NULL /\ threads[s].id = r[1]}) = 1
    /\ \A s \in 1..TableCap :
         threads[s] # NULL /\ threads[s].id = r[1] => memory[threads[s].arg].closure = r[2]
    /\ Cardinality({k \in DOMAIN readied : readied[k] = r[1]}) = 1

At(label) == {c \in Callers : pc[c] = label}
Stored == {s \in 1..TableCap : threads[s] # NULL}

Accounted ==
  Cardinality(At("id")) + Cardinality(At("stack"))
    + (1 + StackFrames) * (Cardinality(At("add")) + Cardinality(Stored))

(* A full table is the one way to lose frames: before, each frame handed    *)
(* out belongs to a thread of the table or to a spawn under way, however    *)
(* the spawns interleave (one that panics for lack of memory keeps its page).*)
LostOnlyWhenFull ==
  (\E s \in 1..TableCap : threads[s] = NULL) =>
    next_frame - 1 - Accounted \in 0..Cardinality(At("panic"))

(* "We pass `arg` because that's where the actual closure 'F' lives": a     *)
(* thread runs the closure it was spawned with, captured values included.   *)
RunsItsClosure ==
  \A r \in started : r.captures = r.code
=============================================================================
