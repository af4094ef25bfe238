------------------------------- MODULE SpinLock -------------------------------
(***************************************************************************)
(* SpinLock and its guard, src/src/sync/spinlock.rs, instruction by         *)
(* instruction, on CPUs whose timer interrupt may arrive between any two of *)
(* them and move the running thread elsewhere; and current_cpu of           *)
(* arch/x86_64/cpu.rs, which code under a lock relies on.                   *)
(*                                                                         *)
(* Code that takes locks is a thread or the timer handler of a CPU, which   *)
(* goes by the CPU's name.  Of the scheduler only this is left: an interrupt*)
(* returns into any thread that no other CPU runs.                          *)
(***************************************************************************)
EXTENDS Integers, Sequences

CONSTANTS
  Cpus, Threads,
  Callers,   \* the threads that call current_cpu
  MaxLock,   \* locks are numbered in the order they nest; SchedLocks has why
  NULL

Locks == 1..MaxLock
Users == Threads \cup Cpus

ASSUME SpinLockAssumption ==
  /\ MaxLock \in Nat
  /\ Threads \cap Cpus = {}
  /\ Callers \subseteq Threads
  /\ NULL \notin Users

VARIABLES
  locked,      \* SpinLock::lock of each lock
  int_flag,    \* the interrupt flag of each CPU
  on,          \* the thread each CPU runs, or interrupted
  in_handler,  \* CPUs inside timer_interrupt
  pc,          \* where each user is in lock() or drop()
  seen,        \* its local interrupts_enabled, or the guard's copy in drop()
  asks,        \* the lock it asks for, from the call of lock() until it has it
  guards,      \* its SpinLockGuards, oldest first
  rax          \* what a thread got from current_cpu(), then from thread_addr

vars == <<locked, int_flag, on, in_handler, pc, seen, asks, guards, rax>>

TypeOK ==
  /\ locked \in [Locks -> BOOLEAN]
  /\ int_flag \in [Cpus -> BOOLEAN]
  /\ on \in [Cpus -> Threads]
  /\ in_handler \subseteq Cpus
  /\ pc \in [Users -> {"code", "disable", "spin", "restore"}]
  /\ seen \in [Users -> BOOLEAN]
  /\ asks \in [Users -> Locks \cup {NULL}]
  /\ guards \in [Users -> Seq([lock : Locks, interrupts_state : BOOLEAN])]
  /\ rax \in [Callers -> Users \cup {NULL}]

Init ==
  /\ locked = [l \in Locks |-> FALSE]
  /\ int_flag = [c \in Cpus |-> TRUE]
  /\ on \in [Cpus -> Threads]
  /\ \A c, d \in Cpus : on[c] = on[d] => c = d
  /\ in_handler = {}
  /\ pc = [u \in Users |-> "code"]
  /\ seen = [u \in Users |-> FALSE]
  /\ asks = [u \in Users |-> NULL]
  /\ guards = [u \in Users |-> <<>>]
  /\ rax = [t \in Callers |-> NULL]

Executing(c) == IF c \in in_handler THEN c ELSE on[c]

Goto(u, label) == pc' = [pc EXCEPT ![u] = label]

-----------------------------------------------------------------------------
(* lock() *)

SeenAlwaysOff(c) == FALSE
AreEnabled(c) == int_flag[c]

AskedBefore(t) == rax[t]
AskedInside(t) == NULL   \* ready() calls current_cpu after its lock()

(* The first instruction of l.lock().  Nested locks are asked for in        *)
(* ascending order, so never one that is held; one that was dropped may be  *)
(* taken again inside an outer section, as do_load_balance does with the    *)
(* sched_state of each thread it moves.                                     *)
LockCall(c, l) ==
  LET u == Executing(c) IN
  /\ pc[u] = "code"
  /\ \A k \in 1..Len(guards[u]) : guards[u][k].lock < l
  /\ seen' = [seen EXCEPT ![u] = AreEnabled(c)]
  /\ asks' = [asks EXCEPT ![u] = l]
  /\ rax' = [t \in Callers |-> IF t = u /\ guards[u] = <<>> THEN AskedInside(t) ELSE rax[t]]
  /\ Goto(u, "disable")
  /\ UNCHANGED <<locked, int_flag, on, in_handler, guards>>

NotDisabled(c) == int_flag[c]
Disabled(c) == FALSE

Disable(c) ==
  LET u == Executing(c) IN
  /\ pc[u] = "disable"
  /\ int_flag' = [int_flag EXCEPT ![c] = Disabled(c)]
  /\ Goto(u, "spin")
  /\ UNCHANGED <<locked, on, in_handler, seen, asks, guards, rax>>

WithoutCompare(l) == TRUE
Compare(l) == ~locked[l]

(* The compare_exchange that succeeds; one that fails changes nothing.      *)
CompareExchange(c) ==
  LET u == Executing(c)
      l == asks[u]
  IN
  /\ pc[u] = "spin"
  /\ Compare(l)
  /\ locked' = [locked EXCEPT ![l] = TRUE]
  /\ guards' = [guards EXCEPT ![u] = Append(@, [lock |-> l, interrupts_state |-> seen[u]])]
  /\ asks' = [asks EXCEPT ![u] = NULL]
  /\ Goto(u, "code")
  /\ UNCHANGED <<int_flag, on, in_handler, seen, rax>>

-----------------------------------------------------------------------------
(* Drop of the youngest guard: Rust drops locals in reverse order, and no   *)
(* caller moves a guard.                                                    *)

DroppedGuard(u) == Len(guards[u])

Unlock(c) ==
  LET u == Executing(c)
      k == DroppedGuard(u)
  IN
  /\ pc[u] = "code"
  /\ guards[u] # <<>>
  /\ locked' = [locked EXCEPT ![guards[u][k].lock] = FALSE]
  /\ seen' = [seen EXCEPT ![u] = guards[u][k].interrupts_state]
  /\ guards' = [guards EXCEPT ![u] = SubSeq(@, 1, k - 1) \o SubSeq(@, k + 1, Len(@))]
  /\ rax' = [t \in Callers |-> IF t = u THEN NULL ELSE rax[t]]
  /\ Goto(u, "restore")
  /\ UNCHANGED <<int_flag, on, in_handler, asks>>

RestoreAlways(u) == TRUE
RestoreIf(u) == seen[u]

Restore(c) ==
  LET u == Executing(c) IN
  /\ pc[u] = "restore"
  /\ int_flag' = [int_flag EXCEPT ![c] = @ \/ RestoreIf(u)]
  /\ seen' = [seen EXCEPT ![u] = FALSE]
  /\ Goto(u, "code")
  /\ UNCHANGED <<locked, on, in_handler, asks, guards, rax>>

-----------------------------------------------------------------------------
(* The timer *)

(* Taken with the flag set, which the gate then clears.                     *)
TimerInterrupt(c) ==
  /\ int_flag[c]
  /\ int_flag' = [int_flag EXCEPT ![c] = FALSE]
  /\ in_handler' = in_handler \cup {c}
  /\ UNCHANGED <<locked, on, pc, seen, asks, guards, rax>>

(* iretq into a thread: the flags it saved had interrupts on.               *)
TimerReturn(c, t) ==
  /\ c \in in_handler
  /\ pc[c] = "code"
  /\ guards[c] = <<>>
  /\ \A d \in Cpus \ {c} : on[d] # t
  /\ on' = [on EXCEPT ![c] = t]
  /\ int_flag' = [int_flag EXCEPT ![c] = TRUE]
  /\ in_handler' = in_handler \ {c}
  /\ UNCHANGED <<locked, pc, seen, asks, guards, rax>>

-----------------------------------------------------------------------------
(* current_cpu() and, with it, current_thread_id(): GsBase is read by one   *)
(* instruction, thread_addr through it by another.                          *)

CurrentCpu(c) ==
  LET t == Executing(c) IN
  /\ t \in Callers
  /\ pc[t] = "code"
  /\ rax' = [rax EXCEPT ![t] = c]
  /\ UNCHANGED <<locked, int_flag, on, in_handler, pc, seen, asks, guards>>

CurrentThreadId(c) ==
  LET t == Executing(c) IN
  /\ t \in Callers
  /\ pc[t] = "code"
  /\ rax[t] \in Cpus
  /\ rax' = [rax EXCEPT ![t] = on[rax[t]]]
  /\ UNCHANGED <<locked, int_flag, on, in_handler, pc, seen, asks, guards>>

-----------------------------------------------------------------------------

Next ==
  \E c \in Cpus :
    \/ \E l \in Locks : LockCall(c, l)
    \/ Disable(c) \/ CompareExchange(c)
    \/ Unlock(c) \/ Restore(c)
    \/ TimerInterrupt(c)
    \/ \E t \in Threads : TimerReturn(c, t)
    \/ CurrentCpu(c) \/ CurrentThreadId(c)

Spec == Init /\ [][Next]_vars

(* A CPU executes its next instruction, and the code of a critical section  *)
(* comes to its next lock() or drop().                                      *)
Fairness ==
  \A c \in Cpus :
    /\ WF_vars(Disable(c))
    /\ WF_vars(CompareExchange(c))
    /\ WF_vars(Unlock(c))
    /\ WF_vars(Restore(c))
    /\ WF_vars(\E t \in Threads : TimerReturn(c, t))

FairSpec == Spec /\ Fairness

-----------------------------------------------------------------------------
(* Properties *)

Holds(u, l) == \E k \in 1..Len(guards[u]) : guards[u][k].lock = l

HolderOf(l) == IF \E u \in Users : Holds(u, l) THEN CHOOSE u \in Users : Holds(u, l) ELSE NULL

Abstract == INSTANCE AbstractLock WITH Free <- NULL, holder <- [l \in Locks |-> HolderOf(l)]

(* The flag, the spinning and the guards implement a lock with one holder.  *)
ImplementsLock == Abstract!Spec

(* Whoever has a lock, or spins for one, executes, with interrupts off: it  *)
(* is neither preempted nor moved, and the handler of its CPU cannot spin   *)
(* for ever on a lock of the thread it interrupted.                         *)
HolderNotInterrupted ==
  \A u \in Users : guards[u] # <<>> \/ pc[u] = "spin" =>
    \E c \in Cpus : Executing(c) = u /\ ~int_flag[c]

(* Once its guards are gone a thread has interrupts on again, and a handler *)
(* still has them off.                                                      *)
FlagRestored ==
  \A c \in Cpus : pc[Executing(c)] = "code" /\ guards[Executing(c)] = <<>> =>
    (int_flag[c] <=> c \notin in_handler)

(* current_cpu() called under a lock names the CPU the caller is on for as  *)
(* long as the lock is held, as ready() expects when it calls it twice, and *)
(* current_thread_id() called there gives the caller's own id; without a    *)
(* lock a thread may be moved between its two reads.                        *)
CurrentCpuStable ==
  \A t \in Callers : guards[t] # <<>> =>
    /\ rax[t] \in Cpus => on[rax[t]] = t
    /\ rax[t] \in Threads => rax[t] = t

(* A critical section is left, or waits for a further lock; it is never     *)
(* stuck for want of a CPU.                                                 *)
SectionsProceed ==
  \A u \in Users : guards[u] # <<>> ~> guards[u] = <<>> \/ pc[u] = "spin"
=============================================================================
