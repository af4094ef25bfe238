---------------------------- MODULE ContextSwitch ----------------------------
(***************************************************************************)
(* What a thread's registers go through: CpuRegsOnStack, the frame written  *)
(* for a new thread (src/src/sched/thread.rs), and the pushes and pops of   *)
(* timer_interrupt and force_switch_to_idle (src/src/sched/mod.rs).  Three  *)
(* lists of registers must agree, and one of them is a struct.              *)
(*                                                                         *)
(* One CPU, on which any thread may come next; Scheduler has the choice.    *)
(* A stack is its 8-byte words, numbered upwards from 0; an address is the  *)
(* number of a word, and the top the number after the last.                 *)
(***************************************************************************)
EXTENDS Integers, Sequences

CONSTANTS
  Threads,   \* numbers from 1; the idle thread is 0
  Top,       \* words of a stack, even: "Stack top must be 16-byte aligned"
  Depths     \* words a thread may have on its stack when it is interrupted

(* Nothing guards the low end of a stack: it has room for the frame below   *)
(* whatever a thread may have on it.                                        *)
ASSUME StackAssumption ==
  /\ Top \in Nat /\ Top % 2 = 0
  /\ \A depth \in Depths \cup {0} : depth \in Nat /\ depth + 21 <= Top

AllThreads == Threads \cup {0}

Iret == <<"rip", "cs", "rflags", "rsp", "ss">>   \* what iretq pops
Struct == <<"r15", "r14", "r13", "r12", "rbp", "rbx", "r11", "r10", "r9", "r8",
            "rax", "rcx", "rdx", "rsi", "rdi">> \o Iret
Names == {Struct[k] : k \in 1..Len(Struct)}

Hardware == <<"ss", "rsp", "rflags", "cs", "rip">>   \* pushed by the interrupt

PushesButOne == <<"rsi", "rdx", "rcx", "rax", "r8", "r9", "r10", "r11",
                  "rbx", "rbp", "r12", "r13", "r14", "r15">>
Pushes == <<"rdi", "rsi", "rdx", "rcx", "rax", "r8", "r9", "r10", "r11",
            "rbx", "rbp", "r12", "r13", "r14", "r15">>

PopsSwapped == <<"r15", "r14", "r13", "r12", "rbp", "rbx", "r11", "r10", "r9", "r8",
                 "rax", "rdx", "rcx", "rsi", "rdi">>
Pops == <<"r15", "r14", "r13", "r12", "rbp", "rbx", "r11", "r10", "r9", "r8",
          "rax", "rcx", "rdx", "rsi", "rdi">>

(* force_switch_to_idle has a list of its own.                              *)
IdlePops == <<"r15", "r14", "r13", "r12", "rbp", "rbx", "r11", "r10", "r9", "r8",
              "rax", "rcx", "rdx", "rsi", "rdi">>

(* Where a register is in a list of them.                                   *)
Place(words, r) == CHOOSE k \in 1..Len(words) : words[k] = r

VARIABLES
  stacks,   \* their words
  regs,     \* Thread::regs, where its frame begins
  cpu,      \* the registers
  current,  \* thread_addr
  phase,    \* "boot", "run" or "handler"
  left,     \* history: the registers and live words each thread was left with
  fresh     \* history: the current thread has done nothing since it came back

switchVars == <<stacks, regs, cpu, current, phase, left, fresh>>

KERNEL_CS == 8
KERNEL_DS == 16
InterruptsOn == 514   \* 0x202

Entry(t) == 100 + t
Arg(t) == 200 + t
Trash == -1

(* CpuRegsOnStack::new_inside_kernel, with spawn_raw's rdi.                 *)
NewInsideKernel(t) ==
  [r \in Names |->
     CASE r \in {"rbp", "rsp"} -> Top
       [] r = "rip" -> Entry(t)
       [] r = "cs" -> KERNEL_CS
       [] r = "rflags" -> InterruptsOn
       [] r = "ss" -> KERNEL_DS
       [] r = "rdi" /\ t \in Threads -> Arg(t)
       [] OTHER -> 0]

LiveWords(mem, sp) == [i \in sp..(Top - 1) |-> mem[i]]

SwitchInit ==
  /\ regs = [t \in AllThreads |-> Top - Len(Struct)]
  /\ stacks = [t \in AllThreads |-> [i \in 0..(Top - 1) |->
                 IF i >= regs[t] THEN NewInsideKernel(t)[Struct[i - regs[t] + 1]] ELSE Trash]]
  /\ cpu = [r \in Names |-> Trash]
  /\ current = 0
  /\ phase = "boot"
  /\ left = [t \in AllThreads |-> [cpu |-> NewInsideKernel(t), live |-> LiveWords(stacks[t], Top)]]
  /\ fresh = FALSE

(* A thread computes: its registers differ, and what it has on its stack.   *)
Value(t, k, n) == 1000 * (t + 1) + 10 * k + n

Work(n, depth) ==
  /\ phase = "run"
  /\ cpu' = [r \in Names |->
       CASE r = "rsp" -> Top - depth
         [] r = "rflags" -> InterruptsOn + n
         [] r \in {"cs", "ss"} -> cpu[r]
         [] OTHER -> Value(current, Place(Struct, r), n)]
  /\ stacks' = [stacks EXCEPT ![current] = [i \in 0..(Top - 1) |->
       IF i >= Top - depth THEN Value(current, i, n) ELSE @[i]]]
  /\ fresh' = FALSE
  /\ UNCHANGED <<regs, current, phase, left>>

(* The stack is aligned to 16 bytes and the words pushed, first one highest; *)
(* the handler uses what is below them.                                      *)
TimerInterrupt ==
  LET words == Hardware \o Pushes
      top   == cpu["rsp"] - (cpu["rsp"] % 2)
      sp    == top - Len(words)
  IN
  /\ phase = "run"
  /\ stacks' = [stacks EXCEPT ![current] = [i \in 0..(Top - 1) |->
       IF i < sp THEN Trash ELSE IF i < top THEN cpu[words[top - i]] ELSE @[i]]]
  /\ regs' = [regs EXCEPT ![current] = sp]
  /\ cpu' = [r \in Names |-> IF r = "rsp" THEN sp ELSE Trash]
  /\ left' = [left EXCEPT ![current] = [cpu |-> cpu, live |-> LiveWords(stacks[current], cpu["rsp"])]]
  /\ phase' = "handler"
  /\ UNCHANGED <<current, fresh>>

(* rsp is loaded from thread.regs, and everything popped.                   *)
Restore(t, pops) ==
  LET words == pops \o Iret IN
  /\ cpu' = [r \in Names |-> stacks[t][regs[t] + Place(words, r) - 1]]
  /\ current' = t
  /\ phase' = "run"
  /\ fresh' = TRUE
  /\ UNCHANGED <<stacks, regs, left>>

ForceSwitchToIdle == phase = "boot" /\ Restore(0, IdlePops)

(* The handler has set thread_addr to t.                                    *)
TimerReturn(t) == phase = "handler" /\ Restore(t, Pops)

SwitchNext ==
  \/ ForceSwitchToIdle
  \/ TimerInterrupt
  \/ \E t \in AllThreads : TimerReturn(t)
  \/ \E n \in {0, 1}, depth \in Depths : Work(n, depth)

SwitchSpec == SwitchInit /\ [][SwitchNext]_switchVars

-----------------------------------------------------------------------------
(* Properties *)

(* A thread goes on with the registers and the stack it was interrupted     *)
(* with, whoever ran in between; a new one begins at its entry point with   *)
(* its argument, its whole stack and interrupts on.                         *)
ResumesExactly ==
  phase = "run" /\ fresh =>
    /\ cpu = left[current].cpu
    /\ LiveWords(stacks[current], cpu["rsp"]) = left[current].live

(* The handler is called on a stack aligned as the calling convention asks, *)
(* however deep the thread was.                                             *)
HandlerAligned == phase = "handler" => cpu["rsp"] % 2 = 0
=============================================================================
