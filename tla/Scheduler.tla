------------------------------ MODULE Scheduler ------------------------------
(***************************************************************************)
(* The SMP scheduler of the kernel: src/src/sched/mod.rs, the spawning half *)
(* of src/src/sched/thread.rs, the CPU registry of arch/x86_64/cpu.rs and   *)
(* the end of the boot path in arch/x86_64/init.rs.                         *)
(*                                                                         *)
(* Every CPU owns a ready queue behind a SpinLock.  The timer interrupt     *)
(* saves the running thread, `switch` picks the next one from the CPU's own *)
(* queue, `maybe_load_balance` evens the queue out with that of a random    *)
(* other CPU, and the interrupt returns into the chosen thread.  A critical *)
(* section (the code between lock() and the drop of the guard, run with     *)
(* interrupts off) is one atomic step; what happens between two critical    *)
(* sections interleaves with every other CPU.                               *)
(*                                                                         *)
(* A thread is named by its slot of GLOBAL_THREAD_TABLE, the idle thread of *)
(* a CPU, which is in no table, by a negative number.                       *)
(***************************************************************************)
EXTENDS Integers, Sequences

CONSTANTS
  Cpus,         \* ids of the CPUs the bootloader reports
  QueueCap,     \* slots of a ready queue: Queue::data, 256 in the code
  TableCap,     \* slots of the thread table: ThreadTable::threads, 256
  RandomRange,  \* get_random_online_cpu draws an id below this, 12
  NULL

ASSUME SchedulerAssumption ==
  /\ Cpus \subseteq Nat
  /\ NULL \notin Int
  /\ QueueCap \in Nat
  /\ TableCap \in Nat
  /\ TableCap <= QueueCap

Threads == 1..TableCap

Idle(c) == -1 - c   \* &cpu.idle_thread; the boot code of c goes by it too

IdleThreads == {Idle(c) : c \in Cpus}

VARIABLES
  online,       \* CPUS[c].online
  ready_queue,  \* TlsData::ready_queue, oldest entry first
  thread_addr,  \* TlsData::thread_addr: what c runs
  sched_state,  \* Thread::sched_state
  table,        \* the threads stored in GLOBAL_THREAD_TABLE
  saved,        \* threads whose `regs` field describes where they stopped
  spawning,     \* what a caller of spawn added to the table, not yet readied
  stack,        \* whose stack the CPU executes on; NULL is the boot stack
  pc,           \* where the CPU is
  other_cpu,    \* the local other_cpu of maybe_load_balance
  lapic         \* the one-shot timer: off, armed, or in service (no EOI yet)

vars == <<online, ready_queue, thread_addr, sched_state, table, saved,
          spawning, stack, pc, other_cpu, lapic>>

AnyThread == Threads \cup IdleThreads

Handler == {"switch", "pick", "balance", "exit"}   \* inside timer_interrupt

TypeOK ==
  /\ online \subseteq Cpus
  /\ ready_queue \in [Cpus -> Seq(Threads)]
  /\ thread_addr \in [Cpus -> AnyThread \cup {NULL}]
  /\ sched_state \in [Threads -> [cpu : Cpus \cup {NULL}, state : {"Born", "Ready"}]]
  /\ table \subseteq Threads
  /\ saved \subseteq AnyThread
  /\ spawning \in [AnyThread -> Threads \cup {NULL}]
  /\ stack \in [Cpus -> AnyThread \cup {NULL}]
  /\ pc \in [Cpus -> {"off", "boot", "run", "panic"} \cup Handler]
  /\ other_cpu \in [Cpus -> Cpus \cup {NULL}]
  /\ lapic \in [Cpus -> {"off", "armed", "service"}]

Init ==
  /\ online = {}
  /\ ready_queue = [c \in Cpus |-> <<>>]
  /\ thread_addr = [c \in Cpus |-> NULL]
  /\ sched_state = [t \in Threads |-> [cpu |-> NULL, state |-> "Born"]]
  /\ table = {}
  /\ saved = {}
  /\ spawning = [x \in AnyThread |-> NULL]
  /\ stack = [c \in Cpus |-> NULL]
  /\ pc = [c \in Cpus |-> "off"]
  /\ other_cpu = [c \in Cpus |-> NULL]
  /\ lapic = [c \in Cpus |-> "off"]

(* Thread t is in queue q; no thread is in q twice.                         *)
Holds(q, t) == \E i \in 1..Len(q) : q[i] = t
NoDuplicates(q) == \A i, j \in 1..Len(q) : q[i] = q[j] => i = j

Goto(c, label) == pc' = [pc EXCEPT ![c] = label]

-----------------------------------------------------------------------------
(* Boot *)

(* The TLS page is filled in (empty queue, no current thread, an idle       *)
(* thread with a fresh register frame) and published in CPUS: from here on  *)
(* other CPUs move threads to this one.                                     *)
SetupTls(c) ==
  /\ pc[c] = "off"
  /\ ready_queue' = [ready_queue EXCEPT ![c] = <<>>]
  /\ thread_addr' = [thread_addr EXCEPT ![c] = NULL]
  /\ saved' = saved \cup {Idle(c)}
  /\ online' = online \cup {c}
  /\ Goto(c, "boot")
  /\ UNCHANGED <<sched_state, table, spawning, stack, other_cpu, lapic>>

(* The rest of common_entry, with interrupts off throughout: the timer is   *)
(* started and the CPU drops into its idle thread, which enables interrupts.*)
ForceSwitchToIdle(c) ==
  /\ pc[c] = "boot"
  /\ spawning[Idle(c)] = NULL
  /\ lapic' = [lapic EXCEPT ![c] = "armed"]
  /\ thread_addr' = [thread_addr EXCEPT ![c] = Idle(c)]
  /\ stack' = [stack EXCEPT ![c] = Idle(c)]
  /\ saved' = saved \ {Idle(c)}
  /\ Goto(c, "run")
  /\ UNCHANGED <<online, ready_queue, sched_state, table, spawning, other_cpu>>

-----------------------------------------------------------------------------
(* Thread::spawn, called by boot code or by a running thread (the idle      *)
(* thread only halts).  The two critical sections on the thread table are   *)
(* two actions: the caller may be preempted, and migrate, between them.     *)

Caller(c) == IF pc[c] = "boot" THEN Idle(c) ELSE thread_addr[c]

MaySpawn(c) == pc[c] = "boot" \/ (pc[c] = "run" /\ thread_addr[c] \in Threads)

FirstSlot(t) == t = 1
FirstEmptySlot(t) == t \notin table /\ 1..(t - 1) \subseteq table

(* add_thread stores the thread, with its register frame already written to *)
(* its stack, in the first empty slot.  If there is none spawn returns None *)
(* and nothing that is modelled here changes.                               *)
AddThread(c, t) ==
  /\ MaySpawn(c)
  /\ spawning[Caller(c)] = NULL
  /\ FirstEmptySlot(t)
  /\ table' = table \cup {t}
  /\ saved' = saved \cup {t}
  /\ spawning' = [spawning EXCEPT ![Caller(c)] = t]
  /\ UNCHANGED <<online, ready_queue, thread_addr, sched_state, stack, pc, other_cpu, lapic>>

(* Thread::ready on the CPU the caller runs on by now.                      *)
Ready(c) ==
  LET t == spawning[Caller(c)] IN
  /\ MaySpawn(c)
  /\ t # NULL
  /\ sched_state' = [sched_state EXCEPT ![t] = [cpu |-> c, state |-> "Ready"]]
  /\ IF Len(ready_queue[c]) = QueueCap
     THEN /\ Goto(c, "panic")
          /\ UNCHANGED ready_queue
     ELSE /\ ready_queue' = [ready_queue EXCEPT ![c] = Append(@, t)]
          /\ UNCHANGED pc
  /\ spawning' = [spawning EXCEPT ![Caller(c)] = NULL]
  /\ UNCHANGED <<online, thread_addr, table, saved, stack, other_cpu, lapic>>

-----------------------------------------------------------------------------
(* The timer interrupt *)

RegsNotSaved(c) == saved
RegsSaved(c) == saved \cup {thread_addr[c]}

(* Entry: the registers are pushed and rsp goes to thread.regs; the gate    *)
(* turns interrupts off and the LAPIC delivers nothing more until the EOI.  *)
TimerInterrupt(c) ==
  /\ pc[c] = "run"
  /\ lapic[c] = "armed"
  /\ saved' = RegsSaved(c)
  /\ lapic' = [lapic EXCEPT ![c] = "service"]
  /\ Goto(c, "switch")
  /\ UNCHANGED <<online, ready_queue, thread_addr, sched_state, table, spawning, stack, other_cpu>>

RequeueIdleToo(c) == TRUE
RequeueNothing(c) == FALSE
RequeueCurrent(c) == thread_addr[c] # Idle(c)

(* switch(): the oldest ready thread becomes current, the preempted one goes *)
(* to the end of the queue unless it is the idle thread.  The CPU is still   *)
(* on the preempted thread's stack when the queue's lock is released.        *)
Switch(c) ==
  LET queue == ready_queue[c]
      rest  == Tail(queue)
  IN
  /\ pc[c] = "switch"
  /\ IF queue = <<>>
     THEN /\ Goto(c, "pick")
          /\ UNCHANGED <<ready_queue, thread_addr>>
     ELSE IF RequeueCurrent(c) /\ Len(rest) = QueueCap
          THEN /\ Goto(c, "panic")
               /\ ready_queue' = [ready_queue EXCEPT ![c] = rest]
               /\ UNCHANGED thread_addr
          ELSE /\ Goto(c, "pick")
               /\ ready_queue' = [ready_queue EXCEPT ![c] =
                     IF RequeueCurrent(c) THEN Append(rest, thread_addr[c]) ELSE rest]
               /\ thread_addr' = [thread_addr EXCEPT ![c] = Head(queue)]
  /\ UNCHANGED <<online, sched_state, table, saved, spawning, stack, other_cpu, lapic>>

(* get_random_online_cpu drew an id that is offline, or the CPU's own.      *)
PickNoCpu(c) ==
  /\ pc[c] = "pick"
  /\ Goto(c, "exit")
  /\ UNCHANGED <<online, ready_queue, thread_addr, sched_state, table, saved, spawning, stack, other_cpu, lapic>>

(* It drew another CPU that is online; no lock is held until "balance".     *)
PickCpu(c, d) ==
  /\ pc[c] = "pick"
  /\ d \in online \ {c}
  /\ d < RandomRange
  /\ other_cpu' = [other_cpu EXCEPT ![c] = d]
  /\ Goto(c, "balance")
  /\ UNCHANGED <<online, ready_queue, thread_addr, sched_state, table, saved, spawning, stack, lapic>>

MoveWholeDelta(delta) == IF delta <= 1 THEN 0 ELSE delta
MoveRoundedUp(delta) == (delta + 1) \div 2
ToMove(delta) == IF delta <= 1 THEN 0 ELSE delta \div 2   \* delta >= 0

MovedKeepsCpu(src, dst) == src
MovedCpu(src, dst) == dst

(* One direction of do_load_balance: the n oldest threads of src's queue,   *)
(* in order, to the end of dst's, each with its sched_state.cpu updated.    *)
(* A push that fails leaves both queues locked for ever, so how far the     *)
(* loop had got is seen by nobody.                                          *)
MoveThreads(c, src, dst) ==
  LET from == ready_queue[src]
      to   == ready_queue[dst]
      n    == ToMove(Len(from) - Len(to))
      moved == SubSeq(from, 1, n)
  IN
  /\ Len(from) >= Len(to)
  /\ IF Len(to) + n > QueueCap
     THEN /\ Goto(c, "panic")
          /\ UNCHANGED <<ready_queue, sched_state>>
     ELSE /\ Goto(c, "exit")
          /\ ready_queue' = [ready_queue EXCEPT ![src] = SubSeq(from, n + 1, Len(from)),
                                                ![dst] = to \o moved]
          /\ sched_state' = [t \in Threads |->
               IF Holds(moved, t)
               THEN [sched_state[t] EXCEPT !.cpu = MovedCpu(src, dst)]
               ELSE sched_state[t]]

(* maybe_load_balance with both queues locked.                              *)
Balance(c) ==
  /\ pc[c] = "balance"
  /\ \/ MoveThreads(c, c, other_cpu[c])
     \/ MoveThreads(c, other_cpu[c], c)
  /\ other_cpu' = [other_cpu EXCEPT ![c] = NULL]
  /\ UNCHANGED <<online, thread_addr, table, saved, spawning, stack, lapic>>

NotRearmed == "off"
Rearmed == "armed"

(* The timer is restarted, the EOI sent, and iretq leaves on the stack of   *)
(* the current thread.                                                      *)
TimerReturn(c) ==
  /\ pc[c] = "exit"
  /\ lapic' = [lapic EXCEPT ![c] = Rearmed]
  /\ stack' = [stack EXCEPT ![c] = thread_addr[c]]
  /\ saved' = saved \ {thread_addr[c]}
  /\ Goto(c, "run")
  /\ UNCHANGED <<online, ready_queue, thread_addr, sched_state, table, spawning, other_cpu>>

-----------------------------------------------------------------------------

Boot(c) == SetupTls(c) \/ ForceSwitchToIdle(c)

Spawn(c) == (\E t \in Threads : AddThread(c, t)) \/ Ready(c)

Pick(c) == PickNoCpu(c) \/ \E d \in Cpus : PickCpu(c, d)

Next ==
  \E c \in Cpus :
    \/ Boot(c)
    \/ Spawn(c)
    \/ TimerInterrupt(c)
    \/ Switch(c)
    \/ Pick(c)
    \/ Balance(c)
    \/ TimerReturn(c)

Spec == Init /\ [][Next]_vars

(* The bootloader starts every CPU, a running CPU executes its next          *)
(* instruction, and an armed timer fires once interrupts are on.  A spin on  *)
(* a ready queue's lock is assumed to end (see SpinLock in the README).      *)
Fairness ==
  \A c \in Cpus :
    /\ WF_vars(Boot(c))
    /\ WF_vars(pc[c] = "boot" /\ Ready(c))
    /\ WF_vars(TimerInterrupt(c))
    /\ WF_vars(Switch(c))
    /\ WF_vars(Pick(c))
    /\ WF_vars(Balance(c))
    /\ WF_vars(TimerReturn(c))

FairSpec == Spec /\ Fairness

-----------------------------------------------------------------------------
(* Properties *)

Queued(t, c) == Holds(ready_queue[c], t)

At(t, c) == Queued(t, c) \/ thread_addr[c] = t

(* switch, ready and do_load_balance neither lose nor duplicate a thread: a *)
(* thread that was readied is in one slot of one queue or current on one    *)
(* CPU, and a thread not readied yet is nowhere.                            *)
PlacedOnce ==
  /\ \A c \in Cpus : NoDuplicates(ready_queue[c])
  /\ \A t \in Threads : \A c \in Cpus : ~(Queued(t, c) /\ thread_addr[c] = t)
  /\ \A t \in Threads : \A c, d \in Cpus : At(t, c) /\ At(t, d) => c = d
  /\ \A t \in Threads : sched_state[t].state = "Ready" <=> \E c \in Cpus : At(t, c)

(* sched_state.cpu, written by ready and by do_load_balance and never by    *)
(* switch, names the CPU whose queue holds the thread or that runs it.      *)
CpuFieldCurrent ==
  \A t \in Threads, c \in Cpus : At(t, c) => sched_state[t].cpu = c

(* None of the three expect("Ready queue is full") can fail, although the   *)
(* pushes never check: the thread table is what bounds the queues.          *)
ReadyQueueNeverFull == \A c \in Cpus : pc[c] # "panic"

(* A thread another CPU may pick up has its registers saved, and so has the *)
(* one an interrupt is about to return to; the registers in the struct of   *)
(* a thread that executes are stale.                                        *)
ResumesFromSavedRegs ==
  /\ \A t \in Threads, c \in Cpus : Queued(t, c) => t \in saved
  /\ \A c \in Cpus :
       /\ pc[c] \in Handler => thread_addr[c] \in saved
       /\ pc[c] = "run" => thread_addr[c] \notin saved

(* timer_handler runs on the stack of the thread it interrupted, and no     *)
(* other CPU executes on that stack before the interrupt returns.           *)
StackExclusive ==
  \A c, d \in Cpus : c # d /\ stack[c] \in Threads => stack[c] # stack[d]

(* "move half of the imbalance from the busier CPU to the less busy one":   *)
(* a thread changes CPU only from a queue at least two longer, without the  *)
(* direction of the imbalance turning round, and only a waiting thread does.*)
MigrationHalvesImbalance ==
  [][\A t \in Threads : \A src, dst \in Cpus :
       sched_state[t].cpu = src /\ sched_state'[t].cpu = dst /\ src # dst =>
         /\ Queued(t, src) /\ Queued(t, dst)'
         /\ Len(ready_queue[src]) - Len(ready_queue[dst]) >= 2
         /\ Len(ready_queue'[src]) - Len(ready_queue'[dst]) \in {0, 1}]_vars

(* Every thread that waits in a ready queue is run, although balancing moves *)
(* it between queues, to CPUs that are still booting too.                    *)
QueuedThreadRuns ==
  \A t \in Threads :
    (\E c \in Cpus : Queued(t, c)) ~> (\E c \in Cpus : pc[c] = "run" /\ stack[c] = t)

(* "avoids oscillations", "after threads are balanced, they don't move much":*)
(* with no more than TableCap threads, migration stops for good.             *)
MigrationStops ==
  <>[][\A t \in Threads : sched_state[t].cpu # NULL =>
          sched_state'[t].cpu = sched_state[t].cpu]_vars
=============================================================================
