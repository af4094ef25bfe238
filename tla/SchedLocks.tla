----------------------------- MODULE SchedLocks -----------------------------
(***************************************************************************)
(* The critical sections that Scheduler takes in one step, with the locks   *)
(* of sched/mod.rs and sched/thread.rs asked for and obtained one by one    *)
(* and the shared data changed piece by piece in between.  It implements    *)
(* Scheduler, and no CPUs wait for each other in a circle.                  *)
(*                                                                         *)
(* What SpinLock shows is used here: a lock has one holder, and a CPU is    *)
(* not interrupted from the call of lock() to the drop of the guard.  The   *)
(* locks of CPUS and of the frame allocator are left out: nothing is held   *)
(* when they are taken and nothing taken while they are held.               *)
(***************************************************************************)
EXTENDS Scheduler

TableLock == <<"table", 0>>        \* GLOBAL_THREAD_TABLE
TerminalLock == <<"terminal", 0>>  \* GLOBAL_TERMINAL
StateLock(t) == <<"state", t>>     \* Thread::sched_state
QueueLock(c) == <<"queue", c>>     \* TlsData::ready_queue

LockNames == {TableLock, TerminalLock} \cup {StateLock(t) : t \in Threads} \cup {QueueLock(c) : c \in Cpus}

(* do_load_balance: from, to, to_move left, the thread popped and not pushed *)
(* yet, and the two queues as they were when it was called.                  *)
LoopRecords == [src : Cpus, dst : Cpus, left : Nat, thread : Threads \cup {NULL},
                before : UNION {[D -> Seq(Threads)] : D \in SUBSET Cpus}]

ASSUME LocksAssumption == NULL \notin LockNames /\ NULL \notin LoopRecords

VARIABLES
  held,    \* the locks each CPU has
  want,    \* the lock it spins for, or NULL
  at,      \* where it is in a critical section; "out" of one
  moving   \* what do_load_balance has to do still, NULL outside of its loop

lockVars == <<held, want, at, moving>>

LocksInit ==
  /\ Init
  /\ held = [c \in Cpus |-> {}]
  /\ want = [c \in Cpus |-> NULL]
  /\ at = [c \in Cpus |-> "start"]
  /\ moving = [c \in Cpus |-> NULL]

(* Control passes from one label to another, where lock l is asked for.     *)
Step(c, from, to, l) ==
  /\ at[c] = from
  /\ want[c] = NULL
  /\ at' = [at EXCEPT ![c] = to]
  /\ want' = [want EXCEPT ![c] = l]

KeepLocks == UNCHANGED <<held, moving>>
DropLocks(c) == held' = [held EXCEPT ![c] = {}] /\ UNCHANGED moving

(* The compare_exchange that ends the spin.                                 *)
Acquire(c) ==
  /\ want[c] # NULL
  /\ \A d \in Cpus : want[c] \notin held[d]
  /\ held' = [held EXCEPT ![c] = @ \cup {want[c]}]
  /\ want' = [want EXCEPT ![c] = NULL]
  /\ UNCHANGED <<vars, at, moving>>

-----------------------------------------------------------------------------
(* common_entry prints before the CPU is set up.                            *)

Greet(c) == Step(c, "start", "greet", TerminalLock) /\ UNCHANGED vars /\ KeepLocks

Greeted(c) == Step(c, "greet", "out", NULL) /\ UNCHANGED vars /\ DropLocks(c)

(* The steps of Scheduler that hold no lock modelled here.                  *)
Unlocked(c) ==
  /\ at[c] = "out"
  /\ \/ Boot(c) \/ TimerInterrupt(c) \/ Pick(c) \/ TimerReturn(c)
  /\ UNCHANGED lockVars

-----------------------------------------------------------------------------
(* spawn_raw and ready *)

AddCall(c) ==
  /\ MaySpawn(c)
  /\ spawning[Caller(c)] = NULL
  /\ Step(c, "out", "add", TableLock)
  /\ UNCHANGED vars /\ KeepLocks

AddLocked(c) ==
  /\ Step(c, "add", "out", NULL)
  /\ \/ \E t \in Threads : AddThread(c, t)
     \/ table = Threads /\ UNCHANGED vars
  /\ DropLocks(c)

ReadyCall(c) ==
  /\ MaySpawn(c)
  /\ spawning[Caller(c)] # NULL
  /\ Step(c, "out", "lookup", TableLock)
  /\ UNCHANGED vars /\ KeepLocks

(* get_thread_mut found the thread, ready() locks its state.                *)
ReadyState(c) ==
  /\ Step(c, "lookup", "mark", StateLock(spawning[Caller(c)]))
  /\ UNCHANGED vars /\ KeepLocks

ReadyMark(c) ==
  /\ Step(c, "mark", "push", QueueLock(c))
  /\ sched_state' = [sched_state EXCEPT ![spawning[Caller(c)]] = [cpu |-> c, state |-> "Ready"]]
  /\ UNCHANGED <<online, ready_queue, thread_addr, table, saved, spawning, stack, pc, other_cpu, lapic>>
  /\ KeepLocks

ReadyPush(c) == Step(c, "push", "out", NULL) /\ Ready(c) /\ DropLocks(c)

-----------------------------------------------------------------------------
(* switch *)

SwitchCall(c) ==
  /\ pc[c] = "switch"
  /\ Step(c, "out", "switch", QueueLock(c))
  /\ UNCHANGED vars /\ KeepLocks

SwitchLocked(c) == Step(c, "switch", "out", NULL) /\ Switch(c) /\ DropLocks(c)

-----------------------------------------------------------------------------
(* maybe_load_balance *)

OwnFirst(c, d) == <<c, d>>
IdOrder(c, d) == IF c < d THEN <<c, d>> ELSE <<d, c>>

BalanceFirst(c) ==
  /\ pc[c] = "balance"
  /\ Step(c, "out", "second", QueueLock(IdOrder(c, other_cpu[c])[1]))
  /\ UNCHANGED vars /\ KeepLocks

OneQueueLocked(c) == NULL
SecondQueue(c) == QueueLock(IdOrder(c, other_cpu[c])[2])

BalanceSecond(c) ==
  /\ at[c] = "second"
  /\ Step(c, "second", "compare", SecondQueue(c))
  /\ UNCHANGED vars /\ KeepLocks

(* "balanced enough": both guards are dropped again.                        *)
BalancedEnough(c) ==
  /\ Step(c, "compare", "out", NULL)
  /\ Len(ready_queue[c]) - Len(ready_queue[other_cpu[c]]) \in -1..1
  /\ Balance(c)
  /\ DropLocks(c)

StartMoving(c, src, dst) ==
  /\ Step(c, "compare", "pop", NULL)
  /\ {src, dst} = {c, other_cpu[c]}
  /\ Len(ready_queue[src]) - Len(ready_queue[dst]) > 1
  /\ moving' = [moving EXCEPT ![c] =
       [src |-> src, dst |-> dst, left |-> ToMove(Len(ready_queue[src]) - Len(ready_queue[dst])),
        thread |-> NULL, before |-> [q \in {src, dst} |-> ready_queue[q]]]]
  /\ UNCHANGED <<vars, held>>

Pop(c) ==
  LET m == moving[c] IN
  /\ Step(c, "pop", "move", StateLock(Head(ready_queue[m.src])))
  /\ ready_queue' = [ready_queue EXCEPT ![m.src] = Tail(@)]
  /\ moving' = [moving EXCEPT ![c].thread = Head(ready_queue[m.src])]
  /\ UNCHANGED <<online, thread_addr, sched_state, table, saved, spawning, stack, pc, other_cpu, lapic, held>>

(* sched_state.cpu is set, its guard dropped, and the thread pushed (there   *)
(* is room: ReadyQueueNeverFull, a theorem about Scheduler).                 *)
MoveThread(c) ==
  LET m == moving[c] IN
  /\ sched_state' = [sched_state EXCEPT ![m.thread].cpu = MovedCpu(m.src, m.dst)]
  /\ ready_queue' = [ready_queue EXCEPT ![m.dst] = Append(@, m.thread)]
  /\ held' = [held EXCEPT ![c] = @ \ {StateLock(m.thread)}]
  /\ UNCHANGED <<online, thread_addr, table, saved, spawning, stack, lapic>>

MoveOne(c) ==
  /\ at[c] = "move" /\ moving[c].left > 1
  /\ Step(c, "move", "pop", NULL)
  /\ MoveThread(c)
  /\ moving' = [moving EXCEPT ![c].left = @ - 1]
  /\ UNCHANGED <<pc, other_cpu>>

(* After the last one, println! with both queues still locked.              *)
MoveLast(c) ==
  /\ at[c] = "move" /\ moving[c].left = 1
  /\ Step(c, "move", "print", TerminalLock)
  /\ MoveThread(c)
  /\ moving' = [moving EXCEPT ![c] = NULL]
  /\ Goto(c, "exit")
  /\ other_cpu' = [other_cpu EXCEPT ![c] = NULL]

Printed(c) == Step(c, "print", "out", NULL) /\ UNCHANGED vars /\ DropLocks(c)

-----------------------------------------------------------------------------

LocksNext ==
  \E c \in Cpus :
    \/ Acquire(c)
    \/ Greet(c) \/ Greeted(c) \/ Unlocked(c)
    \/ AddCall(c) \/ AddLocked(c)
    \/ ReadyCall(c) \/ ReadyState(c) \/ ReadyMark(c) \/ ReadyPush(c)
    \/ SwitchCall(c) \/ SwitchLocked(c)
    \/ BalanceFirst(c) \/ BalanceSecond(c) \/ BalancedEnough(c)
    \/ \E src, dst \in Cpus : StartMoving(c, src, dst)
    \/ Pop(c) \/ MoveOne(c) \/ MoveLast(c) \/ Printed(c)

LocksSpec == LocksInit /\ [][LocksNext]_<<vars, lockVars>>

-----------------------------------------------------------------------------
(* Properties *)

WaitsFor(c, d) == want[c] # NULL /\ want[c] \in held[d]

(* "To avoid deadlocks, lock in cpu_id order": no set of CPUs waits for one *)
(* another - the two that balance with each other, nor a spawn, which holds *)
(* a thread's state when it asks for a queue, and a balancing that asks for *)
(* a state with queues held, nor anyone on itself.                          *)
NoCircularWait ==
  \A S \in (SUBSET Cpus) \ {{}} : \E c \in S : \A d \in S : ~WaitsFor(c, d)

(* The thread being readied is in no queue, so its state is not one that    *)
(* do_load_balance asks for.                                                *)
Kind(l) ==
  CASE l = TableLock -> 0
    [] l[1] = "state" -> IF \E u \in DOMAIN spawning : spawning[u] = l[2] THEN 1 ELSE 3
    [] l[1] = "queue" -> 2
    [] OTHER -> 4

Before(l, m) == Kind(l) < Kind(m) \/ (Kind(l) = 2 /\ Kind(m) = 2 /\ l[2] < m[2])

(* The order behind it: each lock is asked for after those that are held,    *)
(* in an order in which no lock comes before itself.  That keeps any number  *)
(* of CPUs out of a circle, not only those of a run.                         *)
LockOrder ==
  \A c \in Cpus : want[c] # NULL => \A l \in held[c] : Before(l, want[c])

(* In the loop of do_load_balance, and between ready()'s two writes, others *)
(* see the state before.                                                    *)
InLoop(c) == moving[c] # NULL

Moves(c, q) == InLoop(c) /\ q \in {moving[c].src, moving[c].dst}
Carries(c, t) == InLoop(c) /\ Holds(moving[c].before[moving[c].src], t)
Pushes(c, t) == at[c] = "push" /\ spawning[Caller(c)] = t

QueueSeen(q) ==
  IF \E c \in Cpus : Moves(c, q)
  THEN moving[CHOOSE c \in Cpus : Moves(c, q)].before[q]
  ELSE ready_queue[q]

StateSeen(t) ==
  IF \E c \in Cpus : Pushes(c, t)
  THEN [cpu |-> NULL, state |-> "Born"]
  ELSE IF \E c \in Cpus : Carries(c, t)
  THEN [cpu |-> moving[CHOOSE c \in Cpus : Carries(c, t)].src, state |-> "Ready"]
  ELSE sched_state[t]

QueuesSeen == [c \in Cpus |-> QueueSeen(c)]
StatesSeen == [t \in Threads |-> StateSeen(t)]

Coarse == INSTANCE Scheduler WITH ready_queue <- QueuesSeen, sched_state <- StatesSeen

(* The locks make each critical section atomic: what the CPUs do piece by   *)
(* piece is a behaviour of Scheduler.                                       *)
SectionsAtomic == Coarse!Spec
=============================================================================
