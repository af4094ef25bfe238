--------------------------- MODULE SchedLocksProofs ---------------------------
(***************************************************************************)
(* Proofs about SchedLocks for any number of CPUs and threads: the locks    *)
(* make the critical sections atomic, so that what the CPUs do piece by     *)
(* piece is a behaviour of Scheduler; locks are asked for in one order; and *)
(* no CPUs wait for one another in a circle.                                *)
(***************************************************************************)
EXTENDS SchedLocks, SequenceTheorems, WellFoundedInduction, TLAPS

(* Scheduler as the CPUs see it that hold no lock, with its theorems.        *)
Seen == INSTANCE SchedulerProofs WITH ready_queue <- QueuesSeen, sched_state <- StatesSeen

-----------------------------------------------------------------------------
(* The inductive invariant *)

Labels == {"start", "greet", "out", "add", "lookup", "mark", "push",
           "switch", "second", "compare", "pop", "move", "print"}

ThreadState == [cpu : Cpus \cup {NULL}, state : {"Born", "Ready"}]

(* The two values of sched_state that Scheduler reaches.                     *)
NotReadied == [cpu |-> NULL, state |-> "Born"]
ReadyOn(c) == [cpu |-> c, state |-> "Ready"]

LocksTypeOK ==
  /\ at \in [Cpus -> Labels]
  /\ want \in [Cpus -> LockNames \cup {NULL}]
  /\ held \in [Cpus -> SUBSET LockNames]
  /\ moving = [c \in Cpus |-> moving[c]]
  /\ ready_queue \in [Cpus -> Seq(Threads)]
  /\ sched_state \in [Threads -> ThreadState]

OneHolder == \A c, d \in Cpus : \A l \in held[c] : l \in held[d] => c = d

(* The CPU spins for l with the locks H, or has l too.                       *)
Waits(c, H, l) ==
  \/ held[c] = H /\ want[c] = l
  \/ held[c] = H \cup {l} /\ want[c] = NULL

First(c) == IdOrder(c, other_cpu[c])[1]
Second(c) == IdOrder(c, other_cpu[c])[2]

(* What a CPU has and wants at each label.                                   *)
Sections(c) ==
  /\ at[c] \in {"start", "out"} => held[c] = {} /\ want[c] = NULL
  /\ at[c] = "greet" => Waits(c, {}, TerminalLock)
  /\ at[c] \in {"add", "lookup"} => Waits(c, {}, TableLock)
  /\ at[c] = "mark" => Waits(c, {TableLock}, StateLock(spawning[Caller(c)]))
  /\ at[c] = "push" => Waits(c, {TableLock, StateLock(spawning[Caller(c)])}, QueueLock(c))
  /\ at[c] = "switch" => Waits(c, {}, QueueLock(c))
  /\ at[c] = "second" => Waits(c, {}, QueueLock(First(c)))
  /\ at[c] = "compare" => Waits(c, {QueueLock(First(c))}, QueueLock(Second(c)))
  /\ at[c] = "pop" => held[c] = {QueueLock(c), QueueLock(other_cpu[c])} /\ want[c] = NULL
  /\ at[c] = "move" => Waits(c, {QueueLock(c), QueueLock(other_cpu[c])}, StateLock(moving[c].thread))
  /\ at[c] = "print" => \E d \in Cpus : Waits(c, {QueueLock(c), QueueLock(d)}, TerminalLock)

(* Where Scheduler is at each label.                                         *)
Control(c) ==
  /\ at[c] = "start" => pc[c] = "off"
  /\ at[c] = "add" => MaySpawn(c) /\ spawning[Caller(c)] = NULL
  /\ at[c] \in {"lookup", "mark", "push"} => MaySpawn(c) /\ spawning[Caller(c)] # NULL
  /\ at[c] = "switch" => pc[c] = "switch"
  /\ at[c] \in {"second", "compare", "pop", "move"} => pc[c] = "balance"
  /\ at[c] = "print" => pc[c] = "exit"

(* The loop of do_load_balance has pushed the first k of the threads that it *)
(* found in the longer queue; the rest of them begins at next.               *)
LoopAt(m, k, next) ==
  LET from == m.before[m.src]
      to == m.before[m.dst]
  IN
  /\ ready_queue[m.dst] = to \o SubSeq(from, 1, k)
  /\ ready_queue[m.src] = SubSeq(from, next, Len(from))
  /\ \A i \in 1..Len(from) :
       sched_state[from[i]] = ReadyOn(IF i <= k THEN m.dst ELSE m.src)

Total(m) == ToMove(Len(m.before[m.src]) - Len(m.before[m.dst]))
Pushed(m) == Total(m) - m.left

(* In "move" one thread is popped and not pushed yet.                        *)
Loop(c) ==
  LET m == moving[c] IN
  /\ InLoop(c) <=> at[c] \in {"pop", "move"}
  /\ InLoop(c) =>
       /\ m \in LoopRecords
       /\ m.src \in Cpus /\ m.dst \in Cpus /\ m.src # m.dst
       /\ {m.src, m.dst} = {c, other_cpu[c]}
       /\ m.before[m.src] \in Seq(Threads) /\ m.before[m.dst] \in Seq(Threads)
       /\ Len(m.before[m.src]) - Len(m.before[m.dst]) > 1
       /\ m.left \in 1..Total(m)
       /\ at[c] = "pop" => LoopAt(m, Pushed(m), Pushed(m) + 1)
       /\ at[c] = "move" => /\ LoopAt(m, Pushed(m), Pushed(m) + 2)
                            /\ m.thread = m.before[m.src][Pushed(m) + 1]

Local(c) == Sections(c) /\ Control(c) /\ Loop(c)

(* A thread that one loop moves is neither moved by another nor readied.     *)
LoopsApart ==
  \A c \in Cpus, t \in Threads : Carries(c, t) =>
    /\ \A d \in Cpus : Carries(d, t) => c = d
    /\ \A d \in Cpus : ~Pushes(d, t)

LocksInv ==
  /\ LocksTypeOK
  /\ OneHolder
  /\ \A c \in Cpus : Local(c)
  /\ LoopsApart
  /\ Seen!SchedulerInv

-----------------------------------------------------------------------------
(* Names *)

(* Different locks have different names.                                     *)
LEMMA LockNamesLemma ==
  /\ TableLock \in LockNames /\ TerminalLock \in LockNames /\ TableLock # TerminalLock
  /\ \A t \in Threads : StateLock(t) \in LockNames
  /\ \A c \in Cpus : QueueLock(c) \in LockNames
  /\ \A t : StateLock(t) # TableLock /\ StateLock(t) # TerminalLock
  /\ \A c : QueueLock(c) # TableLock /\ QueueLock(c) # TerminalLock
  /\ \A t, u : StateLock(t) = StateLock(u) => t = u
  /\ \A c, d : QueueLock(c) = QueueLock(d) => c = d
  /\ \A t, c : StateLock(t) # QueueLock(c)
  /\ NULL \notin LockNames
BY LocksAssumption DEF LockNames, TableLock, TerminalLock, StateLock, QueueLock

LEMMA ThreadNamesLemma ==
  /\ \A c \in Cpus : Idle(c) \in AnyThread /\ Idle(c) \notin Threads
  /\ \A c, d \in Cpus : Idle(c) = Idle(d) => c = d
  /\ \A t \in Threads : t \in AnyThread /\ t # NULL
  /\ \A c \in Cpus : c # NULL
  /\ NULL \notin AnyThread
BY SchedulerAssumption DEF Idle, IdleThreads, AnyThread, Threads

LEMMA ThreadStateLemma ==
  /\ NotReadied \in ThreadState /\ \A c \in Cpus : ReadyOn(c) \in ThreadState
  /\ \A c : ReadyOn(c) # NotReadied /\ ReadyOn(c).cpu = c /\ ReadyOn(c).state = "Ready"
  /\ \A c, d : [ReadyOn(c) EXCEPT !.cpu = d] = ReadyOn(d)
  /\ \A s \in ThreadState : /\ s.state = "Ready" => s = ReadyOn(s.cpu)
                            /\ s.state = "Born" /\ s.cpu = NULL => s = NotReadied
BY DEF ThreadState, ReadyOn, NotReadied

(* The instance has the operators of Scheduler.                              *)
LEMMA SameOperators ==
  /\ Seen!Threads = Threads /\ Seen!AnyThread = AnyThread /\ Seen!Handler = Handler
  /\ \A c : Seen!Idle(c) = Idle(c)
  /\ \A q, t : Seen!Holds(q, t) <=> Holds(q, t)
  /\ \A q : Seen!NoDuplicates(q) <=> NoDuplicates(q)
  /\ \A n : Seen!ToMove(n) = ToMove(n)
  /\ \A c : Seen!Caller(c) = Caller(c) /\ (Seen!MaySpawn(c) <=> MaySpawn(c))
<1>1. /\ Seen!Threads = Threads /\ Seen!AnyThread = AnyThread /\ Seen!Handler = Handler
      /\ \A c : Seen!Idle(c) = Idle(c)
  BY DEF Seen!Threads, Threads, Seen!AnyThread, AnyThread, Seen!IdleThreads, IdleThreads,
         Seen!Idle, Idle, Seen!Handler, Handler
<1>2. \A q, t : Seen!Holds(q, t) <=> Holds(q, t)
  BY DEF Seen!Holds, Holds
<1>3. \A q : Seen!NoDuplicates(q) <=> NoDuplicates(q)
  BY DEF Seen!NoDuplicates, NoDuplicates
<1>4. \A n : Seen!ToMove(n) = ToMove(n)
  BY DEF Seen!ToMove, ToMove
<1>5. \A c : Seen!Caller(c) = Caller(c) /\ (Seen!MaySpawn(c) <=> MaySpawn(c))
  BY <1>1 DEF Seen!Caller, Caller, Seen!MaySpawn, MaySpawn
<1> QED  BY <1>1, <1>2, <1>3, <1>4, <1>5

-----------------------------------------------------------------------------
(* What the theorems about Scheduler say of the seen queues and states.      *)

SeenTypes ==
  /\ online \subseteq Cpus
  /\ QueuesSeen \in [Cpus -> Seq(Threads)]
  /\ thread_addr \in [Cpus -> AnyThread \cup {NULL}]
  /\ StatesSeen \in [Threads -> ThreadState]
  /\ table \subseteq Threads
  /\ spawning \in [AnyThread -> Threads \cup {NULL}]
  /\ pc \in [Cpus -> {"off", "boot", "run", "panic"} \cup Handler]
  /\ other_cpu \in [Cpus -> Cpus \cup {NULL}]

SeenPlaces ==
  /\ \A c \in Cpus : Len(QueuesSeen[c]) <= TableCap
  /\ \A t \in Threads, c, d \in Cpus : Holds(QueuesSeen[c], t) /\ Holds(QueuesSeen[d], t) => c = d
  /\ \A c, d \in Cpus : thread_addr[c] \in Threads /\ thread_addr[d] = thread_addr[c] => c = d
  /\ \A t \in Threads, c \in Cpus :
       Holds(QueuesSeen[c], t) => StatesSeen[t] = ReadyOn(c) /\ t \in table
  /\ \A c \in Cpus : NoDuplicates(QueuesSeen[c])

SeenSpawns ==
  \A x \in AnyThread : spawning[x] # NULL =>
    /\ spawning[x] \in table
    /\ StatesSeen[spawning[x]] = NotReadied
    /\ \A c \in Cpus : ~Holds(QueuesSeen[c], spawning[x])
    /\ \A y \in AnyThread : spawning[y] = spawning[x] => x = y

SeenCpus ==
  \A c \in Cpus :
    /\ c \in online => pc[c] # "off"
    /\ pc[c] = "off" => QueuesSeen[c] = <<>>
    /\ pc[c] \notin {"off", "boot"} => thread_addr[c] \in Threads \cup {Idle(c)}
    /\ pc[c] = "balance" => other_cpu[c] \in online \ {c}

LEMMA SeenLemma == Seen!SchedulerInv => SeenTypes /\ SeenPlaces /\ SeenSpawns /\ SeenCpus
<1> SUFFICES ASSUME Seen!SchedulerInv PROVE SeenTypes /\ SeenPlaces /\ SeenSpawns /\ SeenCpus
  OBVIOUS
<1> USE DEF Seen!SchedulerInv
<1>1. SeenTypes
  BY SameOperators DEF Seen!TypeOK, SeenTypes, ThreadState
<1>2. \A t \in Threads, c \in Cpus :
        /\ Seen!Queued(t, c) <=> Holds(QueuesSeen[c], t)
        /\ Seen!At(t, c) <=> Holds(QueuesSeen[c], t) \/ thread_addr[c] = t
  BY SameOperators DEF Seen!Queued, Seen!At
<1>3. \A c \in Cpus : NoDuplicates(QueuesSeen[c])
  BY SameOperators DEF Seen!PlacedOnce
<1>4. \A c \in Cpus : Len(QueuesSeen[c]) <= TableCap
  BY <1>1, <1>3, SameOperators, Seen!QueueBoundLemma, SchedulerAssumption DEF SeenTypes
<1>5. \A t \in Threads, c, d \in Cpus : Seen!At(t, c) /\ Seen!At(t, d) => c = d
  BY SameOperators DEF Seen!PlacedOnce
<1>6. ASSUME NEW t \in Threads, NEW c \in Cpus, Seen!At(t, c)
      PROVE  StatesSeen[t] = ReadyOn(c) /\ t \in table
  <2>1. StatesSeen[t].state = "Ready"
    BY <1>6, SameOperators DEF Seen!PlacedOnce
  <2>2. StatesSeen[t].cpu = c
    BY <1>6, SameOperators DEF Seen!CpuFieldCurrent
  <2>3. t \in table
    BY <2>1, SameOperators DEF Seen!SpawnInv
  <2> QED  BY <1>1, <2>1, <2>2, <2>3 DEF SeenTypes, ThreadState, ReadyOn
<1>7. SeenPlaces
  BY <1>2, <1>3, <1>4, <1>5, <1>6 DEF SeenPlaces
<1>8. SeenSpawns
  <2> SUFFICES ASSUME NEW x \in AnyThread, spawning[x] # NULL
               PROVE  /\ spawning[x] \in table
                      /\ StatesSeen[spawning[x]] = NotReadied
                      /\ \A c \in Cpus : ~Holds(QueuesSeen[c], spawning[x])
                      /\ \A y \in AnyThread : spawning[y] = spawning[x] => x = y
    BY DEF SeenSpawns
  <2>1. /\ spawning[x] \in table
        /\ StatesSeen[spawning[x]].state = "Born"
        /\ \A y \in AnyThread : spawning[y] = spawning[x] => x = y
    BY SameOperators DEF Seen!SpawnInv
  <2>2. spawning[x] \in Threads
    BY <1>1 DEF SeenTypes
  <2>3. StatesSeen[spawning[x]].cpu = NULL
    BY <2>1, <2>2, SameOperators DEF Seen!SpawnInv
  <2>4. StatesSeen[spawning[x]] = NotReadied
    BY <1>1, <2>1, <2>2, <2>3 DEF SeenTypes, ThreadState, NotReadied
  <2>5. \A c \in Cpus : ~Holds(QueuesSeen[c], spawning[x])
    BY <1>7, <2>2, <2>4, ThreadStateLemma DEF SeenPlaces
  <2> QED  BY <2>1, <2>4, <2>5
<1>9. SeenCpus
  BY SameOperators DEF Seen!CpuInv, SeenCpus
<1> QED  BY <1>1, <1>7, <1>8, <1>9

-----------------------------------------------------------------------------
(* What is seen while a loop is at work.                                     *)

LocalInv == OneHolder /\ \A c \in Cpus : Local(c)

QueuesKnown ==
  /\ \A c, q \in Cpus : Moves(c, q) => QueueLock(q) \in held[c] /\ QueuesSeen[q] = moving[c].before[q]
  /\ \A q \in Cpus : (\A c \in Cpus : ~Moves(c, q)) => QueuesSeen[q] = ready_queue[q]

StatesKnown ==
  /\ \A c \in Cpus, t \in Threads : Pushes(c, t) => StatesSeen[t] = NotReadied
  /\ \A c \in Cpus, t \in Threads :
       Carries(c, t) => StatesSeen[t] = ReadyOn(moving[c].src)
  /\ \A t \in Threads :
       (\A c \in Cpus : ~Pushes(c, t) /\ ~Carries(c, t)) => StatesSeen[t] = sched_state[t]

(* Both queues are locked in the loop, so no two loops have one in common.   *)
LEMMA QueuesKnownLemma == LocalInv => QueuesKnown
<1> SUFFICES ASSUME LocalInv PROVE QueuesKnown
  OBVIOUS
<1>1. ASSUME NEW c \in Cpus, NEW q \in Cpus, Moves(c, q)
      PROVE  QueueLock(q) \in held[c]
  <2>1. at[c] \in {"pop", "move"} /\ q \in {c, other_cpu[c]}
    BY <1>1 DEF LocalInv, Local, Loop, Moves
  <2>2. {QueueLock(c), QueueLock(other_cpu[c])} \subseteq held[c]
    BY <2>1 DEF LocalInv, Local, Sections, Waits
  <2> QED  BY <2>1, <2>2
<1>2. ASSUME NEW c \in Cpus, NEW q \in Cpus, Moves(c, q)
      PROVE  QueuesSeen[q] = moving[c].before[q]
  <2>1. PICK e : e = CHOOSE d \in Cpus : Moves(d, q)
    OBVIOUS
  <2>2. e \in Cpus /\ Moves(e, q)
    BY <1>2, <2>1
  <2>3. e = c
    BY <1>1, <1>2, <2>2 DEF LocalInv, OneHolder
  <2>4. QueueSeen(q) = moving[e].before[q]
    BY <1>2, <2>1 DEF QueueSeen
  <2> QED  BY <2>3, <2>4 DEF QueuesSeen
<1>3. ASSUME NEW q \in Cpus, \A c \in Cpus : ~Moves(c, q)
      PROVE  QueuesSeen[q] = ready_queue[q]
  BY <1>3 DEF QueuesSeen, QueueSeen
<1> QED  BY <1>1, <1>2, <1>3 DEF QueuesKnown

LEMMA StatesKnownLemma == LoopsApart => StatesKnown
<1> SUFFICES ASSUME LoopsApart PROVE StatesKnown
  OBVIOUS
<1>1. ASSUME NEW c \in Cpus, NEW t \in Threads, Carries(c, t)
      PROVE  StatesSeen[t] = ReadyOn(moving[c].src)
  <2>1. PICK e : e = CHOOSE d \in Cpus : Carries(d, t)
    OBVIOUS
  <2>2. e \in Cpus /\ Carries(e, t)
    BY <1>1, <2>1
  <2>3. e = c /\ \A d \in Cpus : ~Pushes(d, t)
    BY <1>1, <2>2 DEF LoopsApart
  <2>4. StateSeen(t) = ReadyOn(moving[e].src)
    BY <1>1, <2>1, <2>3 DEF StateSeen, ReadyOn
  <2> QED  BY <2>3, <2>4 DEF StatesSeen
<1> QED  BY <1>1 DEF StatesKnown, StatesSeen, StateSeen, NotReadied

LEMMA MovesLemma ==
  ASSUME LocksInv, NEW c \in Cpus, NEW q \in Cpus, Moves(c, q)
  PROVE  /\ at[c] \in {"pop", "move"} /\ q \in {c, other_cpu[c]}
         /\ other_cpu[c] \in online \ {c}
         /\ QueueLock(q) \in held[c]
         /\ QueuesSeen[q] = moving[c].before[q]
<1>1. at[c] \in {"pop", "move"} /\ q \in {moving[c].src, moving[c].dst}
      /\ {moving[c].src, moving[c].dst} = {c, other_cpu[c]}
  BY DEF LocksInv, Local, Loop, Moves
<1>2. pc[c] = "balance"
  BY <1>1 DEF LocksInv, Local, Control
<1> QED  BY <1>1, <1>2, SeenLemma, QueuesKnownLemma DEF LocksInv, SeenCpus, QueuesKnown, LocalInv

LEMMA CarriesLemma ==
  ASSUME LocksInv, NEW c \in Cpus, NEW t \in Threads, Carries(c, t)
  PROVE  moving[c].src \in Cpus /\ Moves(c, moving[c].src) /\ Holds(QueuesSeen[moving[c].src], t)
<1>1. moving[c].src \in Cpus /\ Moves(c, moving[c].src)
  BY DEF LocksInv, Local, Loop, Moves, Carries
<1> QED  BY <1>1, MovesLemma DEF Carries

(* A CPU that has a queue, and is not in a loop, sees it as it is.           *)
LEMMA OwnQueue ==
  ASSUME LocksInv, NEW c \in Cpus, NEW q \in Cpus, QueueLock(q) \in held[c], ~InLoop(c)
  PROVE  (\A d \in Cpus : ~Moves(d, q)) /\ QueuesSeen[q] = ready_queue[q]
<1>1. \A d \in Cpus : ~Moves(d, q)
  BY MovesLemma DEF LocksInv, OneHolder, Moves
<1> QED  BY <1>1, QueuesKnownLemma DEF QueuesKnown, LocksInv, LocalInv

(* No two CPUs run the same caller of spawn.                                 *)
LEMMA CallersLemma ==
  ASSUME SeenTypes, SeenPlaces, NEW c \in Cpus, MaySpawn(c)
  PROVE  /\ Caller(c) \in AnyThread
         /\ \A d \in Cpus : MaySpawn(d) /\ Caller(d) = Caller(c) => c = d
BY ThreadNamesLemma DEF MaySpawn, Caller, SeenTypes, SeenPlaces

-----------------------------------------------------------------------------
(* Frames *)

(* What leaves a loop where it is.                                           *)
LEMMA LoopFrame ==
  ASSUME NEW d \in Cpus, Loop(d),
         at'[d] = at[d], moving'[d] = moving[d], other_cpu'[d] = other_cpu[d],
         \A q \in Cpus : Moves(d, q) => ready_queue'[q] = ready_queue[q],
         InLoop(d) => \A i \in 1..Len(moving[d].before[moving[d].src]) :
           sched_state'[moving[d].before[moving[d].src][i]] = sched_state[moving[d].before[moving[d].src][i]]
  PROVE  Loop(d)'
<1>1. CASE ~InLoop(d)
  BY <1>1 DEF Loop, InLoop
<1>2. CASE InLoop(d)
  <2>1. PICK m, k : m = moving[d] /\ k = Pushed(m)
    OBVIOUS
  <2>2. /\ at[d] \in {"pop", "move"}
        /\ m \in LoopRecords
        /\ m.src \in Cpus /\ m.dst \in Cpus /\ m.src # m.dst
        /\ {m.src, m.dst} = {d, other_cpu[d]}
        /\ m.before[m.src] \in Seq(Threads) /\ m.before[m.dst] \in Seq(Threads)
        /\ Len(m.before[m.src]) - Len(m.before[m.dst]) > 1
        /\ m.left \in 1..Total(m)
        /\ at[d] = "pop" => LoopAt(m, k, k + 1)
        /\ at[d] = "move" => LoopAt(m, k, k + 2) /\ m.thread = m.before[m.src][k + 1]
    BY <1>2, <2>1 DEF Loop
  <2>3. ready_queue'[m.src] = ready_queue[m.src] /\ ready_queue'[m.dst] = ready_queue[m.dst]
    BY <1>2, <2>1, <2>2 DEF Moves
  <2>4. ASSUME NEW j, LoopAt(m, k, j)
        PROVE  LoopAt(m, k, j)'
    <3>1. PICK from, to : from = m.before[m.src] /\ to = m.before[m.dst]
      OBVIOUS
    <3>2. /\ ready_queue[m.dst] = to \o SubSeq(from, 1, k)
          /\ ready_queue[m.src] = SubSeq(from, j, Len(from))
          /\ \A i \in 1..Len(from) : sched_state[from[i]] = ReadyOn(IF i <= k THEN m.dst ELSE m.src)
      BY <2>4, <3>1 DEF LoopAt
    <3>3. \A i \in 1..Len(from) : sched_state'[from[i]] = sched_state[from[i]]
      BY <1>2, <2>1, <3>1
    <3>4. /\ ready_queue'[m.dst] = to \o SubSeq(from, 1, k)
          /\ ready_queue'[m.src] = SubSeq(from, j, Len(from))
          /\ \A i \in 1..Len(from) : sched_state'[from[i]] = ReadyOn(IF i <= k THEN m.dst ELSE m.src)
      BY <2>3, <3>2, <3>3, Zenon
    <3> QED  BY <3>1, <3>4 DEF LoopAt
  <2>5. (Total(m) = Total(m)') /\ m = moving'[d] /\ InLoop(d)' /\ Pushed(m)' = k
    BY <1>2, <2>1 DEF Total, InLoop, Pushed
  <2> QED  BY <1>2, <2>2, <2>4, <2>5 DEF Loop
<1> QED  BY <1>1, <1>2

(* What a step of another CPU must leave alone.                              *)
LEMMA LocalFrame ==
  ASSUME NEW d \in Cpus, Local(d),
         at'[d] = at[d], want'[d] = want[d], held'[d] = held[d], moving'[d] = moving[d],
         pc'[d] = pc[d], thread_addr'[d] = thread_addr[d], other_cpu'[d] = other_cpu[d],
         MaySpawn(d) => spawning'[Caller(d)] = spawning[Caller(d)],
         \A q \in Cpus : Moves(d, q) => ready_queue'[q] = ready_queue[q],
         InLoop(d) => \A i \in 1..Len(moving[d].before[moving[d].src]) :
           sched_state'[moving[d].before[moving[d].src][i]] = sched_state[moving[d].before[moving[d].src][i]]
  PROVE  Local(d)'
<1>1. Caller(d)' = Caller(d) /\ (MaySpawn(d)' <=> MaySpawn(d))
  BY DEF Caller, MaySpawn
<1>2. Control(d)'
  BY <1>1 DEF Local, Control
<1>3. First(d)' = First(d) /\ Second(d)' = Second(d)
  BY DEF First, Second, IdOrder
<1>4. Sections(d)'
  BY <1>1, <1>3 DEF Local, Control, Sections, Waits
<1>5. Loop(d)'
  BY LoopFrame DEF Local
<1> QED  BY <1>2, <1>4, <1>5 DEF Local

LEMMA OthersFrame ==
  ASSUME LocksInv, NEW c \in Cpus,
         \A d \in Cpus : d # c =>
           /\ at'[d] = at[d] /\ want'[d] = want[d] /\ held'[d] = held[d] /\ moving'[d] = moving[d]
           /\ pc'[d] = pc[d] /\ thread_addr'[d] = thread_addr[d] /\ other_cpu'[d] = other_cpu[d]
           /\ MaySpawn(d) => spawning'[Caller(d)] = spawning[Caller(d)]
           /\ \A q \in Cpus : Moves(d, q) => ready_queue'[q] = ready_queue[q]
           /\ \A t \in Threads : Carries(d, t) => sched_state'[t] = sched_state[t]
  PROVE  \A d \in Cpus : d # c => Local(d)'
<1> SUFFICES ASSUME NEW d \in Cpus, d # c PROVE Local(d)'
  OBVIOUS
<1>1. ASSUME InLoop(d), NEW i \in 1..Len(moving[d].before[moving[d].src])
      PROVE  sched_state'[moving[d].before[moving[d].src][i]] = sched_state[moving[d].before[moving[d].src][i]]
  <2>1. PICK from, t : from = moving[d].before[moving[d].src] /\ t = from[i]
    OBVIOUS
  <2>2. from \in Seq(Threads)
    BY <1>1, <2>1 DEF LocksInv, Local, Loop
  <2>3. t \in Threads
    BY <1>1, <2>1, <2>2, ElementOfSeq
  <2>4. Carries(d, t)
    BY <1>1, <2>1 DEF Carries, Holds
  <2> QED  BY <2>1, <2>3, <2>4
<1> QED  BY <1>1, LocalFrame DEF LocksInv

(* Whether a CPU is between ready()'s two writes is its own business.        *)
LEMMA PushesFrame ==
  ASSUME LocksInv, NEW c \in Cpus,
         at[c] # "push", at'[c] # "push",
         \A d \in Cpus : d # c =>
           /\ at'[d] = at[d] /\ pc'[d] = pc[d] /\ thread_addr'[d] = thread_addr[d]
           /\ MaySpawn(d) => spawning'[Caller(d)] = spawning[Caller(d)]
  PROVE  \A d \in Cpus : \A t : Pushes(d, t)' <=> Pushes(d, t)
BY DEF LocksInv, Local, Control, Pushes, Caller

(* What is seen changes only with the loops, the queues and states, and who  *)
(* is between ready()'s two writes.                                          *)
LEMMA SameQueues ==
  ASSUME UNCHANGED <<moving, ready_queue>>
  PROVE  UNCHANGED QueuesSeen
BY DEF QueuesSeen, QueueSeen, Moves, InLoop

LEMMA SameState ==
  ASSUME UNCHANGED moving, NEW t \in Threads, sched_state'[t] = sched_state[t],
         \A d \in Cpus : Pushes(d, t)' <=> Pushes(d, t)
  PROVE  StatesSeen'[t] = StatesSeen[t]
<1>1. \A d : Carries(d, t)' <=> Carries(d, t)
  BY DEF Carries, InLoop
<1>2. StateSeen(t)' = StateSeen(t)
  <2>1. (\E d \in Cpus : Pushes(d, t))' <=> \E d \in Cpus : Pushes(d, t)
    OBVIOUS
  <2>2. PICK e : e = CHOOSE d \in Cpus : Carries(d, t)
    OBVIOUS
  <2>3. e = (CHOOSE d \in Cpus : Carries(d, t))'
    BY <2>2 DEF Carries, InLoop, Holds
  <2> QED  BY <1>1, <2>1, <2>2, <2>3 DEF StateSeen
<1> QED  BY <1>2 DEF StatesSeen

LEMMA SameStates ==
  ASSUME UNCHANGED <<moving, sched_state>>,
         \A d \in Cpus : \A t : Pushes(d, t)' <=> Pushes(d, t)
  PROVE  /\ UNCHANGED StatesSeen
         /\ LoopsApart => LoopsApart'
<1>1. \A t \in Threads : StatesSeen'[t] = StatesSeen[t]
  BY SameState
<1>2. LoopsApart => LoopsApart'
  BY DEF LoopsApart, Carries, InLoop
<1> QED  BY <1>1, <1>2 DEF StatesSeen

(* A queue that no loop has is seen as it is.                                *)
LEMMA QueueWrite ==
  ASSUME LocksTypeOK, UNCHANGED moving, NEW c \in Cpus, \A d \in Cpus : ~Moves(d, c),
         NEW x, ready_queue' = [ready_queue EXCEPT ![c] = x]
  PROVE  QueuesSeen' = [QueuesSeen EXCEPT ![c] = x]
<1>1. QueueSeen(c)' = x
  BY DEF QueueSeen, Moves, InLoop, LocksTypeOK
<1>2. ASSUME NEW q \in Cpus, q # c PROVE QueueSeen(q)' = QueueSeen(q)
  <2>1. ready_queue'[q] = ready_queue[q]
    BY <1>2 DEF LocksTypeOK
  <2> QED  BY <2>1 DEF QueueSeen, Moves, InLoop
<1> QED  BY <1>1, <1>2 DEF QueuesSeen

(* The theorem about Scheduler is applied to what is seen.                   *)
LEMMA SeenStep ==
  ASSUME LocksInv, NEW c \in Cpus, [Seen!Next]_(Seen!vars),
         LocksTypeOK', OneHolder', LoopsApart', Local(c)', \A d \in Cpus : d # c => Local(d)'
  PROVE  LocksInv'
<1>1. Seen!SchedulerInv'
  BY Seen!NextInv, SchedulerAssumption DEF LocksInv
<1> QED  BY <1>1 DEF LocksInv

-----------------------------------------------------------------------------
(* Steps that only ask for a lock, obtain one or drop some.                  *)

(* Nobody sees them.                                                         *)
LEMMA QuietSeen ==
  ASSUME UNCHANGED <<vars, moving>>,
         \A d \in Cpus : at'[d] = "push" <=> at[d] = "push"
  PROVE  /\ UNCHANGED Seen!vars
         /\ LoopsApart => LoopsApart'
<1>1. \A d \in Cpus : \A t : Pushes(d, t)' <=> Pushes(d, t)
  BY DEF vars, Pushes, Caller
<1>2. UNCHANGED <<moving, ready_queue, sched_state>>
  BY DEF vars
<1> QED  BY <1>1, <1>2, SameQueues, SameStates DEF vars, Seen!vars

(* They keep the invariant if they keep who holds what straight.             *)
LEMMA QuietStep ==
  ASSUME LocksInv, NEW c \in Cpus,
         UNCHANGED <<vars, moving>>,
         at' \in [Cpus -> Labels], want' \in [Cpus -> LockNames \cup {NULL}],
         held' \in [Cpus -> SUBSET LockNames],
         \A d \in Cpus : d # c => at'[d] = at[d] /\ want'[d] = want[d] /\ held'[d] = held[d],
         \/ at'[c] = at[c]
         \/ at[c] \notin {"pop", "move", "push"} /\ at'[c] \notin {"pop", "move", "push"},
         OneHolder', Sections(c)', Control(c)'
  PROVE  LocksInv' /\ UNCHANGED Seen!vars
<1>1. \A d \in Cpus : at'[d] = "push" <=> at[d] = "push"
  OBVIOUS
<1>2. UNCHANGED Seen!vars /\ LoopsApart'
  BY <1>1, QuietSeen DEF LocksInv
<1>3. Seen!SchedulerInv'
  BY <1>2, Seen!NextInv, SchedulerAssumption DEF LocksInv
<1>4. LocksTypeOK'
  BY DEF LocksInv, LocksTypeOK, vars
<1>5. Loop(c)'
  <2>1. CASE at'[c] = at[c]
    BY <2>1, LoopFrame DEF vars, LocksInv, Local
  <2>2. CASE at'[c] # at[c]
    BY <2>2 DEF vars, LocksInv, Local, Loop, InLoop
  <2> QED  BY <2>1, <2>2
<1>6. Local(c)'
  BY <1>5 DEF Local
<1>7. ASSUME NEW d \in Cpus, d # c PROVE Local(d)'
  BY <1>7, LocalFrame DEF vars, LocksInv
<1> QED  BY <1>2, <1>3, <1>4, <1>6, <1>7 DEF LocksInv

(* The parts of the invariant that the steps below need at their own CPU.    *)
LEMMA StepLemma ==
  ASSUME LocksInv, NEW c \in Cpus, NEW from, NEW to \in Labels, NEW l \in LockNames \cup {NULL},
         Step(c, from, to, l)
  PROVE  /\ at[c] = from /\ want[c] = NULL
         /\ at'[c] = to /\ want'[c] = l
         /\ at' \in [Cpus -> Labels] /\ want' \in [Cpus -> LockNames \cup {NULL}]
         /\ \A d \in Cpus : d # c => at'[d] = at[d] /\ want'[d] = want[d]
BY DEF Step, LocksInv, LocksTypeOK

(* Locks that are kept or dropped have one holder still.                     *)
LEMMA HeldLemma ==
  ASSUME LocksInv, NEW c \in Cpus, KeepLocks \/ DropLocks(c)
  PROVE  /\ UNCHANGED moving
         /\ held' \in [Cpus -> SUBSET LockNames]
         /\ \A d \in Cpus : d # c => held'[d] = held[d]
         /\ OneHolder'
         /\ KeepLocks => held'[c] = held[c]
         /\ DropLocks(c) => held'[c] = {}
BY DEF KeepLocks, DropLocks, LocksInv, LocksTypeOK, OneHolder

(* A lock that was free is obtained.                                         *)
LEMMA AcquireStep ==
  ASSUME LocksInv, NEW c \in Cpus, Acquire(c)
  PROVE  LocksInv' /\ UNCHANGED Seen!vars
<1>1. /\ want[c] # NULL /\ want[c] \in LockNames
      /\ \A d \in Cpus : want[c] \notin held[d]
      /\ held' = [held EXCEPT ![c] = held[c] \cup {want[c]}]
      /\ want' = [want EXCEPT ![c] = NULL]
      /\ UNCHANGED <<vars, at, moving>>
  BY DEF Acquire, LocksInv, LocksTypeOK
<1>2. /\ held' \in [Cpus -> SUBSET LockNames] /\ want' \in [Cpus -> LockNames \cup {NULL}]
      /\ at' \in [Cpus -> Labels]
      /\ held'[c] = held[c] \cup {want[c]} /\ want'[c] = NULL
      /\ \A d \in Cpus : d # c => at'[d] = at[d] /\ want'[d] = want[d] /\ held'[d] = held[d]
  BY <1>1 DEF LocksInv, LocksTypeOK
<1>3. OneHolder'
  BY <1>1, <1>2 DEF LocksInv, OneHolder
<1>4. Caller(c)' = Caller(c) /\ (MaySpawn(c)' <=> MaySpawn(c)) /\ First(c)' = First(c) /\ Second(c)' = Second(c)
  BY <1>1 DEF vars, Caller, MaySpawn, First, Second, IdOrder
<1>5. Control(c)'
  BY <1>1, <1>4 DEF vars, LocksInv, Local, Control
<1>6. Sections(c)'
  <2>1. ASSUME NEW H, NEW l, Waits(c, H, l)
        PROVE  Waits(c, H, l)'
    BY <1>1, <1>2, <2>1 DEF Waits
  <2> QED  BY <1>1, <1>2, <1>4, <2>1 DEF vars, LocksInv, Local, Sections
<1> QED  BY <1>1, <1>2, <1>3, <1>5, <1>6, QuietStep

(* println! of common_entry, and of do_load_balance.                         *)
LEMMA PrintStep ==
  ASSUME LocksInv, NEW c \in Cpus, Greet(c) \/ Greeted(c) \/ Printed(c)
  PROVE  LocksInv' /\ UNCHANGED Seen!vars
<1>1. PICK from \in {"start", "greet", "print"}, to \in {"greet", "out"}, l \in {TerminalLock, NULL} :
        /\ Step(c, from, to, l) /\ UNCHANGED vars /\ (KeepLocks \/ DropLocks(c))
        /\ to = "greet" => from = "start" /\ l = TerminalLock /\ KeepLocks
        /\ to = "out" => l = NULL /\ DropLocks(c)
  BY DEF Greet, Greeted, Printed
<1>2. to \in Labels /\ l \in LockNames \cup {NULL}
  BY LockNamesLemma DEF Labels
<1>3. /\ at[c] = from /\ want[c] = NULL /\ at'[c] = to /\ want'[c] = l
      /\ at' \in [Cpus -> Labels] /\ want' \in [Cpus -> LockNames \cup {NULL}]
      /\ \A d \in Cpus : d # c => at'[d] = at[d] /\ want'[d] = want[d]
  BY <1>1, <1>2 DEF Step, LocksInv, LocksTypeOK
<1>4. /\ UNCHANGED moving /\ held' \in [Cpus -> SUBSET LockNames] /\ OneHolder'
      /\ \A d \in Cpus : d # c => held'[d] = held[d]
      /\ KeepLocks => held'[c] = held[c]
      /\ DropLocks(c) => held'[c] = {}
  BY <1>1, HeldLemma
<1>5. Sections(c)' /\ Control(c)'
  BY <1>1, <1>3, <1>4 DEF LocksInv, Local, Sections, Control, Waits
<1> QED  BY <1>1, <1>3, <1>4, <1>5, QuietStep

(* The call of lock() that begins a section of Scheduler.                    *)
LEMMA CallStep ==
  ASSUME LocksInv, NEW c \in Cpus, AddCall(c) \/ ReadyCall(c) \/ SwitchCall(c)
  PROVE  LocksInv' /\ UNCHANGED Seen!vars
<1>1. PICK to \in {"add", "lookup", "switch"}, l \in LockNames :
        /\ Step(c, "out", to, l) /\ UNCHANGED vars /\ KeepLocks
        /\ to = "add" => l = TableLock /\ MaySpawn(c) /\ spawning[Caller(c)] = NULL
        /\ to = "lookup" => l = TableLock /\ MaySpawn(c) /\ spawning[Caller(c)] # NULL
        /\ to = "switch" => l = QueueLock(c) /\ pc[c] = "switch"
  BY LockNamesLemma DEF AddCall, ReadyCall, SwitchCall
<1>2. to \in Labels /\ l \in LockNames \cup {NULL}
  BY DEF Labels
<1>3. /\ at[c] = "out" /\ want[c] = NULL /\ at'[c] = to /\ want'[c] = l
      /\ at' \in [Cpus -> Labels] /\ want' \in [Cpus -> LockNames \cup {NULL}]
      /\ \A d \in Cpus : d # c => at'[d] = at[d] /\ want'[d] = want[d]
  BY <1>1, <1>2 DEF Step, LocksInv, LocksTypeOK
<1>4. /\ UNCHANGED moving /\ held' \in [Cpus -> SUBSET LockNames] /\ OneHolder'
      /\ \A d \in Cpus : d # c => held'[d] = held[d]
      /\ held'[c] = held[c]
  BY <1>1, HeldLemma
<1>5. /\ Caller(c)' = Caller(c) /\ (MaySpawn(c)' <=> MaySpawn(c))
      /\ spawning' = spawning /\ pc' = pc
  BY <1>1 DEF vars, Caller, MaySpawn
<1>6. held'[c] = {}
  BY <1>3, <1>4 DEF LocksInv, Local, Sections
<1>7. Sections(c)' /\ Control(c)'
  BY <1>1, <1>3, <1>5, <1>6 DEF Sections, Control, Waits
<1> QED  BY <1>1, <1>3, <1>4, <1>7, QuietStep

(* ready() asks for the state of the thread it looked up.                    *)
LEMMA ReadyStateStep ==
  ASSUME LocksInv, NEW c \in Cpus, ReadyState(c)
  PROVE  LocksInv' /\ UNCHANGED Seen!vars
<1>0. PICK t : t = spawning[Caller(c)]
  OBVIOUS
<1>1. Step(c, "lookup", "mark", StateLock(t)) /\ UNCHANGED vars /\ KeepLocks
  BY <1>0 DEF ReadyState
<1>2. MaySpawn(c) /\ t # NULL
  BY <1>0, <1>1 DEF Step, LocksInv, Local, Control
<1>3. t \in Threads
  BY <1>0, <1>2, SeenLemma, CallersLemma DEF LocksInv, SeenTypes
<1>4. StateLock(t) \in LockNames \cup {NULL} /\ "mark" \in Labels
  BY <1>3, LockNamesLemma DEF Labels
<1>5. /\ at[c] = "lookup" /\ want[c] = NULL /\ at'[c] = "mark" /\ want'[c] = StateLock(t)
      /\ at' \in [Cpus -> Labels] /\ want' \in [Cpus -> LockNames \cup {NULL}]
      /\ \A d \in Cpus : d # c => at'[d] = at[d] /\ want'[d] = want[d]
  BY <1>1, <1>4, StepLemma
<1>6. /\ UNCHANGED moving /\ held' \in [Cpus -> SUBSET LockNames] /\ OneHolder'
      /\ \A d \in Cpus : d # c => held'[d] = held[d]
      /\ held'[c] = held[c]
  BY <1>1, HeldLemma
<1>7. Caller(c)' = Caller(c) /\ (MaySpawn(c)' <=> MaySpawn(c)) /\ spawning' = spawning
  BY <1>1 DEF vars, Caller, MaySpawn
<1>8. held[c] = {TableLock}
  BY <1>5, LockNamesLemma DEF LocksInv, Local, Sections, Waits
<1>9. Sections(c)' /\ Control(c)'
  BY <1>0, <1>2, <1>5, <1>6, <1>7, <1>8 DEF Sections, Control, Waits
<1> QED  BY <1>1, <1>5, <1>6, <1>9, QuietStep

(* maybe_load_balance asks for the queue of the CPU with the lower id, then  *)
(* for the other.                                                            *)
LEMMA BalanceLocksStep ==
  ASSUME LocksInv, NEW c \in Cpus, BalanceFirst(c) \/ BalanceSecond(c)
  PROVE  LocksInv' /\ UNCHANGED Seen!vars
<1>1. at[c] = "second" => pc[c] = "balance"
  BY DEF LocksInv, Local, Control
<1>2. pc[c] = "balance"
  BY <1>1 DEF BalanceFirst, BalanceSecond
<1>3. First(c) \in Cpus /\ Second(c) \in Cpus
  BY <1>2, SeenLemma DEF LocksInv, SeenCpus, SeenTypes, First, Second, IdOrder
<1>4. UNCHANGED vars /\ KeepLocks /\ pc' = pc /\ First(c)' = First(c) /\ Second(c)' = Second(c)
  BY DEF BalanceFirst, BalanceSecond, First, Second, IdOrder, vars
<1>5. PICK from \in {"out", "second"}, to \in {"second", "compare"}, q \in Cpus :
        /\ Step(c, from, to, QueueLock(q))
        /\ to = "second" => from = "out" /\ q = First(c)
        /\ to = "compare" => from = "second" /\ q = Second(c)
  BY <1>3 DEF BalanceFirst, BalanceSecond, First, Second, SecondQueue
<1>6. QueueLock(q) \in LockNames \cup {NULL} /\ to \in Labels
  BY LockNamesLemma DEF Labels
<1>7. /\ at[c] = from /\ want[c] = NULL /\ at'[c] = to /\ want'[c] = QueueLock(q)
      /\ at' \in [Cpus -> Labels] /\ want' \in [Cpus -> LockNames \cup {NULL}]
      /\ \A d \in Cpus : d # c => at'[d] = at[d] /\ want'[d] = want[d]
  BY <1>5, <1>6, StepLemma, SMTT(30)
<1>8. /\ UNCHANGED moving /\ held' \in [Cpus -> SUBSET LockNames] /\ OneHolder'
      /\ \A d \in Cpus : d # c => held'[d] = held[d]
      /\ held'[c] = held[c]
  BY <1>4, HeldLemma
<1>9. to = "compare" => held[c] = {QueueLock(First(c))}
  BY <1>3, <1>5, <1>7, LockNamesLemma DEF LocksInv, Local, Sections, Waits
<1>10. to = "second" => held[c] = {}
  BY <1>5, <1>7 DEF LocksInv, Local, Sections
<1>11. Sections(c)' /\ Control(c)'
  BY <1>2, <1>4, <1>5, <1>7, <1>8, <1>9, <1>10 DEF Sections, Control, Waits
<1> QED  BY <1>4, <1>7, <1>8, <1>11, QuietStep

-----------------------------------------------------------------------------
(* Steps of Scheduler that hold no queue.                                    *)

LEMMA UnlockedStep ==
  ASSUME LocksInv, NEW c \in Cpus, Unlocked(c)
  PROVE  LocksInv' /\ Seen!Next
<1>1. /\ at[c] = "out" /\ UNCHANGED <<held, want, at, moving>>
      /\ Boot(c) \/ TimerInterrupt(c) \/ Pick(c) \/ TimerReturn(c)
  BY DEF Unlocked, lockVars
<1>2. UNCHANGED <<sched_state, spawning>>
  BY <1>1 DEF Boot, SetupTls, ForceSwitchToIdle, TimerInterrupt, Pick, PickNoCpu, PickCpu, TimerReturn
<1>3. \A d \in Cpus : d # c => pc'[d] = pc[d] /\ thread_addr'[d] = thread_addr[d] /\ other_cpu'[d] = other_cpu[d]
  <2>1. /\ pc = [d \in Cpus |-> pc[d]] /\ thread_addr = [d \in Cpus |-> thread_addr[d]]
        /\ other_cpu = [d \in Cpus |-> other_cpu[d]]
    BY SeenLemma DEF LocksInv, SeenTypes
  <2>2. CASE Boot(c)
    BY <2>1, <2>2 DEF Boot, SetupTls, ForceSwitchToIdle, Goto
  <2>3. CASE TimerInterrupt(c) \/ TimerReturn(c)
    BY <2>1, <2>3 DEF TimerInterrupt, TimerReturn, Goto
  <2>4. CASE Pick(c)
    BY <2>1, <2>4 DEF Pick, PickNoCpu, PickCpu, Goto
  <2> QED  BY <1>1, <2>2, <2>3, <2>4
<1>4. \A d \in Cpus : \A t : Pushes(d, t)' <=> Pushes(d, t)
  BY <1>1, <1>2, <1>3, PushesFrame
<1>5. UNCHANGED StatesSeen /\ LoopsApart'
  BY <1>1, <1>2, <1>4, SameStates DEF LocksInv
<1>6. ASSUME pc[c] = "off", NEW d \in Cpus
      PROVE  ~Moves(d, c)
  <2>1. SUFFICES ASSUME Moves(d, c) PROVE FALSE
    OBVIOUS
  <2>2. d # c /\ c = other_cpu[d] /\ other_cpu[d] \in online
    BY <1>1, <2>1, MovesLemma
  <2> QED  BY <1>6, <2>2, SeenLemma DEF LocksInv, SeenCpus
<1>7. /\ \A d, q \in Cpus : Moves(d, q) => ready_queue'[q] = ready_queue[q]
      /\ ready_queue' \in [Cpus -> Seq(Threads)]
  <2>1. CASE SetupTls(c)
    <3>1. <<>> \in Seq(Threads)
      OBVIOUS
    <3> QED  BY <1>6, <2>1, <3>1 DEF SetupTls, LocksInv, LocksTypeOK
  <2>2. CASE ~SetupTls(c)
    <3>1. UNCHANGED ready_queue
      BY <1>1, <2>2 DEF Boot, ForceSwitchToIdle, TimerInterrupt, Pick, PickNoCpu, PickCpu, TimerReturn
    <3> QED  BY <3>1 DEF LocksInv, LocksTypeOK
  <2> QED  BY <2>1, <2>2
<1>8. LocksTypeOK' /\ OneHolder'
  BY <1>1, <1>2, <1>7 DEF LocksInv, LocksTypeOK, OneHolder
<1>9. Local(c)'
  BY <1>1 DEF LocksInv, Local, Sections, Control, Loop, InLoop
<1>10. \A d \in Cpus : d # c => Local(d)'
  BY <1>1, <1>2, <1>3, <1>7, OthersFrame
<1>11. Seen!Next
  <2>1. CASE SetupTls(c)
    <3>1. ready_queue' = [ready_queue EXCEPT ![c] = <<>>] /\ pc[c] = "off"
      BY <2>1 DEF SetupTls
    <3>5. QueuesSeen' = [QueuesSeen EXCEPT ![c] = <<>>]
      BY <1>1, <1>6, <3>1, QueueWrite DEF LocksInv
    <3>6. Seen!SetupTls(c)
      BY <1>5, <2>1, <3>5, SameOperators DEF SetupTls, Seen!SetupTls, Goto, Seen!Goto
    <3> QED  BY <3>6 DEF Seen!Next, Seen!Boot
  <2>2. CASE ForceSwitchToIdle(c)
    <3>1. UNCHANGED QueuesSeen
      BY <1>1, <2>2, SameQueues DEF ForceSwitchToIdle
    <3>2. Seen!ForceSwitchToIdle(c)
      BY <1>5, <2>2, <3>1, SameOperators DEF ForceSwitchToIdle, Seen!ForceSwitchToIdle, Goto, Seen!Goto
    <3> QED  BY <3>2 DEF Seen!Next, Seen!Boot
  <2>3. CASE TimerInterrupt(c)
    <3>1. UNCHANGED QueuesSeen
      BY <1>1, <2>3, SameQueues DEF TimerInterrupt
    <3>2. Seen!TimerInterrupt(c)
      BY <1>5, <2>3, <3>1 DEF TimerInterrupt, Seen!TimerInterrupt, Goto, Seen!Goto, RegsSaved, Seen!RegsSaved
    <3> QED  BY <3>2 DEF Seen!Next
  <2>4. CASE PickNoCpu(c)
    <3>1. UNCHANGED QueuesSeen
      BY <1>1, <2>4, SameQueues DEF PickNoCpu
    <3>2. Seen!PickNoCpu(c)
      BY <1>5, <2>4, <3>1 DEF PickNoCpu, Seen!PickNoCpu, Goto, Seen!Goto
    <3> QED  BY <3>2 DEF Seen!Next, Seen!Pick
  <2>5. ASSUME NEW d \in Cpus, PickCpu(c, d) PROVE Seen!Next
    <3>1. UNCHANGED QueuesSeen
      BY <1>1, <2>5, SameQueues DEF PickCpu
    <3>2. Seen!PickCpu(c, d)
      BY <1>5, <2>5, <3>1 DEF PickCpu, Seen!PickCpu, Goto, Seen!Goto
    <3> QED  BY <3>2 DEF Seen!Next, Seen!Pick
  <2>6. CASE TimerReturn(c)
    <3>1. UNCHANGED QueuesSeen
      BY <1>1, <2>6, SameQueues DEF TimerReturn
    <3>2. Seen!TimerReturn(c)
      BY <1>5, <2>6, <3>1 DEF TimerReturn, Seen!TimerReturn, Goto, Seen!Goto, Rearmed, Seen!Rearmed
    <3> QED  BY <3>2 DEF Seen!Next
  <2> QED  BY <1>1, <2>1, <2>2, <2>3, <2>4, <2>5, <2>6 DEF Boot, Pick
<1> QED  BY <1>5, <1>8, <1>9, <1>10, <1>11, SeenStep

(* add_thread: the slot it takes is the caller's alone.                      *)
LEMMA AddLockedStep ==
  ASSUME LocksInv, NEW c \in Cpus, AddLocked(c)
  PROVE  LocksInv' /\ [Seen!Next]_(Seen!vars)
<1>1. Step(c, "add", "out", NULL) /\ DropLocks(c) /\ "out" \in Labels
  BY DEF AddLocked, Labels
<1>2. /\ at[c] = "add" /\ want[c] = NULL /\ at'[c] = "out" /\ want'[c] = NULL
      /\ at' \in [Cpus -> Labels] /\ want' \in [Cpus -> LockNames \cup {NULL}]
      /\ \A d \in Cpus : d # c => at'[d] = at[d] /\ want'[d] = want[d]
  BY <1>1, StepLemma
<1>3. /\ UNCHANGED moving /\ held' \in [Cpus -> SUBSET LockNames] /\ OneHolder'
      /\ \A d \in Cpus : d # c => held'[d] = held[d]
      /\ held'[c] = {}
  BY <1>1, HeldLemma
<1>4. Sections(c)' /\ Control(c)'
  BY <1>2, <1>3 DEF Sections, Control
<1>5. CASE UNCHANGED vars
  BY <1>2, <1>3, <1>4, <1>5, QuietStep
<1>6. ASSUME NEW t \in Threads, AddThread(c, t)
      PROVE  LocksInv' /\ Seen!Next
  <2>1. /\ MaySpawn(c)
        /\ spawning' = [spawning EXCEPT ![Caller(c)] = t]
        /\ UNCHANGED <<online, ready_queue, thread_addr, sched_state, stack, pc, other_cpu, lapic>>
    BY <1>6 DEF AddThread
  <2>2. \A d \in Cpus : d # c /\ MaySpawn(d) => spawning'[Caller(d)] = spawning[Caller(d)]
    BY <2>1, SeenLemma, CallersLemma DEF LocksInv, SeenTypes
  <2>3. \A d \in Cpus : \A u : Pushes(d, u)' <=> Pushes(d, u)
    BY <1>2, <2>1, <2>2, PushesFrame
  <2>4. UNCHANGED <<QueuesSeen, StatesSeen>> /\ LoopsApart'
    BY <1>3, <2>1, <2>3, SameQueues, SameStates DEF LocksInv
  <2>5. Seen!AddThread(c, t)
    BY <1>6, <2>4, SameOperators DEF AddThread, Seen!AddThread, FirstEmptySlot, Seen!FirstEmptySlot
  <2>6. LocksTypeOK'
    BY <1>2, <1>3, <2>1 DEF LocksInv, LocksTypeOK
  <2>7. Local(c)'
    BY <1>2, <1>3, <1>4 DEF LocksInv, Local, Loop, InLoop
  <2>8. \A d \in Cpus : d # c => Local(d)'
    BY <1>2, <1>3, <2>1, <2>2, OthersFrame
  <2>9. Seen!Next
    BY <2>5, SameOperators DEF Seen!Next, Seen!Spawn
  <2> QED  BY <1>3, <2>4, <2>6, <2>7, <2>8, <2>9, SeenStep
<1> QED  BY <1>5, <1>6 DEF AddLocked

-----------------------------------------------------------------------------
(* ready() *)

(* The first of its two writes is not seen: the thread stays Born.           *)
LEMMA ReadyMarkStep ==
  ASSUME LocksInv, NEW c \in Cpus, ReadyMark(c)
  PROVE  LocksInv' /\ UNCHANGED Seen!vars
<1>0. PICK t : t = spawning[Caller(c)]
  OBVIOUS
<1>1. /\ Step(c, "mark", "push", QueueLock(c)) /\ KeepLocks
      /\ sched_state' = [sched_state EXCEPT ![t] = ReadyOn(c)]
      /\ UNCHANGED <<online, ready_queue, thread_addr, table, saved, spawning, stack, pc, other_cpu, lapic>>
  BY <1>0 DEF ReadyMark, ReadyOn
<1>2. "push" \in Labels /\ QueueLock(c) \in LockNames \cup {NULL}
  BY LockNamesLemma DEF Labels
<1>3. /\ at[c] = "mark" /\ want[c] = NULL /\ at'[c] = "push" /\ want'[c] = QueueLock(c)
      /\ at' \in [Cpus -> Labels] /\ want' \in [Cpus -> LockNames \cup {NULL}]
      /\ \A d \in Cpus : d # c => at'[d] = at[d] /\ want'[d] = want[d]
  BY <1>1, <1>2, StepLemma
<1>4. /\ UNCHANGED moving /\ held' \in [Cpus -> SUBSET LockNames] /\ OneHolder'
      /\ \A d \in Cpus : d # c => held'[d] = held[d]
      /\ held'[c] = held[c]
  BY <1>1, HeldLemma
<1>5. MaySpawn(c) /\ t # NULL /\ t \in Threads /\ Caller(c) \in AnyThread
  <2>1. MaySpawn(c) /\ t # NULL
    BY <1>0, <1>3 DEF LocksInv, Local, Control
  <2> QED  BY <1>0, <2>1, SeenLemma, CallersLemma DEF LocksInv, SeenTypes
<1>6. /\ StatesSeen[t] = NotReadied
      /\ \A q \in Cpus : ~Holds(QueuesSeen[q], t)
  BY <1>0, <1>5, SeenLemma DEF LocksInv, SeenSpawns
<1>7. \A d \in Cpus : ~Carries(d, t)
  BY <1>5, <1>6, CarriesLemma
<1>8. /\ \A d \in Cpus : \A u : d # c => (Pushes(d, u)' <=> Pushes(d, u))
      /\ \A u : ~Pushes(c, u) /\ (Pushes(c, u)' <=> u = t)
  BY <1>0, <1>1, <1>3 DEF Pushes, Caller
<1>9. LoopsApart'
  BY <1>4, <1>7, <1>8 DEF LocksInv, LoopsApart, Carries, InLoop
<1>10. StatesSeen'[t] = NotReadied
  <2>1. StatesKnown'
    BY <1>9, StatesKnownLemma, PTL
  <2> QED  BY <1>5, <1>8, <2>1 DEF StatesKnown
<1>11. ASSUME NEW u \in Threads, u # t PROVE StatesSeen'[u] = StatesSeen[u]
  <2>1. sched_state'[u] = sched_state[u]
    BY <1>1, <1>11 DEF LocksInv, LocksTypeOK
  <2>2. \A d \in Cpus : Pushes(d, u)' <=> Pushes(d, u)
    BY <1>8, <1>11
  <2> QED  BY <1>4, <2>1, <2>2, SameState
<1>12. UNCHANGED StatesSeen
  BY <1>6, <1>10, <1>11 DEF StatesSeen
<1>13. UNCHANGED Seen!vars
  BY <1>1, <1>4, <1>12, SameQueues DEF Seen!vars
<1>14. LocksTypeOK'
  BY <1>1, <1>3, <1>4, ThreadStateLemma DEF LocksInv, LocksTypeOK
<1>15. Local(c)'
  <2>1. held[c] = {TableLock, StateLock(t)}
    BY <1>0, <1>3, <1>5, LockNamesLemma DEF LocksInv, Local, Sections, Waits
  <2>2. Caller(c)' = Caller(c) /\ (MaySpawn(c)' <=> MaySpawn(c))
    BY <1>1 DEF Caller, MaySpawn
  <2>3. Sections(c)' /\ Control(c)'
    BY <1>0, <1>1, <1>3, <1>4, <1>5, <2>1, <2>2 DEF Sections, Control, Waits
  <2> QED  BY <1>3, <1>4, <2>3 DEF LocksInv, Local, Loop, InLoop
<1>16. \A d \in Cpus : d # c => Local(d)'
  BY <1>1, <1>3, <1>4, <1>7, OthersFrame DEF LocksInv, LocksTypeOK
<1> QED  BY <1>4, <1>9, <1>13, <1>14, <1>15, <1>16, SeenStep

(* The second completes ready(): the thread is seen in the queue and Ready.  *)
LEMMA ReadyPushStep ==
  ASSUME LocksInv, NEW c \in Cpus, ReadyPush(c)
  PROVE  LocksInv' /\ Seen!Next
<1>0. PICK t : t = spawning[Caller(c)]
  OBVIOUS
<1>1. /\ Step(c, "push", "out", NULL) /\ DropLocks(c) /\ "out" \in Labels
      /\ Ready(c) /\ MaySpawn(c) /\ t # NULL
      /\ sched_state' = [sched_state EXCEPT ![t] = ReadyOn(c)]
      /\ IF Len(ready_queue[c]) = QueueCap
         THEN Goto(c, "panic") /\ UNCHANGED ready_queue
         ELSE ready_queue' = [ready_queue EXCEPT ![c] = Append(ready_queue[c], t)] /\ UNCHANGED pc
      /\ spawning' = [spawning EXCEPT ![Caller(c)] = NULL]
      /\ UNCHANGED <<online, thread_addr, table, saved, stack, other_cpu, lapic>>
  BY <1>0 DEF ReadyPush, Ready, Labels, ReadyOn
<1>2. /\ at[c] = "push" /\ want[c] = NULL /\ at'[c] = "out" /\ want'[c] = NULL
      /\ at' \in [Cpus -> Labels] /\ want' \in [Cpus -> LockNames \cup {NULL}]
      /\ \A d \in Cpus : d # c => at'[d] = at[d] /\ want'[d] = want[d]
  BY <1>1, StepLemma
<1>3. /\ UNCHANGED moving /\ held' \in [Cpus -> SUBSET LockNames] /\ OneHolder'
      /\ \A d \in Cpus : d # c => held'[d] = held[d]
      /\ held'[c] = {}
  BY <1>1, HeldLemma
<1>4. t \in Threads /\ Caller(c) \in AnyThread
  BY <1>0, <1>1, SeenLemma, CallersLemma DEF LocksInv, SeenTypes
<1>5. /\ \A q \in Cpus : ~Holds(QueuesSeen[q], t)
      /\ \A x \in AnyThread : spawning[x] = t => x = Caller(c)
  BY <1>0, <1>1, <1>4, SeenLemma DEF LocksInv, SeenSpawns
<1>6. \A d \in Cpus : ~Carries(d, t)
  BY <1>4, <1>5, CarriesLemma
<1>7. \A d \in Cpus : d # c /\ MaySpawn(d) =>
        /\ Caller(d) \in AnyThread /\ Caller(d) # Caller(c)
        /\ spawning[Caller(d)] # t /\ spawning'[Caller(d)] = spawning[Caller(d)]
  BY <1>1, <1>5, SeenLemma, CallersLemma DEF LocksInv, SeenTypes
<1>8. \A d \in Cpus : d # c => pc'[d] = pc[d]
  BY <1>1, SeenLemma DEF Goto, LocksInv, SeenTypes
<1>9. /\ \A d \in Cpus : \A u : d # c => (Pushes(d, u)' <=> Pushes(d, u)) /\ ~Pushes(d, t)
      /\ \A u : ~Pushes(c, u)' /\ (Pushes(c, u) <=> u = t)
  <2>1. ASSUME NEW d \in Cpus, d # c, NEW u
        PROVE  (Pushes(d, u)' <=> Pushes(d, u)) /\ ~Pushes(d, t)
    <3>1. at[d] = "push" => MaySpawn(d)
      BY DEF LocksInv, Local, Control
    <3>2. Caller(d)' = Caller(d) /\ at'[d] = at[d]
      BY <1>1, <1>2, <1>8, <2>1 DEF Caller
    <3> QED  BY <1>7, <2>1, <3>1, <3>2 DEF Pushes
  <2> QED  BY <1>0, <1>2, <2>1 DEF Pushes
<1>10. LoopsApart'
  BY <1>3, <1>9 DEF LocksInv, LoopsApart, Carries, InLoop
<1>11. StatesSeen' = [StatesSeen EXCEPT ![t] = ReadyOn(c)]
  <2>1. StatesKnown'
    BY <1>10, StatesKnownLemma, PTL
  <2>2. \A d \in Cpus : ~Carries(d, t)' /\ ~Pushes(d, t)'
    BY <1>3, <1>6, <1>9 DEF Carries, InLoop
  <2>3. StatesSeen'[t] = ReadyOn(c)
    BY <1>1, <1>4, <2>1, <2>2 DEF StatesKnown, LocksInv, LocksTypeOK
  <2>4. ASSUME NEW u \in Threads, u # t PROVE StatesSeen'[u] = StatesSeen[u]
    <3>1. sched_state'[u] = sched_state[u]
      BY <1>1, <2>4 DEF LocksInv, LocksTypeOK
    <3>2. \A d \in Cpus : Pushes(d, u)' <=> Pushes(d, u)
      BY <1>9, <2>4
    <3> QED  BY <1>3, <3>1, <3>2, SameState
  <2> QED  BY <2>3, <2>4 DEF StatesSeen
<1>12. QueueLock(c) \in held[c] /\ ~InLoop(c)
  <2>1. ~InLoop(c)
    BY <1>2 DEF LocksInv, Local, Loop
  <2>2. QueueLock(c) \in LockNames /\ NULL \notin LockNames
    BY LockNamesLemma
  <2>3. QueueLock(c) \in held[c]
    BY <1>2, <2>2 DEF LocksInv, Local, Sections, Waits
  <2> QED  BY <2>1, <2>3
<1>13. (\A d \in Cpus : ~Moves(d, c)) /\ QueuesSeen[c] = ready_queue[c]
  BY <1>12, OwnQueue
<1>14. Seen!Ready(c)
  <2>1. CASE Len(ready_queue[c]) = QueueCap
    <3>1. UNCHANGED QueuesSeen
      BY <1>1, <1>3, <2>1, SameQueues
    <3> QED  BY <1>0, <1>1, <1>11, <1>13, <2>1, <3>1, SameOperators DEF Seen!Ready, Goto, Seen!Goto, ReadyOn
  <2>2. CASE Len(ready_queue[c]) # QueueCap
    <3>1. QueuesSeen' = [QueuesSeen EXCEPT ![c] = Append(QueuesSeen[c], t)]
      BY <1>1, <1>3, <1>13, <2>2, QueueWrite DEF LocksInv
    <3> QED  BY <1>0, <1>1, <1>11, <1>13, <2>2, <3>1, SameOperators DEF Seen!Ready, ReadyOn
  <2> QED  BY <2>1, <2>2
<1>15. Seen!Next
  BY <1>14 DEF Seen!Next, Seen!Spawn
<1>16. LocksTypeOK'
  <2>1. ready_queue' \in [Cpus -> Seq(Threads)]
    <3>1. Append(ready_queue[c], t) \in Seq(Threads)
      BY <1>4 DEF LocksInv, LocksTypeOK
    <3> QED  BY <1>1, <3>1 DEF LocksInv, LocksTypeOK
  <2> QED  BY <1>1, <1>2, <1>3, <2>1, ThreadStateLemma DEF LocksInv, LocksTypeOK
<1>17. Local(c)'
  <2>1. Sections(c)' /\ Control(c)'
    BY <1>2, <1>3 DEF Sections, Control
  <2> QED  BY <1>2, <1>3, <2>1 DEF LocksInv, Local, Loop, InLoop
<1>18. \A d \in Cpus : d # c => Local(d)'
  <2>1. \A q \in Cpus : q # c => ready_queue'[q] = ready_queue[q]
    BY <1>1 DEF LocksInv, LocksTypeOK
  <2>2. \A u \in Threads : u # t => sched_state'[u] = sched_state[u]
    BY <1>1 DEF LocksInv, LocksTypeOK
  <2> QED  BY <1>1, <1>2, <1>3, <1>6, <1>7, <1>8, <1>13, <2>1, <2>2, OthersFrame
<1> QED  BY <1>3, <1>10, <1>15, <1>16, <1>17, <1>18, SeenStep

-----------------------------------------------------------------------------
(* switch() *)

LEMMA SwitchLockedStep ==
  ASSUME LocksInv, NEW c \in Cpus, SwitchLocked(c)
  PROVE  LocksInv' /\ Seen!Next
<1>1. Step(c, "switch", "out", NULL) /\ DropLocks(c) /\ Switch(c) /\ "out" \in Labels
  BY DEF SwitchLocked, Labels
<1>2. /\ at[c] = "switch" /\ want[c] = NULL /\ at'[c] = "out" /\ want'[c] = NULL
      /\ at' \in [Cpus -> Labels] /\ want' \in [Cpus -> LockNames \cup {NULL}]
      /\ \A d \in Cpus : d # c => at'[d] = at[d] /\ want'[d] = want[d]
  BY <1>1, StepLemma
<1>3. /\ UNCHANGED moving /\ held' \in [Cpus -> SUBSET LockNames] /\ OneHolder'
      /\ \A d \in Cpus : d # c => held'[d] = held[d]
      /\ held'[c] = {}
  BY <1>1, HeldLemma
<1>4. QueueLock(c) \in held[c] /\ ~InLoop(c)
  <2>1. ~InLoop(c)
    BY <1>2 DEF LocksInv, Local, Loop
  <2>2. QueueLock(c) \in LockNames /\ NULL \notin LockNames
    BY LockNamesLemma
  <2>3. QueueLock(c) \in held[c]
    BY <1>2, <2>2 DEF LocksInv, Local, Sections, Waits
  <2> QED  BY <2>1, <2>3
<1>5. (\A d \in Cpus : ~Moves(d, c)) /\ QueuesSeen[c] = ready_queue[c]
  BY <1>4, OwnQueue
<1>6. ready_queue \in [Cpus -> Seq(Threads)]
  BY DEF LocksInv, LocksTypeOK
<1>7. PICK q \in Seq(Threads) : ready_queue' = [ready_queue EXCEPT ![c] = q]
  <2>1. RequeueCurrent(c) => thread_addr[c] \in Threads
    BY <1>1, SeenLemma DEF Switch, LocksInv, SeenCpus, RequeueCurrent
  <2>2. CASE ready_queue[c] = <<>>
    <3>1. UNCHANGED ready_queue
      BY <1>1, <2>2 DEF Switch
    <3>2. ready_queue' = [ready_queue EXCEPT ![c] = ready_queue[c]] /\ ready_queue[c] \in Seq(Threads)
      BY <1>6, <3>1
    <3> QED  BY <3>2
  <2>3. CASE ready_queue[c] # <<>>
    <3>1. PICK r : r = Tail(ready_queue[c])
      OBVIOUS
    <3>2. r \in Seq(Threads)
      BY <1>6, <2>3, <3>1
    <3>3. RequeueCurrent(c) => Append(r, thread_addr[c]) \in Seq(Threads)
      BY <2>1, <3>2
    <3>4. \/ ready_queue' = [ready_queue EXCEPT ![c] = r]
          \/ RequeueCurrent(c) /\ ready_queue' = [ready_queue EXCEPT ![c] = Append(r, thread_addr[c])]
      BY <1>1, <2>3, <3>1 DEF Switch
    <3> QED  BY <3>2, <3>3, <3>4
  <2> QED  BY <2>2, <2>3
<1>8. QueuesSeen' = [QueuesSeen EXCEPT ![c] = q]
  BY <1>3, <1>5, <1>7, QueueWrite DEF LocksInv
<1>9. /\ UNCHANGED <<sched_state, spawning, other_cpu>>
      /\ \A d \in Cpus : d # c => pc'[d] = pc[d] /\ thread_addr'[d] = thread_addr[d]
  <2>1. UNCHANGED <<sched_state, spawning, other_cpu>>
    BY <1>1 DEF Switch
  <2>2. pc = [d \in Cpus |-> pc[d]] /\ thread_addr = [d \in Cpus |-> thread_addr[d]]
    BY SeenLemma DEF LocksInv, SeenTypes
  <2> QED  BY <1>1, <2>1, <2>2 DEF Switch, Goto
<1>10. \A d \in Cpus : \A t : Pushes(d, t)' <=> Pushes(d, t)
  BY <1>2, <1>9, PushesFrame
<1>11. UNCHANGED StatesSeen /\ LoopsApart'
  BY <1>3, <1>9, <1>10, SameStates DEF LocksInv
<1>12. Seen!Switch(c)
  <2>1. pc[c] = "switch" /\ UNCHANGED <<online, StatesSeen, table, saved, spawning, stack, other_cpu, lapic>>
    BY <1>1, <1>11 DEF Switch
  <2>2. q = ready_queue'[c]
    BY <1>6, <1>7
  <2>3. CASE ready_queue[c] = <<>>
    <3>1. QueuesSeen' = QueuesSeen
      BY <1>1, <1>3, <2>3, SameQueues DEF Switch
    <3> QED  BY <1>1, <1>5, <2>1, <2>3, <3>1 DEF Switch, Seen!Switch, Goto, Seen!Goto
  <2>4. CASE ready_queue[c] # <<>> /\ RequeueCurrent(c) /\ Len(Tail(ready_queue[c])) = QueueCap
    <3>1. q = Tail(ready_queue[c])
      BY <1>1, <1>6, <2>2, <2>4 DEF Switch
    <3> QED  BY <1>1, <1>5, <1>8, <2>1, <2>4, <3>1, SameOperators
             DEF Switch, Seen!Switch, Goto, Seen!Goto, RequeueCurrent, Seen!RequeueCurrent
  <2>5. CASE ready_queue[c] # <<>> /\ ~(RequeueCurrent(c) /\ Len(Tail(ready_queue[c])) = QueueCap)
    <3>1. q = IF RequeueCurrent(c) THEN Append(Tail(ready_queue[c]), thread_addr[c]) ELSE Tail(ready_queue[c])
      BY <1>1, <1>6, <2>2, <2>5 DEF Switch
    <3> QED  BY <1>1, <1>5, <1>8, <2>1, <2>5, <3>1, SameOperators
             DEF Switch, Seen!Switch, Goto, Seen!Goto, RequeueCurrent, Seen!RequeueCurrent
  <2> QED  BY <2>3, <2>4, <2>5
<1>13. LocksTypeOK'
  BY <1>2, <1>3, <1>7, <1>9 DEF LocksInv, LocksTypeOK
<1>14. Local(c)'
  <2>1. Sections(c)' /\ Control(c)'
    BY <1>2, <1>3 DEF Sections, Control
  <2> QED  BY <1>2, <1>3, <2>1 DEF LocksInv, Local, Loop, InLoop
<1>15. \A d \in Cpus : d # c => Local(d)'
  <2>1. \A d, p \in Cpus : Moves(d, p) => ready_queue'[p] = ready_queue[p]
    BY <1>5, <1>6, <1>7
  <2> QED  BY <1>2, <1>3, <1>9, <2>1, OthersFrame
<1>16. Seen!Next
  BY <1>12 DEF Seen!Next
<1> QED  BY <1>3, <1>11, <1>13, <1>14, <1>15, <1>16, SeenStep

-----------------------------------------------------------------------------
(* maybe_load_balance *)

(* What it knows with both guards: its two queues are in no loop.            *)
LEMMA BothQueues ==
  ASSUME LocksInv, NEW c \in Cpus, at[c] = "compare", want[c] = NULL
  PROVE  /\ pc[c] = "balance" /\ other_cpu[c] \in Cpus \ {c} /\ ~InLoop(c)
         /\ held[c] = {QueueLock(c), QueueLock(other_cpu[c])}
         /\ \A q \in {c, other_cpu[c]} :
              (\A d \in Cpus : ~Moves(d, q)) /\ QueuesSeen[q] = ready_queue[q]
<1>1. pc[c] = "balance" /\ ~InLoop(c)
  BY DEF LocksInv, Local, Control, Loop
<1>2. other_cpu[c] \in Cpus \ {c}
  BY <1>1, SeenLemma DEF LocksInv, SeenCpus, SeenTypes
<1>3. {First(c), Second(c)} = {c, other_cpu[c]} /\ First(c) \in Cpus /\ Second(c) \in Cpus
  BY <1>2 DEF First, Second, IdOrder
<1>4. QueueLock(Second(c)) # NULL
  BY <1>3, LockNamesLemma
<1>5. held[c] = {QueueLock(First(c)), QueueLock(Second(c))}
  BY <1>4 DEF LocksInv, Local, Sections, Waits
<1>6. held[c] = {QueueLock(c), QueueLock(other_cpu[c])}
  BY <1>3, <1>5
<1> QED  BY <1>1, <1>2, <1>6, OwnQueue

(* The loop of do_load_balance with nothing to move.                         *)
LEMMA MoveNothing ==
  ASSUME NEW T, NEW f \in [Cpus -> Seq(T)], NEW src \in Cpus, NEW dst \in Cpus
  PROVE  /\ [f EXCEPT ![src] = SubSeq(f[src], 0 + 1, Len(f[src])),
                      ![dst] = f[dst] \o SubSeq(f[src], 1, 0)] = f
         /\ \A t : ~Holds(SubSeq(f[src], 1, 0), t)
<1>1. PICK from, to : from = f[src] /\ to = f[dst] /\ from \in Seq(T) /\ to \in Seq(T)
  OBVIOUS
<1>2. SubSeq(from, 1, 0) = <<>>
  BY <1>1, SubSeqProperties, EmptySeq
<1>3. SubSeq(from, 0 + 1, Len(from)) = from
  BY <1>1, SubSeqFull
<1>4. to \o <<>> = to
  BY <1>1
<1>5. \A t : ~Holds(<<>>, t)
  BY DEF Holds
<1> QED  BY <1>1, <1>2, <1>3, <1>4, <1>5

(* "balanced enough": it is the Balance of Scheduler that moves nothing.     *)
LEMMA BalancedEnoughStep ==
  ASSUME LocksInv, NEW c \in Cpus, BalancedEnough(c)
  PROVE  LocksInv' /\ Seen!Next
<1>1. /\ Step(c, "compare", "out", NULL) /\ DropLocks(c) /\ "out" \in Labels
      /\ Len(ready_queue[c]) - Len(ready_queue[other_cpu[c]]) \in -1..1 /\ Balance(c)
  BY DEF BalancedEnough, Labels
<1>2. /\ at[c] = "compare" /\ want[c] = NULL /\ at'[c] = "out" /\ want'[c] = NULL
      /\ at' \in [Cpus -> Labels] /\ want' \in [Cpus -> LockNames \cup {NULL}]
      /\ \A d \in Cpus : d # c => at'[d] = at[d] /\ want'[d] = want[d]
  BY <1>1, StepLemma
<1>3. /\ UNCHANGED moving /\ held' \in [Cpus -> SUBSET LockNames] /\ OneHolder'
      /\ \A d \in Cpus : d # c => held'[d] = held[d]
      /\ held'[c] = {}
  BY <1>1, HeldLemma
<1>4. /\ other_cpu[c] \in Cpus \ {c} /\ ~InLoop(c)
      /\ QueuesSeen[c] = ready_queue[c] /\ QueuesSeen[other_cpu[c]] = ready_queue[other_cpu[c]]
  BY <1>2, BothQueues
<1>5. PICK src \in Cpus, dst \in Cpus :
        /\ MoveThreads(c, src, dst)
        /\ \/ src = c /\ dst = other_cpu[c]
           \/ src = other_cpu[c] /\ dst = c
  BY <1>1, <1>4 DEF Balance
<1>6. QueuesSeen[src] = ready_queue[src] /\ QueuesSeen[dst] = ready_queue[dst]
  BY <1>4, <1>5
<1>7. ready_queue \in [Cpus -> Seq(Threads)] /\ QueuesSeen \in [Cpus -> Seq(Threads)]
      /\ sched_state \in [Threads -> ThreadState] /\ StatesSeen \in [Threads -> ThreadState]
      /\ pc = [d \in Cpus |-> pc[d]] /\ other_cpu = [d \in Cpus |-> other_cpu[d]]
  BY SeenLemma DEF LocksInv, LocksTypeOK, SeenTypes
<1>8. /\ Len(ready_queue[src]) \in Nat /\ Len(ready_queue[dst]) \in Nat
      /\ Len(ready_queue[dst]) <= QueueCap
  BY <1>6, <1>7, SeenLemma, SchedulerAssumption DEF LocksInv, SeenPlaces
<1>9. Len(ready_queue[src]) >= Len(ready_queue[dst]) /\ ToMove(Len(ready_queue[src]) - Len(ready_queue[dst])) = 0
  <2>1. Len(ready_queue[src]) >= Len(ready_queue[dst])
    BY <1>5 DEF MoveThreads
  <2>2. Len(ready_queue[src]) - Len(ready_queue[dst]) <= 1
    BY <1>1, <1>5, <1>8
  <2> QED  BY <1>8, <2>1, <2>2 DEF ToMove
<1>10. ~(Len(ready_queue[dst]) + 0 > QueueCap)
  BY <1>8, SchedulerAssumption
<1>11. UNCHANGED <<ready_queue, sched_state>> /\ Goto(c, "exit")
  <2>1. /\ Goto(c, "exit")
        /\ ready_queue' = [ready_queue EXCEPT ![src] = SubSeq(ready_queue[src], 0 + 1, Len(ready_queue[src])),
                                              ![dst] = ready_queue[dst] \o SubSeq(ready_queue[src], 1, 0)]
        /\ sched_state' = [t \in Threads |->
             IF Holds(SubSeq(ready_queue[src], 1, 0), t)
             THEN [sched_state[t] EXCEPT !.cpu = MovedCpu(src, dst)] ELSE sched_state[t]]
    BY <1>5, <1>9, <1>10 DEF MoveThreads
  <2>2. ready_queue' = ready_queue /\ \A t : ~Holds(SubSeq(ready_queue[src], 1, 0), t)
    BY <1>7, <2>1, MoveNothing
  <2>3. sched_state' = sched_state
    BY <1>7, <2>1, <2>2
  <2> QED  BY <2>1, <2>2, <2>3
<1>12. /\ UNCHANGED <<spawning, thread_addr>>
       /\ \A d \in Cpus : d # c => pc'[d] = pc[d] /\ other_cpu'[d] = other_cpu[d]
  <2>1. UNCHANGED <<spawning, thread_addr>> /\ other_cpu' = [other_cpu EXCEPT ![c] = NULL]
    BY <1>1 DEF Balance
  <2> QED  BY <1>7, <1>11, <2>1 DEF Goto
<1>13. \A d \in Cpus : \A t : Pushes(d, t)' <=> Pushes(d, t)
  BY <1>2, <1>12, PushesFrame
<1>14. UNCHANGED <<QueuesSeen, StatesSeen>> /\ LoopsApart'
  BY <1>3, <1>11, <1>13, SameQueues, SameStates DEF LocksInv
<1>15. Seen!MoveThreads(c, src, dst)
  <2>1. QueuesSeen' = [QueuesSeen EXCEPT ![src] = SubSeq(QueuesSeen[src], 0 + 1, Len(QueuesSeen[src])),
                                         ![dst] = QueuesSeen[dst] \o SubSeq(QueuesSeen[src], 1, 0)]
        /\ \A t : ~Holds(SubSeq(QueuesSeen[src], 1, 0), t)
    BY <1>7, <1>14, MoveNothing
  <2>2. StatesSeen' = [t \in Threads |->
             IF Seen!Holds(SubSeq(QueuesSeen[src], 1, 0), t)
             THEN [StatesSeen[t] EXCEPT !.cpu = Seen!MovedCpu(src, dst)] ELSE StatesSeen[t]]
    BY <1>7, <1>14, <2>1, SameOperators
  <2>3. Seen!ToMove(Len(QueuesSeen[src]) - Len(QueuesSeen[dst])) = 0
        /\ Len(QueuesSeen[src]) >= Len(QueuesSeen[dst]) /\ ~(Len(QueuesSeen[dst]) + 0 > QueueCap)
    BY <1>6, <1>9, <1>10, SameOperators
  <2>4. Seen!Goto(c, "exit")
    BY <1>11 DEF Goto, Seen!Goto
  <2> QED  BY <2>1, <2>2, <2>3, <2>4, SameOperators DEF Seen!MoveThreads
<1>16. Seen!Balance(c)
  BY <1>1, <1>5, <1>15 DEF Balance, Seen!Balance
<1>17. Seen!Next
  BY <1>16 DEF Seen!Next
<1>18. LocksTypeOK'
  BY <1>2, <1>3, <1>11 DEF LocksInv, LocksTypeOK
<1>19. Local(c)'
  <2>1. Sections(c)' /\ Control(c)'
    BY <1>2, <1>3 DEF Sections, Control
  <2> QED  BY <1>2, <1>3, <2>1 DEF LocksInv, Local, Loop, InLoop
<1>20. \A d \in Cpus : d # c => Local(d)'
  BY <1>2, <1>3, <1>11, <1>12, OthersFrame
<1> QED  BY <1>3, <1>14, <1>17, <1>18, <1>19, <1>20, SeenStep

-----------------------------------------------------------------------------
(* The loop of do_load_balance *)

(* The other loops and calls of ready() are about other queues and threads.  *)
LEMMA LoopAlone ==
  ASSUME LocksInv, NEW c \in Cpus, NEW src \in Cpus, NEW dst \in Cpus,
         QueueLock(src) \in held[c], QueueLock(dst) \in held[c]
  PROVE  /\ \A d \in Cpus : d # c => \A q \in Cpus : Moves(d, q) => q \notin {src, dst}
         /\ \A d \in Cpus : d # c => \A t \in Threads : Carries(d, t) => ~Holds(QueuesSeen[src], t)
         /\ \A d \in Cpus : \A t \in Threads : Pushes(d, t) => ~Holds(QueuesSeen[src], t)
<1>1. ASSUME NEW d \in Cpus, d # c, NEW q \in Cpus, Moves(d, q)
      PROVE  q \notin {src, dst}
  BY <1>1, MovesLemma DEF LocksInv, OneHolder
<1>2. ASSUME NEW d \in Cpus, d # c, NEW t \in Threads, Carries(d, t)
      PROVE  ~Holds(QueuesSeen[src], t)
  <2>1. moving[d].src \in Cpus /\ Moves(d, moving[d].src) /\ Holds(QueuesSeen[moving[d].src], t)
    BY <1>2, CarriesLemma
  <2> QED  BY <1>1, <1>2, <2>1, SeenLemma DEF LocksInv, SeenPlaces
<1>3. ASSUME NEW d \in Cpus, NEW t \in Threads, Pushes(d, t)
      PROVE  ~Holds(QueuesSeen[src], t)
  <2>1. MaySpawn(d) /\ spawning[Caller(d)] = t
    BY <1>3 DEF LocksInv, Local, Control, Pushes
  <2>2. Caller(d) \in AnyThread /\ t # NULL
    BY <2>1, SeenLemma, CallersLemma, ThreadNamesLemma DEF LocksInv
  <2> QED  BY <2>1, <2>2, SeenLemma DEF LocksInv, SeenSpawns
<1> QED  BY <1>1, <1>2, <1>3

(* A step of the loop before its last one is seen by nobody.                 *)
LEMMA LoopStep ==
  ASSUME LocksInv, NEW c \in Cpus, NEW src \in Cpus, NEW dst \in Cpus,
         QueueLock(src) \in held[c], QueueLock(dst) \in held[c],
         at[c] # "push", at'[c] # "push",
         UNCHANGED <<online, thread_addr, table, saved, spawning, stack, pc, other_cpu, lapic>>,
         \A d \in Cpus : d # c =>
           at'[d] = at[d] /\ want'[d] = want[d] /\ held'[d] = held[d] /\ moving'[d] = moving[d],
         InLoop(c) => moving[c].src = src /\ moving[c].dst = dst,
         InLoop(c)', moving'[c].src = src, moving'[c].dst = dst,
         moving'[c].before[src] = QueuesSeen[src], moving'[c].before[dst] = QueuesSeen[dst],
         \A q \in Cpus : q \notin {src, dst} => ready_queue'[q] = ready_queue[q],
         \A t \in Threads : ~Holds(QueuesSeen[src], t) => sched_state'[t] = sched_state[t],
         LocksTypeOK', OneHolder', Local(c)'
  PROVE  LocksInv' /\ UNCHANGED Seen!vars
<1>1. /\ \A d \in Cpus : d # c => \A q \in Cpus : Moves(d, q) => q \notin {src, dst}
      /\ \A d \in Cpus : d # c => \A t \in Threads : Carries(d, t) => ~Holds(QueuesSeen[src], t)
      /\ \A d \in Cpus : \A t \in Threads : Pushes(d, t) => ~Holds(QueuesSeen[src], t)
  BY LoopAlone
<1>2. \A d \in Cpus : d # c => Local(d)'
  BY <1>1, OthersFrame
<1>3. \A d \in Cpus : \A t : Pushes(d, t)' <=> Pushes(d, t)
  BY PushesFrame
<1>4. /\ \A d \in Cpus : d # c => \A q : Moves(d, q)' <=> Moves(d, q)
      /\ \A d \in Cpus : d # c => \A t : Carries(d, t)' <=> Carries(d, t)
      /\ \A q : Moves(c, q)' <=> q \in {src, dst}
      /\ \A t : Carries(c, t)' <=> Holds(QueuesSeen[src], t)
      /\ \A q : Moves(c, q) => q \in {src, dst}
  BY DEF Moves, Carries, InLoop
<1>5. LoopsApart'
  BY <1>1, <1>3, <1>4 DEF LocksInv, LoopsApart
<1>6. QueuesKnown /\ QueuesKnown' /\ StatesKnown /\ StatesKnown'
  <2>1. LocalInv'
    BY <1>2 DEF LocalInv
  <2>2. QueuesKnown'
    BY <2>1, QueuesKnownLemma, PTL
  <2>3. StatesKnown'
    BY <1>5, StatesKnownLemma, PTL
  <2> QED  BY <2>2, <2>3, QueuesKnownLemma, StatesKnownLemma DEF LocksInv, LocalInv
<1>7. ASSUME NEW q \in Cpus PROVE QueuesSeen'[q] = QueuesSeen[q]
  <2>1. CASE q \in {src, dst}
    BY <1>4, <1>6, <2>1 DEF QueuesKnown
  <2>2. CASE q \notin {src, dst}
    BY <1>4, <1>6, <2>2 DEF QueuesKnown
  <2> QED  BY <2>1, <2>2
<1>8. ASSUME NEW t \in Threads PROVE StatesSeen'[t] = StatesSeen[t]
  <2>1. CASE Holds(QueuesSeen[src], t)
    <3>1. StatesSeen[t] = ReadyOn(src)
      BY <2>1, SeenLemma DEF LocksInv, SeenPlaces
    <3> QED  BY <1>4, <1>6, <2>1, <3>1 DEF StatesKnown
  <2>2. CASE ~Holds(QueuesSeen[src], t)
    <3>1. ~Carries(c, t) /\ ~Carries(c, t)'
      BY <1>4, <2>2, CarriesLemma DEF Carries
    <3>2. CASE \E d \in Cpus : Pushes(d, t)
      BY <1>3, <1>6, <3>2 DEF StatesKnown
    <3>3. CASE \E d \in Cpus : Carries(d, t)
      BY <1>4, <1>6, <3>1, <3>3 DEF StatesKnown
    <3>4. CASE \A d \in Cpus : ~Pushes(d, t) /\ ~Carries(d, t)
      BY <1>3, <1>4, <1>6, <2>2, <3>1, <3>4 DEF StatesKnown
    <3> QED  BY <3>2, <3>3, <3>4
  <2> QED  BY <2>1, <2>2
<1>9. UNCHANGED Seen!vars
  BY <1>7, <1>8 DEF QueuesSeen, StatesSeen, Seen!vars
<1> QED  BY <1>2, <1>5, <1>9, SeenStep

(* do_load_balance is called: the loop begins, with nothing moved yet.       *)
LEMMA StartMovingStep ==
  ASSUME LocksInv, NEW c \in Cpus, NEW src \in Cpus, NEW dst \in Cpus, StartMoving(c, src, dst)
  PROVE  LocksInv' /\ UNCHANGED Seen!vars
<1>1. PICK m : m = [src |-> src, dst |-> dst, left |-> ToMove(Len(ready_queue[src]) - Len(ready_queue[dst])),
                    thread |-> NULL, before |-> [q \in {src, dst} |-> ready_queue[q]]]
  OBVIOUS
<1>2. /\ Step(c, "compare", "pop", NULL) /\ "pop" \in Labels
      /\ {src, dst} = {c, other_cpu[c]}
      /\ Len(ready_queue[src]) - Len(ready_queue[dst]) > 1
      /\ moving' = [moving EXCEPT ![c] = m]
      /\ UNCHANGED <<vars, held>>
  BY <1>1 DEF StartMoving, Labels
<1>3. /\ at[c] = "compare" /\ want[c] = NULL /\ at'[c] = "pop" /\ want'[c] = NULL
      /\ at' \in [Cpus -> Labels] /\ want' \in [Cpus -> LockNames \cup {NULL}]
      /\ \A d \in Cpus : d # c => at'[d] = at[d] /\ want'[d] = want[d]
  BY <1>2, StepLemma
<1>4. /\ pc[c] = "balance" /\ other_cpu[c] \in Cpus \ {c} /\ ~InLoop(c)
      /\ held[c] = {QueueLock(c), QueueLock(other_cpu[c])}
      /\ \A q \in {src, dst} : QueuesSeen[q] = ready_queue[q]
  BY <1>2, <1>3, BothQueues
<1>5. QueueLock(src) \in held[c] /\ QueueLock(dst) \in held[c] /\ src # dst
  BY <1>2, <1>4
<1>6. /\ m.src = src /\ m.dst = dst /\ m.left = Total(m)
      /\ m.before[src] = ready_queue[src] /\ m.before[dst] = ready_queue[dst]
  BY <1>1 DEF Total
<1>7. /\ moving'[c] = m /\ moving' = [d \in Cpus |-> moving'[d]]
      /\ \A d \in Cpus : d # c => moving'[d] = moving[d]
  BY <1>2 DEF LocksInv, LocksTypeOK
<1>8. PICK from, to : from = ready_queue[src] /\ to = ready_queue[dst]
  OBVIOUS
<1>9. from \in Seq(Threads) /\ to \in Seq(Threads) /\ Len(from) - Len(to) > 1
  BY <1>2, <1>8 DEF LocksInv, LocksTypeOK
<1>10. Total(m) \in Nat \ {0} /\ m.left \in 1..Total(m) /\ Pushed(m) = 0
  <2>1. Len(from) \in Nat /\ Len(to) \in Nat
    BY <1>9
  <2>2. Total(m) = ToMove(Len(from) - Len(to))
    BY <1>6, <1>8 DEF Total
  <2>3. Len(from) - Len(to) \in Nat /\ ~(Len(from) - Len(to) <= 1)
    BY <1>9, <2>1
  <2>4. Total(m) = (Len(from) - Len(to)) \div 2
    BY <2>2, <2>3 DEF ToMove
  <2>5. Total(m) \in Nat \ {0}
    BY <1>9, <2>1, <2>4
  <2> QED  BY <1>6, <2>5 DEF Pushed
<1>11. m \in LoopRecords /\ m # NULL
  <2>1. m.before \in [{src, dst} -> Seq(Threads)]
    BY <1>1 DEF LocksInv, LocksTypeOK
  <2>2. m.before \in UNION {[D -> Seq(Threads)] : D \in SUBSET Cpus}
    BY <2>1
  <2>3. m.left \in Nat
    BY <1>10
  <2>4. m \in LoopRecords
    BY <1>1, <2>2, <2>3 DEF LoopRecords
  <2> QED  BY <2>4, LocksAssumption
<1>12. \A i \in 1..Len(from) : sched_state[from[i]] = ReadyOn(src)
  <2> SUFFICES ASSUME NEW i \in 1..Len(from) PROVE sched_state[from[i]] = ReadyOn(src)
    OBVIOUS
  <2>1. from[i] \in Threads
    BY <1>9, ElementOfSeq
  <2>2. Holds(QueuesSeen[src], from[i])
    BY <1>4, <1>8 DEF Holds
  <2>3. \A d \in Cpus : ~Carries(d, from[i]) /\ ~Pushes(d, from[i])
    BY <1>4, <1>5, <2>1, <2>2, LoopAlone DEF Carries
  <2>4. StatesSeen[from[i]] = sched_state[from[i]]
    BY <2>1, <2>3, StatesKnownLemma DEF LocksInv, StatesKnown
  <2> QED  BY <2>1, <2>2, <2>4, SeenLemma DEF LocksInv, SeenPlaces
<1>13. LoopAt(m, 0, 0 + 1)'
  <2>1. SubSeq(from, 1, Len(from)) = from /\ to \o SubSeq(from, 1, 0) = to
    BY <1>9, SubSeqFull, SubSeqEmpty, ConcatEmptySeq
  <2>2. ready_queue' = ready_queue /\ sched_state' = sched_state
    BY <1>2 DEF vars
  <2>3. \A i \in 1..Len(from) : ~(i <= 0)
    OBVIOUS
  <2> QED  BY <1>6, <1>8, <1>12, <2>1, <2>2, <2>3 DEF LoopAt
<1>14. Local(c)'
  <2>1. pc' = pc /\ other_cpu' = other_cpu /\ held' = held
    BY <1>2 DEF vars
  <2>2. Sections(c)' /\ Control(c)'
    BY <1>3, <1>4, <2>1 DEF Sections, Control
  <2>3. Total(m)' = Total(m) /\ Pushed(m)' = 0 /\ InLoop(c)'
    BY <1>7, <1>11, <1>10 DEF Total, Pushed, InLoop
  <2>4. Loop(c)'
    BY <1>2, <1>3, <1>5, <1>6, <1>7, <1>11, <1>8, <1>9, <1>10, <1>13, <2>1, <2>3 DEF Loop
  <2> QED  BY <2>2, <2>4 DEF Local
<1>15. LocksTypeOK' /\ OneHolder'
  BY <1>2, <1>3, <1>7 DEF LocksInv, LocksTypeOK, OneHolder, vars
<1>16. /\ UNCHANGED <<online, thread_addr, table, saved, spawning, stack, pc, other_cpu, lapic>>
       /\ UNCHANGED <<ready_queue, sched_state, held>> /\ InLoop(c)'
  BY <1>2, <1>7, <1>11 DEF vars, InLoop
<1> QED  BY <1>3, <1>4, <1>5, <1>6, <1>7, <1>14, <1>15, <1>16, LoopStep

(* Half of the imbalance is there to be taken.                               *)
LEMMA HalfLemma ==
  ASSUME NEW a \in Nat, NEW b \in Nat, a - b > 1
  PROVE  ToMove(a - b) \in 0..a /\ b + ToMove(a - b) <= a
BY DEF ToMove

(* What is known in the loop, when k threads are pushed.                     *)
LoopKnown(c, m, from, to, k) ==
  /\ m = moving[c] /\ from = m.before[m.src] /\ to = m.before[m.dst] /\ k = Pushed(m)
  /\ at[c] \in {"pop", "move"} /\ pc[c] = "balance"
  /\ m \in LoopRecords /\ m.src \in Cpus /\ m.dst \in Cpus /\ m.src # m.dst
  /\ {m.src, m.dst} = {c, other_cpu[c]}
  /\ QueueLock(m.src) \in held[c] /\ QueueLock(m.dst) \in held[c]
  /\ from \in Seq(Threads) /\ to \in Seq(Threads)
  /\ from = QueuesSeen[m.src] /\ to = QueuesSeen[m.dst]
  /\ NoDuplicates(from) /\ Len(from) \in Nat /\ Len(to) \in Nat /\ Len(from) - Len(to) > 1
  /\ Total(m) = ToMove(Len(from) - Len(to)) /\ Total(m) \in 0..Len(from)
  /\ Len(to) + Total(m) <= QueueCap
  /\ k \in Nat /\ Total(m) \in Nat
  /\ m.left \in 1..Total(m) /\ k \in 0..(Total(m) - 1) /\ k + m.left = Total(m)
  /\ k + 1 \in 1..Len(from) /\ from[k + 1] \in Threads
  /\ at[c] = "pop" => LoopAt(m, k, k + 1)
  /\ at[c] = "move" => LoopAt(m, k, k + 2) /\ m.thread = from[k + 1]

LEMMA LoopFacts ==
  ASSUME LocksInv, NEW c \in Cpus, InLoop(c), NEW m, m = moving[c],
         NEW from, from = m.before[m.src], NEW to, to = m.before[m.dst], NEW k, k = Pushed(m)
  PROVE  LoopKnown(c, m, from, to, k)
<1>1. /\ at[c] \in {"pop", "move"}
      /\ m \in LoopRecords /\ m.src \in Cpus /\ m.dst \in Cpus /\ m.src # m.dst
      /\ {m.src, m.dst} = {c, other_cpu[c]}
      /\ from \in Seq(Threads) /\ to \in Seq(Threads)
      /\ Len(from) - Len(to) > 1
      /\ m.left \in 1..Total(m)
      /\ at[c] = "pop" => LoopAt(m, k, k + 1)
      /\ at[c] = "move" => LoopAt(m, k, k + 2) /\ m.thread = from[k + 1]
  BY DEF LocksInv, Local, Loop
<1>2. pc[c] = "balance"
  BY <1>1 DEF LocksInv, Local, Control
<1>3. Moves(c, m.src) /\ Moves(c, m.dst)
  BY <1>1 DEF Moves
<1>4. /\ QueueLock(m.src) \in held[c] /\ QueueLock(m.dst) \in held[c]
      /\ from = QueuesSeen[m.src] /\ to = QueuesSeen[m.dst]
  BY <1>1, <1>3, MovesLemma
<1>5. NoDuplicates(from) /\ Len(from) <= TableCap /\ Len(from) \in Nat /\ Len(to) \in Nat
  BY <1>1, <1>4, SeenLemma DEF LocksInv, SeenPlaces
<1>6. Total(m) = ToMove(Len(from) - Len(to))
  BY DEF Total
<1>7. Total(m) \in 0..Len(from) /\ Len(to) + Total(m) <= Len(from)
  <2>1. PICK a \in Nat, b \in Nat : a = Len(from) /\ b = Len(to) /\ a - b > 1
    BY <1>1, <1>5
  <2>2. ToMove(a - b) \in 0..a /\ b + ToMove(a - b) <= a
    BY <2>1, HalfLemma
  <2> QED  BY <1>6, <2>1, <2>2
<1>8. Len(to) + Total(m) <= QueueCap
  BY <1>5, <1>7, SchedulerAssumption, SMTT(30)
<1>9. k \in 0..(Total(m) - 1) /\ k + m.left = Total(m)
  BY <1>1, <1>7, SMTT(30) DEF Pushed
<1>10. k + 1 \in 1..Len(from)
  BY <1>5, <1>7, <1>9
<1>11. from[k + 1] \in Threads
  BY <1>1, <1>10, ElementOfSeq
<1>12. k \in Nat /\ Total(m) \in Nat
  BY <1>7, <1>9
<1> QED  BY <1>1, <1>2, <1>4, <1>5, <1>6, <1>7, <1>8, <1>9, <1>10, <1>11, <1>12 DEF LoopKnown

(* The next thread is popped from the longer queue.                          *)
LEMMA PopStep ==
  ASSUME LocksInv, NEW c \in Cpus, Pop(c)
  PROVE  LocksInv' /\ UNCHANGED Seen!vars
<1>1. PICK m, from, to, k : m = moving[c] /\ from = m.before[m.src] /\ to = m.before[m.dst] /\ k = Pushed(m)
  OBVIOUS
<1>2. at[c] = "pop" /\ InLoop(c)
  <2>1. at[c] = "pop"
    BY DEF Pop, Step
  <2> QED  BY <2>1 DEF LocksInv, Local, Loop
<1>3. /\ pc[c] = "balance"
      /\ m \in LoopRecords /\ m.src \in Cpus /\ m.dst \in Cpus /\ m.src # m.dst
      /\ {m.src, m.dst} = {c, other_cpu[c]}
      /\ QueueLock(m.src) \in held[c] /\ QueueLock(m.dst) \in held[c]
      /\ from \in Seq(Threads) /\ to \in Seq(Threads)
      /\ from = QueuesSeen[m.src] /\ to = QueuesSeen[m.dst]
      /\ Len(from) \in Nat /\ Len(to) \in Nat /\ Len(from) - Len(to) > 1
      /\ m.left \in 1..Total(m) /\ k \in 0..(Total(m) - 1)
      /\ k + 1 \in 1..Len(from) /\ from[k + 1] \in Threads
      /\ LoopAt(m, k, k + 1)
  <2>1. LoopKnown(c, m, from, to, k)
    BY <1>1, <1>2, LoopFacts
  <2> QED  BY <1>2, <2>1 DEF LoopKnown
<1>4. Head(ready_queue[m.src]) = from[k + 1] /\ Tail(ready_queue[m.src]) = SubSeq(from, k + 2, Len(from))
  <2>1. ready_queue[m.src] = SubSeq(from, k + 1, Len(from))
    <3>1. LoopAt(m, k, k + 1)
      BY <1>3
    <3> QED  BY <1>1, <3>1 DEF LoopAt
  <2>2. PICK j \in 1..Len(from) : j = k + 1
    BY <1>3
  <2>3. Len(from) \in j..Len(from) /\ j + 1 = k + 2
    BY <1>3, <2>2
  <2>4. Head(SubSeq(from, j, Len(from))) = from[j] /\ Tail(SubSeq(from, j, Len(from))) = SubSeq(from, j + 1, Len(from))
    BY <1>3, <2>3, HeadTailOfSubSeq
  <2> QED  BY <2>1, <2>2, <2>3, <2>4
<1>5. PICK n : n = [m EXCEPT !.thread = from[k + 1]]
  OBVIOUS
<1>6. /\ Step(c, "pop", "move", StateLock(from[k + 1])) /\ "move" \in Labels
      /\ ready_queue' = [ready_queue EXCEPT ![m.src] = SubSeq(from, k + 2, Len(from))]
      /\ moving' = [moving EXCEPT ![c] = n]
      /\ UNCHANGED <<online, thread_addr, sched_state, table, saved, spawning, stack, pc, other_cpu, lapic, held>>
  BY <1>1, <1>4, <1>5 DEF Pop, Labels
<1>7. StateLock(from[k + 1]) \in LockNames
  BY <1>3, LockNamesLemma
<1>8. /\ want[c] = NULL /\ at'[c] = "move" /\ want'[c] = StateLock(from[k + 1])
      /\ at' \in [Cpus -> Labels] /\ want' \in [Cpus -> LockNames \cup {NULL}]
      /\ \A d \in Cpus : d # c => at'[d] = at[d] /\ want'[d] = want[d]
  BY <1>6, <1>7, StepLemma
<1>9. /\ n \in LoopRecords /\ n.src = m.src /\ n.dst = m.dst /\ n.left = m.left
      /\ n.thread = from[k + 1] /\ n.before = m.before
  BY <1>3, <1>5 DEF LoopRecords
<1>10. /\ moving'[c] = n /\ moving' = [d \in Cpus |-> moving'[d]]
       /\ \A d \in Cpus : d # c => moving'[d] = moving[d]
       /\ InLoop(c)'
  BY <1>6, <1>9, LocksAssumption DEF LocksInv, LocksTypeOK, InLoop
<1>11. /\ ready_queue' \in [Cpus -> Seq(Threads)]
       /\ ready_queue'[m.src] = SubSeq(from, k + 2, Len(from))
       /\ \A q \in Cpus : q # m.src => ready_queue'[q] = ready_queue[q]
  <2>1. \A i \in (k + 2)..Len(from) : from[i] \in Threads
    BY <1>3, ElementOfSeq
  <2>2. SubSeq(from, k + 2, Len(from)) \in Seq(Threads)
    BY <1>3, <2>1, SubSeqProperties
  <2> QED  BY <1>3, <1>6, <2>2 DEF LocksInv, LocksTypeOK
<1>12. Total(n) = Total(m) /\ Pushed(n) = k
  BY <1>1, <1>9 DEF Total, Pushed
<1>13. LoopAt(n, k, k + 2)'
  <2>1. /\ ready_queue[m.dst] = to \o SubSeq(from, 1, k)
        /\ \A i \in 1..Len(from) : sched_state[from[i]] = ReadyOn(IF i <= k THEN m.dst ELSE m.src)
    <3>1. LoopAt(m, k, k + 1)
      BY <1>3
    <3> QED  BY <1>1, <3>1 DEF LoopAt
  <2>2. /\ ready_queue'[m.dst] = to \o SubSeq(from, 1, k)
        /\ \A i \in 1..Len(from) : sched_state'[from[i]] = ReadyOn(IF i <= k THEN m.dst ELSE m.src)
    BY <1>3, <1>6, <1>11, <2>1
  <2> QED  BY <1>1, <1>9, <1>11, <2>2, ZenonT(30) DEF LoopAt
<1>14. Local(c)'
  <2>1. held[c] = {QueueLock(c), QueueLock(other_cpu[c])}
    BY <1>2 DEF LocksInv, Local, Sections
  <2>2. Sections(c)' /\ Control(c)'
    BY <1>3, <1>6, <1>8, <1>9, <1>10, <2>1 DEF Sections, Control, Waits
  <2>3. Total(n)' = Total(n) /\ Pushed(n)' = k
    BY <1>12 DEF Total, Pushed
  <2>4. /\ n.before[n.src] = from /\ n.before[n.dst] = to /\ n.left \in 1..Total(n)
        /\ n.src \in Cpus /\ n.dst \in Cpus /\ n.src # n.dst /\ {n.src, n.dst} = {c, other_cpu'[c]}
    BY <1>1, <1>3, <1>6, <1>9, <1>12
  <2>5. Loop(c)'
    BY <1>3, <1>8, <1>9, <1>10, <1>13, <2>3, <2>4 DEF Loop
  <2> QED  BY <2>2, <2>5 DEF Local
<1>15. LocksTypeOK' /\ OneHolder'
  BY <1>6, <1>8, <1>10, <1>11 DEF LocksInv, LocksTypeOK, OneHolder
<1>16. /\ moving'[c].src = m.src /\ moving'[c].dst = m.dst
       /\ moving'[c].before[m.src] = QueuesSeen[m.src] /\ moving'[c].before[m.dst] = QueuesSeen[m.dst]
  BY <1>1, <1>3, <1>9, <1>10
<1>17. /\ at[c] # "push" /\ at'[c] # "push" /\ moving[c].src = m.src /\ moving[c].dst = m.dst
       /\ UNCHANGED <<online, thread_addr, table, saved, spawning, stack, pc, other_cpu, lapic>>
       /\ UNCHANGED <<sched_state, held>>
       /\ \A q \in Cpus : q \notin {m.src, m.dst} => ready_queue'[q] = ready_queue[q]
  BY <1>1, <1>2, <1>6, <1>8, <1>11
<1> QED  BY <1>3, <1>8, <1>10, <1>14, <1>15, <1>16, <1>17, LoopStep

(* A push of the next thread.                                                *)
LEMMA NextPushed ==
  ASSUME NEW T, NEW from \in Seq(T), NEW to \in Seq(T), NEW k \in Nat, k + 1 \in 1..Len(from)
  PROVE  /\ Append(to \o SubSeq(from, 1, k), from[k + 1]) = to \o SubSeq(from, 1, k + 1)
         /\ to \o SubSeq(from, 1, k + 1) \in Seq(T)
<1>0. PICK j \in 1..Len(from) : j = k + 1 /\ j - 1 = k
  OBVIOUS
<1>1. PICK t, s : t = from[j] /\ t \in T /\ s = SubSeq(from, 1, k)
  BY ElementOfSeq
<1>2. SubSeq(from, 1, j) = SubSeq(from, 1, j - 1) \o <<from[j]>>
  <2>1. 1 \in 1..Len(from)
    BY <1>0
  <2> QED  BY <2>1, SubSeqRecursiveSecond
<1>3. s \in Seq(T)
  <2>1. \A i \in 1..k : i \in 1..Len(from)
    OBVIOUS
  <2>2. \A i \in 1..k : from[i] \in T
    BY <2>1, ElementOfSeq
  <2> QED  BY <1>1, <2>2, SubSeqProperties
<1>4. <<t>> \in Seq(T)
  BY <1>1
<1>5. to \o s \in Seq(T) /\ s \o <<t>> \in Seq(T)
  BY <1>3, <1>4, ConcatProperties
<1>6. to \o (s \o <<t>>) \in Seq(T)
  BY <1>5, ConcatProperties
<1>7. Append(to \o s, t) = (to \o s) \o <<t>>
  BY <1>5, AppendIsConcat
<1>8. (to \o s) \o <<t>> = to \o (s \o <<t>>)
  <2>1. PICK u \in Seq(T) : u = <<t>>
    BY <1>4
  <2>2. (to \o s) \o u = to \o (s \o u)
    BY <1>3, <2>1, ConcatAssociative, SMTT(30)
  <2> QED  BY <2>1, <2>2
<1>9. SubSeq(from, 1, k + 1) = s \o <<t>>
  BY <1>0, <1>1, <1>2
<1> QED  BY <1>0, <1>1, <1>6, <1>7, <1>8, <1>9

(* The popped thread gets its new cpu, its state is unlocked, and it goes to *)
(* the end of the shorter queue.                                             *)
MoveEffect(c, m, from, to, k) ==
  /\ ready_queue' \in [Cpus -> Seq(Threads)]
  /\ sched_state' \in [Threads -> ThreadState]
  /\ held' \in [Cpus -> SUBSET LockNames]
  /\ held'[c] = {QueueLock(c), QueueLock(other_cpu[c])}
  /\ \A d \in Cpus : d # c => held'[d] = held[d]
  /\ \A q \in Cpus : q \notin {m.src, m.dst} => ready_queue'[q] = ready_queue[q]
  /\ \A t \in Threads : t # from[k + 1] => sched_state'[t] = sched_state[t]
  /\ ready_queue'[m.dst] = to \o SubSeq(from, 1, k + 1)
  /\ ready_queue'[m.src] = SubSeq(from, k + 2, Len(from))
  /\ \A i \in 1..Len(from) : sched_state'[from[i]] = ReadyOn(IF i <= k + 1 THEN m.dst ELSE m.src)
  /\ UNCHANGED <<online, thread_addr, table, saved, spawning, stack, lapic>>

LEMMA MoveThreadLemma ==
  ASSUME LocksInv, NEW c \in Cpus, at[c] = "move", want[c] = NULL, MoveThread(c),
         NEW m, NEW from, NEW to, NEW k, LoopKnown(c, m, from, to, k)
  PROVE  MoveEffect(c, m, from, to, k) /\ OneHolder'
<1>1. PICK t, src, dst : t = from[k + 1] /\ src = m.src /\ dst = m.dst
  OBVIOUS
<1>2. /\ src \in Cpus /\ dst \in Cpus /\ src # dst /\ t \in Threads /\ m.thread = t
      /\ m = moving[c] /\ from = m.before[src] /\ to = m.before[dst] /\ LoopAt(m, k, k + 2)
  BY <1>1 DEF LoopKnown
<1>3. from \in Seq(Threads) /\ to \in Seq(Threads) /\ NoDuplicates(from)
  BY DEF LoopKnown
<1>4. k \in Nat /\ k + 1 \in 1..Len(from)
  BY DEF LoopKnown
<1>5. /\ ready_queue[dst] = to \o SubSeq(from, 1, k)
      /\ ready_queue[src] = SubSeq(from, k + 2, Len(from))
      /\ \A i \in 1..Len(from) : sched_state[from[i]] = ReadyOn(IF i <= k THEN dst ELSE src)
  BY <1>1, <1>2, Zenon DEF LoopAt
<1>6. /\ ready_queue \in [Cpus -> Seq(Threads)] /\ sched_state \in [Threads -> ThreadState]
      /\ held \in [Cpus -> SUBSET LockNames]
  BY DEF LocksInv, LocksTypeOK
<1>7. /\ sched_state' = [sched_state EXCEPT ![t] = [sched_state[t] EXCEPT !.cpu = dst]]
      /\ ready_queue' = [ready_queue EXCEPT ![dst] = Append(ready_queue[dst], t)]
      /\ held' = [held EXCEPT ![c] = held[c] \ {StateLock(t)}]
      /\ UNCHANGED <<online, thread_addr, table, saved, spawning, stack, lapic>>
  BY <1>1, <1>2 DEF MoveThread, MovedCpu
<1>8. held[c] = {QueueLock(c), QueueLock(other_cpu[c]), StateLock(t)}
  <2>1. StateLock(t) # NULL
    BY <1>2, LockNamesLemma
  <2> QED  BY <1>2, <2>1 DEF LocksInv, Local, Sections, Waits
<1>9. /\ held' \in [Cpus -> SUBSET LockNames]
      /\ held'[c] = {QueueLock(c), QueueLock(other_cpu[c])}
      /\ \A d \in Cpus : d # c => held'[d] = held[d]
  BY <1>6, <1>7, <1>8, LockNamesLemma
<1>10. OneHolder'
  BY <1>8, <1>9 DEF LocksInv, OneHolder
<1>11. /\ sched_state' \in [Threads -> ThreadState] /\ sched_state'[t] = ReadyOn(dst)
       /\ \A u \in Threads : u # t => sched_state'[u] = sched_state[u]
  <2>1. sched_state[from[k + 1]] = ReadyOn(IF k + 1 <= k THEN dst ELSE src) /\ ~(k + 1 <= k)
    BY <1>4, <1>5
  <2>2. [ReadyOn(src) EXCEPT !.cpu = dst] = ReadyOn(dst)
    BY ThreadStateLemma
  <2>3. sched_state' = [sched_state EXCEPT ![t] = ReadyOn(dst)]
    BY <1>1, <1>7, <2>1, <2>2
  <2> QED  BY <1>2, <1>6, <2>3, ThreadStateLemma
<1>12. \A i \in 1..Len(from) : sched_state'[from[i]] = ReadyOn(IF i <= k + 1 THEN dst ELSE src)
  <2> SUFFICES ASSUME NEW i \in 1..Len(from)
               PROVE  sched_state'[from[i]] = ReadyOn(IF i <= k + 1 THEN dst ELSE src)
    OBVIOUS
  <2>1. CASE i = k + 1
    <3>1. i <= k + 1
      BY <1>4, <2>1
    <3> QED  BY <1>1, <1>11, <2>1, <3>1
  <2>2. CASE i # k + 1
    <3>1. from[i] # t /\ from[i] \in Threads
      BY <1>1, <1>3, <1>4, <2>2, ElementOfSeq DEF NoDuplicates
    <3>2. i <= k + 1 <=> i <= k
      BY <1>4, <2>2
    <3>3. sched_state'[from[i]] = sched_state[from[i]]
      BY <1>11, <3>1
    <3>4. sched_state[from[i]] = ReadyOn(IF i <= k THEN dst ELSE src)
      BY <1>5
    <3> QED  BY <3>2, <3>3, <3>4
  <2> QED  BY <2>1, <2>2
<1>13. /\ ready_queue' \in [Cpus -> Seq(Threads)]
       /\ \A q \in Cpus : q # dst => ready_queue'[q] = ready_queue[q]
       /\ ready_queue'[dst] = to \o SubSeq(from, 1, k + 1)
  <2>1. /\ Append(to \o SubSeq(from, 1, k), from[k + 1]) = to \o SubSeq(from, 1, k + 1)
        /\ to \o SubSeq(from, 1, k + 1) \in Seq(Threads)
    BY <1>3, <1>4, NextPushed
  <2>2. Append(ready_queue[dst], t) = to \o SubSeq(from, 1, k + 1)
    BY <1>1, <1>5, <2>1
  <2> QED  BY <1>2, <1>6, <1>7, <2>1, <2>2
<1>14. /\ ready_queue'[src] = SubSeq(from, k + 2, Len(from))
       /\ \A q \in Cpus : q \notin {m.src, m.dst} => ready_queue'[q] = ready_queue[q]
  BY <1>1, <1>2, <1>5, <1>13
<1>15. MoveEffect(c, m, from, to, k)
  BY <1>1, <1>7, <1>9, <1>11, <1>12, <1>13, <1>14, Zenon, ZenonT(30) DEF MoveEffect
<1> QED  BY <1>10, <1>15

LEMMA MoveOneStep ==
  ASSUME LocksInv, NEW c \in Cpus, MoveOne(c)
  PROVE  LocksInv' /\ UNCHANGED Seen!vars
<1>1. PICK m, from, to, k : m = moving[c] /\ from = m.before[m.src] /\ to = m.before[m.dst] /\ k = Pushed(m)
  OBVIOUS
<1>2. PICK n : n = [m EXCEPT !.left = m.left - 1]
  OBVIOUS
<1>3. /\ Step(c, "move", "pop", NULL) /\ "pop" \in Labels /\ MoveThread(c) /\ m.left > 1
      /\ moving' = [moving EXCEPT ![c] = n] /\ UNCHANGED <<pc, other_cpu>>
  BY <1>1, <1>2 DEF MoveOne, Labels
<1>4. /\ at[c] = "move" /\ want[c] = NULL /\ at'[c] = "pop" /\ want'[c] = NULL
      /\ at' \in [Cpus -> Labels] /\ want' \in [Cpus -> LockNames \cup {NULL}]
      /\ \A d \in Cpus : d # c => at'[d] = at[d] /\ want'[d] = want[d]
  BY <1>3, StepLemma
<1>5. LoopKnown(c, m, from, to, k) /\ InLoop(c)
  <2>1. InLoop(c)
    BY <1>4 DEF LocksInv, Local, Loop
  <2> QED  BY <1>1, <2>1, LoopFacts
<1>6. MoveEffect(c, m, from, to, k) /\ OneHolder'
  BY <1>3, <1>4, <1>5, MoveThreadLemma
<1>7. /\ pc[c] = "balance" /\ m \in LoopRecords /\ m.src \in Cpus /\ m.dst \in Cpus /\ m.src # m.dst
      /\ {m.src, m.dst} = {c, other_cpu[c]}
      /\ QueueLock(m.src) \in held[c] /\ QueueLock(m.dst) \in held[c]
      /\ from \in Seq(Threads) /\ to \in Seq(Threads)
      /\ from = QueuesSeen[m.src] /\ to = QueuesSeen[m.dst] /\ Len(from) - Len(to) > 1
  BY <1>5 DEF LoopKnown
<1>8. k \in Nat /\ Total(m) \in Nat /\ m.left \in 1..Total(m) /\ k + m.left = Total(m)
      /\ k + 1 \in 1..Len(from) /\ Len(from) \in Nat
  BY <1>5 DEF LoopKnown
<1>9. m.left - 1 \in 1..Total(m) /\ Total(m) - (m.left - 1) = k + 1 /\ m.left - 1 \in Nat
  BY <1>3, <1>8
<1>10. /\ n \in LoopRecords /\ n.src = m.src /\ n.dst = m.dst /\ n.left = m.left - 1 /\ n.before = m.before
  BY <1>2, <1>7, <1>9 DEF LoopRecords
<1>11. /\ moving'[c] = n /\ moving' = [d \in Cpus |-> moving'[d]]
       /\ \A d \in Cpus : d # c => moving'[d] = moving[d]
       /\ InLoop(c)'
  BY <1>3, <1>10, LocksAssumption DEF LocksInv, LocksTypeOK, InLoop
<1>12. Total(n) = Total(m) /\ Pushed(n) = k + 1
  <2>1. Total(n) = Total(m)
    BY <1>10 DEF Total
  <2> QED  BY <1>9, <1>10, <2>1 DEF Pushed
<1>13. LoopAt(n, k + 1, (k + 1) + 1)'
  <2>1. (k + 1) + 1 = k + 2
    BY <1>8
  <2>2. /\ ready_queue'[m.dst] = to \o SubSeq(from, 1, k + 1)
        /\ ready_queue'[m.src] = SubSeq(from, k + 2, Len(from))
        /\ \A i \in 1..Len(from) : sched_state'[from[i]] = ReadyOn(IF i <= k + 1 THEN m.dst ELSE m.src)
    BY <1>6, Zenon DEF MoveEffect
  <2>3. from = n.before[m.src] /\ to = n.before[m.dst] /\ n.src = m.src /\ n.dst = m.dst
    BY <1>1, <1>10
  <2> QED  BY <2>1, <2>2, <2>3, Zenon DEF LoopAt
<1>14. Local(c)'
  <2>1. held'[c] = {QueueLock(c), QueueLock(other_cpu'[c])}
    BY <1>3, <1>6 DEF MoveEffect
  <2>2. Sections(c)' /\ Control(c)'
    BY <1>3, <1>4, <1>7, <2>1 DEF Sections, Control
  <2>3. Total(n)' = Total(n) /\ Pushed(n)' = k + 1
    BY <1>12 DEF Total, Pushed
  <2>4. /\ n.before[n.src] = from /\ n.before[n.dst] = to /\ n.left \in 1..Total(n)
        /\ n.src \in Cpus /\ n.dst \in Cpus /\ n.src # n.dst /\ {n.src, n.dst} = {c, other_cpu'[c]}
    BY <1>1, <1>3, <1>7, <1>9, <1>10, <1>12
  <2>5. Loop(c)'
    BY <1>4, <1>7, <1>10, <1>11, <1>13, <2>3, <2>4 DEF Loop
  <2> QED  BY <2>2, <2>5 DEF Local
<1>15. /\ ready_queue' \in [Cpus -> Seq(Threads)] /\ sched_state' \in [Threads -> ThreadState]
       /\ held' \in [Cpus -> SUBSET LockNames]
       /\ \A d \in Cpus : d # c => held'[d] = held[d]
       /\ \A q \in Cpus : q \notin {m.src, m.dst} => ready_queue'[q] = ready_queue[q]
       /\ \A t \in Threads : t # from[k + 1] => sched_state'[t] = sched_state[t]
       /\ UNCHANGED <<online, thread_addr, table, saved, spawning, stack, lapic>>
  BY <1>6 DEF MoveEffect
<1>16. LocksTypeOK'
  BY <1>4, <1>11, <1>15 DEF LocksTypeOK
<1>17. \A t \in Threads : ~Holds(QueuesSeen[m.src], t) => sched_state'[t] = sched_state[t]
  BY <1>7, <1>8, <1>15 DEF Holds
<1>18. /\ moving'[c].src = m.src /\ moving'[c].dst = m.dst
       /\ moving'[c].before[m.src] = QueuesSeen[m.src] /\ moving'[c].before[m.dst] = QueuesSeen[m.dst]
  BY <1>1, <1>7, <1>10, <1>11
<1>19. /\ at[c] # "push" /\ at'[c] # "push" /\ moving[c].src = m.src /\ moving[c].dst = m.dst
       /\ UNCHANGED <<online, thread_addr, table, saved, spawning, stack, pc, other_cpu, lapic>>
  BY <1>1, <1>3, <1>4, <1>15
<1> QED  BY <1>4, <1>6, <1>7, <1>11, <1>14, <1>15, <1>16, <1>17, <1>18, <1>19, LoopStep, ZenonT(30)

(* The last thread is pushed: the whole loop is seen at once.                *)
LEMMA MoveLastStep ==
  ASSUME LocksInv, NEW c \in Cpus, MoveLast(c)
  PROVE  LocksInv' /\ Seen!Next
<1>1. PICK m, from, to, k : m = moving[c] /\ from = m.before[m.src] /\ to = m.before[m.dst] /\ k = Pushed(m)
  OBVIOUS
<1>2. PICK src, dst : src = m.src /\ dst = m.dst
  OBVIOUS
<1>3. /\ Step(c, "move", "print", TerminalLock) /\ "print" \in Labels /\ TerminalLock \in LockNames
      /\ MoveThread(c) /\ m.left = 1 /\ moving' = [moving EXCEPT ![c] = NULL]
      /\ Goto(c, "exit") /\ other_cpu' = [other_cpu EXCEPT ![c] = NULL]
  BY <1>1, LockNamesLemma DEF MoveLast, Labels
<1>4. /\ at[c] = "move" /\ want[c] = NULL /\ at'[c] = "print" /\ want'[c] = TerminalLock
      /\ at' \in [Cpus -> Labels] /\ want' \in [Cpus -> LockNames \cup {NULL}]
      /\ \A d \in Cpus : d # c => at'[d] = at[d] /\ want'[d] = want[d]
  BY <1>3 DEF Step, LocksInv, LocksTypeOK
<1>5. LoopKnown(c, m, from, to, k) /\ InLoop(c)
  <2>1. InLoop(c)
    BY <1>4 DEF LocksInv, Local, Loop
  <2> QED  BY <1>1, <2>1, LoopFacts
<1>6. MoveEffect(c, m, from, to, k) /\ OneHolder'
  BY <1>3, <1>4, <1>5, MoveThreadLemma
<1>7. /\ pc[c] = "balance" /\ src \in Cpus /\ dst \in Cpus /\ src # dst
      /\ {src, dst} = {c, other_cpu[c]}
      /\ QueueLock(src) \in held[c] /\ QueueLock(dst) \in held[c]
      /\ from \in Seq(Threads) /\ to \in Seq(Threads) /\ NoDuplicates(from)
      /\ from = QueuesSeen[src] /\ to = QueuesSeen[dst]
      /\ Carries(c, from[k + 1]) /\ moving[c].src = src /\ moving[c].before[src] = from
  BY <1>1, <1>2, <1>5 DEF LoopKnown, Carries, Holds
<1>8. /\ k \in Nat /\ k + 1 \in 1..Len(from) /\ Len(from) \in Nat /\ Len(to) \in Nat
      /\ ToMove(Len(from) - Len(to)) = k + 1
      /\ Len(from) >= Len(to) /\ ~(Len(to) + (k + 1) > QueueCap)
  <2>1. /\ k \in Nat /\ k + 1 \in 1..Len(from) /\ Len(from) \in Nat /\ Len(to) \in Nat
        /\ Total(m) \in Nat /\ k + m.left = Total(m) /\ Total(m) = ToMove(Len(from) - Len(to))
        /\ Len(from) - Len(to) > 1 /\ Len(to) + Total(m) <= QueueCap
    BY <1>5 DEF LoopKnown
  <2>2. Total(m) = k + 1
    BY <1>3, <2>1
  <2> QED  BY <2>1, <2>2, SchedulerAssumption
<1>9. /\ ready_queue' \in [Cpus -> Seq(Threads)] /\ sched_state' \in [Threads -> ThreadState]
      /\ held' \in [Cpus -> SUBSET LockNames]
      /\ held'[c] = {QueueLock(c), QueueLock(other_cpu[c])}
      /\ \A d \in Cpus : d # c => held'[d] = held[d]
      /\ \A q \in Cpus : q \notin {src, dst} => ready_queue'[q] = ready_queue[q]
      /\ \A t \in Threads : t # from[k + 1] => sched_state'[t] = sched_state[t]
      /\ UNCHANGED <<online, thread_addr, table, saved, spawning, stack, lapic>>
  BY <1>2, <1>6 DEF MoveEffect
<1>10. /\ ready_queue'[dst] = to \o SubSeq(from, 1, k + 1)
       /\ ready_queue'[src] = SubSeq(from, (k + 1) + 1, Len(from))
       /\ \A i \in 1..Len(from) : sched_state'[from[i]] = ReadyOn(IF i <= k + 1 THEN dst ELSE src)
  <2>1. (k + 1) + 1 = k + 2
    BY <1>8
  <2> QED  BY <1>2, <1>6, <2>1, Zenon DEF MoveEffect
<1>11. /\ moving' = [d \in Cpus |-> moving'[d]] /\ ~InLoop(c)'
       /\ \A d \in Cpus : d # c => moving'[d] = moving[d]
  BY <1>3 DEF LocksInv, LocksTypeOK, InLoop
<1>12. /\ pc'[c] = "exit"
       /\ \A d \in Cpus : d # c => pc'[d] = pc[d] /\ other_cpu'[d] = other_cpu[d]
  <2>1. pc = [d \in Cpus |-> pc[d]] /\ other_cpu = [d \in Cpus |-> other_cpu[d]]
    BY SeenLemma DEF LocksInv, SeenTypes
  <2> QED  BY <1>3, <2>1 DEF Goto
<1>13. LocksTypeOK'
  BY <1>4, <1>9, <1>11 DEF LocksTypeOK
<1>14. Local(c)'
  <2>1. other_cpu[c] \in Cpus
    BY <1>7
  <2>2. Sections(c)' /\ Control(c)'
    BY <1>4, <1>9, <1>12, <2>1 DEF Sections, Control, Waits
  <2> QED  BY <1>4, <1>11, <2>2 DEF Local, Loop
<1>15. /\ \A d \in Cpus : d # c => \A q \in Cpus : Moves(d, q) => q \notin {src, dst}
       /\ \A d \in Cpus : d # c => \A t \in Threads : Carries(d, t) => ~Holds(from, t)
       /\ \A d \in Cpus : \A t \in Threads : Pushes(d, t) => ~Holds(from, t)
  BY <1>7, LoopAlone
<1>16. \A t \in Threads : ~Holds(from, t) => sched_state'[t] = sched_state[t]
  BY <1>8, <1>9 DEF Holds
<1>17. \A d \in Cpus : d # c => Local(d)'
  BY <1>4, <1>9, <1>11, <1>12, <1>15, <1>16, OthersFrame, ZenonT(30)
<1>18. \A d \in Cpus : \A t : Pushes(d, t)' <=> Pushes(d, t)
  BY <1>4, <1>9, <1>12, PushesFrame
<1>19. /\ \A d \in Cpus : d # c => \A q : Moves(d, q)' <=> Moves(d, q)
       /\ \A d \in Cpus : d # c => \A t : Carries(d, t)' <=> Carries(d, t)
       /\ \A q : ~Moves(c, q)' /\ (Moves(c, q) <=> q \in {src, dst})
       /\ \A t : ~Carries(c, t)' /\ (Carries(c, t) <=> Holds(from, t))
  <2>1. /\ \A d \in Cpus : d # c => \A q : Moves(d, q)' <=> Moves(d, q)
        /\ \A d \in Cpus : d # c => \A t : Carries(d, t)' <=> Carries(d, t)
    BY <1>11 DEF Moves, Carries, InLoop
  <2>2. \A q : ~Moves(c, q)' /\ (Moves(c, q) <=> q \in {src, dst})
    BY <1>1, <1>2, <1>5, <1>11 DEF Moves
  <2>3. \A t : ~Carries(c, t)' /\ (Carries(c, t) <=> Holds(from, t))
    BY <1>1, <1>5, <1>11 DEF Carries
  <2> QED  BY <2>1, <2>2, <2>3
<1>20. LoopsApart'
  BY <1>18, <1>19 DEF LocksInv, LoopsApart
<1>21. QueuesKnown /\ QueuesKnown' /\ StatesKnown /\ StatesKnown'
  <2>1. LocalInv'
    BY <1>6, <1>14, <1>17 DEF LocalInv
  <2>2. QueuesKnown'
    BY <2>1, QueuesKnownLemma, PTL
  <2>3. StatesKnown'
    BY <1>20, StatesKnownLemma, PTL
  <2> QED  BY <2>2, <2>3, QueuesKnownLemma, StatesKnownLemma DEF LocksInv, LocalInv
<1>22. /\ QueuesSeen'[src] = SubSeq(from, (k + 1) + 1, Len(from))
       /\ QueuesSeen'[dst] = to \o SubSeq(from, 1, k + 1)
       /\ \A q \in Cpus : q \notin {src, dst} => QueuesSeen'[q] = QueuesSeen[q]
  <2>1. QueuesSeen'[src] = ready_queue'[src] /\ QueuesSeen'[dst] = ready_queue'[dst]
    BY <1>7, <1>15, <1>19, <1>21 DEF QueuesKnown
  <2>2. ASSUME NEW q \in Cpus, q \notin {src, dst} PROVE QueuesSeen'[q] = QueuesSeen[q]
    <3>1. CASE \E d \in Cpus : Moves(d, q)
      <4>1. PICK d \in Cpus : Moves(d, q)
        BY <3>1
      <4>2. d # c /\ Moves(d, q)' /\ moving'[d] = moving[d]
        BY <1>11, <1>19, <2>2, <4>1
      <4> QED  BY <1>21, <4>1, <4>2 DEF QueuesKnown
    <3>2. CASE \A d \in Cpus : ~Moves(d, q)
      BY <1>9, <1>19, <1>21, <2>2, <3>2 DEF QueuesKnown
    <3> QED  BY <3>1, <3>2
  <2> QED  BY <1>10, <2>1, <2>2
<1>23. QueuesSeen' = [QueuesSeen EXCEPT ![src] = SubSeq(from, (k + 1) + 1, Len(from)),
                                        ![dst] = to \o SubSeq(from, 1, k + 1)]
  BY <1>7, <1>22 DEF QueuesSeen
<1>24. ASSUME NEW t \in Threads
       PROVE  StatesSeen'[t] = IF Holds(SubSeq(from, 1, k + 1), t)
                               THEN [StatesSeen[t] EXCEPT !.cpu = dst] ELSE StatesSeen[t]
  <2>1. PICK moved : moved = SubSeq(from, 1, k + 1)
    OBVIOUS
  <2>2. Len(moved) = k + 1 /\ \A i \in 1..(k + 1) : moved[i] = from[i]
    <3>1. \A i \in 1..(k + 1) : from[i] \in Threads
      BY <1>7, <1>8, ElementOfSeq
    <3> QED  BY <1>8, <2>1, <3>1, SubSeqProperties
  <2>3. CASE Holds(from, t)
    <3>1. PICK i \in 1..Len(from) : from[i] = t
      BY <2>3 DEF Holds
    <3>2. Holds(moved, t) <=> i <= k + 1
      <4>1. i <= k + 1 => i \in 1..(k + 1)
        BY <1>8
      <4>2. \A j \in 1..(k + 1) : j \in 1..Len(from)
        BY <1>8
      <4> QED  BY <1>7, <1>8, <2>2, <3>1, <4>1, <4>2 DEF Holds, NoDuplicates
    <3>3. StatesSeen[t] = ReadyOn(src)
      BY <1>7, <2>3, SeenLemma DEF LocksInv, SeenPlaces
    <3>4. \A d \in Cpus : ~Carries(d, t)' /\ ~Pushes(d, t)'
      BY <1>15, <1>18, <1>19, <2>3
    <3>5. StatesSeen'[t] = sched_state'[t]
      BY <1>21, <3>4 DEF StatesKnown
    <3>6. sched_state'[t] = ReadyOn(IF i <= k + 1 THEN dst ELSE src)
      BY <1>10, <3>1
    <3>7. [ReadyOn(src) EXCEPT !.cpu = dst] = ReadyOn(dst)
      BY ThreadStateLemma
    <3> QED  BY <2>1, <3>2, <3>3, <3>5, <3>6, <3>7
  <2>4. CASE ~Holds(from, t)
    <3>1. ~Holds(moved, t)
      <4>1. \A j \in 1..(k + 1) : j \in 1..Len(from)
        BY <1>8
      <4> QED  BY <2>2, <2>4, <4>1 DEF Holds
    <3>2. sched_state'[t] = sched_state[t] /\ ~Carries(c, t) /\ ~Carries(c, t)'
      BY <1>16, <1>19, <2>4
    <3>3. CASE \E d \in Cpus : Pushes(d, t)
      BY <1>18, <1>21, <2>1, <3>1, <3>3 DEF StatesKnown
    <3>4. CASE \E d \in Cpus : Carries(d, t)
      <4>1. PICK d \in Cpus : Carries(d, t)
        BY <3>4
      <4>2. d # c /\ Carries(d, t)' /\ moving'[d] = moving[d]
        BY <1>11, <1>19, <3>2, <4>1
      <4>3. StatesSeen'[t] = StatesSeen[t]
        BY <1>21, <4>1, <4>2 DEF StatesKnown
      <4> QED  BY <2>1, <3>1, <4>3
    <3>5. CASE \A d \in Cpus : ~Pushes(d, t) /\ ~Carries(d, t)
      <4>1. \A d \in Cpus : ~Pushes(d, t)' /\ ~Carries(d, t)'
        BY <1>18, <1>19, <3>5
      <4>2. StatesSeen'[t] = StatesSeen[t]
        BY <1>21, <3>2, <3>5, <4>1 DEF StatesKnown
      <4> QED  BY <2>1, <3>1, <4>2
    <3> QED  BY <3>3, <3>4, <3>5
  <2> QED  BY <2>3, <2>4
<1>25. Seen!MoveThreads(c, src, dst)
  <2>1. StatesSeen' = [t \in Threads |->
          IF Seen!Holds(SubSeq(from, 1, k + 1), t)
          THEN [StatesSeen[t] EXCEPT !.cpu = Seen!MovedCpu(src, dst)] ELSE StatesSeen[t]]
    BY <1>24, SameOperators DEF StatesSeen, Seen!MovedCpu
  <2>2. Seen!ToMove(Len(from) - Len(to)) = k + 1
    BY <1>8, SameOperators
  <2>3. Seen!Goto(c, "exit")
    BY <1>3 DEF Goto, Seen!Goto
  <2> QED  BY <1>7, <1>8, <1>23, <2>1, <2>2, <2>3, SameOperators DEF Seen!MoveThreads
<1>26. Seen!Balance(c)
  <2>1. \/ src = c /\ dst = other_cpu[c]
        \/ src = other_cpu[c] /\ dst = c
    BY <1>7
  <2> QED  BY <1>3, <1>7, <1>9, <1>25, <2>1 DEF Seen!Balance
<1>27. Seen!Next
  BY <1>26 DEF Seen!Next
<1> QED  BY <1>6, <1>13, <1>14, <1>17, <1>20, <1>27, SeenStep

-----------------------------------------------------------------------------
(* The invariant *)

LEMMA LocksInitLemma == LocksInit => LocksInv /\ Seen!Init
<1> SUFFICES ASSUME LocksInit PROVE LocksInv /\ Seen!Init
  OBVIOUS
<1>1. /\ held = [c \in Cpus |-> {}] /\ want = [c \in Cpus |-> NULL]
      /\ at = [c \in Cpus |-> "start"] /\ moving = [c \in Cpus |-> NULL] /\ Init
  BY DEF LocksInit
<1>2. /\ ready_queue = [c \in Cpus |-> <<>>] /\ sched_state = [t \in Threads |-> NotReadied]
      /\ pc = [c \in Cpus |-> "off"]
  BY <1>1 DEF Init, NotReadied
<1>3. /\ \A c \in Cpus : ~InLoop(c) /\ \A x : ~Moves(c, x) /\ ~Carries(c, x) /\ ~Pushes(c, x)
  BY <1>1 DEF InLoop, Moves, Carries, Pushes
<1>4. QueuesSeen = ready_queue
  BY <1>2, <1>3 DEF QueuesSeen, QueueSeen
<1>5. StatesSeen = sched_state
  BY <1>2, <1>3 DEF StatesSeen, StateSeen
<1>6. Seen!Init
  BY <1>1, <1>4, <1>5 DEF Init, Seen!Init, Seen!Threads, Threads, Seen!AnyThread, AnyThread,
                          Seen!IdleThreads, IdleThreads, Seen!Idle, Idle
<1>7. Seen!SchedulerInv
  BY <1>6, Seen!InitInv, SchedulerAssumption
<1>8. LocksTypeOK
  BY <1>1, <1>2, ThreadStateLemma DEF LocksTypeOK, Labels
<1>9. OneHolder /\ LoopsApart
  BY <1>1, <1>3 DEF OneHolder, LoopsApart
<1>10. ASSUME NEW c \in Cpus PROVE Local(c)
  BY <1>1, <1>2, <1>3 DEF Local, Sections, Control, Loop
<1> QED  BY <1>6, <1>7, <1>8, <1>9, <1>10 DEF LocksInv

LEMMA LocksNextLemma ==
  LocksInv /\ [LocksNext]_<<vars, lockVars>> => LocksInv' /\ [Seen!Next]_(Seen!vars)
<1> SUFFICES ASSUME LocksInv, [LocksNext]_<<vars, lockVars>>
             PROVE  LocksInv' /\ [Seen!Next]_(Seen!vars)
  OBVIOUS
<1>1. CASE UNCHANGED <<vars, lockVars>>
  <2>1. UNCHANGED <<vars, held, want, at, moving>>
    BY <1>1 DEF lockVars
  <2>2. UNCHANGED Seen!vars /\ LoopsApart'
    BY <2>1, QuietSeen DEF LocksInv
  <2>3. Seen!SchedulerInv'
    BY <2>2, Seen!NextInv, SchedulerAssumption DEF LocksInv
  <2>4. LocksTypeOK' /\ OneHolder'
    BY <2>1 DEF vars, LocksInv, LocksTypeOK, OneHolder
  <2>5. ASSUME NEW d \in Cpus PROVE Local(d)'
    BY <2>1, LocalFrame DEF vars, LocksInv
  <2> QED  BY <2>2, <2>3, <2>4, <2>5 DEF LocksInv
<1>2. ASSUME NEW c \in Cpus, Acquire(c) PROVE LocksInv' /\ [Seen!Next]_(Seen!vars)
  BY <1>2, AcquireStep
<1>3. ASSUME NEW c \in Cpus, Greet(c) \/ Greeted(c) \/ Printed(c) PROVE LocksInv' /\ [Seen!Next]_(Seen!vars)
  BY <1>3, PrintStep
<1>4. ASSUME NEW c \in Cpus, Unlocked(c) PROVE LocksInv' /\ [Seen!Next]_(Seen!vars)
  BY <1>4, UnlockedStep
<1>5. ASSUME NEW c \in Cpus, AddCall(c) \/ ReadyCall(c) \/ SwitchCall(c) PROVE LocksInv' /\ [Seen!Next]_(Seen!vars)
  BY <1>5, CallStep
<1>6. ASSUME NEW c \in Cpus, AddLocked(c) PROVE LocksInv' /\ [Seen!Next]_(Seen!vars)
  BY <1>6, AddLockedStep
<1>7. ASSUME NEW c \in Cpus, ReadyState(c) \/ ReadyMark(c) \/ ReadyPush(c) PROVE LocksInv' /\ [Seen!Next]_(Seen!vars)
  BY <1>7, ReadyStateStep, ReadyMarkStep, ReadyPushStep
<1>8. ASSUME NEW c \in Cpus, SwitchLocked(c) PROVE LocksInv' /\ [Seen!Next]_(Seen!vars)
  BY <1>8, SwitchLockedStep
<1>9. ASSUME NEW c \in Cpus, BalanceFirst(c) \/ BalanceSecond(c) \/ BalancedEnough(c)
      PROVE  LocksInv' /\ [Seen!Next]_(Seen!vars)
  BY <1>9, BalanceLocksStep, BalancedEnoughStep
<1>10. ASSUME NEW c \in Cpus, NEW src \in Cpus, NEW dst \in Cpus, StartMoving(c, src, dst)
       PROVE  LocksInv' /\ [Seen!Next]_(Seen!vars)
  BY <1>10, StartMovingStep
<1>11. ASSUME NEW c \in Cpus, Pop(c) \/ MoveOne(c) \/ MoveLast(c) PROVE LocksInv' /\ [Seen!Next]_(Seen!vars)
  BY <1>11, PopStep, MoveOneStep, MoveLastStep
<1> QED  BY <1>1, <1>2, <1>3, <1>4, <1>5, <1>6, <1>7, <1>8, <1>9, <1>10, <1>11 DEF LocksNext

(* The invariant of the locked sections: each CPU has the locks its place in *)
(* sched/mod.rs and sched/thread.rs calls for, a lock has one holder, and a  *)
(* loop of do_load_balance has moved what it says it has.                    *)
THEOREM LocksInvariant == LocksSpec => []LocksInv
<1>1. LocksInit => LocksInv
  BY LocksInitLemma
<1>2. LocksInv /\ [LocksNext]_<<vars, lockVars>> => LocksInv'
  BY LocksNextLemma
<1> QED  BY <1>1, <1>2, PTL DEF LocksSpec

-----------------------------------------------------------------------------
(* The order of the locks *)

LEMMA KindLemma ==
  /\ Kind(TableLock) = 0 /\ Kind(TerminalLock) = 4
  /\ \A q : Kind(QueueLock(q)) = 2 /\ QueueLock(q)[2] = q
  /\ \A t : Kind(StateLock(t)) = IF \E u \in DOMAIN spawning : spawning[u] = t THEN 1 ELSE 3
BY DEF Kind, TableLock, TerminalLock, QueueLock, StateLock

LEMMA LockOrderLemma == LocksInv => LockOrder
<1> SUFFICES ASSUME LocksInv, NEW c \in Cpus, want[c] # NULL, NEW l \in held[c]
             PROVE  Before(l, want[c])
  BY DEF LockOrder
<1>1. Sections(c) /\ Control(c) /\ at[c] \in Labels
  BY DEF LocksInv, LocksTypeOK, Local
<1>2. CASE at[c] \in {"start", "greet", "out", "add", "lookup", "switch", "second", "pop"}
  BY <1>1, <1>2 DEF Sections, Waits
<1>3. CASE at[c] = "mark"
  BY <1>1, <1>3, KindLemma DEF Sections, Waits, Before
<1>4. CASE at[c] = "push"
  <2>1. Caller(c) \in DOMAIN spawning
    BY <1>1, <1>4, SeenLemma, CallersLemma DEF Control, LocksInv, SeenTypes
  <2>2. Kind(StateLock(spawning[Caller(c)])) = 1
    BY <2>1, KindLemma
  <2> QED  BY <1>1, <1>4, <2>2, KindLemma DEF Sections, Waits, Before
<1>5. CASE at[c] = "compare"
  <2>1. pc[c] = "balance"
    BY <1>1, <1>5 DEF Control
  <2>2. other_cpu[c] \in Cpus \ {c}
    BY <2>1, SeenLemma DEF LocksInv, SeenCpus, SeenTypes
  <2>3. First(c) < Second(c)
    BY <2>2, SchedulerAssumption DEF First, Second, IdOrder
  <2>4. l = QueueLock(First(c)) /\ want[c] = QueueLock(Second(c))
    BY <1>1, <1>5 DEF Sections, Waits
  <2> QED  BY <2>3, <2>4, KindLemma DEF Before
<1>6. CASE at[c] = "move"
  <2>1. PICK m, from, to, k : m = moving[c] /\ from = m.before[m.src] /\ to = m.before[m.dst] /\ k = Pushed(m)
    OBVIOUS
  <2>2. InLoop(c)
    BY <1>6 DEF LocksInv, Local, Loop
  <2>3. LoopKnown(c, m, from, to, k)
    BY <2>1, <2>2, LoopFacts
  <2>4. m.thread \in Threads /\ m.src \in Cpus /\ Holds(QueuesSeen[m.src], m.thread)
    BY <1>6, <2>3 DEF LoopKnown, Holds
  <2>5. \A u \in DOMAIN spawning : spawning[u] # m.thread
    BY <2>4, SeenLemma, ThreadNamesLemma DEF LocksInv, SeenTypes, SeenSpawns
  <2>6. Kind(StateLock(m.thread)) = 3
    BY <2>5, KindLemma
  <2>7. want[c] = StateLock(m.thread) /\ l \in {QueueLock(c), QueueLock(other_cpu[c])}
    BY <1>1, <1>6, <2>1 DEF Sections, Waits
  <2> QED  BY <2>6, <2>7, KindLemma DEF Before
<1>7. CASE at[c] = "print"
  BY <1>1, <1>7, KindLemma DEF Sections, Waits, Before
<1> QED  BY <1>1, <1>2, <1>3, <1>4, <1>5, <1>6, <1>7 DEF Labels

(* A number for each lock in this order, with CPU ids up to N.               *)
Rank(l, N) ==
  CASE Kind(l) = 2 -> 2 + l[2]
    [] Kind(l) \in {0, 1} -> Kind(l)
    [] OTHER -> Kind(l) + N

LEMMA RankLemma ==
  ASSUME NEW N \in Nat, Cpus \subseteq 0..N
  PROVE  /\ \A l \in LockNames : Rank(l, N) \in 0..(4 + N)
         /\ \A l, m \in LockNames : Before(l, m) => Rank(l, N) < Rank(m, N)
<1>1. ASSUME NEW l \in LockNames
      PROVE  /\ Kind(l) \in {0, 1, 2, 3, 4}
             /\ Kind(l) = 2 => l[2] \in 0..N
  <2>1. CASE l \in {TableLock, TerminalLock}
    BY <2>1, KindLemma
  <2>2. CASE \E t \in Threads : l = StateLock(t)
    BY <2>2, KindLemma
  <2>3. CASE \E c \in Cpus : l = QueueLock(c)
    BY <2>3, KindLemma
  <2> QED  BY <2>1, <2>2, <2>3 DEF LockNames
<1>2. \A l \in LockNames : Rank(l, N) \in 0..(4 + N)
  BY <1>1 DEF Rank
<1>3. ASSUME NEW l \in LockNames, NEW m \in LockNames, Before(l, m)
      PROVE  Rank(l, N) < Rank(m, N)
  BY <1>1, <1>3 DEF Rank, Before
<1> QED  BY <1>2, <1>3

(* A set of numbers up to a bound has a greatest one.                        *)
LEMMA GreatestLemma ==
  ASSUME NEW M \in Nat, NEW R, R \subseteq 0..M, R # {}
  PROVE  \E x \in R : \A y \in R : y <= x
<1>1. PICK T : T = {M - x : x \in R}
  OBVIOUS
<1>2. T \subseteq Nat /\ T # {}
  <2>1. \A x \in R : M - x \in Nat
    OBVIOUS
  <2>2. PICK x : x \in R
    OBVIOUS
  <2>3. M - x \in T
    BY <1>1, <2>2
  <2> QED  BY <1>1, <2>1, <2>3
<1>3. PICK y \in T : \A z \in T : ~(<<z, y>> \in OpToRel(<, Nat))
  BY <1>2, NatLessThanWellFounded, WFMin
<1>4. \A z \in T : ~(z < y)
  BY <1>2, <1>3 DEF OpToRel
<1>5. PICK x \in R : y = M - x
  BY <1>1, <1>3
<1>6. ASSUME NEW w \in R PROVE w <= x
  <2>1. M - w \in T /\ w \in 0..M /\ x \in 0..M
    BY <1>1, <1>5
  <2>2. ~(M - w < M - x)
    BY <1>4, <1>5, <2>1
  <2> QED  BY <2>1, <2>2
<1> QED  BY <1>5, <1>6

(* Whoever waits for the lock of the highest rank waits for none that waits. *)
LEMMA NoCircleLemma ==
  ASSUME NEW N \in Nat, Cpus \subseteq 0..N, LocksInv
  PROVE  NoCircularWait
<1> SUFFICES ASSUME NEW S \in SUBSET Cpus, S # {}, \A c \in S : \E d \in S : WaitsFor(c, d)
             PROVE  FALSE
  BY DEF NoCircularWait
<1>1. \A c \in S : c \in Cpus /\ want[c] \in LockNames
  BY DEF WaitsFor, LocksInv, LocksTypeOK
<1>2. PICK R : R = {Rank(want[c], N) : c \in S}
  OBVIOUS
<1>3. R \subseteq 0..(4 + N) /\ R # {} /\ 4 + N \in Nat
  <2>1. \A c \in S : Rank(want[c], N) \in 0..(4 + N)
    BY <1>1, RankLemma
  <2>2. PICK c : c \in S
    OBVIOUS
  <2>3. Rank(want[c], N) \in R
    BY <1>2, <2>2
  <2>4. 4 + N \in Nat
    OBVIOUS
  <2> QED  BY <1>2, <2>1, <2>3, <2>4
<1>4. PICK x \in R : \A y \in R : y <= x
  BY <1>3, GreatestLemma
<1>5. PICK c \in S : x = Rank(want[c], N)
  BY <1>2, <1>4
<1>6. PICK d \in S : WaitsFor(c, d)
  BY <1>5
<1>7. Before(want[c], want[d])
  <2>1. want[c] \in held[d] /\ want[d] # NULL
    BY <1>1, <1>5, <1>6, LocksAssumption DEF WaitsFor
  <2> QED  BY <1>1, <1>6, <2>1, LockOrderLemma DEF LockOrder
<1>8. Rank(want[c], N) < Rank(want[d], N)
  BY <1>1, <1>5, <1>6, <1>7, RankLemma
<1>9. Rank(want[d], N) \in R
  BY <1>2, <1>6
<1>10. Rank(want[d], N) <= Rank(want[c], N)
  BY <1>4, <1>5, <1>9
<1>11. Rank(want[c], N) \in Int /\ Rank(want[d], N) \in Int
  <2>1. Rank(want[c], N) \in 0..(4 + N) /\ Rank(want[d], N) \in 0..(4 + N)
    BY <1>1, <1>5, <1>6, RankLemma
  <2> QED  BY <2>1
<1> QED  BY <1>8, <1>10, <1>11

(* LockOrder for any CPUs and threads: sched/mod.rs and sched/thread.rs ask  *)
(* for each lock after those that are held, in one order.                    *)
THEOREM LocksInOrder == LocksSpec => []LockOrder
<1>1. LocksInv => LockOrder
  BY LockOrderLemma
<1> QED  BY <1>1, LocksInvariant, PTL

(* NoCircularWait for any CPUs with ids up to a bound, as CPUS sets one:     *)
(* the lock order of spawn, switch and maybe_load_balance keeps CPUs from    *)
(* spinning for one another for ever.                                        *)
THEOREM NoCirclesOfWaits ==
  ASSUME NEW N \in Nat, Cpus \subseteq 0..N
  PROVE  LocksSpec => []NoCircularWait
<1>1. LocksInv => NoCircularWait
  BY NoCircleLemma
<1> QED  BY <1>1, LocksInvariant, PTL

-----------------------------------------------------------------------------
(* The refinement *)

LEMMA SameActions ==
  ASSUME NEW c
  PROVE  /\ Coarse!SetupTls(c) <=> Seen!SetupTls(c)
         /\ Coarse!ForceSwitchToIdle(c) <=> Seen!ForceSwitchToIdle(c)
         /\ \A t : Coarse!AddThread(c, t) <=> Seen!AddThread(c, t)
         /\ Coarse!Ready(c) <=> Seen!Ready(c)
         /\ Coarse!TimerInterrupt(c) <=> Seen!TimerInterrupt(c)
         /\ Coarse!Switch(c) <=> Seen!Switch(c)
         /\ Coarse!PickNoCpu(c) <=> Seen!PickNoCpu(c)
         /\ \A d : Coarse!PickCpu(c, d) <=> Seen!PickCpu(c, d)
         /\ Coarse!Balance(c) <=> Seen!Balance(c)
         /\ Coarse!TimerReturn(c) <=> Seen!TimerReturn(c)
<1> USE DEF Coarse!Goto, Seen!Goto, Coarse!Idle, Seen!Idle
<1>1. Coarse!SetupTls(c) <=> Seen!SetupTls(c)
  BY DEF Coarse!SetupTls, Seen!SetupTls
<1>2. Coarse!ForceSwitchToIdle(c) <=> Seen!ForceSwitchToIdle(c)
  BY DEF Coarse!ForceSwitchToIdle, Seen!ForceSwitchToIdle
<1>3. /\ Coarse!Caller(c) = Seen!Caller(c) /\ (Coarse!MaySpawn(c) <=> Seen!MaySpawn(c))
      /\ Coarse!Threads = Seen!Threads
  BY DEF Coarse!Caller, Seen!Caller, Coarse!MaySpawn, Seen!MaySpawn, Coarse!Threads, Seen!Threads
<1>4. \A t : Coarse!AddThread(c, t) <=> Seen!AddThread(c, t)
  BY <1>3 DEF Coarse!AddThread, Seen!AddThread, Coarse!FirstEmptySlot, Seen!FirstEmptySlot
<1>5. Coarse!Ready(c) <=> Seen!Ready(c)
  BY <1>3 DEF Coarse!Ready, Seen!Ready
<1>6. Coarse!TimerInterrupt(c) <=> Seen!TimerInterrupt(c)
  BY DEF Coarse!TimerInterrupt, Seen!TimerInterrupt, Coarse!RegsSaved, Seen!RegsSaved
<1>7. Coarse!Switch(c) <=> Seen!Switch(c)
  BY DEF Coarse!Switch, Seen!Switch, Coarse!RequeueCurrent, Seen!RequeueCurrent
<1>8. Coarse!PickNoCpu(c) <=> Seen!PickNoCpu(c)
  BY DEF Coarse!PickNoCpu, Seen!PickNoCpu
<1>9. \A d : Coarse!PickCpu(c, d) <=> Seen!PickCpu(c, d)
  BY DEF Coarse!PickCpu, Seen!PickCpu
<1>10. Coarse!Balance(c) <=> Seen!Balance(c)
  BY Zenon DEF Coarse!Balance, Seen!Balance, Coarse!MoveThreads, Seen!MoveThreads, Coarse!ToMove, Seen!ToMove,
         Coarse!MovedCpu, Seen!MovedCpu, Coarse!Holds, Seen!Holds, Coarse!Threads, Seen!Threads
<1>11. Coarse!TimerReturn(c) <=> Seen!TimerReturn(c)
  BY DEF Coarse!TimerReturn, Seen!TimerReturn, Coarse!Rearmed, Seen!Rearmed
<1> QED  BY <1>1, <1>2, <1>4, <1>5, <1>6, <1>7, <1>8, <1>9, <1>10, <1>11

LEMMA SameSpec ==
  /\ Coarse!Init <=> Seen!Init
  /\ [Coarse!Next]_(Coarse!vars) <=> [Seen!Next]_(Seen!vars)
<1>1. Coarse!Init <=> Seen!Init
  BY DEF Coarse!Init, Seen!Init, Coarse!Threads, Seen!Threads, Coarse!AnyThread, Seen!AnyThread,
         Coarse!IdleThreads, Seen!IdleThreads, Coarse!Idle, Seen!Idle
<1>2. Coarse!Threads = Seen!Threads
  BY DEF Coarse!Threads, Seen!Threads
<1>3. Coarse!Next <=> Seen!Next
  BY <1>2, SameActions DEF Coarse!Next, Seen!Next, Coarse!Boot, Seen!Boot, Coarse!Spawn, Seen!Spawn,
                           Coarse!Pick, Seen!Pick
<1>4. Coarse!vars = Seen!vars /\ Coarse!vars' = Seen!vars'
  BY DEF Coarse!vars, Seen!vars
<1> QED  BY <1>1, <1>3, <1>4

(* SectionsAtomic for any CPUs and threads: each critical section of switch, *)
(* spawn, ready and maybe_load_balance is one step of Scheduler to everyone  *)
(* else, so what is proved about Scheduler holds with the locks taken and    *)
(* the data written piece by piece.                                          *)
THEOREM LockedSectionsAtomic == LocksSpec => SectionsAtomic
<1>1. LocksInit => Coarse!Init
  BY LocksInitLemma, SameSpec
<1>2. LocksInv /\ [LocksNext]_<<vars, lockVars>> => [Coarse!Next]_(Coarse!vars)
  BY LocksNextLemma, SameSpec
<1> QED  BY <1>1, <1>2, LocksInvariant, PTL DEF LocksSpec, SectionsAtomic, Coarse!Spec
=============================================================================
