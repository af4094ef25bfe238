--------------------------- MODULE SchedulerProofs ---------------------------
(***************************************************************************)
(* Proofs about Scheduler for any number of CPUs and threads: no thread is  *)
(* lost or duplicated, sched_state.cpu is right, a thread is only resumed   *)
(* from registers that were saved, and no ready queue ever overflows; with  *)
(* two CPUs, no two CPUs execute on one stack.                              *)
(***************************************************************************)
EXTENDS Scheduler, FiniteSetTheorems, SequenceTheorems, TLAPS

-----------------------------------------------------------------------------
(* What the queue operations do to membership and to distinctness.          *)

(* Queue::push                                                              *)
LEMMA PushLemma ==
  ASSUME NEW T, NEW q \in Seq(T), NEW t \in T,
         NoDuplicates(q), ~Holds(q, t)
  PROVE  /\ Append(q, t) \in Seq(T)
         /\ NoDuplicates(Append(q, t))
         /\ \A u : Holds(Append(q, t), u) <=> Holds(q, u) \/ u = t
<1>1. /\ Len(q) \in Nat
      /\ Append(q, t) \in Seq(T)
      /\ Len(Append(q, t)) = Len(q) + 1
      /\ \A i \in 1..Len(q) : Append(q, t)[i] = q[i]
      /\ Append(q, t)[Len(q) + 1] = t
  OBVIOUS
<1>2. \A u : Holds(Append(q, t), u) <=> Holds(q, u) \/ u = t
  BY <1>1 DEF Holds
<1>3. NoDuplicates(Append(q, t))
  BY <1>1 DEF NoDuplicates, Holds
<1> QED  BY <1>1, <1>2, <1>3

(* Queue::pop                                                               *)
LEMMA PopLemma ==
  ASSUME NEW T, NEW q \in Seq(T), q # <<>>, NoDuplicates(q)
  PROVE  /\ Head(q) \in T
         /\ Tail(q) \in Seq(T)
         /\ Len(Tail(q)) = Len(q) - 1
         /\ NoDuplicates(Tail(q))
         /\ Holds(q, Head(q)) /\ ~Holds(Tail(q), Head(q))
         /\ \A u : Holds(q, u) <=> Holds(Tail(q), u) \/ u = Head(q)
<1>1. /\ Len(q) \in Nat \ {0}
      /\ Head(q) = q[1] /\ q[1] \in T
      /\ Tail(q) \in Seq(T)
      /\ Len(Tail(q)) = Len(q) - 1
      /\ \A i \in 1..Len(Tail(q)) : Tail(q)[i] = q[i + 1]
  BY HeadTailProperties, EmptySeq, ElementOfSeq
<1>2. NoDuplicates(Tail(q))
  BY <1>1 DEF NoDuplicates
<1>3. Holds(q, Head(q)) /\ ~Holds(Tail(q), Head(q))
  BY <1>1 DEF NoDuplicates, Holds
<1>4. ASSUME NEW u
      PROVE  Holds(q, u) <=> Holds(Tail(q), u) \/ u = Head(q)
  <2>1. ASSUME NEW i \in 1..Len(q), q[i] = u, i # 1
        PROVE  i - 1 \in 1..Len(Tail(q)) /\ Tail(q)[i - 1] = u
    BY <1>1, <2>1
  <2>2. Holds(q, u) => Holds(Tail(q), u) \/ u = Head(q)
    BY <1>1, <2>1 DEF Holds
  <2>3. ASSUME NEW i \in 1..Len(Tail(q)), Tail(q)[i] = u
        PROVE  i + 1 \in 1..Len(q) /\ q[i + 1] = u
    BY <1>1, <2>3
  <2>4. Holds(Tail(q), u) => Holds(q, u)
    BY <2>3 DEF Holds
  <2> QED  BY <1>3, <2>2, <2>4
<1> QED  BY <1>1, <1>2, <1>3, <1>4

(* The loop of do_load_balance: n pops from a, each pushed to b.            *)
LEMMA MoveLemma ==
  ASSUME NEW T, NEW a \in Seq(T), NEW b \in Seq(T), NEW n \in 0..Len(a),
         NoDuplicates(a), NoDuplicates(b), \A u : ~(Holds(a, u) /\ Holds(b, u))
  PROVE  LET m  == SubSeq(a, 1, n)
             aa == SubSeq(a, n + 1, Len(a))
             bb == b \o m
         IN  /\ aa \in Seq(T) /\ bb \in Seq(T)
             /\ Len(aa) = Len(a) - n /\ Len(bb) = Len(b) + n
             /\ NoDuplicates(aa) /\ NoDuplicates(bb)
             /\ \A u : Holds(a, u) <=> Holds(aa, u) \/ Holds(m, u)
             /\ \A u : Holds(bb, u) <=> Holds(b, u) \/ Holds(m, u)
             /\ \A u : ~(Holds(aa, u) /\ Holds(m, u))
<1> DEFINE m  == SubSeq(a, 1, n)
           aa == SubSeq(a, n + 1, Len(a))
           bb == b \o m
<1>0. Len(a) \in Nat /\ Len(b) \in Nat /\ \A i \in 1..Len(a) : a[i] \in T
  BY ElementOfSeq
<1>1. /\ m \in Seq(T) /\ Len(m) = n
      /\ \A i \in 1..n : m[i] = a[i]
  BY <1>0, SubSeqProperties
<1>2. /\ aa \in Seq(T) /\ Len(aa) = Len(a) - n
      /\ \A i \in 1..(Len(a) - n) : aa[i] = a[i + n]
  BY <1>0, SubSeqProperties
<1>3. /\ bb \in Seq(T) /\ Len(bb) = Len(b) + n
      /\ \A i \in 1..(Len(b) + n) : bb[i] = IF i <= Len(b) THEN b[i] ELSE m[i - Len(b)]
  BY <1>1, ConcatProperties
<1> HIDE DEF m, aa, bb
<1>8. /\ \A i \in 1..Len(b) : i \in 1..Len(bb) /\ bb[i] = b[i]
      /\ \A i \in 1..n : i + Len(b) \in 1..Len(bb) /\ bb[i + Len(b)] = m[i]
  <2>1. ASSUME NEW i \in 1..Len(b)
        PROVE  i \in 1..Len(bb) /\ bb[i] = b[i]
    BY <1>0, <1>3
  <2>2. ASSUME NEW i \in 1..n
        PROVE  i + Len(b) \in 1..Len(bb) /\ bb[i + Len(b)] = m[i]
    <3> DEFINE k == i + Len(b)
    <3>1. k \in 1..(Len(b) + n) /\ ~(k <= Len(b)) /\ k - Len(b) = i
      BY <1>0
    <3> HIDE DEF k
    <3>2. k \in 1..Len(bb) /\ bb[k] = m[i]
      BY <1>3, <3>1
    <3> QED  BY <3>2 DEF k
  <2> QED  BY <2>1, <2>2
<1>4. NoDuplicates(aa)
  <2> SUFFICES ASSUME NEW i \in 1..Len(aa), NEW j \in 1..Len(aa), aa[i] = aa[j]
               PROVE  i = j
    BY DEF NoDuplicates
  <2>1. a[i + n] = a[j + n] /\ i + n \in 1..Len(a) /\ j + n \in 1..Len(a)
    BY <1>0, <1>2
  <2>2. i + n = j + n
    BY <2>1 DEF NoDuplicates
  <2> QED  BY <1>0, <1>2, <2>2
<1>5. ASSUME NEW u
      PROVE  /\ Holds(a, u) <=> Holds(aa, u) \/ Holds(m, u)
             /\ ~(Holds(aa, u) /\ Holds(m, u))
  <2>1. ASSUME NEW i \in 1..Len(a), a[i] = u, i > n
        PROVE  i - n \in 1..Len(aa) /\ aa[i - n] = u
    BY <1>0, <1>2, <2>1
  <2>2. Holds(a, u) => Holds(aa, u) \/ Holds(m, u)
    BY <1>0, <1>1, <2>1 DEF Holds
  <2>3. ASSUME NEW i \in 1..Len(aa), aa[i] = u
        PROVE  i + n \in 1..Len(a) /\ a[i + n] = u
    BY <1>0, <1>2, <2>3
  <2>4. ASSUME NEW i \in 1..Len(m), m[i] = u
        PROVE  i \in 1..Len(a) /\ a[i] = u
    BY <1>0, <1>1, <2>4
  <2>5. Holds(aa, u) \/ Holds(m, u) => Holds(a, u)
    BY <2>3, <2>4 DEF Holds
  <2>6. ~(Holds(aa, u) /\ Holds(m, u))
    <3> SUFFICES ASSUME NEW i \in 1..Len(aa), aa[i] = u, NEW j \in 1..Len(m), m[j] = u
                 PROVE  FALSE
      BY DEF Holds
    <3> QED  BY <1>0, <1>1, <1>2, <2>3, <2>4 DEF NoDuplicates
  <2> QED  BY <2>2, <2>5, <2>6
<1>6. ASSUME NEW u
      PROVE  Holds(bb, u) <=> Holds(b, u) \/ Holds(m, u)
  <2>1. ASSUME NEW i \in 1..n, m[i] = u
        PROVE  i + Len(b) \in 1..Len(bb) /\ bb[i + Len(b)] = u
    BY <1>8, <2>1
  <2>2. ASSUME NEW i \in 1..Len(b), b[i] = u
        PROVE  i \in 1..Len(bb) /\ bb[i] = u
    BY <1>8, <2>2
  <2>3. Holds(b, u) \/ Holds(m, u) => Holds(bb, u)
    BY <1>1, <2>1, <2>2 DEF Holds
  <2>4. ASSUME NEW i \in 1..Len(bb), bb[i] = u, i > Len(b)
        PROVE  i - Len(b) \in 1..Len(m) /\ m[i - Len(b)] = u
    BY <1>0, <1>1, <1>3, <2>4
  <2>5. ASSUME NEW i \in 1..Len(bb), bb[i] = u, i <= Len(b)
        PROVE  i \in 1..Len(b) /\ b[i] = u
    BY <1>0, <1>3, <2>5
  <2>6. Holds(bb, u) => Holds(b, u) \/ Holds(m, u)
    BY <1>0, <2>4, <2>5 DEF Holds
  <2> QED  BY <2>3, <2>6
<1>7. NoDuplicates(bb)
  <2> SUFFICES ASSUME NEW i \in 1..Len(bb), NEW j \in 1..Len(bb), bb[i] = bb[j]
               PROVE  i = j
    BY DEF NoDuplicates
  <2>1. CASE i <= Len(b) /\ j <= Len(b)
    <3>1. i \in 1..Len(b) /\ j \in 1..Len(b)
      BY <1>0, <1>3, <2>1
    <3> QED  BY <1>8, <3>1 DEF NoDuplicates
  <2>2. ASSUME NEW k \in 1..Len(bb), k > Len(b)
        PROVE  /\ k - Len(b) \in 1..n /\ k - Len(b) \in 1..Len(a)
               /\ bb[k] = a[k - Len(b)]
    BY <1>0, <1>1, <1>3, <2>2
  <2>3. CASE i > Len(b) /\ j > Len(b)
    <3>1. a[i - Len(b)] = a[j - Len(b)]
      BY <2>2, <2>3
    <3>2. i - Len(b) = j - Len(b)
      BY <2>2, <2>3, <3>1 DEF NoDuplicates
    <3> QED  BY <1>0, <1>3, <3>2
  <2>4. ASSUME NEW k \in 1..Len(b), NEW l \in 1..Len(a)
        PROVE  b[k] # a[l]
    <3>1. Holds(b, b[k]) /\ Holds(a, a[l])
      BY DEF Holds
    <3> QED  BY <3>1
  <2>5. ASSUME NEW k \in 1..Len(bb), NEW l \in 1..Len(bb), k <= Len(b), l > Len(b)
        PROVE  bb[k] # bb[l]
    <3>1. k \in 1..Len(b) /\ bb[k] = b[k]
      BY <1>0, <1>3, <2>5
    <3> QED  BY <2>2, <2>4, <2>5, <3>1
  <2> QED  BY <1>0, <1>3, <2>1, <2>3, <2>5
<1> QED  BY <1>1, <1>2, <1>3, <1>4, <1>5, <1>6, <1>7 DEF m, aa, bb

(* A queue without duplicates holds no more entries than the table has       *)
(* slots, and fewer if some slot's thread is not in it.                      *)
LEMMA QueueBoundLemma ==
  ASSUME TableCap \in Nat, NEW q \in Seq(Threads), NoDuplicates(q)
  PROVE  /\ Len(q) <= TableCap
         /\ \A t \in Threads : ~Holds(q, t) => Len(q) < TableCap
<1>1. /\ Len(q) \in Nat /\ q \in [1..Len(q) -> Threads]
      /\ IsFiniteSet(1..Len(q)) /\ Cardinality(1..Len(q)) = Len(q)
  BY FS_Interval, LenProperties, SMTT(30)
<1>2. IsFiniteSet(Threads) /\ Cardinality(Threads) = TableCap
  BY FS_Interval DEF Threads
<1>3. q \in Injection(1..Len(q), Threads)
  BY <1>1 DEF Injection, IsInjective, NoDuplicates
<1>4. Len(q) <= TableCap
  BY <1>1, <1>2, <1>3, FS_Injection
<1>5. ASSUME NEW t \in Threads, ~Holds(q, t)
      PROVE  Len(q) < TableCap
  <2>1. q \notin Surjection(1..Len(q), Threads)
    BY <1>1, <1>5 DEF Surjection, Holds
  <2>2. Cardinality(1..Len(q)) # Cardinality(Threads)
    BY <1>2, <1>3, <2>1, FS_Injection
  <2> QED  BY <1>1, <1>2, <1>4, <2>2
<1> QED  BY <1>4, <1>5

-----------------------------------------------------------------------------
(* The inductive invariant.                                                 *)

(* What boot guarantees: a CPU is published in CPUS only with its queue in   *)
(* place, and from force_switch_to_idle on it always has a current thread.   *)
CpuInv ==
  \A c \in Cpus :
    /\ c \in online => pc[c] # "off"
    /\ pc[c] = "off" => ready_queue[c] = <<>>
    /\ pc[c] \in {"off", "boot"} => thread_addr[c] = NULL
    /\ pc[c] \notin {"off", "boot"} => thread_addr[c] \in Threads \cup {Idle(c)}
    /\ pc[c] = "balance" => other_cpu[c] \in online \ {c}

(* A thread between the two critical sections of spawn_raw has a slot of its *)
(* own in the table, is still Born, and belongs to one caller.               *)
SpawnInv ==
  /\ \A t \in Threads :
       IF sched_state[t].state = "Ready" THEN t \in table ELSE sched_state[t].cpu = NULL
  /\ \A x \in AnyThread : spawning[x] # NULL =>
       /\ spawning[x] \in table
       /\ spawning[x] \in saved
       /\ sched_state[spawning[x]].state = "Born"
       /\ \A y \in AnyThread : spawning[y] = spawning[x] => x = y

SchedulerInv ==
  /\ TypeOK
  /\ PlacedOnce
  /\ CpuFieldCurrent
  /\ ReadyQueueNeverFull
  /\ ResumesFromSavedRegs
  /\ CpuInv
  /\ SpawnInv

(* The names of threads, idle threads and NULL do not clash.                *)
LEMMA NameLemma ==
  /\ \A c \in Cpus : Idle(c) \in AnyThread /\ Idle(c) \notin Threads /\ Idle(c) # NULL
  /\ \A c, d \in Cpus : Idle(c) = Idle(d) => c = d
  /\ \A t \in Threads : t \in AnyThread /\ t # NULL
  /\ \A c \in Cpus : c # NULL
  /\ NULL \notin AnyThread
BY SchedulerAssumption DEF Idle, IdleThreads, AnyThread, Threads

(* SchedulerInv holds before any CPU has started.                           *)
LEMMA InitInv == Init => SchedulerInv
<1> SUFFICES ASSUME Init PROVE SchedulerInv
  OBVIOUS
<1>1. \A t : ~Holds(<<>>, t)
  BY DEF Holds
<1>2. NoDuplicates(<<>>)
  BY DEF NoDuplicates
<1>3. \A t \in Threads, c \in Cpus : ~At(t, c) /\ ~Queued(t, c)
  BY <1>1, NameLemma DEF Init, At, Queued
<1>4. TypeOK
  BY DEF Init, TypeOK
<1>5. PlacedOnce
  BY <1>2, <1>3 DEF Init, PlacedOnce
<1> QED
  BY <1>3, <1>4, <1>5 DEF Init, SchedulerInv, CpuFieldCurrent, ReadyQueueNeverFull,
     ResumesFromSavedRegs, CpuInv, SpawnInv, Handler

(* An action that moves no thread and keeps the queues as they are keeps the *)
(* three placement properties.                                               *)
LEMMA SamePlaces ==
  ASSUME PlacedOnce, CpuFieldCurrent,
         UNCHANGED <<ready_queue, sched_state>>,
         \A t \in Threads, d \in Cpus : thread_addr'[d] = t <=> thread_addr[d] = t
  PROVE  PlacedOnce' /\ CpuFieldCurrent'
<1>1. \A t \in Threads, d \in Cpus : (Queued(t, d)' <=> Queued(t, d)) /\ (At(t, d)' <=> At(t, d))
  BY DEF Queued, At
<1>2. PlacedOnce'
  BY <1>1 DEF PlacedOnce
<1>3. CpuFieldCurrent'
  BY <1>1 DEF CpuFieldCurrent
<1> QED  BY <1>2, <1>3

(* Publishing a CPU keeps SchedulerInv: nothing was queued there before.    *)
LEMMA SetupTlsStep ==
  ASSUME SchedulerInv, NEW c \in Cpus, SetupTls(c)
  PROVE  SchedulerInv'
<1> USE DEF SchedulerInv, SetupTls, Goto
<1>1. ready_queue' = ready_queue /\ thread_addr' = thread_addr
  BY DEF TypeOK, CpuInv
<1>2. TypeOK'
  BY NameLemma DEF TypeOK, Handler
<1>3. PlacedOnce' /\ CpuFieldCurrent'
  BY <1>1, SamePlaces
<1>4. ReadyQueueNeverFull'
  BY DEF TypeOK, ReadyQueueNeverFull
<1>5. ResumesFromSavedRegs'
  BY <1>1, NameLemma DEF TypeOK, ResumesFromSavedRegs, Queued, CpuInv, Handler
<1>6. CpuInv'
  BY <1>1 DEF TypeOK, CpuInv
<1>7. SpawnInv'
  BY DEF TypeOK, SpawnInv
<1> QED  BY <1>2, <1>3, <1>4, <1>5, <1>6, <1>7

(* Entering the idle thread keeps SchedulerInv.                             *)
LEMMA ForceSwitchToIdleStep ==
  ASSUME SchedulerInv, NEW c \in Cpus, ForceSwitchToIdle(c)
  PROVE  SchedulerInv'
<1> USE DEF SchedulerInv, ForceSwitchToIdle, Goto
<1>1. thread_addr[c] = NULL
  BY DEF CpuInv
<1>2. TypeOK'
  BY NameLemma DEF TypeOK, Handler
<1>3. PlacedOnce' /\ CpuFieldCurrent'
  BY <1>1, NameLemma, SamePlaces DEF TypeOK
<1>4. ReadyQueueNeverFull'
  BY DEF TypeOK, ReadyQueueNeverFull
<1>5. ResumesFromSavedRegs'
  BY NameLemma DEF TypeOK, ResumesFromSavedRegs, Queued, CpuInv, Handler
<1>6. CpuInv'
  BY DEF TypeOK, CpuInv
<1>7. SpawnInv'
  BY NameLemma DEF TypeOK, SpawnInv
<1> QED  BY <1>2, <1>3, <1>4, <1>5, <1>6, <1>7

(* add_thread keeps SchedulerInv: the slot it takes was empty.              *)
LEMMA AddThreadStep ==
  ASSUME SchedulerInv, NEW c \in Cpus, NEW t \in Threads, AddThread(c, t)
  PROVE  SchedulerInv'
<1> USE DEF SchedulerInv, AddThread
<1>1. Caller(c) \in AnyThread
  BY NameLemma DEF Caller, MaySpawn
<1>2. /\ t \notin table
      /\ sched_state[t].state = "Born"
      /\ \A d \in Cpus : ~At(t, d)
  BY DEF FirstEmptySlot, TypeOK, SpawnInv, PlacedOnce
<1>3. TypeOK'
  BY <1>1, NameLemma DEF TypeOK
<1>4. PlacedOnce' /\ CpuFieldCurrent'
  BY SamePlaces
<1>5. ReadyQueueNeverFull'
  BY DEF ReadyQueueNeverFull
<1>6. ResumesFromSavedRegs'
  BY <1>2 DEF TypeOK, ResumesFromSavedRegs, Queued, At
<1>7. CpuInv'
  BY DEF CpuInv
<1>8. SpawnInv'
  <2>1. \A x \in AnyThread : spawning'[x] = IF x = Caller(c) THEN t ELSE spawning[x]
    BY DEF TypeOK
  <2> QED  BY <1>1, <1>2, <2>1, NameLemma DEF TypeOK, SpawnInv
<1> QED  BY <1>3, <1>4, <1>5, <1>6, <1>7, <1>8

(* ready keeps SchedulerInv: the thread was Born, so it was in no queue.    *)
LEMMA ReadyStep ==
  ASSUME SchedulerInv, NEW c \in Cpus, Ready(c)
  PROVE  SchedulerInv'
<1> DEFINE x == Caller(c)
           t == spawning[x]
           q == ready_queue[c]
<1> USE DEF SchedulerInv, Ready
<1>1. x \in AnyThread /\ t \in Threads
  BY NameLemma DEF Caller, MaySpawn, TypeOK
<1>2. /\ sched_state[t].state = "Born" /\ t \in table /\ t \in saved
      /\ \A y \in AnyThread : spawning[y] = t => y = x
      /\ \A d \in Cpus : ~At(t, d) /\ ~Queued(t, d)
  BY <1>1 DEF SpawnInv, PlacedOnce, At
<1>3. q \in Seq(Threads) /\ NoDuplicates(q) /\ ~Holds(q, t)
  BY <1>2 DEF TypeOK, PlacedOnce, Queued
<1>4. Len(q) # QueueCap
  BY <1>1, <1>3, QueueBoundLemma, SchedulerAssumption
<1>5. /\ ready_queue' = [ready_queue EXCEPT ![c] = Append(q, t)]
      /\ UNCHANGED pc
  BY <1>4
<1>6. /\ Append(q, t) \in Seq(Threads) /\ NoDuplicates(Append(q, t))
      /\ \A u : Holds(Append(q, t), u) <=> Holds(q, u) \/ u = t
  BY <1>1, <1>3, PushLemma
<1>7. \A u \in Threads, d \in Cpus : Queued(u, d)' <=> Queued(u, d) \/ (u = t /\ d = c)
  BY <1>5, <1>6 DEF Queued, TypeOK
<1>8. \A u \in Threads, d \in Cpus : At(u, d)' <=> At(u, d) \/ (u = t /\ d = c)
  BY <1>7 DEF At
<1>9. \A u \in Threads : sched_state'[u] = IF u = t THEN [cpu |-> c, state |-> "Ready"] ELSE sched_state[u]
  BY <1>1 DEF TypeOK
<1>10. TypeOK'
  BY <1>1, <1>5, <1>6 DEF TypeOK
<1>11. CpuFieldCurrent'
  BY <1>2, <1>8, <1>9 DEF CpuFieldCurrent
<1>12. PlacedOnce'
  <2>1. \A d \in Cpus : NoDuplicates(ready_queue'[d])
    BY <1>5, <1>6 DEF TypeOK, PlacedOnce
  <2>2. \A u \in Threads, d \in Cpus : ~(Queued(u, d)' /\ thread_addr'[d] = u)
    BY <1>2, <1>7 DEF PlacedOnce, At
  <2>3. \A u \in Threads : \A d, e \in Cpus : At(u, d)' /\ At(u, e)' => d = e
    BY <1>11 DEF CpuFieldCurrent
  <2>4. \A u \in Threads : sched_state'[u].state = "Ready" <=> \E d \in Cpus : At(u, d)'
    BY <1>8, <1>9 DEF PlacedOnce
  <2> QED  BY <2>1, <2>2, <2>3, <2>4 DEF PlacedOnce
<1>13. ReadyQueueNeverFull'
  BY <1>5 DEF ReadyQueueNeverFull
<1>14. ResumesFromSavedRegs'
  BY <1>2, <1>5, <1>7 DEF ResumesFromSavedRegs
<1>15. CpuInv'
  BY <1>5 DEF CpuInv, MaySpawn, TypeOK
<1>16. SpawnInv'
  <2>1. \A y \in AnyThread : spawning'[y] = IF y = x THEN NULL ELSE spawning[y]
    BY <1>1 DEF TypeOK
  <2> QED  BY <1>1, <1>2, <1>9, <2>1 DEF SpawnInv, TypeOK
<1> QED  BY <1>10, <1>11, <1>12, <1>13, <1>14, <1>15, <1>16

(* Saving the interrupted thread keeps SchedulerInv.                        *)
LEMMA TimerInterruptStep ==
  ASSUME SchedulerInv, NEW c \in Cpus, TimerInterrupt(c)
  PROVE  SchedulerInv'
<1> USE DEF SchedulerInv, TimerInterrupt, RegsSaved, Goto
<1>1. thread_addr[c] \in Threads \cup {Idle(c)}
  BY DEF CpuInv
<1>2. TypeOK'
  BY <1>1, NameLemma DEF TypeOK, Handler
<1>3. PlacedOnce' /\ CpuFieldCurrent'
  BY SamePlaces
<1>4. ReadyQueueNeverFull'
  BY DEF TypeOK, ReadyQueueNeverFull
<1>5. \A d \in Cpus : d # c => thread_addr[d] # thread_addr[c]
  BY <1>1, NameLemma DEF PlacedOnce, At, CpuInv
<1>6. ResumesFromSavedRegs'
  BY <1>1, <1>5 DEF TypeOK, ResumesFromSavedRegs, Queued, Handler
<1>7. CpuInv'
  BY DEF TypeOK, CpuInv
<1>8. SpawnInv'
  BY DEF TypeOK, SpawnInv
<1> QED  BY <1>2, <1>3, <1>4, <1>6, <1>7, <1>8

(* switch keeps SchedulerInv: queued and current threads only trade places. *)
LEMMA SwitchStep ==
  ASSUME SchedulerInv, NEW c \in Cpus, Switch(c)
  PROVE  SchedulerInv'
<1> DEFINE q == ready_queue[c]
           t == thread_addr[c]
           rest == Tail(q)
           qq == IF RequeueCurrent(c) THEN Append(rest, t) ELSE rest
<1> USE DEF SchedulerInv, Switch, Goto
<1>1. /\ q \in Seq(Threads) /\ NoDuplicates(q)
      /\ t \in Threads \cup {Idle(c)} /\ t \in saved
      /\ \A u \in Threads : u = t => ~Holds(q, u)
  BY DEF TypeOK, PlacedOnce, CpuInv, ResumesFromSavedRegs, Handler, Queued
<1>2. CASE q = <<>>
  <2>1. UNCHANGED <<ready_queue, thread_addr, sched_state, saved, spawning, table, online, other_cpu>>
        /\ pc' = [pc EXCEPT ![c] = "pick"]
    BY <1>2
  <2>2. PlacedOnce' /\ CpuFieldCurrent'
    BY <2>1, SamePlaces
  <2>3. TypeOK' /\ ReadyQueueNeverFull' /\ CpuInv' /\ SpawnInv'
    BY <2>1 DEF TypeOK, Handler, ReadyQueueNeverFull, CpuInv, SpawnInv
  <2>4. ResumesFromSavedRegs'
    BY <2>1 DEF TypeOK, Handler, ResumesFromSavedRegs, Queued
  <2> QED  BY <2>2, <2>3, <2>4
<1>3. CASE q # <<>>
  <2>1. /\ Head(q) \in Threads /\ rest \in Seq(Threads) /\ Len(rest) = Len(q) - 1
        /\ NoDuplicates(rest) /\ Holds(q, Head(q)) /\ ~Holds(rest, Head(q))
        /\ \A u : Holds(q, u) <=> Holds(rest, u) \/ u = Head(q)
    BY <1>1, <1>3, PopLemma
  <2>2. Len(rest) # QueueCap
    BY <1>1, <2>1, QueueBoundLemma, SchedulerAssumption
  <2>3. /\ pc' = [pc EXCEPT ![c] = "pick"]
        /\ ready_queue' = [ready_queue EXCEPT ![c] = qq]
        /\ thread_addr' = [thread_addr EXCEPT ![c] = Head(q)]
        /\ UNCHANGED <<sched_state, saved, spawning, table, online, other_cpu>>
    BY <1>3, <2>2
  <2>4. t \in Threads <=> RequeueCurrent(c)
    BY <1>1, NameLemma DEF RequeueCurrent
  <2>5. /\ qq \in Seq(Threads) /\ NoDuplicates(qq)
        /\ \A u \in Threads : Holds(qq, u) <=> Holds(rest, u) \/ u = t
    <3>1. CASE t \in Threads
      <4>1. ~Holds(rest, t)
        BY <1>1, <2>1, <3>1
      <4>2. qq = Append(rest, t)
        BY <2>4, <3>1
      <4>3. PICK r \in Seq(Threads), h \in Threads : r = rest /\ h = t
        BY <2>1, <3>1
      <4>4. NoDuplicates(r) /\ ~Holds(r, h)
        BY <2>1, <4>1, <4>3
      <4>5. /\ Append(r, h) \in Seq(Threads) /\ NoDuplicates(Append(r, h))
            /\ \A u : Holds(Append(r, h), u) <=> Holds(r, u) \/ u = h
        BY <4>4, PushLemma
      <4> HIDE DEF rest, qq, t
      <4> QED  BY <4>2, <4>3, <4>5
    <3>2. CASE t \notin Threads
      BY <2>1, <2>4, <3>2
    <3> QED  BY <3>1, <3>2
  <2>6. \A u \in Threads, d \in Cpus :
          Queued(u, d)' <=> IF d = c THEN Holds(rest, u) \/ u = t ELSE Queued(u, d)
    BY <2>3, <2>5 DEF Queued, TypeOK
  <2>7. \A u \in Threads, d \in Cpus : At(u, d)' <=> At(u, d)
    BY <2>1, <2>3, <2>6 DEF At, Queued, TypeOK
  <2>8. TypeOK'
    BY <2>1, <2>3, <2>5, NameLemma DEF TypeOK, Handler
  <2>9. CpuFieldCurrent'
    BY <2>3, <2>7 DEF CpuFieldCurrent
  <2>10. PlacedOnce'
    <3>1. \A d \in Cpus : NoDuplicates(ready_queue'[d])
      BY <2>3, <2>5 DEF TypeOK, PlacedOnce
    <3>2. t # Head(q)
      BY <1>1, <2>1
    <3>3. \A u \in Threads, d \in Cpus : ~(Queued(u, d)' /\ thread_addr'[d] = u)
      BY <2>1, <2>3, <2>6, <3>2 DEF PlacedOnce, TypeOK
    <3>4. \A u \in Threads : \A d, e \in Cpus : At(u, d)' /\ At(u, e)' => d = e
      BY <2>7 DEF PlacedOnce
    <3>5. \A u \in Threads : sched_state'[u].state = "Ready" <=> \E d \in Cpus : At(u, d)'
      BY <2>3, <2>7 DEF PlacedOnce
    <3> QED  BY <3>1, <3>3, <3>4, <3>5 DEF PlacedOnce
  <2>11. ReadyQueueNeverFull' /\ SpawnInv'
    BY <2>3 DEF TypeOK, ReadyQueueNeverFull, SpawnInv
  <2>12. CpuInv'
    BY <2>1, <2>3, <2>5 DEF TypeOK, CpuInv
  <2>13. ResumesFromSavedRegs'
    <3>1. Head(q) \in saved /\ \A u \in Threads : Holds(rest, u) => u \in saved
      BY <2>1 DEF ResumesFromSavedRegs, Queued
    <3> QED  BY <1>1, <2>3, <2>6, <3>1 DEF ResumesFromSavedRegs, TypeOK, Handler
  <2> QED  BY <2>8, <2>9, <2>10, <2>11, <2>12, <2>13
<1> QED  BY <1>2, <1>3

(* Drawing a CPU to balance with keeps SchedulerInv.                        *)
LEMMA PickStep ==
  ASSUME SchedulerInv, NEW c \in Cpus, Pick(c)
  PROVE  SchedulerInv'
<1> USE DEF SchedulerInv, Pick, PickNoCpu, PickCpu, Goto
<1>1. TypeOK' /\ ReadyQueueNeverFull'
  <2>1. CASE PickNoCpu(c)
    BY <2>1 DEF TypeOK, Handler, ReadyQueueNeverFull
  <2>2. ASSUME NEW d \in Cpus, PickCpu(c, d)
        PROVE  TypeOK' /\ ReadyQueueNeverFull'
    BY <2>2 DEF TypeOK, Handler, ReadyQueueNeverFull
  <2> QED  BY <2>1, <2>2
<1>2. PlacedOnce' /\ CpuFieldCurrent'
  BY SamePlaces
<1>4. CpuInv'
  BY DEF TypeOK, CpuInv
<1>5. SpawnInv'
  BY DEF SpawnInv
<1>3. ResumesFromSavedRegs'
  BY DEF TypeOK, Handler, ResumesFromSavedRegs, Queued
<1> QED  BY <1>1, <1>2, <1>3, <1>4, <1>5

(* "Half of the imbalance" is at most what the longer queue holds, leaves it *)
(* the longer one, and fits into the shorter one if the longer one is legal. *)
LEMMA ToMoveLemma ==
  ASSUME NEW a \in Nat, NEW b \in Nat, a >= b
  PROVE  LET n == ToMove(a - b)
         IN  /\ n \in 0..a
             /\ b + n <= a
             /\ n # 0 => a - b >= 2 /\ (a - n) - (b + n) \in {0, 1}
BY DEF ToMove

(* Thread u is among those a balancing step takes from src to dst.          *)
Taken(src, dst, u) ==
  Holds(SubSeq(ready_queue[src], 1, ToMove(Len(ready_queue[src]) - Len(ready_queue[dst]))), u)

(* A balancing step never panics: the shorter queue does not become longer   *)
(* than the longer one was.                                                  *)
LEMMA MoveThreadsFits ==
  ASSUME SchedulerInv, NEW c \in Cpus, NEW src \in Cpus, NEW dst \in Cpus,
         MoveThreads(c, src, dst)
  PROVE  LET from  == ready_queue[src]
             to    == ready_queue[dst]
             n     == ToMove(Len(from) - Len(to))
         IN  /\ n \in 0..Len(from) /\ Len(to) + n <= QueueCap
             /\ n # 0 => /\ Len(from) - Len(to) >= 2
                         /\ (Len(from) - n) - (Len(to) + n) \in {0, 1}
<1> DEFINE from == ready_queue[src]
           to   == ready_queue[dst]
           n    == ToMove(Len(from) - Len(to))
<1> USE DEF SchedulerInv
<1>1. /\ from \in Seq(Threads) /\ NoDuplicates(from)
      /\ Len(from) \in Nat /\ Len(to) \in Nat
  BY DEF TypeOK, PlacedOnce
<1>2. Len(from) >= Len(to)
  BY DEF MoveThreads
<1>3. /\ n \in 0..Len(from) /\ Len(to) + n <= Len(from)
      /\ n # 0 => /\ Len(from) - Len(to) >= 2
                  /\ (Len(from) - n) - (Len(to) + n) \in {0, 1}
  <2> HIDE DEF from, to
  <2> QED  BY <1>1, <1>2, ToMoveLemma
<1>4. Len(from) <= TableCap
  BY <1>1, QueueBoundLemma, SchedulerAssumption
<1> HIDE DEF n
<1>5. Len(to) + n <= QueueCap
  BY <1>1, <1>3, <1>4, SchedulerAssumption
<1> HIDE DEF from, to
<1> QED  BY <1>3, <1>5 DEF n, from, to

(* What a balancing step does to the queues of the two CPUs.                *)
LEMMA MoveThreadsEffect ==
  ASSUME SchedulerInv, NEW c \in Cpus, NEW src \in Cpus, NEW dst \in Cpus,
         src # dst, MoveThreads(c, src, dst)
  PROVE  /\ pc' = [pc EXCEPT ![c] = "exit"]
         /\ ready_queue' \in [Cpus -> Seq(Threads)]
         /\ \A d \in Cpus : NoDuplicates(ready_queue'[d])
         /\ \A d \in Cpus \ {src, dst} : ready_queue'[d] = ready_queue[d]
         /\ \A u : Holds(ready_queue[src], u) <=> Holds(ready_queue'[src], u) \/ Taken(src, dst, u)
         /\ \A u : ~(Holds(ready_queue'[src], u) /\ Taken(src, dst, u))
         /\ \A u : Holds(ready_queue'[dst], u) <=> Holds(ready_queue[dst], u) \/ Taken(src, dst, u)
         /\ \A u \in Threads : sched_state'[u] =
              IF Taken(src, dst, u) THEN [sched_state[u] EXCEPT !.cpu = dst] ELSE sched_state[u]
         /\ (\E u : Taken(src, dst, u)) =>
              /\ Len(ready_queue[src]) - Len(ready_queue[dst]) >= 2
              /\ Len(ready_queue'[src]) - Len(ready_queue'[dst]) \in {0, 1}
<1> DEFINE from == ready_queue[src]
           to   == ready_queue[dst]
           n    == ToMove(Len(from) - Len(to))
           moved == SubSeq(from, 1, n)
<1>4. /\ n \in 0..Len(from) /\ Len(to) + n <= QueueCap
      /\ n # 0 => /\ Len(from) - Len(to) >= 2
                  /\ (Len(from) - n) - (Len(to) + n) \in {0, 1}
  BY MoveThreadsFits
<1> USE DEF SchedulerInv
<1>1. /\ from \in Seq(Threads) /\ to \in Seq(Threads)
      /\ NoDuplicates(from) /\ NoDuplicates(to)
      /\ Len(from) \in Nat /\ Len(to) \in Nat
  BY DEF TypeOK, PlacedOnce
<1>2. \A u : ~(Holds(from, u) /\ Holds(to, u))
  <2> SUFFICES ASSUME NEW u, Holds(from, u), Holds(to, u) PROVE FALSE
    OBVIOUS
  <2>1. u \in Threads
    BY <1>1, ElementOfSeq DEF Holds
  <2> QED  BY <2>1 DEF PlacedOnce, At, Queued
<1> HIDE DEF n
<1>6. ~(Len(to) + n > QueueCap)
  BY <1>1, <1>4, SchedulerAssumption
<1>7. /\ pc' = [pc EXCEPT ![c] = "exit"]
      /\ ready_queue' = [ready_queue EXCEPT ![src] = SubSeq(from, n + 1, Len(from)),
                                            ![dst] = to \o moved]
      /\ sched_state' = [t \in Threads |->
           IF Holds(moved, t) THEN [sched_state[t] EXCEPT !.cpu = dst] ELSE sched_state[t]]
  BY <1>6 DEF MoveThreads, MovedCpu, Goto, n
<1>8. /\ ready_queue'[src] = SubSeq(from, n + 1, Len(from))
      /\ ready_queue'[dst] = to \o moved
      /\ \A d \in Cpus \ {src, dst} : ready_queue'[d] = ready_queue[d]
      /\ ready_queue' = [d \in Cpus |-> ready_queue'[d]]
  BY <1>7 DEF TypeOK
<1>9. /\ ready_queue'[src] \in Seq(Threads) /\ ready_queue'[dst] \in Seq(Threads)
      /\ Len(ready_queue'[src]) = Len(from) - n /\ Len(ready_queue'[dst]) = Len(to) + n
      /\ NoDuplicates(ready_queue'[src]) /\ NoDuplicates(ready_queue'[dst])
      /\ \A u : Holds(from, u) <=> Holds(ready_queue'[src], u) \/ Holds(moved, u)
      /\ \A u : Holds(ready_queue'[dst], u) <=> Holds(to, u) \/ Holds(moved, u)
      /\ \A u : ~(Holds(ready_queue'[src], u) /\ Holds(moved, u))
  <2> DEFINE rest == SubSeq(from, n + 1, Len(from))
             longer == to \o moved
  <2> HIDE DEF from, to
  <2>1. /\ rest \in Seq(Threads) /\ longer \in Seq(Threads)
        /\ Len(rest) = Len(from) - n /\ Len(longer) = Len(to) + n
        /\ NoDuplicates(rest) /\ NoDuplicates(longer)
        /\ \A u : Holds(from, u) <=> Holds(rest, u) \/ Holds(moved, u)
        /\ \A u : Holds(longer, u) <=> Holds(to, u) \/ Holds(moved, u)
        /\ \A u : ~(Holds(rest, u) /\ Holds(moved, u))
    BY <1>1, <1>2, <1>4, MoveLemma, Zenon
  <2>2. ready_queue'[src] = rest /\ ready_queue'[dst] = longer
    BY <1>8
  <2> HIDE DEF moved, rest, longer
  <2> QED  BY <2>1, <2>2
<1>10. \A d \in Cpus : NoDuplicates(ready_queue'[d]) /\ ready_queue'[d] \in Seq(Threads)
  BY <1>8, <1>9 DEF TypeOK, PlacedOnce
<1>11. n = 0 => \A u : ~Holds(moved, u)
  BY SubSeqEmpty DEF Holds
<1>12. \A u \in Threads : sched_state'[u] =
         IF Holds(moved, u) THEN [sched_state[u] EXCEPT !.cpu = dst] ELSE sched_state[u]
  BY <1>7
<1>14. \A u : Holds(moved, u) =>
         /\ Len(from) - Len(to) >= 2
         /\ Len(ready_queue'[src]) - Len(ready_queue'[dst]) \in {0, 1}
  BY <1>4, <1>9, <1>11
<1> HIDE DEF moved
<1>13. ready_queue' \in [Cpus -> Seq(Threads)]
  BY <1>8, <1>10
<1>15. \A u : Taken(src, dst, u) <=> Holds(moved, u)
  BY DEF Taken, moved, n
<1> HIDE DEF from, to
<1> QED
  BY <1>7, <1>8, <1>9, <1>10, <1>12, <1>13, <1>14, <1>15 DEF from, to

(* do_load_balance keeps SchedulerInv: what leaves one queue enters the other.*)
LEMMA BalanceStep ==
  ASSUME SchedulerInv, NEW c \in Cpus, Balance(c)
  PROVE  SchedulerInv'
<1>1. other_cpu[c] \in online \ {c} /\ other_cpu[c] \in Cpus /\ pc[c] = "balance"
  BY DEF Balance, SchedulerInv, CpuInv, TypeOK
<1>2. PICK src \in Cpus, dst \in Cpus :
        /\ src # dst /\ MoveThreads(c, src, dst)
        /\ pc[src] # "off" /\ pc[dst] # "off"
  BY <1>1 DEF Balance, SchedulerInv, CpuInv
<1> DEFINE from == ready_queue[src]
           to   == ready_queue[dst]
           M(u) == Taken(src, dst, u)
<1>3. /\ pc' = [pc EXCEPT ![c] = "exit"]
      /\ ready_queue' \in [Cpus -> Seq(Threads)]
      /\ \A d \in Cpus : NoDuplicates(ready_queue'[d])
      /\ \A d \in Cpus \ {src, dst} : ready_queue'[d] = ready_queue[d]
      /\ \A u : Holds(from, u) <=> Holds(ready_queue'[src], u) \/ M(u)
      /\ \A u : ~(Holds(ready_queue'[src], u) /\ M(u))
      /\ \A u : Holds(ready_queue'[dst], u) <=> Holds(to, u) \/ M(u)
      /\ \A u \in Threads : sched_state'[u] =
            IF M(u) THEN [sched_state[u] EXCEPT !.cpu = dst] ELSE sched_state[u]
  <2>1. src # dst /\ MoveThreads(c, src, dst)
    BY <1>2
  <2>2. /\ pc' = [pc EXCEPT ![c] = "exit"]
        /\ ready_queue' \in [Cpus -> Seq(Threads)]
        /\ \A d \in Cpus : NoDuplicates(ready_queue'[d])
        /\ \A d \in Cpus \ {src, dst} : ready_queue'[d] = ready_queue[d]
    BY <2>1, MoveThreadsEffect
  <2>3. /\ \A u : Holds(from, u) <=> Holds(ready_queue'[src], u) \/ M(u)
        /\ \A u : ~(Holds(ready_queue'[src], u) /\ M(u))
        /\ \A u : Holds(ready_queue'[dst], u) <=> Holds(to, u) \/ M(u)
    BY <2>1, MoveThreadsEffect
  <2>4. \A u \in Threads : sched_state'[u] =
            IF M(u) THEN [sched_state[u] EXCEPT !.cpu = dst] ELSE sched_state[u]
    BY <2>1, MoveThreadsEffect, ZenonT(30)
  <2> QED  BY <2>2, <2>3, <2>4
<1> HIDE DEF M
<1> USE DEF SchedulerInv
<1>4. sched_state' \in [Threads -> [cpu : Cpus \cup {NULL}, state : {"Born", "Ready"}]]
  <2>1. sched_state' = [u \in Threads |-> sched_state'[u]]
    BY <1>2, <1>3 DEF MoveThreads, TypeOK
  <2>2. \A u \in Threads :
          sched_state'[u] \in [cpu : Cpus \cup {NULL}, state : {"Born", "Ready"}]
    BY <1>3 DEF TypeOK
  <2> QED  BY <2>1, <2>2
<1>5. /\ UNCHANGED <<online, thread_addr, table, saved, spawning, stack, lapic>>
      /\ other_cpu' = [other_cpu EXCEPT ![c] = NULL]
  BY DEF Balance
<1>6. TypeOK'
  BY <1>3, <1>4, <1>5 DEF TypeOK, Handler
<1>7. \A u \in Threads, d \in Cpus :
        Queued(u, d)' <=> IF M(u) THEN d = dst ELSE Queued(u, d)
  <2>1. \A u \in Threads : M(u) => Queued(u, src)
    BY <1>3 DEF Queued
  <2>2. \A u \in Threads, d \in Cpus : M(u) /\ d # src => ~Queued(u, d)
    BY <2>1 DEF PlacedOnce, At
  <2> QED  BY <1>2, <1>3, <2>2 DEF Queued
<1>8. \A u \in Threads, d \in Cpus : M(u) => Queued(u, src) /\ thread_addr[d] # u
  BY <1>2, <1>3 DEF PlacedOnce, At, Queued
<1>9. \A u \in Threads, d \in Cpus : At(u, d)' <=> IF M(u) THEN d = dst ELSE At(u, d)
  BY <1>5, <1>7, <1>8 DEF At
<1>10. \A u \in Threads : /\ sched_state'[u].cpu = IF M(u) THEN dst ELSE sched_state[u].cpu
                          /\ sched_state'[u].state = sched_state[u].state
  BY <1>3, ZenonT(30) DEF TypeOK
<1>11. CpuFieldCurrent'
  BY <1>9, <1>10 DEF CpuFieldCurrent
<1>12. PlacedOnce'
  <2>1. \A u \in Threads, d \in Cpus : ~(Queued(u, d)' /\ thread_addr'[d] = u)
    BY <1>5, <1>7, <1>8 DEF PlacedOnce
  <2>2. \A u \in Threads : \A d, e \in Cpus : At(u, d)' /\ At(u, e)' => d = e
    BY <1>9 DEF PlacedOnce
  <2>3. \A u \in Threads : sched_state'[u].state = "Ready" <=> \E d \in Cpus : At(u, d)'
    BY <1>2, <1>8, <1>9, <1>10 DEF PlacedOnce, At
  <2> QED  BY <1>3, <2>1, <2>2, <2>3 DEF PlacedOnce
<1>13. ReadyQueueNeverFull'
  BY <1>3 DEF TypeOK, ReadyQueueNeverFull
<1>14. ResumesFromSavedRegs'
  BY <1>1, <1>3, <1>5, <1>7, <1>8 DEF ResumesFromSavedRegs, TypeOK, Handler
<1>15. CpuInv'
  <2>1. \A d \in Cpus : pc'[d] = "off" => ready_queue'[d] = ready_queue[d]
    BY <1>1, <1>2, <1>3 DEF TypeOK
  <2> QED  BY <1>1, <1>3, <1>5, <2>1 DEF TypeOK, CpuInv
<1>16. SpawnInv'
  <2>1. \A u \in Threads : M(u) => sched_state[u].state = "Ready"
    BY <1>2, <1>8 DEF PlacedOnce, At
  <2>2. \A u \in Threads :
          IF sched_state'[u].state = "Ready" THEN u \in table' ELSE sched_state'[u].cpu = NULL
    BY <1>5, <1>10, <2>1 DEF SpawnInv
  <2> QED  BY <1>5, <1>10, <2>2 DEF SpawnInv, TypeOK
<1> QED  BY <1>6, <1>11, <1>12, <1>13, <1>14, <1>15, <1>16

(* Returning from the interrupt keeps SchedulerInv.                         *)
LEMMA TimerReturnStep ==
  ASSUME SchedulerInv, NEW c \in Cpus, TimerReturn(c)
  PROVE  SchedulerInv'
<1> USE DEF SchedulerInv, TimerReturn, Rearmed, Goto
<1>1. thread_addr[c] \in Threads \cup {Idle(c)}
  BY DEF CpuInv
<1>2. TypeOK'
  BY <1>1, NameLemma DEF TypeOK, Handler
<1>3. PlacedOnce' /\ CpuFieldCurrent'
  BY SamePlaces
<1>4. ReadyQueueNeverFull'
  BY DEF TypeOK, ReadyQueueNeverFull
<1>5. \A d \in Cpus : d # c => thread_addr[d] # thread_addr[c]
  BY <1>1, NameLemma DEF PlacedOnce, At, CpuInv
<1>6. \A t \in Threads, d \in Cpus : Queued(t, d) => t # thread_addr[c]
  BY DEF PlacedOnce, At
<1>7. ResumesFromSavedRegs'
  BY <1>1, <1>5, <1>6 DEF TypeOK, ResumesFromSavedRegs, Queued, Handler
<1>8. CpuInv'
  BY DEF TypeOK, CpuInv
<1>9. SpawnInv'
  BY <1>1, NameLemma DEF TypeOK, SpawnInv, PlacedOnce, At
<1> QED  BY <1>2, <1>3, <1>4, <1>7, <1>8, <1>9

-----------------------------------------------------------------------------

(* SchedulerInv is inductive: one case per action.                          *)
LEMMA NextInv ==
  ASSUME SchedulerInv, [Next]_vars
  PROVE  SchedulerInv'
<1>1. ASSUME NEW c \in Cpus, Boot(c)  PROVE SchedulerInv'
  BY <1>1, SetupTlsStep, ForceSwitchToIdleStep DEF Boot
<1>2. ASSUME NEW c \in Cpus, Spawn(c)  PROVE SchedulerInv'
  BY <1>2, AddThreadStep, ReadyStep DEF Spawn
<1>3. ASSUME NEW c \in Cpus, TimerInterrupt(c) \/ Switch(c)  PROVE SchedulerInv'
  BY <1>3, TimerInterruptStep, SwitchStep
<1>4. ASSUME NEW c \in Cpus, Pick(c) \/ Balance(c)  PROVE SchedulerInv'
  BY <1>4, PickStep, BalanceStep
<1>5. ASSUME NEW c \in Cpus, TimerReturn(c)  PROVE SchedulerInv'
  BY <1>5, TimerReturnStep
<1>6. CASE UNCHANGED vars
  BY <1>6 DEF vars, SchedulerInv, TypeOK, PlacedOnce, CpuFieldCurrent, ReadyQueueNeverFull,
              ResumesFromSavedRegs, CpuInv, SpawnInv, At, Queued
<1> QED  BY <1>1, <1>2, <1>3, <1>4, <1>5, <1>6 DEF Next

(* SchedulerInv holds in every state the scheduler reaches.                 *)
THEOREM SchedulerInvariant == Spec => []SchedulerInv
<1>1. Init => SchedulerInv
  BY InitInv
<1>2. SchedulerInv /\ [Next]_vars => SchedulerInv'
  BY NextInv
<1> QED  BY <1>1, <1>2, PTL DEF Spec

(* Every variable keeps its type, whatever the number of CPUs and threads.  *)
THEOREM TypeCorrect == Spec => []TypeOK
<1>1. SchedulerInv => TypeOK
  BY DEF SchedulerInv
<1> QED  BY <1>1, SchedulerInvariant, PTL

(* switch, ready and do_load_balance never lose or duplicate a thread.      *)
THEOREM NoThreadLostOrDuplicated == Spec => []PlacedOnce
<1>1. SchedulerInv => PlacedOnce
  BY DEF SchedulerInv
<1> QED  BY <1>1, SchedulerInvariant, PTL

(* sched_state.cpu names the CPU that queues or runs the thread.            *)
THEOREM CpuFieldIsCurrent == Spec => []CpuFieldCurrent
<1>1. SchedulerInv => CpuFieldCurrent
  BY DEF SchedulerInv
<1> QED  BY <1>1, SchedulerInvariant, PTL

(* With queues as large as the thread table, as in the code (256 and 256),  *)
(* no push onto a ready queue fails.                                        *)
THEOREM NoReadyQueueOverflow == Spec => []ReadyQueueNeverFull
<1>1. SchedulerInv => ReadyQueueNeverFull
  BY DEF SchedulerInv
<1> QED  BY <1>1, SchedulerInvariant, PTL

(* An interrupt returns only into a thread whose registers were saved.      *)
THEOREM OnlySavedRegsResumed == Spec => []ResumesFromSavedRegs
<1>1. SchedulerInv => ResumesFromSavedRegs
  BY DEF SchedulerInv
<1> QED  BY <1>1, SchedulerInvariant, PTL

(* A thread changes CPU only in do_load_balance.                            *)
LEMMA OnlyBalanceMigrates ==
  ASSUME SchedulerInv, [Next]_vars, NEW t \in Threads,
         sched_state[t].cpu # NULL, sched_state'[t].cpu # sched_state[t].cpu
  PROVE  \E c \in Cpus : Balance(c)
<1> USE DEF SchedulerInv
<1>1. ASSUME NEW c \in Cpus, Ready(c)  PROVE FALSE
  <2> DEFINE x == Caller(c)
             u == spawning[x]
  <2>1. x \in AnyThread
    BY <1>1, NameLemma DEF Ready, MaySpawn, Caller
  <2>2. u \in Threads /\ sched_state[u].state = "Born" /\ sched_state[u].cpu = NULL
    BY <1>1, <2>1 DEF Ready, SpawnInv, TypeOK
  <2>3. sched_state' = [sched_state EXCEPT ![u] = [cpu |-> c, state |-> "Ready"]]
    BY <1>1 DEF Ready
  <2> QED  BY <2>2, <2>3 DEF TypeOK
<1>2. ~UNCHANGED sched_state
  OBVIOUS
<1> QED
  BY <1>1, <1>2 DEF Next, Boot, Spawn, Pick, SetupTls, ForceSwitchToIdle, AddThread,
                    TimerInterrupt, Switch, PickNoCpu, PickCpu, TimerReturn, vars

(* The thread that a balancing step takes from s to d.                      *)
LEMMA BalanceHalves ==
  ASSUME SchedulerInv, NEW c \in Cpus, NEW src \in Cpus, NEW dst \in Cpus,
         src # dst, MoveThreads(c, src, dst),
         NEW t \in Threads, NEW s \in Cpus, NEW d \in Cpus,
         sched_state[t].cpu = s, sched_state'[t].cpu = d, s # d
  PROVE  /\ Queued(t, s) /\ Queued(t, d)'
         /\ Len(ready_queue[s]) - Len(ready_queue[d]) >= 2
         /\ Len(ready_queue'[s]) - Len(ready_queue'[d]) \in {0, 1}
<1> DEFINE from == ready_queue[src]
           to   == ready_queue[dst]
<1>1. /\ \A u : Holds(from, u) <=> Holds(ready_queue'[src], u) \/ Taken(src, dst, u)
      /\ \A u : Holds(ready_queue'[dst], u) <=> Holds(to, u) \/ Taken(src, dst, u)
      /\ \A u \in Threads : sched_state'[u] =
           IF Taken(src, dst, u) THEN [sched_state[u] EXCEPT !.cpu = dst] ELSE sched_state[u]
      /\ (\E u : Taken(src, dst, u)) =>
           /\ Len(from) - Len(to) >= 2
           /\ Len(ready_queue'[src]) - Len(ready_queue'[dst]) \in {0, 1}
  <2>1. \A u : Holds(from, u) <=> Holds(ready_queue'[src], u) \/ Taken(src, dst, u)
    BY MoveThreadsEffect, ZenonT(30)
  <2>2. \A u : Holds(ready_queue'[dst], u) <=> Holds(to, u) \/ Taken(src, dst, u)
    BY MoveThreadsEffect, ZenonT(30)
  <2>3. \A u \in Threads : sched_state'[u] =
           IF Taken(src, dst, u) THEN [sched_state[u] EXCEPT !.cpu = dst] ELSE sched_state[u]
    BY MoveThreadsEffect, ZenonT(30)
  <2>4. (\E u : Taken(src, dst, u)) =>
           /\ Len(from) - Len(to) >= 2
           /\ Len(ready_queue'[src]) - Len(ready_queue'[dst]) \in {0, 1}
    BY MoveThreadsEffect, ZenonT(30)
  <2> QED  BY <2>1, <2>2, <2>3, <2>4
<1> USE DEF SchedulerInv
<1>2. Taken(src, dst, t)
  BY <1>1
<1>3. Queued(t, src) /\ Queued(t, dst)'
  BY <1>1, <1>2 DEF Queued
<1>4. s = src
  BY <1>3 DEF CpuFieldCurrent, At
<1>5. d = dst
  BY <1>1, <1>2 DEF TypeOK
<1> QED  BY <1>1, <1>2, <1>3, <1>4, <1>5

(* Balancing moves a waiting thread, from a queue at least two longer, and   *)
(* leaves the queues equal or the source one longer: the direction of the    *)
(* imbalance never turns round.                                              *)
THEOREM MigrationIsHalf == Spec => MigrationHalvesImbalance
<1> DEFINE Step ==
      \A t \in Threads : \A src, dst \in Cpus :
        sched_state[t].cpu = src /\ sched_state'[t].cpu = dst /\ src # dst =>
          /\ Queued(t, src) /\ Queued(t, dst)'
          /\ Len(ready_queue[src]) - Len(ready_queue[dst]) >= 2
          /\ Len(ready_queue'[src]) - Len(ready_queue'[dst]) \in {0, 1}
<1>1. ASSUME SchedulerInv, [Next]_vars  PROVE Step
  <2> SUFFICES ASSUME NEW t \in Threads, NEW s \in Cpus, NEW d \in Cpus,
                      sched_state[t].cpu = s, sched_state'[t].cpu = d, s # d
               PROVE  /\ Queued(t, s) /\ Queued(t, d)'
                      /\ Len(ready_queue[s]) - Len(ready_queue[d]) >= 2
                      /\ Len(ready_queue'[s]) - Len(ready_queue'[d]) \in {0, 1}
    OBVIOUS
  <2>1. PICK c \in Cpus : Balance(c)
    BY <1>1, OnlyBalanceMigrates, NameLemma
  <2>2. PICK src \in Cpus, dst \in Cpus : src # dst /\ MoveThreads(c, src, dst)
    <3>1. other_cpu[c] \in Cpus \ {c}
      BY <1>1, <2>1 DEF Balance, SchedulerInv, CpuInv, TypeOK
    <3> QED  BY <2>1, <3>1 DEF Balance
  <2> QED  BY <1>1, <2>2, BalanceHalves
<1>2. ASSUME SchedulerInv, [Next]_vars  PROVE [Step]_vars
  BY <1>1, <1>2
<1> QED  BY <1>2, SchedulerInvariant, PTL DEF Spec, MigrationHalvesImbalance

-----------------------------------------------------------------------------
(* Two CPUs never execute on one stack.  With three they may: the run        *)
(* sched_stack shows how.                                                    *)

TwoCpus == \A a, b, c \in Cpus : a = b \/ b = c \/ a = c

EndsWith(q, t) == Len(q) > 0 /\ q[Len(q)] = t

(* After switch the CPU is still on the stack of the thread it put back.    *)
OnOldStack(c) ==
  /\ pc[c] \in {"pick", "balance", "exit"}
  /\ stack[c] \in Threads
  /\ stack[c] # thread_addr[c]

(* c's queue is too short for another CPU to take anything from it, even     *)
(* after the other one has taken a thread from its own queue to run it.      *)
CpuRunsThread(d) == IF thread_addr[d] \in Threads THEN 1 ELSE 0
Levelled(c) ==
  \A d \in Cpus \ {c} : Len(ready_queue[c]) - Len(ready_queue[d]) <= CpuRunsThread(d)

OldStackInv(c) ==
  OnOldStack(c) =>
    /\ Queued(stack[c], c)
    /\ EndsWith(ready_queue[c], stack[c]) \/ Levelled(c)

StackOf(c) ==
  /\ pc[c] \in {"off", "boot"} => stack[c] = NULL
  /\ pc[c] \in {"run", "switch"} => stack[c] = thread_addr[c]
  /\ OldStackInv(c)

StackInv == \A c \in Cpus : StackOf(c)

(* StackInv is what keeps the CPUs apart: whoever's stack a CPU is on is at  *)
(* that CPU, and PlacedOnce has a thread at one CPU only.                    *)
LEMMA StackInvExcludes ==
  ASSUME SchedulerInv, StackInv
  PROVE  StackExclusive
<1> USE DEF SchedulerInv
<1>1. ASSUME NEW c \in Cpus, stack[c] \in Threads
      PROVE  At(stack[c], c)
  <2>1. NULL \notin Threads
    BY SchedulerAssumption DEF Threads
  <2>2. StackOf(c)
    BY DEF StackInv
  <2>3. pc[c] \in {"run", "switch", "pick", "balance", "exit"}
    BY <1>1, <2>1, <2>2 DEF TypeOK, Handler, ReadyQueueNeverFull, StackOf
  <2> QED  BY <1>1, <2>2, <2>3 DEF StackOf, OldStackInv, OnOldStack, At
<1>2. ASSUME NEW c \in Cpus, NEW d \in Cpus, c # d, stack[c] \in Threads, stack[c] = stack[d]
      PROVE  FALSE
  <2>1. At(stack[c], c) /\ At(stack[c], d)
    BY <1>1, <1>2
  <2> QED  BY <1>2, <2>1 DEF PlacedOnce
<1> QED  BY <1>2 DEF StackExclusive

(* A step that touches no queue, current thread or stack, and leaves each CPU*)
(* as far in its interrupt as it was or brings it no further than to switch. *)
LEMMA QuietStep ==
  ASSUME StackInv, UNCHANGED <<ready_queue, thread_addr, stack>>,
         \A c \in Cpus :
           \/ pc'[c] = pc[c]
           \/ pc'[c] = "boot" /\ pc[c] = "off"
           \/ pc'[c] = "switch" /\ pc[c] = "run"
           \/ pc'[c] \in {"balance", "exit"} /\ pc[c] \in {"pick", "balance"}
  PROVE  StackInv'
<1> SUFFICES ASSUME NEW c \in Cpus  PROVE StackOf(c)'
  BY DEF StackInv
<1>1. StackOf(c)
  BY DEF StackInv
<1>2. OldStackInv(c)'
  <2> SUFFICES ASSUME OnOldStack(c)'
               PROVE  /\ Queued(stack[c], c)'
                      /\ EndsWith(ready_queue[c], stack[c])' \/ Levelled(c)'
    BY DEF OldStackInv
  <2>1. OnOldStack(c)
    BY DEF OnOldStack
  <2>2. Queued(stack[c], c) /\ (EndsWith(ready_queue[c], stack[c]) \/ Levelled(c))
    BY <1>1, <2>1 DEF StackOf, OldStackInv
  <2> QED  BY <2>2 DEF Queued, Levelled, CpuRunsThread
<1> QED  BY <1>1, <1>2 DEF StackOf

(* The threads in the hands of a CPU, queued and current together.          *)
InHands(d) == Len(ready_queue[d]) + CpuRunsThread(d)

(* They are as many as before if neither the queue nor the current thread    *)
(* changes.                                                                  *)
LEMMA SameHands ==
  ASSUME TypeOK, NEW d \in Cpus,
         ready_queue'[d] = ready_queue[d], thread_addr'[d] = thread_addr[d]
  PROVE  InHands(d) <= InHands(d)'
<1>1. Len(ready_queue[d]) \in Nat /\ CpuRunsThread(d) \in Nat
  BY DEF TypeOK, CpuRunsThread
<1>2. Len(ready_queue'[d]) = Len(ready_queue[d]) /\ CpuRunsThread(d)' = CpuRunsThread(d)
  BY DEF CpuRunsThread
<1> QED  BY <1>1, <1>2 DEF InHands

(* A CPU that does not move is safe as long as no other has fewer threads in *)
(* its hands than before.                                                    *)
LEMMA SpectatorStep ==
  ASSUME TypeOK, TypeOK', NEW c \in Cpus, StackOf(c),
         pc'[c] = pc[c], stack'[c] = stack[c], thread_addr'[c] = thread_addr[c],
         ready_queue'[c] = ready_queue[c],
         \A d \in Cpus \ {c} : InHands(d) <= InHands(d)'
  PROVE  StackOf(c)'
<1>1. OldStackInv(c)'
  <2> SUFFICES ASSUME OnOldStack(c)'
               PROVE  /\ Queued(stack[c], c)'
                      /\ EndsWith(ready_queue[c], stack[c])' \/ Levelled(c)'
    BY DEF OldStackInv
  <2>1. OnOldStack(c)
    BY DEF OnOldStack
  <2>2. Queued(stack[c], c) /\ (EndsWith(ready_queue[c], stack[c]) \/ Levelled(c))
    BY <2>1 DEF StackOf, OldStackInv
  <2>3. Levelled(c) => Levelled(c)'
    <3> SUFFICES ASSUME Levelled(c), NEW d \in Cpus \ {c}
                 PROVE  Len(ready_queue'[c]) - Len(ready_queue'[d]) <= CpuRunsThread(d)'
      BY DEF Levelled
    <3>1. /\ Len(ready_queue[c]) \in Nat /\ Len(ready_queue[d]) \in Nat
          /\ Len(ready_queue'[d]) \in Nat
          /\ CpuRunsThread(d) \in Nat /\ CpuRunsThread(d)' \in Nat
      BY DEF TypeOK, CpuRunsThread
    <3>2. Len(ready_queue[c]) - Len(ready_queue[d]) <= CpuRunsThread(d)
      BY DEF Levelled
    <3>3. Len(ready_queue'[c]) = Len(ready_queue[c])
      OBVIOUS
    <3>4. Len(ready_queue[d]) + CpuRunsThread(d) <= Len(ready_queue'[d]) + CpuRunsThread(d)'
      BY DEF InHands
    <3>5. \A a, q, r, x, y \in Nat : a - q <= x /\ q + x <= r + y => a - r <= y
      OBVIOUS
    <3> QED  BY ONLY <3>1, <3>2, <3>3, <3>4, <3>5
  <2> QED  BY <2>2, <2>3 DEF Queued
<1> QED  BY <1>1 DEF StackOf

(* Entering the idle thread for the first time.                             *)
LEMMA StackForceSwitchToIdle ==
  ASSUME SchedulerInv, StackInv, SchedulerInv', NEW c \in Cpus, ForceSwitchToIdle(c)
  PROVE  StackInv'
<1> USE DEF SchedulerInv
<1>1. /\ pc[c] = "boot" /\ pc' = [pc EXCEPT ![c] = "run"]
      /\ thread_addr' = [thread_addr EXCEPT ![c] = Idle(c)]
      /\ stack' = [stack EXCEPT ![c] = Idle(c)]
      /\ UNCHANGED ready_queue
  BY DEF ForceSwitchToIdle, Goto
<1>2. pc'[c] = "run" /\ thread_addr'[c] = Idle(c) /\ stack'[c] = Idle(c)
  BY <1>1 DEF TypeOK
<1>3. StackOf(c)'
  BY <1>2 DEF StackOf, OldStackInv, OnOldStack
<1>4. ASSUME NEW d \in Cpus, d # c  PROVE StackOf(d)'
  <2>1. pc'[d] = pc[d] /\ stack'[d] = stack[d] /\ thread_addr'[d] = thread_addr[d]
    BY <1>1, <1>4 DEF TypeOK
  <2>2. CpuRunsThread(c) = 0 /\ CpuRunsThread(c)' = 0
    BY <1>1, <1>2, NameLemma DEF CpuInv, CpuRunsThread
  <2>3. InHands(c) <= InHands(c)'
    <3>1. Len(ready_queue[c]) \in Nat /\ Len(ready_queue'[c]) = Len(ready_queue[c])
      BY <1>1 DEF TypeOK
    <3> QED  BY <2>2, <3>1 DEF InHands
  <2>4. \A e \in Cpus \ {c} : thread_addr'[e] = thread_addr[e] /\ ready_queue'[e] = ready_queue[e]
    BY <1>1 DEF TypeOK
  <2>5. \A e \in Cpus \ {d} : InHands(e) <= InHands(e)'
    BY <2>3, <2>4, SameHands
  <2>6. StackOf(d)
    BY DEF StackInv
  <2> QED  BY <1>1, <2>1, <2>5, <2>6, SpectatorStep
<1> QED  BY <1>3, <1>4 DEF StackInv

(* Returning from the interrupt: the old stack is left.                     *)
LEMMA StackTimerReturn ==
  ASSUME SchedulerInv, StackInv, SchedulerInv', NEW c \in Cpus, TimerReturn(c)
  PROVE  StackInv'
<1> USE DEF SchedulerInv
<1>1. /\ pc[c] = "exit" /\ pc' = [pc EXCEPT ![c] = "run"]
      /\ stack' = [stack EXCEPT ![c] = thread_addr[c]]
      /\ UNCHANGED <<ready_queue, thread_addr>>
  BY DEF TimerReturn, Goto
<1>2. pc'[c] = "run" /\ stack'[c] = thread_addr'[c]
  BY <1>1 DEF TypeOK
<1>3. StackOf(c)'
  BY <1>2 DEF StackOf, OldStackInv, OnOldStack
<1>4. ASSUME NEW d \in Cpus, d # c  PROVE StackOf(d)'
  <2>1. pc'[d] = pc[d] /\ stack'[d] = stack[d] /\ thread_addr'[d] = thread_addr[d]
    BY <1>1, <1>4 DEF TypeOK
  <2>2. \A e \in Cpus \ {d} : InHands(e) <= InHands(e)'
    BY <1>1, SameHands
  <2>3. StackOf(d)
    BY DEF StackInv
  <2> QED  BY <1>1, <2>1, <2>2, <2>3, SpectatorStep
<1> QED  BY <1>3, <1>4 DEF StackInv

(* ready: the caller is on its own stack, and its queue grows.              *)
LEMMA StackReady ==
  ASSUME SchedulerInv, StackInv, SchedulerInv', NEW c \in Cpus, Ready(c)
  PROVE  StackInv'
<1> USE DEF SchedulerInv
<1>1. PICK t : ready_queue' = [ready_queue EXCEPT ![c] = Append(@, t)]
  <2>1. pc'[c] # "panic"
    BY DEF ReadyQueueNeverFull
  <2> QED  BY <2>1 DEF Ready, Goto, TypeOK
<1>2. /\ pc[c] \in {"boot", "run"}
      /\ UNCHANGED <<pc, thread_addr, stack>>
  <2>1. pc'[c] # "panic"
    BY DEF ReadyQueueNeverFull
  <2> QED  BY <2>1 DEF Ready, MaySpawn, Goto, TypeOK
<1>3. StackOf(c)'
  <2>1. StackOf(c)
    BY DEF StackInv
  <2> QED  BY <1>2, <2>1 DEF StackOf, OldStackInv, OnOldStack
<1>4. ASSUME NEW d \in Cpus, d # c  PROVE StackOf(d)'
  <2>1. ready_queue'[d] = ready_queue[d]
    BY <1>1, <1>4 DEF TypeOK
  <2>2. InHands(c) <= InHands(c)'
    <3>1. /\ Len(ready_queue[c]) \in Nat
          /\ Len(ready_queue'[c]) = Len(ready_queue[c]) + 1
      BY <1>1 DEF TypeOK
    <3>2. CpuRunsThread(c) \in Nat /\ CpuRunsThread(c)' = CpuRunsThread(c)
      BY <1>2 DEF CpuRunsThread
    <3> QED  BY <3>1, <3>2 DEF InHands
  <2>3. \A e \in Cpus \ {c} : ready_queue'[e] = ready_queue[e]
    BY <1>1 DEF TypeOK
  <2>4. \A e \in Cpus \ {d} : InHands(e) <= InHands(e)'
    BY <1>2, <2>2, <2>3, SameHands
  <2>5. StackOf(d)
    BY DEF StackInv
  <2>6. pc'[d] = pc[d] /\ stack'[d] = stack[d] /\ thread_addr'[d] = thread_addr[d]
    BY <1>2
  <2> QED  BY <2>1, <2>4, <2>5, <2>6, SpectatorStep
<1> QED  BY <1>3, <1>4 DEF StackInv

(* The end of a queue after push, and after n < Len(q) pops.                *)
LEMMA EndLemma ==
  ASSUME NEW q \in Seq(Threads)
  PROVE  /\ \A t \in Threads : EndsWith(Append(q, t), t)
         /\ \A t : EndsWith(q, t) => Holds(q, t)
         /\ \A n \in 0..(Len(q) - 1) : \A t :
              EndsWith(q, t) => EndsWith(SubSeq(q, n + 1, Len(q)), t)
<1>0. Len(q) \in Nat
  OBVIOUS
<1>1. ASSUME NEW t \in Threads  PROVE EndsWith(Append(q, t), t)
  <2>1. Len(Append(q, t)) = Len(q) + 1 /\ Append(q, t)[Len(q) + 1] = t
    OBVIOUS
  <2> QED  BY <1>0, <2>1 DEF EndsWith
<1>2. ASSUME NEW t, EndsWith(q, t)  PROVE Holds(q, t)
  BY <1>0, <1>2 DEF EndsWith, Holds
<1>3. ASSUME NEW n \in 0..(Len(q) - 1), NEW t, EndsWith(q, t)
      PROVE  EndsWith(SubSeq(q, n + 1, Len(q)), t)
  <2> DEFINE r == SubSeq(q, n + 1, Len(q))
             k == Len(q) - n
  <2>1. k \in 1..Len(q) /\ k + n = Len(q)
    BY <1>0
  <2>2. Len(r) = k /\ \A i \in 1..k : r[i] = q[i + n]
    <3>1. \A i \in (n + 1)..Len(q) : q[i] \in Threads
      BY <1>0, ElementOfSeq
    <3> QED  BY <1>0, <2>1, <3>1, SubSeqProperties, SMTT(30)
  <2> HIDE DEF r, k
  <2>3. r[k] = q[Len(q)] /\ k > 0
    BY <1>0, <2>1, <2>2
  <2> QED  BY <1>3, <2>2, <2>3 DEF EndsWith, r
<1> QED  BY <1>1, <1>2, <1>3

(* switch: the preempted thread is now the last of the queue.               *)
LEMMA StackSwitch ==
  ASSUME SchedulerInv, StackInv, SchedulerInv', NEW c \in Cpus, Switch(c)
  PROVE  StackInv'
<1> USE DEF SchedulerInv
<1> DEFINE queue == ready_queue[c]
<1>1. /\ pc[c] = "switch" /\ pc'[c] = "pick"
      /\ \A d \in Cpus \ {c} : pc'[d] = pc[d]
      /\ UNCHANGED stack
  <2>1. pc'[c] # "panic"
    BY DEF ReadyQueueNeverFull
  <2> QED  BY <2>1 DEF Switch, Goto, TypeOK
<1>2. /\ queue \in Seq(Threads) /\ Len(queue) \in Nat
      /\ stack[c] = thread_addr[c]
      /\ thread_addr[c] \in Threads \cup {Idle(c)}
      /\ thread_addr[c] \in Threads <=> RequeueCurrent(c)
  <2>1. StackOf(c)
    BY DEF StackInv
  <2>2. thread_addr[c] \in Threads \cup {Idle(c)}
    BY <1>1 DEF CpuInv
  <2>3. queue \in Seq(Threads) /\ Len(queue) \in Nat
    BY DEF TypeOK
  <2>4. stack[c] = thread_addr[c]
    BY <1>1, <2>1 DEF StackOf
  <2>5. thread_addr[c] \in Threads <=> RequeueCurrent(c)
    BY <2>2, NameLemma DEF RequeueCurrent
  <2> QED  BY <2>2, <2>3, <2>4, <2>5
<1>3. CASE queue = <<>>
  <2>1. UNCHANGED <<ready_queue, thread_addr>>
    BY <1>3 DEF Switch
  <2>2. StackOf(c)'
    BY <1>1, <1>2, <2>1 DEF StackOf, OldStackInv, OnOldStack
  <2>3. ASSUME NEW d \in Cpus, d # c  PROVE StackOf(d)'
    <3>1. StackOf(d)
      BY DEF StackInv
    <3>2. \A e \in Cpus \ {d} : InHands(e) <= InHands(e)'
      BY <2>1, SameHands
    <3> QED  BY <1>1, <2>1, <2>3, <3>1, <3>2, SpectatorStep
  <2> QED  BY <2>2, <2>3 DEF StackInv
<1>4. CASE queue # <<>>
  <2> DEFINE rest == Tail(queue)
             after == IF RequeueCurrent(c) THEN Append(rest, thread_addr[c]) ELSE rest
  <2>1. /\ ready_queue' = [ready_queue EXCEPT ![c] = after]
        /\ thread_addr' = [thread_addr EXCEPT ![c] = Head(queue)]
    <3>1. pc'[c] # "panic"
      BY DEF ReadyQueueNeverFull
    <3> QED  BY <1>4, <3>1 DEF Switch, Goto, TypeOK
  <2>2. /\ rest \in Seq(Threads) /\ Head(queue) \in Threads
        /\ Len(rest) = Len(queue) - 1
    BY <1>2, <1>4, PopLemma DEF PlacedOnce
  <2>3. /\ ready_queue'[c] = after /\ thread_addr'[c] = Head(queue)
        /\ \A d \in Cpus \ {c} :
             ready_queue'[d] = ready_queue[d] /\ thread_addr'[d] = thread_addr[d]
    BY <2>1 DEF TypeOK
  <2> HIDE DEF rest
  <2>4. StackOf(c)'
    <3>1. ASSUME OnOldStack(c)'
          PROVE  EndsWith(ready_queue[c], stack[c])' /\ Queued(stack[c], c)'
      <4>1. thread_addr[c] \in Threads /\ stack'[c] = thread_addr[c]
        BY <1>1, <1>2, <3>1 DEF OnOldStack
      <4>2. ready_queue'[c] = Append(rest, thread_addr[c])
        BY <1>2, <2>3, <4>1
      <4>3. EndsWith(Append(rest, thread_addr[c]), thread_addr[c])
        BY <2>2, <4>1, EndLemma
      <4>4. Append(rest, thread_addr[c]) \in Seq(Threads)
        BY <2>2, <4>1
      <4>5. Holds(Append(rest, thread_addr[c]), thread_addr[c])
        BY <4>3, <4>4, EndLemma
      <4> QED  BY <4>1, <4>2, <4>3, <4>5 DEF Queued
    <3> QED  BY <1>1, <3>1 DEF StackOf, OldStackInv
  <2>5. InHands(c) <= InHands(c)'
    <3>1. CpuRunsThread(c)' = 1
      BY <2>2, <2>3 DEF CpuRunsThread
    <3>2. CASE RequeueCurrent(c)
      <4>1. CpuRunsThread(c) = 1
        BY <1>2, <3>2 DEF CpuRunsThread
      <4>2. Len(ready_queue'[c]) = Len(queue)
        BY <1>2, <2>2, <2>3, <3>2
      <4> QED  BY <1>2, <3>1, <4>1, <4>2 DEF InHands
    <3>3. CASE ~RequeueCurrent(c)
      <4>1. CpuRunsThread(c) = 0
        BY <1>2, <3>3 DEF CpuRunsThread
      <4>2. Len(ready_queue'[c]) = Len(queue) - 1
        BY <2>2, <2>3, <3>3
      <4> QED  BY <1>2, <3>1, <4>1, <4>2 DEF InHands
    <3> QED  BY <3>2, <3>3
  <2>6. ASSUME NEW d \in Cpus, d # c  PROVE StackOf(d)'
    <3>1. StackOf(d)
      BY DEF StackInv
    <3>2. \A e \in Cpus \ {d} : InHands(e) <= InHands(e)'
      BY <2>3, <2>5, SameHands
    <3> QED  BY <1>1, <2>3, <2>6, <3>1, <3>2, SpectatorStep
  <2> QED  BY <2>4, <2>6 DEF StackInv
<1> QED  BY <1>3, <1>4

(* do_load_balance, on two CPUs: it takes nothing from a queue that is short *)
(* enough, never the last thread of one, and levels the queue it adds to.    *)
LEMMA StackBalance ==
  ASSUME TwoCpus, SchedulerInv, StackInv, NEW c \in Cpus, Balance(c)
  PROVE  StackInv'
<1>1. PICK src \in Cpus, dst \in Cpus : src # dst /\ MoveThreads(c, src, dst)
  <2>1. other_cpu[c] \in Cpus \ {c}
    BY DEF Balance, SchedulerInv, CpuInv, TypeOK
  <2> QED  BY <2>1 DEF Balance
<1> DEFINE from == ready_queue[src]
           to   == ready_queue[dst]
           n    == ToMove(Len(from) - Len(to))
<1>2. /\ n \in 0..Len(from) /\ Len(to) + n <= QueueCap
      /\ n # 0 => /\ Len(from) - Len(to) >= 2
                  /\ (Len(from) - n) - (Len(to) + n) \in {0, 1}
  BY <1>1, MoveThreadsFits
<1>3. from \in Seq(Threads) /\ to \in Seq(Threads) /\ Len(from) \in Nat /\ Len(to) \in Nat
  BY DEF SchedulerInv, TypeOK
<1>4. \A u : Holds(to, u) => Holds(ready_queue'[dst], u)
  <2>1. src # dst /\ MoveThreads(c, src, dst)
    BY <1>1
  <2>2. \A u : Holds(ready_queue'[dst], u) <=> Holds(ready_queue[dst], u) \/ Taken(src, dst, u)
    BY <2>1, MoveThreadsEffect, SMTT(30)
  <2> QED  BY <2>2
<1>5. UNCHANGED <<thread_addr, stack>> /\ pc[c] = "balance"
  BY DEF Balance
<1> HIDE DEF n
<1>6. /\ ready_queue' = [ready_queue EXCEPT ![src] = SubSeq(from, n + 1, Len(from)),
                                            ![dst] = to \o SubSeq(from, 1, n)]
      /\ pc' = [pc EXCEPT ![c] = "exit"]
  <2>1. ~(Len(to) + n > QueueCap)
    BY <1>2, <1>3, SchedulerAssumption
  <2> QED  BY <1>1, <2>1 DEF MoveThreads, Goto, n
<1>7. /\ ready_queue'[src] = SubSeq(from, n + 1, Len(from))
      /\ ready_queue'[dst] = to \o SubSeq(from, 1, n)
  BY <1>1, <1>6 DEF SchedulerInv, TypeOK
<1>8. pc'[c] = "exit" /\ \A b \in Cpus \ {c} : pc'[b] = pc[b]
  BY <1>6 DEF SchedulerInv, TypeOK
<1>9. \A b \in Cpus : OnOldStack(b)' => OnOldStack(b)
  BY <1>5, <1>8 DEF OnOldStack
<1>10. CASE n = 0
  <2>1. ready_queue'[src] = from /\ ready_queue'[dst] = to
    <3>1. SubSeq(from, 1, Len(from)) = from /\ to \o SubSeq(from, 1, 0) = to
      BY <1>3
    <3> QED  BY <1>7, <1>10, <3>1
  <2>2. UNCHANGED ready_queue
    BY <1>6, <2>1 DEF SchedulerInv, TypeOK
  <2> QED  BY <1>5, <1>8, <2>2, QuietStep
<1>11. CASE n # 0
  <2>1. PICK x \in Nat, y \in Nat, k \in Nat :
          /\ x = Len(from) /\ y = Len(to) /\ k = n
          /\ k # 0 /\ k <= x /\ x - y >= 2 /\ (x - k) - (y + k) \in {0, 1}
    <3>1. n \in Nat /\ n <= Len(from)
      BY <1>2, <1>3
    <3> HIDE DEF from, to
    <3> QED  BY <1>2, <1>3, <1>11, <3>1
  <2>2. (y + k) - (x - k) <= 0 /\ k \in 0..(x - 1) /\ ~(x - y <= 1) /\ ~(x - y <= 0)
    <3>1. \A p, q, r \in Nat :
            r # 0 /\ p - q >= 2 /\ (p - r) - (q + r) \in {0, 1} =>
              (q + r) - (p - r) <= 0 /\ r \in 0..(p - 1) /\ ~(p - q <= 1) /\ ~(p - q <= 0)
      OBVIOUS
    <3> QED  BY <2>1, <3>1
  <2>3. Len(ready_queue'[src]) = Len(from) - n /\ Len(ready_queue'[dst]) = Len(to) + n
    <3>1. /\ SubSeq(from, 1, n) \in Seq(Threads) /\ Len(SubSeq(from, 1, n)) = n
          /\ Len(SubSeq(from, n + 1, Len(from))) = Len(from) - n
      BY <1>2, <1>3, ElementOfSeq, SubSeqProperties
    <3>2. Len(to \o SubSeq(from, 1, n)) = Len(to) + n
      BY <1>3, <3>1, ConcatProperties
    <3> QED  BY <1>7, <3>1, <3>2
  <2>4. ASSUME OnOldStack(src)
        PROVE  /\ EndsWith(ready_queue'[src], stack[src])
               /\ Holds(ready_queue'[src], stack[src])
    <3>1. CpuRunsThread(dst) = 0 \/ CpuRunsThread(dst) = 1
      BY DEF CpuRunsThread
    <3>2. Levelled(src) => x - y <= CpuRunsThread(dst)
      BY <1>1, <2>1 DEF Levelled
    <3>3. ~Levelled(src)
      BY <2>2, <3>1, <3>2
    <3>4. StackOf(src)
      BY DEF StackInv
    <3>5. EndsWith(from, stack[src])
      BY <2>4, <3>3, <3>4 DEF StackOf, OldStackInv
    <3>6. n \in 0..(Len(from) - 1)
      BY <2>1, <2>2
    <3>7. EndsWith(SubSeq(from, n + 1, Len(from)), stack[src])
      BY <1>3, <3>5, <3>6, EndLemma
    <3>8. SubSeq(from, n + 1, Len(from)) \in Seq(Threads)
      BY <1>2, <1>3, ElementOfSeq, SubSeqProperties
    <3>9. Holds(SubSeq(from, n + 1, Len(from)), stack[src])
      BY <3>7, <3>8, EndLemma
    <3> QED  BY <1>7, <3>7, <3>9
  <2>5. Levelled(dst)'
    <3> SUFFICES ASSUME NEW d \in Cpus \ {dst}
                 PROVE  Len(ready_queue'[dst]) - Len(ready_queue'[d]) <= CpuRunsThread(d)'
      BY DEF Levelled
    <3>1. d = src
      BY <1>1 DEF TwoCpus
    <3>2. CpuRunsThread(d)' \in 0..1
      BY DEF CpuRunsThread
    <3>3. Len(ready_queue'[dst]) = y + k /\ Len(ready_queue'[d]) = x - k
      BY <2>3, <2>1, <3>1
    <3> QED  BY <2>2, <3>2, <3>3
  <2>6. ASSUME NEW b \in Cpus  PROVE OldStackInv(b)'
    <3> SUFFICES ASSUME OnOldStack(b)'
                 PROVE  /\ Queued(stack[b], b)'
                        /\ EndsWith(ready_queue[b], stack[b])' \/ Levelled(b)'
      BY DEF OldStackInv
    <3>1. OnOldStack(b) /\ stack'[b] = stack[b]
      BY <1>5, <1>9
    <3>2. CASE b = src
      BY <2>4, <3>1, <3>2 DEF Queued
    <3>3. CASE b = dst
      <4>1. StackOf(b)
        BY DEF StackInv
      <4>2. Holds(to, stack[b])
        BY <3>1, <3>3, <4>1 DEF StackOf, OldStackInv, Queued
      <4> QED  BY <1>4, <2>5, <3>1, <3>3, <4>2 DEF Queued
    <3> QED  BY <1>1, <3>2, <3>3 DEF TwoCpus
  <2>7. ASSUME NEW b \in Cpus  PROVE StackOf(b)'
    <3>1. StackOf(b)
      BY DEF StackInv
    <3> QED  BY <1>5, <1>8, <2>6, <3>1 DEF StackOf
  <2> QED  BY <2>7 DEF StackInv
<1> QED  BY <1>10, <1>11

(* StackInv is inductive on two CPUs.                                       *)
LEMMA StackNext ==
  ASSUME TwoCpus, SchedulerInv, StackInv, SchedulerInv', [Next]_vars
  PROVE  StackInv'
<1>1. ASSUME NEW c \in Cpus, SetupTls(c)  PROVE StackInv'
  <2>1. ready_queue' = ready_queue /\ thread_addr' = thread_addr
    BY <1>1 DEF SetupTls, SchedulerInv, TypeOK, CpuInv
  <2>2. pc[c] = "off" /\ pc' = [pc EXCEPT ![c] = "boot"] /\ UNCHANGED stack
    BY <1>1 DEF SetupTls, Goto
  <2>3. \A d \in Cpus : pc'[d] = IF d = c THEN "boot" ELSE pc[d]
    BY <2>2 DEF SchedulerInv, TypeOK
  <2> QED  BY <2>1, <2>2, <2>3, QuietStep
<1>2. ASSUME NEW c \in Cpus, NEW t \in Threads, AddThread(c, t)  PROVE StackInv'
  BY <1>2, QuietStep DEF AddThread
<1>3. ASSUME NEW c \in Cpus, TimerInterrupt(c)  PROVE StackInv'
  <2>1. \A d \in Cpus : pc'[d] = IF d = c THEN "switch" ELSE pc[d]
    BY <1>3 DEF TimerInterrupt, Goto, SchedulerInv, TypeOK
  <2> QED  BY <1>3, <2>1, QuietStep DEF TimerInterrupt
<1>4. ASSUME NEW c \in Cpus, Pick(c)  PROVE StackInv'
  <2>1. /\ pc[c] = "pick" /\ pc'[c] \in {"balance", "exit"}
        /\ \A d \in Cpus \ {c} : pc'[d] = pc[d]
        /\ UNCHANGED <<ready_queue, thread_addr, stack>>
    BY <1>4 DEF Pick, PickNoCpu, PickCpu, Goto, SchedulerInv, TypeOK
  <2> QED  BY <2>1, QuietStep
<1>5. CASE UNCHANGED vars
  BY <1>5, QuietStep DEF vars
<1> QED
  BY <1>1, <1>2, <1>3, <1>4, <1>5, StackForceSwitchToIdle, StackReady, StackSwitch,
     StackBalance, StackTimerReturn DEF Next, Boot, Spawn

(* On two CPUs no CPU executes on the stack of a thread while the other is   *)
(* still on it, although switch gives the thread away before it leaves.      *)
THEOREM StacksOfTwoCpus ==
  ASSUME TwoCpus
  PROVE  Spec => []StackExclusive
<1>1. Init => StackInv
  <2> SUFFICES ASSUME Init, NEW c \in Cpus  PROVE StackOf(c)
    BY DEF StackInv
  <2> QED  BY DEF Init, StackOf, OldStackInv, OnOldStack
<1>2. SchedulerInv /\ StackInv /\ SchedulerInv' /\ [Next]_vars => StackInv'
  BY StackNext
<1>3. SchedulerInv /\ StackInv => StackExclusive
  BY StackInvExcludes
<1> QED  BY <1>1, <1>2, <1>3, SchedulerInvariant, PTL DEF Spec
=============================================================================
