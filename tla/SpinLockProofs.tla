---------------------------- MODULE SpinLockProofs ----------------------------
(***************************************************************************)
(* Proofs about SpinLock for any CPUs, threads and depth of nesting: who    *)
(* holds a lock or spins for one runs with interrupts off, the interrupt    *)
(* flag comes back as it was, and the flag, the spinning and the guards     *)
(* implement a lock with one holder.                                        *)
(***************************************************************************)
EXTENDS SpinLock, SequenceTheorems, TLAPS

-----------------------------------------------------------------------------
(* The inductive invariant *)

(* A thread runs on one CPU at most, and a handler that is not entered does  *)
(* nothing.                                                                  *)
Places ==
  /\ \A c, d \in Cpus : on[c] = on[d] => c = d
  /\ \A c \in Cpus : c \notin in_handler => pc[c] = "code" /\ guards[c] = <<>>

(* HolderNotInterrupted, up to the end of drop().                            *)
Masked(u) == \E c \in Cpus : Executing(c) = u /\ int_flag[c] = FALSE

HoldersMasked ==
  \A u \in Users : guards[u] # <<>> \/ pc[u] \in {"spin", "restore"} => Masked(u)

(* FlagRestored, and from a call of lock() to its cli.                       *)
Flags ==
  /\ \A c \in Cpus : c \in in_handler => int_flag[c] = FALSE
  /\ \A c \in Cpus : c \notin in_handler /\ guards[on[c]] = <<>> /\ pc[on[c]] \in {"code", "disable"}
                       => int_flag[c] = TRUE

(* What a guard saw: interrupts on only if it is a thread's oldest one.      *)
GuardSaw(u, k) == IF u \in Threads /\ k = 1 THEN TRUE ELSE FALSE

Seen ==
  /\ \A u \in Users : \A k \in 1..Len(guards[u]) : guards[u][k].interrupts_state = GuardSaw(u, k)
  /\ \A u \in Users : pc[u] # "code" =>
       seen[u] = IF u \in Threads /\ guards[u] = <<>> THEN TRUE ELSE FALSE

(* A locked lock has one guard, a free one none.                             *)
Guarded ==
  /\ \A l \in Locks : locked[l] = TRUE <=> \E u \in Users : Holds(u, l)
  /\ \A u, v \in Users : \A j \in 1..Len(guards[u]), k \in 1..Len(guards[v]) :
       guards[u][j].lock = guards[v][k].lock => u = v /\ j = k

Asked == \A u \in Users : pc[u] \in {"disable", "spin"} => asks[u] \in Locks

(* CurrentCpuStable, and what it needs before the lock is taken.             *)
CpuKnown ==
  /\ CurrentCpuStable
  /\ \A t \in Callers : pc[t] \in {"disable", "spin"} /\ guards[t] = <<>> => rax[t] = NULL

SpinLockInv ==
  TypeOK /\ Places /\ HoldersMasked /\ Flags /\ Seen /\ Guarded /\ Asked /\ CpuKnown

-----------------------------------------------------------------------------
(* What the code of a CPU is, and what it does to the guards.               *)

GuardType == [lock : Locks, interrupts_state : BOOLEAN]

(* No user executes on two CPUs.                                            *)
LEMMA ExecutingLemma ==
  ASSUME SpinLockInv
  PROVE  /\ \A c \in Cpus : Executing(c) \in Users
         /\ \A c, d \in Cpus : Executing(c) = Executing(d) => c = d
         /\ \A c \in Cpus : Executing(c) \in Threads <=> c \notin in_handler
<1> USE SpinLockAssumption
<1> QED  BY DEF SpinLockInv, TypeOK, Places, Executing, Users

(* Guards are records, and a list of them has a length.                     *)
LEMMA GuardsLemma ==
  ASSUME SpinLockInv, NEW u \in Users
  PROVE  /\ guards[u] \in Seq(GuardType)
         /\ Len(guards[u]) \in Nat
         /\ guards[u] = <<>> <=> Len(guards[u]) = 0
         /\ \A k \in 1..Len(guards[u]) :
              /\ guards[u][k].lock \in Locks
              /\ guards[u][k].interrupts_state \in BOOLEAN
<1>1. guards[u] \in Seq(GuardType)
  BY DEF SpinLockInv, TypeOK, GuardType
<1>2. \A k \in 1..Len(guards[u]) : guards[u][k] \in GuardType
  BY <1>1
<1>3. guards[u] = <<>> <=> Len(guards[u]) = 0
  BY <1>1
<1> QED  BY <1>1, <1>2, <1>3 DEF GuardType

(* The guard that compare_exchange creates.                                 *)
LEMMA AppendLemma ==
  ASSUME NEW T, NEW q \in Seq(T), NEW g \in T
  PROVE  /\ Append(q, g) \in Seq(T)
         /\ Append(q, g) # <<>>
         /\ Len(Append(q, g)) = Len(q) + 1
         /\ Append(q, g)[Len(q) + 1] = g
         /\ \A k \in 1..Len(q) : Append(q, g)[k] = q[k]
OBVIOUS

(* The guard that drop() removes: the youngest, the others keep their place.*)
Dropped(q) == SubSeq(q, 1, Len(q) - 1) \o SubSeq(q, Len(q) + 1, Len(q))

LEMMA DropLemma ==
  ASSUME NEW T, NEW q \in Seq(T), q # <<>>
  PROVE  /\ Dropped(q) \in Seq(T)
         /\ Len(Dropped(q)) = Len(q) - 1
         /\ \A k \in 1..Len(q) - 1 : Dropped(q)[k] = q[k]
<1> DEFINE a == SubSeq(q, 1, Len(q) - 1)
           b == SubSeq(q, Len(q) + 1, Len(q))
<1>1. Len(q) \in Nat \ {0}
  BY EmptySeq
<1>2. /\ a \in Seq(T) /\ Len(a) = Len(q) - 1
      /\ \A k \in 1..Len(q) - 1 : a[k] = q[k]
  <2>1. ASSUME NEW n \in Nat, n <= Len(q)
        PROVE  /\ SubSeq(q, 1, n) \in Seq(T) /\ Len(SubSeq(q, 1, n)) = n
               /\ \A k \in 1..n : SubSeq(q, 1, n)[k] = q[k]
    BY <2>1
  <2>2. Len(q) - 1 \in Nat /\ Len(q) - 1 <= Len(q)
    BY <1>1
  <2> HIDE DEF a
  <2>3. /\ SubSeq(q, 1, Len(q) - 1) \in Seq(T) /\ Len(SubSeq(q, 1, Len(q) - 1)) = Len(q) - 1
        /\ \A k \in 1..Len(q) - 1 : SubSeq(q, 1, Len(q) - 1)[k] = q[k]
    BY <2>1, <2>2
  <2> QED  BY <2>3 DEF a
<1>3. b \in Seq(T) /\ Len(b) = 0
  BY <1>1, SubSeqProperties
<1>4. a \o b \in Seq(T) /\ Len(a \o b) = Len(a) + Len(b)
      /\ \A k \in 1..Len(a) : (a \o b)[k] = a[k]
  BY <1>2, <1>3, ConcatProperties
<1> QED  BY <1>1, <1>2, <1>3, <1>4 DEF Dropped

-----------------------------------------------------------------------------
(* Every action preserves the invariant. *)

(* Interrupts are on for a thread that holds nothing and calls lock(), off   *)
(* for a handler and for a thread with a guard.                              *)
LEMMA LockCallInv ==
  ASSUME SpinLockInv, NEW c \in Cpus, NEW l \in Locks, LockCall(c, l)
  PROVE  SpinLockInv'
<1>0. PICK u \in Users : u = Executing(c)
  BY ExecutingLemma
<1> USE SpinLockAssumption
<1>1. /\ u \in Threads <=> c \notin in_handler
      /\ c \notin in_handler => u = on[c]
      /\ c \in in_handler => u = c
      /\ \A d \in Cpus : Executing(d) = u => d = c
  BY <1>0, ExecutingLemma DEF Executing
<1>2. /\ pc[u] = "code"
      /\ pc' = [pc EXCEPT ![u] = "disable"]
      /\ seen' = [seen EXCEPT ![u] = int_flag[c]]
      /\ asks' = [asks EXCEPT ![u] = l]
      /\ rax' = [t \in Callers |-> IF t = u /\ guards[u] = <<>> THEN NULL ELSE rax[t]]
      /\ UNCHANGED <<locked, int_flag, on, in_handler, guards>>
  BY <1>0 DEF LockCall, Goto, AreEnabled, AskedInside
<1>3. \A d \in Cpus : Executing(d)' = Executing(d)
  BY <1>2 DEF Executing
<1>4. TypeOK'
  BY <1>1, <1>2 DEF SpinLockInv, TypeOK
<1>5. Places'
  BY <1>1, <1>2 DEF SpinLockInv, TypeOK, Places, Users
<1>6. HoldersMasked'
  BY <1>1, <1>2, <1>3 DEF SpinLockInv, TypeOK, HoldersMasked, Masked
<1>7. Flags'
  BY <1>1, <1>2 DEF SpinLockInv, TypeOK, Flags, Users
<1>8. Seen'
  <2>1. int_flag[c] = IF u \in Threads /\ guards[u] = <<>> THEN TRUE ELSE FALSE
    <3>1. CASE guards[u] = <<>>
      BY <1>1, <1>2, <3>1 DEF SpinLockInv, Flags
    <3>2. CASE guards[u] # <<>>
      BY <1>1, <3>2 DEF SpinLockInv, HoldersMasked, Masked
    <3> QED  BY <3>1, <3>2
  <2> QED  BY <1>1, <1>2, <2>1 DEF SpinLockInv, TypeOK, Seen, GuardSaw
<1>9. Guarded'
  BY <1>2 DEF SpinLockInv, Guarded, Holds
<1>10. Asked'
  BY <1>1, <1>2 DEF SpinLockInv, TypeOK, Asked
<1>11. CpuKnown'
  BY <1>1, <1>2 DEF SpinLockInv, TypeOK, CpuKnown, CurrentCpuStable, Users
<1> QED  BY <1>4, <1>5, <1>6, <1>7, <1>8, <1>9, <1>10, <1>11 DEF SpinLockInv

(* cli: from here on the user is masked.                                     *)
LEMMA DisableInv ==
  ASSUME SpinLockInv, NEW c \in Cpus, Disable(c)
  PROVE  SpinLockInv'
<1>0. PICK u \in Users : u = Executing(c)
  BY ExecutingLemma
<1> USE SpinLockAssumption
<1>1. /\ c \notin in_handler => u = on[c]
      /\ c \in in_handler => u = c
      /\ \A d \in Cpus : Executing(d) = u => d = c
      /\ Executing(c) = u
  BY <1>0, ExecutingLemma DEF Executing
<1>2. /\ pc[u] = "disable"
      /\ pc' = [pc EXCEPT ![u] = "spin"]
      /\ int_flag' = [int_flag EXCEPT ![c] = FALSE]
      /\ UNCHANGED <<locked, on, in_handler, seen, asks, guards, rax>>
  BY <1>0 DEF Disable, Goto, Disabled
<1>3. \A d \in Cpus : Executing(d)' = Executing(d)
  BY <1>2 DEF Executing
<1>4. TypeOK'
  BY <1>1, <1>2 DEF SpinLockInv, TypeOK
<1>5. Places'
  BY <1>1, <1>2 DEF SpinLockInv, TypeOK, Places, Users
<1>6. HoldersMasked'
  BY <1>1, <1>2, <1>3 DEF SpinLockInv, TypeOK, HoldersMasked, Masked
<1>7. Flags'
  BY <1>1, <1>2 DEF SpinLockInv, TypeOK, Flags, Users, Places
<1>8. Seen'
  <2>1. \A x \in Users : pc'[x] # "code" => pc[x] # "code"
    BY <1>2 DEF SpinLockInv, TypeOK
  <2> QED  BY <1>2, <2>1 DEF SpinLockInv, Seen
<1>9. Guarded'
  BY <1>2 DEF SpinLockInv, Guarded, Holds
<1>10. Asked'
  BY <1>1, <1>2 DEF SpinLockInv, TypeOK, Asked
<1>11. CpuKnown'
  BY <1>1, <1>2 DEF SpinLockInv, TypeOK, CpuKnown, CurrentCpuStable, Users
<1> QED  BY <1>4, <1>5, <1>6, <1>7, <1>8, <1>9, <1>10, <1>11 DEF SpinLockInv

(* A free lock has no guard yet, and the new one saw what lock() read.       *)
LEMMA CompareExchangeInv ==
  ASSUME SpinLockInv, NEW c \in Cpus, CompareExchange(c)
  PROVE  SpinLockInv'
<1>u. PICK u \in Users : u = Executing(c)
  BY ExecutingLemma
<1>0. PICK g, q, r :
        /\ u = Executing(c)
        /\ g = [lock |-> asks[u], interrupts_state |-> seen[u]]
        /\ q = guards[u]
        /\ r = Append(q, g)
  BY <1>u
<1> USE SpinLockAssumption
<1>1. /\ c \notin in_handler => u = on[c]
      /\ c \in in_handler => u = c
      /\ \A d \in Cpus : Executing(d) = u => d = c
      /\ Executing(c) = u
  BY <1>0, ExecutingLemma DEF Executing
<1>2. /\ pc[u] = "spin"
      /\ locked[asks[u]] = FALSE
      /\ pc' = [pc EXCEPT ![u] = "code"]
      /\ locked' = [locked EXCEPT ![asks[u]] = TRUE]
      /\ guards' = [guards EXCEPT ![u] = r]
      /\ asks' = [asks EXCEPT ![u] = NULL]
      /\ UNCHANGED <<int_flag, on, in_handler, seen, rax>>
      /\ asks[u] \in Locks
  BY <1>0 DEF CompareExchange, Goto, Compare, SpinLockInv, Asked, TypeOK
<1>3. \A d \in Cpus : Executing(d)' = Executing(d)
  BY <1>2 DEF Executing
<1>4. /\ g \in GuardType
      /\ g.lock = asks[u] /\ g.interrupts_state = seen[u]
      /\ q \in Seq(GuardType) /\ Len(q) \in Nat
      /\ q = <<>> <=> Len(q) = 0
  BY <1>0, <1>2, GuardsLemma DEF SpinLockInv, TypeOK, GuardType
<1>5. /\ r \in Seq(GuardType)
      /\ r # <<>>
      /\ Len(r) = Len(q) + 1
      /\ r[Len(q) + 1] = g
      /\ \A k \in 1..Len(q) : r[k] = q[k]
  BY <1>0, <1>4, AppendLemma
<1>6. /\ guards'[u] = r
      /\ \A v \in Users : v # u => guards'[v] = guards[v]
      /\ \A v \in Users : Len(guards[v]) \in Nat
  BY <1>1, <1>2, GuardsLemma DEF SpinLockInv, TypeOK
<1>7. q = guards[u]
  BY <1>0
<1>8. TypeOK'
  <2>1. guards' \in [Users -> Seq(GuardType)]
    BY <1>1, <1>2, <1>5 DEF SpinLockInv, TypeOK, GuardType
  <2> QED  BY <1>1, <1>2, <2>1 DEF SpinLockInv, TypeOK, GuardType
<1>9. Places'
  BY <1>1, <1>2, <1>6 DEF SpinLockInv, TypeOK, Places, Users
<1>10. HoldersMasked'
  BY <1>1, <1>2, <1>3, <1>6 DEF SpinLockInv, TypeOK, HoldersMasked, Masked
<1>11. Flags'
  BY <1>1, <1>2, <1>5, <1>6 DEF SpinLockInv, TypeOK, Flags, Users, Places
<1>12. Seen'
  <2>1. g.interrupts_state = GuardSaw(u, Len(q) + 1)
    <3>1. seen[u] = IF u \in Threads /\ q = <<>> THEN TRUE ELSE FALSE
      BY <1>2, <1>7 DEF SpinLockInv, Seen
    <3>2. q = <<>> <=> Len(q) + 1 = 1
      BY <1>4
    <3> QED  BY <1>4, <3>1, <3>2 DEF GuardSaw
  <2>2. \A k \in 1..Len(r) : r[k].interrupts_state = GuardSaw(u, k)
    BY <1>1, <1>4, <1>5, <1>7, <2>1 DEF SpinLockInv, Seen
  <2>3. \A v \in Users : \A k \in 1..Len(guards'[v]) : guards'[v][k].interrupts_state = GuardSaw(v, k)
    BY <1>6, <2>2 DEF SpinLockInv, Seen
  <2> QED  BY <1>1, <1>2, <1>6, <2>3 DEF SpinLockInv, TypeOK, Seen, GuardSaw
<1>13. Guarded'
  <2>1. \A v \in Users : ~Holds(v, asks[u])
    BY <1>2 DEF SpinLockInv, Guarded
  <2>2. \A l : Holds(u, l)' <=> Holds(u, l) \/ l = asks[u]
    BY <1>4, <1>5, <1>6, <1>7, SMTT(30) DEF Holds
  <2>3. \A v \in Users : v # u => \A l : Holds(v, l)' <=> Holds(v, l)
    BY <1>6 DEF Holds
  <2>4. \A l \in Locks : locked'[l] = TRUE <=> \E v \in Users : Holds(v, l)'
    <3> SUFFICES ASSUME NEW l \in Locks
                 PROVE  locked'[l] = TRUE <=> \E v \in Users : Holds(v, l)'
      OBVIOUS
    <3>1. CASE l = asks[u]
      BY <1>1, <1>2, <2>2, <3>1 DEF SpinLockInv, TypeOK
    <3>2. CASE l # asks[u]
      <4>1. locked'[l] = locked[l]
        BY <1>2, <3>2 DEF SpinLockInv, TypeOK
      <4>2. \A v \in Users : Holds(v, l)' <=> Holds(v, l)
        BY <2>2, <2>3, <3>2
      <4> QED  BY <4>1, <4>2 DEF SpinLockInv, Guarded
    <3> QED  BY <3>1, <3>2
  <2>5. ASSUME NEW v \in Users, NEW w \in Users,
               NEW j \in 1..Len(guards'[v]), NEW k \in 1..Len(guards'[w]),
               guards'[v][j].lock = guards'[w][k].lock
        PROVE  v = w /\ j = k
    <3>1. ASSUME NEW x \in Users, NEW i \in 1..Len(guards'[x]), ~(x = u /\ i = Len(q) + 1)
          PROVE  /\ i \in 1..Len(guards[x])
                 /\ guards'[x][i] = guards[x][i]
                 /\ guards'[x][i].lock # asks[u]
      <4>1. i \in 1..Len(guards[x]) /\ guards'[x][i] = guards[x][i]
        BY <1>4, <1>5, <1>6, <1>7, <3>1, SMTT(30)
      <4> QED  BY <2>1, <4>1 DEF Holds
    <3>2. CASE ~(v = u /\ j = Len(q) + 1) /\ ~(w = u /\ k = Len(q) + 1)
      <4>1. j \in 1..Len(guards[v]) /\ k \in 1..Len(guards[w])
        BY <3>1, <3>2
      <4>2. guards[v][j].lock = guards[w][k].lock
        BY <2>5, <3>1, <3>2
      <4> QED  BY <4>1, <4>2 DEF SpinLockInv, Guarded
    <3>3. CASE v = u /\ j = Len(q) + 1
      BY <1>4, <1>5, <1>6, <2>5, <3>1, <3>3
    <3>4. CASE w = u /\ k = Len(q) + 1
      BY <1>4, <1>5, <1>6, <2>5, <3>1, <3>4
    <3> QED  BY <3>2, <3>3, <3>4
  <2> QED  BY <2>4, <2>5 DEF Guarded
<1>14. Asked'
  BY <1>1, <1>2 DEF SpinLockInv, TypeOK, Asked
<1>15. CpuKnown'
  <2>1. \A t \in Callers : t \in Users
    BY DEF Users
  <2>2. u \in Callers /\ guards[u] = <<>> => rax[u] \notin Cpus /\ rax[u] \notin Threads
    BY <1>2 DEF SpinLockInv, CpuKnown, Users
  <2>3. CurrentCpuStable'
    BY <1>2, <1>6, <2>1, <2>2 DEF SpinLockInv, CpuKnown, CurrentCpuStable
  <2> QED  BY <1>1, <1>2, <1>6, <2>1, <2>3 DEF SpinLockInv, TypeOK, CpuKnown
<1> QED  BY <1>8, <1>9, <1>10, <1>11, <1>12, <1>13, <1>14, <1>15 DEF SpinLockInv

(* The store of unlock(): the youngest guard is gone, interrupts still off.  *)
LEMMA UnlockInv ==
  ASSUME SpinLockInv, NEW c \in Cpus, Unlock(c)
  PROVE  SpinLockInv'
<1>u. PICK u \in Users : u = Executing(c)
  BY ExecutingLemma
<1>0. PICK q, r :
        /\ u = Executing(c)
        /\ q = guards[u]
        /\ r = Dropped(q)
  BY <1>u
<1> USE SpinLockAssumption
<1>1. /\ c \notin in_handler => u = on[c]
      /\ c \in in_handler => u = c
      /\ \A d \in Cpus : Executing(d) = u => d = c
      /\ Executing(c) = u
  BY <1>0, ExecutingLemma DEF Executing
<1>2. /\ q = guards[u]
      /\ q # <<>>
      /\ q \in Seq(GuardType) /\ Len(q) \in Nat \ {0}
      /\ r \in Seq(GuardType)
      /\ Len(r) = Len(q) - 1
      /\ r = <<>> <=> Len(q) = 1
      /\ \A k \in 1..Len(q) - 1 : r[k] = q[k]
      /\ q[Len(q)].lock \in Locks
      /\ q[Len(q)].interrupts_state \in BOOLEAN
  <2>1. q # <<>> /\ q \in Seq(GuardType) /\ Len(q) \in Nat \ {0}
    BY <1>0, GuardsLemma DEF Unlock
  <2>2. r \in Seq(GuardType) /\ Len(r) = Len(q) - 1 /\ \A k \in 1..Len(q) - 1 : r[k] = q[k]
    BY <1>0, <2>1, DropLemma
  <2>3. r = <<>> <=> Len(r) = 0
    BY <2>2
  <2>4. r = <<>> <=> Len(q) = 1
    BY <2>1, <2>2, <2>3
  <2>5. Len(q) \in 1..Len(q)
    BY <2>1
  <2>6. q[Len(q)].lock \in Locks /\ q[Len(q)].interrupts_state \in BOOLEAN
    BY <1>0, <2>5, GuardsLemma
  <2> QED  BY <1>0, <2>1, <2>2, <2>4, <2>6
<1>3. PICK l \in Locks : l = q[Len(q)].lock
  BY <1>2
<1>4. /\ pc[u] = "code"
      /\ pc' = [pc EXCEPT ![u] = "restore"]
      /\ locked' = [locked EXCEPT ![l] = FALSE]
      /\ seen' = [seen EXCEPT ![u] = q[Len(q)].interrupts_state]
      /\ guards' = [guards EXCEPT ![u] = r]
      /\ rax' = [t \in Callers |-> IF t = u THEN NULL ELSE rax[t]]
      /\ UNCHANGED <<int_flag, on, in_handler, asks>>
  BY <1>0, <1>3 DEF Unlock, Goto, DroppedGuard, Dropped
<1>5. \A d \in Cpus : Executing(d)' = Executing(d)
  BY <1>4 DEF Executing
<1>6. /\ guards'[u] = r
      /\ \A v \in Users : v # u => guards'[v] = guards[v]
      /\ \A v \in Users : Len(guards[v]) \in Nat
  BY <1>4, GuardsLemma DEF SpinLockInv, TypeOK
<1>7. \A x \in Users : \A i \in 1..Len(guards'[x]) :
        i \in 1..Len(guards[x]) /\ guards'[x][i] = guards[x][i] /\ ~(x = u /\ i = Len(q))
  BY <1>2, <1>6
<1>8. TypeOK'
  <2>1. guards' \in [Users -> Seq(GuardType)]
    BY <1>2, <1>4 DEF SpinLockInv, TypeOK, GuardType
  <2> QED  BY <1>2, <1>4, <2>1 DEF SpinLockInv, TypeOK, GuardType
<1>9. Places'
  <2>1. c \in in_handler \/ u \notin Cpus
    BY <1>1 DEF SpinLockInv, TypeOK
  <2> QED  BY <1>1, <1>4, <1>6, <2>1 DEF SpinLockInv, TypeOK, Places, Users
<1>10. HoldersMasked'
  <2>1. Masked(u)
    BY <1>2 DEF SpinLockInv, HoldersMasked
  <2> QED  BY <1>4, <1>5, <1>6, <2>1 DEF SpinLockInv, TypeOK, HoldersMasked, Masked
<1>11. Flags'
  BY <1>4, <1>6 DEF SpinLockInv, TypeOK, Flags, Users
<1>12. Seen'
  <2>1. q[Len(q)].interrupts_state = IF u \in Threads /\ r = <<>> THEN TRUE ELSE FALSE
    <3>1. Len(q) \in 1..Len(guards[u])
      BY <1>2
    <3>2. q[Len(q)].interrupts_state = GuardSaw(u, Len(q))
      BY <1>2, <3>1 DEF SpinLockInv, Seen
    <3> QED  BY <1>2, <3>2 DEF GuardSaw
  <2>2. \A v \in Users : \A k \in 1..Len(guards'[v]) : guards'[v][k].interrupts_state = GuardSaw(v, k)
    BY <1>7 DEF SpinLockInv, Seen
  <2>3. ASSUME NEW v \in Users, pc'[v] # "code"
        PROVE  seen'[v] = IF v \in Threads /\ guards'[v] = <<>> THEN TRUE ELSE FALSE
    <3>1. CASE v = u
      BY <1>4, <1>6, <2>1, <3>1 DEF SpinLockInv, TypeOK
    <3>2. CASE v # u
      BY <1>4, <1>6, <2>3, <3>2 DEF SpinLockInv, TypeOK, Seen
    <3> QED  BY <3>1, <3>2
  <2> QED  BY <2>2, <2>3 DEF Seen, GuardSaw
<1>13. Guarded'
  <2>1. ASSUME NEW v \in Users, NEW m \in Locks
        PROVE  Holds(v, m)' <=> Holds(v, m) /\ m # l
    <3>1. Holds(v, m)' => Holds(v, m)
      BY <1>7 DEF Holds
    <3>2. ASSUME NEW i \in 1..Len(guards[v]), guards[v][i].lock = l
          PROVE  v = u /\ i = Len(q)
      BY <1>2, <1>3, <3>2 DEF SpinLockInv, Guarded
    <3>3. Holds(v, m)' => m # l
      BY <1>7, <3>2 DEF Holds
    <3>4. ASSUME NEW i \in 1..Len(guards[v]), guards[v][i].lock = m, m # l
          PROVE  i \in 1..Len(guards'[v]) /\ guards'[v][i].lock = m
      BY <1>2, <1>3, <1>6, <3>4
    <3>5. Holds(v, m) /\ m # l => Holds(v, m)'
      BY <3>4 DEF Holds
    <3> QED  BY <3>1, <3>3, <3>5
  <2>2. \A m \in Locks : locked'[m] = TRUE <=> locked[m] = TRUE /\ m # l
    BY <1>4 DEF SpinLockInv, TypeOK
  <2>3. \A m \in Locks : locked'[m] = TRUE <=> \E v \in Users : Holds(v, m)'
    BY <2>1, <2>2 DEF SpinLockInv, Guarded
  <2>4. ASSUME NEW v \in Users, NEW w \in Users,
               NEW j \in 1..Len(guards'[v]), NEW k \in 1..Len(guards'[w]),
               guards'[v][j].lock = guards'[w][k].lock
        PROVE  v = w /\ j = k
    <3>1. j \in 1..Len(guards[v]) /\ k \in 1..Len(guards[w])
      BY <1>7
    <3>2. guards[v][j].lock = guards[w][k].lock
      BY <1>7, <2>4
    <3> QED  BY <3>1, <3>2 DEF SpinLockInv, Guarded
  <2> QED  BY <2>3, <2>4 DEF Guarded
<1>14. Asked'
  BY <1>4 DEF SpinLockInv, TypeOK, Asked
<1>15. CpuKnown'
  <2>1. \A t \in Callers : t \in Users
    BY DEF Users
  <2>2. NULL \notin Cpus /\ NULL \notin Threads
    BY DEF Users
  <2>3. CurrentCpuStable'
    BY <1>4, <1>6, <2>1, <2>2 DEF SpinLockInv, CpuKnown, CurrentCpuStable
  <2> QED  BY <1>4, <1>6, <2>1, <2>3 DEF SpinLockInv, TypeOK, CpuKnown
<1> QED  BY <1>8, <1>9, <1>10, <1>11, <1>12, <1>13, <1>14, <1>15 DEF SpinLockInv

(* sti, if the guard saw interrupts on: then it was the only one of a thread.*)
LEMMA RestoreInv ==
  ASSUME SpinLockInv, NEW c \in Cpus, Restore(c)
  PROVE  SpinLockInv'
<1>0. PICK u \in Users : u = Executing(c)
  BY ExecutingLemma
<1> USE SpinLockAssumption
<1>1. /\ u \in Threads <=> c \notin in_handler
      /\ c \notin in_handler => u = on[c]
      /\ c \in in_handler => u = c
      /\ \A d \in Cpus : Executing(d) = u => d = c
      /\ Executing(c) = u
  BY <1>0, ExecutingLemma DEF Executing
<1>2. /\ pc[u] = "restore"
      /\ seen[u] = IF u \in Threads /\ guards[u] = <<>> THEN TRUE ELSE FALSE
      /\ int_flag[c] = FALSE
  BY <1>0, <1>1 DEF Restore, SpinLockInv, Seen, HoldersMasked, Masked
<1>3. /\ pc' = [pc EXCEPT ![u] = "code"]
      /\ int_flag' = [int_flag EXCEPT ![c] = seen[u]]
      /\ seen' = [seen EXCEPT ![u] = FALSE]
      /\ UNCHANGED <<locked, on, in_handler, asks, guards, rax>>
  <2>1. (int_flag[c] \/ seen[u]) = seen[u]
    BY <1>2
  <2>2. int_flag' = [int_flag EXCEPT ![c] = int_flag[c] \/ seen[u]]
    BY <1>0 DEF Restore, RestoreIf, SpinLockInv, TypeOK
  <2>3. int_flag' = [int_flag EXCEPT ![c] = seen[u]]
    BY <2>1, <2>2, Zenon
  <2> QED  BY <1>0, <2>3 DEF Restore, Goto, SpinLockInv, TypeOK
<1>4. \A d \in Cpus : Executing(d)' = Executing(d)
  BY <1>3 DEF Executing
<1>5. TypeOK'
  BY <1>2, <1>3 DEF SpinLockInv, TypeOK
<1>6. Places'
  BY <1>3 DEF SpinLockInv, TypeOK, Places, Users
<1>7. HoldersMasked'
  <2> SUFFICES ASSUME NEW v \in Users, guards[v] # <<>> \/ pc'[v] \in {"spin", "restore"}
               PROVE  Masked(v)'
    BY <1>3 DEF HoldersMasked
  <2>1. CASE v = u
    <3>1. seen[u] = FALSE
      BY <1>2, <1>3, <2>1 DEF SpinLockInv, TypeOK
    <3>2. int_flag'[c] = FALSE
      BY <1>3, <3>1 DEF SpinLockInv, TypeOK
    <3> QED  BY <1>1, <1>4, <2>1, <3>2 DEF Masked
  <2>2. CASE v # u
    <3>1. PICK d \in Cpus : Executing(d) = v /\ int_flag[d] = FALSE
      BY <1>3, <2>2 DEF SpinLockInv, TypeOK, HoldersMasked, Masked
    <3>2. int_flag'[d] = FALSE
      BY <1>1, <1>3, <2>2, <3>1 DEF SpinLockInv, TypeOK
    <3> QED  BY <1>4, <3>1, <3>2 DEF Masked
  <2> QED  BY <2>1, <2>2
<1>8. Flags'
  BY <1>1, <1>2, <1>3 DEF SpinLockInv, TypeOK, Flags, Users, Places
<1>9. Seen'
  BY <1>3 DEF SpinLockInv, TypeOK, Seen, GuardSaw
<1>10. Guarded'
  BY <1>3 DEF SpinLockInv, Guarded, Holds
<1>11. Asked'
  BY <1>3 DEF SpinLockInv, TypeOK, Asked
<1>12. CpuKnown'
  BY <1>3 DEF SpinLockInv, TypeOK, CpuKnown, CurrentCpuStable, Users
<1> QED  BY <1>5, <1>6, <1>7, <1>8, <1>9, <1>10, <1>11, <1>12 DEF SpinLockInv

(* Only a thread without guards, outside lock() and drop() or before its     *)
(* cli, is interrupted.                                                      *)
LEMMA TimerInterruptInv ==
  ASSUME SpinLockInv, NEW c \in Cpus, TimerInterrupt(c)
  PROVE  SpinLockInv'
<1> USE SpinLockAssumption
<1>1. /\ int_flag[c] = TRUE
      /\ int_flag' = [int_flag EXCEPT ![c] = FALSE]
      /\ in_handler' = in_handler \cup {c}
      /\ UNCHANGED <<locked, on, pc, seen, asks, guards, rax>>
  BY DEF TimerInterrupt, SpinLockInv, TypeOK
<1>2. \A d \in Cpus : d # c => Executing(d)' = Executing(d)
  BY <1>1 DEF Executing
<1>3. TypeOK'
  BY <1>1 DEF SpinLockInv, TypeOK
<1>4. Places'
  BY <1>1 DEF SpinLockInv, TypeOK, Places
<1>5. HoldersMasked'
  <2> SUFFICES ASSUME NEW v \in Users, guards[v] # <<>> \/ pc[v] \in {"spin", "restore"}
               PROVE  Masked(v)'
    BY <1>1 DEF HoldersMasked
  <2>1. PICK d \in Cpus : Executing(d) = v /\ int_flag[d] = FALSE
    BY DEF SpinLockInv, HoldersMasked, Masked
  <2>2. d # c
    BY <1>1, <2>1
  <2>3. int_flag'[d] = FALSE
    BY <1>1, <2>1, <2>2 DEF SpinLockInv, TypeOK
  <2> QED  BY <1>2, <2>1, <2>2, <2>3 DEF Masked
<1>6. Flags'
  BY <1>1 DEF SpinLockInv, TypeOK, Flags
<1>7. Seen' /\ Asked'
  BY <1>1 DEF SpinLockInv, Seen, GuardSaw, Asked
<1>8. Guarded'
  BY <1>1 DEF SpinLockInv, Guarded, Holds
<1>9. CpuKnown'
  BY <1>1 DEF SpinLockInv, CpuKnown, CurrentCpuStable
<1> QED  BY <1>3, <1>4, <1>5, <1>6, <1>7, <1>8, <1>9 DEF SpinLockInv

(* The thread returned to was executing nowhere, so it held nothing; those   *)
(* that hold something keep their CPU.                                       *)
LEMMA TimerReturnInv ==
  ASSUME SpinLockInv, NEW c \in Cpus, NEW t \in Threads, TimerReturn(c, t)
  PROVE  SpinLockInv'
<1> USE SpinLockAssumption
<1>1. /\ c \in in_handler
      /\ pc[c] = "code" /\ guards[c] = <<>>
      /\ \A d \in Cpus : d # c => on[d] # t
      /\ on' = [on EXCEPT ![c] = t]
      /\ int_flag' = [int_flag EXCEPT ![c] = TRUE]
      /\ in_handler' = in_handler \ {c}
      /\ UNCHANGED <<locked, pc, seen, asks, guards, rax>>
  BY DEF TimerReturn
<1>2. \A d \in Cpus : d # c => Executing(d)' = Executing(d) /\ on'[d] = on[d]
  BY <1>1 DEF Executing, SpinLockInv, TypeOK
<1>3. Executing(c) = c
  BY <1>1 DEF Executing
<1>4. TypeOK'
  BY <1>1 DEF SpinLockInv, TypeOK
<1>5. Places'
  BY <1>1 DEF SpinLockInv, TypeOK, Places
<1>6. HoldersMasked'
  <2> SUFFICES ASSUME NEW v \in Users, guards[v] # <<>> \/ pc[v] \in {"spin", "restore"}
               PROVE  Masked(v)'
    BY <1>1 DEF HoldersMasked
  <2>1. PICK d \in Cpus : Executing(d) = v /\ int_flag[d] = FALSE
    BY DEF SpinLockInv, HoldersMasked, Masked
  <2>2. d # c
    BY <1>1, <1>3, <2>1
  <2>3. int_flag'[d] = FALSE
    BY <1>1, <2>1, <2>2 DEF SpinLockInv, TypeOK
  <2> QED  BY <1>2, <2>1, <2>2, <2>3 DEF Masked
<1>7. Flags'
  BY <1>1, <1>2 DEF SpinLockInv, TypeOK, Flags
<1>8. Seen' /\ Asked'
  BY <1>1 DEF SpinLockInv, Seen, GuardSaw, Asked
<1>9. Guarded'
  BY <1>1 DEF SpinLockInv, Guarded, Holds
<1>10. CpuKnown'
  <2>1. ASSUME NEW s \in Callers, guards[s] # <<>>, rax[s] \in Cpus
        PROVE  on'[rax[s]] = s
    <3>1. PICK d \in Cpus : Executing(d) = s
      BY <2>1 DEF SpinLockInv, HoldersMasked, Masked, Users
    <3>2. d \notin in_handler /\ on[d] = s
      BY <3>1 DEF Executing
    <3>3. rax[s] = d
      BY <2>1, <3>2 DEF SpinLockInv, CpuKnown, CurrentCpuStable, Places
    <3> QED  BY <1>1, <1>2, <3>2, <3>3
  <2> QED  BY <1>1, <2>1 DEF SpinLockInv, CpuKnown, CurrentCpuStable
<1> QED  BY <1>4, <1>5, <1>6, <1>7, <1>8, <1>9, <1>10 DEF SpinLockInv

(* GsBase is that of the CPU the thread is on.                               *)
LEMMA CurrentCpuInv ==
  ASSUME SpinLockInv, NEW c \in Cpus, CurrentCpu(c)
  PROVE  SpinLockInv'
<1>0. PICK t \in Callers : t = Executing(c)
  BY DEF CurrentCpu
<1> USE SpinLockAssumption
<1>1. /\ pc[t] = "code"
      /\ rax' = [rax EXCEPT ![t] = c]
      /\ UNCHANGED <<locked, int_flag, on, in_handler, pc, seen, asks, guards>>
  BY <1>0 DEF CurrentCpu
<1>2. on[c] = t
  BY <1>0, ExecutingLemma DEF Executing
<1>3. TypeOK'
  BY <1>1 DEF SpinLockInv, TypeOK, Users
<1>4. CpuKnown'
  BY <1>1, <1>2 DEF SpinLockInv, TypeOK, CpuKnown, CurrentCpuStable
<1>5. Places' /\ HoldersMasked' /\ Flags'
  BY <1>1 DEF SpinLockInv, Places, HoldersMasked, Masked, Executing, Flags
<1>6. Seen' /\ Asked'
  BY <1>1 DEF SpinLockInv, Seen, GuardSaw, Asked
<1>7. Guarded'
  BY <1>1 DEF SpinLockInv, Guarded, Holds
<1> QED  BY <1>3, <1>4, <1>5, <1>6, <1>7 DEF SpinLockInv

(* Through a CPU that is the caller's own while it has a guard.              *)
LEMMA CurrentThreadIdInv ==
  ASSUME SpinLockInv, NEW c \in Cpus, CurrentThreadId(c)
  PROVE  SpinLockInv'
<1>0. PICK t \in Callers : t = Executing(c)
  BY DEF CurrentThreadId
<1> USE SpinLockAssumption
<1>1. /\ pc[t] = "code"
      /\ rax[t] \in Cpus
      /\ rax' = [rax EXCEPT ![t] = on[rax[t]]]
      /\ UNCHANGED <<locked, int_flag, on, in_handler, pc, seen, asks, guards>>
  BY <1>0 DEF CurrentThreadId
<1>2. on[rax[t]] \in Threads
  BY <1>1 DEF SpinLockInv, TypeOK
<1>3. TypeOK'
  BY <1>1, <1>2 DEF SpinLockInv, TypeOK, Users
<1>4. CpuKnown'
  BY <1>1, <1>2 DEF SpinLockInv, TypeOK, CpuKnown, CurrentCpuStable
<1>5. Places' /\ HoldersMasked' /\ Flags'
  BY <1>1 DEF SpinLockInv, Places, HoldersMasked, Masked, Executing, Flags
<1>6. Seen' /\ Asked'
  BY <1>1 DEF SpinLockInv, Seen, GuardSaw, Asked
<1>7. Guarded'
  BY <1>1 DEF SpinLockInv, Guarded, Holds
<1> QED  BY <1>3, <1>4, <1>5, <1>6, <1>7 DEF SpinLockInv

LEMMA SpinLockInvInit == Init => SpinLockInv
<1> SUFFICES ASSUME Init PROVE SpinLockInv
  OBVIOUS
<1> USE SpinLockAssumption
<1>1. guards \in [Users -> Seq(GuardType)]
  <2>1. <<>> \in Seq(GuardType)
    OBVIOUS
  <2> QED  BY <2>1 DEF Init
<1>2. TypeOK
  BY <1>1 DEF Init, TypeOK, GuardType
<1>3. Places /\ HoldersMasked /\ Flags /\ Asked
  BY DEF Init, Places, HoldersMasked, Flags, Asked, Users
<1>4. \A u \in Users : guards[u] = <<>> /\ Len(guards[u]) = 0 /\ pc[u] = "code"
  BY DEF Init
<1>5. Seen /\ Guarded
  BY <1>4 DEF Init, Seen, Guarded, Holds
<1>6. CpuKnown
  BY <1>4 DEF Init, CpuKnown, CurrentCpuStable, Users
<1> QED  BY <1>2, <1>3, <1>5, <1>6 DEF SpinLockInv

LEMMA SpinLockInvNext == SpinLockInv /\ [Next]_vars => SpinLockInv'
<1> SUFFICES ASSUME SpinLockInv, [Next]_vars
             PROVE  SpinLockInv'
  OBVIOUS
<1>1. ASSUME NEW c \in Cpus, NEW l \in Locks, LockCall(c, l) PROVE SpinLockInv'
  BY <1>1, LockCallInv
<1>2. ASSUME NEW c \in Cpus, Disable(c) PROVE SpinLockInv'
  BY <1>2, DisableInv
<1>3. ASSUME NEW c \in Cpus, CompareExchange(c) PROVE SpinLockInv'
  BY <1>3, CompareExchangeInv
<1>4. ASSUME NEW c \in Cpus, Unlock(c) PROVE SpinLockInv'
  BY <1>4, UnlockInv
<1>5. ASSUME NEW c \in Cpus, Restore(c) PROVE SpinLockInv'
  BY <1>5, RestoreInv
<1>6. ASSUME NEW c \in Cpus, TimerInterrupt(c) PROVE SpinLockInv'
  BY <1>6, TimerInterruptInv
<1>7. ASSUME NEW c \in Cpus, NEW t \in Threads, TimerReturn(c, t) PROVE SpinLockInv'
  BY <1>7, TimerReturnInv
<1>8. ASSUME NEW c \in Cpus, CurrentCpu(c) PROVE SpinLockInv'
  BY <1>8, CurrentCpuInv
<1>9. ASSUME NEW c \in Cpus, CurrentThreadId(c) PROVE SpinLockInv'
  BY <1>9, CurrentThreadIdInv
<1>10. CASE UNCHANGED vars
  <2> USE <1>10 DEF vars, SpinLockInv
  <2>1. TypeOK' /\ Places' /\ Flags'
    BY DEF TypeOK, Places, Flags
  <2>2. HoldersMasked'
    BY DEF HoldersMasked, Masked, Executing
  <2>3. Seen' /\ Asked'
    BY DEF Seen, GuardSaw, Asked
  <2>4. Guarded'
    BY DEF Guarded, Holds
  <2>5. CpuKnown'
    BY DEF CpuKnown, CurrentCpuStable
  <2> QED  BY <2>1, <2>2, <2>3, <2>4, <2>5
<1> QED  BY <1>1, <1>2, <1>3, <1>4, <1>5, <1>6, <1>7, <1>8, <1>9, <1>10 DEF Next

-----------------------------------------------------------------------------
(* Theorems *)

(* The invariant holds in every state.                                       *)
THEOREM SpinLockInvariance == Spec => []SpinLockInv
BY SpinLockInvInit, SpinLockInvNext, PTL DEF Spec

(* Type correctness: the lock, the flags, what lock() and drop() keep.       *)
THEOREM SpinLockTypeCorrect == Spec => []TypeOK
<1>1. SpinLockInv => TypeOK
  BY DEF SpinLockInv
<1> QED  BY <1>1, SpinLockInvariance, PTL

(* lock() disables interrupts before it spins and drop() enables them after   *)
(* unlock(): a holder, or a spinner, executes on a CPU that takes no          *)
(* interrupt.                                                                 *)
THEOREM HolderNeverInterrupted == Spec => []HolderNotInterrupted
<1>1. SpinLockInv => HolderNotInterrupted
  BY DEF SpinLockInv, HoldersMasked, Masked, HolderNotInterrupted
<1> QED  BY <1>1, SpinLockInvariance, PTL

(* The interrupts_state of nested guards, each written before the cli and     *)
(* read in drop(), brings the flag back to what it was before the oldest.     *)
THEOREM FlagIsRestored == Spec => []FlagRestored
<1>1. SpinLockInv => FlagRestored
  <2> SUFFICES ASSUME SpinLockInv, NEW c \in Cpus,
                      pc[Executing(c)] = "code", guards[Executing(c)] = <<>>
               PROVE  int_flag[c] <=> c \notin in_handler
    BY DEF FlagRestored
  <2>1. CASE c \in in_handler
    BY <2>1 DEF SpinLockInv, Flags
  <2>2. CASE c \notin in_handler
    BY <2>2 DEF SpinLockInv, Flags, Executing
  <2> QED  BY <2>1, <2>2
<1> QED  BY <1>1, SpinLockInvariance, PTL

(* current_cpu() and current_thread_id() read under a lock stay true as long  *)
(* as it is held.                                                             *)
THEOREM CurrentCpuIsStable == Spec => []CurrentCpuStable
<1>1. SpinLockInv => CurrentCpuStable
  BY DEF SpinLockInv, CpuKnown
<1> QED  BY <1>1, SpinLockInvariance, PTL

-----------------------------------------------------------------------------
(* The refinement *)

(* With one guard to a lock HolderOf is the function the abstract lock needs. *)
HolderCorrect ==
  \A l \in Locks : /\ \A u \in Users : HolderOf(l) = u <=> Holds(u, l)
                   /\ HolderOf(l) = NULL <=> \A u \in Users : ~Holds(u, l)
                   /\ HolderOf(l) \in Users \cup {NULL}

LEMMA HolderLemma == SpinLockInv => HolderCorrect
<1> SUFFICES ASSUME SpinLockInv, NEW l \in Locks
             PROVE  /\ \A u \in Users : HolderOf(l) = u <=> Holds(u, l)
                    /\ HolderOf(l) = NULL <=> \A u \in Users : ~Holds(u, l)
                    /\ HolderOf(l) \in Users \cup {NULL}
  BY DEF HolderCorrect
<1> USE SpinLockAssumption
<1>1. CASE \E u \in Users : Holds(u, l)
  <2>1. PICK w : w = CHOOSE u \in Users : Holds(u, l)
    OBVIOUS
  <2>2. w \in Users /\ Holds(w, l)
    BY <1>1, <2>1
  <2>3. HolderOf(l) = w
    BY <1>1, <2>1 DEF HolderOf
  <2>4. \A u \in Users : Holds(u, l) => u = w
    BY <2>2 DEF SpinLockInv, Guarded, Holds
  <2> QED  BY <2>2, <2>3, <2>4
<1>2. CASE ~\E u \in Users : Holds(u, l)
  BY <1>2 DEF HolderOf
<1> QED  BY <1>1, <1>2

(* One step of the guards is one step of the holders.                         *)
LEMMA HolderStep ==
  ASSUME SpinLockInv, SpinLockInv', NEW m \in Locks, NEW x \in Users \cup {NULL},
         \A u \in Users : Holds(u, m)' <=> u = x,
         \A l \in Locks : l # m => \A u \in Users : Holds(u, l)' <=> Holds(u, l)
  PROVE  [l \in Locks |-> HolderOf(l)]' = [[l \in Locks |-> HolderOf(l)] EXCEPT ![m] = x]
<1> USE SpinLockAssumption
<1>1. HolderCorrect'
  BY HolderLemma, PTL
<1>2. HolderOf(m)' = x
  BY <1>1 DEF HolderCorrect
<1>3. ASSUME NEW l \in Locks, l # m
      PROVE  HolderOf(l)' = HolderOf(l)
  BY <1>1, <1>3, HolderLemma DEF HolderCorrect
<1> QED  BY <1>2, <1>3

(* compare_exchange makes u the holder of a lock that had none.               *)
LEMMA CompareExchangeAcquires ==
  ASSUME SpinLockInv, SpinLockInv', NEW c \in Cpus, CompareExchange(c)
  PROVE  Abstract!Next
<1>u. PICK u \in Users : u = Executing(c)
  BY ExecutingLemma
<1>0. PICK g : u = Executing(c) /\ g = [lock |-> asks[u], interrupts_state |-> seen[u]]
  BY <1>u
<1>1. PICK m \in Locks : m = asks[u]
  BY <1>0 DEF CompareExchange, SpinLockInv, Asked
<1>2. locked[m] = FALSE /\ guards' = [guards EXCEPT ![u] = Append(guards[u], g)]
  BY <1>0, <1>1 DEF CompareExchange, Compare, SpinLockInv, TypeOK
<1>3. \A v \in Users : ~Holds(v, m)
  BY <1>2 DEF SpinLockInv, Guarded
<1>4. g \in GuardType /\ g.lock = m /\ guards[u] \in Seq(GuardType)
  BY <1>0, <1>1, GuardsLemma DEF SpinLockInv, TypeOK, GuardType
<1>5. /\ Len(guards'[u]) = Len(guards[u]) + 1 /\ Len(guards[u]) \in Nat
      /\ guards'[u][Len(guards[u]) + 1] = g
      /\ \A k \in 1..Len(guards[u]) : guards'[u][k] = guards[u][k]
      /\ \A v \in Users : v # u => guards'[v] = guards[v]
  BY <1>2, <1>4, AppendLemma DEF SpinLockInv, TypeOK
<1>6. \A l \in Locks : Holds(u, l)' <=> Holds(u, l) \/ l = m
  BY <1>4, <1>5 DEF Holds
<1>7. \A v \in Users : v # u => \A l \in Locks : Holds(v, l)' <=> Holds(v, l)
  BY <1>5 DEF Holds
<1>8. [l \in Locks |-> HolderOf(l)]' = [[l \in Locks |-> HolderOf(l)] EXCEPT ![m] = u]
  BY <1>3, <1>6, <1>7, HolderStep
<1>9. HolderOf(m) = NULL
  BY <1>3, HolderLemma DEF HolderCorrect
<1>10. Abstract!Acquire(u, m)
  BY <1>8, <1>9 DEF Abstract!Acquire
<1> QED  BY <1>10 DEF Abstract!Next

(* unlock() is called by the holder, and leaves none.                         *)
LEMMA UnlockReleases ==
  ASSUME SpinLockInv, SpinLockInv', NEW c \in Cpus, Unlock(c)
  PROVE  Abstract!Next
<1>u. PICK u \in Users : u = Executing(c)
  BY ExecutingLemma
<1>0. PICK q : u = Executing(c) /\ q = guards[u]
  BY <1>u
<1>1. q # <<>> /\ guards' = [guards EXCEPT ![u] = Dropped(q)]
  BY <1>0 DEF Unlock, DroppedGuard, Dropped
<1>2. q \in Seq(GuardType) /\ Len(q) \in Nat \ {0}
  BY <1>0, <1>1, GuardsLemma
<1>3. PICK m \in Locks : m = q[Len(q)].lock
  <2>1. Len(q) \in 1..Len(q)
    BY <1>2
  <2> QED  BY <1>0, <2>1, GuardsLemma
<1>4. /\ Len(Dropped(q)) = Len(q) - 1
      /\ \A k \in 1..Len(q) - 1 : Dropped(q)[k] = q[k]
  BY <1>1, <1>2, DropLemma
<1>5. guards'[u] = Dropped(q) /\ \A v \in Users : v # u => guards'[v] = guards[v]
  BY <1>1 DEF SpinLockInv, TypeOK
<1>6. ASSUME NEW v \in Users, NEW k \in 1..Len(guards[v]), guards[v][k].lock = m
      PROVE  v = u /\ k = Len(q)
  BY <1>0, <1>2, <1>3, <1>6 DEF SpinLockInv, Guarded
<1>7. \A v \in Users : v # u => \A l \in Locks : Holds(v, l)' <=> Holds(v, l)
  BY <1>5 DEF Holds
<1>8. \A l \in Locks : l # m => (Holds(u, l)' <=> Holds(u, l))
  BY <1>0, <1>2, <1>3, <1>4, <1>5 DEF Holds
<1>9. \A v \in Users : ~Holds(v, m)'
  BY <1>0, <1>2, <1>4, <1>5, <1>6 DEF Holds
<1>10. Holds(u, m)
  BY <1>0, <1>2, <1>3 DEF Holds
<1>11. NULL \notin Users
  BY SpinLockAssumption
<1>12. [l \in Locks |-> HolderOf(l)]' = [[l \in Locks |-> HolderOf(l)] EXCEPT ![m] = NULL]
  BY <1>7, <1>8, <1>9, <1>11, HolderStep
<1>13. Abstract!Release(u, m)
  BY <1>0, <1>10, <1>12, HolderLemma DEF HolderCorrect, Abstract!Release
<1> QED  BY <1>0, <1>13 DEF Abstract!Next

(* The other steps leave the guards alone.                                    *)
LEMMA HoldersUnchanged ==
  ASSUME UNCHANGED guards
  PROVE  UNCHANGED [l \in Locks |-> HolderOf(l)]
BY DEF HolderOf, Holds

(* SpinLock implements a lock with one holder that only the holder gives      *)
(* back: compare_exchange acquires, unlock() releases, and no other step of   *)
(* lock(), drop() or the timer changes the holder.                            *)
THEOREM SpinLockImplementsLock == Spec => ImplementsLock
<1>1. Init => Abstract!Init
  <2> SUFFICES ASSUME Init PROVE \A l \in Locks : HolderOf(l) = NULL
    BY DEF Abstract!Init
  <2>1. \A u \in Users : guards[u] = <<>> /\ Len(guards[u]) = 0
    BY DEF Init
  <2> QED  BY <2>1 DEF HolderOf, Holds
<1>2. SpinLockInv /\ SpinLockInv' /\ [Next]_vars
        => [Abstract!Next]_([l \in Locks |-> HolderOf(l)])
  <2> SUFFICES ASSUME SpinLockInv, SpinLockInv', [Next]_vars
               PROVE  Abstract!Next \/ UNCHANGED [l \in Locks |-> HolderOf(l)]
    OBVIOUS
  <2>1. CASE UNCHANGED guards
    BY <2>1, HoldersUnchanged
  <2>2. ASSUME NEW c \in Cpus, CompareExchange(c) PROVE Abstract!Next
    BY <2>2, CompareExchangeAcquires
  <2>3. ASSUME NEW c \in Cpus, Unlock(c) PROVE Abstract!Next
    BY <2>3, UnlockReleases
  <2> QED  BY <2>1, <2>2, <2>3 DEF Next, vars, LockCall, Disable, Restore, TimerInterrupt,
                                   TimerReturn, CurrentCpu, CurrentThreadId
<1> QED  BY <1>1, <1>2, SpinLockInvariance, PTL DEF Spec, ImplementsLock, Abstract!Spec
=============================================================================
