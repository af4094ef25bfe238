----------------------------- MODULE ThreadProofs -----------------------------
(***************************************************************************)
(* Proofs about a thread's beginning, ThreadSpawn, for any callers,         *)
(* closures, table and memory: spawns that interleave do not mix up their   *)
(* threads, and frames are lost only to a full table.  And about what it    *)
(* keeps while others run, ContextSwitch, for any threads and stacks: its   *)
(* registers and its stack.                                                 *)
(***************************************************************************)
EXTENDS ThreadSpawn, ContextSwitch, FiniteSetTheorems, SequenceTheorems, TLAPS

-----------------------------------------------------------------------------
(* The inductive invariant *)

Entries == [id : Nat, arg : Nat]

SpawnType ==
  /\ next_frame \in Nat /\ next_frame >= 1 /\ id_counter \in Nat
  /\ DOMAIN memory \subseteq 1..(next_frame - 1)
  /\ threads \in [1..TableCap -> Entries \cup {NULL}]
  /\ readied \in Seq(Nat)
  /\ pc \in [Callers -> {"idle", "id", "stack", "add", "ready", "panic"}]
  /\ DOMAIN arg = Callers /\ DOMAIN id = Callers /\ DOMAIN closure = Callers

(* A thread with this id, with this closure in its page, is in the table;    *)
(* ready() was called on this id.                                            *)
Is(s, n) == threads[s] # NULL /\ threads[s].id = n
InTable(n) == \E s \in 1..TableCap : Is(s, n)
Page(s, f) == threads[s].arg \in DOMAIN memory /\ memory[threads[s].arg].closure = f
HasThread(n, f) == \E s \in 1..TableCap : Is(s, n) /\ Page(s, f)
Readied(n) == \E k \in 1..Len(readied) : readied[k] = n

TableInv ==
  /\ \A s \in 1..TableCap : threads[s] # NULL => threads[s].id < id_counter
  /\ \A s, r \in 1..TableCap : \A n \in Nat : Is(s, n) /\ Is(r, n) => s = r

ReadiedInv ==
  /\ \A k \in 1..Len(readied) : readied[k] < id_counter
  /\ \A j, k \in 1..Len(readied) : readied[j] = readied[k] => j = k

(* Between the two critical sections of a spawn its id is in the table once  *)
(* and nobody else has it; before them it is nowhere.                        *)
HasPage(c) == arg[c] \in Nat /\ arg[c] \in DOMAIN memory /\ memory[arg[c]].closure = closure[c]
HasId(c) == id[c] \in Nat /\ id[c] < id_counter /\ ~Readied(id[c])

CallerInv(c) ==
  /\ pc[c] \in {"id", "stack", "add"} => HasPage(c)
  /\ pc[c] \in {"stack", "add", "ready"} => HasId(c)
  /\ pc[c] \in {"stack", "add"} => ~InTable(id[c])
  /\ pc[c] = "ready" => HasThread(id[c], closure[c])

IdsDistinct ==
  \A c, d \in Callers :
    pc[c] \in {"stack", "add", "ready"} /\ pc[d] \in {"stack", "add", "ready"} /\ id[c] = id[d] => c = d

ReturnedInv ==
  \A r \in returned : r[1] \in Nat /\ Readied(r[1]) /\ HasThread(r[1], r[2])

SpawnInv ==
  /\ SpawnType
  /\ TableInv
  /\ ReadiedInv
  /\ \A c \in Callers : CallerInv(c)
  /\ IdsDistinct
  /\ ReturnedInv

-----------------------------------------------------------------------------
(* What a step leaves alone *)

(* Neither the table nor the pages lose anything.                            *)
Kept ==
  /\ \A s \in 1..TableCap : threads[s] # NULL => threads'[s] = threads[s]
  /\ \A p \in DOMAIN memory : p \in DOMAIN memory' /\ memory'[p] = memory[p]

LEMMA ThreadKept ==
  ASSUME Kept, NEW n, NEW f, HasThread(n, f)
  PROVE  HasThread(n, f)'
<1>1. PICK s \in 1..TableCap : Is(s, n) /\ Page(s, f)
  BY DEF HasThread
<1>2. Is(s, n)' /\ Page(s, f)'
  BY <1>1 DEF Kept, Is, Page
<1> QED  BY <1>2 DEF HasThread

(* A caller that does not move keeps what it has.                            *)
LEMMA CallerKept ==
  ASSUME SpawnInv, NEW d \in Callers, Kept, pc'[d] = pc[d], arg'[d] = arg[d], id'[d] = id[d],
         closure'[d] = closure[d], id_counter' \in Nat, id_counter' >= id_counter,
         pc[d] \in {"stack", "add", "ready"} => ~Readied(id[d])',
         pc[d] \in {"stack", "add"} => ~InTable(id[d])'
  PROVE  CallerInv(d)'
<1>1. CallerInv(d) /\ id_counter \in Nat
  BY DEF SpawnInv, SpawnType
<1>2. pc[d] \in {"id", "stack", "add"} => HasPage(d)'
  BY <1>1 DEF CallerInv, HasPage, Kept
<1>3. pc[d] \in {"stack", "add", "ready"} => HasId(d)'
  BY <1>1 DEF CallerInv, HasId, Readied
<1>4. pc[d] = "ready" => HasThread(id[d], closure[d])'
  <2>1. PICK n, f : n = id[d] /\ f = closure[d]
    OBVIOUS
  <2>2. pc[d] = "ready" => HasThread(n, f)
    BY <1>1, <2>1 DEF CallerInv
  <2>3. pc[d] = "ready" => HasThread(n, f)'
    BY <2>2, ThreadKept
  <2> QED  BY <2>1, <2>3
<1> QED  BY <1>2, <1>3, <1>4 DEF CallerInv

LEMMA SpawnInvInit == Init => SpawnInv
<1> SUFFICES ASSUME Init PROVE SpawnInv
  OBVIOUS
<1>1. SpawnType
  BY SpawnAssumption DEF Init, SpawnType
<1>2. TableInv
  BY DEF Init, TableInv, Is
<1>3. ReadiedInv
  BY DEF Init, ReadiedInv
<1>4. \A c \in Callers : CallerInv(c)
  BY DEF Init, CallerInv
<1>5. IdsDistinct /\ ReturnedInv
  BY DEF Init, IdsDistinct, ReturnedInv
<1> QED  BY <1>1, <1>2, <1>3, <1>4, <1>5 DEF SpawnInv

-----------------------------------------------------------------------------
(* The actions *)

(* A caller takes a step that leaves ids, table and ready() calls alone and  *)
(* does not bring it between the critical sections.                          *)
LEMMA OutsideStep ==
  ASSUME SpawnInv, NEW c \in Callers, SpawnType', Kept, pc'[c] \notin {"stack", "add", "ready"},
         pc'[c] = "id" => HasPage(c)',
         \A d \in Callers : d # c => pc'[d] = pc[d] /\ arg'[d] = arg[d] /\ closure'[d] = closure[d],
         UNCHANGED <<id_counter, threads, readied, id, returned>>
  PROVE  SpawnInv'
<1>1. TableInv' /\ ReadiedInv'
  BY DEF SpawnInv, TableInv, ReadiedInv, Is
<1>2. \A n : (Readied(n)' <=> Readied(n)) /\ (InTable(n)' <=> InTable(n))
  BY DEF Readied, InTable, Is
<1>3. ASSUME NEW d \in Callers PROVE CallerInv(d)'
  <2>1. CASE d = c
    BY <2>1 DEF CallerInv, SpawnType
  <2>2. CASE d # c
    <3>1. CallerInv(d) /\ id_counter' \in Nat /\ id_counter' >= id_counter
      BY DEF SpawnInv, SpawnType
    <3>2. pc[d] \in {"stack", "add", "ready"} => ~Readied(id[d])'
      BY <1>2, <3>1 DEF CallerInv, HasId
    <3>3. pc[d] \in {"stack", "add"} => ~InTable(id[d])'
      BY <1>2, <3>1 DEF CallerInv
    <3> QED  BY <2>2, <3>1, <3>2, <3>3, CallerKept
  <2> QED  BY <2>1, <2>2
<1>4. IdsDistinct'
  BY DEF SpawnInv, IdsDistinct
<1>5. ReturnedInv'
  BY <1>2, ThreadKept DEF SpawnInv, ReturnedInv
<1> QED  BY <1>1, <1>3, <1>4, <1>5 DEF SpawnInv

LEMMA AllocPageStep ==
  ASSUME SpawnInv, NEW c \in Callers, NEW f \in Closures, AllocPage(c, f)
  PROVE  SpawnInv'
<1>1. SpawnType /\ UNCHANGED <<id_counter, threads, readied, started, id, returned>>
  BY DEF SpawnInv, AllocPage
<1>2. CASE OutOfFrames(1)
  <2>1. pc' = [pc EXCEPT ![c] = "panic"] /\ UNCHANGED <<next_frame, memory, arg, closure>>
    BY <1>2 DEF AllocPage, Goto
  <2>2. SpawnType' /\ pc'[c] = "panic" /\ \A d \in Callers : d # c => pc'[d] = pc[d]
    BY <1>1, <2>1 DEF SpawnType
  <2>3. Kept
    BY <1>1, <2>1 DEF Kept
  <2> QED  BY <1>1, <2>1, <2>2, <2>3, OutsideStep
<1>3. CASE ~OutOfFrames(1)
  <2>1. PICK p : p = next_frame
    OBVIOUS
  <2>2. /\ pc' = [pc EXCEPT ![c] = "id"]
        /\ memory' = [q \in DOMAIN memory \cup {p} |->
             IF q = p THEN [fat |-> [data |-> CLOSURE_OFFSET, vtable |-> f], closure |-> f] ELSE memory[q]]
        /\ arg' = [arg EXCEPT ![c] = p]
        /\ closure' = [closure EXCEPT ![c] = f]
        /\ next_frame' = p + 1
    BY <1>3, <2>1 DEF AllocPage, Goto
  <2>3. p \in Nat /\ p >= 1 /\ p \notin DOMAIN memory /\ DOMAIN memory' \subseteq 1..p
    BY <1>1, <2>1, <2>2 DEF SpawnType
  <2>4. /\ DOMAIN arg = Callers /\ DOMAIN closure = Callers
        /\ arg'[c] = p /\ closure'[c] = f
        /\ \A d \in Callers : d # c => pc'[d] = pc[d] /\ arg'[d] = arg[d] /\ closure'[d] = closure[d]
    BY <1>1, <2>2 DEF SpawnType
  <2>5. SpawnType' /\ pc'[c] = "id"
    BY <1>1, <2>2, <2>3 DEF SpawnType
  <2>6. Kept
    BY <1>1, <2>2, <2>3 DEF Kept
  <2>7. HasPage(c)'
    BY <2>2, <2>3, <2>4 DEF HasPage
  <2> QED  BY <1>1, <2>4, <2>5, <2>6, <2>7, OutsideStep
<1> QED  BY <1>2, <1>3

LEMMA TableFullStep ==
  ASSUME SpawnInv, NEW c \in Callers, TableFull(c)
  PROVE  SpawnInv'
<1>1. /\ pc' = [pc EXCEPT ![c] = "idle"] /\ SpawnType
      /\ UNCHANGED <<next_frame, memory, id_counter, threads, readied, started, arg, id, closure, returned>>
  BY DEF TableFull, Goto, SpawnInv
<1>2. SpawnType' /\ pc'[c] = "idle" /\ \A d \in Callers : d # c => pc'[d] = pc[d]
  BY <1>1 DEF SpawnType
<1>3. Kept
  BY <1>1 DEF Kept
<1> QED  BY <1>1, <1>2, <1>3, OutsideStep

(* The id drawn is one that nobody has.                                      *)
LEMMA TakeIdStep ==
  ASSUME SpawnInv, NEW c \in Callers, TakeId(c)
  PROVE  SpawnInv'
<1>1. PICK n : n = id_counter
  OBVIOUS
<1>2. /\ pc[c] = "id" /\ id' = [id EXCEPT ![c] = n] /\ id_counter' = n + 1
      /\ UNCHANGED <<memory, threads, readied, started, arg, closure, returned>>
  BY <1>1 DEF TakeId, NextId
<1>3. PICK l : l = "stack" /\ pc' = [pc EXCEPT ![c] = l]
  BY DEF TakeId, Goto
<1>4. next_frame' = next_frame
  BY DEF TakeId
<1>5. SpawnType /\ n \in Nat /\ id_counter' \in Nat /\ id_counter' >= id_counter
  BY <1>1, <1>2 DEF SpawnInv, SpawnType
<1>6. /\ id'[c] = n /\ pc'[c] = l
      /\ \A d \in Callers : d # c => pc'[d] = pc[d] /\ id'[d] = id[d]
  BY <1>2, <1>3, <1>5 DEF SpawnType
<1>7. SpawnType'
  BY <1>2, <1>3, <1>4, <1>5 DEF SpawnType
<1>8. Kept
  BY <1>2 DEF Kept
<1>9. TableInv'
  <2>1. \A s \in 1..TableCap : threads[s] # NULL => threads[s].id \in Nat /\ threads[s].id < n
    BY <1>1, <1>5 DEF SpawnInv, TableInv, SpawnType, Entries
  <2>2. \A s \in 1..TableCap : threads'[s] # NULL => threads'[s].id < id_counter'
    BY <1>2, <1>5, <2>1
  <2>3. \A s, r \in 1..TableCap : \A m \in Nat : Is(s, m)' /\ Is(r, m)' => s = r
    BY <1>2 DEF SpawnInv, TableInv, Is
  <2> QED  BY <2>2, <2>3 DEF TableInv
<1>10. ReadiedInv'
  <2>1. \A k \in 1..Len(readied) : readied[k] \in Nat
    BY <1>5 DEF SpawnType
  <2> QED  BY <1>1, <1>2, <1>5, <2>1 DEF SpawnInv, ReadiedInv
<1>11. ~Readied(n) /\ ~InTable(n)
  <2>1. ~Readied(n)
    BY <1>1, <1>5 DEF SpawnInv, ReadiedInv, Readied
  <2>2. ~InTable(n)
    BY <1>1, <1>5 DEF SpawnInv, TableInv, InTable, Is
  <2> QED  BY <2>1, <2>2
<1>12. \A m : (Readied(m)' <=> Readied(m)) /\ (InTable(m)' <=> InTable(m))
  BY <1>2 DEF Readied, InTable, Is
<1>13. CallerInv(c)'
  <2>1. HasPage(c)'
    BY <1>2 DEF SpawnInv, CallerInv, HasPage
  <2>2. ~Readied(id[c])' /\ ~InTable(id[c])'
    BY <1>6, <1>11, <1>12
  <2>3. HasId(c)'
    BY <1>1, <1>2, <1>5, <1>6, <2>2 DEF HasId
  <2> QED  BY <1>3, <1>6, <2>1, <2>2, <2>3 DEF CallerInv
<1>14. ASSUME NEW d \in Callers, d # c PROVE CallerInv(d)'
  <2>1. CallerInv(d) /\ pc'[d] = pc[d] /\ id'[d] = id[d] /\ arg'[d] = arg[d] /\ closure'[d] = closure[d]
    BY <1>2, <1>6, <1>14 DEF SpawnInv
  <2>2. pc[d] \in {"stack", "add", "ready"} => ~Readied(id[d])'
    BY <1>12, <2>1 DEF CallerInv, HasId
  <2>3. pc[d] \in {"stack", "add"} => ~InTable(id[d])'
    BY <1>12, <2>1 DEF CallerInv
  <2> QED  BY <1>5, <1>8, <2>1, <2>2, <2>3, CallerKept
<1>15. IdsDistinct'
  <2>1. \A d \in Callers : d # c /\ pc'[d] \in {"stack", "add", "ready"} => id'[d] # n
    BY <1>1, <1>5, <1>6 DEF SpawnInv, CallerInv, HasId
  <2> QED  BY <1>6, <2>1 DEF SpawnInv, IdsDistinct
<1>16. ReturnedInv'
  BY <1>2, <1>8, <1>12, ThreadKept DEF SpawnInv, ReturnedInv
<1> QED  BY <1>7, <1>9, <1>10, <1>13, <1>14, <1>15, <1>16 DEF SpawnInv

(* The stack's frames are new ones: pages and threads stay as they are.      *)
LEMMA AllocStackStep ==
  ASSUME SpawnInv, NEW c \in Callers, AllocStack(c)
  PROVE  SpawnInv'
<1>1. pc[c] = "stack" /\ UNCHANGED <<memory, id_counter, threads, readied, started, arg, id, closure, returned>>
  BY DEF AllocStack
<1>2. PICK l \in {"panic", "add"} : pc' = [pc EXCEPT ![c] = l]
  BY DEF AllocStack, Goto
<1>3. SpawnType /\ id_counter' \in Nat /\ id_counter' >= id_counter
  BY <1>1 DEF SpawnInv, SpawnType
<1>4. pc'[c] = l /\ \A d \in Callers : d # c => pc'[d] = pc[d]
  BY <1>2, <1>3 DEF SpawnType
<1>5. SpawnType'
  <2>1. next_frame' = next_frame \/ next_frame' = next_frame + StackFrames
    BY DEF AllocStack
  <2>2. next_frame' \in Nat /\ next_frame' >= next_frame
    BY <1>3, <2>1, SpawnAssumption DEF SpawnType
  <2> QED  BY <1>1, <1>2, <1>3, <2>2 DEF SpawnType
<1>6. Kept
  BY <1>1 DEF Kept
<1>7. TableInv' /\ ReadiedInv'
  BY <1>1 DEF SpawnInv, TableInv, ReadiedInv, Is
<1>8. \A m : (Readied(m)' <=> Readied(m)) /\ (InTable(m)' <=> InTable(m))
  BY <1>1 DEF Readied, InTable, Is
<1>9. CallerInv(c)'
  <2>1. HasPage(c) /\ HasId(c) /\ ~InTable(id[c])
    BY <1>1 DEF SpawnInv, CallerInv
  <2>2. HasPage(c)' /\ HasId(c)' /\ ~InTable(id[c])'
    BY <1>1, <1>8, <2>1 DEF HasPage, HasId
  <2> QED  BY <1>4, <2>2 DEF CallerInv
<1>10. ASSUME NEW d \in Callers, d # c PROVE CallerInv(d)'
  <2>1. CallerInv(d) /\ pc'[d] = pc[d] /\ id'[d] = id[d] /\ arg'[d] = arg[d] /\ closure'[d] = closure[d]
    BY <1>1, <1>4, <1>10 DEF SpawnInv
  <2>2. pc[d] \in {"stack", "add", "ready"} => ~Readied(id[d])'
    BY <1>8, <2>1 DEF CallerInv, HasId
  <2>3. pc[d] \in {"stack", "add"} => ~InTable(id[d])'
    BY <1>8, <2>1 DEF CallerInv
  <2> QED  BY <1>3, <1>6, <2>1, <2>2, <2>3, CallerKept
<1>11. IdsDistinct'
  BY <1>1, <1>4 DEF SpawnInv, IdsDistinct
<1>12. ReturnedInv'
  BY <1>1, <1>6, <1>8, ThreadKept DEF SpawnInv, ReturnedInv
<1> QED  BY <1>5, <1>7, <1>9, <1>10, <1>11, <1>12 DEF SpawnInv

LEMMA AddThreadStep ==
  ASSUME SpawnInv, NEW c \in Callers, AddThread(c)
  PROVE  SpawnInv'
<1>1. PICK n, a : n = id[c] /\ a = arg[c]
  OBVIOUS
<1>2. PICK s \in 1..TableCap : threads[s] = NULL /\ threads' = [threads EXCEPT ![s] = [id |-> n, arg |-> a]]
  BY <1>1 DEF AddThread, FirstEmptySlot
<1>3. /\ pc[c] = "add" /\ pc' = [pc EXCEPT ![c] = "ready"]
      /\ UNCHANGED <<next_frame, memory, id_counter, readied, started, arg, id, closure, returned>>
  BY DEF AddThread, Goto
<1>4. SpawnType /\ CallerInv(c) /\ id_counter' \in Nat /\ id_counter' >= id_counter
  BY <1>3 DEF SpawnInv, SpawnType
<1>5. n \in Nat /\ n < id_counter /\ ~Readied(n) /\ ~InTable(n) /\ a \in Nat
  BY <1>1, <1>3, <1>4 DEF CallerInv, HasId, HasPage
<1>6. pc'[c] = "ready" /\ \A d \in Callers : d # c => pc'[d] = pc[d]
  BY <1>3, <1>4 DEF SpawnType
<1>7. /\ [id |-> n, arg |-> a] \in Entries /\ threads'[s] = [id |-> n, arg |-> a]
      /\ \A r \in 1..TableCap : r # s => threads'[r] = threads[r]
  BY <1>2, <1>4, <1>5 DEF SpawnType, Entries
<1>8. threads'[s] # NULL /\ threads'[s].id = n /\ threads'[s].arg = a
  BY <1>7, SpawnAssumption DEF Entries
<1>9. SpawnType'
  BY <1>2, <1>3, <1>4, <1>7 DEF SpawnType
<1>10. Kept
  BY <1>2, <1>3, <1>7 DEF Kept
<1>11. \A r \in 1..TableCap : \A m : Is(r, m)' <=> (IF r = s THEN m = n ELSE Is(r, m))
  BY <1>7, <1>8 DEF Is
<1>12. \A m : (Readied(m)' <=> Readied(m)) /\ (InTable(m)' => InTable(m) \/ m = n)
  BY <1>3, <1>11 DEF Readied, InTable
<1>13. TableInv'
  <2>1. \A r \in 1..TableCap : threads'[r] # NULL => threads'[r].id < id_counter'
    BY <1>3, <1>5, <1>7, <1>8 DEF SpawnInv, TableInv
  <2>2. ASSUME NEW r \in 1..TableCap, NEW q \in 1..TableCap, NEW m \in Nat, Is(r, m)', Is(q, m)' PROVE r = q
    <3>1. \A x \in 1..TableCap : ~Is(x, n)
      BY <1>5 DEF InTable
    <3> QED  BY <1>11, <2>2, <3>1 DEF SpawnInv, TableInv
  <2> QED  BY <2>1, <2>2 DEF TableInv
<1>14. ReadiedInv'
  BY <1>3 DEF SpawnInv, ReadiedInv
<1>15. CallerInv(c)'
  <2>1. HasId(c)'
    BY <1>1, <1>3, <1>5, <1>12 DEF HasId
  <2>2. HasThread(id[c], closure[c])'
    <3>1. Is(s, n)'
      BY <1>11
    <3>2. Page(s, closure[c])'
      BY <1>1, <1>3, <1>4, <1>8 DEF CallerInv, HasPage, Page
    <3> QED  BY <1>1, <1>3, <3>1, <3>2 DEF HasThread
  <2> QED  BY <1>6, <2>1, <2>2 DEF CallerInv
<1>16. ASSUME NEW d \in Callers, d # c PROVE CallerInv(d)'
  <2>1. CallerInv(d) /\ pc'[d] = pc[d] /\ id'[d] = id[d] /\ arg'[d] = arg[d] /\ closure'[d] = closure[d]
    BY <1>3, <1>6, <1>16 DEF SpawnInv
  <2>2. pc[d] \in {"stack", "add", "ready"} => ~Readied(id[d])' /\ id[d] # n
    BY <1>1, <1>3, <1>12, <1>16, <2>1 DEF CallerInv, HasId, SpawnInv, IdsDistinct
  <2>3. pc[d] \in {"stack", "add"} => ~InTable(id[d])'
    BY <1>12, <2>1, <2>2 DEF CallerInv
  <2> QED  BY <1>4, <1>10, <2>1, <2>2, <2>3, CallerKept
<1>17. IdsDistinct'
  BY <1>3, <1>6 DEF SpawnInv, IdsDistinct
<1>18. ReturnedInv'
  BY <1>3, <1>10, <1>12, ThreadKept DEF SpawnInv, ReturnedInv
<1> QED  BY <1>9, <1>13, <1>14, <1>15, <1>16, <1>17, <1>18 DEF SpawnInv

(* The unwrap of get_thread_mut finds the thread: the spawn put it there and *)
(* nothing takes it away.                                                    *)
LEMMA ReadyFinds ==
  ASSUME SpawnInv, NEW c \in Callers, Ready(c)
  PROVE  /\ pc[c] = "ready" /\ pc' = [pc EXCEPT ![c] = "idle"]
         /\ readied' = Append(readied, id[c])
         /\ returned' = returned \cup {<<id[c], closure[c]>>}
         /\ UNCHANGED <<next_frame, memory, id_counter, threads, started, arg, id, closure>>
<1>1. pc[c] = "ready" /\ CallerInv(c)
  BY DEF Ready, SpawnInv
<1>2. PICK n, f : n = id[c] /\ f = closure[c]
  OBVIOUS
<1>3. PICK s \in 1..TableCap : Is(s, n)
  BY <1>1, <1>2 DEF CallerInv, HasThread
<1>4. \E r \in 1..TableCap : GetThreadMut(r, n)
  BY <1>3 DEF Is, GetThreadMut
<1>5. \E r \in 1..TableCap : GetThreadMut(r, n) /\ readied' = Append(readied, threads[r].id)
  BY <1>2, <1>4 DEF Ready, FirstFound
<1>6. readied' = Append(readied, id[c])
  BY <1>2, <1>5 DEF GetThreadMut
<1> QED  BY <1>1, <1>2, <1>4, <1>6 DEF Ready, Goto

(* ready() is called once for an id: its spawn alone has it, and leaves.     *)
LEMMA ReadyStep ==
  ASSUME SpawnInv, NEW c \in Callers, Ready(c)
  PROVE  SpawnInv'
<1>1. PICK n, f : n = id[c] /\ f = closure[c]
  OBVIOUS
<1>2. /\ pc[c] = "ready" /\ pc' = [pc EXCEPT ![c] = "idle"]
      /\ returned' = returned \cup {<<n, f>>}
      /\ UNCHANGED <<next_frame, memory, id_counter, threads, started, arg, id, closure>>
  BY <1>1, ReadyFinds
<1>3. readied' = Append(readied, n)
  BY <1>1, ReadyFinds
<1>4. SpawnType /\ CallerInv(c) /\ id_counter' \in Nat /\ id_counter' >= id_counter
  BY <1>2 DEF SpawnInv, SpawnType
<1>5. n \in Nat /\ n < id_counter /\ ~Readied(n) /\ HasThread(n, f)
  BY <1>1, <1>2, <1>4 DEF CallerInv, HasId
<1>6. pc'[c] = "idle" /\ \A d \in Callers : d # c => pc'[d] = pc[d]
  BY <1>2, <1>4 DEF SpawnType
<1>7. /\ readied' \in Seq(Nat) /\ Len(readied) \in Nat /\ Len(readied') = Len(readied) + 1
      /\ readied'[Len(readied) + 1] = n /\ \A k \in 1..Len(readied) : readied'[k] = readied[k]
  BY <1>3, <1>4, <1>5 DEF SpawnType
<1>8. SpawnType'
  BY <1>2, <1>4, <1>7 DEF SpawnType
<1>9. Kept
  BY <1>2 DEF Kept
<1>10. \A m : (Readied(m)' <=> Readied(m) \/ m = n) /\ (InTable(m)' <=> InTable(m))
  <2>1. \A m : Readied(m)' <=> Readied(m) \/ m = n
    BY <1>7 DEF Readied
  <2>2. \A m : InTable(m)' <=> InTable(m)
    BY <1>2 DEF InTable, Is
  <2> QED  BY <2>1, <2>2
<1>11. TableInv'
  BY <1>2 DEF SpawnInv, TableInv, Is
<1>12. ReadiedInv'
  <2>1. \A k \in 1..Len(readied) : readied[k] # n
    BY <1>5 DEF Readied
  <2>2. \A k \in 1..Len(readied') : readied'[k] < id_counter'
    BY <1>2, <1>5, <1>7 DEF SpawnInv, ReadiedInv
  <2>3. \A j, k \in 1..Len(readied') : readied'[j] = readied'[k] => j = k
    BY <1>7, <2>1 DEF SpawnInv, ReadiedInv
  <2> QED  BY <2>2, <2>3 DEF ReadiedInv
<1>13. CallerInv(c)'
  BY <1>6 DEF CallerInv
<1>14. ASSUME NEW d \in Callers, d # c PROVE CallerInv(d)'
  <2>1. CallerInv(d) /\ pc'[d] = pc[d] /\ id'[d] = id[d] /\ arg'[d] = arg[d] /\ closure'[d] = closure[d]
    BY <1>2, <1>6, <1>14 DEF SpawnInv
  <2>2. pc[d] \in {"stack", "add", "ready"} => id[d] # n
    BY <1>1, <1>2, <1>14 DEF SpawnInv, IdsDistinct
  <2>3. pc[d] \in {"stack", "add", "ready"} => ~Readied(id[d])'
    BY <1>10, <2>1, <2>2 DEF CallerInv, HasId
  <2>4. pc[d] \in {"stack", "add"} => ~InTable(id[d])'
    BY <1>10, <2>1 DEF CallerInv
  <2> QED  BY <1>4, <1>9, <2>1, <2>3, <2>4, CallerKept
<1>15. IdsDistinct'
  BY <1>2, <1>6 DEF SpawnInv, IdsDistinct
<1>16. ReturnedInv'
  <2>1. ASSUME NEW r \in returned' PROVE r[1] \in Nat /\ Readied(r[1])' /\ HasThread(r[1], r[2])
    BY <1>2, <1>5, <1>10 DEF SpawnInv, ReturnedInv
  <2> QED  BY <1>9, <2>1, ThreadKept DEF ReturnedInv
<1> QED  BY <1>8, <1>11, <1>12, <1>13, <1>14, <1>15, <1>16 DEF SpawnInv

LEMMA SpawnInvNext == SpawnInv /\ [Next]_vars => SpawnInv'
<1> SUFFICES ASSUME SpawnInv, [Next]_vars PROVE SpawnInv'
  OBVIOUS
<1>1. ASSUME NEW c \in Callers, NEW f \in Closures, AllocPage(c, f) PROVE SpawnInv'
  BY <1>1, AllocPageStep
<1>2. ASSUME NEW c \in Callers, TakeId(c) PROVE SpawnInv'
  BY <1>2, TakeIdStep
<1>3. ASSUME NEW c \in Callers, AddThread(c) PROVE SpawnInv'
  BY <1>3, AddThreadStep
<1>4. ASSUME NEW c \in Callers, TableFull(c) PROVE SpawnInv'
  BY <1>4, TableFullStep
<1>5. ASSUME NEW c \in Callers, Ready(c) PROVE SpawnInv'
  BY <1>5, ReadyStep
<1>8. ASSUME NEW c \in Callers, AllocStack(c) PROVE SpawnInv'
  BY <1>8, AllocStackStep
<1>6. ASSUME UNCHANGED <<next_frame, memory, id_counter, threads, readied, pc, arg, id, closure, returned>>
      PROVE  SpawnInv'
  BY <1>6 DEF SpawnInv, SpawnType, TableInv, ReadiedInv, CallerInv, HasPage, HasId, IdsDistinct, ReturnedInv,
              Readied, InTable, HasThread, Is, Page
<1>7. ASSUME NEW s \in 1..TableCap, Start(s) PROVE SpawnInv'
  BY <1>6, <1>7 DEF Start
<1> QED  BY <1>1, <1>2, <1>3, <1>4, <1>5, <1>6, <1>7, <1>8 DEF Next, vars

(* However spawns interleave, an id is drawn by one of them, is in the table *)
(* once between its two critical sections and from then on, and is made      *)
(* ready once.                                                               *)
THEOREM SpawnInvariant == Spec => []SpawnInv
BY SpawnInvInit, SpawnInvNext, PTL DEF Spec

(* A set with one member.                                                    *)
LEMMA OneMember ==
  ASSUME NEW S, NEW x \in S, \A y \in S : y = x
  PROVE  Cardinality(S) = 1
<1>1. S = {x}
  OBVIOUS
<1> QED  BY <1>1, FS_Singleton

LEMMA ReadyInSpawnInv == SpawnInv => SpawnedThreadReady
<1> SUFFICES ASSUME SpawnInv, NEW r \in returned
             PROVE  /\ Cardinality({s \in 1..TableCap : threads[s] # NULL /\ threads[s].id = r[1]}) = 1
                    /\ \A s \in 1..TableCap :
                         threads[s] # NULL /\ threads[s].id = r[1] => memory[threads[s].arg].closure = r[2]
                    /\ Cardinality({k \in DOMAIN readied : readied[k] = r[1]}) = 1
  BY DEF SpawnedThreadReady
<1>1. r[1] \in Nat /\ Readied(r[1]) /\ HasThread(r[1], r[2])
  BY DEF SpawnInv, ReturnedInv
<1>2. PICK s \in 1..TableCap : Is(s, r[1]) /\ Page(s, r[2])
  BY <1>1 DEF HasThread
<1>3. PICK k \in 1..Len(readied) : readied[k] = r[1]
  BY <1>1 DEF Readied
<1>4. \A q \in 1..TableCap : Is(q, r[1]) => q = s
  BY <1>1, <1>2 DEF SpawnInv, TableInv
<1>5. \A j \in 1..Len(readied) : readied[j] = r[1] => j = k
  BY <1>3 DEF SpawnInv, ReadiedInv
<1>6. Cardinality({q \in 1..TableCap : threads[q] # NULL /\ threads[q].id = r[1]}) = 1
  BY <1>2, <1>4, OneMember DEF Is
<1>7. DOMAIN readied = 1..Len(readied)
  BY DEF SpawnInv, SpawnType
<1>8. Cardinality({j \in DOMAIN readied : readied[j] = r[1]}) = 1
  BY <1>3, <1>5, <1>7, OneMember
<1> QED  BY <1>2, <1>4, <1>6, <1>8 DEF Is, Page

(* Two spawns whose critical sections interleave never take each other's     *)
(* thread: each Some(id) names one thread of the table, with the closure     *)
(* passed to that spawn, made ready once.                                    *)
THEOREM SpawnsReadyTheirOwn == Spec => []SpawnedThreadReady
BY SpawnInvariant, ReadyInSpawnInv, PTL

-----------------------------------------------------------------------------
(* The frames *)

(* The callers that are at a label, for a value of pc.                       *)
CallersAt(p, label) == {c \in Callers : p[c] = label}

LEMMA CallersCounted ==
  ASSUME NEW p, NEW label
  PROVE  IsFiniteSet(CallersAt(p, label)) /\ Cardinality(CallersAt(p, label)) \in Nat
<1>1. CallersAt(p, label) \subseteq Callers
  BY DEF CallersAt
<1>2. IsFiniteSet(CallersAt(p, label))
  BY <1>1, FS_Subset, SpawnAssumption
<1> QED  BY <1>2, FS_CardinalityType

(* A caller that moves is counted at its new label and no longer at its old. *)
MovesTo(p, q, c, l) == DOMAIN p = Callers /\ l # p[c] /\ q = [p EXCEPT ![c] = l]

LEMMA CallerMoves ==
  ASSUME NEW p, NEW q, NEW c \in Callers, NEW l, MovesTo(p, q, c, l)
  PROVE  /\ Cardinality(CallersAt(q, l)) = Cardinality(CallersAt(p, l)) + 1
         /\ Cardinality(CallersAt(q, p[c])) = Cardinality(CallersAt(p, p[c])) - 1
         /\ \A m : m # l /\ m # p[c] => CallersAt(q, m) = CallersAt(p, m)
<1>1. l # p[c] /\ q[c] = l /\ \A d \in Callers : d # c => q[d] = p[d]
  BY DEF MovesTo
<1>2. c \notin CallersAt(p, l) /\ CallersAt(q, l) = CallersAt(p, l) \cup {c}
  BY <1>1 DEF CallersAt
<1>3. c \in CallersAt(p, p[c]) /\ CallersAt(q, p[c]) = CallersAt(p, p[c]) \ {c}
  BY <1>1 DEF CallersAt
<1>4. IsFiniteSet(CallersAt(p, l)) /\ IsFiniteSet(CallersAt(p, p[c]))
  BY CallersCounted
<1>5. Cardinality(CallersAt(q, l)) = Cardinality(CallersAt(p, l)) + 1
  BY <1>2, <1>4, FS_AddElement
<1>6. Cardinality(CallersAt(q, p[c])) = Cardinality(CallersAt(p, p[c])) - 1
  BY <1>3, <1>4, FS_RemoveElement
<1>7. \A m : m # l /\ m # p[c] => CallersAt(q, m) = CallersAt(p, m)
  BY <1>1 DEF CallersAt
<1> QED  BY <1>5, <1>6, <1>7

LEMMA StoredCounted == IsFiniteSet(Stored) /\ Cardinality(Stored) \in Nat
<1>1. Stored \subseteq 1..TableCap
  BY DEF Stored
<1>2. IsFiniteSet(1..TableCap)
  BY FS_Interval, SpawnAssumption
<1>3. IsFiniteSet(Stored)
  BY <1>1, <1>2, FS_Subset
<1> QED  BY <1>3, FS_CardinalityType

LEMMA OneMore ==
  ASSUME NEW u \in Int, NEW x \in Int
  PROVE  u * (x + 1) = u * x + u
OBVIOUS

(* The property in numbers: i spawns with a page only, a with page and       *)
(* stack, t threads of the table and k spawns that panicked.                 *)
Lost(n, i, a, t) == n - 1 - (i + (1 + StackFrames) * (a + t))
Balance(n, i, a, t, k) == Lost(n, i, a, t) \in 0..k

LEMMA BalanceKept ==
  ASSUME NEW n \in Nat, NEW i \in Nat, NEW a \in Nat, NEW t \in Nat, NEW k \in Nat, Balance(n, i, a, t, k)
  PROVE  /\ Balance(n, i, a, t, k)
         /\ Balance(n + 1, i + 1, a, t, k)
         /\ Balance(n, i, a, t, k + 1)
         /\ Balance(n, i - 1, a, t, k + 1)
         /\ Balance(n + StackFrames, i - 1, a + 1, t, k)
         /\ Balance(n, i, a - 1, t + 1, k)
<1>1. StackFrames \in Nat
  BY SpawnAssumption
<1>2. PICK u : u = 1 + StackFrames
  OBVIOUS
<1>3. PICK w : w = u * (a + t)
  OBVIOUS
<1>4. w \in Int /\ n - 1 - (i + w) \in 0..k
  BY <1>1, <1>2, <1>3 DEF Balance, Lost
<1>5. u * ((a + 1) + t) = w + u
  <2>1. (a + 1) + t = (a + t) + 1
    OBVIOUS
  <2> QED  BY <1>1, <1>2, <1>3, <2>1, OneMore
<1>6. (a - 1) + (t + 1) = a + t
  OBVIOUS
<1>7. Balance(n + 1, i + 1, a, t, k) /\ Balance(n, i, a, t, k + 1) /\ Balance(n, i - 1, a, t, k + 1)
  BY <1>2, <1>3, <1>4 DEF Balance, Lost
<1>8. Balance(n + StackFrames, i - 1, a + 1, t, k)
  BY <1>1, <1>2, <1>4, <1>5 DEF Balance, Lost
<1>9. Balance(n, i, a - 1, t + 1, k)
  BY <1>2, <1>3, <1>4, <1>6 DEF Balance, Lost
<1> QED  BY <1>7, <1>8, <1>9

HasRoom == \E s \in 1..TableCap : threads[s] = NULL

Balanced ==
  Balance(next_frame, Cardinality(CallersAt(pc, "id")) + Cardinality(CallersAt(pc, "stack")),
          Cardinality(CallersAt(pc, "add")), Cardinality(Stored), Cardinality(CallersAt(pc, "panic")))

FramesInv == HasRoom => Balanced

LEMMA FramesInvInit == Init => FramesInv
<1> SUFFICES ASSUME Init PROVE Balanced
  BY DEF FramesInv
<1>1. \A l \in {"id", "stack", "add", "panic"} : CallersAt(pc, l) = {}
  BY DEF Init, CallersAt
<1>2. Stored = {}
  BY DEF Init, Stored
<1>3. Cardinality({}) = 0
  BY FS_EmptySet
<1>4. Balance(1, 0 + 0, 0, 0, 0)
  BY SpawnAssumption DEF Balance, Lost
<1> QED  BY <1>1, <1>2, <1>3, <1>4 DEF Init, Balanced

(* While there is room, every step pays for the frames it takes with the     *)
(* label it moves its caller to; TableFull has no room to begin with.        *)
LEMMA FramesInvNext == SpawnInv /\ FramesInv /\ [Next]_vars => FramesInv'
<1> SUFFICES ASSUME SpawnInv, FramesInv, [Next]_vars, HasRoom' PROVE Balanced'
  BY DEF FramesInv
<1>1. PICK n, x, y, a, t, k :
        /\ n = next_frame /\ t = Cardinality(Stored)
        /\ x = Cardinality(CallersAt(pc, "id")) /\ y = Cardinality(CallersAt(pc, "stack"))
        /\ a = Cardinality(CallersAt(pc, "add")) /\ k = Cardinality(CallersAt(pc, "panic"))
  OBVIOUS
<1>2. /\ n \in Nat /\ x \in Nat /\ y \in Nat /\ a \in Nat /\ t \in Nat /\ k \in Nat
      /\ DOMAIN pc = Callers
  BY <1>1, CallersCounted, StoredCounted DEF SpawnInv, SpawnType
<1>i. PICK i \in Nat : i = x + y
  BY <1>2
<1>3. HasRoom => Balance(n, i, a, t, k)
  BY <1>1, <1>i DEF FramesInv, Balanced
<1>4. threads' = threads => HasRoom /\ Stored' = Stored
  BY DEF HasRoom, Stored
<1>5. ASSUME NEW c \in Callers, NEW f \in Closures, AllocPage(c, f) PROVE Balanced'
  <2>1. pc[c] = "idle" /\ threads' = threads
    BY <1>5 DEF AllocPage
  <2>2. CASE pc' = [pc EXCEPT ![c] = "panic"] /\ next_frame' = next_frame
    <3>1. MovesTo(pc, pc', c, "panic")
      BY <1>2, <2>1, <2>2 DEF MovesTo
    <3>2. /\ Cardinality(CallersAt(pc', "panic")) = k + 1
          /\ \A l \in {"id", "stack", "add"} : CallersAt(pc', l) = CallersAt(pc, l)
      BY <1>1, <2>1, <3>1, CallerMoves
    <3>3. Balance(n, i, a, t, k + 1)
      BY <1>2, <1>3, <1>4, <2>1, BalanceKept
    <3> QED  BY <1>1, <1>i, <1>4, <2>1, <2>2, <3>2, <3>3 DEF Balanced
  <2>3. CASE pc' = [pc EXCEPT ![c] = "id"] /\ next_frame' = next_frame + 1
    <3>1. MovesTo(pc, pc', c, "id")
      BY <1>2, <2>1, <2>3 DEF MovesTo
    <3>2. /\ Cardinality(CallersAt(pc', "id")) = x + 1
          /\ \A l \in {"stack", "add", "panic"} : CallersAt(pc', l) = CallersAt(pc, l)
      BY <1>1, <2>1, <3>1, CallerMoves
    <3>3. Balance(n + 1, i + 1, a, t, k) /\ i + 1 = (x + 1) + y
      BY <1>2, <1>i, <1>3, <1>4, <2>1, BalanceKept
    <3> QED  BY <1>1, <1>4, <2>1, <2>3, <3>2, <3>3 DEF Balanced
  <2> QED  BY <1>5, <2>2, <2>3 DEF AllocPage, Goto
<1>6. ASSUME NEW c \in Callers, TakeId(c) PROVE Balanced'
  <2>1. pc[c] = "id" /\ threads' = threads /\ pc' = [pc EXCEPT ![c] = "stack"] /\ next_frame' = next_frame
    BY <1>6 DEF TakeId, Goto
  <2>2. MovesTo(pc, pc', c, "stack")
    BY <1>2, <2>1 DEF MovesTo
  <2>3. /\ Cardinality(CallersAt(pc', "stack")) = y + 1 /\ Cardinality(CallersAt(pc', "id")) = x - 1
        /\ \A l \in {"add", "panic"} : CallersAt(pc', l) = CallersAt(pc, l)
    BY <1>1, <2>1, <2>2, CallerMoves
  <2>4. (x - 1) + (y + 1) = i /\ Balance(n, i, a, t, k)
    BY <1>2, <1>i, <1>3, <1>4, <2>1
  <2> QED  BY <1>1, <1>4, <2>1, <2>3, <2>4 DEF Balanced
<1>12. ASSUME NEW c \in Callers, AllocStack(c) PROVE Balanced'
  <2>1. pc[c] = "stack" /\ threads' = threads
    BY <1>12 DEF AllocStack
  <2>2. CASE pc' = [pc EXCEPT ![c] = "panic"] /\ next_frame' = next_frame
    <3>1. MovesTo(pc, pc', c, "panic")
      BY <1>2, <2>1, <2>2 DEF MovesTo
    <3>2. /\ Cardinality(CallersAt(pc', "panic")) = k + 1 /\ Cardinality(CallersAt(pc', "stack")) = y - 1
          /\ \A l \in {"id", "add"} : CallersAt(pc', l) = CallersAt(pc, l)
      BY <1>1, <2>1, <3>1, CallerMoves
    <3>3. Balance(n, i - 1, a, t, k + 1) /\ i - 1 = x + (y - 1)
      BY <1>2, <1>i, <1>3, <1>4, <2>1, BalanceKept
    <3> QED  BY <1>1, <1>4, <2>1, <2>2, <3>2, <3>3 DEF Balanced
  <2>3. CASE pc' = [pc EXCEPT ![c] = "add"] /\ next_frame' = next_frame + StackFrames
    <3>1. MovesTo(pc, pc', c, "add")
      BY <1>2, <2>1, <2>3 DEF MovesTo
    <3>2. /\ Cardinality(CallersAt(pc', "add")) = a + 1 /\ Cardinality(CallersAt(pc', "stack")) = y - 1
          /\ \A l \in {"id", "panic"} : CallersAt(pc', l) = CallersAt(pc, l)
      BY <1>1, <2>1, <3>1, CallerMoves
    <3>3. Balance(n + StackFrames, i - 1, a + 1, t, k) /\ i - 1 = x + (y - 1)
      BY <1>2, <1>i, <1>3, <1>4, <2>1, BalanceKept
    <3> QED  BY <1>1, <1>4, <2>1, <2>3, <3>2, <3>3 DEF Balanced
  <2> QED  BY <1>12, <2>2, <2>3 DEF AllocStack, Goto
<1>7. ASSUME NEW c \in Callers, AddThread(c) PROVE Balanced'
  <2>1. pc[c] = "add" /\ pc' = [pc EXCEPT ![c] = "ready"] /\ next_frame' = next_frame
    BY <1>7 DEF AddThread, Goto
  <2>2. PICK e : e = [id |-> id[c], arg |-> arg[c]]
    OBVIOUS
  <2>3. PICK s \in 1..TableCap : threads[s] = NULL /\ threads' = [threads EXCEPT ![s] = e]
    BY <1>7, <2>2 DEF AddThread, FirstEmptySlot
  <2>4. e # NULL
    BY <2>1, <2>2, SpawnAssumption DEF SpawnInv, CallerInv, HasId, HasPage
  <2>5. s \notin Stored /\ Stored' = Stored \cup {s}
    <3>1. DOMAIN threads = 1..TableCap
      BY DEF SpawnInv, SpawnType
    <3> QED  BY <2>3, <2>4, <3>1 DEF Stored
  <2>6. Cardinality(Stored') = t + 1
    BY <1>1, <2>5, StoredCounted, FS_AddElement
  <2>7. MovesTo(pc, pc', c, "ready")
    BY <1>2, <2>1 DEF MovesTo
  <2>8. /\ Cardinality(CallersAt(pc', "add")) = a - 1
        /\ \A l \in {"id", "stack", "panic"} : CallersAt(pc', l) = CallersAt(pc, l)
    BY <1>1, <2>1, <2>7, CallerMoves
  <2>9. Balance(n, i, a - 1, t + 1, k)
    BY <1>2, <1>i, <1>3, <2>3, BalanceKept DEF HasRoom
  <2> QED  BY <1>1, <1>i, <2>1, <2>6, <2>8, <2>9 DEF Balanced
<1>8. ASSUME NEW c \in Callers, TableFull(c) PROVE Balanced'
  BY <1>8 DEF TableFull, HasRoom
<1>9. ASSUME NEW c \in Callers, Ready(c) PROVE Balanced'
  <2>1. pc[c] = "ready" /\ pc' = [pc EXCEPT ![c] = "idle"] /\ UNCHANGED <<next_frame, threads>>
    BY <1>9, ReadyFinds
  <2>2. MovesTo(pc, pc', c, "idle")
    BY <1>2, <2>1 DEF MovesTo
  <2>3. \A l \in {"id", "stack", "add", "panic"} : CallersAt(pc', l) = CallersAt(pc, l)
    BY <2>1, <2>2, CallerMoves
  <2> QED  BY <1>1, <1>i, <1>3, <1>4, <2>1, <2>3 DEF Balanced
<1>10. ASSUME UNCHANGED <<next_frame, threads, pc>> PROVE Balanced'
  BY <1>1, <1>i, <1>3, <1>4, <1>10 DEF Balanced
<1>11. ASSUME NEW s \in 1..TableCap, Start(s) PROVE Balanced'
  BY <1>10, <1>11 DEF Start
<1> QED  BY <1>5, <1>6, <1>7, <1>8, <1>9, <1>10, <1>11, <1>12 DEF Next, vars

LEMMA LostInFramesInv == FramesInv => LostOnlyWhenFull
BY DEF FramesInv, HasRoom, Balanced, Balance, Lost, LostOnlyWhenFull, Accounted, At, CallersAt

(* With any number of spawns under way, for any memory and table: as long as *)
(* the thread table has room, every frame handed out belongs to a thread of  *)
(* the table, to a spawn under way, or is the page of one that panicked.     *)
THEOREM FramesLostOnlyToFullTable == Spec => []LostOnlyWhenFull
BY SpawnInvariant, FramesInvInit, FramesInvNext, LostInFramesInv, PTL DEF Spec

-----------------------------------------------------------------------------
(* The registers *)

Popped == Pops \o Iret
Pushed == Hardware \o Pushes

(* The two assembly lists and the struct agree: what is pushed k-th last is  *)
(* popped k-th, into the register whose field is k-th.                       *)
LEMMA ListsAgree ==
  /\ Len(Popped) = 20 /\ Len(Pushed) = 20 /\ Len(Struct) = 20
  /\ \A k \in 1..20 : Popped[k] = Struct[k] /\ Pushed[21 - k] = Popped[k]
  /\ \A j, k \in 1..20 : Popped[j] = Popped[k] => j = k
<1>1. Len(Popped) = 20 /\ Len(Pushed) = 20 /\ Len(Struct) = 20
  BY DEF Popped, Pushed, Struct, Pops, Iret, Hardware, Pushes
<1>2. \A k \in 1..20 : Popped[k] = Struct[k]
  BY DEF Popped, Struct, Pops, Iret
<1>3. \A k \in 1..20 : Pushed[21 - k] = Popped[k]
  BY DEF Popped, Pushed, Pops, Iret, Hardware, Pushes
<1>4. \A j, k \in 1..20 : Popped[j] = Popped[k] => j = k
  BY DEF Popped, Pops, Iret
<1> QED  BY <1>1, <1>2, <1>3, <1>4

(* force_switch_to_idle pops like timer_interrupt.                           *)
LEMMA IdleListAgrees == IdlePops \o Iret = Popped
BY DEF Popped, IdlePops, Pops, Iret

LEMMA PlaceOf ==
  ASSUME NEW k \in 1..20
  PROVE  Place(Popped, Popped[k]) = k
BY ListsAgree DEF Place

LEMMA NamesPopped ==
  /\ \A k \in 1..20 : Popped[k] \in Names
  /\ \A r \in Names : \E k \in 1..20 : r = Popped[k]
  /\ "rsp" \in Names
<1>1. Names = {Popped[k] : k \in 1..20}
  BY ListsAgree DEF Names
<1>2. Popped[19] = "rsp" /\ 19 \in 1..20
  BY DEF Popped, Pops, Iret
<1> QED  BY <1>1, <1>2

(* A stack pointer with room for a frame below it.                           *)
RoomAt(sp) == sp \in Nat /\ 21 <= sp /\ sp <= Top

Registers(f) == f = [r \in Names |-> f[r]] /\ RoomAt(f["rsp"])

SwitchType ==
  /\ current \in AllThreads /\ phase \in {"boot", "run", "handler"}
  /\ DOMAIN stacks = AllThreads /\ DOMAIN regs = AllThreads /\ DOMAIN left = AllThreads

(* The frame of a thread that is not running has the registers it was left   *)
(* with, in the order they will be popped, and lies below its live words.    *)
Saved(t) ==
  /\ regs[t] \in Nat /\ regs[t] + 20 <= Top
  /\ Registers(left[t].cpu)
  /\ \A k \in 1..20 : stacks[t][regs[t] + k - 1] = left[t].cpu[Popped[k]]
  /\ LiveWords(stacks[t], left[t].cpu["rsp"]) = left[t].live

SwitchInv ==
  /\ SwitchType
  /\ \A t \in AllThreads : Saved(t) \/ (phase = "run" /\ t = current)
  /\ phase = "run" => Registers(cpu)
  /\ ResumesExactly
  /\ HandlerAligned

LEMMA SwitchInvInit == SwitchInit => SwitchInv
<1> SUFFICES ASSUME SwitchInit PROVE SwitchInv
  OBVIOUS
<1>1. Top \in Nat /\ 21 <= Top
  BY StackAssumption
<1>2. SwitchType
  BY DEF SwitchInit, SwitchType, AllThreads
<1>3. ASSUME NEW t \in AllThreads PROVE Saved(t)
  <2>1. PICK f : f = NewInsideKernel(t)
    OBVIOUS
  <2>2. regs[t] = Top - 20
    BY <1>3, ListsAgree DEF SwitchInit
  <2>3. /\ stacks[t] = [i \in 0..(Top - 1) |-> IF i >= regs[t] THEN f[Struct[i - regs[t] + 1]] ELSE Trash]
        /\ left[t] = [cpu |-> f, live |-> LiveWords(stacks[t], Top)]
    BY <1>3, <2>1 DEF SwitchInit
  <2>4. f["rsp"] = Top /\ f = [r \in Names |-> f[r]]
    BY <2>1, NamesPopped DEF NewInsideKernel
  <2>5. Registers(f)
    BY <1>1, <2>4 DEF Registers, RoomAt
  <2>6. ASSUME NEW k \in 1..20 PROVE stacks[t][regs[t] + k - 1] = f[Popped[k]]
    <3>1. PICK i : i = regs[t] + k - 1
      OBVIOUS
    <3>2. i \in 0..(Top - 1) /\ i >= regs[t] /\ i - regs[t] + 1 = k
      BY <1>1, <2>2, <3>1
    <3>3. stacks[t][i] = f[Struct[k]]
      BY <2>3, <3>2
    <3> QED  BY <3>1, <3>3, ListsAgree
  <2>7. left[t].cpu = f /\ left[t].live = LiveWords(stacks[t], Top)
    BY <2>3
  <2>8. regs[t] \in Nat /\ regs[t] + 20 <= Top
    BY <1>1, <2>2
  <2> QED  BY <2>4, <2>5, <2>6, <2>7, <2>8 DEF Saved
<1>4. phase = "boot"
  BY DEF SwitchInit
<1> QED  BY <1>2, <1>3, <1>4 DEF SwitchInv, ResumesExactly, HandlerAligned

(* A thread whose stack, frame and history a step leaves alone.              *)
LEMMA SavedKept ==
  ASSUME NEW t, Saved(t), stacks'[t] = stacks[t], regs'[t] = regs[t], left'[t] = left[t]
  PROVE  Saved(t)'
BY DEF Saved

(* The pops load what the pushes, or the spawn, stored.                      *)
LEMMA RestoreStep ==
  ASSUME SwitchInv, NEW t \in AllThreads, phase # "run", NEW pops, pops \o Iret = Popped, Restore(t, pops)
  PROVE  SwitchInv'
<1>1. Saved(t) /\ SwitchType
  BY DEF SwitchInv
<1>2. /\ cpu' = [r \in Names |-> stacks[t][regs[t] + Place(Popped, r) - 1]]
      /\ current' = t /\ phase' = "run" /\ UNCHANGED <<stacks, regs, left>>
  BY DEF Restore
<1>3. PICK f : f = left[t].cpu
  OBVIOUS
<1>4. cpu' = f
  <2>1. ASSUME NEW r \in Names PROVE cpu'[r] = f[r]
    <3>1. PICK k \in 1..20 : r = Popped[k]
      BY NamesPopped
    <3>2. Place(Popped, r) = k
      BY <3>1, PlaceOf
    <3> QED  BY <1>1, <1>2, <1>3, <3>1, <3>2 DEF Saved
  <2>2. f = [r \in Names |-> f[r]]
    BY <1>1, <1>3 DEF Saved, Registers
  <2>3. cpu' = [r \in Names |-> cpu'[r]]
    BY <1>2
  <2> QED  BY <2>1, <2>2, <2>3
<1>5. Registers(cpu)'
  BY <1>1, <1>3, <1>4 DEF Saved, Registers, RoomAt
<1>6. ResumesExactly'
  BY <1>1, <1>2, <1>3, <1>4 DEF Saved, ResumesExactly, LiveWords
<1>7. \A u \in AllThreads : Saved(u)'
  BY <1>2, SavedKept DEF SwitchInv
<1>8. SwitchType' /\ HandlerAligned'
  BY <1>1, <1>2 DEF SwitchType, HandlerAligned
<1> QED  BY <1>5, <1>6, <1>7, <1>8 DEF SwitchInv

(* The frame is pushed below the words the thread has, so they stay.         *)
LEMMA InterruptStep ==
  ASSUME SwitchInv, TimerInterrupt
  PROVE  SwitchInv'
<1>1. PICK t, rsp, f, mem : t = current /\ rsp = cpu["rsp"] /\ f = cpu /\ mem = stacks[current]
  OBVIOUS
<1>2. PICK top : top = rsp - (rsp % 2)
  OBVIOUS
<1>3. PICK new : new = [i \in 0..(Top - 1) |->
                   IF i < top - 20 THEN Trash ELSE IF i < top THEN f[Pushed[top - i]] ELSE mem[i]]
  OBVIOUS
<1>4. /\ phase = "run" /\ phase' = "handler" /\ current' = current
      /\ stacks' = [stacks EXCEPT ![t] = new]
      /\ regs' = [regs EXCEPT ![t] = top - 20]
      /\ cpu' = [r \in Names |-> IF r = "rsp" THEN top - 20 ELSE Trash]
      /\ left' = [left EXCEPT ![t] = [cpu |-> f, live |-> LiveWords(mem, rsp)]]
  BY <1>1, <1>2, <1>3, ListsAgree DEF TimerInterrupt, Pushed
<1>5. SwitchType /\ Registers(f) /\ t \in AllThreads /\ Top \in Nat
  BY <1>1, <1>4, StackAssumption DEF SwitchInv, SwitchType
<1>6. rsp \in Nat /\ 21 <= rsp /\ rsp <= Top
  BY <1>1, <1>5 DEF Registers, RoomAt
<1>7. top \in Nat /\ 20 <= top /\ top <= rsp /\ top % 2 = 0 /\ (top - 20) % 2 = 0
  BY <1>2, <1>6
<1>8. /\ stacks'[t] = new /\ regs'[t] = top - 20 /\ left'[t] = [cpu |-> f, live |-> LiveWords(mem, rsp)]
      /\ \A u \in AllThreads : u # t => stacks'[u] = stacks[u] /\ regs'[u] = regs[u] /\ left'[u] = left[u]
  BY <1>4, <1>5 DEF SwitchType
<1>9. Saved(t)'
  <2>1. ASSUME NEW k \in 1..20 PROVE new[top - 20 + k - 1] = f[Popped[k]]
    <3>1. PICK i : i = top - 20 + k - 1
      OBVIOUS
    <3>2. i \in 0..(Top - 1) /\ ~(i < top - 20) /\ i < top /\ top - i = 21 - k
      BY <1>5, <1>6, <1>7, <3>1
    <3> QED  BY <1>3, <3>1, <3>2, ListsAgree
  <2>2. LiveWords(new, rsp) = LiveWords(mem, rsp)
    <3>1. \A i \in rsp..(Top - 1) : i \in 0..(Top - 1) /\ ~(i < top - 20) /\ ~(i < top)
      BY <1>5, <1>6, <1>7
    <3>2. \A i \in rsp..(Top - 1) : new[i] = mem[i]
      BY <1>3, <3>1
    <3> QED  BY <3>2 DEF LiveWords
  <2>3. regs'[t] \in Nat /\ regs'[t] + 20 <= Top
    BY <1>5, <1>6, <1>7, <1>8
  <2>4. left'[t].cpu = f /\ left'[t].live = LiveWords(new, rsp) /\ f["rsp"] = rsp
    BY <1>1, <1>8, <2>2
  <2>5. Registers(left[t].cpu)'
    BY <1>5, <2>4 DEF Registers, RoomAt
  <2>6. \A k \in 1..20 : stacks'[t][regs'[t] + k - 1] = left'[t].cpu[Popped[k]]
    BY <1>8, <2>1, <2>4
  <2>7. LiveWords(stacks'[t], left'[t].cpu["rsp"]) = left'[t].live
    BY <1>8, <2>4
  <2> QED  BY <2>3, <2>5, <2>6, <2>7 DEF Saved, LiveWords
<1>10. \A u \in AllThreads : u # t => Saved(u)'
  BY <1>1, <1>8, SavedKept DEF SwitchInv
<1>11. HandlerAligned'
  BY <1>4, <1>7, NamesPopped DEF HandlerAligned
<1>12. SwitchType' /\ ResumesExactly'
  BY <1>4, <1>5 DEF SwitchType, ResumesExactly
<1> QED  BY <1>4, <1>9, <1>10, <1>11, <1>12 DEF SwitchInv

LEMMA WorkStep ==
  ASSUME SwitchInv, NEW n \in {0, 1}, NEW depth \in Depths, Work(n, depth)
  PROVE  SwitchInv'
<1>1. PICK t : t = current
  OBVIOUS
<1>2. /\ phase = "run" /\ phase' = "run" /\ current' = t /\ fresh' = FALSE /\ UNCHANGED <<regs, left>>
      /\ cpu' = [r \in Names |-> cpu'[r]]
  BY <1>1 DEF Work
<1>3. cpu'["rsp"] = Top - depth
  BY NamesPopped DEF Work
<1>4. Registers(cpu)'
  BY <1>2, <1>3, StackAssumption DEF Registers, RoomAt
<1>5. SwitchType
  BY DEF SwitchInv
<1>6. DOMAIN stacks' = DOMAIN stacks /\ \A u \in AllThreads : u # t => stacks'[u] = stacks[u]
  BY <1>1, <1>5 DEF Work, SwitchType
<1>7. \A u \in AllThreads : u # t => Saved(u)'
  BY <1>1, <1>2, <1>6, SavedKept DEF SwitchInv
<1>8. SwitchType' /\ ResumesExactly' /\ HandlerAligned'
  BY <1>1, <1>2, <1>5, <1>6 DEF SwitchType, ResumesExactly, HandlerAligned
<1> QED  BY <1>2, <1>4, <1>7, <1>8 DEF SwitchInv

LEMMA SwitchInvNext == SwitchInv /\ [SwitchNext]_switchVars => SwitchInv'
<1> SUFFICES ASSUME SwitchInv, [SwitchNext]_switchVars PROVE SwitchInv'
  OBVIOUS
<1>1. CASE ForceSwitchToIdle
  BY <1>1, IdleListAgrees, RestoreStep DEF ForceSwitchToIdle, AllThreads
<1>2. CASE TimerInterrupt
  BY <1>2, InterruptStep
<1>3. ASSUME NEW t \in AllThreads, TimerReturn(t) PROVE SwitchInv'
  BY <1>3, RestoreStep DEF TimerReturn, Popped
<1>4. ASSUME NEW n \in {0, 1}, NEW depth \in Depths, Work(n, depth) PROVE SwitchInv'
  BY <1>4, WorkStep
<1>5. CASE UNCHANGED switchVars
  BY <1>5 DEF switchVars, SwitchInv, SwitchType, Saved, Registers, RoomAt, ResumesExactly, HandlerAligned,
              LiveWords
<1> QED  BY <1>1, <1>2, <1>3, <1>4, <1>5 DEF SwitchNext

(* The saved frame of every thread that is not running holds its registers   *)
(* in the order timer_interrupt pops them, for any threads and any depth of  *)
(* stack at which the frame still fits.                                      *)
THEOREM SwitchInvariant == SwitchSpec => []SwitchInv
BY SwitchInvInit, SwitchInvNext, PTL DEF SwitchSpec

(* A thread that comes back has the registers and the stack it was           *)
(* interrupted with, whoever ran in between and however often.               *)
THEOREM ThreadsResumeExactly == SwitchSpec => []ResumesExactly
<1>1. SwitchInv => ResumesExactly
  BY DEF SwitchInv
<1> QED  BY <1>1, SwitchInvariant, PTL

(* timer_interrupt_handler is always called on an aligned stack.             *)
THEOREM HandlersAreAligned == SwitchSpec => []HandlerAligned
<1>1. SwitchInv => HandlerAligned
  BY DEF SwitchInv
<1> QED  BY <1>1, SwitchInvariant, PTL
=============================================================================
