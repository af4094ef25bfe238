--------------------------- MODULE RingQueueProofs ---------------------------
(***************************************************************************)
(* RingQueue implements BoundedFifo for every capacity and item type, and   *)
(* never reads a slot that was not written.                                 *)
(***************************************************************************)
EXTENDS RingQueue, SequenceTheorems, TLAPS

(* Indices stay below 2 * Cap, so the remainder is at most one subtraction. *)
LEMMA WrapLemma ==
  ASSUME NEW a \in Nat, a < 2 * Cap
  PROVE  a % Cap = IF a < Cap THEN a ELSE a - Cap
<1>1. Cap \in Nat /\ Cap > 0
  BY RingQueueAssumption
<1>2. ASSUME NEW r \in Nat, r < Cap  PROVE r % Cap = r
  BY <1>1, <1>2
<1>3. ASSUME NEW r \in Nat, r < Cap  PROVE (r + Cap) % Cap = r
  BY <1>1, <1>3
<1> QED  BY <1>1, <1>2, <1>3

(* Where the slots of the ring are, and that no two of them coincide.       *)
LEMMA SlotLemma ==
  ASSUME NEW h \in 0..(Cap - 1)
  PROVE  /\ \A i \in 0..Cap : Slot(h, i) = IF h + i < Cap THEN h + i ELSE h + i - Cap
         /\ \A i \in 0..Cap : Slot(h, i) \in 0..(Cap - 1)
         /\ \A i, j \in 0..(Cap - 1) : Slot(h, i) = Slot(h, j) => i = j
         /\ \A i \in 0..(Cap - 1) : Following(Slot(h, i)) = Slot(h, i + 1)
         /\ \A i \in 0..(Cap - 1) : Slot(Slot(h, 1), i) = Slot(h, i + 1)
         /\ Slot(h, 0) = h
<1> USE RingQueueAssumption
<1>1. ASSUME NEW g \in 0..(Cap - 1), NEW i \in 0..Cap
      PROVE  /\ Slot(g, i) = IF g + i < Cap THEN g + i ELSE g + i - Cap
             /\ Slot(g, i) \in 0..(Cap - 1)
  <2>1. g + i \in Nat /\ g + i < 2 * Cap
    OBVIOUS
  <2>2. Slot(g, i) = IF g + i < Cap THEN g + i ELSE g + i - Cap
    BY <2>1, WrapLemma DEF Slot
  <2> QED  BY <2>2
<1>2. \A i \in 0..Cap : Slot(h, i) = IF h + i < Cap THEN h + i ELSE h + i - Cap
  BY <1>1
<1>3. \A i \in 0..Cap : Slot(h, i) \in 0..(Cap - 1)
  BY <1>1
<1>4. \A i, j \in 0..(Cap - 1) : Slot(h, i) = Slot(h, j) => i = j
  BY <1>2
<1>5. \A g \in 0..(Cap - 1) : Following(g) = IF g + 1 < Cap THEN g + 1 ELSE g + 1 - Cap
  <2> SUFFICES ASSUME NEW g \in 0..(Cap - 1)
               PROVE  Following(g) = IF g + 1 < Cap THEN g + 1 ELSE g + 1 - Cap
    OBVIOUS
  <2>1. g + 1 \in Nat /\ g + 1 < 2 * Cap
    OBVIOUS
  <2> QED  BY <2>1, WrapLemma DEF Following
<1>6. ASSUME NEW i \in 0..(Cap - 1)
      PROVE  Following(Slot(h, i)) = Slot(h, i + 1)
  <2>1. Slot(h, i + 1) = IF h + (i + 1) < Cap THEN h + (i + 1) ELSE h + (i + 1) - Cap
    BY <1>2
  <2> QED  BY <1>2, <1>3, <1>5, <2>1
<1>7. ASSUME NEW i \in 0..(Cap - 1)
      PROVE  Slot(Slot(h, 1), i) = Slot(h, i + 1)
  <2> DEFINE g == Slot(h, 1)
  <2>1. g \in 0..(Cap - 1) /\ g = IF h + 1 < Cap THEN h + 1 ELSE h + 1 - Cap
    BY <1>2, <1>3
  <2>2. Slot(h, i + 1) = IF h + (i + 1) < Cap THEN h + (i + 1) ELSE h + (i + 1) - Cap
    BY <1>2
  <2> HIDE DEF g
  <2>3. Slot(g, i) = IF g + i < Cap THEN g + i ELSE g + i - Cap
    <3>1. i \in 0..Cap
      OBVIOUS
    <3> QED  BY ONLY <1>1, <2>1, <3>1
  <2>4. Slot(g, i) = Slot(h, i + 1)
    BY <2>1, <2>2, <2>3
  <2> QED  BY <2>4 DEF g
<1>8. Slot(h, 0) = h
  BY <1>2
<1> QED  BY <1>2, <1>3, <1>4, <1>6, <1>7, <1>8

(* TypeOK alone is not inductive: it does not say where tail is.            *)
RingInv == TypeOK /\ LiveSlotsInitialized

(* A new queue satisfies the invariant.                                     *)
LEMMA RingInit == Init => RingInv
<1> SUFFICES ASSUME Init PROVE RingInv
  OBVIOUS
<1>1. TypeOK
  BY RingQueueAssumption DEF Init, TypeOK
<1>2. Slot(head, 0) = head
  BY <1>1, SlotLemma DEF TypeOK
<1> QED  BY <1>1, <1>2 DEF RingInv, LiveSlotsInitialized, Init

(* push writes the slot behind the last live one.                           *)
LEMMA PushStep ==
  ASSUME RingInv, NEW item \in Items, Push(item), ~Full
  PROVE  /\ RingInv'
         /\ \A i \in 0..(len - 1) : data'[Slot(head', i)] = data[Slot(head, i)]
         /\ data'[Slot(head', len)] = item
         /\ len < Cap
<1> USE RingQueueAssumption
<1>1. /\ data' = [data EXCEPT ![tail] = item]
      /\ tail' = Following(tail) /\ len' = len + 1 /\ head' = head
      /\ result' = [op |-> "push", out |-> {}]
  BY DEF Push
<1>2. TypeOK /\ head \in 0..(Cap - 1) /\ len \in 0..(Cap - 1) /\ tail = Slot(head, len)
  BY DEF RingInv, TypeOK, LiveSlotsInitialized, Full
<1>3. tail' = Slot(head', len') /\ tail' \in 0..(Cap - 1)
  <2>1. len + 1 \in 0..Cap
    BY <1>2
  <2>2. Following(Slot(head, len)) = Slot(head, len + 1) /\ Slot(head, len + 1) \in 0..(Cap - 1)
    BY <1>2, <2>1, SlotLemma
  <2> QED  BY <1>1, <1>2, <2>2
<1>4. TypeOK'
  BY <1>1, <1>2, <1>3 DEF TypeOK
<1>5. \A i \in 0..(len - 1) : Slot(head, i) \in 0..(Cap - 1) /\ Slot(head, i) # tail
  <2>1. \A i \in 0..(len - 1) : i \in 0..(Cap - 1) /\ i \in 0..Cap /\ i # len
    BY <1>2
  <2>2. \A i \in 0..Cap : Slot(head, i) \in 0..(Cap - 1)
    BY <1>2, SlotLemma
  <2>3. \A i, j \in 0..(Cap - 1) : Slot(head, i) = Slot(head, j) => i = j
    BY <1>2, SlotLemma
  <2> QED  BY <1>2, <2>1, <2>2, <2>3
<1>6. \A i \in 0..(len - 1) : data'[Slot(head', i)] = data[Slot(head, i)]
  BY <1>1, <1>2, <1>5 DEF TypeOK
<1>7. data'[Slot(head', len)] = item
  BY <1>1, <1>2 DEF TypeOK
<1>8. \A i \in 0..(len - 1) : data[Slot(head, i)] \in Items
  BY DEF RingInv, LiveSlotsInitialized
<1>9. \A i \in 0..(len' - 1) : i \in 0..(len - 1) \/ i = len
  BY <1>1, <1>2
<1>10. LiveSlotsInitialized'
  BY <1>3, <1>6, <1>7, <1>8, <1>9 DEF LiveSlotsInitialized
<1> QED  BY <1>2, <1>4, <1>6, <1>7, <1>10 DEF RingInv

(* pop hands out the first live slot, which holds an item.                  *)
LEMMA PopStep ==
  ASSUME RingInv, Pop, ~Empty
  PROVE  /\ RingInv'
         /\ \A i \in 0..(len - 2) : data'[Slot(head', i)] = data[Slot(head, i + 1)]
         /\ result'.out = {data[Slot(head, 0)]}
         /\ len > 0
<1> USE RingQueueAssumption
<1>1. /\ result' = [op |-> "pop", out |-> {data[head]}]
      /\ head' = Following(head) /\ len' = len - 1
      /\ UNCHANGED <<data, tail>>
  BY DEF Pop
<1>2. TypeOK /\ head \in 0..(Cap - 1) /\ len \in 1..Cap /\ tail = Slot(head, len)
  BY DEF RingInv, TypeOK, LiveSlotsInitialized, Empty
<1>3. Slot(head, 0) = head /\ head' = Slot(head, 1) /\ head' \in 0..(Cap - 1)
  BY <1>1, <1>2, SlotLemma
<1>4. \A i \in 0..(len - 1) : data[Slot(head, i)] \in Items
  BY DEF RingInv, LiveSlotsInitialized
<1>5. data[head] \in Items
  BY <1>2, <1>3, <1>4
<1>6. TypeOK'
  BY <1>1, <1>2, <1>3, <1>5 DEF TypeOK
<1>7. \A i \in 0..(Cap - 1) : Slot(head', i) = Slot(head, i + 1)
  BY <1>2, <1>3, SlotLemma
<1>8. \A i \in 0..(len - 2) : data'[Slot(head', i)] = data[Slot(head, i + 1)]
  BY <1>1, <1>2, <1>7
<1>9. tail' = Slot(head', len')
  BY <1>1, <1>2, <1>7
<1>10. \A i \in 0..(len' - 1) : i \in 0..(len - 2) /\ i + 1 \in 0..(len - 1)
  BY <1>1, <1>2
<1>11. LiveSlotsInitialized'
  BY <1>4, <1>8, <1>9, <1>10 DEF LiveSlotsInitialized
<1> QED  BY <1>1, <1>2, <1>3, <1>6, <1>8, <1>11 DEF RingInv

(* The invariant is inductive.                                              *)
LEMMA RingNext ==
  ASSUME RingInv, [Next]_vars
  PROVE  RingInv'
<1>1. ASSUME NEW item \in Items, Push(item), Full  PROVE RingInv'
  BY <1>1 DEF Push, RingInv, TypeOK, LiveSlotsInitialized
<1>2. ASSUME Pop, Empty  PROVE RingInv'
  BY <1>2 DEF Pop, RingInv, TypeOK, LiveSlotsInitialized
<1>3. CASE UNCHANGED vars
  BY <1>3 DEF vars, RingInv, TypeOK, LiveSlotsInitialized
<1> QED  BY <1>1, <1>2, <1>3, PushStep, PopStep DEF Next

(* Queue keeps its types and never reads an uninitialized slot, whatever    *)
(* the capacity and the type of the items.                                  *)
THEOREM RingInvariant == Spec => []RingInv
<1>1. RingInv /\ [Next]_vars => RingInv'
  BY RingNext
<1> QED  BY <1>1, RingInit, PTL DEF Spec

(* No pop applies assume_init_read to a slot that holds no item, and no     *)
(* push overwrites one that does.                                           *)
THEOREM NoUninitializedRead == Spec => []LiveSlotsInitialized
<1>1. RingInv => LiveSlotsInitialized
  BY DEF RingInv
<1> QED  BY <1>1, RingInvariant, PTL

-----------------------------------------------------------------------------
(* Refinement *)

(* What a ring of n items from slot h on holds is a sequence of items.      *)
LEMMA ContentsLemma ==
  ASSUME NEW d, NEW h, NEW n \in Nat, \A i \in 0..(n - 1) : d[Slot(h, i)] \in Items
  PROVE  LET s == [i \in 1..n |-> d[Slot(h, i - 1)]]
         IN  s \in Seq(Items) /\ Len(s) = n /\ \A i \in 1..n : s[i] = d[Slot(h, i - 1)]
<1> DEFINE s == [i \in 1..n |-> d[Slot(h, i - 1)]]
<1>1. \A i \in 1..n : d[Slot(h, i - 1)] \in Items
  <2> SUFFICES ASSUME NEW i \in 1..n PROVE d[Slot(h, i - 1)] \in Items
    OBVIOUS
  <2>1. i - 1 \in 0..(n - 1)
    OBVIOUS
  <2> QED  BY <2>1
<1>2. s \in [1..n -> Items]
  BY <1>1
<1>3. s \in Seq(Items) /\ Len(s) = n
  <2> HIDE DEF s
  <2> QED  BY <1>2
<1> QED  BY <1>3

(* push appends to what the queue holds.                                    *)
LEMMA PushAppends ==
  ASSUME RingInv, NEW item \in Items, Push(item), ~Full
  PROVE  Contents' = Append(Contents, item) /\ Len(Contents) < Cap
<1> USE RingQueueAssumption
<1>1. /\ len \in Nat /\ len' = len + 1 /\ len < Cap
      /\ \A i \in 0..(len - 1) : data[Slot(head, i)] \in Items
      /\ \A i \in 0..(len' - 1) : data'[Slot(head', i)] \in Items
      /\ \A i \in 0..(len - 1) : data'[Slot(head', i)] = data[Slot(head, i)]
      /\ data'[Slot(head', len)] = item
  BY PushStep DEF RingInv, TypeOK, LiveSlotsInitialized, Push
<1>2. /\ Contents \in Seq(Items) /\ Len(Contents) = len
      /\ \A i \in 1..len : Contents[i] = data[Slot(head, i - 1)]
  BY <1>1, ContentsLemma DEF Contents
<1>3. /\ Contents' \in Seq(Items) /\ Len(Contents') = len + 1
      /\ \A i \in 1..(len + 1) : Contents'[i] = data'[Slot(head', i - 1)]
  <2>1. len' \in Nat
    BY <1>1
  <2> QED  BY <1>1, <2>1, ContentsLemma DEF Contents
<1> DEFINE app == Append(Contents, item)
<1>4. /\ app \in Seq(Items) /\ Len(app) = len + 1
      /\ app[len + 1] = item
      /\ \A i \in 1..len : app[i] = Contents[i]
  BY <1>1, <1>2, AppendProperties
<1>5. ASSUME NEW i \in 1..(len + 1)  PROVE Contents'[i] = app[i]
  <2>1. CASE i = len + 1
    BY <1>1, <1>3, <1>4, <2>1
  <2>2. CASE i \in 1..len
    <3>1. i - 1 \in 0..(len - 1)
      BY <1>1, <2>2
    <3> QED  BY <1>1, <1>2, <1>3, <1>4, <2>2, <3>1
  <2>3. i = len + 1 \/ i \in 1..len
    BY <1>1
  <2> QED  BY <2>1, <2>2, <2>3
<1> HIDE DEF app
<1>6. Contents' = app
  BY <1>1, <1>3, <1>4, <1>5, SeqEqual
<1> QED  BY <1>1, <1>2, <1>6 DEF app

(* pop takes the oldest item off what the queue holds.                      *)
LEMMA PopTakesHead ==
  ASSUME RingInv, Pop, ~Empty
  PROVE  /\ Contents # <<>> /\ Contents' = Tail(Contents)
         /\ result' = [op |-> "pop", out |-> {Head(Contents)}]
<1> USE RingQueueAssumption
<1>1. /\ len \in Nat /\ len > 0 /\ len' = len - 1 /\ result' = [op |-> "pop", out |-> {data[head]}]
      /\ head \in 0..(Cap - 1)
      /\ \A i \in 0..(len - 1) : data[Slot(head, i)] \in Items
      /\ \A i \in 0..(len' - 1) : data'[Slot(head', i)] \in Items
      /\ \A i \in 0..(len - 2) : data'[Slot(head', i)] = data[Slot(head, i + 1)]
  BY PopStep DEF RingInv, TypeOK, LiveSlotsInitialized, Pop
<1>2. /\ Contents \in Seq(Items) /\ Len(Contents) = len
      /\ \A i \in 1..len : Contents[i] = data[Slot(head, i - 1)]
  BY <1>1, ContentsLemma DEF Contents
<1>3. /\ Contents' \in Seq(Items) /\ Len(Contents') = len - 1
      /\ \A i \in 1..(len - 1) : Contents'[i] = data'[Slot(head', i - 1)]
  <2>1. len' \in Nat
    BY <1>1
  <2> QED  BY <1>1, <2>1, ContentsLemma DEF Contents
<1>4. Contents # <<>>
  BY <1>1, <1>2
<1> DEFINE t == Tail(Contents)
<1>5. /\ t \in Seq(Items) /\ Len(t) = len - 1
      /\ \A i \in 1..(len - 1) : t[i] = Contents[i + 1]
      /\ Head(Contents) = Contents[1]
  BY <1>1, <1>2, <1>4, HeadTailProperties
<1>6. ASSUME NEW i \in 1..(len - 1)  PROVE Contents'[i] = t[i]
  <2>1. i - 1 \in 0..(len - 2) /\ i + 1 \in 1..len /\ (i - 1) + 1 = i /\ (i + 1) - 1 = i
    BY <1>1
  <2>2. Contents'[i] = data[Slot(head, i)]
    BY <1>1, <1>3, <2>1
  <2>3. Contents[i + 1] = data[Slot(head, i)]
    BY <1>2, <2>1
  <2> QED  BY <1>5, <2>2, <2>3
<1> HIDE DEF t
<1>7. Contents' = t
  BY <1>1, <1>3, <1>5, <1>6, SeqEqual
<1>8. Contents[1] = data[head]
  <2>1. Slot(head, 0) = head
    BY <1>1, SlotLemma
  <2>2. 1 \in 1..len /\ 1 - 1 = 0
    BY <1>1
  <2>3. Contents[1] = data[Slot(head, 1 - 1)]
    BY <1>2, <2>2
  <2> QED  BY <2>1, <2>2, <2>3
<1> QED  BY <1>1, <1>4, <1>5, <1>7, <1>8 DEF t

(* Every step of the ring buffer is a step of the abstract queue.           *)
LEMMA StepRefines ==
  ASSUME RingInv, [Next]_vars
  PROVE  [Abstract!Next]_<<Contents, result>>
<1>1. Len(Contents) = len /\ len \in 0..Cap
  <2>1. len \in Nat /\ \A i \in 0..(len - 1) : data[Slot(head, i)] \in Items
    BY DEF RingInv, TypeOK, LiveSlotsInitialized
  <2>2. Len(Contents) = len
    BY <2>1, ContentsLemma DEF Contents
  <2> QED  BY <2>2 DEF RingInv, TypeOK
<1>2. ASSUME NEW item \in Items, Push(item)  PROVE Abstract!Push(item)
  <2>1. CASE Full
    <3>1. Contents' = Contents /\ result' = [op |-> "push", out |-> {item}]
      BY <1>2, <2>1 DEF Push, Contents
    <3>2. ~(Len(Contents) < Cap)
      BY <1>1, <2>1, RingQueueAssumption DEF Full
    <3> QED  BY <3>1, <3>2 DEF Abstract!Push
  <2>2. CASE ~Full
    <3>1. Contents' = Append(Contents, item) /\ Len(Contents) < Cap
      BY <1>2, <2>2, PushAppends
    <3>2. result' = [op |-> "push", out |-> {}]
      BY <1>2, <2>2 DEF Push
    <3> QED  BY <3>1, <3>2 DEF Abstract!Push
  <2> QED  BY <2>1, <2>2
<1>3. ASSUME Pop  PROVE Abstract!Pop
  <2>1. CASE Empty
    <3>1. Contents' = Contents /\ result' = [op |-> "pop", out |-> {}]
      BY <1>3, <2>1 DEF Pop, Contents
    <3>2. Contents = <<>>
      BY <2>1 DEF Empty, Contents
    <3> QED  BY <3>1, <3>2 DEF Abstract!Pop
  <2>2. CASE ~Empty
    <3>1. /\ Contents # <<>> /\ Contents' = Tail(Contents)
          /\ result' = [op |-> "pop", out |-> {Head(Contents)}]
      BY <1>3, <2>2, PopTakesHead
    <3> QED  BY <3>1 DEF Abstract!Pop
  <2> QED  BY <2>1, <2>2
<1>4. CASE UNCHANGED vars
  BY <1>4 DEF vars, Contents
<1> QED  BY <1>2, <1>3, <1>4 DEF Next, Abstract!Next

(* The ring buffer implements the bounded first-in first-out queue.         *)
THEOREM RingQueueIsFifo == Spec => Fifo
<1>1. Init => Abstract!Init
  BY DEF Init, Abstract!Init, Contents
<1>2. RingInv /\ [Next]_vars => [Abstract!Next]_<<Contents, result>>
  BY StepRefines
<1> QED  BY <1>1, <1>2, RingInvariant, PTL DEF Spec, Fifo, Abstract!Spec
=============================================================================
