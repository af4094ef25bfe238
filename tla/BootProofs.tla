------------------------------ MODULE BootProofs ------------------------------
(***************************************************************************)
(* Proofs about PageMap and Boot for any number of CPUs, any page tables of *)
(* the bootloader that are a tree, and any frames left: map_page maps the   *)
(* page it is given and no other, nothing is used before it is set up, and  *)
(* booting is what Scheduler takes it for.                                  *)
(***************************************************************************)
EXTENDS Boot, SequenceTheorems, WellFoundedInduction, TLAPS

-----------------------------------------------------------------------------
(* Paths through the page tables *)

(* The pages v and w share the tables of the first k levels.                 *)
Agree(v, w, k) == \A i \in 1..(k - 1) : v[i] = w[i]

(* Memory holds a tree of tables, none of them among the frames in unused:   *)
(* the invariant on which MapsThatPageOnly rests.  A page's path is known    *)
(* to leave its table for good only if no table is found on two ways.        *)
WellFormed(mem) ==
  /\ DOMAIN mem = Frames
  /\ \A f \in Frames : DOMAIN mem[f] = Index
  /\ \A h \in Huge : mem[h[1]][h[2]] \in Nat

EntriesKnown(mem) ==
  \A v \in Pages :
    /\ <<CR3, v[1]>> \notin Huge
    /\ Path(mem, v)[2] \in Frames
    /\ <<Path(mem, v)[4], v[4]>> \notin Huge
    /\ \A k \in 1..3 :
         Path(mem, v)[k] \in Frames /\ <<Path(mem, v)[k], v[k]>> \notin Huge =>
           Path(mem, v)[k + 1] \in Frames \cup {NULL}

OneWay(mem) ==
  \A v, w \in Pages, j, k \in 1..4 :
    Path(mem, v)[j] = Path(mem, w)[k] /\ Path(mem, v)[j] \in Frames => j = k /\ Agree(v, w, k)

NotAmong(mem, unused) == \A v \in Pages, k \in 1..4 : Path(mem, v)[k] \notin unused

IsTree(mem, unused) ==
  WellFormed(mem) /\ EntriesKnown(mem) /\ OneWay(mem) /\ NotAmong(mem, unused)

(* The walk, one level at a time.                                            *)
LEMMA PathStep ==
  ASSUME NEW mem, NEW v
  PROVE  /\ Path(mem, v)[1] = CR3
         /\ \A k \in 1..4 : Path(mem, v)[k + 1] = Follow(mem, Path(mem, v)[k], v[k])
<1>1. Path(mem, v)[1] = CR3
  BY DEF Path
<1>2. Path(mem, v)[2] = Follow(mem, Path(mem, v)[1], v[1])
  BY DEF Path
<1>3. Path(mem, v)[3] = Follow(mem, Path(mem, v)[2], v[2])
  BY DEF Path
<1>4. Path(mem, v)[4] = Follow(mem, Path(mem, v)[3], v[3])
  BY DEF Path
<1>5. Path(mem, v)[5] = Follow(mem, Path(mem, v)[4], v[4])
  BY DEF Path
<1>6. ASSUME NEW k \in 1..4 PROVE Path(mem, v)[k + 1] = Follow(mem, Path(mem, v)[k], v[k])
  <2>1. k = 1 \/ k = 2 \/ k = 3 \/ k = 4
    OBVIOUS
  <2> QED  BY <1>2, <1>3, <1>4, <1>5, <2>1
<1> QED  BY <1>1, <1>6

LEMMA PageIndices ==
  ASSUME NEW v \in Pages, NEW k \in 1..4
  PROVE  v[k] \in Index
<1>1. v[1] = 0 /\ v[2] \in Index /\ v[3] \in Index /\ v[4] \in Index
  BY DEF Pages
<1>2. k = 1 \/ k = 2 \/ k = 3 \/ k = 4
  OBVIOUS
<1> QED  BY <1>1, <1>2, PageMapAssumption

LEMMA PagesEqual ==
  ASSUME NEW v \in Pages, NEW w \in Pages, Agree(v, w, 4), v[4] = w[4]
  PROVE  v = w
<1>1. v[1] = w[1] /\ v[2] = w[2] /\ v[3] = w[3]
  BY DEF Agree
<1>2. v = <<v[1], v[2], v[3], v[4]>> /\ w = <<w[1], w[2], w[3], w[4]>>
  BY DEF Pages
<1> QED  BY <1>1, <1>2

(* Pages that agree on k - 1 indices have the same k-th table.               *)
LEMMA SameTable ==
  ASSUME NEW mem, NEW v, NEW w, NEW k \in 1..4, Agree(v, w, k)
  PROVE  Path(mem, v)[k] = Path(mem, w)[k]
<1>1. Path(mem, v)[1] = Path(mem, w)[1]
  BY PathStep
<1>2. ASSUME NEW j \in 1..3, j < k, Path(mem, v)[j] = Path(mem, w)[j]
      PROVE  Path(mem, v)[j + 1] = Path(mem, w)[j + 1]
  <2>1. j \in 1..4 /\ v[j] = w[j]
    BY <1>2 DEF Agree
  <2> QED  BY <1>2, <2>1, PathStep
<1>3. 1 < k => Path(mem, v)[2] = Path(mem, w)[2]
  BY <1>1, <1>2
<1>4. 2 < k => Path(mem, v)[3] = Path(mem, w)[3]
  BY <1>2, <1>3
<1>5. 3 < k => Path(mem, v)[4] = Path(mem, w)[4]
  BY <1>2, <1>4
<1>6. k = 1 \/ k = 2 \/ k = 3 \/ k = 4
  OBVIOUS
<1> QED  BY <1>1, <1>3, <1>4, <1>5, <1>6

(* new is mem with an entry of w's k-th table written.                       *)
Written(mem, new, w, k, value) ==
  /\ w \in Pages /\ k \in 1..4
  /\ Path(mem, w)[k] \in Frames /\ <<Path(mem, w)[k], w[k]>> \notin Huge
  /\ new = [mem EXCEPT ![Path(mem, w)[k]][w[k]] = value]

(* An entry of w's k-th table is written: a path changes only where it is    *)
(* the same up to there.                                                     *)
LEMMA WrittenEntry ==
  ASSUME NEW mem, NEW unused, IsTree(mem, unused), NEW new, NEW w, NEW k, NEW value,
         Written(mem, new, w, k, value), NEW v \in Pages, NEW j \in 1..4, Path(new, v)[j] = Path(mem, v)[j]
  PROVE  Path(new, v)[j + 1] =
           IF j = k /\ Agree(v, w, k) /\ v[k] = w[k] THEN value ELSE Path(mem, v)[j + 1]
<1>1. w \in Pages /\ k \in 1..4 /\ new = [mem EXCEPT ![Path(mem, w)[k]][w[k]] = value]
  BY DEF Written
<1>2. PICK g \in Frames : g = Path(mem, w)[k] /\ <<g, w[k]>> \notin Huge
  BY DEF Written
<1>3. DOMAIN mem = Frames /\ DOMAIN mem[g] = Index /\ w[k] \in Index
  BY <1>1, PageIndices DEF IsTree, WellFormed
<1>4. DOMAIN new = Frames /\ new[g][w[k]] = value
  BY <1>1, <1>2, <1>3
<1>5. \A f \in Frames, x \in Index : (f # g \/ x # w[k]) => new[f][x] = mem[f][x]
  BY <1>1, <1>2, <1>3
<1>6. PICK f : f = Path(mem, v)[j]
  OBVIOUS
<1>7. Path(new, v)[j + 1] = Follow(new, f, v[j]) /\ Path(mem, v)[j + 1] = Follow(mem, f, v[j])
  BY <1>1, <1>6, PathStep
<1>8. v[j] \in Index
  BY <1>1, PageIndices
<1>9. CASE f = g /\ v[j] = w[k]
  <2>1. j = k /\ Agree(v, w, k)
    BY <1>1, <1>2, <1>6, <1>9 DEF IsTree, OneWay
  <2>2. Path(new, v)[j + 1] = value
    BY <1>1, <1>2, <1>4, <1>7, <1>9 DEF Follow
  <2> QED  BY <1>1, <1>9, <2>1, <2>2
<1>10. CASE ~(f = g /\ v[j] = w[k])
  <2>1. Follow(new, f, v[j]) = Follow(mem, f, v[j])
    <3>1. f \in Frames => new[f][v[j]] = mem[f][v[j]]
      BY <1>1, <1>5, <1>8, <1>10
    <3> QED  BY <1>1, <1>3, <1>4, <3>1 DEF Follow
  <2>2. ~(j = k /\ Agree(v, w, k) /\ v[k] = w[k])
    BY <1>1, <1>2, <1>6, <1>10, SameTable
  <2> QED  BY <1>1, <1>7, <2>1, <2>2
<1> QED  BY <1>1, <1>9, <1>10

(* The pages that come through the new table at level k + 1 below w.         *)
Below(v, w, k) == Agree(v, w, k) /\ v[k] = w[k]

LEMMA BelowAgree ==
  ASSUME NEW v, NEW w, NEW k \in 1..3
  PROVE  Below(v, w, k) <=> Agree(v, w, k + 1)
BY DEF Below, Agree

NewTableIn(mem, unused, new, w, k, f) ==
  /\ Written(mem, new, w, k, f) /\ k \in 2..3 /\ Path(mem, w)[k + 1] = NULL
  /\ f \in unused /\ f \in Spare /\ \A x \in Index : mem[f][x] = NULL

(* A blank frame becomes the table that an absent entry of w's k-th table    *)
(* points to: every page is translated as before.                            *)
LEMMA NewTablePaths ==
  ASSUME NEW mem, NEW unused, IsTree(mem, unused), NEW new, NEW w, NEW k, NEW f,
         NewTableIn(mem, unused, new, w, k, f),
         NEW v \in Pages, NEW j \in 1..5
  PROVE  Path(new, v)[j] =
           IF j = k + 1 /\ Below(v, w, k) THEN f ELSE Path(mem, v)[j]
<1>1. /\ k \in 2..3 /\ w \in Pages /\ Written(mem, new, w, k, f)
      /\ f \in unused /\ f \in Spare /\ Path(mem, w)[k + 1] = NULL
      /\ \A x \in Index : mem[f][x] = NULL
      /\ Path(mem, w)[k] \in Frames /\ <<Path(mem, w)[k], w[k]>> \notin Huge
      /\ new = [mem EXCEPT ![Path(mem, w)[k]][w[k]] = f]
  BY DEF NewTableIn, Written
<1> USE <1>1
<1> DEFINE P(i) == Path(new, v)[i] = IF i = k + 1 /\ Below(v, w, k) THEN f ELSE Path(mem, v)[i]
<1>2. P(1)
  BY PathStep
<1>3. ASSUME NEW i \in 1..4, P(i), ~(i = k + 1 /\ Below(v, w, k)) PROVE P(i + 1)
  <2>1. Path(new, v)[i] = Path(mem, v)[i]
    BY <1>3
  <2>2. Path(new, v)[i + 1] = IF i = k /\ Agree(v, w, k) /\ v[k] = w[k] THEN f ELSE Path(mem, v)[i + 1]
    BY <1>1, <2>1, WrittenEntry
  <2> QED  BY <2>2 DEF Below
<1>4. ASSUME NEW i \in 1..4, P(i), i = k + 1, Below(v, w, k) PROVE P(i + 1)
  <2>1. Path(new, v)[i] = f
    BY <1>4
  <2>2. Path(mem, v)[i] = NULL
    <3>1. Agree(v, w, k + 1) /\ k + 1 \in 1..4
      BY <1>4, BelowAgree
    <3> QED  BY <1>4, <3>1, SameTable
  <2>3. NULL \notin Frames /\ f \in Frames /\ f \notin DOMAIN Tables
    BY PageMapAssumption, BootAssumption DEF Frames
  <2>4. DOMAIN mem = Frames /\ DOMAIN new = Frames
    BY DEF IsTree, WellFormed
  <2>5. Path(mem, w)[k] # f
    BY DEF IsTree, NotAmong
  <2>6. v[i] \in Index /\ new[f][v[i]] = mem[f][v[i]]
    BY <2>3, <2>4, <2>5, PageIndices
  <2>7. <<f, v[i]>> \notin Huge
    BY <2>3, PageMapAssumption
  <2>8. Path(new, v)[i + 1] = NULL
    <3>1. Path(new, v)[i + 1] = Follow(new, f, v[i])
      BY <2>1, PathStep
    <3> QED  BY <2>3, <2>4, <2>6, <2>7, <3>1 DEF Follow
  <2>9. Path(mem, v)[i + 1] = NULL
    <3>1. Path(mem, v)[i + 1] = Follow(mem, NULL, v[i])
      BY <2>2, PathStep
    <3> QED  BY <2>3, <2>4, <3>1 DEF Follow
  <2> QED  BY <1>4, <2>8, <2>9
<1>5. ASSUME NEW i \in 1..4, P(i) PROVE P(i + 1)
  BY <1>3, <1>4, <1>5
<1> HIDE DEF P
<1>6. P(1 + 1) /\ P(2 + 1) /\ P(3 + 1) /\ P(4 + 1)
  <2>1. P(2)
    BY <1>2, <1>5
  <2>2. P(3)
    BY <2>1, <1>5
  <2>3. P(4)
    BY <2>2, <1>5
  <2>4. P(5)
    BY <2>3, <1>5
  <2> QED  BY <2>1, <2>2, <2>3, <2>4
<1>7. P(j)
  <2>1. j = 1 \/ j = 1 + 1 \/ j = 2 + 1 \/ j = 3 + 1 \/ j = 4 + 1
    OBVIOUS
  <2> QED  BY <1>2, <1>6, <2>1
<1> QED  BY <1>7 DEF P

LEMMA NewTable ==
  ASSUME NEW mem, NEW unused, IsTree(mem, unused), NEW new, NEW w, NEW k, NEW f,
         NewTableIn(mem, unused, new, w, k, f)
  PROVE  /\ IsTree(new, unused \ {f})
         /\ \A v \in Pages : Path(new, v)[5] = Path(mem, v)[5]
         /\ Path(new, w)[k + 1] = f
<1>0. /\ k \in 2..3 /\ w \in Pages /\ Written(mem, new, w, k, f)
      /\ f \in unused /\ f \in Spare /\ Path(mem, w)[k + 1] = NULL
      /\ \A x \in Index : mem[f][x] = NULL
      /\ Path(mem, w)[k] \in Frames /\ <<Path(mem, w)[k], w[k]>> \notin Huge
      /\ new = [mem EXCEPT ![Path(mem, w)[k]][w[k]] = f]
  BY DEF NewTableIn, Written
<1> USE <1>0
<1> DEFINE IsNew(v, j) == j = k + 1 /\ Below(v, w, k)
<1>1. \A v \in Pages, j \in 1..5 : Path(new, v)[j] = IF IsNew(v, j) THEN f ELSE Path(mem, v)[j]
  <2> SUFFICES ASSUME NEW v \in Pages, NEW j \in 1..5
               PROVE  Path(new, v)[j] = IF IsNew(v, j) THEN f ELSE Path(mem, v)[j]
    OBVIOUS
  <2> QED  BY NewTablePaths
<1>2. NULL \notin Frames /\ f \in Frames /\ f \notin DOMAIN Tables /\ NULL \notin Nat
  BY PageMapAssumption, BootAssumption DEF Frames
<1>3. \A v \in Pages, j \in 1..4 : IsNew(v, j) => Path(mem, v)[j] = NULL
  <2> SUFFICES ASSUME NEW v \in Pages, NEW j \in 1..4, IsNew(v, j) PROVE Path(mem, v)[j] = NULL
    OBVIOUS
  <2>1. Agree(v, w, k + 1) /\ k + 1 \in 1..4
    BY BelowAgree
  <2> QED  BY <2>1, SameTable
<1> HIDE DEF IsNew
<1>4. WellFormed(new)
  <2>1. w[k] \in Index /\ DOMAIN mem = Frames /\ \A g \in Frames : DOMAIN mem[g] = Index
    BY PageIndices DEF IsTree, WellFormed
  <2>2. ASSUME NEW h \in Huge PROVE new[h[1]][h[2]] \in Nat
    <3>1. h[1] \in Frames /\ h[2] \in Index /\ h = <<h[1], h[2]>>
      BY PageMapAssumption DEF Frames
    <3>2. new[h[1]][h[2]] = mem[h[1]][h[2]]
      BY <2>1, <3>1
    <3> QED  BY <3>2 DEF IsTree, WellFormed
  <2>3. DOMAIN new = Frames /\ \A g \in Frames : DOMAIN new[g] = Index
    BY <2>1
  <2> QED  BY <2>2, <2>3 DEF WellFormed
<1>5. EntriesKnown(new)
  <2> SUFFICES ASSUME NEW v \in Pages
               PROVE  /\ <<CR3, v[1]>> \notin Huge
                      /\ Path(new, v)[2] \in Frames
                      /\ <<Path(new, v)[4], v[4]>> \notin Huge
                      /\ \A i \in 1..3 :
                           Path(new, v)[i] \in Frames /\ <<Path(new, v)[i], v[i]>> \notin Huge =>
                             Path(new, v)[i + 1] \in Frames \cup {NULL}
    BY DEF EntriesKnown
  <2>1. <<CR3, v[1]>> \notin Huge
    BY DEF IsTree, EntriesKnown
  <2>2. <<Path(new, v)[4], v[4]>> \notin Huge
    <3>1. <<Path(mem, v)[4], v[4]>> \notin Huge /\ <<f, v[4]>> \notin Huge
      BY <1>2, PageMapAssumption DEF IsTree, EntriesKnown
    <3>2. Path(new, v)[4] = f \/ Path(new, v)[4] = Path(mem, v)[4]
      <4>1. 4 \in 1..5
        OBVIOUS
      <4> QED  BY <1>1, <4>1
    <3> QED  BY <3>1, <3>2
  <2>3. ASSUME NEW i \in 1..3, Path(new, v)[i] \in Frames, <<Path(new, v)[i], v[i]>> \notin Huge
        PROVE  Path(new, v)[i + 1] \in Frames \cup {NULL}
    <3>1. i \in 1..5 /\ i + 1 \in 1..5 /\ i \in 1..4
      OBVIOUS
    <3>2. CASE IsNew(v, i + 1)
      BY <1>1, <1>2, <3>1, <3>2
    <3>3. CASE ~IsNew(v, i + 1) /\ IsNew(v, i)
      <4>1. Path(mem, v)[i] = NULL
        BY <1>3, <3>1, <3>3
      <4>2. Path(mem, v)[i + 1] = NULL
        <5>1. Path(mem, v)[i + 1] = Follow(mem, NULL, v[i])
          BY <3>1, <4>1, PathStep
        <5> QED  BY <1>2, <5>1 DEF IsTree, WellFormed, Follow
      <4> QED  BY <1>1, <3>1, <3>3, <4>2
    <3>4. CASE ~IsNew(v, i + 1) /\ ~IsNew(v, i)
      <4>1. Path(new, v)[i] = Path(mem, v)[i] /\ Path(new, v)[i + 1] = Path(mem, v)[i + 1]
        BY <1>1, <3>1, <3>4
      <4> QED  BY <2>3, <4>1 DEF IsTree, EntriesKnown
    <3> QED  BY <3>2, <3>3, <3>4
  <2>4. Path(new, v)[2] \in Frames
    <3>1. 2 \in 1..5 /\ ~IsNew(v, 2)
      BY DEF IsNew
    <3>2. Path(mem, v)[2] \in Frames
      BY DEF IsTree, EntriesKnown
    <3> QED  BY <1>1, <3>1, <3>2
  <2> QED  BY <2>1, <2>2, <2>3, <2>4
<1>6. OneWay(new)
  <2> SUFFICES ASSUME NEW v \in Pages, NEW u \in Pages, NEW j \in 1..4, NEW i \in 1..4,
                      Path(new, v)[j] = Path(new, u)[i], Path(new, v)[j] \in Frames
               PROVE  j = i /\ Agree(v, u, i)
    BY DEF OneWay
  <2>1. j \in 1..5 /\ i \in 1..5
    OBVIOUS
  <2>2. Path(mem, v)[j] # f /\ Path(mem, u)[i] # f
    BY DEF IsTree, NotAmong
  <2>3. CASE IsNew(v, j)
    <3>1. IsNew(u, i)
      BY <1>1, <2>1, <2>2, <2>3
    <3>2. j = k + 1 /\ i = k + 1 /\ Agree(v, w, k + 1) /\ Agree(u, w, k + 1)
      BY <2>3, <3>1, BelowAgree DEF IsNew
    <3> QED  BY <3>2 DEF Agree
  <2>4. CASE ~IsNew(v, j)
    <3>1. ~IsNew(u, i)
      BY <1>1, <2>1, <2>2, <2>4
    <3>2. Path(mem, v)[j] = Path(mem, u)[i] /\ Path(mem, v)[j] \in Frames
      BY <1>1, <2>1, <2>4, <3>1
    <3> QED  BY <3>2 DEF IsTree, OneWay
  <2> QED  BY <2>3, <2>4
<1>7. NotAmong(new, unused \ {f})
  <2> SUFFICES ASSUME NEW v \in Pages, NEW j \in 1..4 PROVE Path(new, v)[j] \notin unused \ {f}
    BY DEF NotAmong
  <2>1. Path(mem, v)[j] \notin unused
    BY DEF IsTree, NotAmong
  <2>2. j \in 1..5
    OBVIOUS
  <2> QED  BY <1>1, <2>1, <2>2
<1>8. ASSUME NEW v \in Pages PROVE Path(new, v)[5] = Path(mem, v)[5]
  <2>1. 5 \in 1..5 /\ ~IsNew(v, 5)
    BY DEF IsNew
  <2> QED  BY <1>1, <2>1
<1>9. Path(new, w)[k + 1] = f
  <2>1. k + 1 \in 1..5 /\ IsNew(w, k + 1)
    BY DEF IsNew, Below, Agree
  <2> QED  BY <1>1, <2>1
<1> QED  BY <1>4, <1>5, <1>6, <1>7, <1>8, <1>9 DEF IsTree

(* The entry of w's pt is written: w's translation changes and no other.     *)
LEMMA LastEntry ==
  ASSUME NEW mem, NEW unused, IsTree(mem, unused), NEW new, NEW w, NEW value,
         Written(mem, new, w, 4, value)
  PROVE  /\ IsTree(new, unused)
         /\ \A v \in Pages : Path(new, v)[5] = IF v = w THEN value ELSE Path(mem, v)[5]
<1>1. /\ w \in Pages /\ Path(mem, w)[4] \in Frames /\ <<Path(mem, w)[4], w[4]>> \notin Huge
      /\ new = [mem EXCEPT ![Path(mem, w)[4]][w[4]] = value]
  BY DEF Written
<1>2. \A v \in Pages, j \in 1..4 : Path(new, v)[j] = Path(mem, v)[j]
  <2> SUFFICES ASSUME NEW v \in Pages, NEW j \in 1..4 PROVE Path(new, v)[j] = Path(mem, v)[j]
    OBVIOUS
  <2>1. Path(new, v)[1] = Path(mem, v)[1]
    BY PathStep
  <2>2. ASSUME NEW i \in 1..3, Path(new, v)[i] = Path(mem, v)[i]
        PROVE  Path(new, v)[i + 1] = Path(mem, v)[i + 1]
    <3>1. i \in 1..4 /\ i # 4
      OBVIOUS
    <3>2. Path(new, v)[i + 1] =
            IF i = 4 /\ Agree(v, w, 4) /\ v[4] = w[4] THEN value ELSE Path(mem, v)[i + 1]
      BY <2>2, <3>1, WrittenEntry
    <3> QED  BY <3>1, <3>2
  <2>3. Path(new, v)[2] = Path(mem, v)[2]
    BY <2>1, <2>2
  <2>4. Path(new, v)[3] = Path(mem, v)[3]
    BY <2>3, <2>2
  <2>5. Path(new, v)[4] = Path(mem, v)[4]
    BY <2>4, <2>2
  <2>6. j = 1 \/ j = 2 \/ j = 3 \/ j = 4
    OBVIOUS
  <2> QED  BY <2>1, <2>3, <2>4, <2>5, <2>6
<1>3. ASSUME NEW v \in Pages PROVE Path(new, v)[5] = IF v = w THEN value ELSE Path(mem, v)[5]
  <2>1. Path(new, v)[4 + 1] = IF 4 = 4 /\ Agree(v, w, 4) /\ v[4] = w[4] THEN value ELSE Path(mem, v)[4 + 1]
    <3>1. Path(new, v)[4] = Path(mem, v)[4]
      BY <1>2
    <3> QED  BY <3>1, WrittenEntry
  <2>2. Agree(v, w, 4) /\ v[4] = w[4] <=> v = w
    BY <1>1, PagesEqual DEF Agree
  <2> QED  BY <2>1, <2>2
<1>4. WellFormed(new)
  <2>1. w[4] \in Index /\ DOMAIN mem = Frames /\ \A g \in Frames : DOMAIN mem[g] = Index
    BY <1>1, PageIndices DEF IsTree, WellFormed
  <2>2. ASSUME NEW h \in Huge PROVE new[h[1]][h[2]] \in Nat
    <3>1. h[1] \in Frames /\ h[2] \in Index /\ h = <<h[1], h[2]>>
      BY PageMapAssumption DEF Frames
    <3>2. new[h[1]][h[2]] = mem[h[1]][h[2]]
      BY <1>1, <2>1, <3>1
    <3> QED  BY <3>2 DEF IsTree, WellFormed
  <2>3. DOMAIN new = Frames /\ \A g \in Frames : DOMAIN new[g] = Index
    BY <1>1, <2>1
  <2> QED  BY <2>2, <2>3 DEF WellFormed
<1>5. EntriesKnown(new)
  <2> SUFFICES ASSUME NEW v \in Pages
               PROVE  /\ <<CR3, v[1]>> \notin Huge
                      /\ Path(new, v)[2] \in Frames
                      /\ <<Path(new, v)[4], v[4]>> \notin Huge
                      /\ \A i \in 1..3 :
                           Path(new, v)[i] \in Frames /\ <<Path(new, v)[i], v[i]>> \notin Huge =>
                             Path(new, v)[i + 1] \in Frames \cup {NULL}
    BY DEF EntriesKnown
  <2>1. \A i \in 1..3 : Path(new, v)[i] = Path(mem, v)[i] /\ Path(new, v)[i + 1] = Path(mem, v)[i + 1]
    BY <1>2
  <2>2. Path(new, v)[4] = Path(mem, v)[4] /\ Path(new, v)[2] = Path(mem, v)[2]
    BY <1>2
  <2> QED  BY <2>1, <2>2 DEF IsTree, EntriesKnown
<1>6. OneWay(new)
  BY <1>2 DEF IsTree, OneWay
<1>7. NotAmong(new, unused)
  BY <1>2 DEF IsTree, NotAmong
<1> QED  BY <1>3, <1>4, <1>5, <1>6, <1>7 DEF IsTree

-----------------------------------------------------------------------------
(* map_page *)

(* The smallest free frame is a free frame.                                  *)
LEMMA MinFree ==
  ASSUME NEW S, S \subseteq Nat, S # {}
  PROVE  Min(S) \in S
<1>1. PICK x \in S : \A y \in S : ~(<<y, x>> \in OpToRel(<, Nat))
  BY NatLessThanWellFounded, WFMin
<1>2. ASSUME NEW y \in S PROVE x <= y
  <2>1. x \in Nat /\ y \in Nat
    BY <1>1
  <2>2. ~(y < x)
    BY <1>1, <2>1 DEF OpToRel
  <2> QED  BY <2>1, <2>2
<1> QED  BY <1>2 DEF Min

(* The frames that are free hold no table, and those of them that are not    *)
(* dirty are blank.                                                          *)
FreeInv ==
  /\ free \subseteq Spare
  /\ \A f \in free \ dirty, x \in Index : memory[f][x] = NULL

(* What holds as long as map_page met nothing but tables and blank frames.   *)
TablesInv ==
  /\ IsTree(memory, free)
  /\ FreeInv
  /\ DOMAIN mapped = Pages
  /\ \A v \in Pages : v # virt => Path(memory, v)[5] = mapped[v]

(* The call under way has come to the table of its page at its level.        *)
InCall ==
  /\ virt \in Pages /\ level \in 2..4
  /\ table = Path(memory, virt)[level] /\ table \in Frames

(* At the start a page's tables are those the bootloader left.               *)
LEMMA InitialPaths ==
  ASSUME PageInit, NEW v \in Pages, NEW k \in 1..4
  PROVE  Path(memory, v)[k] = Path(Tables, v)[k] /\ Path(Tables, v)[k] \notin Spare
<1>m. DOMAIN memory = Frames /\ \A f \in DOMAIN Tables : memory[f] = Tables[f]
  <2>1. PICK old : memory = [f \in Frames |-> IF f \in DOMAIN Tables THEN Tables[f]
                                 ELSE [x \in Index |-> IF f \in dirty THEN old ELSE NULL]]
    BY DEF PageInit
  <2> QED  BY <2>1 DEF Frames
<1>n. NULL \notin Frames /\ NULL \notin DOMAIN Tables
  BY PageMapAssumption, BootAssumption DEF Frames
<1> DEFINE P(i) == Path(memory, v)[i] = Path(Tables, v)[i] /\ Path(Tables, v)[i] \notin Spare
<1>1. P(1)
  BY PathStep, PageMapAssumption
<1>2. ASSUME NEW i \in 1..3, P(i) PROVE P(i + 1)
  <2>1. PICK f : f = Path(Tables, v)[i]
    OBVIOUS
  <2>2. i \in 1..4 /\ v[i] \in Index
    BY PageIndices
  <2>3. Path(memory, v)[i + 1] = Follow(memory, f, v[i]) /\ Path(Tables, v)[i + 1] = Follow(Tables, f, v[i])
    BY <1>2, <2>1, <2>2, PathStep
  <2>4. Path(memory, v)[i + 1] = Path(Tables, v)[i + 1]
    BY <1>m, <1>2, <2>1, <2>3 DEF Follow, Frames
  <2>5. CASE f \notin DOMAIN Tables
    BY <1>2, <2>1, <2>3, <2>4, <2>5 DEF Follow
  <2>6. CASE f \in DOMAIN Tables /\ <<f, v[i]>> \in Huge
    <3>1. Tables[f][v[i]] \in Nat
      BY <2>6, PageMapAssumption
    <3>2. -Tables[f][v[i]] \notin Spare
      BY <3>1, PageMapAssumption DEF Frames
    <3> QED  BY <2>3, <2>4, <2>6, <3>2 DEF Follow
  <2>7. CASE f \in DOMAIN Tables /\ <<f, v[i]>> \notin Huge
    <3>1. Path(Tables, v)[i + 1] \in DOMAIN Tables \cup {NULL}
      BY <2>1, <2>7, TreeAssumption
    <3> QED  BY <1>n, <2>4, <3>1, PageMapAssumption DEF Frames
  <2> QED  BY <2>5, <2>6, <2>7
<1> HIDE DEF P
<1>3. P(2)
  BY <1>1, <1>2
<1>4. P(3)
  BY <1>3, <1>2
<1>5. P(4)
  BY <1>4, <1>2
<1>6. k = 1 \/ k = 2 \/ k = 3 \/ k = 4
  OBVIOUS
<1> QED  BY <1>1, <1>3, <1>4, <1>5, <1>6 DEF P

LEMMA InitialWalk ==
  ASSUME PageInit, NEW v \in Pages
  PROVE  Path(memory, v)[5] = Path(Tables, v)[5]
<1>1. PICK f : f = Path(Tables, v)[4]
  OBVIOUS
<1>2. Path(memory, v)[4] = f /\ f \notin Spare
  BY <1>1, InitialPaths
<1>3. Path(memory, v)[4 + 1] = Follow(memory, f, v[4]) /\ Path(Tables, v)[4 + 1] = Follow(Tables, f, v[4])
  BY <1>1, <1>2, PathStep
<1>4. PICK old : memory = [g \in Frames |-> IF g \in DOMAIN Tables THEN Tables[g]
                               ELSE [x \in Index |-> IF g \in dirty THEN old ELSE NULL]]
  BY DEF PageInit
<1>5. Follow(memory, f, v[4]) = Follow(Tables, f, v[4])
  BY <1>2, <1>4 DEF Follow, Frames
<1> QED  BY <1>3, <1>5

LEMMA TreeInit ==
  ASSUME PageInit
  PROVE  TablesInv
<1>1. free \subseteq Spare
  BY PageMapAssumption DEF PageInit
<1>2. PICK old : memory = [f \in Frames |-> IF f \in DOMAIN Tables THEN Tables[f]
                               ELSE [x \in Index |-> IF f \in dirty THEN old ELSE NULL]]
  BY DEF PageInit
<1>3. FreeInv
  BY <1>1, <1>2, PageMapAssumption DEF FreeInv, Frames
<1>4. DOMAIN memory = Frames /\ \A f \in DOMAIN Tables : memory[f] = Tables[f]
  BY <1>2 DEF Frames
<1>5. NULL \notin Frames /\ NULL \notin DOMAIN Tables
  BY PageMapAssumption, BootAssumption DEF Frames
<1>6. WellFormed(memory)
  <2>1. \A f \in Frames : DOMAIN memory[f] = Index
    BY <1>2, PageMapAssumption
  <2>2. \A h \in Huge : memory[h[1]][h[2]] \in Nat
    BY <1>4, PageMapAssumption
  <2> QED  BY <1>4, <2>1, <2>2 DEF WellFormed
<1>7. \A v \in Pages, k \in 1..4 :
        /\ Path(memory, v)[k] = Path(Tables, v)[k]
        /\ Path(Tables, v)[k] \notin Spare
  BY InitialPaths
<1>8. EntriesKnown(memory)
  <2> SUFFICES ASSUME NEW v \in Pages
               PROVE  /\ <<CR3, v[1]>> \notin Huge
                      /\ Path(memory, v)[2] \in Frames
                      /\ <<Path(memory, v)[4], v[4]>> \notin Huge
                      /\ \A i \in 1..3 :
                           Path(memory, v)[i] \in Frames /\ <<Path(memory, v)[i], v[i]>> \notin Huge =>
                             Path(memory, v)[i + 1] \in Frames \cup {NULL}
    BY DEF EntriesKnown
  <2>1. <<CR3, v[1]>> \notin Huge /\ <<Path(Tables, v)[4], v[4]>> \notin Huge
    BY TreeAssumption
  <2>2. Path(memory, v)[4] = Path(Tables, v)[4]
    BY <1>7
  <2>3. ASSUME NEW i \in 1..3, Path(memory, v)[i] \in Frames, <<Path(memory, v)[i], v[i]>> \notin Huge
        PROVE  Path(memory, v)[i + 1] \in Frames \cup {NULL}
    <3>1. i \in 1..4 /\ i + 1 \in 1..4
      OBVIOUS
    <3>2. /\ Path(memory, v)[i] = Path(Tables, v)[i] /\ Path(memory, v)[i] \notin Spare
          /\ Path(memory, v)[i + 1] = Path(Tables, v)[i + 1]
      BY <1>7, <3>1
    <3>3. Path(Tables, v)[i] \in DOMAIN Tables /\ <<Path(Tables, v)[i], v[i]>> \notin Huge
      BY <2>3, <3>2 DEF Frames
    <3>4. Path(Tables, v)[i + 1] \in DOMAIN Tables \cup {NULL}
      BY <3>3, TreeAssumption
    <3> QED  BY <3>2, <3>4 DEF Frames
  <2>4. Path(memory, v)[2] \in Frames
    <3>1. v[1] = 0
      BY DEF Pages
    <3>2. Path(Tables, v)[1 + 1] = Follow(Tables, CR3, 0)
      BY <3>1, PathStep
    <3>3. Path(Tables, v)[2] = Tables[CR3][0]
      BY <2>1, <3>1, <3>2, PageMapAssumption DEF Follow
    <3>4. Path(memory, v)[2] = Path(Tables, v)[2]
      BY <1>7
    <3> QED  BY <3>3, <3>4, TreeAssumption DEF Frames
  <2> QED  BY <2>1, <2>2, <2>3, <2>4
<1>9. OneWay(memory)
  <2> SUFFICES ASSUME NEW v \in Pages, NEW w \in Pages, NEW j \in 1..4, NEW k \in 1..4,
                      Path(memory, v)[j] = Path(memory, w)[k], Path(memory, v)[j] \in Frames
               PROVE  j = k /\ Agree(v, w, k)
    BY DEF OneWay
  <2>1. Path(Tables, v)[j] = Path(Tables, w)[k] /\ Path(Tables, v)[j] \in DOMAIN Tables
    BY <1>7 DEF Frames
  <2> QED  BY <2>1, TreeAssumption DEF Agree
<1>10. NotAmong(memory, free)
  BY <1>1, <1>7 DEF NotAmong
<1>11. DOMAIN mapped = Pages /\ \A v \in Pages : Path(memory, v)[5] = mapped[v]
  BY DEF PageInit, Walk
<1> QED  BY <1>3, <1>6, <1>8, <1>9, <1>10, <1>11 DEF TablesInv, IsTree

(* The pdpt and the pd: followed or made, the call goes one level down.      *)
LEMMA DescendStep ==
  ASSUME TablesInv, InCall, level # 4, Entry = NULL => free # {}, Descend, clean'
  PROVE  TablesInv' /\ InCall' /\ virt' = virt /\ level' = level + 1
<1>1. level \in 2..3 /\ virt \in Pages /\ table = Path(memory, virt)[level] /\ table \in Frames
  BY DEF InCall
<1>2. virt' = virt /\ level' = level + 1 /\ dirty' = dirty /\ mapped' = mapped
  BY DEF Descend
<1>3. IsTree(memory, free) /\ FreeInv /\ DOMAIN memory = Frames
  BY DEF TablesInv, IsTree, WellFormed
<1>4. level \in 1..4 /\ level + 1 \in 2..4
  BY <1>1
<1>5. Path(memory, virt)[level + 1] = Follow(memory, table, virt[level])
  BY <1>1, <1>4, PathStep
<1>6. CASE Entry # NULL
  <2>1. table' = Entry /\ <<table, virt[level]>> \notin Huge /\ memory' = memory /\ free' = free
    BY <1>6 DEF Descend, TableIndex
  <2>2. Path(memory, virt)[level + 1] = Entry
    BY <1>1, <1>3, <1>5, <2>1 DEF Follow, Entry, TableIndex
  <2>3. level \in 1..3
    BY <1>1
  <2>4. Path(memory, virt)[level + 1] \in Frames \cup {NULL}
    BY <1>1, <1>3, <2>1, <2>3 DEF IsTree, EntriesKnown
  <2>5. InCall'
    BY <1>1, <1>2, <1>4, <1>6, <2>1, <2>2, <2>4 DEF InCall
  <2>6. TablesInv'
    BY <1>2, <2>1 DEF TablesInv, FreeInv
  <2> QED  BY <1>2, <2>5, <2>6
<1>7. CASE Entry = NULL
  <2>1. PICK f : f = Min(free)
    OBVIOUS
  <2>2. /\ table' = f /\ f \notin dirty /\ free' = free \ {f}
        /\ memory' = [memory EXCEPT ![table][virt[level]] = f]
    BY <1>7, <2>1 DEF Descend, AllocFrame, TableIndex
  <2>3. f \in free /\ f \in Spare
    <3>1. free \subseteq Spare /\ free \subseteq Nat /\ free # {}
      BY <1>3, <1>7, PageMapAssumption DEF FreeInv, Frames
    <3> QED  BY <2>1, <3>1, MinFree
  <2>4. NULL \notin Nat /\ memory[table][virt[level]] = NULL
    BY <1>7, BootAssumption DEF Entry, TableIndex
  <2>5. <<table, virt[level]>> \notin Huge
    BY <1>3, <2>4 DEF IsTree, WellFormed
  <2>6. Path(memory, virt)[level + 1] = NULL
    BY <1>1, <1>3, <1>5, <2>4, <2>5 DEF Follow
  <2>7. Written(memory, memory', virt, level, f)
    BY <1>1, <1>4, <2>2, <2>5 DEF Written
  <2>8. NewTableIn(memory, free, memory', virt, level, f)
    BY <1>1, <1>3, <2>2, <2>3, <2>6, <2>7 DEF NewTableIn, FreeInv
  <2>9. /\ IsTree(memory', free \ {f})
        /\ \A v \in Pages : Path(memory', v)[5] = Path(memory, v)[5]
        /\ Path(memory', virt)[level + 1] = f
    <3>1. PICK new, unused, mem : new = memory' /\ unused = free /\ mem = memory
      OBVIOUS
    <3>2. PICK w, k : w = virt /\ k = level
      OBVIOUS
    <3>3. IsTree(mem, unused) /\ NewTableIn(mem, unused, new, w, k, f)
      BY <1>3, <2>8, <3>1, <3>2
    <3>4. /\ IsTree(new, unused \ {f})
          /\ \A v \in Pages : Path(new, v)[5] = Path(mem, v)[5]
          /\ Path(new, w)[k + 1] = f
      BY <3>3, NewTable, SMTT(30)
    <3> QED  BY <3>1, <3>2, <3>4
  <2>10. InCall'
    BY <1>1, <1>2, <1>4, <2>2, <2>3, <2>9 DEF InCall, Frames
  <2>11. FreeInv'
    <3>1. table \notin free
      BY <1>1, <1>3, <1>4 DEF IsTree, NotAmong
    <3>2. \A g \in free, x \in Index : memory'[g][x] = memory[g][x]
      BY <1>1, <1>3, <2>2, <3>1 DEF FreeInv, Frames
    <3> QED  BY <1>2, <1>3, <2>2, <3>2 DEF FreeInv
  <2>12. TablesInv'
    BY <1>2, <2>2, <2>9, <2>11 DEF TablesInv
  <2> QED  BY <1>2, <2>10, <2>12
<1> QED  BY <1>6, <1>7

LEMMA SetEntryStep ==
  ASSUME TablesInv, InCall, level = 4, SetEntry
  PROVE  TablesInv' /\ Path(memory', virt)[5] = phys
<1>1. virt \in Pages /\ table = Path(memory, virt)[4] /\ table \in Frames
  BY DEF InCall
<1>2. IsTree(memory, free) /\ FreeInv /\ DOMAIN memory = Frames
  BY DEF TablesInv, IsTree, WellFormed
<1>3. /\ memory' = [memory EXCEPT ![table][virt[4]] = phys] /\ virt' = NULL
      /\ mapped' = [mapped EXCEPT ![virt] = phys]
      /\ free' = free /\ dirty' = dirty
  BY DEF SetEntry, TableIndex
<1>4. Written(memory, memory', virt, 4, phys)
  <2>1. <<table, virt[4]>> \notin Huge
    BY <1>1, <1>2 DEF IsTree, EntriesKnown
  <2> QED  BY <1>1, <1>3, <2>1 DEF Written
<1>5. /\ IsTree(memory', free)
      /\ \A v \in Pages : Path(memory', v)[5] = IF v = virt THEN phys ELSE Path(memory, v)[5]
  BY <1>2, <1>4, LastEntry
<1>6. FreeInv'
  <2>1. table \notin free
    BY <1>1, <1>2 DEF IsTree, NotAmong
  <2>2. \A g \in free, x \in Index : memory'[g][x] = memory[g][x]
    BY <1>1, <1>2, <1>3, <2>1 DEF FreeInv, Frames
  <2> QED  BY <1>2, <1>3, <2>2 DEF FreeInv
<1>7. DOMAIN mapped' = Pages /\ mapped'[virt] = phys
  BY <1>1, <1>3 DEF TablesInv
<1>8. ASSUME NEW v \in Pages PROVE Path(memory', v)[5] = mapped'[v]
  BY <1>1, <1>3, <1>5, <1>7 DEF TablesInv
<1> QED  BY <1>1, <1>3, <1>5, <1>6, <1>7, <1>8 DEF TablesInv

-----------------------------------------------------------------------------
(* Booting *)

(* The next step of common_entry; 12 in the idle thread.                     *)
Pos(c) == IF c = Bsp THEN pc[c] - 8 ELSE pc[c]

Registers == [gs_base : Cpus \cup {NULL}, local_gs : Cpus \cup {NULL}, gdtr : Cpus \cup {NULL},
              idtr : Cpus \cup {NULL}, lapic : {"off", "armed"}, int_flag : BOOLEAN]

BootType ==
  /\ DOMAIN status = Cpus /\ DOMAIN pc = Cpus /\ DOMAIN tls = Cpus /\ DOMAIN cpu = Cpus
  /\ online \subseteq Cpus

(* How far a CPU has come says what is in its registers and in its TLS page. *)
PlaceKnown(c) ==
  /\ status[c] \in {"off", "on", "idle", "undefined", "panic"}
  /\ pc[c] \in Nat /\ pc[c] >= 1 /\ Pos(c) <= 12
  /\ status[c] = "off" => c # Bsp /\ pc[c] = 1
  /\ status[c] = "idle" <=> Pos(c) = 12

TlsKnown(c) ==
  /\ Pos(c) <= 3 => tls[c] = NULL
  /\ Pos(c) > 3 => /\ tls[c] \in TlsPages /\ tls[c].cpu_id = c
                   /\ tls[c].thread_addr = IF Pos(c) = 12 THEN IdleAddr(c) ELSE NULL
  /\ c \in online <=> Pos(c) > 5

RegsKnown(c) ==
  /\ cpu[c] \in Registers
  /\ Pos(c) \in {5, 6, 7, 9, 10, 11, 12} => cpu[c].gs_base = c
  /\ Pos(c) >= 7 => cpu[c].local_gs = c /\ cpu[c].gdtr = c
  /\ cpu[c].idtr = IF Pos(c) >= 10 THEN c ELSE NULL
  /\ cpu[c].lapic = IF Pos(c) >= 11 THEN "armed" ELSE "off"
  /\ cpu[c].int_flag => Pos(c) = 12

CpuKnown(c) == PlaceKnown(c) /\ TlsKnown(c) /\ RegsKnown(c)

(* kmain: what is set up, how far map_page has come, and that the other CPUs *)
(* are started after it.                                                     *)
KmainInv ==
  /\ DOMAIN global = {"console", "hhdm", "allocator"}
  /\ pc[Bsp] > 2 => global.hhdm
  /\ pc[Bsp] > 3 => global.allocator
  /\ \A d \in Others : status[d] # "off" => pc[Bsp] >= 8

MapInv ==
  /\ lapic_page \in LapicPages
  /\ clean \in BOOLEAN
  /\ clean => TablesInv
  /\ pc[Bsp] <= 4 => clean /\ virt = NULL
  /\ pc[Bsp] \in 5..7 =>
       /\ virt = lapic_page /\ phys = LapicPhys /\ level = pc[Bsp] - 3
       /\ clean => InCall
  /\ pc[Bsp] >= 8 => clean /\ Walk(lapic_page) = LapicPhys

BootInv == BootType /\ KmainInv /\ MapInv /\ \A c \in Cpus : CpuKnown(c)

LEMMA BootInvInit == Init => BootInv
<1> SUFFICES ASSUME Init PROVE BootInv
  OBVIOUS
<1>1. BootType
  BY DEF Init, BootType
<1>2. KmainInv
  BY BootAssumption DEF Init, KmainInv, Others
<1>3. MapInv
  <2>1. TablesInv
    BY TreeInit DEF Init
  <2> QED  BY <2>1, BootAssumption DEF Init, PageInit, MapInv
<1>4. ASSUME NEW c \in Cpus PROVE CpuKnown(c)
  <2>1. pc[c] = 1 /\ (Pos(c) = 1 \/ Pos(c) = -7)
    BY DEF Init, Pos
  <2>2. PlaceKnown(c)
    BY <2>1, BootAssumption DEF Init, PlaceKnown
  <2>3. TlsKnown(c)
    BY <2>1 DEF Init, TlsKnown
  <2>4. RegsKnown(c)
    BY <2>1 DEF Init, RegsKnown, Registers
  <2> QED  BY <2>2, <2>3, <2>4 DEF CpuKnown
<1> QED  BY <1>1, <1>2, <1>3, <1>4 DEF BootInv

LEMMA ConcatAt ==
  ASSUME NEW S, NEW s \in Seq(S), NEW t \in Seq(S), NEW i \in 1..(Len(s) + Len(t))
  PROVE  (s \o t)[i] = IF i <= Len(s) THEN s[i] ELSE t[i - Len(s)]
BY ConcatProperties

(* The label a CPU is at.                                                    *)
LEMMA LabelAt ==
  ASSUME NEW c \in Cpus, PlaceKnown(c), status[c] = "on"
  PROVE  \/ c = Bsp /\ pc[c] \in 1..8 /\ Label(c) = Kmain[pc[c]]
         \/ (c = Bsp => pc[c] > 8) /\ Pos(c) \in 1..11 /\ Label(c) = CommonEntry[Pos(c)]
<1>1. Pos(c) # 12 /\ pc[c] \in Nat /\ pc[c] >= 1 /\ Pos(c) <= 12
  BY DEF PlaceKnown
<1>2. Len(Kmain) = 8 /\ Len(CommonEntry) = 11
  BY DEF Kmain, CommonEntry
<1>3. CASE c # Bsp
  BY <1>1, <1>3 DEF Pos, Label, Program
<1>4. CASE c = Bsp
  <2>1. pc[c] \in 1..19 /\ Pos(c) = pc[c] - 8
    BY <1>1, <1>4 DEF Pos
  <2>2. Label(c) = (Kmain \o CommonEntry)[pc[c]]
    BY <1>4 DEF Label, Program
  <2>3. (Kmain \o CommonEntry)[pc[c]] = IF pc[c] <= 8 THEN Kmain[pc[c]] ELSE CommonEntry[pc[c] - 8]
    <3> DEFINE S == {"console", "hhdm", "allocator", "lapic", "pdpt", "pd", "pt", "start", "greet", "tls",
                     "fill", "gs", "publish", "gdt", "reload", "restore", "idt", "timer", "idle"}
    <3>1. Kmain \in Seq(S)
      BY DEF Kmain
    <3>2. CommonEntry \in Seq(S)
      BY DEF CommonEntry
    <3> HIDE DEF S
    <3>3. PICK i : i = pc[c]
      OBVIOUS
    <3>4. i \in 1..(Len(Kmain) + Len(CommonEntry))
      BY <1>2, <2>1, <3>3
    <3>5. (Kmain \o CommonEntry)[i] = IF i <= Len(Kmain) THEN Kmain[i] ELSE CommonEntry[i - Len(Kmain)]
      BY <3>1, <3>2, <3>4, ConcatAt
    <3> QED  BY <1>2, <3>3, <3>5
  <2> QED  BY <1>4, <2>1, <2>2, <2>3, SMTT(30)
<1> QED  BY <1>3, <1>4

(* Nothing of what is known of CPU d changed.                                *)
Same(d) ==
  /\ status'[d] = status[d] /\ pc'[d] = pc[d] /\ tls'[d] = tls[d] /\ cpu'[d] = cpu[d]
  /\ d \in online' <=> d \in online

LEMMA SameKnown ==
  ASSUME NEW d \in Cpus, CpuKnown(d), Same(d)
  PROVE  CpuKnown(d)'
<1>1. Pos(d)' = Pos(d)
  BY DEF Same, Pos
<1>2. PlaceKnown(d)'
  BY <1>1 DEF CpuKnown, PlaceKnown, Same
<1>3. TlsKnown(d)'
  BY <1>1 DEF CpuKnown, TlsKnown, Same
<1>4. RegsKnown(d)'
  BY <1>1 DEF CpuKnown, RegsKnown, Same
<1> QED  BY <1>2, <1>3, <1>4 DEF CpuKnown

(* A step of common_entry that does not fail, for the CPU that takes it.     *)
OwnStep(c) ==
  /\ BootType' /\ CpuKnown(c)'
  /\ \A d \in Cpus : d # c => Same(d)
  /\ global' = global
  /\ status[c] = "on" /\ status'[c] # "off" /\ pc'[c] = pc[c] + 1

(* Up to the publication in CPUS.                                            *)
LEMMA SetupTlsSteps ==
  ASSUME BootType, NEW c \in Cpus, CpuKnown(c), status[c] = "on", pc' = [pc EXCEPT ![c] = @ + 1],
         Pos(c) \in 1..5, Effect(c, CommonEntry[Pos(c)])
  PROVE  OwnStep(c)
<1>1. /\ DOMAIN status = Cpus /\ DOMAIN pc = Cpus /\ DOMAIN tls = Cpus /\ DOMAIN cpu = Cpus
      /\ online \subseteq Cpus
  BY DEF BootType
<1>2. /\ pc[c] \in Nat /\ DOMAIN pc' = Cpus /\ pc'[c] = pc[c] + 1
      /\ \A d \in Cpus : d # c => pc'[d] = pc[d]
  BY <1>1 DEF CpuKnown, PlaceKnown
<1>3. Pos(c)' = Pos(c) + 1
  BY <1>2 DEF Pos
<1>4. ASSUME UNCHANGED status PROVE PlaceKnown(c)'
  BY <1>2, <1>3, <1>4 DEF CpuKnown, PlaceKnown
<1>5. CASE Pos(c) = 1 \/ Pos(c) = 2
  <2>1. CommonEntry[Pos(c)] \in {"greet", "tls"}
    BY <1>5 DEF CommonEntry
  <2>2. UNCHANGED <<status, global, online, tls, cpu>>
    BY <2>1 DEF Effect
  <2>3. PlaceKnown(c)'
    BY <1>4, <2>2
  <2>4. TlsKnown(c)'
    BY <1>3, <1>5, <2>2 DEF CpuKnown, TlsKnown
  <2>5. RegsKnown(c)'
    BY <1>3, <1>5, <2>2 DEF CpuKnown, RegsKnown
  <2> QED  BY <1>1, <1>2, <2>2, <2>3, <2>4, <2>5 DEF OwnStep, CpuKnown, BootType, Same
<1>6. CASE Pos(c) = 3
  <2>1. CommonEntry[Pos(c)] = "fill"
    BY <1>6 DEF CommonEntry
  <2>2. UNCHANGED <<status, global, online, cpu>> /\ FillTls(c)
    BY <2>1 DEF Effect, FillTls
  <2>3. /\ DOMAIN tls' = Cpus /\ \A d \in Cpus : d # c => tls'[d] = tls[d]
        /\ tls'[c] \in TlsPages /\ tls'[c].cpu_id = c /\ tls'[c].thread_addr = NULL
    BY <1>1, <2>2 DEF FillTls, TlsPages
  <2>4. PlaceKnown(c)'
    BY <1>4, <2>2
  <2>5. TlsKnown(c)'
    BY <1>3, <1>6, <2>2, <2>3 DEF CpuKnown, TlsKnown
  <2>6. RegsKnown(c)'
    BY <1>3, <1>6, <2>2 DEF CpuKnown, RegsKnown
  <2> QED  BY <1>1, <1>2, <2>2, <2>3, <2>4, <2>5, <2>6 DEF OwnStep, CpuKnown, BootType, Same
<1>7. CASE Pos(c) = 4
  <2>1. CommonEntry[Pos(c)] = "gs"
    BY <1>7 DEF CommonEntry
  <2>2. UNCHANGED <<status, global, online, tls>> /\ Writes(c, "gs_base", c)
    BY <2>1 DEF Effect, Writes
  <2>3. /\ DOMAIN cpu' = Cpus /\ \A d \in Cpus : d # c => cpu'[d] = cpu[d]
        /\ cpu'[c] = [cpu[c] EXCEPT !["gs_base"] = c]
    BY <1>1, <2>2 DEF Writes
  <2>4. PlaceKnown(c)'
    BY <1>4, <2>2
  <2>5. TlsKnown(c)'
    BY <1>3, <1>7, <2>2 DEF CpuKnown, TlsKnown
  <2>6. RegsKnown(c)'
    BY <1>3, <1>7, <2>3 DEF CpuKnown, RegsKnown, Registers
  <2> QED  BY <1>1, <1>2, <2>2, <2>3, <2>4, <2>5, <2>6 DEF OwnStep, CpuKnown, BootType, Same
<1>8. CASE Pos(c) = 5
  <2>1. CommonEntry[Pos(c)] = "publish"
    BY <1>8 DEF CommonEntry
  <2>2. UNCHANGED <<status, global, tls, cpu>> /\ online' = online \cup {c}
    BY <2>1 DEF Effect, Publish
  <2>3. PlaceKnown(c)'
    BY <1>4, <2>2
  <2>4. TlsKnown(c)'
    BY <1>3, <1>8, <2>2 DEF CpuKnown, TlsKnown
  <2>5. RegsKnown(c)'
    BY <1>3, <1>8, <2>2 DEF CpuKnown, RegsKnown
  <2> QED  BY <1>1, <1>2, <2>2, <2>3, <2>4, <2>5 DEF OwnStep, CpuKnown, BootType, Same
<1> QED  BY <1>5, <1>6, <1>7, <1>8

(* setup_gdt, setup_idt and setup_lapic_timer, and the switch to the idle    *)
(* thread.                                                                   *)
LEMMA TablesSteps ==
  ASSUME BootType, NEW c \in Cpus, CpuKnown(c), status[c] = "on", pc' = [pc EXCEPT ![c] = @ + 1],
         Pos(c) \in 6..11, Effect(c, CommonEntry[Pos(c)])
  PROVE  OwnStep(c)
<1>1. /\ DOMAIN status = Cpus /\ DOMAIN pc = Cpus /\ DOMAIN tls = Cpus /\ DOMAIN cpu = Cpus
      /\ online \subseteq Cpus
  BY DEF BootType
<1>2. /\ pc[c] \in Nat /\ DOMAIN pc' = Cpus /\ pc'[c] = pc[c] + 1
      /\ \A d \in Cpus : d # c => pc'[d] = pc[d]
  BY <1>1 DEF CpuKnown, PlaceKnown
<1>3. Pos(c)' = Pos(c) + 1 /\ c \in Nat /\ NULL # c
  BY <1>2, BootAssumption DEF Pos
<1>4. ASSUME UNCHANGED status, Pos(c) # 11 PROVE PlaceKnown(c)'
  BY <1>2, <1>3, <1>4 DEF CpuKnown, PlaceKnown
<1>5. CASE Pos(c) = 6
  <2>1. CommonEntry[Pos(c)] = "gdt"
    BY <1>5 DEF CommonEntry
  <2>2. UNCHANGED <<status, global, online, tls>> /\ LoadGdt(c)
    BY <2>1 DEF Effect, LoadGdt
  <2>3. /\ DOMAIN cpu' = Cpus /\ \A d \in Cpus : d # c => cpu'[d] = cpu[d]
        /\ cpu'[c] = [cpu[c] EXCEPT !.gdtr = c, !.local_gs = cpu[c].gs_base]
    BY <1>1, <2>2 DEF LoadGdt
  <2>4. tls' = tls
    BY <2>2
  <2>5. PlaceKnown(c)' /\ \A d \in Cpus : d # c => status'[d] = status[d]
    BY <1>4, <1>5, <2>2
  <2>6. TlsKnown(c)'
    BY <1>3, <1>5, <2>2, <2>4 DEF CpuKnown, TlsKnown
  <2>7. RegsKnown(c)'
    <3>1. cpu[c] \in Registers /\ cpu[c].gs_base = c
      BY <1>5 DEF CpuKnown, RegsKnown
    <3>2. /\ cpu'[c].gs_base = c /\ cpu'[c].local_gs = c /\ cpu'[c].gdtr = c
          /\ cpu'[c].idtr = cpu[c].idtr /\ cpu'[c].lapic = cpu[c].lapic
          /\ cpu'[c].int_flag = cpu[c].int_flag
      BY <2>3, <3>1 DEF Registers
    <3>3. cpu'[c] \in Registers
      BY <2>3, <3>1 DEF Registers
    <3> QED  BY <1>3, <1>5, <3>2, <3>3 DEF CpuKnown, RegsKnown
  <2> QED  BY <1>1, <1>2, <2>2, <2>3, <2>4, <2>5, <2>6, <2>7 DEF OwnStep, CpuKnown, BootType, Same
<1>6. CASE Pos(c) = 7
  <2>1. CommonEntry[Pos(c)] = "reload"
    BY <1>6 DEF CommonEntry
  <2>2. UNCHANGED <<status, global, online, tls>> /\ ReloadGs(c)
    BY <2>1 DEF Effect, ReloadGs, Writes
  <2>3. /\ DOMAIN cpu' = Cpus /\ \A d \in Cpus : d # c => cpu'[d] = cpu[d]
        /\ cpu'[c] = [cpu[c] EXCEPT !["gs_base"] = NULL]
    BY <1>1, <2>2 DEF ReloadGs, Writes
  <2>4. tls' = tls
    BY <2>2
  <2>5. PlaceKnown(c)' /\ \A d \in Cpus : d # c => status'[d] = status[d]
    BY <1>4, <1>6, <2>2
  <2>6. TlsKnown(c)'
    BY <1>3, <1>6, <2>2, <2>4 DEF CpuKnown, TlsKnown
  <2>7. RegsKnown(c)'
    BY <1>3, <1>6, <2>3 DEF CpuKnown, RegsKnown, Registers
  <2> QED  BY <1>1, <1>2, <2>2, <2>3, <2>4, <2>5, <2>6, <2>7 DEF OwnStep, CpuKnown, BootType, Same
<1>7. CASE Pos(c) = 8
  <2>1. CommonEntry[Pos(c)] = "restore"
    BY <1>7 DEF CommonEntry
  <2>2. UNCHANGED <<status, global, online>> /\ RestoreGs(c)
    BY <2>1 DEF Effect, RestoreGs, Writes
  <2>3. /\ DOMAIN cpu' = Cpus /\ \A d \in Cpus : d # c => cpu'[d] = cpu[d]
        /\ cpu'[c] = [cpu[c] EXCEPT !["gs_base"] = cpu[c].local_gs]
    BY <1>1, <2>2 DEF RestoreGs, Writes
  <2>4. /\ DOMAIN tls' = Cpus /\ \A d \in Cpus : d # c => tls'[d] = tls[d]
        /\ tls'[c] = [tls[c] EXCEPT !.gdt_addr = c]
    BY <1>1, <2>2 DEF RestoreGs
  <2>5. PlaceKnown(c)' /\ \A d \in Cpus : d # c => status'[d] = status[d]
    BY <1>4, <1>7, <2>2
  <2>6. TlsKnown(c)'
    BY <1>3, <1>7, <2>2, <2>4 DEF CpuKnown, TlsKnown, TlsPages
  <2>7. RegsKnown(c)'
    BY <1>3, <1>7, <2>3 DEF CpuKnown, RegsKnown, Registers
  <2> QED  BY <1>1, <1>2, <2>2, <2>3, <2>4, <2>5, <2>6, <2>7 DEF OwnStep, CpuKnown, BootType, Same
<1>8. CASE Pos(c) = 9
  <2>1. CommonEntry[Pos(c)] = "idt"
    BY <1>8 DEF CommonEntry
  <2>2. UNCHANGED <<status, global, online>> /\ LoadIdt(c)
    BY <2>1 DEF Effect, LoadIdt, Writes
  <2>3. /\ DOMAIN cpu' = Cpus /\ \A d \in Cpus : d # c => cpu'[d] = cpu[d]
        /\ cpu'[c] = [cpu[c] EXCEPT !["idtr"] = c]
    BY <1>1, <2>2 DEF LoadIdt, Writes
  <2>4. /\ DOMAIN tls' = Cpus /\ \A d \in Cpus : d # c => tls'[d] = tls[d]
        /\ tls'[c] = [tls[c] EXCEPT !.idt_addr = c]
    BY <1>1, <2>2 DEF LoadIdt
  <2>5. PlaceKnown(c)' /\ \A d \in Cpus : d # c => status'[d] = status[d]
    BY <1>4, <1>8, <2>2
  <2>6. TlsKnown(c)'
    BY <1>3, <1>8, <2>2, <2>4 DEF CpuKnown, TlsKnown, TlsPages
  <2>7. RegsKnown(c)'
    BY <1>3, <1>8, <2>3 DEF CpuKnown, RegsKnown, Registers
  <2> QED  BY <1>1, <1>2, <2>2, <2>3, <2>4, <2>5, <2>6, <2>7 DEF OwnStep, CpuKnown, BootType, Same
<1>9. CASE Pos(c) = 10
  <2>1. CommonEntry[Pos(c)] = "timer"
    BY <1>9 DEF CommonEntry
  <2>2. UNCHANGED <<status, global, online, tls>> /\ Writes(c, "lapic", "armed")
    BY <2>1 DEF Effect, Writes
  <2>3. /\ DOMAIN cpu' = Cpus /\ \A d \in Cpus : d # c => cpu'[d] = cpu[d]
        /\ cpu'[c] = [cpu[c] EXCEPT !["lapic"] = "armed"]
    BY <1>1, <2>2 DEF Writes
  <2>4. tls' = tls
    BY <2>2
  <2>5. PlaceKnown(c)' /\ \A d \in Cpus : d # c => status'[d] = status[d]
    BY <1>4, <1>9, <2>2
  <2>6. TlsKnown(c)'
    BY <1>3, <1>9, <2>2, <2>4 DEF CpuKnown, TlsKnown
  <2>7. RegsKnown(c)'
    BY <1>3, <1>9, <2>3 DEF CpuKnown, RegsKnown, Registers
  <2> QED  BY <1>1, <1>2, <2>2, <2>3, <2>4, <2>5, <2>6, <2>7 DEF OwnStep, CpuKnown, BootType, Same
<1>10. CASE Pos(c) = 11
  <2>1. CommonEntry[Pos(c)] = "idle"
    BY <1>10 DEF CommonEntry
  <2>2. UNCHANGED <<global, online>> /\ ForceSwitchToIdle(c)
    BY <2>1 DEF Effect, ForceSwitchToIdle
  <2>3. /\ DOMAIN cpu' = Cpus /\ \A d \in Cpus : d # c => cpu'[d] = cpu[d]
        /\ cpu'[c] = [cpu[c] EXCEPT !.int_flag = TRUE]
    BY <1>1, <2>2 DEF ForceSwitchToIdle
  <2>4. /\ DOMAIN tls' = Cpus /\ \A d \in Cpus : d # c => tls'[d] = tls[d]
        /\ tls'[c] = [tls[c] EXCEPT !.thread_addr = IdleAddr(c)]
    BY <1>1, <2>2 DEF ForceSwitchToIdle
  <2>5. PlaceKnown(c)' /\ \A d \in Cpus : d # c => status'[d] = status[d]
    BY <1>1, <1>2, <1>3, <1>10, <2>2 DEF CpuKnown, PlaceKnown, ForceSwitchToIdle
  <2>6. TlsKnown(c)'
    BY <1>3, <1>10, <2>2, <2>4 DEF CpuKnown, TlsKnown, TlsPages, IdleAddr
  <2>7. RegsKnown(c)'
    <3>1. cpu[c] \in Registers
      BY DEF CpuKnown, RegsKnown
    <3>2. /\ cpu'[c].gs_base = cpu[c].gs_base /\ cpu'[c].local_gs = cpu[c].local_gs
          /\ cpu'[c].gdtr = cpu[c].gdtr /\ cpu'[c].idtr = cpu[c].idtr /\ cpu'[c].lapic = cpu[c].lapic
      BY <2>3, <3>1 DEF Registers
    <3>3. cpu'[c] \in Registers
      BY <2>3, <3>1 DEF Registers
    <3> QED  BY <1>3, <1>10, <3>2, <3>3 DEF CpuKnown, RegsKnown
  <2> QED  BY <1>1, <1>2, <2>2, <2>3, <2>4, <2>5, <2>6, <2>7 DEF OwnStep, CpuKnown, BootType, Same, ForceSwitchToIdle
<1> QED  BY <1>5, <1>6, <1>7, <1>8, <1>9, <1>10

(* Every step finds what it relies on.                                       *)
LEMMA NothingMissing ==
  ASSUME BootInv, NEW c \in Cpus, status[c] = "on"
  PROVE  Requires(c, Label(c))
<1>1. CpuKnown(c) /\ PlaceKnown(c) /\ RegsKnown(c)
  BY DEF BootInv, CpuKnown
<1>2. CASE c = Bsp /\ pc[c] \in 1..8 /\ Label(c) = Kmain[pc[c]]
  <2>1. pc[c] = 1 \/ pc[c] = 2 \/ pc[c] = 3 \/ pc[c] = 4 \/ pc[c] = 5 \/ pc[c] = 6 \/ pc[c] = 7 \/ pc[c] = 8
    BY <1>2
  <2>2. /\ Label(c) \in {"console", "hhdm", "allocator", "lapic", "pdpt", "pd", "pt", "start"}
        /\ Label(c) \in {"allocator", "lapic", "pdpt", "pd", "pt"} => pc[Bsp] > 2
        /\ Label(c) \in {"pdpt", "pd"} => pc[Bsp] > 3
    BY <1>2, <2>1 DEF Kmain
  <2> QED  BY <2>2 DEF Requires, BootInv, KmainInv
<1>3. CASE (c = Bsp => pc[c] > 8) /\ Pos(c) \in 1..11 /\ Label(c) = CommonEntry[Pos(c)]
  <2>1. pc[Bsp] >= 8 /\ pc[Bsp] \in Nat
    <3>1. pc[Bsp] \in Nat
      BY BootAssumption DEF BootInv, CpuKnown, PlaceKnown
    <3>2. CASE c = Bsp
      BY <1>3, <3>1, <3>2
    <3>3. CASE c # Bsp
      BY <3>1, <3>3 DEF BootInv, KmainInv, Others
    <3> QED  BY <3>1, <3>2, <3>3
  <2>2. global.hhdm /\ global.allocator /\ Walk(lapic_page) = LapicPhys
    BY <2>1 DEF BootInv, KmainInv, MapInv
  <2>3. \/ Pos(c) = 1 \/ Pos(c) = 2 \/ Pos(c) = 3 \/ Pos(c) = 4 \/ Pos(c) = 5 \/ Pos(c) = 6
        \/ Pos(c) = 7 \/ Pos(c) = 8 \/ Pos(c) = 9 \/ Pos(c) = 10 \/ Pos(c) = 11
    BY <1>3
  <2>4. /\ Label(c) = "restore" => Pos(c) = 8
        /\ Label(c) \in {"idt", "idle"} => Pos(c) = 9 \/ Pos(c) = 11
    BY <1>3, <2>3 DEF CommonEntry
  <2>5. Label(c) = "restore" => cpu[c].local_gs = c
    BY <1>1, <2>4 DEF RegsKnown
  <2>6. Label(c) \in {"idt", "idle"} => cpu[c].gs_base = c
    BY <1>1, <2>4 DEF RegsKnown
  <2> QED  BY <2>2, <2>5, <2>6 DEF Requires
<1> QED  BY <1>1, <1>2, <1>3, LabelAt

(* Frames taken for other ends leave the tables alone.                       *)
LEMMA FewerFree ==
  ASSUME TablesInv, UNCHANGED pageVars, free' \subseteq free
  PROVE  TablesInv'
<1>1. memory' = memory /\ dirty' = dirty /\ mapped' = mapped /\ virt' = virt
  BY DEF pageVars
<1>2. IsTree(memory, free')
  BY DEF TablesInv, IsTree, NotAmong
<1>3. FreeInv'
  BY <1>1 DEF TablesInv, FreeInv
<1> QED  BY <1>1, <1>2, <1>3 DEF TablesInv

LEMMA SamePages ==
  ASSUME MapInv, UNCHANGED <<pageVars, lapic_page>>, free' \subseteq free, pc[Bsp] \in Nat,
         pc'[Bsp] = pc[Bsp] \/ (pc'[Bsp] = pc[Bsp] + 1 /\ (pc[Bsp] < 4 \/ pc[Bsp] >= 8))
  PROVE  MapInv'
<1>1. memory' = memory /\ virt' = virt /\ phys' = phys /\ table' = table /\ level' = level /\ clean' = clean
      /\ lapic_page' = lapic_page
  BY DEF pageVars
<1>2. clean => TablesInv'
  BY FewerFree DEF MapInv
<1>3. InCall => InCall'
  BY <1>1 DEF InCall
<1>4. Walk(lapic_page)' = Walk(lapic_page)
  BY <1>1 DEF Walk
<1>5. CASE pc'[Bsp] = pc[Bsp]
  BY <1>1, <1>2, <1>3, <1>4, <1>5 DEF MapInv
<1>6. CASE pc'[Bsp] = pc[Bsp] + 1 /\ pc[Bsp] < 4
  BY <1>1, <1>2, <1>3, <1>4, <1>6 DEF MapInv
<1>7. CASE pc'[Bsp] = pc[Bsp] + 1 /\ pc[Bsp] >= 8
  BY <1>1, <1>2, <1>3, <1>4, <1>7 DEF MapInv
<1> QED  BY <1>5, <1>6, <1>7

(* A step of common_entry.                                                   *)
LEMMA CommonStep ==
  ASSUME BootInv, NEW c \in Cpus, OwnStep(c), c = Bsp => pc[c] > 8,
         UNCHANGED <<pageVars, lapic_page>>, free' \subseteq free
  PROVE  BootInv'
<1>1. pc[Bsp] \in Nat /\ pc[c] \in Nat
  BY BootAssumption DEF BootInv, CpuKnown, PlaceKnown
<1>2. pc[Bsp] >= 8
  BY <1>1 DEF BootInv, KmainInv, OwnStep, Others
<1>3. pc'[Bsp] = pc[Bsp] \/ pc'[Bsp] = pc[Bsp] + 1
  BY BootAssumption DEF OwnStep, Same
<1>4. MapInv'
  BY <1>1, <1>2, <1>3, SamePages DEF BootInv
<1>5. KmainInv'
  BY <1>1, <1>2, <1>3 DEF BootInv, KmainInv, OwnStep
<1>6. ASSUME NEW d \in Cpus PROVE CpuKnown(d)'
  BY SameKnown DEF OwnStep, BootInv
<1> QED  BY <1>4, <1>5, <1>6 DEF BootInv, OwnStep

(* A step of kmain before common_entry, for the CPUs.                        *)
LEMMA KmainCpus ==
  ASSUME BootInv, status[Bsp] = "on", pc[Bsp] \in 1..8, UNCHANGED <<status, online, tls, cpu>>,
         pc' = [pc EXCEPT ![Bsp] = @ + 1]
  PROVE  BootType' /\ (\A c \in Cpus : CpuKnown(c)') /\ pc'[Bsp] = pc[Bsp] + 1
<1>1. BootType' /\ pc'[Bsp] = pc[Bsp] + 1 /\ \A d \in Cpus : d # Bsp => pc'[d] = pc[d]
  BY BootAssumption DEF BootInv, BootType
<1>2. ASSUME NEW d \in Cpus, d # Bsp PROVE CpuKnown(d)'
  <2>1. Same(d)
    BY <1>1, <1>2 DEF Same
  <2> QED  BY <2>1, SameKnown DEF BootInv
<1>3. CpuKnown(Bsp)'
  <2>1. Pos(Bsp)' = Pos(Bsp) + 1 /\ Pos(Bsp) \in Int /\ Pos(Bsp) <= 0
    BY <1>1 DEF Pos
  <2>2. CpuKnown(Bsp)
    BY BootAssumption DEF BootInv
  <2>3. PlaceKnown(Bsp)'
    BY <1>1, <2>1, <2>2 DEF CpuKnown, PlaceKnown
  <2>4. TlsKnown(Bsp)'
    BY <2>1, <2>2 DEF CpuKnown, TlsKnown
  <2>5. RegsKnown(Bsp)'
    BY <2>1, <2>2 DEF CpuKnown, RegsKnown
  <2> QED  BY <2>3, <2>4, <2>5 DEF CpuKnown
<1> QED  BY <1>1, <1>2, <1>3

(* What Execute does when it neither faults nor stops.                       *)
Goes(c, label) ==
  /\ clean /\ (TakesFrame(label) => free # {})
  /\ \/ CallMapPage(label) /\ UNCHANGED <<status, global, online, tls, cpu>>
     \/ /\ Effect(c, label)
        /\ IF TakesFrame(label) THEN AllocFrame ELSE UNCHANGED free
        /\ UNCHANGED pageVars
  /\ pc' = [pc EXCEPT ![c] = @ + 1]
  /\ UNCHANGED lapic_page

LEMMA FrameTaken ==
  ASSUME NEW label, IF TakesFrame(label) THEN AllocFrame ELSE UNCHANGED free
  PROVE  free' \subseteq free
BY DEF AllocFrame

LEMMA KmainStep ==
  ASSUME BootInv, status[Bsp] = "on", pc[Bsp] \in 1..8, Goes(Bsp, Kmain[pc[Bsp]])
  PROVE  BootInv'
<1> DEFINE label == Kmain[pc[Bsp]]
<1>1. pc' = [pc EXCEPT ![Bsp] = @ + 1] /\ lapic_page' = lapic_page /\ clean
  BY DEF Goes
<1>2. MapInv /\ KmainInv /\ TablesInv /\ pc[Bsp] \in Nat /\ lapic_page \in Pages
  BY <1>1, BootAssumption DEF BootInv, MapInv
<1>3. ASSUME UNCHANGED <<status, online, tls, cpu>>, KmainInv', MapInv' PROVE BootInv'
  BY <1>1, <1>3, KmainCpus DEF BootInv
<1>4. ASSUME UNCHANGED <<status, online, tls, cpu>> PROVE pc'[Bsp] = pc[Bsp] + 1
  BY <1>1, <1>4, KmainCpus
<1>5. ASSUME UNCHANGED <<status, global, online, tls, cpu>>, pc[Bsp] >= 4 PROVE KmainInv'
  BY <1>2, <1>4, <1>5 DEF KmainInv
<1>6. CASE pc[Bsp] \in 1..3
  <2>1. label = "console" \/ label = "hhdm" \/ label = "allocator"
    BY <1>6 DEF Kmain
  <2>2. (pc[Bsp] = 2 => label = "hhdm") /\ (pc[Bsp] = 3 => label = "allocator")
    BY DEF Kmain
  <2> HIDE DEF label
  <2>3. Effect(Bsp, label) /\ ~TakesFrame(label) /\ free' = free /\ UNCHANGED pageVars
    BY <2>1 DEF Goes, CallMapPage, TakesFrame, label
  <2>4. Sets(label)
    BY <2>1, <2>3 DEF Effect
  <2>5. UNCHANGED <<status, online, tls, cpu>> /\ global' = [global EXCEPT ![label] = TRUE]
    BY <2>4 DEF Sets
  <2>6. DOMAIN global' = {"console", "hhdm", "allocator"}
    BY <1>2, <2>5 DEF KmainInv
  <2>7. (global.hhdm => global'.hhdm) /\ (global.allocator => global'.allocator)
    BY <1>2, <2>1, <2>5 DEF KmainInv
  <2>8. (label = "hhdm" => global'.hhdm) /\ (label = "allocator" => global'.allocator)
    BY <1>2, <2>5 DEF KmainInv
  <2>9. KmainInv'
    <3>1. pc'[Bsp] = pc[Bsp] + 1
      BY <1>4, <2>5
    <3>2. pc'[Bsp] > 2 => global'.hhdm
      BY <1>2, <2>2, <2>7, <2>8, <3>1 DEF KmainInv
    <3>3. pc'[Bsp] > 3 => global'.allocator
      BY <1>2, <2>2, <2>7, <2>8, <3>1 DEF KmainInv
    <3> QED  BY <1>2, <2>5, <2>6, <3>1, <3>2, <3>3 DEF KmainInv
  <2>10. MapInv'
    BY <1>1, <1>2, <1>4, <1>6, <2>3, <2>5, SamePages
  <2> QED  BY <1>3, <2>5, <2>9, <2>10
<1>7. CASE pc[Bsp] = 4
  <2>1. label = "lapic"
    BY <1>7 DEF Kmain
  <2>2. MapPage(lapic_page, LapicPhys) /\ UNCHANGED <<status, global, online, tls, cpu>>
    BY <2>1 DEF Goes, CallMapPage, Effect
  <2>3. pc'[Bsp] = 5
    BY <1>4, <1>7, <2>2
  <2>4. /\ virt' = lapic_page /\ phys' = LapicPhys /\ level' = 2 /\ table' = memory[CR3][lapic_page[1]]
        /\ memory' = memory /\ free' = free /\ dirty' = dirty /\ clean' = clean /\ mapped' = mapped
    BY <2>2 DEF MapPage
  <2>5. Path(memory, lapic_page)[2] = table' /\ table' \in Frames
    <3>1. Path(memory, lapic_page)[1 + 1] = Follow(memory, CR3, lapic_page[1])
      BY PathStep
    <3>2. CR3 \in DOMAIN memory /\ <<CR3, lapic_page[1]>> \notin Huge /\ Path(memory, lapic_page)[2] \in Frames
      BY <1>2, PageMapAssumption DEF TablesInv, IsTree, WellFormed, EntriesKnown, Frames
    <3> QED  BY <2>4, <3>1, <3>2 DEF Follow
  <2>6. InCall'
    BY <1>2, <2>4, <2>5 DEF InCall
  <2>7. TablesInv'
    <3>1. virt = NULL
      BY <1>2, <1>7 DEF MapInv
    <3>2. \A v \in Pages : Path(memory, v)[5] = mapped[v]
      BY <1>2, <3>1, BootAssumption DEF TablesInv
    <3>3. FreeInv'
      BY <1>2, <2>4 DEF TablesInv, FreeInv
    <3> QED  BY <1>2, <2>4, <3>2, <3>3 DEF TablesInv
  <2>8. MapInv'
    BY <1>1, <1>2, <2>3, <2>4, <2>6, <2>7 DEF MapInv
  <2> QED  BY <1>3, <1>5, <1>7, <2>2, <2>8
<1>8. CASE pc[Bsp] \in 5..6
  <2>1. label = "pdpt" \/ label = "pd"
    BY <1>8 DEF Kmain
  <2>2. Descend /\ UNCHANGED <<status, global, online, tls, cpu>> /\ (Entry = NULL => free # {})
    BY <2>1 DEF Goes, CallMapPage, Effect, TakesFrame
  <2>3. pc'[Bsp] = pc[Bsp] + 1
    BY <1>4, <2>2
  <2>4. virt = lapic_page /\ phys = LapicPhys /\ level = pc[Bsp] - 3 /\ InCall
    BY <1>1, <1>2, <1>8 DEF MapInv
  <2>5. virt' = virt /\ phys' = phys /\ level' = level + 1 /\ clean' \in BOOLEAN
    BY <2>2 DEF Descend
  <2>6. clean' => TablesInv' /\ InCall'
    BY <1>2, <1>8, <2>2, <2>4, DescendStep
  <2>7. MapInv'
    BY <1>1, <1>2, <1>8, <2>3, <2>4, <2>5, <2>6 DEF MapInv
  <2> QED  BY <1>3, <1>5, <1>8, <2>2, <2>7
<1>9. CASE pc[Bsp] = 7
  <2>1. label = "pt"
    BY <1>9 DEF Kmain
  <2>2. SetEntry /\ UNCHANGED <<status, global, online, tls, cpu>>
    BY <2>1 DEF Goes, CallMapPage, Effect
  <2>3. pc'[Bsp] = 8
    BY <1>4, <1>9, <2>2
  <2>4. virt = lapic_page /\ phys = LapicPhys /\ level = 4 /\ InCall
    BY <1>1, <1>2, <1>9 DEF MapInv
  <2>5. TablesInv' /\ Path(memory', virt)[5] = phys
    BY <1>2, <2>2, <2>4, SetEntryStep
  <2>6. clean' = clean
    BY <2>2 DEF SetEntry
  <2>7. Walk(lapic_page)' = LapicPhys
    BY <1>1, <2>4, <2>5 DEF Walk
  <2>8. MapInv'
    BY <1>1, <1>2, <2>3, <2>5, <2>6, <2>7 DEF MapInv
  <2> QED  BY <1>3, <1>5, <1>9, <2>2, <2>8
<1>10. CASE pc[Bsp] = 8
  <2>1. label = "start"
    BY <1>10 DEF Kmain
  <2>2. Started /\ UNCHANGED pageVars /\ free' = free
    BY <2>1 DEF Goes, CallMapPage, Effect, TakesFrame
  <2>3. UNCHANGED <<status, global, online, tls, cpu>>
    BY <2>2 DEF Started
  <2>4. pc'[Bsp] = pc[Bsp] + 1
    BY <1>4, <2>3
  <2>5. MapInv'
    BY <1>1, <1>2, <1>10, <2>2, <2>4, SamePages
  <2> QED  BY <1>3, <1>5, <1>10, <2>3, <2>5
<1> QED  BY <1>6, <1>7, <1>8, <1>9, <1>10

(* A CPU stops in common_entry or in kmain: nothing but its status changes.  *)
LEMMA StopsStep ==
  ASSUME BootInv, NEW c \in Cpus, status[c] = "on", NEW how \in {"undefined", "panic"}, Stops(c, how)
  PROVE  BootInv'
<1>1. /\ status' = [status EXCEPT ![c] = how]
      /\ UNCHANGED <<pc, global, lapic_page, online, tls, cpu, free, pageVars>>
  BY DEF Stops
<1>2. pc[Bsp] \in Nat
  BY BootAssumption DEF BootInv, CpuKnown, PlaceKnown
<1>3. BootType' /\ DOMAIN status = Cpus
  BY <1>1 DEF BootInv, BootType
<1>4. MapInv'
  BY <1>1, <1>2, SamePages DEF BootInv
<1>5. KmainInv'
  BY <1>1, <1>3 DEF BootInv, KmainInv, Others
<1>6. ASSUME NEW d \in Cpus, d # c PROVE CpuKnown(d)'
  <2>1. Same(d)
    BY <1>1, <1>3, <1>6 DEF Same
  <2> QED  BY <2>1, SameKnown DEF BootInv
<1>7. CpuKnown(c)'
  <2>1. Pos(c)' = Pos(c) /\ CpuKnown(c)
    BY <1>1 DEF Pos, BootInv
  <2>2. PlaceKnown(c)'
    BY <1>1, <1>3, <2>1 DEF CpuKnown, PlaceKnown
  <2>3. TlsKnown(c)'
    BY <1>1, <2>1 DEF CpuKnown, TlsKnown
  <2>4. RegsKnown(c)'
    BY <1>1, <2>1 DEF CpuKnown, RegsKnown
  <2> QED  BY <2>2, <2>3, <2>4 DEF CpuKnown
<1> QED  BY <1>3, <1>4, <1>5, <1>6, <1>7 DEF BootInv

(* common_entry does not map pages.                                          *)
LEMMA EntryLabel ==
  ASSUME NEW n \in 1..11
  PROVE  CommonEntry[n] \notin {"lapic", "pdpt", "pd", "pt"}
<1>1. \/ n = 1 \/ n = 2 \/ n = 3 \/ n = 4 \/ n = 5 \/ n = 6 \/ n = 7 \/ n = 8 \/ n = 9 \/ n = 10 \/ n = 11
  OBVIOUS
<1> QED  BY <1>1 DEF CommonEntry

(* A step of common_entry, of whichever CPU.                                 *)
LEMMA EntryStep ==
  ASSUME BootInv, NEW c \in Cpus, status[c] = "on", c = Bsp => pc[c] > 8, Pos(c) \in 1..11,
         Goes(c, CommonEntry[Pos(c)])
  PROVE  BootInv' /\ Effect(c, CommonEntry[Pos(c)]) /\ OwnStep(c)
<1>1. PICK label : label = CommonEntry[Pos(c)]
  OBVIOUS
<1>2. label \notin {"lapic", "pdpt", "pd", "pt"}
  BY <1>1, EntryLabel
<1>3. /\ Effect(c, label) /\ UNCHANGED <<pageVars, lapic_page>> /\ pc' = [pc EXCEPT ![c] = @ + 1]
      /\ IF TakesFrame(label) THEN AllocFrame ELSE UNCHANGED free
  BY <1>1, <1>2 DEF Goes, CallMapPage
<1>4. free' \subseteq free
  BY <1>3, FrameTaken
<1>5. OwnStep(c)
  <2>1. BootType /\ CpuKnown(c)
    BY DEF BootInv
  <2>2. CASE Pos(c) \in 1..5
    BY <1>1, <1>3, <2>1, <2>2, SetupTlsSteps
  <2>3. CASE Pos(c) \in 6..11
    BY <1>1, <1>3, <2>1, <2>3, TablesSteps
  <2> QED  BY <2>2, <2>3
<1> QED  BY <1>1, <1>3, <1>4, <1>5, CommonStep

LEMMA StartCpuStep ==
  ASSUME BootInv, NEW d \in Cpus, StartCpu(d)
  PROVE  BootInv'
<1>1. /\ status[Bsp] = "on" /\ Label(Bsp) = "start" /\ d \in Others /\ status[d] = "off"
      /\ status' = [status EXCEPT ![d] = "on"]
      /\ UNCHANGED <<pc, global, lapic_page, online, tls, cpu, free, pageVars>>
  BY DEF StartCpu
<1>2. pc[Bsp] \in Nat /\ PlaceKnown(Bsp)
  BY BootAssumption DEF BootInv, CpuKnown, PlaceKnown
<1>3. pc[Bsp] >= 8
  <2>1. CASE pc[Bsp] \in 1..8 /\ Label(Bsp) = Kmain[pc[Bsp]]
    <3>1. \/ pc[Bsp] = 1 \/ pc[Bsp] = 2 \/ pc[Bsp] = 3 \/ pc[Bsp] = 4
          \/ pc[Bsp] = 5 \/ pc[Bsp] = 6 \/ pc[Bsp] = 7 \/ pc[Bsp] = 8
      BY <2>1
    <3> QED  BY <1>1, <2>1, <3>1 DEF Kmain
  <2>2. CASE pc[Bsp] > 8
    BY <1>2, <2>2
  <2> QED  BY <1>1, <1>2, <2>1, <2>2, LabelAt, BootAssumption
<1>4. BootType' /\ DOMAIN status = Cpus
  BY <1>1 DEF BootInv, BootType
<1>5. MapInv'
  BY <1>1, <1>2, SamePages DEF BootInv
<1>6. KmainInv'
  BY <1>1, <1>3 DEF BootInv, KmainInv
<1>7. ASSUME NEW c \in Cpus, c # d PROVE CpuKnown(c)'
  <2>1. Same(c)
    BY <1>1, <1>4, <1>7 DEF Same
  <2> QED  BY <2>1, SameKnown DEF BootInv
<1>8. CpuKnown(d)'
  <2>1. Pos(d)' = Pos(d) /\ CpuKnown(d)
    BY <1>1 DEF Pos, BootInv
  <2>2. PlaceKnown(d)'
    BY <1>1, <1>4, <2>1 DEF CpuKnown, PlaceKnown
  <2>3. TlsKnown(d)'
    BY <1>1, <2>1 DEF CpuKnown, TlsKnown
  <2>4. RegsKnown(d)'
    BY <1>1, <2>1 DEF CpuKnown, RegsKnown
  <2> QED  BY <2>2, <2>3, <2>4 DEF CpuKnown
<1> QED  BY <1>4, <1>5, <1>6, <1>7, <1>8 DEF BootInv

(* Execute, with what its CPU does when it goes on.                          *)
LEMMA ExecuteCases ==
  ASSUME BootInv, NEW c \in Cpus, Execute(c)
  PROVE  /\ status[c] = "on"
         /\ \/ Stops(c, "undefined") \/ Stops(c, "panic")
            \/ c = Bsp /\ pc[c] \in 1..8 /\ Goes(c, Kmain[pc[c]])
            \/ (c = Bsp => pc[c] > 8) /\ Pos(c) \in 1..11 /\ Goes(c, CommonEntry[Pos(c)])
<1>1. status[c] = "on"
  BY DEF Execute
<1>2. Requires(c, Label(c)) /\ PlaceKnown(c)
  BY <1>1, NothingMissing DEF BootInv, CpuKnown
<1>3. Stops(c, "undefined") \/ Stops(c, "panic") \/ Goes(c, Label(c))
  BY <1>2 DEF Execute, Goes
<1> QED  BY <1>1, <1>2, <1>3, LabelAt

LEMMA BootInvNext == BootInv /\ [Next]_vars => BootInv'
<1> SUFFICES ASSUME BootInv, [Next]_vars PROVE BootInv'
  OBVIOUS
<1>1. ASSUME NEW c \in Cpus, Execute(c) PROVE BootInv'
  <2>1. status[c] = "on"
    BY <1>1, ExecuteCases
  <2>2. CASE Stops(c, "undefined")
    BY <2>1, <2>2, StopsStep
  <2>3. CASE Stops(c, "panic")
    BY <2>1, <2>3, StopsStep
  <2>4. CASE c = Bsp /\ pc[c] \in 1..8 /\ Goes(c, Kmain[pc[c]])
    BY <2>1, <2>4, KmainStep
  <2>5. CASE (c = Bsp => pc[c] > 8) /\ Pos(c) \in 1..11 /\ Goes(c, CommonEntry[Pos(c)])
    BY <2>1, <2>5, EntryStep
  <2> QED  BY <1>1, <2>2, <2>3, <2>4, <2>5, ExecuteCases
<1>2. CASE UNCHANGED vars
  <2>1. UNCHANGED <<status, pc, global, lapic_page, online, tls, cpu, free, pageVars>>
    BY <1>2 DEF vars, bootVars
  <2>2. pc[Bsp] \in Nat
    BY BootAssumption DEF BootInv, CpuKnown, PlaceKnown
  <2>3. MapInv'
    BY <2>1, <2>2, SamePages DEF BootInv
  <2>4. BootType' /\ KmainInv'
    BY <2>1 DEF BootInv, BootType, KmainInv
  <2>5. ASSUME NEW d \in Cpus PROVE CpuKnown(d)'
    BY <2>1, SameKnown DEF BootInv, Same
  <2> QED  BY <2>3, <2>4, <2>5 DEF BootInv
<1> QED  BY <1>1, <1>2, StartCpuStep DEF Next

(* The inductive invariant of booting.                                       *)
THEOREM BootInvariant == Spec => []BootInv
BY BootInvInit, BootInvNext, PTL DEF Spec

(* NeverFaults: whichever CPU comes first, kmain's order and common_entry's  *)
(* set HHDM_OFFSET, the allocator, gs and the LAPIC's page up before a use.  *)
THEOREM NothingUsedTooEarly == Spec => []NeverFaults
<1>1. BootInv => NeverFaults
  BY DEF BootInv, CpuKnown, PlaceKnown, NeverFaults
<1> QED  BY <1>1, BootInvariant, PTL

(* HandlersCanRun: when an exception or the timer interrupt can come to a    *)
(* CPU, the gs base, tables, current thread and LAPIC mapping it uses are    *)
(* there, and so is the TLS page of every CPU published in CPUS.             *)
THEOREM InterruptsFindTheirState == Spec => []HandlersCanRun
<1>1. BootInv => HandlersCanRun
  <2> SUFFICES ASSUME BootInv, NEW c \in Cpus
               PROVE  /\ cpu[c].idtr # NULL => cpu[c].gs_base = c
                      /\ cpu[c].int_flag =>
                           /\ cpu[c].idtr = c /\ cpu[c].gdtr = c
                           /\ tls[c].thread_addr # NULL
                           /\ Walk(lapic_page) = LapicPhys
                           /\ \A d \in online : tls[d] # NULL /\ tls[d].cpu_id = d
    BY DEF HandlersCanRun
  <2>1. PlaceKnown(c) /\ TlsKnown(c) /\ RegsKnown(c) /\ Pos(c) \in Int /\ Pos(c) <= 12
    BY DEF BootInv, CpuKnown, PlaceKnown, Pos
  <2>2. cpu[c].idtr # NULL => cpu[c].gs_base = c
    <3>1. ASSUME cpu[c].idtr # NULL PROVE Pos(c) \in {10, 11, 12}
      BY <2>1, <3>1 DEF RegsKnown
    <3> QED  BY <2>1, <3>1 DEF RegsKnown
  <2>3. ASSUME cpu[c].int_flag PROVE Pos(c) = 12
    BY <2>1, <2>3 DEF RegsKnown
  <2>4. ASSUME Pos(c) = 12 PROVE cpu[c].idtr = c /\ cpu[c].gdtr = c
    BY <2>1, <2>4 DEF RegsKnown
  <2>5. ASSUME Pos(c) = 12 PROVE tls[c].thread_addr # NULL
    <3>1. -1 - c \in Int
      BY BootAssumption
    <3> QED  BY <2>1, <2>5, <3>1, BootAssumption DEF TlsKnown, IdleAddr
  <2>6. ASSUME Pos(c) = 12 PROVE Walk(lapic_page) = LapicPhys
    <3>1. pc[Bsp] \in Nat /\ pc[c] \in Nat /\ status[c] = "idle"
      BY <2>1, <2>6, BootAssumption DEF BootInv, CpuKnown, PlaceKnown
    <3>2. pc[Bsp] >= 8
      BY <2>6, <3>1 DEF BootInv, KmainInv, Others, Pos
    <3> QED  BY <3>2 DEF BootInv, MapInv
  <2>7. ASSUME NEW d \in online PROVE tls[d] # NULL /\ tls[d].cpu_id = d
    <3>1. d \in Cpus /\ TlsKnown(d) /\ Pos(d) \in Int
      BY <2>7 DEF BootInv, BootType, CpuKnown, PlaceKnown, Pos
    <3>2. Pos(d) > 3
      BY <2>7, <3>1 DEF TlsKnown
    <3> QED  BY <3>1, <3>2, TlsAssumption DEF TlsKnown
  <2> QED  BY <2>2, <2>3, <2>4, <2>5, <2>6, <2>7
<1> QED  BY <1>1, BootInvariant, PTL

(* MapsThatPageOnly: as long as map_page has met only cleared frames and     *)
(* tables, it has changed the translation of no page but its own.            *)
THEOREM CleanCallKeepsOtherPages == Spec => []MapsThatPageOnly
<1>1. BootInv => MapsThatPageOnly
  BY DEF BootInv, MapInv, TablesInv, MapsThatPageOnly, Walk
<1> QED  BY <1>1, BootInvariant, PTL

(* When a call is clean: the frames that the allocator has left are zero,    *)
(* and the bootloader has no huge page on the way to the LAPIC's page.       *)
FreeIsCleared == free \cap dirty = {}
NoHugePageAt(k) == <<Path(memory, lapic_page)[k], lapic_page[k]>> \notin Huge
NoHugePage == NoHugePageAt(2) /\ NoHugePageAt(3)

(* The translations the bootloader left, of every page but the LAPIC's.      *)
BootloaderPagesKept == \A v \in Pages : v # lapic_page => Walk(v) = Path(Tables, v)[5]

(* Of the entries above the last level the call has not come to, none is a   *)
(* huge page.                                                                *)
CleanInv ==
  /\ clean /\ FreeIsCleared
  /\ pc[Bsp] <= 5 => NoHugePageAt(2)
  /\ pc[Bsp] <= 6 => NoHugePageAt(3)
  /\ virt \in {NULL, lapic_page}
  /\ \A v \in Pages : v # lapic_page => mapped[v] = Path(Tables, v)[5]

LEMMA CleanInvInit == Init /\ FreeIsCleared /\ NoHugePage => CleanInv
<1> SUFFICES ASSUME Init, FreeIsCleared, NoHugePage PROVE CleanInv
  OBVIOUS
<1>1. clean /\ virt = NULL /\ \A v \in Pages : mapped[v] = Path(memory, v)[5]
  BY DEF Init, PageInit, Walk
<1>2. \A v \in Pages : mapped[v] = Path(Tables, v)[5]
  BY <1>1, InitialWalk DEF Init
<1> QED  BY <1>1, <1>2 DEF CleanInv, NoHugePage

(* Steps that leave the tables alone.                                        *)
LEMMA CleanKept ==
  ASSUME CleanInv, UNCHANGED <<pageVars, lapic_page>>, free' \subseteq free,
         pc[Bsp] \in Nat, pc'[Bsp] \in Nat, pc[Bsp] <= pc'[Bsp]
  PROVE  CleanInv'
<1>1. memory' = memory /\ dirty' = dirty /\ clean' = clean /\ virt' = virt /\ mapped' = mapped
      /\ lapic_page' = lapic_page
  BY DEF pageVars
<1>2. FreeIsCleared'
  BY <1>1 DEF CleanInv, FreeIsCleared
<1>3. (pc'[Bsp] <= 5 => NoHugePageAt(2)') /\ (pc'[Bsp] <= 6 => NoHugePageAt(3)')
  BY <1>1 DEF CleanInv, NoHugePageAt
<1> QED  BY <1>1, <1>2, <1>3 DEF CleanInv

(* The pdpt and the pd: no huge page is followed, and a frame that becomes a *)
(* table is a cleared one, whose entries are not those of a huge page.       *)
LEMMA CleanDescend ==
  ASSUME BootInv, BootInv', CleanInv, Descend, Entry = NULL => free # {}, lapic_page' = lapic_page,
         pc[Bsp] \in 5..6, pc'[Bsp] = pc[Bsp] + 1
  PROVE  CleanInv'
<1>1. /\ clean /\ MapInv /\ TablesInv /\ InCall
      /\ virt = lapic_page /\ level = pc[Bsp] - 3
  BY DEF CleanInv, BootInv, MapInv
<1>2. table = Path(memory, lapic_page)[level] /\ (level = 2 \/ level = 3)
  BY <1>1 DEF InCall
<1>3. <<table, lapic_page[level]>> \notin Huge
  BY <1>1, <1>2 DEF CleanInv, NoHugePageAt
<1>4. /\ free' \subseteq free /\ dirty' = dirty /\ virt' = virt /\ mapped' = mapped
      /\ clean' = TRUE /\ FreeIsCleared'
      /\ memory' = memory \/ table' \in Spare
  <2>1. CASE Entry # NULL
    BY <1>1, <1>3, <2>1 DEF Descend, TableIndex, CleanInv, FreeIsCleared
  <2>2. CASE Entry = NULL
    <3>1. free # {} /\ free \subseteq Spare /\ free \subseteq Nat
      BY <1>1, <2>2, PageMapAssumption DEF TablesInv, FreeInv, Frames
    <3>2. PICK f : f = Min(free)
      OBVIOUS
    <3>3. f \in free
      BY <3>1, <3>2, MinFree
    <3>4. /\ free' = free \ {f} /\ table' = f /\ clean' = (clean /\ f \notin dirty)
          /\ UNCHANGED <<dirty, virt, mapped>>
      BY <2>2, <3>2 DEF Descend, AllocFrame
    <3> QED  BY <1>1, <3>1, <3>3, <3>4 DEF CleanInv, FreeIsCleared
  <2> QED  BY <2>1, <2>2
<1>5. pc'[Bsp] <= 6 => NoHugePageAt(3)'
  <2>1. CASE memory' = memory
    BY <2>1 DEF CleanInv, NoHugePageAt
  <2>2. CASE table' \in Spare /\ pc'[Bsp] <= 6
    <3>1. pc'[Bsp] = 6
      BY <2>2
    <3>2. InCall' /\ level' = 3 /\ virt' = lapic_page
      BY <1>1, <1>4, <3>1 DEF BootInv, MapInv
    <3>3. table' = Path(memory', lapic_page)[3]
      BY <3>2 DEF InCall
    <3>4. <<table', lapic_page[3]>> \notin Huge
      BY <2>2, PageMapAssumption
    <3> QED  BY <3>3, <3>4 DEF NoHugePageAt
  <2> QED  BY <1>4, <2>1, <2>2
<1> QED  BY <1>1, <1>4, <1>5 DEF CleanInv

LEMMA CleanKmain ==
  ASSUME BootInv, BootInv', CleanInv, pc[Bsp] \in 1..8, Goes(Bsp, Kmain[pc[Bsp]])
  PROVE  CleanInv'
<1>1. PICK label : label = Kmain[pc[Bsp]]
  OBVIOUS
<1>2. pc'[Bsp] = pc[Bsp] + 1 /\ lapic_page' = lapic_page
  BY BootAssumption DEF Goes, BootInv, BootType
<1>3. CASE label \in {"console", "hhdm", "allocator", "start"}
  <2>1. UNCHANGED pageVars /\ free' = free
    BY <1>1, <1>3 DEF Goes, CallMapPage, TakesFrame
  <2> QED  BY <1>2, <2>1, CleanKept
<1>4. CASE label = "lapic" /\ pc[Bsp] = 4
  <2>1. MapPage(lapic_page, LapicPhys)
    BY <1>1, <1>4 DEF Goes, CallMapPage, Effect
  <2>2. virt' = lapic_page /\ UNCHANGED <<memory, free, dirty, clean, mapped>>
    BY <2>1 DEF MapPage
  <2> QED  BY <1>2, <1>4, <2>2 DEF CleanInv, FreeIsCleared, NoHugePageAt
<1>5. CASE label \in {"pdpt", "pd"} /\ pc[Bsp] \in 5..6
  <2>1. Descend /\ (Entry = NULL => free # {})
    BY <1>1, <1>5 DEF Goes, CallMapPage, Effect, TakesFrame
  <2> QED  BY <1>2, <1>5, <2>1, CleanDescend
<1>6. CASE label = "pt" /\ pc[Bsp] = 7
  <2>1. SetEntry /\ virt = lapic_page
    BY <1>1, <1>6 DEF Goes, CallMapPage, Effect, BootInv, MapInv
  <2>2. /\ virt' = NULL /\ mapped' = [mapped EXCEPT ![lapic_page] = phys]
        /\ UNCHANGED <<free, dirty, clean>>
    BY <2>1 DEF SetEntry
  <2>3. DOMAIN mapped = Pages
    BY DEF CleanInv, BootInv, MapInv, TablesInv
  <2>4. \A v \in Pages : v # lapic_page => mapped'[v] = Path(Tables, v)[5]
    BY <2>2, <2>3 DEF CleanInv
  <2> QED  BY <1>2, <1>6, <2>2, <2>4 DEF CleanInv, FreeIsCleared
<1>7. \/ pc[Bsp] = 1 \/ pc[Bsp] = 2 \/ pc[Bsp] = 3 \/ pc[Bsp] = 4
      \/ pc[Bsp] = 5 \/ pc[Bsp] = 6 \/ pc[Bsp] = 7 \/ pc[Bsp] = 8
  OBVIOUS
<1> QED  BY <1>1, <1>3, <1>4, <1>5, <1>6, <1>7 DEF Kmain

LEMMA CleanInvNext == BootInv /\ BootInv' /\ CleanInv /\ [Next]_vars => CleanInv'
<1> SUFFICES ASSUME BootInv, BootInv', CleanInv, [Next]_vars PROVE CleanInv'
  OBVIOUS
<1>1. pc[Bsp] \in Nat /\ pc'[Bsp] \in Nat /\ DOMAIN pc = Cpus
  BY BootAssumption DEF BootInv, BootType, CpuKnown, PlaceKnown
<1>2. ASSUME UNCHANGED <<pc, lapic_page, free, pageVars>> PROVE CleanInv'
  BY <1>1, <1>2, CleanKept
<1>3. ASSUME NEW c \in Cpus, Execute(c) PROVE CleanInv'
  <2>1. CASE Stops(c, "undefined") \/ Stops(c, "panic")
    BY <1>2, <2>1 DEF Stops
  <2>2. CASE c = Bsp /\ pc[c] \in 1..8 /\ Goes(c, Kmain[pc[c]])
    BY <2>2, CleanKmain
  <2>3. CASE (c = Bsp => pc[c] > 8) /\ Pos(c) \in 1..11 /\ Goes(c, CommonEntry[Pos(c)])
    <3>1. PICK label : label = CommonEntry[Pos(c)] /\ label \notin {"lapic", "pdpt", "pd", "pt"}
      BY <2>3, EntryLabel
    <3>2. /\ UNCHANGED <<pageVars, lapic_page>> /\ pc' = [pc EXCEPT ![c] = @ + 1]
          /\ IF TakesFrame(label) THEN AllocFrame ELSE UNCHANGED free
      BY <2>3, <3>1 DEF Goes, CallMapPage
    <3>3. free' \subseteq free
      BY <3>2, FrameTaken
    <3>4. pc[Bsp] <= pc'[Bsp]
      BY <1>1, <3>2, BootAssumption
    <3> QED  BY <1>1, <3>2, <3>3, <3>4, CleanKept
  <2> QED  BY <1>3, <2>1, <2>2, <2>3, ExecuteCases
<1>4. ASSUME NEW d \in Cpus, StartCpu(d) PROVE CleanInv'
  BY <1>2, <1>4 DEF StartCpu
<1>5. CASE UNCHANGED vars
  BY <1>2, <1>5 DEF vars, bootVars
<1> QED  BY <1>3, <1>4, <1>5 DEF Next

(* For any tables of the bootloader that are a tree, if the frames that are  *)
(* free at the start are zero and no huge page is on the way to the page of  *)
(* the LAPIC, mapping that page leaves the translation of every other page   *)
(* as the bootloader made it, half-way through the call and ever after.  The *)
(* two conditions are about the start; map_page itself checks neither.       *)
THEOREM OtherPagesKeepTheirFrames ==
  Spec /\ FreeIsCleared /\ NoHugePage => [](clean /\ BootloaderPagesKept)
<1>1. BootInv /\ CleanInv => clean /\ BootloaderPagesKept
  <2> SUFFICES ASSUME BootInv, CleanInv, NEW v \in Pages, v # lapic_page PROVE Walk(v) = Path(Tables, v)[5]
    BY DEF CleanInv, BootloaderPagesKept
  <2>1. TablesInv /\ v # virt
    BY BootAssumption DEF BootInv, MapInv, CleanInv
  <2> QED  BY <2>1 DEF TablesInv, CleanInv, Walk
<1> QED  BY <1>1, CleanInvInit, CleanInvNext, BootInvariant, PTL DEF Spec

-----------------------------------------------------------------------------
(* Booting refines Scheduler's boot *)

(* What Scheduler sees of a CPU.                                             *)
ThreadAddr(c) == IF tls[c] = NULL THEN NULL ELSE tls[c].thread_addr
Lapic(c) == IF Running(c) THEN cpu[c].lapic ELSE "off"

LEMMA NotSeen ==
  ASSUME online' = online, online \subseteq Cpus,
         \A d \in Cpus : /\ Running(d)' <=> Running(d)
                         /\ ThreadAddr(d)' = ThreadAddr(d)
                         /\ Lapic(d)' = Lapic(d)
  PROVE  UNCHANGED Sched!vars
<1>1. {d \in online' : ~Running(d)'} = {d \in online : ~Running(d)}
  OBVIOUS
<1>2. [c \in Cpus |-> ThreadAddr(c)]' = [c \in Cpus |-> ThreadAddr(c)]
  OBVIOUS
<1>3. [c \in Cpus |-> Lapic(c)]' = [c \in Cpus |-> Lapic(c)]
  OBVIOUS
<1>4. [c \in Cpus |-> IF Running(c) THEN IdleAddr(c) ELSE NULL]' =
        [c \in Cpus |-> IF Running(c) THEN IdleAddr(c) ELSE NULL]
  BY DEF IdleAddr
<1>5. [c \in Cpus |-> IF Running(c) THEN "run" ELSE IF c \in online THEN "boot" ELSE "off"]' =
        [c \in Cpus |-> IF Running(c) THEN "run" ELSE IF c \in online THEN "boot" ELSE "off"]
  OBVIOUS
<1>6. {IdleAddr(c) : c \in {d \in online : ~Running(d)}}' = {IdleAddr(c) : c \in {d \in online : ~Running(d)}}
  BY <1>1 DEF IdleAddr
<1> QED  BY <1>2, <1>3, <1>4, <1>5, <1>6 DEF Sched!vars, ThreadAddr, Lapic

LEMMA SameSeen ==
  ASSUME NEW d \in Cpus, Same(d)
  PROVE  /\ Running(d)' <=> Running(d)
         /\ ThreadAddr(d)' = ThreadAddr(d)
         /\ Lapic(d)' = Lapic(d)
BY DEF Same, Running, ThreadAddr, Lapic

LEMMA SchedInit == Init => Sched!Init
<1> SUFFICES ASSUME Init PROVE Sched!Init
  OBVIOUS
<1>1. \A c \in Cpus : ~Running(c) /\ tls[c] = NULL
  BY DEF Init, Running
<1>2. online = {}
  BY DEF Init
<1>3. Sched!Threads = {} /\ Sched!AnyThread = {IdleAddr(c) : c \in Cpus}
  BY DEF Sched!Threads, Sched!AnyThread, Sched!IdleThreads, Sched!Idle, IdleAddr
<1>4. [t \in {} |-> NULL] = [t \in Sched!Threads |-> [cpu |-> NULL, state |-> "Born"]]
  BY <1>3
<1> QED  BY <1>1, <1>2, <1>3, <1>4 DEF Sched!Init

(* c's publication in CPUS is Scheduler's SetupTls.                          *)
LEMMA PublishSeen ==
  ASSUME BootInv, NEW c \in Cpus, Pos(c) = 5, OwnStep(c), Effect(c, "publish")
  PROVE  Sched!SetupTls(c)
<1>1. online' = online \cup {c} /\ UNCHANGED <<status, tls, cpu>>
  BY DEF Effect, Publish
<1>2. c \notin online /\ ~Running(c) /\ ThreadAddr(c) = NULL
  BY DEF BootInv, CpuKnown, PlaceKnown, TlsKnown, Running, ThreadAddr
<1>3. \A d \in Cpus : (Running(d)' <=> Running(d)) /\ ThreadAddr(d)' = ThreadAddr(d) /\ Lapic(d)' = Lapic(d)
  BY <1>1 DEF Running, ThreadAddr, Lapic
<1>4. {IdleAddr(d) : d \in {e \in online' : ~Running(e)'}} =
        {IdleAddr(d) : d \in {e \in online : ~Running(e)}} \cup {Sched!Idle(c)}
  BY <1>1, <1>2, <1>3 DEF BootInv, BootType, Sched!Idle, IdleAddr
<1> QED  BY <1>1, <1>2, <1>3, <1>4 DEF Sched!SetupTls, Sched!Goto, ThreadAddr, Lapic

(* c's switch to its idle thread is Scheduler's.                             *)
LEMMA IdleSeen ==
  ASSUME BootInv, NEW c \in Cpus, Pos(c) = 11, OwnStep(c), Effect(c, "idle")
  PROVE  Sched!ForceSwitchToIdle(c)
<1>1. online' = online /\ status' = [status EXCEPT ![c] = "idle"] /\ DOMAIN status = Cpus
  BY DEF Effect, ForceSwitchToIdle, BootInv, BootType
<1>2. c \in online /\ ~Running(c) /\ Running(c)'
  BY <1>1 DEF BootInv, CpuKnown, PlaceKnown, TlsKnown, Running
<1>3. Pos(c)' = 12
  BY DEF OwnStep, Pos
<1>4. CpuKnown(c)'
  BY DEF OwnStep
<1>5. ThreadAddr(c)' = IdleAddr(c) /\ Lapic(c)' = "armed"
  <2>1. tls'[c] \in TlsPages /\ tls'[c].thread_addr = IdleAddr(c)
    BY <1>3, <1>4 DEF CpuKnown, TlsKnown
  <2>2. ThreadAddr(c)' = IdleAddr(c)
    BY <2>1, TlsAssumption DEF ThreadAddr
  <2>3. Lapic(c)' = "armed"
    BY <1>2, <1>3, <1>4 DEF CpuKnown, RegsKnown, Lapic
  <2> QED  BY <2>2, <2>3
<1>6. \A d \in Cpus : d # c =>
        (Running(d)' <=> Running(d)) /\ ThreadAddr(d)' = ThreadAddr(d) /\ Lapic(d)' = Lapic(d)
  BY SameSeen DEF OwnStep
<1>7. {IdleAddr(d) : d \in {e \in online' : ~Running(e)'}} =
        {IdleAddr(d) : d \in {e \in online : ~Running(e)}} \ {Sched!Idle(c)}
  <2>1. online \subseteq Cpus /\ \A d \in Cpus : IdleAddr(d) = Sched!Idle(c) <=> d = c
    BY BootAssumption DEF BootInv, BootType, IdleAddr, Sched!Idle
  <2>2. {e \in online' : ~Running(e)'} = {e \in online : ~Running(e)} \ {c}
    BY <1>1, <1>2, <1>6, <2>1
  <2> QED  BY <2>1, <2>2
<1>8. Sched!Idle(c) = IdleAddr(c)
  BY DEF Sched!Idle, IdleAddr
<1>9. [d \in Cpus |-> ThreadAddr(d)]' = [[d \in Cpus |-> ThreadAddr(d)] EXCEPT ![c] = Sched!Idle(c)]
  BY <1>5, <1>6, <1>8
<1>10. [d \in Cpus |-> Lapic(d)]' = [[d \in Cpus |-> Lapic(d)] EXCEPT ![c] = "armed"]
  BY <1>5, <1>6
<1>11. [d \in Cpus |-> IF Running(d) THEN IdleAddr(d) ELSE NULL]' =
         [[d \in Cpus |-> IF Running(d) THEN IdleAddr(d) ELSE NULL] EXCEPT ![c] = Sched!Idle(c)]
  BY <1>2, <1>6, <1>8 DEF IdleAddr
<1>12. [d \in Cpus |-> IF Running(d) THEN "run" ELSE IF d \in online THEN "boot" ELSE "off"]' =
         [[d \in Cpus |-> IF Running(d) THEN "run" ELSE IF d \in online THEN "boot" ELSE "off"]
            EXCEPT ![c] = "run"]
  BY <1>1, <1>2, <1>6
<1>13. [x \in {IdleAddr(d) : d \in Cpus} |-> NULL][Sched!Idle(c)] = NULL
  BY <1>8
<1> QED  BY <1>1, <1>2, <1>7, <1>9, <1>10, <1>11, <1>12, <1>13
            DEF Sched!ForceSwitchToIdle, Sched!Goto, ThreadAddr, Lapic

LEMMA EntrySeen ==
  ASSUME BootInv, NEW c \in Cpus, Pos(c) \in 1..11, Effect(c, CommonEntry[Pos(c)]), OwnStep(c)
  PROVE  Sched!SetupTls(c) \/ Sched!ForceSwitchToIdle(c) \/ UNCHANGED Sched!vars
<1>1. CASE Pos(c) = 5
  <2>1. CommonEntry[Pos(c)] = "publish"
    BY <1>1 DEF CommonEntry
  <2> QED  BY <1>1, <2>1, PublishSeen
<1>2. CASE Pos(c) = 11
  <2>1. CommonEntry[Pos(c)] = "idle"
    BY <1>2 DEF CommonEntry
  <2> QED  BY <1>2, <2>1, IdleSeen
<1>3. CASE Pos(c) # 5 /\ Pos(c) # 11
  <2>1. CpuKnown(c) /\ CpuKnown(c)' /\ Pos(c)' = Pos(c) + 1
    BY DEF BootInv, OwnStep, Pos
  <2>2. Running(c)' <=> Running(c)
    BY <1>3, <2>1 DEF CpuKnown, PlaceKnown, Running
  <2>3. ~Running(c)
    BY <1>3, <2>1 DEF CpuKnown, PlaceKnown, Running
  <2>4. ThreadAddr(c) = NULL /\ ThreadAddr(c)' = NULL
    BY <1>3, <2>1 DEF CpuKnown, TlsKnown, ThreadAddr
  <2>5. online' = online
    <3>1. c \in online' <=> c \in online
      BY <1>3, <2>1 DEF CpuKnown, TlsKnown
    <3>2. online \subseteq Cpus /\ online' \subseteq Cpus
      BY DEF BootInv, BootType, OwnStep
    <3>3. \A d \in Cpus : d \in online' <=> d \in online
      BY <3>1 DEF OwnStep, Same
    <3> QED  BY <3>2, <3>3
  <2>6. ASSUME NEW d \in Cpus
        PROVE  (Running(d)' <=> Running(d)) /\ ThreadAddr(d)' = ThreadAddr(d) /\ Lapic(d)' = Lapic(d)
    BY <2>2, <2>3, <2>4, SameSeen DEF OwnStep, Lapic
  <2> QED  BY <2>5, <2>6, NotSeen DEF BootInv, BootType
<1> QED  BY <1>1, <1>2, <1>3

LEMMA SchedNext == BootInv /\ [Next]_vars => [Sched!Next]_(Sched!vars)
<1> SUFFICES ASSUME BootInv, [Next]_vars PROVE Sched!Next \/ UNCHANGED Sched!vars
  OBVIOUS
<1>1. ASSUME UNCHANGED <<online, tls, cpu>>, NEW d \in Cpus, status[d] # "idle", NEW s, s # "idle",
             status' = status \/ status' = [status EXCEPT ![d] = s]
      PROVE  UNCHANGED Sched!vars
  <2>1. \A e \in Cpus : Running(e)' <=> Running(e)
    BY <1>1 DEF BootInv, BootType, Running
  <2>2. \A e \in Cpus : ThreadAddr(e)' = ThreadAddr(e) /\ Lapic(e)' = Lapic(e)
    BY <1>1, <2>1 DEF ThreadAddr, Lapic
  <2> QED  BY <1>1, <2>1, <2>2, NotSeen DEF BootInv, BootType
<1>2. ASSUME NEW c \in Cpus, Execute(c) PROVE Sched!Next \/ UNCHANGED Sched!vars
  <2>1. status[c] = "on"
    BY <1>2, ExecuteCases
  <2>2. CASE Stops(c, "undefined") \/ Stops(c, "panic")
    BY <1>1, <2>1, <2>2 DEF Stops
  <2>3. CASE c = Bsp /\ pc[c] \in 1..8 /\ Goes(c, Kmain[pc[c]])
    <3>1. \/ pc[c] = 1 \/ pc[c] = 2 \/ pc[c] = 3 \/ pc[c] = 4 \/ pc[c] = 5 \/ pc[c] = 6 \/ pc[c] = 7 \/ pc[c] = 8
      BY <2>3
    <3>2. Kmain[pc[c]] \in {"console", "hhdm", "allocator", "lapic", "pdpt", "pd", "pt", "start"}
      BY <3>1 DEF Kmain
    <3>3. UNCHANGED <<status, online, tls, cpu>>
      BY <2>3, <3>2 DEF Goes, Effect, Sets, Started
    <3> QED  BY <1>1, <2>1, <3>3
  <2>4. CASE (c = Bsp => pc[c] > 8) /\ Pos(c) \in 1..11 /\ Goes(c, CommonEntry[Pos(c)])
    <3>1. Sched!SetupTls(c) \/ Sched!ForceSwitchToIdle(c) \/ UNCHANGED Sched!vars
      BY <2>1, <2>4, EntryStep, EntrySeen
    <3> QED  BY <3>1 DEF Sched!Next, Sched!Boot
  <2> QED  BY <1>2, <2>2, <2>3, <2>4, ExecuteCases
<1>3. ASSUME NEW d \in Cpus, StartCpu(d) PROVE UNCHANGED Sched!vars
  BY <1>1, <1>3 DEF StartCpu
<1>4. CASE UNCHANGED vars
  <2>1. online' = online /\ status' = status /\ tls' = tls /\ cpu' = cpu
    BY <1>4 DEF vars, bootVars
  <2> QED  BY <2>1, NotSeen DEF BootInv, BootType, Running, ThreadAddr, Lapic
<1> QED  BY <1>2, <1>3, <1>4 DEF Next

(* ImplementsSchedulerBoot: setup_tls's publication and the switch to the    *)
(* idle thread are the only steps Scheduler sees, each CPU takes them in     *)
(* that order and once, with the timer armed and the state Scheduler says.   *)
THEOREM BootRefinesScheduler == Spec => ImplementsSchedulerBoot
<1>1. BootInv /\ [Next]_vars => [Sched!Next]_(Sched!vars)
  BY SchedNext
<1> QED  BY SchedInit, <1>1, BootInvariant, PTL DEF Spec, ImplementsSchedulerBoot, Sched!Spec
=============================================================================
