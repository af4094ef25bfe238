------------------------ MODULE FrameAllocatorProofs ------------------------
(***************************************************************************)
(* FrameAllocator for any number and size of regions: frames are handed out *)
(* once, the metadata never, the first-fit scan misses no run, and the free *)
(* frames are counted right.  FrameInit for any memory map: the metadata    *)
(* lies where nothing else is, its frames alone are reserved, and what      *)
(* FrameAllocator assumes holds.                                            *)
(***************************************************************************)
EXTENDS FrameAllocator, FrameInit, SequenceTheorems, FiniteSetTheorems, FunctionTheorems,
        WellFoundedInduction, TLAPS

(* The loop invariant of MemoryRegion::alloc: the consecutive_free bits      *)
(* before i are free, start_index is where they begin, and the bit before    *)
(* them, if there is one, is used.                                           *)
ScanInv ==
  lock = "taken" =>
    /\ slot = "Some"
    /\ region \in RegionIds =>
         /\ i <= Regions[region].size
         /\ consecutive_free <= i
         /\ consecutive_free > 0 => start_index = i - consecutive_free
         /\ \A j \in (i - consecutive_free)..(i - 1) : j \notin bitmap[region]
         /\ consecutive_free < i => (i - consecutive_free - 1) \in bitmap[region]
         /\ count > 0 => consecutive_free < count

(* Before init nobody has frames.                                           *)
EmptyInv == slot = "None" => held = {} /\ lock = "free"

FrameInv == TypeOK /\ BitmapTracksOwners /\ NoRunSkipped /\ ScanInv /\ EmptyInv

(* Regions and bits are numbers, and a frame is in one region only.         *)
LEMMA RegionLemma ==
  /\ Len(Regions) \in Nat /\ RegionIds = 1..Len(Regions)
  /\ \A r \in RegionIds : Regions[r].start \in Nat /\ Regions[r].size \in Nat
  /\ \A r, s \in RegionIds : \A j \in Bits(r), k \in Bits(s) :
       FrameOf(r, j) = FrameOf(s, k) => r = s /\ j = k
  /\ Reserved(Host) \subseteq Bits(Host)
  /\ Host \in RegionIds
<1> USE FrameAllocatorAssumption
<1>1. Len(Regions) \in Nat /\ RegionIds = 1..Len(Regions)
  BY DEF RegionIds
<1>2. \A r \in RegionIds : Regions[r].start \in Nat /\ Regions[r].size \in Nat
  <2> SUFFICES ASSUME NEW r \in RegionIds PROVE Regions[r].start \in Nat /\ Regions[r].size \in Nat
    OBVIOUS
  <2>1. Regions[r] \in [start : Nat, size : Nat]
    BY <1>1, ElementOfSeq
  <2> QED  BY <2>1
<1>3. ASSUME NEW r \in RegionIds, NEW s \in RegionIds, NEW j \in Bits(r), NEW k \in Bits(s),
             FrameOf(r, j) = FrameOf(s, k)
      PROVE  r = s /\ j = k
  <2>1. FrameOf(r, j) \in FramesOf(r) /\ FrameOf(s, k) \in FramesOf(s)
    BY DEF FramesOf
  <2>2. r = s
    BY <1>3, <2>1
  <2> QED  BY <1>2, <1>3, <2>2, SMTT(30) DEF FrameOf, Bits
<1>4. Reserved(Host) \subseteq Bits(Host)
  BY <1>2 DEF Reserved, Bits
<1> QED  BY <1>1, <1>2, <1>3, <1>4

(* Nothing is allocated before init.                                        *)
LEMMA FrameInit0 == Init => FrameInv
<1> SUFFICES ASSUME Init PROVE FrameInv
  OBVIOUS
<1>1. TypeOK
  BY RegionLemma DEF Init, TypeOK
<1>2. BitmapTracksOwners /\ NoRunSkipped /\ ScanInv /\ EmptyInv
  BY DEF Init, BitmapTracksOwners, NoRunSkipped, ScanInv, EmptyInv
<1> QED  BY <1>1, <1>2 DEF FrameInv

(* init reserves the metadata and nothing else.                             *)
LEMMA InitAllocatorStep ==
  ASSUME FrameInv, InitAllocator
  PROVE  FrameInv'
<1> USE DEF InitAllocator, locals
<1>1. TypeOK'
  <2>1. \A r \in RegionIds : Reserved(r) \subseteq Bits(r) /\ Bits(r) \subseteq Nat
    BY RegionLemma DEF Reserved, Bits
  <2> QED  BY <2>1 DEF FrameInv, TypeOK
<1>2. BitmapTracksOwners'
  BY DEF FrameInv, BitmapTracksOwners, EmptyInv
<1>3. NoRunSkipped' /\ ScanInv' /\ EmptyInv'
  BY DEF NoRunSkipped, ScanInv, EmptyInv
<1> QED  BY <1>1, <1>2, <1>3 DEF FrameInv

(* A scan starts with an empty run at the first bit.                        *)
LEMMA AllocBeginStep ==
  ASSUME FrameInv, NEW n \in Counts, AllocBegin(n)
  PROVE  FrameInv'
<1> USE FrameAllocatorAssumption DEF AllocBegin
<1>1. TypeOK'
  BY RegionLemma DEF FrameInv, TypeOK
<1>2. BitmapTracksOwners' /\ EmptyInv'
  BY DEF FrameInv, BitmapTracksOwners, EmptyInv
<1>3. NoRunSkipped'
  BY RegionLemma DEF NoRunSkipped
<1>4. ScanInv'
  BY RegionLemma DEF ScanInv
<1> QED  BY <1>1, <1>2, <1>3, <1>4 DEF FrameInv

(* A run of n bits, n > 0, that lies below k + 1 but not below k, has bit k.*)
LEMMA RunEnd ==
  ASSUME NEW n \in Nat, NEW k \in Nat, NEW j \in 0..(k + 1 - n), n > 0
  PROVE  j \in 0..(k - n) \/ (j = k + 1 - n /\ k \in RunOf(j, n))
BY DEF RunOf

(* An iteration over a used bit: no run ends there.                         *)
LEMMA ScanUsedStep ==
  ASSUME FrameInv, ScanUsed
  PROVE  FrameInv'
<1>1. /\ i' = i + 1 /\ consecutive_free' = 0
      /\ UNCHANGED <<slot, bitmap, lock, count, region, start_index, held>>
      /\ lock = "taken" /\ region \in RegionIds /\ i < Regions[region].size /\ i \in bitmap[region]
  BY DEF ScanUsed, RunReset, IsSet
<1>2. i \in Nat /\ count \in Nat /\ Regions[region].size \in Nat
  BY <1>1, RegionLemma, FrameAllocatorAssumption, SMTT(30) DEF FrameInv, TypeOK
<1>3. TypeOK'
  BY <1>1 DEF FrameInv, TypeOK
<1>4. BitmapTracksOwners' /\ EmptyInv'
  BY <1>1 DEF FrameInv, BitmapTracksOwners, EmptyInv
<1>5. ScanInv'
  BY <1>1, <1>2 DEF FrameInv, ScanInv
<1>6. count > 0 => \A j \in 0..(i + 1 - count) : ~IsFreeRun(region, bitmap[region], j, count)
  <2> SUFFICES ASSUME count > 0, NEW j \in 0..(i + 1 - count)
               PROVE  ~IsFreeRun(region, bitmap[region], j, count)
    OBVIOUS
  <2>1. CASE j \in 0..(i - count)
    BY <1>1, <2>1 DEF FrameInv, NoRunSkipped
  <2>2. CASE i \in RunOf(j, count)
    BY <1>1, <2>2 DEF IsFreeRun
  <2> QED  BY <1>2, <2>1, <2>2, RunEnd
<1>7. NoRunSkipped'
  <2> SUFFICES ASSUME count > 0
               PROVE  /\ \A r \in 1..(region' - 1) : \A j \in Bits(r) : ~IsFreeRun(r, bitmap'[r], j, count')
                      /\ \A j \in 0..(i' - count') : ~IsFreeRun(region', bitmap'[region'], j, count')
    BY <1>1 DEF NoRunSkipped
  <2>1. \A r \in 1..(region - 1) : \A j \in Bits(r) : ~IsFreeRun(r, bitmap[r], j, count)
    BY <1>1 DEF FrameInv, NoRunSkipped
  <2> QED  BY <1>1, <1>2, <1>6, <2>1
<1> QED  BY <1>3, <1>4, <1>5, <1>7 DEF FrameInv

(* An iteration over a free bit: a run of `count` that ended there would     *)
(* reach back to the used bit before the current run.                        *)
LEMMA ScanFreeStep ==
  ASSUME FrameInv, ScanFree
  PROVE  FrameInv'
<1> DEFINE cf == consecutive_free
<1>1. /\ i' = i + 1 /\ consecutive_free' = cf + 1
      /\ UNCHANGED <<slot, bitmap, lock, count, region, held>>
      /\ lock = "taken" /\ region \in RegionIds /\ i < Regions[region].size
      /\ i \notin bitmap[region] /\ cf + 1 # count
      /\ cf = 0 => start_index' = i
      /\ cf # 0 => start_index' = start_index
  BY DEF ScanFree, IsSet, Enough, RunStart
<1>2. /\ i \in Nat /\ cf \in Nat /\ count \in Nat /\ start_index \in Nat
      /\ Regions[region].size \in Nat
  BY <1>1, RegionLemma, FrameAllocatorAssumption, SMTT(30) DEF FrameInv, TypeOK
<1>3. TypeOK'
  BY <1>1, <1>2 DEF FrameInv, TypeOK
<1>4. BitmapTracksOwners' /\ EmptyInv'
  BY <1>1 DEF FrameInv, BitmapTracksOwners, EmptyInv
<1>5. /\ slot = "Some" /\ cf <= i
      /\ cf > 0 => start_index = i - cf
      /\ \A j \in (i - cf)..(i - 1) : j \notin bitmap[region]
      /\ cf < i => (i - cf - 1) \in bitmap[region]
      /\ count > 0 => cf + 1 < count
  BY <1>1, <1>2 DEF FrameInv, ScanInv
<1>6. ScanInv'
  <2>1. start_index' = (i + 1) - (cf + 1)
    BY <1>1, <1>2, <1>5
  <2>2. \A j \in ((i + 1) - (cf + 1))..((i + 1) - 1) : j \in (i - cf)..(i - 1) \/ j = i
    BY <1>2
  <2>3. (i + 1) - (cf + 1) - 1 = i - cf - 1 /\ (cf + 1 < i + 1 <=> cf < i)
        /\ i + 1 <= Regions[region].size /\ cf + 1 <= i + 1
    BY <1>1, <1>2, <1>5
  <2> HIDE DEF cf
  <2> QED  BY <1>1, <1>5, <2>1, <2>2, <2>3 DEF ScanInv
<1>7. count > 0 => \A j \in 0..(i + 1 - count) : ~IsFreeRun(region, bitmap[region], j, count)
  <2> SUFFICES ASSUME count > 0, NEW j \in 0..(i + 1 - count)
               PROVE  ~IsFreeRun(region, bitmap[region], j, count)
    OBVIOUS
  <2>1. CASE j \in 0..(i - count)
    BY <1>1, <2>1 DEF FrameInv, NoRunSkipped
  <2>2. CASE j = i + 1 - count
    <3>1. cf < i /\ i - cf - 1 \in RunOf(j, count)
      BY <1>2, <1>5, <2>2 DEF RunOf
    <3> QED  BY <1>5, <3>1 DEF IsFreeRun
  <2> QED  BY <1>2, <2>1, <2>2, RunEnd
<1>8. NoRunSkipped'
  <2> SUFFICES ASSUME count > 0
               PROVE  /\ \A r \in 1..(region' - 1) : \A j \in Bits(r) : ~IsFreeRun(r, bitmap'[r], j, count')
                      /\ \A j \in 0..(i' - count') : ~IsFreeRun(region', bitmap'[region'], j, count')
    BY <1>1 DEF NoRunSkipped
  <2>1. \A r \in 1..(region - 1) : \A j \in Bits(r) : ~IsFreeRun(r, bitmap[r], j, count)
    BY <1>1 DEF FrameInv, NoRunSkipped
  <2> QED  BY <1>1, <1>2, <1>7, <2>1
<1> QED  BY <1>3, <1>4, <1>6, <1>8 DEF FrameInv

(* The end of a region: every run of it ends before its last bit.           *)
LEMMA NextRegionStep ==
  ASSUME FrameInv, NextRegion
  PROVE  FrameInv'
<1>1. /\ region' = region + 1 /\ i' = 0 /\ consecutive_free' = 0 /\ start_index' = 0
      /\ UNCHANGED <<slot, bitmap, lock, count, held>>
      /\ lock = "taken" /\ region \in RegionIds /\ i >= Regions[region].size
  BY DEF NextRegion
<1>2. /\ i \in Nat /\ count \in Nat /\ Regions[region].size \in Nat /\ region \in Nat
      /\ region \in 1..Len(Regions) /\ Len(Regions) \in Nat /\ i = Regions[region].size
  BY <1>1, RegionLemma, FrameAllocatorAssumption, SMTT(30) DEF FrameInv, TypeOK, ScanInv
<1>3. TypeOK'
  BY <1>1, <1>2 DEF FrameInv, TypeOK
<1>4. BitmapTracksOwners' /\ EmptyInv'
  BY <1>1 DEF FrameInv, BitmapTracksOwners, EmptyInv
<1>5. ScanInv'
  <2>1. region' \in RegionIds => Regions[region'].size \in Nat
    BY RegionLemma
  <2> QED  BY <1>1, <1>2, <2>1 DEF FrameInv, ScanInv
<1>6. count > 0 => \A j \in Bits(region) : ~IsFreeRun(region, bitmap[region], j, count)
  <2> SUFFICES ASSUME count > 0, NEW j \in Bits(region),
                      IsFreeRun(region, bitmap[region], j, count)
               PROVE  FALSE
    OBVIOUS
  <2>1. j + count - 1 \in RunOf(j, count) /\ j \in Nat
    BY <1>2 DEF RunOf, Bits
  <2>2. j + count - 1 \in Bits(region)
    BY <2>1 DEF IsFreeRun
  <2>3. j \in 0..(i - count)
    BY <1>2, <2>1, <2>2 DEF Bits
  <2> QED  BY <1>1, <2>3 DEF FrameInv, NoRunSkipped
<1>7. NoRunSkipped'
  <2> SUFFICES ASSUME count > 0
               PROVE  /\ \A r \in 1..region : \A j \in Bits(r) : ~IsFreeRun(r, bitmap[r], j, count)
                      /\ \A j \in 0..(0 - count) : ~IsFreeRun(region', bitmap'[region'], j, count)
    BY <1>1, <1>2 DEF NoRunSkipped
  <2>1. \A r \in 1..(region - 1) : \A j \in Bits(r) : ~IsFreeRun(r, bitmap[r], j, count)
    BY <1>1 DEF FrameInv, NoRunSkipped
  <2>2. \A r \in 1..region : r \in 1..(region - 1) \/ r = region
    BY <1>2
  <2> QED  BY <1>2, <1>6, <2>1, <2>2
<1> QED  BY <1>3, <1>4, <1>5, <1>7 DEF FrameInv

(* What AllocFound hands out: `count` free bits of one region.              *)
LEMMA FoundRun ==
  ASSUME FrameInv, AllocFound
  PROVE  /\ region \in RegionIds /\ count \in Nat /\ count > 0 /\ RunStart \in Nat
         /\ RunStart \in Bits(region)
         /\ RunOf(RunStart, count) \subseteq Bits(region) \ bitmap[region]
<1>1. /\ lock = "taken" /\ region \in RegionIds /\ i < Regions[region].size
      /\ i \notin bitmap[region] /\ consecutive_free + 1 = count
  BY DEF AllocFound, IsSet, Enough
<1>2. i \in Nat /\ count \in Nat /\ consecutive_free \in Nat /\ Regions[region].size \in Nat
  BY <1>1, RegionLemma, FrameAllocatorAssumption, SMTT(30) DEF FrameInv, TypeOK
<1>3. /\ consecutive_free <= i
      /\ consecutive_free > 0 => start_index = i - consecutive_free
      /\ \A j \in (i - consecutive_free)..(i - 1) : j \notin bitmap[region]
  BY <1>1 DEF FrameInv, ScanInv
<1>4. RunStart = i - consecutive_free
  <2>1. CASE consecutive_free = 0
    BY <1>2, <2>1 DEF RunStart
  <2>2. CASE consecutive_free > 0
    BY <1>2, <1>3, <2>2 DEF RunStart
  <2> QED  BY <1>2, <2>1, <2>2
<1>5. RunOf(RunStart, count) = (i - consecutive_free)..i
  BY <1>1, <1>2, <1>4 DEF RunOf
<1>6. \A j \in (i - consecutive_free)..i : j \in (i - consecutive_free)..(i - 1) \/ j = i
  BY <1>2
<1> QED  BY <1>1, <1>2, <1>3, <1>4, <1>5, <1>6 DEF Bits

(* Handing out free bits keeps the bitmap in step with the owners.          *)
LEMMA AllocFoundStep ==
  ASSUME FrameInv, AllocFound
  PROVE  /\ FrameInv'
         /\ \A k \in RunOf(RunStart, count) : FrameOf(region, k) \notin held \cup Metadata
<1> DEFINE run == RunOf(RunStart, count)
<1>1. /\ bitmap' = [bitmap EXCEPT ![region] = @ \cup run]
      /\ held' = held \cup {FrameOf(region, j) : j \in run}
      /\ lock = "taken" /\ lock' = "free" /\ slot' = slot /\ UNCHANGED locals
  BY DEF AllocFound
<1>2. region \in RegionIds /\ run \subseteq Bits(region) \ bitmap[region]
  BY FoundRun
<1>3. \A r \in RegionIds : Bits(r) \subseteq Nat /\ \A j \in Bits(r) : FrameOf(r, j) \in Nat
  BY RegionLemma DEF Bits, FrameOf
<1> HIDE DEF run
<1>4. slot = "Some"
  BY <1>1 DEF FrameInv, ScanInv
<1>5. TypeOK'
  BY <1>1, <1>2, <1>3, <1>4 DEF FrameInv, TypeOK, locals
<1>6. \A j \in run : FrameOf(region, j) \notin held /\ j \notin Reserved(region)
  BY <1>2, <1>4 DEF FrameInv, BitmapTracksOwners
<1>7. \A j \in run : FrameOf(region, j) \notin Metadata
  <2> SUFFICES ASSUME NEW j \in run, NEW k \in Reserved(Host), FrameOf(region, j) = FrameOf(Host, k)
               PROVE  FALSE
    BY DEF Metadata
  <2>1. region = Host /\ j = k
    BY <1>2, RegionLemma
  <2> QED  BY <1>6, <2>1
<1>8. \A f \in held' : f \notin Metadata /\ \E r \in RegionIds : f \in FramesOf(r)
  <2>1. \A f \in held : f \notin Metadata /\ \E r \in RegionIds : f \in FramesOf(r)
    BY DEF FrameInv, BitmapTracksOwners
  <2>2. \A j \in run : FrameOf(region, j) \in FramesOf(region)
    BY <1>2 DEF FramesOf
  <2> QED  BY <1>1, <1>2, <1>7, <2>1, <2>2
<1>9. ASSUME NEW r \in RegionIds
      PROVE  bitmap'[r] = Reserved(r) \cup {j \in Bits(r) : FrameOf(r, j) \in held'}
  <2>1. bitmap[r] = Reserved(r) \cup {j \in Bits(r) : FrameOf(r, j) \in held}
    BY <1>4 DEF FrameInv, BitmapTracksOwners
  <2>2. bitmap'[r] = IF r = region THEN bitmap[r] \cup run ELSE bitmap[r]
    BY <1>1 DEF FrameInv, TypeOK
  <2>3. \A j \in Bits(r) : FrameOf(r, j) \in {FrameOf(region, k) : k \in run} <=> r = region /\ j \in run
    BY <1>2, RegionLemma
  <2>4. \A j \in Bits(r) : FrameOf(r, j) \in held' <=> FrameOf(r, j) \in held \/ (r = region /\ j \in run)
    BY <1>1, <2>3
  <2> QED  BY <1>2, <2>1, <2>2, <2>4
<1>10. BitmapTracksOwners'
  BY <1>8, <1>9 DEF BitmapTracksOwners
<1>11. NoRunSkipped' /\ ScanInv' /\ EmptyInv'
  BY <1>1, <1>4 DEF NoRunSkipped, ScanInv, EmptyInv
<1> QED  BY <1>5, <1>6, <1>7, <1>10, <1>11 DEF FrameInv, run

(* Giving frames back clears their bits and no others.                      *)
LEMMA DeallocStep ==
  ASSUME FrameInv, NEW f \in held, NEW n \in Counts \ {0}, Dealloc(f, n)
  PROVE  FrameInv'
<1>1. PICK d \in RegionIds :
        /\ Contains(d, f)
        /\ RunOf(f, n) \subseteq FramesOf(d)
        /\ bitmap' = [bitmap EXCEPT ![d] = @ \ RunOf(f - Regions[d].start, n)]
  BY DEF Dealloc, Cleared
<1>2. /\ slot = "Some" /\ lock = "free" /\ RunOf(f, n) \subseteq held
      /\ held' = held \ RunOf(f, n) /\ UNCHANGED <<slot, lock, locals>>
  BY DEF Dealloc
<1> DEFINE base == Regions[d].start
           run == RunOf(f - base, n)
<1>3. f \in Nat /\ n \in Nat /\ base \in Nat
  BY RegionLemma, FrameAllocatorAssumption DEF FrameInv, TypeOK
<1>4. \A j \in Bits(d) : FrameOf(d, j) \in RunOf(f, n) <=> j \in run
  <2> SUFFICES ASSUME NEW j \in Bits(d) PROVE FrameOf(d, j) \in RunOf(f, n) <=> j \in run
    OBVIOUS
  <2>1. j \in Nat
    BY RegionLemma DEF Bits
  <2>2. base + j \in f..(f + n - 1) <=> j \in (f - base)..((f - base) + n - 1)
    <3> HIDE DEF base
    <3> QED  BY <1>3, <2>1
  <2> QED  BY <2>2 DEF RunOf, FrameOf
<1>5. ASSUME NEW r \in RegionIds, r # d, NEW j \in Bits(r)
      PROVE  FrameOf(r, j) \notin RunOf(f, n)
  <2>1. FrameOf(r, j) \in FramesOf(r)
    BY DEF FramesOf
  <2> QED  BY <1>1, <1>5, <2>1, FrameAllocatorAssumption
<1> HIDE DEF run
<1>6. TypeOK'
  <2>1. \A r \in RegionIds : bitmap'[r] \subseteq bitmap[r]
    BY <1>1 DEF FrameInv, TypeOK
  <2>2. bitmap' \in [RegionIds -> SUBSET Nat]
    BY <1>1 DEF FrameInv, TypeOK
  <2> QED  BY <1>2, <2>1, <2>2 DEF FrameInv, TypeOK, locals
<1>7. \A j \in run : j \notin Reserved(d) \/ j \notin Bits(d)
  <2> SUFFICES ASSUME NEW j \in run, j \in Reserved(d), j \in Bits(d) PROVE FALSE
    OBVIOUS
  <2>1. FrameOf(d, j) \in held /\ d = Host
    BY <1>2, <1>4 DEF Reserved
  <2>2. FrameOf(d, j) \in Metadata
    BY <2>1 DEF Metadata
  <2> QED  BY <2>1, <2>2 DEF FrameInv, BitmapTracksOwners
<1>8. ASSUME NEW r \in RegionIds
      PROVE  bitmap'[r] = Reserved(r) \cup {j \in Bits(r) : FrameOf(r, j) \in held'}
  <2>1. bitmap[r] = Reserved(r) \cup {j \in Bits(r) : FrameOf(r, j) \in held}
    BY <1>2 DEF FrameInv, BitmapTracksOwners
  <2>2. bitmap'[r] = IF r = d THEN bitmap[r] \ run ELSE bitmap[r]
    BY <1>1 DEF FrameInv, TypeOK, run
  <2>3. Reserved(r) \subseteq Bits(r)
    BY RegionLemma DEF Reserved
  <2>4. CASE r = d
    BY <1>2, <1>4, <1>7, <2>1, <2>2, <2>3, <2>4
  <2>5. CASE r # d
    <3>1. \A j \in Bits(r) : FrameOf(r, j) \in held' <=> FrameOf(r, j) \in held
      BY <1>2, <1>5, <2>5
    <3> QED  BY <2>1, <2>2, <2>5, <3>1
  <2> QED  BY <2>4, <2>5
<1>9. BitmapTracksOwners'
  BY <1>2, <1>8 DEF FrameInv, BitmapTracksOwners
<1>10. NoRunSkipped' /\ ScanInv' /\ EmptyInv'
  BY <1>2 DEF NoRunSkipped, ScanInv, EmptyInv
<1> QED  BY <1>6, <1>9, <1>10 DEF FrameInv

(* FrameInv is inductive.                                                   *)
LEMMA FrameNext ==
  ASSUME FrameInv, [Next]_vars
  PROVE  FrameInv'
<1>1. CASE AllocFailed
  BY <1>1 DEF AllocFailed, FrameInv, TypeOK, BitmapTracksOwners, NoRunSkipped, ScanInv, EmptyInv,
              locals
<1>2. CASE UNCHANGED vars
  BY <1>2 DEF vars, FrameInv, TypeOK, BitmapTracksOwners, NoRunSkipped, ScanInv, EmptyInv
<1> QED  BY <1>1, <1>2, InitAllocatorStep, AllocBeginStep, ScanFreeStep, ScanUsedStep,
            AllocFoundStep, NextRegionStep, DeallocStep DEF Next

(* FrameInv holds in every reachable state.                                 *)
THEOREM FrameInvariant == Spec => []FrameInv
<1>1. FrameInv /\ [Next]_vars => FrameInv'
  BY FrameNext
<1> QED  BY <1>1, FrameInit0, PTL DEF Spec

(* A bit is 1 exactly if its frame is reserved or held: no leak, no frame   *)
(* with two owners, and the metadata never with a caller.                   *)
THEOREM OwnersTracked == Spec => []BitmapTracksOwners
<1>1. FrameInv => BitmapTracksOwners
  BY DEF FrameInv
<1> QED  BY <1>1, FrameInvariant, PTL

(* The scan is first-fit, and OutOfMemory means there is no run to be had.  *)
THEOREM FirstFit == Spec => []NoRunSkipped
<1>1. FrameInv => NoRunSkipped
  BY DEF FrameInv
<1> QED  BY <1>1, FrameInvariant, PTL

(* Every variable keeps its type; no bit outside a region is ever set.      *)
THEOREM FrameTypeCorrect == Spec => []TypeOK
<1>1. FrameInv => TypeOK
  BY DEF FrameInv
<1> QED  BY <1>1, FrameInvariant, PTL

(* alloc hands out `count` adjacent frames that nobody has.                 *)
THEOREM FreshRunHandedOut == Spec => HandsOutFreshRun
<1> DEFINE Step ==
      held' \subseteq held \/
      \E r \in RegionIds : \E j \in Bits(r) :
        /\ RunOf(j, count) \subseteq Bits(r)
        /\ \A k \in RunOf(j, count) : FrameOf(r, k) \notin held \cup Metadata
        /\ held' = held \cup {FrameOf(r, k) : k \in RunOf(j, count)}
<1>1. ASSUME FrameInv, AllocFound  PROVE Step
  <2>1. /\ region \in RegionIds /\ RunStart \in Bits(region)
        /\ RunOf(RunStart, count) \subseteq Bits(region)
    BY <1>1, FoundRun
  <2>2. \A k \in RunOf(RunStart, count) : FrameOf(region, k) \notin held \cup Metadata
    BY <1>1, AllocFoundStep
  <2>3. held' = held \cup {FrameOf(region, k) : k \in RunOf(RunStart, count)}
    BY <1>1 DEF AllocFound
  <2> HIDE DEF Step
  <2> QED  BY <2>1, <2>2, <2>3 DEF Step
<1>2. ASSUME Next, ~AllocFound  PROVE held' \subseteq held
  BY <1>2 DEF Next, InitAllocator, AllocBegin, ScanFree, ScanUsed, NextRegion, AllocFailed, Dealloc
<1>3. FrameInv /\ [Next]_vars => [Step]_vars
  BY <1>1, <1>2
<1> QED  BY <1>3, FrameInvariant, PTL DEF Spec, HandsOutFreshRun

-----------------------------------------------------------------------------
(* Counting frames *)

(* A union of finitely many finite sets, given as a function, is finite.    *)
LEMMA FiniteFamily ==
  ASSUME NEW S, IsFiniteSet(S), NEW F, \A x \in S : IsFiniteSet(F[x])
  PROVE  IsFiniteSet(UNION {F[x] : x \in S})
<1>1. PICK T : T = {F[x] : x \in S}
  OBVIOUS
<1>2. [x \in S |-> F[x]] \in [S -> T]
  BY <1>1
<1>3. [x \in S |-> F[x]] \in Surjection(S, T)
  BY <1>1, <1>2 DEF Surjection
<1>4. IsFiniteSet(T)
  BY <1>3, FS_Surjection
<1>5. \A U \in T : IsFiniteSet(U)
  BY <1>1
<1> QED  BY <1>1, <1>4, <1>5, FS_UNION

(* Two sets that a one-to-one function relates have as many elements.       *)
LEMMA SameCount ==
  ASSUME NEW S, NEW T, IsFiniteSet(S), NEW F \in [S -> T],
         \A a, b \in S : F[a] = F[b] => a = b,
         \A t \in T : \E s \in S : F[s] = t
  PROVE  IsFiniteSet(T) /\ Cardinality(T) = Cardinality(S)
<1>1. F \in Bijection(S, T)
  BY Fun_IsBij
<1>2. ExistsBijection(S, T)
  BY <1>1 DEF ExistsBijection
<1> QED  BY <1>2, FS_Bijection

(* Two sets without a common element are counted separately.                *)
LEMMA DisjointCount ==
  ASSUME NEW S, IsFiniteSet(S), NEW T, IsFiniteSet(T), S \cap T = {}
  PROVE  /\ IsFiniteSet(S \cup T)
         /\ Cardinality(S \cup T) = Cardinality(S) + Cardinality(T)
<1>1. Cardinality(S) \in Nat /\ Cardinality(T) \in Nat /\ Cardinality(S \cap T) = 0
  BY FS_CardinalityType, FS_EmptySet
<1>2. Cardinality(S \cup T) = Cardinality(S) + Cardinality(T) - Cardinality(S \cap T)
  BY FS_Union
<1> QED  BY <1>1, <1>2, FS_Union

(* Every bit of a region is free, reserved or that of a frame in use.       *)
LEMMA FramesCounted ==
  ASSUME FrameInv, slot = "Some"
  PROVE  FreeFrames + Cardinality(held) + MetadataFrames = TotalFrames
<1>1. PICK Held : Held = {b \in RegionBits : FrameOf(b[1], b[2]) \in held}
  OBVIOUS
<1>2. PICK Own : Own = {Host} \X Reserved(Host)
  OBVIOUS
<1>3. IsFiniteSet(RegionBits)
  <2>1. PICK F : F = [r \in RegionIds |-> {r} \X Bits(r)]
    OBVIOUS
  <2>2. \A r \in RegionIds : IsFiniteSet(F[r])
    <3> SUFFICES ASSUME NEW r \in RegionIds PROVE IsFiniteSet(F[r])
      OBVIOUS
    <3>1. 0 \in Int /\ Regions[r].size - 1 \in Int
      BY RegionLemma
    <3>2. IsFiniteSet(Bits(r))
      BY <3>1, FS_Interval DEF Bits
    <3>3. IsFiniteSet({r})
      BY FS_Singleton
    <3> QED  BY <2>1, <3>2, <3>3, FS_Product
  <2>3. IsFiniteSet(RegionIds)
    BY RegionLemma, FS_Interval
  <2>4. IsFiniteSet(UNION {F[r] : r \in RegionIds})
    BY <2>2, <2>3, FiniteFamily
  <2>5. UNION {F[r] : r \in RegionIds} = RegionBits
    BY <2>1 DEF RegionBits
  <2> QED  BY <2>4, <2>5
<1>4. \A b \in RegionBits : b = <<b[1], b[2]>> /\ b[1] \in RegionIds /\ b[2] \in Bits(b[1])
  BY DEF RegionBits
<1>5. \A r \in RegionIds : \A j \in Bits(r) : <<r, j>> \in RegionBits
  BY DEF RegionBits
<1>6. \A r \in RegionIds : bitmap[r] = Reserved(r) \cup {j \in Bits(r) : FrameOf(r, j) \in held}
  BY DEF FrameInv, BitmapTracksOwners
<1>7. \A b \in RegionBits : b \in FreeRegionBits <=> b \notin Own /\ b \notin Held
  <2> SUFFICES ASSUME NEW r \in RegionIds, NEW j \in Bits(r)
               PROVE  <<r, j>> \in FreeRegionBits <=> <<r, j>> \notin Own /\ <<r, j>> \notin Held
    BY <1>4
  <2>1. <<r, j>> \in FreeRegionBits <=> j \notin bitmap[r]
    BY DEF FreeRegionBits, FreeBits, IsSet
  <2>2. <<r, j>> \in Held <=> FrameOf(r, j) \in held
    BY <1>1, <1>5
  <2>3. <<r, j>> \in Own <=> j \in Reserved(r)
    BY <1>2 DEF Reserved
  <2> QED  BY <1>6, <2>1, <2>2, <2>3
<1>8. FreeRegionBits \subseteq RegionBits /\ Held \subseteq RegionBits /\ Own \subseteq RegionBits
  <2>1. FreeRegionBits \subseteq RegionBits
    BY DEF FreeRegionBits, FreeBits, RegionBits
  <2>2. Own \subseteq RegionBits
    BY <1>2, <1>5, RegionLemma
  <2> QED  BY <1>1, <2>1, <2>2
<1>9. Own \cap Held = {}
  <2> SUFFICES ASSUME NEW b \in Own, b \in Held PROVE FALSE
    OBVIOUS
  <2>1. b[1] = Host /\ b[2] \in Reserved(Host)
    BY <1>2
  <2>2. FrameOf(b[1], b[2]) \in held
    BY <1>1
  <2>3. FrameOf(b[1], b[2]) \in Metadata
    BY <2>1 DEF Metadata
  <2> QED  BY <2>2, <2>3 DEF FrameInv, BitmapTracksOwners
<1>10. IsFiniteSet(FreeRegionBits) /\ IsFiniteSet(Held) /\ IsFiniteSet(Own)
  BY <1>3, <1>8, FS_Subset
<1>11. Cardinality(Held) = Cardinality(held) /\ IsFiniteSet(held)
  <2>1. PICK F : F = [b \in Held |-> FrameOf(b[1], b[2])]
    OBVIOUS
  <2>2. F \in [Held -> held]
    BY <1>1, <2>1
  <2>3. \A a, b \in Held : F[a] = F[b] => a = b
    BY <1>1, <1>4, <2>1, RegionLemma
  <2>4. \A f \in held : \E b \in Held : F[b] = f
    <3> SUFFICES ASSUME NEW f \in held PROVE \E b \in Held : F[b] = f
      OBVIOUS
    <3>1. PICK r \in RegionIds : f \in FramesOf(r)
      BY DEF FrameInv, BitmapTracksOwners
    <3>2. PICK j \in Bits(r) : f = FrameOf(r, j)
      BY <3>1 DEF FramesOf
    <3>3. <<r, j>> \in Held
      BY <1>1, <1>5, <3>2
    <3>4. F[<<r, j>>] = f
      BY <2>1, <3>2, <3>3
    <3> QED  BY <3>3, <3>4
  <2> QED  BY <1>10, <2>2, <2>3, <2>4, SameCount
<1>12. Cardinality(Own) = MetadataFrames
  <2>1. Reserved(Host) = 0..(MetadataFrames - 1) /\ MetadataFrames \in Nat
    BY RegionLemma, FrameAllocatorAssumption DEF Reserved
  <2>2. IsFiniteSet(Reserved(Host)) /\ Cardinality(Reserved(Host)) = MetadataFrames
    BY <2>1, FS_Interval
  <2>3. PICK F : F = [j \in Reserved(Host) |-> <<Host, j>>]
    OBVIOUS
  <2>4. /\ F \in [Reserved(Host) -> Own]
        /\ \A a, b \in Reserved(Host) : F[a] = F[b] => a = b
        /\ \A t \in Own : \E s \in Reserved(Host) : F[s] = t
    BY <1>2, <2>3
  <2> QED  BY <2>2, <2>4, SameCount
<1>13. /\ IsFiniteSet(Own \cup Held)
       /\ Cardinality(Own \cup Held) = MetadataFrames + Cardinality(held)
  BY <1>9, <1>10, <1>11, <1>12, DisjointCount
<1>14. Cardinality(FreeRegionBits \cup (Own \cup Held)) = Cardinality(FreeRegionBits) + Cardinality(Own \cup Held)
  <2>1. FreeRegionBits \cap (Own \cup Held) = {}
    BY <1>7, <1>8
  <2> QED  BY <1>10, <1>13, <2>1, DisjointCount
<1>15. FreeRegionBits \cup (Own \cup Held) = RegionBits
  BY <1>7, <1>8
<1>16. /\ Cardinality(FreeRegionBits) \in Nat /\ Cardinality(held) \in Nat /\ MetadataFrames \in Nat
       /\ FreeFrames = Cardinality(FreeRegionBits) /\ TotalFrames = Cardinality(RegionBits)
  BY <1>10, <1>11, FS_CardinalityType, RegionLemma, FrameAllocatorAssumption DEF FreeFrames, TotalFrames
<1>17. PICK a \in Nat, b \in Nat, n \in Nat :
         a = Cardinality(FreeRegionBits) /\ b = Cardinality(held) /\ n = MetadataFrames
  BY <1>16
<1>18. TotalFrames = a + (n + b) /\ FreeFrames = a
  BY <1>13, <1>14, <1>15, <1>16, <1>17
<1>19. a + b + n = a + (n + b)
  OBVIOUS
<1> QED  BY <1>17, <1>18, <1>19

(* free_frames is total_frames less the metadata and what callers hold, in   *)
(* every reachable state: no frame is lost from the count, none counts twice.*)
THEOREM FreeFramesCounted == Spec => []FreeFramesExact
<1>1. FrameInv => FreeFramesExact
  BY FramesCounted DEF FreeFramesExact
<1> QED  BY <1>1, FrameInvariant, PTL

-----------------------------------------------------------------------------
(* BitmapFrameAllocator::init: arithmetic *)

(* n \div d and n % d are what makes n of d.                                *)
LEMMA DivLemma ==
  ASSUME NEW n \in Nat, NEW d \in Nat \ {0}
  PROVE  n \div d \in Nat /\ n % d \in 0..(d - 1) /\ n = d * (n \div d) + (n % d)
OBVIOUS

LEMMA TimesLemma ==
  ASSUME NEW m \in Nat, NEW n \in Nat, NEW d \in Nat \ {0}
  PROVE  /\ m * d \in Nat /\ n * d \in Nat /\ d * m = m * d
         /\ m <= n <=> m * d <= n * d
         /\ m < n <=> m * d < n * d
         /\ m < n => m * d + d <= n * d
         /\ (m + 1) * d = m * d + d
<1>1. m * d \in Nat /\ n * d \in Nat /\ d * m = m * d /\ (m + 1) * d = m * d + d
  OBVIOUS
<1>2. m <= n => m * d <= n * d
  OBVIOUS
<1>3. m < n => m * d + d <= n * d
  <2> SUFFICES ASSUME m < n PROVE m * d + d <= n * d
    OBVIOUS
  <2>1. (m + 1) * d <= n * d
    OBVIOUS
  <2> QED  BY <1>1, <2>1
<1>4. n <= m => n * d <= m * d
  OBVIOUS
<1> QED  BY <1>1, <1>2, <1>3, <1>4

(* div_ceil: the numbers below the result are those whose multiple is.      *)
LEMMA CeilLemma ==
  ASSUME NEW n \in Nat, NEW d \in Nat \ {0}
  PROVE  /\ DivCeil(n, d) \in Nat
         /\ \A q \in Nat : q < DivCeil(n, d) <=> q * d < n
         /\ n <= DivCeil(n, d) * d
<1>1. PICK m \in Nat : m = n + d - 1
  OBVIOUS
<1>2. PICK c \in Nat, r \in 0..(d - 1) : c = DivCeil(n, d) /\ m = c * d + r
  BY <1>1, DivLemma, TimesLemma DEF DivCeil
<1>3. c * d \in Nat
  BY TimesLemma
<1>4. n <= c * d
  BY <1>1, <1>2, <1>3
<1>5. ASSUME NEW q \in Nat
      PROVE  q < c <=> q * d < n
  <2>1. q * d \in Nat /\ (q < c => q * d + d <= c * d) /\ (c <= q => c * d <= q * d)
    BY TimesLemma
  <2> QED  BY <1>1, <1>2, <1>3, <1>4, <2>1
<1> QED  BY <1>2, <1>4, <1>5

(* The <<byte, bit>> of an index is its own.                                *)
LEMMA BitLemma ==
  ASSUME NEW m \in Nat, NEW n \in Nat, NEW d \in Nat \ {0},
         m \div d = n \div d, m % d = n % d
  PROVE  m = n
BY DivLemma

(* The least of a set of naturals.                                          *)
LEMMA LeastNatural ==
  ASSUME NEW T \in SUBSET Nat, T # {}
  PROVE  \E x \in T : \A y \in T : x <= y
<1>1. PICK x \in T : \A y \in T : ~(<<y, x>> \in OpToRel(<, Nat))
  BY NatLessThanWellFounded, WFMin
<1>2. \A y \in Nat : y < x <=> <<y, x>> \in OpToRel(<, Nat)
  BY DEF OpToRel
<1>3. \A y \in T : ~(y < x)
  BY <1>1, <1>2, Zenon
<1>4. x \in Nat /\ \A y \in T : y \in Nat
  OBVIOUS
<1>5. \A y \in T : x <= y
  BY <1>3, <1>4
<1> QED  BY <1>5

(* A sum counted as pairs: w[j] bytes for each j of 1..k.                   *)
Pairs(w, k) == UNION {{j} \X (1..w[j]) : j \in 1..k}

LEMMA PairsLemma ==
  ASSUME NEW n \in Nat, NEW w \in [1..n -> Nat]
  PROVE  /\ \A k \in 0..n : IsFiniteSet(Pairs(w, k)) /\ Cardinality(Pairs(w, k)) \in Nat
         /\ Cardinality(Pairs(w, 0)) = 0
         /\ \A k \in 1..n : Cardinality(Pairs(w, k)) = Cardinality(Pairs(w, k - 1)) + w[k]
         /\ \A j, k \in 0..n : j <= k => Cardinality(Pairs(w, j)) <= Cardinality(Pairs(w, k))
<1>1. ASSUME NEW k \in 1..n
      PROVE  IsFiniteSet({k} \X (1..w[k])) /\ Cardinality({k} \X (1..w[k])) = w[k]
  <2>1. w[k] \in Nat
    OBVIOUS
  <2>2. IsFiniteSet(1..w[k]) /\ Cardinality(1..w[k]) = w[k]
    BY <2>1, FS_Interval, SMTT(30)
  <2>3. IsFiniteSet({k}) /\ Cardinality({k}) = 1
    BY FS_Singleton
  <2>4. PICK S, T : S = {k} /\ T = 1..w[k]
    OBVIOUS
  <2>5. IsFiniteSet(S \X T) /\ Cardinality(S \X T) = Cardinality(S) * Cardinality(T)
    BY <2>2, <2>3, <2>4, FS_Product
  <2>6. 1 * w[k] = w[k]
    BY <2>1
  <2> QED  BY <2>2, <2>3, <2>4, <2>5, <2>6
<1>2. ASSUME NEW k \in 0..n  PROVE IsFiniteSet(Pairs(w, k)) /\ Cardinality(Pairs(w, k)) \in Nat
  <2>1. PICK F : F = [j \in 1..k |-> {j} \X (1..w[j])]
    OBVIOUS
  <2>2. ASSUME NEW j \in 1..k  PROVE IsFiniteSet(F[j])
    <3>1. j \in 1..n /\ F[j] = {j} \X (1..w[j])
      BY <2>1
    <3> QED  BY <1>1, <3>1
  <2>3. IsFiniteSet(1..k)
    BY FS_Interval
  <2>4. IsFiniteSet(UNION {F[j] : j \in 1..k})
    BY <2>2, <2>3, FiniteFamily
  <2>5. UNION {F[j] : j \in 1..k} = Pairs(w, k)
    BY <2>1 DEF Pairs
  <2> QED  BY <2>4, <2>5, FS_CardinalityType
<1>3. Cardinality(Pairs(w, 0)) = 0
  <2>1. Pairs(w, 0) = {}
    BY DEF Pairs
  <2> QED  BY <2>1, FS_EmptySet
<1>4. ASSUME NEW k \in 1..n
      PROVE  Cardinality(Pairs(w, k)) = Cardinality(Pairs(w, k - 1)) + w[k]
  <2>1. k - 1 \in 0..n /\ \A j : j \in 1..k <=> j \in 1..(k - 1) \/ j = k
    OBVIOUS
  <2>2. Pairs(w, k) = Pairs(w, k - 1) \cup ({k} \X (1..w[k]))
    BY <2>1 DEF Pairs
  <2>3. ASSUME NEW p, p \in Pairs(w, k - 1), p \in {k} \X (1..w[k])  PROVE FALSE
    <3>1. PICK j \in 1..(k - 1) : p \in {j} \X (1..w[j])
      BY <2>3 DEF Pairs
    <3>2. p[1] = j /\ p[1] = k
      BY <2>3, <3>1
    <3> QED  BY <3>2
  <2>4. Pairs(w, k - 1) \cap ({k} \X (1..w[k])) = {}
    BY <2>3
  <2>5. IsFiniteSet(Pairs(w, k - 1))
    BY <1>2, <2>1
  <2> QED  BY <1>1, <2>2, <2>4, <2>5, DisjointCount
<1>5. ASSUME NEW j \in 0..n, NEW k \in 0..n, j <= k
      PROVE  Cardinality(Pairs(w, j)) <= Cardinality(Pairs(w, k))
  <2>1. 1..j \subseteq 1..k
    BY <1>5
  <2>2. Pairs(w, j) \in SUBSET Pairs(w, k)
    BY <2>1 DEF Pairs
  <2> QED  BY <1>2, <2>2, FS_Subset
<1> QED  BY <1>2, <1>3, <1>4, <1>5

-----------------------------------------------------------------------------
(* BitmapFrameAllocator::init: the layout *)

(* What the memory map says of a usable entry.                              *)
EntryOK(k) ==
  /\ Usable[k].base \in Nat /\ Usable[k].length \in Nat
  /\ FrameCount(Usable[k]) \in Nat
  /\ Usable[k].length = FrameCount(Usable[k]) * FRAME_SIZE
  /\ Usable[k].base + Usable[k].length <= MemoryBytes
  /\ BitmapBytes(Usable[k]) \in Nat
  /\ \A q \in Nat : q < BitmapBytes(Usable[k]) <=> q * BITS < FrameCount(Usable[k])
  /\ FrameCount(Usable[k]) <= BitmapBytes(Usable[k]) * BITS

LEMMA EntriesLemma ==
  ASSUME entries \in MemoryMaps
  PROVE  /\ Len(Usable) \in Nat /\ DOMAIN Usable = 1..Len(Usable)
         /\ \A k \in 1..Len(Usable) : EntryOK(k)
         /\ \A k, l \in 1..Len(Usable) : k # l => Disjoint(Extent(Usable[k]), Extent(Usable[l]))
<1> USE FrameInitAssumption
<1>1. PICK u : u = UsableIn(entries)
  OBVIOUS
<1>2. /\ u \in Seq([usable : BOOLEAN, base : Nat, length : Nat])
      /\ \A k \in DOMAIN u : u[k].length % FRAME_SIZE = 0 /\ Extent(u[k])[2] <= MemoryBytes
      /\ \A k, l \in DOMAIN u : k # l => Disjoint(Extent(u[k]), Extent(u[l]))
  BY <1>1
<1>3. Len(u) \in Nat /\ DOMAIN u = 1..Len(u) /\ Usable = u
  BY <1>1, <1>2 DEF Usable
<1>4. ASSUME NEW k \in 1..Len(u)
      PROVE  EntryOK(k)
  <2>1. PICK e : e = u[k]
    OBVIOUS
  <2>2. e \in [usable : BOOLEAN, base : Nat, length : Nat]
    BY <1>2, <2>1, ElementOfSeq
  <2>3. e.base \in Nat /\ e.length \in Nat /\ e.length % FRAME_SIZE = 0 /\ e.base + e.length <= MemoryBytes
    BY <1>2, <1>3, <2>1, <2>2 DEF Extent
  <2>4. FRAME_SIZE \in Nat \ {0} /\ BITS \in Nat \ {0}
    OBVIOUS
  <2>5. PICK c \in Nat : c = e.length \div FRAME_SIZE /\ e.length = c * FRAME_SIZE
    <3>1. e.length \div FRAME_SIZE \in Nat
      BY <2>3, <2>4, DivLemma
    <3>2. e.length = FRAME_SIZE * (e.length \div FRAME_SIZE) + (e.length % FRAME_SIZE)
      BY <2>3, <2>4, DivLemma
    <3>3. PICK c \in Nat : c = e.length \div FRAME_SIZE
      BY <3>1
    <3>4. FRAME_SIZE * c + 0 = c * FRAME_SIZE
      BY <2>4
    <3> QED  BY <2>3, <3>2, <3>3, <3>4
  <2>6. /\ DivCeil(c, BITS) \in Nat
        /\ \A q \in Nat : q < DivCeil(c, BITS) <=> q * BITS < c
        /\ c <= DivCeil(c, BITS) * BITS
    BY <2>4, CeilLemma
  <2>7. FrameCount(Usable[k]) = c /\ BitmapBytes(Usable[k]) = DivCeil(c, BITS) /\ Usable[k] = e
    BY <1>3, <2>1, <2>5 DEF FrameCount, BitmapBytes
  <2> QED  BY <2>3, <2>5, <2>6, <2>7 DEF EntryOK
<1> QED  BY <1>2, <1>3, <1>4

(* The offset of the k-th bitmap behind the structs.                        *)
LEMMA BytesLemma ==
  ASSUME entries \in MemoryMaps
  PROVE  /\ \A k \in 0..Len(Usable) : BytesUpTo(k) \in Nat
         /\ BytesUpTo(0) = 0
         /\ \A k \in 1..Len(Usable) : BytesUpTo(k) = BytesUpTo(k - 1) + BitmapBytes(Usable[k])
         /\ \A j, k \in 0..Len(Usable) : j <= k => BytesUpTo(j) <= BytesUpTo(k)
<1>1. PICK n \in Nat : n = Len(Usable)
  BY EntriesLemma
<1>2. PICK w : w = [k \in 1..n |-> BitmapBytes(Usable[k])]
  OBVIOUS
<1>3. w \in [1..n -> Nat]
  BY <1>1, <1>2, EntriesLemma DEF EntryOK
<1>4. ASSUME NEW k \in 0..n  PROVE BytesUpTo(k) = Cardinality(Pairs(w, k))
  <2>1. \A j \in 1..k : BytesOf(j) = {j} \X (1..w[j])
    BY <1>2 DEF BytesOf
  <2>2. UNION {BytesOf(j) : j \in 1..k} = Pairs(w, k)
    BY <2>1 DEF Pairs
  <2> QED  BY <2>2 DEF BytesUpTo
<1>5. \A k \in 1..n : k \in 0..n /\ k - 1 \in 0..n
  BY <1>1
<1>6. /\ \A k \in 0..n : Cardinality(Pairs(w, k)) \in Nat
      /\ Cardinality(Pairs(w, 0)) = 0
      /\ \A k \in 1..n : Cardinality(Pairs(w, k)) = Cardinality(Pairs(w, k - 1)) + w[k]
      /\ \A j, k \in 0..n : j <= k => Cardinality(Pairs(w, j)) <= Cardinality(Pairs(w, k))
  BY <1>3, PairsLemma
<1>7. \A k \in 1..n : BytesUpTo(k) = BytesUpTo(k - 1) + BitmapBytes(Usable[k])
  BY <1>2, <1>4, <1>5, <1>6
<1> QED  BY <1>1, <1>4, <1>6, <1>7

(* init found its host and has laid out the regions; the bits of the bitmaps *)
(* are those it reserved.                                                    *)
HostedAt(ri) ==
  /\ ri \in DOMAIN Usable
  /\ IsHost(ri)
  /\ regions = [k \in 1..Len(Usable) |-> Region(k, Usable[ri].base)]
  /\ \A b \in Filled(regions) :
       b \in ones <=> b \in Reserve(regions, ri, Usable[ri].base, FramesNeeded)

FrameInitInv ==
  /\ entries \in MemoryMaps
  /\ pc = "done" => \E ri : HostedAt(ri)

(* The layout in addresses: struct k from P[k - 1] to P[k], and behind the   *)
(* structs bitmap k from Q[k - 1] to Q[k].                                   *)
LaidOut(ri, n, P, Q) ==
  /\ n \in Nat /\ ri \in 1..n /\ n = Len(Usable)
  /\ P \in [0..n -> Nat] /\ Q \in [0..n -> Nat] /\ P[n] = Q[0]
  /\ \A j, k \in 0..n : j <= k => P[j] <= P[k] /\ Q[j] <= Q[k]
  /\ DOMAIN regions = 1..n
  /\ \A k \in 1..n :
       /\ regions[k].addr = P[k - 1]
       /\ regions[k].addr + RegionSize = P[k]
       /\ regions[k].data = Q[k - 1]
       /\ regions[k].data + regions[k].bytes = Q[k]
       /\ regions[k].start = Usable[k].base
       /\ regions[k].end = Usable[k].base + Usable[k].length
       /\ regions[k].size = FrameCount(Usable[k])
       /\ regions[k].bytes = BitmapBytes(Usable[k])
  /\ Q[n] = P[0] + InitialSize
  /\ regions[ri].start = P[0]
  /\ Q[n] <= regions[ri].end

LEMMA LayoutLemma ==
  ASSUME entries \in MemoryMaps, NEW ri, HostedAt(ri)
  PROVE  \E n, P, Q : LaidOut(ri, n, P, Q)
<1>1. PICK n \in Nat : n = Len(Usable)
  BY EntriesLemma
<1>2. ri \in 1..n /\ DOMAIN Usable = 1..n /\ EntryOK(ri)
  BY <1>1, EntriesLemma DEF HostedAt
<1>3. PICK b \in Nat : b = Usable[ri].base
  BY <1>2 DEF EntryOK
<1>4. PICK A : A = [k \in 0..n |-> k * RegionSize]
  OBVIOUS
<1>5. PICK B : B = [k \in 0..n |-> BytesUpTo(k)]
  OBVIOUS
<1>6. RegionSize \in Nat \ {0}
  BY FrameInitAssumption
<1>7. /\ A \in [0..n -> Nat] /\ A[0] = 0
      /\ \A j, k \in 0..n : j <= k => A[j] <= A[k]
      /\ \A k \in 1..n : k - 1 \in 0..n /\ k \in 0..n /\ A[k] = A[k - 1] + RegionSize
  <2>1. \A k \in 0..n : k * RegionSize \in Nat
    BY <1>6
  <2>2. 0 * RegionSize = 0
    BY <1>6
  <2>3. ASSUME NEW j \in 0..n, NEW k \in 0..n, j <= k  PROVE A[j] <= A[k]
    BY <1>4, <1>6, <2>3, TimesLemma
  <2>4. ASSUME NEW k \in 1..n  PROVE k - 1 \in 0..n /\ k \in 0..n /\ A[k] = A[k - 1] + RegionSize
    <3>1. PICK j \in 0..n : j = k - 1 /\ k = j + 1
      OBVIOUS
    <3>2. (j + 1) * RegionSize = j * RegionSize + RegionSize
      BY <1>6, TimesLemma
    <3> QED  BY <1>4, <3>1, <3>2
  <2>5. A \in [0..n -> Nat]
    BY <1>4, <2>1
  <2>6. A[0] = 0
    BY <1>4, <2>2
  <2> QED  BY <2>3, <2>4, <2>5, <2>6
<1>8. /\ B \in [0..n -> Nat] /\ B[0] = 0
      /\ \A j, k \in 0..n : j <= k => B[j] <= B[k]
      /\ \A k \in 1..n : B[k] = B[k - 1] + BitmapBytes(Usable[k])
  <2>1. /\ \A k \in 0..n : BytesUpTo(k) \in Nat
        /\ BytesUpTo(0) = 0
        /\ \A k \in 1..n : BytesUpTo(k) = BytesUpTo(k - 1) + BitmapBytes(Usable[k])
        /\ \A j, k \in 0..n : j <= k => BytesUpTo(j) <= BytesUpTo(k)
    BY <1>1, BytesLemma
  <2>2. \A k \in 1..n : k - 1 \in 0..n /\ k \in 0..n
    BY <1>7
  <2> QED  BY <1>5, <2>1, <2>2
<1>9. DOMAIN regions = 1..n /\ \A k \in 1..n : regions[k] = Region(k, b)
  BY <1>1, <1>3 DEF HostedAt
<1>10. n \in 0..n /\ A[n] = n * RegionSize /\ B[n] = BytesUpTo(n)
  BY <1>4, <1>5
<1>11. InitialSize = A[n] + B[n]
  <2>1. InitialSize = BytesUpTo(n) + n * RegionSize
    BY <1>1 DEF InitialSize
  <2> QED  BY <1>7, <1>8, <1>10, <2>1
<1>12. ASSUME NEW k \in 1..n
       PROVE  /\ regions[k].addr = b + A[k - 1]
              /\ regions[k].addr + RegionSize = b + A[k]
              /\ regions[k].data = b + A[n] + B[k - 1]
              /\ regions[k].data + regions[k].bytes = b + A[n] + B[k]
              /\ regions[k].start = Usable[k].base
              /\ regions[k].end = Usable[k].base + Usable[k].length
              /\ regions[k].size = FrameCount(Usable[k])
              /\ regions[k].bytes = BitmapBytes(Usable[k])
  <2>1. /\ regions[k].addr = b + (k - 1) * RegionSize
        /\ regions[k].data = b + n * RegionSize + BytesUpTo(k - 1)
        /\ regions[k].bytes = BitmapBytes(Usable[k])
        /\ regions[k].start = Usable[k].base
        /\ regions[k].end = Usable[k].base + Usable[k].length
        /\ regions[k].size = FrameCount(Usable[k])
    BY <1>1, <1>9 DEF Region
  <2>2. A[k - 1] = (k - 1) * RegionSize /\ B[k - 1] = BytesUpTo(k - 1) /\ A[k - 1] \in Nat /\ B[k - 1] \in Nat
    BY <1>4, <1>5, <1>7, <1>8
  <2>3. A[n] \in Nat /\ A[k] = A[k - 1] + RegionSize /\ B[k] = B[k - 1] + BitmapBytes(Usable[k])
        /\ BitmapBytes(Usable[k]) \in Nat
    BY <1>1, <1>7, <1>8, <1>10, EntriesLemma DEF EntryOK
  <2>4. regions[k].addr = b + A[k - 1] /\ regions[k].data = b + A[n] + B[k - 1]
    BY <1>10, <2>1, <2>2
  <2>5. PICK a0 \in Nat, a1 \in Nat, b0 \in Nat, z \in Nat :
          a0 = A[k - 1] /\ a1 = A[n] /\ b0 = B[k - 1] /\ z = BitmapBytes(Usable[k])
    BY <2>2, <2>3
  <2>6. b + a0 + RegionSize = b + (a0 + RegionSize) /\ b + a1 + b0 + z = b + a1 + (b0 + z)
    BY <1>6
  <2> QED  BY <2>1, <2>3, <2>4, <2>5, <2>6
<1>13. regions[ri].start = b /\ b + A[n] + B[n] <= regions[ri].end
  <2>1. Usable[ri].length >= InitialSize /\ Usable[ri].length \in Nat
    BY <1>2 DEF HostedAt, IsHost, EntryOK
  <2>2. PICK x \in Nat, y \in Nat, l \in Nat : x = A[n] /\ y = B[n] /\ l = Usable[ri].length /\ l >= x + y
    BY <1>7, <1>8, <1>10, <1>11, <2>1
  <2>3. b + x + y <= b + l
    BY <2>2
  <2> QED  BY <1>2, <1>3, <1>12, <2>2, <2>3
<1>14. PICK P, Q : P = [k \in 0..n |-> b + A[k]] /\ Q = [k \in 0..n |-> b + A[n] + B[k]]
  OBVIOUS
<1>15. /\ P \in [0..n -> Nat] /\ Q \in [0..n -> Nat] /\ P[n] = Q[0] /\ P[0] = b
       /\ \A j, k \in 0..n : j <= k => P[j] <= P[k] /\ Q[j] <= Q[k]
       /\ Q[n] = P[0] + InitialSize /\ Q[n] = b + A[n] + B[n]
  <2>1. A[n] \in Nat /\ B[n] \in Nat /\ 0 \in 0..n
    BY <1>7, <1>8, <1>10
  <2>2. P \in [0..n -> Nat] /\ Q \in [0..n -> Nat]
    BY <1>7, <1>8, <1>14, <2>1, SMTT(30)
  <2>3. P[n] = b + A[n] /\ Q[0] = b + A[n] + B[0] /\ P[0] = b + A[0] /\ Q[n] = b + A[n] + B[n]
    BY <1>10, <1>14, <2>1
  <2>4. P[n] = Q[0] /\ P[0] = b
    BY <1>7, <1>8, <2>1, <2>3
  <2>5. PICK x \in Nat, y \in Nat : x = A[n] /\ y = B[n]
    BY <2>1
  <2>6. b + x + y = b + (x + y)
    OBVIOUS
  <2>7. Q[n] = P[0] + InitialSize
    BY <1>11, <2>3, <2>4, <2>5, <2>6
  <2>8. ASSUME NEW j \in 0..n, NEW k \in 0..n, j <= k  PROVE P[j] <= P[k] /\ Q[j] <= Q[k]
    <3>1. A[j] <= A[k] /\ B[j] <= B[k] /\ A[j] \in Nat /\ A[k] \in Nat /\ B[j] \in Nat /\ B[k] \in Nat
      BY <1>7, <1>8, <2>8
    <3>2. P[j] = b + A[j] /\ P[k] = b + A[k] /\ Q[j] = b + A[n] + B[j] /\ Q[k] = b + A[n] + B[k]
      BY <1>14
    <3> QED  BY <2>1, <3>1, <3>2
  <2> QED  BY <2>2, <2>3, <2>4, <2>7, <2>8
<1>16. \A k \in 1..n : /\ P[k - 1] = b + A[k - 1] /\ P[k] = b + A[k]
                       /\ Q[k - 1] = b + A[n] + B[k - 1] /\ Q[k] = b + A[n] + B[k]
  BY <1>7, <1>14
<1>17. LaidOut(ri, n, P, Q)
  BY <1>1, <1>2, <1>9, <1>12, <1>13, <1>15, <1>16 DEF LaidOut
<1> QED  BY <1>17

(* Structs and bitmaps follow one another inside the host.                  *)
LEMMA RangesLemma ==
  ASSUME NEW ri, NEW n, NEW P, NEW Q, LaidOut(ri, n, P, Q)
  PROVE  /\ \A a : a \in Structs <=> \E k \in 1..n : a = <<P[k - 1], P[k]>>
         /\ \A a : a \in Bitmaps <=> \E k \in 1..n : a = <<Q[k - 1], Q[k]>>
<1>1. DOMAIN regions = 1..n
  BY DEF LaidOut
<1>2. \A k \in 1..n : /\ regions[k].addr = P[k - 1] /\ regions[k].addr + RegionSize = P[k]
                      /\ regions[k].data = Q[k - 1] /\ regions[k].data + regions[k].bytes = Q[k]
  BY DEF LaidOut
<1>3. \A a : a \in Structs <=> \E k \in 1..n : a = <<regions[k].addr, regions[k].addr + RegionSize>>
  BY <1>1 DEF Structs
<1>4. \A a : a \in Bitmaps <=> \E k \in 1..n : a = <<regions[k].data, regions[k].data + regions[k].bytes>>
  BY <1>1 DEF Bitmaps
<1> QED  BY <1>2, <1>3, <1>4

(* The addresses of the layout, in order.                                   *)
LEMMA OrderLemma ==
  ASSUME NEW ri, NEW n, NEW P, NEW Q, LaidOut(ri, n, P, Q)
  PROVE  /\ n \in 0..n /\ 0 \in 0..n /\ P[0] \in Nat /\ P[n] \in Nat /\ Q[n] \in Nat /\ P[n] = Q[0]
         /\ \A k \in 1..n : /\ k \in 0..n /\ k - 1 \in 0..n
                             /\ P[k - 1] \in Nat /\ P[k] \in Nat /\ Q[k - 1] \in Nat /\ Q[k] \in Nat
                             /\ P[0] <= P[k - 1] /\ P[k - 1] <= P[k] /\ P[k] <= P[n]
                             /\ P[n] <= Q[k - 1] /\ Q[k - 1] <= Q[k] /\ Q[k] <= Q[n]
         /\ \A j, k \in 1..n : j < k => P[j] <= P[k - 1] /\ Q[j] <= Q[k - 1]
<1>1. /\ n \in Nat /\ P \in [0..n -> Nat] /\ Q \in [0..n -> Nat] /\ P[n] = Q[0]
      /\ \A j, k \in 0..n : j <= k => P[j] <= P[k] /\ Q[j] <= Q[k]
  BY DEF LaidOut
<1>2. ASSUME NEW k \in 1..n
      PROVE  k \in 0..n /\ k - 1 \in 0..n /\ n \in 0..n /\ 0 \in 0..n /\ 0 <= k - 1 /\ k - 1 <= k /\ k <= n
  BY <1>1
<1>3. \A j, k \in 1..n : j < k => j <= k - 1
  BY <1>1
<1>4. n \in 0..n /\ 0 \in 0..n
  BY <1>1
<1> QED  BY <1>1, <1>2, <1>3, <1>4

(* "MemoryRegion[] | Bitmap data | Bitmap data | ..."                       *)
LEMMA LayoutHolds ==
  ASSUME FrameInitInv
  PROVE  MetadataLayout
<1> SUFFICES ASSUME pc = "done"
             PROVE  /\ \A x, y \in Structs \cup Bitmaps : x # y => Disjoint(x, y)
                    /\ \E k \in DOMAIN regions : \A a \in Structs \cup Bitmaps :
                         regions[k].start <= a[1] /\ a[2] <= regions[k].end
                    /\ \A k \in DOMAIN regions : regions[k].size <= regions[k].bytes * BITS
  BY DEF MetadataLayout
<1>1. PICK ri : HostedAt(ri)
  BY DEF FrameInitInv
<1>2. entries \in MemoryMaps
  BY DEF FrameInitInv
<1>3. PICK n, P, Q : LaidOut(ri, n, P, Q)
  BY <1>1, <1>2, LayoutLemma
<1>4. /\ \A a : a \in Structs <=> \E k \in 1..n : a = <<P[k - 1], P[k]>>
      /\ \A a : a \in Bitmaps <=> \E k \in 1..n : a = <<Q[k - 1], Q[k]>>
  BY <1>3, RangesLemma
<1>5. ri \in 1..n /\ DOMAIN regions = 1..n /\ regions[ri].start = P[0] /\ Q[n] <= regions[ri].end
  BY <1>3 DEF LaidOut
<1>6. /\ P[0] \in Nat /\ P[n] \in Nat /\ Q[n] \in Nat
      /\ \A k \in 1..n : /\ P[k - 1] \in Nat /\ P[k] \in Nat /\ Q[k - 1] \in Nat /\ Q[k] \in Nat
                          /\ P[0] <= P[k - 1] /\ P[k - 1] <= P[k] /\ P[k] <= P[n]
                          /\ P[n] <= Q[k - 1] /\ Q[k - 1] <= Q[k] /\ Q[k] <= Q[n]
      /\ \A j, k \in 1..n : j < k => P[j] <= P[k - 1] /\ Q[j] <= Q[k - 1]
  BY <1>3, OrderLemma
<1>7. ASSUME NEW j \in 1..n, NEW k \in 1..n, j # k
      PROVE  /\ Disjoint(<<P[j - 1], P[j]>>, <<P[k - 1], P[k]>>)
             /\ Disjoint(<<Q[j - 1], Q[j]>>, <<Q[k - 1], Q[k]>>)
  <2>1. n \in Nat
    BY <1>3 DEF LaidOut
  <2>2. j < k \/ k < j
    BY <1>7, <2>1
  <2> QED  BY <1>6, <2>2 DEF Disjoint
<1>8. ASSUME NEW j \in 1..n, NEW k \in 1..n
      PROVE  /\ Disjoint(<<P[j - 1], P[j]>>, <<Q[k - 1], Q[k]>>)
             /\ Disjoint(<<Q[k - 1], Q[k]>>, <<P[j - 1], P[j]>>)
  <2>1. P[j] <= Q[k - 1]
    BY <1>6
  <2> QED  BY <2>1 DEF Disjoint
<1>9. ASSUME NEW x \in Structs \cup Bitmaps, NEW y \in Structs \cup Bitmaps, x # y
      PROVE  Disjoint(x, y)
  <2>1. PICK j \in 1..n : x = <<P[j - 1], P[j]>> \/ x = <<Q[j - 1], Q[j]>>
    BY <1>4
  <2>2. PICK k \in 1..n : y = <<P[k - 1], P[k]>> \/ y = <<Q[k - 1], Q[k]>>
    BY <1>4
  <2>3. CASE j = k
    BY <1>8, <1>9, <2>1, <2>2, <2>3
  <2>4. CASE j # k
    BY <1>7, <1>8, <2>1, <2>2, <2>4
  <2> QED  BY <2>3, <2>4
<1>10. ASSUME NEW a \in Structs \cup Bitmaps
       PROVE  regions[ri].start <= a[1] /\ a[2] <= regions[ri].end
  <2>1. PICK k \in 1..n : a = <<P[k - 1], P[k]>> \/ a = <<Q[k - 1], Q[k]>>
    BY <1>4
  <2>2. a[1] \in Nat /\ a[2] \in Nat /\ P[0] <= a[1] /\ a[2] <= Q[n]
    BY <1>6, <2>1
  <2>3. regions[ri].end \in Nat
    <3>1. regions[ri].end = Usable[ri].base + Usable[ri].length /\ ri \in 1..Len(Usable)
      BY <1>3 DEF LaidOut
    <3> QED  BY <1>2, <3>1, EntriesLemma DEF EntryOK
  <2> QED  BY <1>5, <1>6, <2>2, <2>3
<1>11. \A k \in DOMAIN regions : regions[k].size <= regions[k].bytes * BITS
  <2>1. \A k \in 1..n : regions[k].size = FrameCount(Usable[k]) /\ regions[k].bytes = BitmapBytes(Usable[k])
    BY <1>3 DEF LaidOut
  <2>2. n = Len(Usable)
    BY <1>3 DEF LaidOut
  <2>3. \A k \in 1..n : FrameCount(Usable[k]) <= BitmapBytes(Usable[k]) * BITS
    BY <1>2, <2>2, EntriesLemma DEF EntryOK
  <2> QED  BY <1>5, <2>1, <2>3
<1> QED  BY <1>5, <1>9, <1>10, <1>11

(* The metadata takes FramesNeeded frames, which the host has.              *)
LEMMA HostFrames ==
  ASSUME entries \in MemoryMaps, NEW ri, HostedAt(ri)
  PROVE  /\ InitialSize \in Nat /\ FramesNeeded \in Nat
         /\ \A q \in Nat : q < FramesNeeded <=> q * FRAME_SIZE < InitialSize
         /\ FramesNeeded <= FrameCount(Usable[ri])
<1>1. FRAME_SIZE \in Nat \ {0} /\ RegionSize \in Nat \ {0}
  BY FrameInitAssumption
<1>2. InitialSize \in Nat
  <2>1. Len(Usable) \in Nat /\ BytesUpTo(Len(Usable)) \in Nat
    BY EntriesLemma, BytesLemma
  <2>2. Len(Usable) * RegionSize \in Nat
    BY <1>1, <2>1, TimesLemma
  <2> QED  BY <2>1, <2>2 DEF InitialSize
<1>3. FramesNeeded \in Nat /\ \A q \in Nat : q < FramesNeeded <=> q * FRAME_SIZE < InitialSize
  BY <1>1, <1>2, CeilLemma DEF FramesNeeded
<1>4. EntryOK(ri) /\ Usable[ri].length >= InitialSize
  BY EntriesLemma DEF HostedAt, IsHost
<1>5. PICK c \in Nat : c = FrameCount(Usable[ri]) /\ c * FRAME_SIZE >= InitialSize
  BY <1>4 DEF EntryOK
<1>6. c * FRAME_SIZE \in Nat
  BY <1>1, TimesLemma
<1>7. ~(c < FramesNeeded)
  BY <1>2, <1>3, <1>5, <1>6
<1> QED  BY <1>2, <1>3, <1>5, <1>7

(* The byte of a frame's bit is in the bitmap of its region.                *)
LEMMA BitInBitmap ==
  ASSUME entries \in MemoryMaps, NEW ri, NEW n, NEW P, NEW Q, LaidOut(ri, n, P, Q),
         NEW k \in 1..n, NEW index \in 0..(FrameCount(Usable[k]) - 1)
  PROVE  /\ index \in Nat /\ BitAt(regions[k], index) = <<Q[k - 1] + (index \div BITS), index % BITS>>
         /\ index \div BITS \in Nat /\ index % BITS \in 0..(BITS - 1)
         /\ Q[k - 1] + (index \div BITS) < Q[k]
<1>1. BITS \in Nat \ {0}
  BY FrameInitAssumption
<1>2. /\ FrameCount(Usable[k]) \in Nat /\ BitmapBytes(Usable[k]) \in Nat
      /\ \A q \in Nat : q < BitmapBytes(Usable[k]) <=> q * BITS < FrameCount(Usable[k])
  <2>1. EntryOK(k)
    BY EntriesLemma DEF LaidOut
  <2> QED  BY <2>1 DEF EntryOK
<1>3. index \in Nat /\ index < FrameCount(Usable[k])
  BY <1>2
<1>4. PICK w \in Nat, r \in 0..(BITS - 1) : w = index \div BITS /\ r = index % BITS /\ index = BITS * w + r
  <2>1. /\ index \div BITS \in Nat /\ index % BITS \in 0..(BITS - 1)
        /\ index = BITS * (index \div BITS) + (index % BITS)
    BY <1>1, <1>3, DivLemma
  <2> QED  BY <2>1, Zenon
<1>5. w * BITS \in Nat /\ BITS * w = w * BITS
  BY <1>1, TimesLemma
<1>6. w * BITS < FrameCount(Usable[k])
  BY <1>1, <1>2, <1>3, <1>4, <1>5
<1>7. w < BitmapBytes(Usable[k])
  BY <1>2, <1>6
<1>8. /\ Q[k - 1] \in Nat /\ regions[k].data = Q[k - 1]
      /\ Q[k] = Q[k - 1] + BitmapBytes(Usable[k])
  <2>1. Q[k - 1] \in Nat
    BY OrderLemma
  <2>2. /\ regions[k].data = Q[k - 1] /\ regions[k].data + regions[k].bytes = Q[k]
        /\ regions[k].bytes = BitmapBytes(Usable[k])
    BY DEF LaidOut
  <2> QED  BY <2>1, <2>2
<1>9. Q[k - 1] + w < Q[k]
  BY <1>2, <1>7, <1>8
<1> QED  BY <1>3, <1>4, <1>8, <1>9 DEF BitAt

(* "those frames are then reserved": the bits that are 1 are those of the    *)
(* first FramesNeeded frames of the host.                                    *)
LEMMA BitsReserved ==
  ASSUME entries \in MemoryMaps, NEW ri, HostedAt(ri), NEW n, NEW P, NEW Q, LaidOut(ri, n, P, Q),
         NEW k \in 1..n, NEW index \in 0..(FrameCount(Usable[k]) - 1)
  PROVE  BitIsSet(regions[k], index) <=> k = ri /\ index < FramesNeeded
<1>1. /\ n \in Nat /\ ri \in 1..n /\ DOMAIN regions = 1..n /\ n = Len(Usable)
      /\ Q[n] <= regions[ri].end /\ regions[ri].start = Usable[ri].base
      /\ regions[ri].end = Usable[ri].base + Usable[ri].length
      /\ regions[k].data = Q[k - 1] /\ regions[k].data + regions[k].bytes = Q[k]
  BY DEF LaidOut
<1>2. /\ Q[n] \in Nat /\ Q[k - 1] \in Nat /\ Q[k] \in Nat /\ Q[k] <= Q[n]
      /\ Q[ri - 1] \in Nat /\ Q[ri] \in Nat
      /\ k < ri => Q[k] <= Q[ri - 1]
      /\ ri < k => Q[ri] <= Q[k - 1]
  BY <1>1, OrderLemma
<1>3. FramesNeeded \in Nat /\ FramesNeeded <= FrameCount(Usable[ri])
  BY HostFrames
<1>4. /\ Usable[ri].base \in Nat /\ Usable[ri].length \in Nat /\ FrameCount(Usable[ri]) \in Nat
      /\ Usable[ri].base + Usable[ri].length <= MemoryBytes
  BY <1>1, EntriesLemma DEF EntryOK
<1>5. FRAME_SIZE \in Nat \ {0} /\ BITS \in Nat \ {0} /\ MemoryBytes \in Nat
  BY FrameInitAssumption
<1>6. /\ index \in Nat /\ BitAt(regions[k], index) = <<Q[k - 1] + (index \div BITS), index % BITS>>
      /\ index \div BITS \in Nat /\ index % BITS \in 0..(BITS - 1)
      /\ Q[k - 1] + (index \div BITS) < Q[k]
  BY BitInBitmap
<1>7. BitAt(regions[k], index) \in Filled(regions)
  <2>1. PICK x \in Nat, y \in 0..(BITS - 1) :
          x = Q[k - 1] + (index \div BITS) /\ y = index % BITS /\ BitAt(regions[k], index) = <<x, y>>
    BY <1>2, <1>6
  <2>2. PICK lo \in Nat, hi \in Nat, end \in Nat : lo = Q[k - 1] /\ hi = Q[k] /\ end = Q[n]
    BY <1>2
  <2>3. lo <= x
    BY <1>6, <2>1, <2>2
  <2>4. x < hi /\ hi <= end /\ end <= MemoryBytes
    <3>1. x < hi /\ hi <= end
      BY <1>2, <1>6, <2>1, <2>2
    <3>2. PICK top \in Nat : top = Usable[ri].base + Usable[ri].length /\ top <= MemoryBytes
      BY <1>4
    <3>3. end <= top
      BY <1>1, <2>2, <3>2
    <3> QED  BY <1>5, <3>1, <3>2, <3>3
  <2>5. x \in 0..(MemoryBytes - 1)
    BY <1>5, <2>4
  <2>6. x \in regions[k].data..(regions[k].data + regions[k].bytes - 1)
    <3>1. regions[k].data = lo /\ regions[k].data + regions[k].bytes = hi
      BY <1>1, <2>2
    <3>2. x \in lo..(hi - 1)
      BY <2>3, <2>4
    <3>3. PICK z \in Nat : z = regions[k].bytes
      BY <1>1, EntriesLemma DEF LaidOut, EntryOK
    <3>4. lo + z = hi
      BY <3>1, <3>3
    <3>5. lo + (z - 1) = hi - 1
      BY <3>4
    <3> QED  BY <3>1, <3>2, <3>3, <3>5
  <2> QED  BY <1>1, <2>1, <2>5, <2>6 DEF Filled, AllBits
<1>8. BitIsSet(regions[k], index) <=>
        BitAt(regions[k], index) \in Reserve(regions, ri, Usable[ri].base, FramesNeeded)
  BY <1>7 DEF HostedAt, BitIsSet
<1>9. Reserve(regions, ri, Usable[ri].base, FramesNeeded) = {BitAt(regions[ri], j) : j \in 0..(FramesNeeded - 1)}
  <2>1. (Usable[ri].base - regions[ri].start) \div FRAME_SIZE = 0
    <3>1. Usable[ri].base - regions[ri].start = 0
      BY <1>1, <1>4
    <3>2. 0 \div FRAME_SIZE = 0
      BY <1>5
    <3> QED  BY <3>1, <3>2
  <2>2. 0 + FramesNeeded - 1 = FramesNeeded - 1
    BY <1>3
  <2> QED  BY <2>1, <2>2 DEF Reserve
<1>10. ASSUME NEW j \in 0..(FramesNeeded - 1), BitAt(regions[ri], j) = BitAt(regions[k], index)
       PROVE  k = ri /\ index = j
  <2>1. j \in 0..(FrameCount(Usable[ri]) - 1) /\ j \in Nat
    BY <1>3, <1>4
  <2>2. /\ BitAt(regions[ri], j) = <<Q[ri - 1] + (j \div BITS), j % BITS>>
        /\ j \div BITS \in Nat /\ Q[ri - 1] + (j \div BITS) < Q[ri]
    BY <1>1, <2>1, BitInBitmap
  <2>3. PICK v \in Nat, w \in Nat : v = j \div BITS /\ w = index \div BITS
    BY <1>6, <2>2
  <2>4. Q[ri - 1] + v = Q[k - 1] + w /\ j % BITS = index % BITS
    BY <1>6, <1>10, <2>2, <2>3
  <2>5. k = ri
    <3>1. PICK lo \in Nat, hi \in Nat, rlo \in Nat, rhi \in Nat :
            lo = Q[k - 1] /\ hi = Q[k] /\ rlo = Q[ri - 1] /\ rhi = Q[ri]
      BY <1>2
    <3>2. lo + w < hi /\ rlo + v < rhi /\ rlo + v = lo + w
      BY <1>6, <2>2, <2>3, <2>4, <3>1
    <3>3. (k < ri => hi <= rlo) /\ (ri < k => rhi <= lo)
      BY <1>2, <3>1
    <3> QED  BY <1>1, <3>2, <3>3
  <2>6. v = w
    BY <1>2, <2>3, <2>4, <2>5
  <2> QED  BY <1>5, <1>6, <2>1, <2>3, <2>4, <2>5, <2>6, BitLemma
<1>11. ASSUME k = ri, index < FramesNeeded
       PROVE  BitAt(regions[k], index) \in Reserve(regions, ri, Usable[ri].base, FramesNeeded)
  <2>1. index \in 0..(FramesNeeded - 1)
    BY <1>3, <1>6, <1>11
  <2> QED  BY <1>9, <1>11, <2>1
<1>12. ASSUME BitAt(regions[k], index) \in Reserve(regions, ri, Usable[ri].base, FramesNeeded)
       PROVE  k = ri /\ index < FramesNeeded
  <2>1. PICK j \in 0..(FramesNeeded - 1) : BitAt(regions[ri], j) = BitAt(regions[k], index)
    BY <1>9, <1>12
  <2>2. k = ri /\ index = j
    BY <1>10, <2>1
  <2> QED  BY <1>3, <2>2
<1> QED  BY <1>8, <1>11, <1>12

(* What FrameAllocator assumes of its regions.                              *)
LEMMA AssumptionsHold ==
  ASSUME FrameInitInv
  PROVE  AllocatorAssumptions
<1> SUFFICES ASSUME pc = "done"
             PROVE  /\ \A k, l \in DOMAIN regions : k # l =>
                         Disjoint(<<regions[k].start, regions[k].end>>, <<regions[l].start, regions[l].end>>)
                    /\ \E k \in DOMAIN regions :
                         /\ FramesNeeded <= regions[k].size
                         /\ \A l \in DOMAIN regions : \A index \in 0..(regions[l].size - 1) :
                              BitIsSet(regions[l], index) <=> l = k /\ index < FramesNeeded
  BY DEF AllocatorAssumptions
<1>1. PICK ri : HostedAt(ri)
  BY DEF FrameInitInv
<1>2. entries \in MemoryMaps
  BY DEF FrameInitInv
<1>3. PICK n, P, Q : LaidOut(ri, n, P, Q)
  BY <1>1, <1>2, LayoutLemma
<1>4. /\ ri \in 1..n /\ DOMAIN regions = 1..n /\ n = Len(Usable)
      /\ \A k \in 1..n : /\ regions[k].start = Usable[k].base
                         /\ regions[k].end = Usable[k].base + Usable[k].length
                         /\ regions[k].size = FrameCount(Usable[k])
  BY <1>3 DEF LaidOut
<1>5. \A k, l \in 1..n : k # l => Disjoint(Extent(Usable[k]), Extent(Usable[l]))
  BY <1>2, <1>4, EntriesLemma
<1>6. FramesNeeded <= regions[ri].size
  BY <1>1, <1>2, <1>4, HostFrames
<1>7. \A l \in 1..n : \A index \in 0..(FrameCount(Usable[l]) - 1) :
        BitIsSet(regions[l], index) <=> l = ri /\ index < FramesNeeded
  BY <1>1, <1>2, <1>3, BitsReserved
<1> QED  BY <1>4, <1>5, <1>6, <1>7 DEF Extent

(* Every byte of the metadata is of a struct or of a bitmap.                *)
LEMMA NoGap ==
  ASSUME NEW n \in Nat, NEW F \in [0..n -> Nat], NEW x \in Nat, F[0] <= x, x < F[n]
  PROVE  \E k \in 1..n : F[k - 1] <= x /\ x < F[k]
<1>1. PICK T : T = {k \in 0..n : x < F[k]}
  OBVIOUS
<1>2. T \in SUBSET Nat /\ T # {}
  BY <1>1
<1>3. PICK k \in T : \A y \in T : k <= y
  BY <1>2, LeastNatural
<1>4. k \in 0..n /\ x < F[k]
  BY <1>1
<1>5. k # 0
  BY <1>4
<1>6. k \in 1..n /\ k - 1 \in 0..n /\ ~(k <= k - 1)
  BY <1>4, <1>5
<1>7. k - 1 \notin T
  BY <1>3, <1>6
<1>8. ~(x < F[k - 1]) /\ F[k - 1] \in Nat
  BY <1>1, <1>6, <1>7
<1> QED  BY <1>4, <1>6, <1>8

LEMMA MetadataCovered ==
  ASSUME NEW ri, NEW n, NEW P, NEW Q, LaidOut(ri, n, P, Q),
         NEW x \in Nat, P[0] <= x, x < Q[n]
  PROVE  \E a \in Structs \cup Bitmaps : a[1] <= x /\ x < a[2]
<1>1. /\ n \in Nat /\ P \in [0..n -> Nat] /\ Q \in [0..n -> Nat] /\ P[n] = Q[0]
  BY DEF LaidOut
<1>2. P[n] \in Nat
  BY <1>1
<1>3. CASE x < P[n]
  <2>1. PICK k \in 1..n : P[k - 1] <= x /\ x < P[k]
    BY <1>1, <1>3, NoGap
  <2>2. <<P[k - 1], P[k]>> \in Structs
    BY RangesLemma
  <2> QED  BY <2>1, <2>2
<1>4. CASE Q[0] <= x
  <2>1. PICK k \in 1..n : Q[k - 1] <= x /\ x < Q[k]
    BY <1>1, <1>4, NoGap
  <2>2. <<Q[k - 1], Q[k]>> \in Bitmaps
    BY RangesLemma
  <2> QED  BY <2>1, <2>2
<1> QED  BY <1>1, <1>2, <1>3, <1>4

(* A frame with a reserved bit is one with metadata in it.                  *)
LEMMA ReservedExactly ==
  ASSUME FrameInitInv
  PROVE  OnlyMetadataReserved
<1> SUFFICES ASSUME pc = "done", NEW k \in DOMAIN regions, NEW index \in 0..(regions[k].size - 1),
                    NEW from, from = regions[k].start + index * FRAME_SIZE
             PROVE  BitIsSet(regions[k], index) <=>
                      \E a \in Structs \cup Bitmaps :
                        a[1] < a[2] /\ ~Disjoint(a, <<from, from + FRAME_SIZE>>)
  BY DEF OnlyMetadataReserved
<1>1. PICK ri : HostedAt(ri)
  BY DEF FrameInitInv
<1>2. entries \in MemoryMaps
  BY DEF FrameInitInv
<1>3. PICK n, P, Q : LaidOut(ri, n, P, Q)
  BY <1>1, <1>2, LayoutLemma
<1>4. /\ n \in Nat /\ ri \in 1..n /\ k \in 1..n /\ n = Len(Usable)
      /\ regions[k].start = Usable[k].base /\ regions[k].size = FrameCount(Usable[k])
      /\ regions[ri].start = P[0] /\ Usable[ri].base = P[0]
      /\ regions[ri].end = Usable[ri].base + Usable[ri].length
      /\ Q[n] <= regions[ri].end /\ Q[n] = P[0] + InitialSize
  BY <1>3 DEF LaidOut
<1>5. PICK fs \in Nat \ {0} : fs = FRAME_SIZE
  BY FrameInitAssumption
<1>6. PICK c \in Nat, b \in Nat, p \in Nat, q \in Nat, l \in Nat :
        /\ c = FrameCount(Usable[k]) /\ b = Usable[k].base /\ p = P[0] /\ q = Q[n] /\ l = Usable[ri].length
        /\ Usable[k].length = c * fs
        /\ q <= p + l
  <2>1. EntryOK(k) /\ EntryOK(ri)
    BY <1>2, <1>4, EntriesLemma
  <2>2. P[0] \in Nat /\ Q[n] \in Nat
    BY <1>3, OrderLemma
  <2>3. Q[n] <= P[0] + Usable[ri].length
    BY <1>4
  <2> QED  BY <1>5, <2>1, <2>2, <2>3 DEF EntryOK
<1>7. /\ InitialSize \in Nat /\ FramesNeeded \in Nat
      /\ \A m \in Nat : m < FramesNeeded <=> m * fs < InitialSize
  BY <1>1, <1>2, <1>5, HostFrames
<1>8. q = p + InitialSize
  BY <1>4, <1>6
<1>9. index \in Nat /\ index < c /\ index \in 0..(FrameCount(Usable[k]) - 1)
  BY <1>4, <1>6
<1>10. PICK o \in Nat : o = index * fs /\ o + fs <= c * fs /\ from = b + o
  BY <1>4, <1>5, <1>6, <1>9, TimesLemma
<1>11. BitIsSet(regions[k], index) <=> k = ri /\ o < InitialSize
  <2>1. BitIsSet(regions[k], index) <=> k = ri /\ index < FramesNeeded
    BY <1>1, <1>2, <1>3, <1>4, <1>9, BitsReserved
  <2> QED  BY <1>7, <1>9, <1>10, <2>1
<1>12. ASSUME k = ri, o < InitialSize
       PROVE  \E a \in Structs \cup Bitmaps :
                a[1] < a[2] /\ ~Disjoint(a, <<from, from + FRAME_SIZE>>)
  <2>1. b = p
    BY <1>4, <1>6, <1>12
  <2>2. from \in Nat /\ p <= from /\ from < q
    BY <1>7, <1>8, <1>10, <1>12, <2>1
  <2>3. PICK a \in Structs \cup Bitmaps : a[1] <= from /\ from < a[2]
    BY <1>3, <1>6, <2>2, MetadataCovered
  <2>4. a[1] \in Nat /\ a[2] \in Nat
    <3>1. PICK j \in 1..n : a = <<P[j - 1], P[j]>> \/ a = <<Q[j - 1], Q[j]>>
      BY <1>3, RangesLemma
    <3>2. P[j - 1] \in Nat /\ P[j] \in Nat /\ Q[j - 1] \in Nat /\ Q[j] \in Nat
      BY <1>3, OrderLemma
    <3> QED  BY <3>1, <3>2
  <2>5. a[1] < a[2] /\ ~(a[2] <= from) /\ ~(from + fs <= a[1])
    BY <2>2, <2>3, <2>4
  <2> QED  BY <1>5, <2>5 DEF Disjoint
<1>13. ASSUME NEW a \in Structs \cup Bitmaps, a[1] < a[2], ~Disjoint(a, <<from, from + FRAME_SIZE>>)
       PROVE  k = ri /\ o < InitialSize
  <2>1. PICK x \in Nat, y \in Nat : x = a[1] /\ y = a[2] /\ p <= x /\ y <= q
    <3>1. PICK j \in 1..n : a = <<P[j - 1], P[j]>> \/ a = <<Q[j - 1], Q[j]>>
      BY <1>3, RangesLemma
    <3>2. /\ P[j - 1] \in Nat /\ P[j] \in Nat /\ Q[j - 1] \in Nat /\ Q[j] \in Nat
          /\ P[0] <= P[j - 1] /\ P[j] <= P[n] /\ P[n] <= Q[j - 1] /\ Q[j] <= Q[n]
          /\ P[j - 1] <= P[j] /\ Q[j - 1] <= Q[j] /\ P[n] \in Nat
      BY <1>3, OrderLemma
    <3> QED  BY <1>6, <3>1, <3>2
  <2>2. x < y /\ from < y /\ x < from + fs
    BY <1>5, <1>10, <1>13, <2>1 DEF Disjoint
  <2>3. k = ri
    <3> SUFFICES ASSUME k # ri PROVE FALSE
      OBVIOUS
    <3>1. Disjoint(Extent(Usable[k]), Extent(Usable[ri]))
      BY <1>2, <1>4, EntriesLemma
    <3>2. b + c * fs <= p \/ p + l <= b
      BY <1>4, <1>6, <3>1 DEF Disjoint, Extent
    <3>3. PICK z \in Nat : z = c * fs
      BY <1>5, TimesLemma
    <3> QED  BY <1>6, <1>10, <2>1, <2>2, <3>2, <3>3
  <2>4. b = p
    BY <1>4, <1>6, <2>3
  <2> QED  BY <1>7, <1>8, <1>10, <2>1, <2>2, <2>3, <2>4
<1> QED  BY <1>11, <1>12, <1>13

-----------------------------------------------------------------------------
(* BitmapFrameAllocator::init: what it establishes *)

(* The memory map does not change, nor what is computed from it.            *)
LEMMA SameMap ==
  ASSUME UNCHANGED entries
  PROVE  /\ Usable' = Usable /\ FramesNeeded' = FramesNeeded
         /\ \A k : IsHost(k)' <=> IsHost(k)
         /\ \A ri : [k \in 1..Len(Usable) |-> Region(k, Usable[ri].base)]' = [k \in 1..Len(Usable) |-> Region(k, Usable[ri].base)]
<1>1. Usable' = Usable
  BY DEF Usable
<1>2. \A k : BytesUpTo(k)' = BytesUpTo(k)
  BY <1>1 DEF BytesUpTo, BytesOf
<1>3. InitialSize' = InitialSize
  BY <1>1, <1>2 DEF InitialSize
<1>4. \A ri : [k \in 1..Len(Usable) |-> Region(k, Usable[ri].base)]' = [k \in 1..Len(Usable) |-> Region(k, Usable[ri].base)]
  BY <1>1, <1>2 DEF Region
<1> QED  BY <1>1, <1>3, <1>4 DEF FramesNeeded, IsHost

LEMMA FrameInitStep ==
  ASSUME FrameInitInv, [InitNext]_initVars
  PROVE  FrameInitInv'
<1>1. CASE InitSucceeds
  <2>1. PICK ri \in DOMAIN Usable :
          /\ IsHost(ri)
          /\ regions' = [k \in 1..Len(Usable) |-> Region(k, Usable[ri].base)]
          /\ ones' = (ones \ Filled(regions')) \cup Reserve(regions', ri, Usable[ri].base, FramesNeeded)
    BY <1>1 DEF InitSucceeds
  <2>2. entries' = entries
    BY <1>1 DEF InitSucceeds
  <2>3. /\ Usable' = Usable /\ FramesNeeded' = FramesNeeded
        /\ IsHost(ri)' /\ [k \in 1..Len(Usable) |-> Region(k, Usable[ri].base)]' = [k \in 1..Len(Usable) |-> Region(k, Usable[ri].base)]
    BY <2>1, <2>2, SameMap
  <2>4. PICK rs : rs = regions'
    OBVIOUS
  <2>5. \A b \in Filled(rs) : b \in ones' <=> b \in Reserve(rs, ri, Usable[ri].base, FramesNeeded)
    BY <2>1, <2>4
  <2>6. \A b \in Filled(regions') : b \in ones' <=> b \in Reserve(regions', ri, (Usable')[ri].base, FramesNeeded')
    BY <2>3, <2>4, <2>5
  <2>7. regions' = [k \in 1..Len(Usable) |-> Region(k, Usable[ri].base)]'
    BY <2>1, <2>3
  <2>8. HostedAt(ri)'
    BY <2>1, <2>3, <2>6, <2>7 DEF HostedAt
  <2> QED  BY <2>2, <2>8 DEF FrameInitInv
<1>2. CASE InitPanics
  BY <1>2 DEF InitPanics, FrameInitInv
<1>3. CASE UNCHANGED initVars
  <2>1. /\ UNCHANGED <<entries, ones, regions, pc>>
    BY <1>3 DEF initVars
  <2>2. /\ Usable' = Usable /\ FramesNeeded' = FramesNeeded
        /\ \A k : IsHost(k)' <=> IsHost(k)
        /\ \A ri : [k \in 1..Len(Usable) |-> Region(k, Usable[ri].base)]' = [k \in 1..Len(Usable) |-> Region(k, Usable[ri].base)]
    BY <2>1, SameMap
  <2>3. ASSUME NEW ri, HostedAt(ri)  PROVE HostedAt(ri)'
    <3>1. regions' = [k \in 1..Len(Usable) |-> Region(k, Usable[ri].base)]'
      BY <2>1, <2>2, <2>3 DEF HostedAt
    <3>2. \A b \in Filled(regions') : b \in ones' <=> b \in Reserve(regions', ri, (Usable')[ri].base, FramesNeeded')
      BY <2>1, <2>2, <2>3 DEF HostedAt
    <3> QED  BY <2>2, <2>3, <3>1, <3>2 DEF HostedAt
  <2> QED  BY <2>1, <2>3 DEF FrameInitInv
<1> QED  BY <1>1, <1>2, <1>3 DEF InitNext

(* FrameInitInv holds in every reachable state.                             *)
THEOREM FrameInitInvariant == InitSpec => []FrameInitInv
<1>1. BeforeInit => FrameInitInv
  BY DEF BeforeInit, FrameInitInv
<1>2. FrameInitInv /\ [InitNext]_initVars => FrameInitInv'
  BY FrameInitStep
<1> QED  BY <1>1, <1>2, PTL DEF InitSpec

(* For every memory map: the region structs and the bitmaps are disjoint,    *)
(* lie in one usable entry, and each bitmap has a bit for each frame.        *)
THEOREM MetadataLaidOut == InitSpec => []MetadataLayout
<1>1. FrameInitInv => MetadataLayout
  BY LayoutHolds
<1> QED  BY <1>1, FrameInitInvariant, PTL

(* For every memory map, and whatever memory held before: the frames marked  *)
(* used after init are those with a byte of the metadata in them.            *)
THEOREM MetadataReserved == InitSpec => []OnlyMetadataReserved
<1>1. FrameInitInv => OnlyMetadataReserved
  BY ReservedExactly
<1> QED  BY <1>1, FrameInitInvariant, PTL

(* init establishes what the theorems about alloc and dealloc assume.       *)
THEOREM AllocatorReady == InitSpec => []AllocatorAssumptions
<1>1. FrameInitInv => AllocatorAssumptions
  BY AssumptionsHold
<1> QED  BY <1>1, FrameInitInvariant, PTL
=============================================================================
