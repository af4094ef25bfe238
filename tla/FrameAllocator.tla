--------------------------- MODULE FrameAllocator ---------------------------
(***************************************************************************)
(* alloc and dealloc of BitmapFrameAllocator, src/src/memory/bitmap.rs.     *)
(*                                                                         *)
(* Everything happens under one SpinLock.  The first-fit scan of            *)
(* MemoryRegion::alloc is kept as the loop it is, one iteration a step, by  *)
(* the CPU that holds the lock; the loops that set or clear the bits of a   *)
(* range, which nobody can observe half-way, are one step.  A bitmap is the *)
(* set of its 1 bits; FrameInit has its bytes.  Physical addresses are      *)
(* counted in frames.                                                       *)
(***************************************************************************)
EXTENDS Integers, Sequences, FiniteSets

CONSTANTS
  Regions,      \* Inner::regions: start (frame number) and size (frames)
  Host,         \* index of the region that holds the allocator's metadata
  MetadataFrames, \* how many frames at its start that takes
  Counts        \* the numbers of frames callers ask for

RegionIds == DOMAIN Regions

(* The frame of bit i of region r, and the frames of the region.            *)
FrameOf(r, i) == Regions[r].start + i
Bits(r) == 0..(Regions[r].size - 1)
FramesOf(r) == {FrameOf(r, i) : i \in Bits(r)}

ASSUME FrameAllocatorAssumption ==
  /\ Regions \in Seq([start : Nat, size : Nat])
  /\ \A r, s \in RegionIds : r # s => FramesOf(r) \cap FramesOf(s) = {}
  /\ Host \in RegionIds
  /\ MetadataFrames \in 0..Regions[Host].size
  /\ Counts \subseteq Nat

VARIABLES
  slot,              \* whether `inner` is Some(Inner)
  bitmap,            \* the bits of each region that are 1
  lock,              \* some CPU is inside alloc, which keeps the lock to the end
  count,             \* alloc's argument
  region,            \* the region alloc is scanning
  i,                 \* its next bit
  consecutive_free,  \* free bits just before i
  start_index,       \* where those begin
  held               \* the frames callers have and did not give back

vars == <<slot, bitmap, lock, count, region, i, consecutive_free, start_index, held>>
locals == <<count, region, i, consecutive_free, start_index>>

Reserved(r) == IF r = Host THEN 0..(MetadataFrames - 1) ELSE {}
Metadata == {FrameOf(Host, j) : j \in Reserved(Host)}

TypeOK ==
  /\ slot \in {"None", "Some"}
  /\ bitmap \in [RegionIds -> SUBSET Nat]
  /\ \A r \in RegionIds : bitmap[r] \subseteq Bits(r)
  /\ lock \in {"free", "taken"}
  /\ count \in Counts \cup {0}
  /\ region \in 1..(Len(Regions) + 1)
  /\ i \in Nat
  /\ consecutive_free \in Nat
  /\ start_index \in Nat
  /\ held \subseteq Nat

Init ==
  /\ slot = "None"
  /\ bitmap = [r \in RegionIds |-> {}]
  /\ lock = "free"
  /\ count = 0
  /\ region = 1
  /\ i = 0
  /\ consecutive_free = 0
  /\ start_index = 0
  /\ held = {}

(* BitmapFrameAllocator::init, by the boot CPU before any other runs: the   *)
(* bitmaps are cleared, the metadata is reserved and the slot filled.       *)
InitAllocator ==
  /\ slot = "None"
  /\ lock = "free"
  /\ slot' = "Some"
  /\ bitmap' = [r \in RegionIds |-> Reserved(r)]
  /\ UNCHANGED <<lock, locals, held>>

(* alloc(n) with the lock taken.  Before init it fails with NotInitialized  *)
(* and changes nothing.                                                     *)
AllocBegin(n) ==
  /\ slot = "Some"
  /\ lock = "free"
  /\ lock' = "taken"
  /\ count' = n
  /\ region' = 1
  /\ i' = 0
  /\ consecutive_free' = 0
  /\ start_index' = 0
  /\ UNCHANGED <<slot, bitmap, held>>

IsSet(r, j) == j \in bitmap[r]

RunOf(from, n) == from..(from + n - 1)   \* also FrameRange

RunNotReset == consecutive_free
RunReset == 0

EnoughOffByOne == consecutive_free = count
Enough == consecutive_free + 1 = count   \* never, if count = 0

RunStart == IF consecutive_free = 0 THEN i ELSE start_index

(* One iteration over a free bit that does not complete the run.            *)
ScanFree ==
  /\ lock = "taken"
  /\ region \in RegionIds
  /\ i < Regions[region].size
  /\ ~IsSet(region, i)
  /\ ~Enough
  /\ start_index' = RunStart
  /\ consecutive_free' = consecutive_free + 1
  /\ i' = i + 1
  /\ UNCHANGED <<slot, bitmap, lock, count, region, held>>

(* One iteration over a used bit.                                           *)
ScanUsed ==
  /\ lock = "taken"
  /\ region \in RegionIds
  /\ i < Regions[region].size
  /\ IsSet(region, i)
  /\ consecutive_free' = RunReset
  /\ i' = i + 1
  /\ UNCHANGED <<slot, bitmap, lock, count, region, start_index, held>>

(* The iteration that completes the run: its bits are set, the frames are   *)
(* the caller's and the lock is released.                                   *)
AllocFound ==
  /\ lock = "taken"
  /\ region \in RegionIds
  /\ i < Regions[region].size
  /\ ~IsSet(region, i)
  /\ Enough
  /\ bitmap' = [bitmap EXCEPT ![region] = @ \cup RunOf(RunStart, count)]
  /\ held' = held \cup {FrameOf(region, j) : j \in RunOf(RunStart, count)}
  /\ lock' = "free"
  /\ UNCHANGED <<slot, locals>>

(* region.alloc returned None: the next region, with fresh locals.          *)
NextRegion ==
  /\ lock = "taken"
  /\ region \in RegionIds
  /\ i >= Regions[region].size
  /\ region' = region + 1
  /\ i' = 0
  /\ consecutive_free' = 0
  /\ start_index' = 0
  /\ UNCHANGED <<slot, bitmap, lock, count, held>>

(* Err(OutOfMemory)                                                         *)
AllocFailed ==
  /\ lock = "taken"
  /\ region \notin RegionIds
  /\ lock' = "free"
  /\ UNCHANGED <<slot, bitmap, locals, held>>

(* The region whose addresses contain frame f: dealloc takes the first one. *)
Contains(r, f) == Regions[r].start <= f /\ f < Regions[r].start + Regions[r].size

ClearOneLess(from, n) == RunOf(from, n - 1)
Cleared(from, n) == RunOf(from, n)

(* dealloc of n frames from f on, all of them the caller's and, as those of *)
(* one alloc are, in one region.                                            *)
Dealloc(f, n) ==
  /\ slot = "Some"
  /\ lock = "free"
  /\ RunOf(f, n) \subseteq held
  /\ \E r \in RegionIds :
       /\ Contains(r, f)
       /\ RunOf(f, n) \subseteq FramesOf(r)
       /\ bitmap' = [bitmap EXCEPT ![r] = @ \ Cleared(f - Regions[r].start, n)]
  /\ held' = held \ RunOf(f, n)
  /\ UNCHANGED <<slot, lock, locals>>

FreeBitsOffByOne(r) == {j \in Bits(r) : j > 0 /\ ~IsSet(r, j)}
FreeBits(r) == {j \in Bits(r) : ~IsSet(r, j)}

(* The sums over the regions, as the number of <<region, bit>> pairs.       *)
RegionBits == UNION {{r} \X Bits(r) : r \in RegionIds}
FreeRegionBits == UNION {{r} \X FreeBits(r) : r \in RegionIds}

TotalFrames == IF slot = "None" THEN 0 ELSE Cardinality(RegionBits)
FreeFrames == IF slot = "None" THEN 0 ELSE Cardinality(FreeRegionBits)

-----------------------------------------------------------------------------

Next ==
  \/ InitAllocator
  \/ \E n \in Counts : AllocBegin(n)
  \/ ScanFree \/ ScanUsed \/ AllocFound
  \/ NextRegion \/ AllocFailed
  \/ \E f \in held, n \in Counts \ {0} : Dealloc(f, n)

Spec == Init /\ [][Next]_vars

-----------------------------------------------------------------------------
(* Properties *)

(* A bit is 1 exactly if its frame is the allocator's own or a caller's, so  *)
(* nothing leaks and no frame in use can be found by a scan; the metadata is *)
(* never in a caller's hands.                                                *)
BitmapTracksOwners ==
  /\ slot = "Some" => \A r \in RegionIds :
       bitmap[r] = Reserved(r) \cup {j \in Bits(r) : FrameOf(r, j) \in held}
  /\ \A f \in held : f \notin Metadata /\ \E r \in RegionIds : f \in FramesOf(r)

(* "we never hand them out": an alloc gives its caller `count` adjacent     *)
(* frames of one region that nobody has, the allocator itself included.     *)
HandsOutFreshRun ==
  [][ held' \subseteq held \/
      \E r \in RegionIds : \E j \in Bits(r) :
        /\ RunOf(j, count) \subseteq Bits(r)
        /\ \A k \in RunOf(j, count) : FrameOf(r, k) \notin held \cup Metadata
        /\ held' = held \cup {FrameOf(r, k) : k \in RunOf(j, count)} ]_vars

(* Bits j to j + n - 1 of region r are none of the used ones.               *)
IsFreeRun(r, used, j, n) == RunOf(j, n) \subseteq Bits(r) \ used

(* First fit: the scan has passed over no run it could have taken, in the   *)
(* regions before this one and below i - so OutOfMemory, with every region  *)
(* behind, means that no region has `count` free frames in a row.           *)
NoRunSkipped ==
  lock = "taken" /\ count > 0 =>
    /\ \A r \in 1..(region - 1) : \A j \in Bits(r) : ~IsFreeRun(r, bitmap[r], j, count)
    /\ region \in RegionIds => \A j \in 0..(i - count) : ~IsFreeRun(region, bitmap[region], j, count)

(* free_frames counts what total_frames has besides the metadata and what   *)
(* callers hold.                                                            *)
FreeFramesExact ==
  slot = "Some" => FreeFrames + Cardinality(held) + MetadataFrames = TotalFrames
=============================================================================
