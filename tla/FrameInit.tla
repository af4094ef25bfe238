------------------------------ MODULE FrameInit ------------------------------
(***************************************************************************)
(* BitmapFrameAllocator::init, src/src/memory/bitmap.rs, with BitmapView:   *)
(* from the bootloader's memory map to the region structs and bitmaps laid  *)
(* out in memory, down to the bytes.  What it establishes is what           *)
(* FrameAllocator assumes of its constants.                                 *)
(***************************************************************************)
EXTENDS Integers, Sequences, FiniteSets

CONSTANTS
  MemoryMaps,   \* the maps Limine may pass: sequences of [usable, base, length]
  MemoryBytes,  \* every address is below this
  FRAME_SIZE,   \* 4096 bytes
  RegionSize,   \* size_of::<MemoryRegion>()
  BITS          \* of a byte, 8

UsableIn(map) == SelectSeq(map, LAMBDA e : e.usable)

(* Addresses from a[1] up to and not including a[2].                        *)
Disjoint(a, b) == a[2] <= b[1] \/ b[2] <= a[1]

Extent(e) == <<e.base, e.base + e.length>>

(* Limine: usable entries are whole frames and overlap nothing.             *)
ASSUME FrameInitAssumption ==
  /\ MemoryBytes \in Nat
  /\ {FRAME_SIZE, RegionSize, BITS} \subseteq Nat \ {0}
  /\ \A map \in MemoryMaps :
       /\ UsableIn(map) \in Seq([usable : BOOLEAN, base : Nat, length : Nat])
       /\ \A k \in DOMAIN UsableIn(map) :
            /\ UsableIn(map)[k].length % FRAME_SIZE = 0
            /\ Extent(UsableIn(map)[k])[2] <= MemoryBytes
       /\ \A k, l \in DOMAIN UsableIn(map) :
            k # l => Disjoint(Extent(UsableIn(map)[k]), Extent(UsableIn(map)[l]))

VARIABLES
  entries,  \* MEMORY_MAP_REQUEST's answer
  ones,     \* the 1 bits of memory, as <<byte address, bit>>
  regions,  \* Inner::regions
  pc        \* "start", "done" or "panic"

initVars == <<entries, ones, regions, pc>>

AllBits == (0..(MemoryBytes - 1)) \X (0..(BITS - 1))

(* Memory holds whatever was there before.                                  *)
BeforeInit ==
  /\ entries \in MemoryMaps
  /\ ones \in {{}, AllBits}
  /\ regions = <<>>
  /\ pc = "start"

Usable == UsableIn(entries)

DivCeil(n, d) == (n + d - 1) \div d

FrameCount(e) == e.length \div FRAME_SIZE
BitmapBytesRoundedDown(e) == FrameCount(e) \div BITS
BitmapBytes(e) == DivCeil(FrameCount(e), BITS)

(* The bitmap bytes of the first k usable entries: a sum, as the number of   *)
(* <<entry, byte>> pairs.                                                    *)
BytesOf(j) == {j} \X (1..BitmapBytes(Usable[j]))
BytesUpTo(k) == Cardinality(UNION {BytesOf(j) : j \in 1..k})

InitialSize == BytesUpTo(Len(Usable)) + Len(Usable) * RegionSize
FramesNeededRoundedDown == InitialSize \div FRAME_SIZE
FramesNeeded == DivCeil(InitialSize, FRAME_SIZE)

(* ri and its entry: the first usable one big enough for the metadata.      *)
IsHost(k) ==
  /\ Usable[k].length >= InitialSize
  /\ \A j \in 1..(k - 1) : Usable[j].length < InitialSize

(* MemoryRegion::new for the k-th usable entry, metadata at region_start.   *)
Region(k, region_start) ==
  [start |-> Usable[k].base,
   end   |-> Usable[k].base + Usable[k].length,
   size  |-> FrameCount(Usable[k]),
   addr  |-> region_start + (k - 1) * RegionSize,                          \* of the struct
   data  |-> region_start + Len(Usable) * RegionSize + BytesUpTo(k - 1),   \* of its bitmap
   bytes |-> BitmapBytes(Usable[k])]

BitAt(r, index) == <<r.data + index \div BITS, index % BITS>>
BitIsSet(r, index) == BitAt(r, index) \in ones

(* data.fill(0)                                                             *)
Filled(rs) ==
  {b \in AllBits : \E k \in DOMAIN rs : b[1] \in rs[k].data..(rs[k].data + rs[k].bytes - 1)}

ReserveInFirst(rs, ri, addr, n) ==
  LET from == (addr - rs[1].start) \div FRAME_SIZE
  IN  {BitAt(rs[1], j) : j \in from..(from + n - 1)}
(* region_slice[ri].reserve: n frames from addr on.                         *)
Reserve(rs, ri, addr, n) ==
  LET from == (addr - rs[ri].start) \div FRAME_SIZE
  IN  {BitAt(rs[ri], j) : j \in from..(from + n - 1)}

InitSucceeds ==
  /\ pc = "start"
  /\ \E ri \in DOMAIN Usable :
       /\ IsHost(ri)
       /\ regions' = [k \in 1..Len(Usable) |-> Region(k, Usable[ri].base)]
       /\ ones' = (ones \ Filled(regions')) \cup Reserve(regions', ri, Usable[ri].base, FramesNeeded)
  /\ pc' = "done"
  /\ UNCHANGED entries

(* "didn't find space for frame allocator data"                             *)
InitPanics ==
  /\ pc = "start"
  /\ ~\E ri \in DOMAIN Usable : IsHost(ri)
  /\ pc' = "panic"
  /\ UNCHANGED <<entries, ones, regions>>

InitNext == InitSucceeds \/ InitPanics

InitSpec == BeforeInit /\ [][InitNext]_initVars

-----------------------------------------------------------------------------
(* Properties *)

Structs == {<<r.addr, r.addr + RegionSize>> : r \in {regions[k] : k \in DOMAIN regions}}
Bitmaps == {<<r.data, r.data + r.bytes>> : r \in {regions[k] : k \in DOMAIN regions}}

(* "MemoryRegion[] | Bitmap data | Bitmap data | ...": no two of these       *)
(* overlap, all lie in one usable entry, and every bitmap has a bit for each *)
(* frame of its region.                                                      *)
MetadataLayout ==
  pc = "done" =>
    /\ \A a, b \in Structs \cup Bitmaps : a # b => Disjoint(a, b)
    /\ \E k \in DOMAIN regions : \A a \in Structs \cup Bitmaps :
         regions[k].start <= a[1] /\ a[2] <= regions[k].end
    /\ \A k \in DOMAIN regions : regions[k].size <= regions[k].bytes * BITS

(* "those frames are then reserved so we never hand them out": after init a  *)
(* frame of a region reads as used exactly if some byte of the metadata is   *)
(* in it, whatever memory held before.                                       *)
OnlyMetadataReserved ==
  pc = "done" =>
    \A k \in DOMAIN regions : \A index \in 0..(regions[k].size - 1) :
      LET from == regions[k].start + index * FRAME_SIZE
      IN  BitIsSet(regions[k], index) <=>
            \E a \in Structs \cup Bitmaps :
              a[1] < a[2] /\ ~Disjoint(a, <<from, from + FRAME_SIZE>>)

(* What FrameAllocator assumes: the regions share no frame, and the reserved *)
(* frames are the first ones of a region that has so many.                   *)
AllocatorAssumptions ==
  pc = "done" =>
    /\ \A k, l \in DOMAIN regions :
         k # l => Disjoint(<<regions[k].start, regions[k].end>>, <<regions[l].start, regions[l].end>>)
    /\ \E k \in DOMAIN regions :
         /\ FramesNeeded <= regions[k].size
         /\ \A l \in DOMAIN regions : \A index \in 0..(regions[l].size - 1) :
              BitIsSet(regions[l], index) <=> l = k /\ index < FramesNeeded
=============================================================================
