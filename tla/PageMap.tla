-------------------------------- MODULE PageMap --------------------------------
(***************************************************************************)
(* map_page of src/src/memory/vmm.rs, on the page tables the bootloader     *)
(* left.  It follows the tables of a virtual page down to the last level,   *)
(* with a new frame wherever an entry of the middle levels is not present.  *)
(* Boot calls it, for the registers of the LAPIC.                           *)
(*                                                                         *)
(* A new frame is not cleared, an entry that maps a huge page is followed   *)
(* as if it were a table, and the first entry is not looked at: `clean`     *)
(* says that the call met none of this.                                     *)
(***************************************************************************)
EXTENDS Integers, Sequences, FiniteSetsExt

CONSTANTS
  Tables,    \* the bootloader's tables: frame -> index -> entry, NULL absent
  CR3,       \* the frame of the pml4
  Huge,      \* <<table, index>> of the entries that map huge pages
  Spare,     \* the other frames
  FreeSets,  \* the sets of Spare frames that may be free at the start
  Stale,     \* frames of Spare whose old content need not be zero
  Index,     \* indices of a table, 0..511
  NULL

Frames == DOMAIN Tables \cup Spare

(* A virtual page is its four indices.  Those of the HHDM share the first.   *)
Pages == {0} \X Index \X Index \X Index

(* What the MMU finds for a page: the pml4, the pdpt, the pd, the pt and the *)
(* frame.  A huge page, which ends the walk, is minus its frame.             *)
Follow(mem, f, x) ==
  IF f \notin DOMAIN mem THEN f
  ELSE IF <<f, x>> \in Huge THEN -mem[f][x] ELSE mem[f][x]

Path(mem, v) ==
  LET pdpt == Follow(mem, CR3, v[1])
      pd == Follow(mem, pdpt, v[2])
      pt == Follow(mem, pd, v[3])
  IN  <<CR3, pdpt, pd, pt, Follow(mem, pt, v[4])>>

ASSUME PageMapAssumption ==
  /\ Frames \subseteq Nat \ {0}
  /\ 0 \in Index
  /\ \A f \in DOMAIN Tables : Tables[f] = [x \in Index |-> Tables[f][x]]
  /\ Huge \subseteq (DOMAIN Tables) \X Index
  /\ \A h \in Huge : Tables[h[1]][h[2]] \in Nat
  /\ DOMAIN Tables \cap Spare = {}
  /\ CR3 \in DOMAIN Tables
  /\ FreeSets \subseteq SUBSET Spare
  /\ Stale \subseteq Spare

(* The bootloader's tables are those of a four-level tree: the HHDM has its  *)
(* pdpt, an entry above the last level is absent, huge or another table, a   *)
(* pml4 and a pt have no huge entry, and no table is found on two ways.      *)
ASSUME TreeAssumption ==
  /\ Tables[CR3][0] \in DOMAIN Tables
  /\ \A v \in Pages :
       /\ <<CR3, v[1]>> \notin Huge
       /\ <<Path(Tables, v)[4], v[4]>> \notin Huge
       /\ \A k \in 1..3 :
            Path(Tables, v)[k] \in DOMAIN Tables /\ <<Path(Tables, v)[k], v[k]>> \notin Huge =>
              Path(Tables, v)[k + 1] \in DOMAIN Tables \cup {NULL}
  /\ \A v, w \in Pages, j, k \in 1..4 :
       Path(Tables, v)[j] = Path(Tables, w)[k] /\ Path(Tables, v)[j] \in DOMAIN Tables =>
         j = k /\ \A i \in 1..(k - 1) : v[i] = w[i]

VARIABLES
  memory,       \* the content of every frame, read as a table
  free,         \* what the frame allocator has left
  dirty,        \* frames whose old content is not all zero
  virt, phys,   \* the arguments of the call, NULL outside
  table, level, \* the frame and the level the call has come to
  clean,
  mapped        \* what every page is to be mapped to

pageVars == <<memory, dirty, virt, phys, table, level, clean, mapped>>

Walk(v) == Path(memory, v)[5]

PageInit ==
  /\ free \in FreeSets
  /\ dirty \in SUBSET Stale
  /\ \E old \in IF dirty = {} THEN {CR3} ELSE DOMAIN Tables :
       memory = [f \in Frames |-> IF f \in DOMAIN Tables THEN Tables[f]
                                  ELSE [x \in Index |-> IF f \in dirty THEN old ELSE NULL]]
  /\ virt = NULL /\ phys = NULL /\ table = NULL /\ level = 1
  /\ clean = TRUE
  /\ mapped = [v \in Pages |-> Walk(v)]

(* alloc_frame: the allocator's first fit, without dealloc.                 *)
AllocFrame == free' = free \ {Min(free)}

MapPage(v, p) ==
  /\ virt' = v /\ phys' = p
  /\ table' = memory[CR3][v[1]]
  /\ level' = 2
  /\ UNCHANGED <<memory, free, dirty, clean, mapped>>

PreviousIndex == virt[level - 1]
TableIndex == virt[level]

Entry == memory[table][TableIndex]

(* The pdpt and the pd: the entry is followed, or made with a new frame.    *)
Descend ==
  /\ IF Entry # NULL
     THEN /\ table' = Entry
          /\ clean' = (clean /\ <<table, TableIndex>> \notin Huge)
          /\ UNCHANGED <<memory, free>>
     ELSE /\ AllocFrame
          /\ table' = Min(free)
          /\ memory' = [memory EXCEPT ![table][TableIndex] = Min(free)]
          /\ clean' = (clean /\ Min(free) \notin dirty)
  /\ level' = level + 1
  /\ UNCHANGED <<dirty, virt, phys, mapped>>

SetEntry ==
  /\ memory' = [memory EXCEPT ![table][TableIndex] = phys]
  /\ virt' = NULL /\ phys' = NULL /\ table' = NULL /\ level' = 1
  /\ mapped' = [mapped EXCEPT ![virt] = phys]
  /\ UNCHANGED <<free, dirty, clean>>

-----------------------------------------------------------------------------
(* Properties *)

(* A call that met only cleared frames and tables maps the page it was      *)
(* given, over an old mapping too, and no other: half-way through the call  *)
(* and after it every other page is what the bootloader made it.            *)
MapsThatPageOnly ==
  clean => \A v \in Pages : v # virt => Walk(v) = mapped[v]
=============================================================================
