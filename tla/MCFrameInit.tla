---------------------------- MODULE MCFrameInit ----------------------------
(* Every memory map of up to three entries of 1, 2, 3 or 5 frames, usable or *)
(* not, one frame apart.  Frames of 4 bytes, bytes of 2 bits and structs of  *)
(* 2 bytes make bitmaps of several bytes and metadata of several frames.     *)
EXTENDS FrameInit, FiniteSetsExt

Kinds == [usable : BOOLEAN, frames : {1, 2, 3, 5}]

FramesBefore(s, k) == MapThenSumSet(LAMBDA j : s[j].frames + 1, 1..(k - 1))

MapOf(s) ==
  [k \in DOMAIN s |-> [usable |-> s[k].usable,
                       base   |-> FRAME_SIZE * (1 + FramesBefore(s, k)),
                       length |-> FRAME_SIZE * s[k].frames]]

MCMemoryMaps == {MapOf(s) : s \in UNION {[1..n -> Kinds] : n \in 1..3}}
=============================================================================
