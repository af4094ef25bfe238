-------------------------- MODULE MCFrameAllocator --------------------------
(* Two regions with a gap, the second the host; the first is too small.      *)
EXTENDS FrameAllocator

MCRegions == <<[start |-> 1, size |-> 3], [start |-> 6, size |-> 5]>>
=============================================================================
