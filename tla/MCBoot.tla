------------------------------- MODULE MCBoot -------------------------------
(* Three indices a level.  Of the bootloader's pdpt (frame 2) and of its pd  *)
(* (frame 3) the second entry is absent and the third maps a huge page.      *)
EXTENDS Boot, TLC

CONSTANTS old_page

MCIndex == 0..2
MCTables ==
  [f \in 1..5 |->
     [x \in MCIndex |->
        CASE f = 1 -> 2
          [] f = 2 -> (0 :> 3 @@ 1 :> NULL @@ 2 :> 5)[x]
          [] f = 3 -> (0 :> 4 @@ 1 :> NULL @@ 2 :> 5)[x]
          [] f = 4 -> IF x = 0 THEN old_page ELSE NULL
          [] OTHER -> NULL]]
MCHuge == {<<2, 2>>, <<3, 2>>}

(* Frames for three CPUs and both tables, just enough and too few.           *)
MCSpare == 6..19
MCFreeSets == {6..7, 6..14, 6..19}

(* Nothing, one table, two tables to make; a huge page in the way.           *)
MCLapicPages == {<<0, 0, 0, 0>>, <<0, 0, 1, 2>>, <<0, 1, 0, 2>>, <<0, 0, 2, 0>>, <<0, 2, 0, 1>>}
=============================================================================
