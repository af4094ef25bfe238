------------------------------ MODULE MCConsole ------------------------------
(* No name, a broken escape sequence, and every one with up to MaxText bytes  *)
(* of arguments.                                                             *)
EXTENDS Console

CONSTANTS ArgBytes, MaxText

MCNames ==
  {<<>>, <<Escape, 65>>} \cup
  {<<Escape, Bracket>> \o w \o <<LetterM>> : w \in UNION {[1..n -> ArgBytes] : n \in 0..MaxText}}

ASSUME NamesAreQuiet == QuietNames
=============================================================================
