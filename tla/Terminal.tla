------------------------------- MODULE Terminal -------------------------------
(***************************************************************************)
(* The terminal of src/src/dev/console/terminal.rs: bytes come in, glyphs   *)
(* of 8 by 10 pixels go to the framebuffer, and the escape sequence          *)
(* ESC [ n ; n ... m sets the colours of the glyphs to come.                *)
(*                                                                         *)
(* The framebuffer is the colour it was last filled with and the set of     *)
(* glyphs drawn since; the bitmaps of the font and the colour values of the *)
(* theme are left out.  A byte is its number, usize arithmetic wraps as in  *)
(* the release build the makefile makes.                                    *)
(***************************************************************************)
EXTENDS Integers, Sequences, FiniteSets

CONSTANTS
  WIDTH, HEIGHT,  \* of the framebuffer, in pixels
  PITCH,          \* bytes per row of pixels
  MaxArgs,        \* AnsiArgs::args.len(), 8
  USIZE           \* usize::MAX + 1

ASSUME TerminalAssumption ==
  /\ WIDTH \in Nat /\ HEIGHT \in Nat /\ PITCH \in Nat
  /\ WIDTH >= 8 /\ HEIGHT >= 10 /\ PITCH \div 4 >= WIDTH
  /\ MaxArgs \in Nat \ {0}
  /\ USIZE \in Nat /\ USIZE > 107   \* the largest argument that means something

LineFeed == 10
Escape == 27
Bracket == 91
Semicolon == 59
LetterM == 109
Digits == 48..57

VARIABLES
  cursor_x, cursor_y,
  fg_color, bg_color,
  ansi_state,   \* which variant; the data of Arg is args
  args,         \* AnsiArgs::args[..count]
  fill_color,   \* what the screen was last filled with
  cells,        \* the glyphs drawn since: position, byte and colours
  text          \* history: the bytes of the sequence since its "["

colours == <<fg_color, bg_color>>
cursor == <<cursor_x, cursor_y>>
screen == <<fill_color, cells>>
termVars == <<cursor, colours, ansi_state, args, screen, text>>

Default == <<"default", 0>>                 \* default_fg or default_bg
Colour(i) == <<"colors", i>>
Bright(i) == <<"bright_colors", i>>

(* Terminal::new and the clear() of console::init.                          *)
TermInit ==
  /\ cursor_x = 0 /\ cursor_y = 0
  /\ fg_color = Default /\ bg_color = Default
  /\ ansi_state = "Ground"
  /\ args = <<>>
  /\ fill_color = Default
  /\ cells = {}
  /\ text = <<>>

-----------------------------------------------------------------------------
(* put_char *)

(* Unsupported bytes are not drawn, but they take their cell.               *)
DrawGlyph(c) ==
  IF c >= 128 THEN {}
  ELSE {[x |-> cursor_x, y |-> cursor_y, glyph |-> c, fg |-> fg_color, bg |-> bg_color]}

(* The index put_pixel computes for the last pixel of the next glyph, its    *)
(* largest one, is inside the slice; if not, draw_glyph panics.  Nothing     *)
(* else is checked: a pixel right of the screen is one of the next row.      *)
IndexInBounds ==
  (cursor_y + 9) * (PITCH \div 4) + cursor_x + 7 < (PITCH \div 4) * HEIGHT

OneTooFar(x) == x + 8 > WIDTH
EndOfLine(x) == (x + 8) + 8 > WIDTH

BelowGlyph(y) == y + 8
NextLine(y) == y + 10

(* A line that does not fit any more clears the screen to the background of  *)
(* the moment: scroll() only does that.                                     *)
PutChar(c) ==
  LET wraps == c = LineFeed \/ EndOfLine(cursor_x)
      scrolls == wraps /\ NextLine(cursor_y) + 10 > HEIGHT
  IN
  /\ cursor_x' = IF wraps THEN 0 ELSE cursor_x + 8
  /\ cursor_y' = IF scrolls THEN 0 ELSE IF wraps THEN NextLine(cursor_y) ELSE cursor_y
  /\ fill_color' = IF scrolls THEN bg_color ELSE fill_color
  /\ cells' = IF scrolls THEN {}
              ELSE IF c = LineFeed THEN cells
              ELSE cells \cup DrawGlyph(c)

-----------------------------------------------------------------------------
(* recv_byte *)

Ground(c) ==
  /\ ansi_state = "Ground"
  /\ IF c = Escape
     THEN ansi_state' = "Escape" /\ UNCHANGED <<cursor, screen>>
     ELSE PutChar(c) /\ UNCHANGED ansi_state
  /\ UNCHANGED <<colours, args, text>>

EscapeByte(c) ==
  /\ ansi_state = "Escape"
  /\ IF c = Bracket
     THEN ansi_state' = "Arg" /\ args' = <<0>>
     ELSE ansi_state' = "Ground" /\ UNCHANGED args
  /\ UNCHANGED <<cursor, colours, screen, text>>

InArg(c) == ansi_state = "Arg" /\ text' = Append(text, c) /\ UNCHANGED <<cursor, screen>>

NewVal(last, c) == (last * 10 + (c - 48)) % USIZE

ArgDigit(c) ==
  /\ c \in Digits
  /\ InArg(c)
  /\ args' = [args EXCEPT ![Len(args)] = NewVal(@, c)]
  /\ UNCHANGED <<colours, ansi_state>>

OneMoreArg(count) == count <= MaxArgs
RoomForArg(count) == count < MaxArgs

ArgSeparator(c) ==
  /\ c = Semicolon
  /\ InArg(c)
  /\ args' = IF RoomForArg(Len(args)) THEN Append(args, 0) ELSE args
  /\ UNCHANGED <<colours, ansi_state>>

(* What one parameter makes of the colours <<foreground, background>>.      *)
Apply(param, cs) ==
  CASE param = 0          -> <<Default, Default>>
    [] param \in 30..37   -> <<Colour(param - 30), cs[2]>>
    [] param = 39         -> <<Default, cs[2]>>
    [] param \in 40..47   -> <<cs[1], Colour(param - 40)>>
    [] param = 49         -> <<cs[1], Default>>
    [] param \in 90..97   -> <<Bright(param - 90), cs[2]>>
    [] param \in 100..107 -> <<cs[1], Bright(param - 100)>>
    [] OTHER              -> cs

(* All of them, in order.                                                   *)
ApplyAll(params, cs) ==
  LET after[i \in 0..Len(params)] == IF i = 0 THEN cs ELSE Apply(params[i], after[i - 1])
  IN  after[Len(params)]

SetColours(c) ==
  /\ c = LetterM
  /\ ansi_state = "Arg"
  /\ fg_color' = ApplyAll(args, colours)[1]
  /\ bg_color' = ApplyAll(args, colours)[2]
  /\ ansi_state' = "Ground"
  /\ args' = <<>>
  /\ text' = <<>>
  /\ UNCHANGED <<cursor, screen>>

(* Anything else is ignored, and does not end the sequence.                 *)
ArgOther(c) ==
  /\ c \notin Digits \cup {Semicolon, LetterM}
  /\ InArg(c)
  /\ UNCHANGED <<colours, ansi_state, args>>

RecvByte(c) ==
  \/ Ground(c) \/ EscapeByte(c)
  \/ ArgDigit(c) \/ ArgSeparator(c) \/ SetColours(c) \/ ArgOther(c)

-----------------------------------------------------------------------------
(* Properties *)

Apart(p, q) == p.x + 8 <= q.x \/ q.x + 8 <= p.x \/ p.y + 10 <= q.y \/ q.y + 10 <= p.y

(* No glyph is drawn over another: at the cursor the screen is blank, after  *)
(* a wrap, a line feed at the end of a full line, and a scroll too.          *)
CursorCellBlank ==
  \A cell \in cells : Apart(cell, [x |-> cursor_x, y |-> cursor_y])

(* The argument text of a sequence, read as a whole: the fields between the  *)
(* semicolons in decimal.  Of more than MaxArgs fields the last ones run     *)
(* together; what is neither digit nor semicolon does not count.             *)
Semicolons(s) == {i \in 1..Len(s) : s[i] = Semicolon}

Field(k) == IF k > MaxArgs THEN MaxArgs ELSE k

FieldOf(s, i) == Field(Cardinality({j \in Semicolons(s) : j < i}) + 1)

DigitsOf(s, k) == {i \in 1..Len(s) : s[i] \in Digits /\ FieldOf(s, i) = k}

Ten[n \in Nat] == IF n = 0 THEN 1 ELSE 10 * Ten[n - 1]   \* 10^n

(* What the digit at i is worth where it stands.                            *)
Worth(s, k, i) ==
  IF i \in DigitsOf(s, k)
  THEN (s[i] - 48) * Ten[Cardinality({j \in DigitsOf(s, k) : j > i})]
  ELSE 0

DecimalField(s, k) ==
  LET sum[i \in 0..Len(s)] == IF i = 0 THEN 0 ELSE sum[i - 1] + Worth(s, k, i)
  IN  sum[Len(s)]

(* The arguments collected byte by byte are those of the text, modulo the    *)
(* width of usize: overflow gives another number, and no index.              *)
ParsedArgs ==
  ansi_state = "Arg" =>
    /\ Len(args) = Field(Cardinality(Semicolons(text)) + 1)
    /\ \A k \in 1..Len(args) : args[k] = DecimalField(text, k) % USIZE
=============================================================================
