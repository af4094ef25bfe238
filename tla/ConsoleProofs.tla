---------------------------- MODULE ConsoleProofs ----------------------------
(***************************************************************************)
(* Proofs about Console for every size of the framebuffer, any number of    *)
(* CPUs that print and any bytes in their messages: no index of put_pixel   *)
(* is out of bounds, no glyph is drawn over another, and so nothing panics  *)
(* with the lock of the terminal held, which would have the panic handler   *)
(* spin on it for ever; messages keep their colours, and the arguments of   *)
(* an escape sequence are what its text says.                               *)
(***************************************************************************)
EXTENDS Console, SequenceTheorems, FiniteSetTheorems, WellFoundedInduction, TLAPS

(* The cursor leaves room for a glyph.                                       *)
CursorInv ==
  /\ cursor_x \in Nat /\ cursor_x + 8 <= WIDTH
  /\ cursor_y \in Nat /\ cursor_y + 10 <= HEIGHT

(* What is drawn is above the cursor's line, or on it to the left: Apart is  *)
(* not inductive, for it does not say on which side the cursor is.           *)
BeforeCursor(cell) ==
  /\ cell.x \in Nat /\ cell.y \in Nat
  /\ \/ cell.y + 10 <= cursor_y
     \/ cell.y = cursor_y /\ cell.x + 8 <= cursor_x

TerminalInv == CursorInv /\ \A cell \in cells : BeforeCursor(cell)

(* The lock of GLOBAL_TERMINAL belongs to the one that is in log.            *)
OwnerInv ==
  /\ pc \in [Printers -> {"code", "spin", "log", "halt"}]
  /\ \A c \in Printers : pc[c] = "log" <=> owner = c

ConsoleInv == TerminalInv /\ OwnerInv

-----------------------------------------------------------------------------
(* recv_byte *)

(* The index that put_pixel computes for the last pixel of a glyph.          *)
LEMMA IndexLemma ==
  ASSUME NEW x \in Nat, NEW y \in Nat, NEW w \in Nat, NEW h \in Nat, NEW p \in Nat,
         x + 8 <= w, y + 10 <= h, p >= w
  PROVE  (y + 9) * p + x + 7 < p * h
<1>1. PICK d \in Nat : h = (y + 10) + d
  <2>1. h - (y + 10) \in Nat /\ h = (y + 10) + (h - (y + 10))
    OBVIOUS
  <2> QED  BY <2>1
<1>2. p * h = (y + 9) * p + p + d * p
  BY <1>1
<1>3. d * p >= 0 /\ d * p \in Nat /\ (y + 9) * p \in Nat
  OBVIOUS
<1> QED  BY <1>2, <1>3

LEMMA IndexInBoundsLemma == CursorInv => IndexInBounds
<1> SUFFICES ASSUME CursorInv PROVE IndexInBounds
  OBVIOUS
<1>1. PICK p \in Nat : p = PITCH \div 4 /\ p >= WIDTH
  BY TerminalAssumption
<1>2. (cursor_y + 9) * p + cursor_x + 7 < p * HEIGHT
  BY <1>1, IndexLemma, TerminalAssumption DEF CursorInv
<1> QED  BY <1>1, <1>2 DEF IndexInBounds

(* put_char moves the cursor on, to the next line, or to the top of a blank  *)
(* screen.                                                                   *)
LEMMA PutCharLemma ==
  ASSUME TerminalInv, NEW c, PutChar(c), UNCHANGED <<colours>>
  PROVE  TerminalInv'
<1>1. CASE c # LineFeed /\ ~EndOfLine(cursor_x)
  <2>1. cursor_x' = cursor_x + 8 /\ cursor_y' = cursor_y /\ cells' = cells \cup DrawGlyph(c)
    BY <1>1 DEF PutChar
  <2>2. CursorInv'
    BY <1>1, <2>1, TerminalAssumption DEF TerminalInv, CursorInv, EndOfLine
  <2>3. ASSUME NEW cell \in cells PROVE BeforeCursor(cell)'
    BY <2>1 DEF TerminalInv, CursorInv, BeforeCursor
  <2>4. ASSUME NEW cell \in DrawGlyph(c) PROVE BeforeCursor(cell)'
    BY <2>1, <2>4 DEF TerminalInv, CursorInv, BeforeCursor, DrawGlyph
  <2> QED  BY <2>1, <2>2, <2>3, <2>4 DEF TerminalInv
<1>2. CASE c = LineFeed \/ EndOfLine(cursor_x)
  <2>1. CASE NextLine(cursor_y) + 10 > HEIGHT
    <3>1. cursor_x' = 0 /\ cursor_y' = 0 /\ cells' = {}
      BY <1>2, <2>1 DEF PutChar
    <3> QED  BY <3>1, TerminalAssumption DEF TerminalInv, CursorInv
  <2>2. CASE ~(NextLine(cursor_y) + 10 > HEIGHT)
    <3>1. cursor_x' = 0 /\ cursor_y' = cursor_y + 10 /\ cells' \subseteq cells \cup DrawGlyph(c)
      BY <1>2, <2>2 DEF PutChar, NextLine
    <3>2. CursorInv'
      BY <2>2, <3>1, TerminalAssumption DEF TerminalInv, CursorInv, NextLine
    <3>3. ASSUME NEW cell \in cells PROVE BeforeCursor(cell)'
      BY <3>1 DEF TerminalInv, CursorInv, BeforeCursor
    <3>4. ASSUME NEW cell \in DrawGlyph(c) PROVE BeforeCursor(cell)'
      BY <3>1, <3>4 DEF TerminalInv, CursorInv, BeforeCursor, DrawGlyph
    <3> QED  BY <3>1, <3>2, <3>3, <3>4 DEF TerminalInv
  <2> QED  BY <2>1, <2>2
<1> QED  BY <1>1, <1>2

LEMMA SameScreen ==
  ASSUME TerminalInv, UNCHANGED <<cursor, screen>>
  PROVE  TerminalInv'
BY DEF TerminalInv, CursorInv, BeforeCursor, cursor, screen

LEMMA RecvByteLemma ==
  ASSUME TerminalInv, NEW c, RecvByte(c)
  PROVE  TerminalInv'
<1>1. CASE Ground(c)
  <2>1. CASE PutChar(c)
    BY <1>1, <2>1, PutCharLemma DEF Ground
  <2>2. CASE ~PutChar(c)
    BY <1>1, <2>2, SameScreen DEF Ground
  <2> QED  BY <2>1, <2>2
<1>2. CASE ~Ground(c)
  <2>1. UNCHANGED <<cursor, screen>>
    BY <1>2 DEF RecvByte, EscapeByte, ArgDigit, ArgSeparator, SetColours, ArgOther, InArg
  <2> QED  BY <2>1, SameScreen
<1> QED  BY <1>1, <1>2

-----------------------------------------------------------------------------
(* log and the panic handler *)

LEMMA ConsoleInvInit == ConsoleInit => ConsoleInv
<1> SUFFICES ASSUME ConsoleInit PROVE ConsoleInv
  OBVIOUS
<1>1. TerminalInv
  BY TerminalAssumption DEF ConsoleInit, TermInit, TerminalInv, CursorInv
<1>2. OwnerInv
  BY ConsoleAssumption DEF ConsoleInit, OwnerInv
<1> QED  BY <1>1, <1>2 DEF ConsoleInv

(* A call of log, the panic handler's too, begins outside of it.             *)
LEMMA BeginLemma ==
  ASSUME OwnerInv, NEW c \in Printers, pc[c] = "code", NEW message, Begin(c, message), UNCHANGED owner
  PROVE  OwnerInv'
BY DEF OwnerInv, Begin

LEMMA SendByteStep ==
  ASSUME ConsoleInv, NEW c \in Printers, SendByte(c)
  PROVE  ConsoleInv'
<1>1. IndexInBounds
  BY IndexInBoundsLemma DEF ConsoleInv, TerminalInv
<1>2. RecvByte(Head(out[c])) /\ UNCHANGED <<pc, owner>>
  BY <1>1 DEF SendByte
<1>3. TerminalInv'
  BY <1>2, RecvByteLemma DEF ConsoleInv
<1>4. OwnerInv'
  BY <1>2 DEF ConsoleInv, OwnerInv
<1> QED  BY <1>3, <1>4 DEF ConsoleInv

LEMMA ConsoleInvNext == ConsoleInv /\ [ConsoleNext]_allVars => ConsoleInv'
<1> SUFFICES ASSUME ConsoleInv, [ConsoleNext]_allVars PROVE ConsoleInv'
  OBVIOUS
<1> USE DEF ConsoleInv
<1>1. CASE UNCHANGED termVars /\ OwnerInv'
  BY <1>1, SameScreen DEF termVars
<1>2. CASE UNCHANGED allVars
  <2>1. UNCHANGED termVars /\ UNCHANGED <<pc, owner>>
    BY <1>2 DEF allVars, consoleVars
  <2>2. OwnerInv'
    BY <2>1 DEF OwnerInv
  <2> QED  BY <1>1, <2>1, <2>2
<1>3. ASSUME NEW found \in BOOLEAN, TerminalInit(found) PROVE ConsoleInv'
  <2>1. UNCHANGED termVars /\ UNCHANGED owner
    BY <1>3 DEF TerminalInit
  <2>2. CASE found
    BY <1>1, <1>3, <2>1, <2>2 DEF TerminalInit, OwnerInv
  <2>3. CASE ~found
    BY <1>1, <1>3, <2>1, <2>3, BeginLemma, ConsoleAssumption DEF TerminalInit
  <2> QED  BY <2>2, <2>3
<1>4. CASE StartCpus
  <2>1. UNCHANGED termVars /\ UNCHANGED <<pc, owner>>
    BY <1>4 DEF StartCpus
  <2> QED  BY <1>1, <2>1 DEF OwnerInv
<1>5. ASSUME NEW c \in Printers, NEW message, Log(c, message) PROVE ConsoleInv'
  BY <1>1, <1>5, BeginLemma DEF Log, Runs
<1>6. CASE Greet
  BY <1>5, <1>6, ConsoleAssumption DEF Greet
<1>7. ASSUME NEW c \in Printers, Panic(c) PROVE ConsoleInv'
  BY <1>1, <1>7, BeginLemma DEF Panic, Runs
<1>8. ASSUME NEW c \in Printers, Lock(c) PROVE ConsoleInv'
  <2>1. OwnerInv'
    BY <1>8, ConsoleAssumption DEF Lock, LockFree, OwnerInv
  <2> QED  BY <1>1, <1>8, <2>1 DEF Lock
<1>9. ASSUME NEW c \in Printers, SendByte(c) PROVE ConsoleInv'
  BY <1>9, SendByteStep
<1>10. ASSUME NEW c \in Printers, LogReturns(c) PROVE ConsoleInv'
  <2>1. OwnerInv'
    BY <1>10, ConsoleAssumption DEF LogReturns, OwnerInv
  <2> QED  BY <1>1, <1>10, <2>1 DEF LogReturns
<1> QED  BY <1>2, <1>3, <1>4, <1>5, <1>6, <1>7, <1>8, <1>9, <1>10 DEF ConsoleNext

(* The inductive invariant of the console: the cursor stays on the screen    *)
(* after what is drawn, and the lock is held by the one in log.              *)
THEOREM ConsoleInvariant == ConsoleSpec => []ConsoleInv
BY ConsoleInvInit, ConsoleInvNext, PTL DEF ConsoleSpec

(* put_pixel at the cursor never leaves the framebuffer's slice, and not     *)
(* even the visible part of it, of which it checks nothing: whatever the     *)
(* size of the screen (one glyph at least) and whatever was printed.         *)
THEOREM GlyphsOnScreen ==
  ConsoleSpec => [](IndexInBounds /\ cursor_x + 8 <= WIDTH /\ cursor_y + 10 <= HEIGHT)
<1>1. ConsoleInv => IndexInBounds /\ cursor_x + 8 <= WIDTH /\ cursor_y + 10 <= HEIGHT
  BY IndexInBoundsLemma DEF ConsoleInv, TerminalInv, CursorInv
<1> QED  BY <1>1, ConsoleInvariant, PTL

(* PanicCanPrint: nothing panics between log's lock() and the drop of its    *)
(* guard, so the panic handler, which prints through log, gets the lock.     *)
THEOREM PanicsCanPrint == ConsoleSpec => []PanicCanPrint
<1>1. ConsoleInv => PanicCanPrint
  BY DEF ConsoleInv, OwnerInv, PanicCanPrint
<1> QED  BY <1>1, ConsoleInvariant, PTL

(* CursorCellBlank: put_char never draws over a glyph, for its wraps, line   *)
(* feeds and scrolls leave the cursor on a blank part of the screen.         *)
THEOREM NoGlyphOverdrawn == ConsoleSpec => []CursorCellBlank
<1>1. ConsoleInv => CursorCellBlank
  BY DEF ConsoleInv, TerminalInv, CursorInv, BeforeCursor, CursorCellBlank, Apart
<1> QED  BY <1>1, ConsoleInvariant, PTL

-----------------------------------------------------------------------------
(* The colours of messages.  Which part of which message is still to be sent *)
(* tells what state the terminal is in.                                      *)

Says(state, fg) == ansi_state = state /\ colours = <<fg, Default>>

AtRest == Says("Ground", Default)

(* In ESC [ d e m, with `rest` of the message to follow: what is left to be  *)
(* sent.                                                                     *)
InSequence(d, e, fg, rest, left) ==
  \/ Says("Ground", fg) /\ left = Sgr(d, e) \o rest
  \/ Says("Escape", fg) /\ left = <<Bracket, d, e, LetterM>> \o rest
  \/ Says("Arg", fg) /\ args = <<0>> /\ left = <<d, e, LetterM>> \o rest
  \/ Says("Arg", fg) /\ args = <<d - 48>> /\ left = <<e, LetterM>> \o rest
  \/ Says("Arg", fg) /\ args = <<(d - 48) * 10 + (e - 48)>> /\ left = <<LetterM>> \o rest

(* kmain's message: its colour, its text, the name (which may change the     *)
(* colours) and the reset of the colours.                                    *)
AfterYellow(name) == <<Yellow>> \o (name \o Reset)

InBootMessage(left) ==
  \/ \E name \in Names :
       \/ InSequence(57, 51, Default, AfterYellow(name), left)
       \/ Says("Ground", Bright(3)) /\ left = AfterYellow(name)
  \/ \E word \in Seq(Nat) : QuietFrom(ansi_state, word) /\ left = word \o Reset
  \/ ansi_state = "Escape" /\ left = <<Bracket, LetterM, LineFeed>>
  \/ ansi_state = "Arg" /\ args = <<0>> /\ left = <<LetterM, LineFeed>>

PanicText == <<Plain, LineFeed>>
PanicTitle == <<Red>> \o (Sgr(51, 57) \o PanicText)

InPanicMessage(left) ==
  \/ InSequence(57, 49, Default, PanicTitle, left)
  \/ Says("Ground", Bright(1)) /\ left = PanicTitle
  \/ InSequence(51, 57, Bright(1), PanicText, left)

InPlainMessage(left) ==
  /\ AtRest
  /\ left \in {PlainMessage, <<200, Plain, LineFeed>>, <<Plain, LineFeed>>, <<LineFeed>>, <<>>}

Midway(left) == InBootMessage(left) \/ InPanicMessage(left) \/ InPlainMessage(left)

Messages == {PlainMessage, PanicMessage} \cup {BootMessage(name) : name \in Names}

MessageInv ==
  /\ MessagesKeepColours
  /\ DOMAIN out = Printers
  /\ owner = NULL \/ terminal = "None" => AtRest
  /\ \A c \in Printers : pc[c] = "spin" => out[c] \in Messages
  /\ owner # NULL => IF terminal = "None" THEN out[owner] \in Messages ELSE Midway(out[owner])

(* A sequence with something in front of it.                                 *)
LEMMA FrontLemma ==
  ASSUME NEW s \in Seq(Nat), NEW r \in Seq(Nat), s # <<>>
  PROVE  Head(s \o r) = Head(s) /\ Tail(s \o r) = Tail(s) \o r /\ s \o r # <<>>
<1>1. /\ Len(s) \in Nat \ {0} /\ Len(r) \in Nat
      /\ Head(s) = s[1] /\ Tail(s) \in Seq(Nat) /\ Len(Tail(s)) = Len(s) - 1
      /\ \A i \in 1..Len(Tail(s)) : Tail(s)[i] = s[i + 1]
  BY HeadTailProperties, EmptySeq
<1>2. /\ s \o r \in Seq(Nat) /\ Len(s \o r) = Len(s) + Len(r)
      /\ \A i \in 1..(Len(s) + Len(r)) : (s \o r)[i] = IF i <= Len(s) THEN s[i] ELSE r[i - Len(s)]
  BY ConcatProperties
<1>3. s \o r # <<>> /\ Head(s \o r) = s[1]
  BY <1>1, <1>2
<1>4. /\ Tail(s \o r) \in Seq(Nat) /\ Len(Tail(s \o r)) = Len(s) + Len(r) - 1
      /\ \A i \in 1..Len(Tail(s \o r)) : Tail(s \o r)[i] = (s \o r)[i + 1]
  BY <1>1, <1>2, <1>3, HeadTailProperties
<1>5. PICK t \in Seq(Nat) : t = Tail(s)
  BY <1>1
<1>6. /\ t \o r \in Seq(Nat) /\ Len(t \o r) = Len(s) - 1 + Len(r)
      /\ \A i \in 1..(Len(t) + Len(r)) : (t \o r)[i] = IF i <= Len(t) THEN t[i] ELSE r[i - Len(t)]
  BY <1>1, <1>5, ConcatProperties
<1>7. ASSUME NEW i \in 1..Len(t \o r) PROVE Tail(s \o r)[i] = (t \o r)[i]
  <2>1. i \in 1..(Len(s) - 1 + Len(r)) /\ i + 1 \in 1..(Len(s) + Len(r)) /\ Len(t) = Len(s) - 1
    BY <1>1, <1>5, <1>6
  <2>2. Tail(s \o r)[i] = (s \o r)[i + 1]
    BY <1>1, <1>4, <2>1
  <2>3. CASE i <= Len(s) - 1
    BY <1>1, <1>2, <1>5, <1>6, <2>1, <2>2, <2>3
  <2>4. CASE ~(i <= Len(s) - 1)
    <3>1. (i + 1) - Len(s) = i - Len(t) /\ ~(i + 1 <= Len(s)) /\ ~(i <= Len(t))
      BY <1>1, <2>1, <2>4
    <3>2. (s \o r)[i + 1] = r[(i + 1) - Len(s)]
      BY <1>2, <2>1, <3>1
    <3>3. (t \o r)[i] = r[i - Len(t)]
      BY <1>1, <1>6, <2>1, <3>1
    <3> QED  BY <2>2, <3>1, <3>2, <3>3
  <2> QED  BY <2>3, <2>4
<1>8. Tail(s \o r) = t \o r
  <2>1. PICK p \in Seq(Nat), q \in Seq(Nat) : p = Tail(s \o r) /\ q = t \o r
    BY <1>4, <1>6
  <2>2. Len(p) = Len(q)
    BY <1>1, <1>4, <1>6, <2>1
  <2>3. \A i \in 1..Len(q) : p[i] = q[i]
    BY <1>7, <2>1
  <2> QED  BY <2>1, <2>2, <2>3, SeqEqual
<1> QED  BY <1>1, <1>2, <1>3, <1>5, <1>8

(* What each kind of byte does.                                              *)
LEMMA EscapeSent ==
  ASSUME RecvByte(Escape), ansi_state = "Ground"
  PROVE  ansi_state' = "Escape" /\ UNCHANGED <<colours, screen>>
BY DEF RecvByte, Ground, EscapeByte, ArgDigit, ArgSeparator, SetColours, ArgOther, InArg

LEMMA BracketSent ==
  ASSUME RecvByte(Bracket), ansi_state = "Escape"
  PROVE  ansi_state' = "Arg" /\ args' = <<0>> /\ UNCHANGED <<colours, screen>>
BY DEF RecvByte, Ground, EscapeByte, ArgDigit, ArgSeparator, SetColours, ArgOther, InArg

LEMMA DigitSent ==
  ASSUME NEW d \in Digits, RecvByte(d), ansi_state = "Arg", NEW v \in 0..9, args = <<v>>
  PROVE  ansi_state' = "Arg" /\ args' = <<v * 10 + (d - 48)>> /\ UNCHANGED <<colours, screen>>
<1>1. ArgDigit(d)
  BY DEF RecvByte, Ground, EscapeByte, ArgSeparator, SetColours, ArgOther, Digits, Semicolon, LetterM
<1>2. args' = <<NewVal(v, d)>>
  BY <1>1 DEF ArgDigit
<1>3. NewVal(v, d) = v * 10 + (d - 48)
  <2>1. PICK n \in Nat : n = v * 10 + (d - 48) /\ n < 108
    BY DEF Digits
  <2>2. n % USIZE = n
    BY <2>1, TerminalAssumption
  <2> QED  BY <2>1, <2>2 DEF NewVal
<1> QED  BY <1>1, <1>2, <1>3 DEF ArgDigit, InArg

LEMMA ApplyOne ==
  ASSUME NEW v, NEW cs
  PROVE  ApplyAll(<<v>>, cs) = Apply(v, cs)
<1> DEFINE F(after) == [i \in 0..1 |-> IF i = 0 THEN cs ELSE Apply(<<v>>[i], after[i - 1])]
           g == [i \in 0..1 |-> IF i = 0 THEN cs ELSE Apply(v, cs)]
           a == CHOOSE after : after = F(after)
<1>1. g = F(g)
  OBVIOUS
<1>2. a = F(a)
  BY <1>1
<1> HIDE DEF a
<1>3. a[0] = cs /\ a[1] = Apply(v, a[0])
  <2>1. F(a)[0] = cs /\ F(a)[1] = Apply(<<v>>[1], a[0])
    OBVIOUS
  <2> QED  BY <1>2, <2>1
<1>4. ApplyAll(<<v>>, cs) = a[1]
  BY DEF ApplyAll, a
<1> QED  BY <1>3, <1>4

LEMMA LetterSent ==
  ASSUME RecvByte(LetterM), ansi_state = "Arg", NEW v, args = <<v>>, NEW fg, NEW bg,
         Apply(v, colours) = <<fg, bg>>
  PROVE  ansi_state' = "Ground" /\ colours' = <<fg, bg>> /\ UNCHANGED screen
<1>1. SetColours(LetterM)
  BY DEF RecvByte, Ground, EscapeByte, ArgDigit, ArgSeparator, ArgOther, Digits, Semicolon, LetterM
<1>2. ApplyAll(args, colours) = <<fg, bg>>
  BY ApplyOne
<1> QED  BY <1>1, <1>2 DEF SetColours, colours

LEMMA GlyphSent ==
  ASSUME MessagesKeepColours, NEW c \in {Yellow, Red, Plain}, Says("Ground", Meant(c)), RecvByte(c)
  PROVE  MessagesKeepColours' /\ Says("Ground", Meant(c))'
<1>1. c # Escape /\ ansi_state = "Ground" /\ fg_color = Meant(c) /\ bg_color = Default
  BY DEF Says, colours, Yellow, Red, Plain, Escape
<1>2. Ground(c)
  BY <1>1 DEF RecvByte, EscapeByte, ArgDigit, ArgSeparator, SetColours, ArgOther, InArg
<1>3. /\ cells' \subseteq cells \cup DrawGlyph(c) /\ UNCHANGED <<ansi_state, colours>>
      /\ fill_color' \in {fill_color, bg_color}
  BY <1>1, <1>2 DEF Ground, PutChar
<1>4. \A cell \in DrawGlyph(c) : cell.glyph = c /\ cell.fg = Meant(c) /\ cell.bg = Default
  BY <1>1 DEF DrawGlyph
<1>5. MessagesKeepColours'
  BY <1>1, <1>3, <1>4 DEF MessagesKeepColours
<1> QED  BY <1>3, <1>5 DEF Says, colours

LEMMA NothingDrawn ==
  ASSUME MessagesKeepColours, NEW c \in Nat, c # Escape, c = LineFeed \/ c >= 128,
         ansi_state = "Ground", bg_color = Default, RecvByte(c)
  PROVE  MessagesKeepColours' /\ ansi_state' = "Ground" /\ UNCHANGED colours
<1>1. Ground(c)
  BY DEF RecvByte, EscapeByte, ArgDigit, ArgSeparator, SetColours, ArgOther, InArg
<1>2. /\ cells' \subseteq cells /\ UNCHANGED <<ansi_state, colours>>
      /\ fill_color' \in {fill_color, bg_color}
  BY <1>1 DEF Ground, PutChar, DrawGlyph
<1> QED  BY <1>2 DEF MessagesKeepColours

LEMMA SameCells ==
  ASSUME MessagesKeepColours, UNCHANGED screen
  PROVE  MessagesKeepColours'
BY DEF MessagesKeepColours, screen

(* A sequence with two digits ends with their colour.                        *)
LEMMA SequenceStep ==
  ASSUME NEW d \in Digits, NEW e \in Digits, NEW fg, NEW new, NEW rest \in Seq(Nat), NEW left,
         InSequence(d, e, fg, rest, left), RecvByte(Head(left)), MessagesKeepColours,
         Apply((d - 48) * 10 + (e - 48), <<fg, Default>>) = <<new, Default>>
  PROVE  /\ MessagesKeepColours'
         /\ left # <<>>
         /\ \/ InSequence(d, e, fg, rest, Tail(left))'
            \/ Says("Ground", new)' /\ Tail(left) = rest
<1>1. d \in Nat /\ e \in Nat /\ d - 48 \in 0..9
  BY DEF Digits
<1>2. Escape \in Nat /\ Bracket \in Nat /\ LetterM \in Nat
  BY DEF Escape, Bracket, LetterM
<1>3. CASE Says("Ground", fg) /\ left = Sgr(d, e) \o rest
  <2>1. left = <<Escape, Bracket, d, e, LetterM>> \o rest
    BY <1>3 DEF Sgr
  <2>2. Head(left) = Escape /\ Tail(left) = <<Bracket, d, e, LetterM>> \o rest /\ left # <<>>
    <3>1. PICK s \in Seq(Nat) : s = <<Escape, Bracket, d, e, LetterM>>
      <4>1. <<Escape, Bracket, d, e, LetterM>> \in Seq(Nat)
        BY <1>1, <1>2
      <4> QED  BY <4>1
    <3>2. s # <<>> /\ Head(s) = Escape /\ Tail(s) = <<Bracket, d, e, LetterM>>
      BY <3>1
    <3>3. Head(s \o rest) = Head(s) /\ Tail(s \o rest) = Tail(s) \o rest /\ s \o rest # <<>>
      BY <3>2, FrontLemma
    <3> QED  BY <2>1, <3>1, <3>2, <3>3
  <2>3. ansi_state' = "Escape" /\ UNCHANGED <<colours, screen>>
    BY <1>3, <2>2, EscapeSent DEF Says
  <2>4. Says("Escape", fg)'
    BY <1>3, <2>3 DEF Says
  <2> QED  BY <2>2, <2>3, <2>4, SameCells DEF InSequence
<1>4. CASE Says("Escape", fg) /\ left = <<Bracket, d, e, LetterM>> \o rest
  <2>1. Head(left) = Bracket /\ Tail(left) = <<d, e, LetterM>> \o rest /\ left # <<>>
    BY <1>1, <1>2, <1>4, FrontLemma
  <2>2. ansi_state' = "Arg" /\ args' = <<0>> /\ UNCHANGED <<colours, screen>>
    BY <1>4, <2>1, BracketSent DEF Says
  <2>3. Says("Arg", fg)'
    BY <1>4, <2>2 DEF Says
  <2> QED  BY <2>1, <2>2, <2>3, SameCells DEF InSequence
<1>5. CASE Says("Arg", fg) /\ args = <<0>> /\ left = <<d, e, LetterM>> \o rest
  <2>1. Head(left) = d /\ Tail(left) = <<e, LetterM>> \o rest /\ left # <<>>
    BY <1>1, <1>2, <1>5, FrontLemma
  <2>2. ansi_state' = "Arg" /\ args' = <<0 * 10 + (d - 48)>> /\ UNCHANGED <<colours, screen>>
    <3>1. 0 \in 0..9 /\ RecvByte(d) /\ ansi_state = "Arg" /\ args = <<0>>
      BY <1>5, <2>1 DEF Says
    <3> QED  BY <3>1, DigitSent
  <2>3. Says("Arg", fg)' /\ args' = <<d - 48>>
    BY <1>1, <1>5, <2>2 DEF Says
  <2> QED  BY <2>1, <2>2, <2>3, SameCells DEF InSequence
<1>6. CASE Says("Arg", fg) /\ args = <<d - 48>> /\ left = <<e, LetterM>> \o rest
  <2>1. Head(left) = e /\ Tail(left) = <<LetterM>> \o rest /\ left # <<>>
    BY <1>1, <1>2, <1>6, FrontLemma
  <2>2. ansi_state' = "Arg" /\ args' = <<(d - 48) * 10 + (e - 48)>> /\ UNCHANGED <<colours, screen>>
    BY <1>1, <1>6, <2>1, DigitSent DEF Says
  <2>3. Says("Arg", fg)'
    BY <1>6, <2>2 DEF Says
  <2> QED  BY <2>1, <2>2, <2>3, SameCells DEF InSequence
<1>7. CASE Says("Arg", fg) /\ args = <<(d - 48) * 10 + (e - 48)>> /\ left = <<LetterM>> \o rest
  <2>1. Head(left) = LetterM /\ Tail(left) = rest /\ left # <<>>
    <3>1. PICK s \in Seq(Nat) : s = <<LetterM>>
      <4>1. <<LetterM>> \in Seq(Nat)
        BY <1>2
      <4> QED  BY <4>1
    <3>2. s # <<>> /\ Head(s) = LetterM /\ Tail(s) = <<>>
      BY <3>1
    <3>3. Head(s \o rest) = Head(s) /\ Tail(s \o rest) = Tail(s) \o rest /\ s \o rest # <<>>
      BY <3>2, FrontLemma
    <3>4. <<>> \o rest = rest
      BY ConcatEmptySeq
    <3> QED  BY <1>7, <3>1, <3>2, <3>3, <3>4
  <2>2. ansi_state' = "Ground" /\ colours' = <<new, Default>> /\ UNCHANGED screen
    BY <1>7, <2>1, LetterSent DEF Says
  <2> QED  BY <2>1, <2>2, SameCells DEF Says
<1> QED  BY <1>3, <1>4, <1>5, <1>6, <1>7 DEF InSequence

(* The bytes of a name leave the terminal where QuietFrom says.              *)
LEMMA WordStep ==
  ASSUME NEW word \in Seq(Nat), word # <<>>, QuietFrom(ansi_state, word), RecvByte(Head(word)),
         MessagesKeepColours
  PROVE  MessagesKeepColours' /\ QuietFrom(ansi_state, Tail(word))'
<1>1. PICK n \in Nat : n + 1 = Len(word)
  BY EmptySeq
<1>2. /\ Tail(word) \in Seq(Nat) /\ Len(Tail(word)) = n /\ Head(word) = word[1] /\ word[1] \in Nat
      /\ \A i \in 1..n : Tail(word)[i] = word[i + 1]
  BY <1>1, HeadTailProperties, ElementOfSeq
<1>3. PICK states \in [0..(n + 1) -> {"Ground", "Escape", "Arg"}] :
         /\ states[0] = ansi_state
         /\ states[n + 1] = "Ground"
         /\ \A i \in 1..(n + 1) :
              \/ /\ states[i - 1] = "Ground"
                 /\ word[i] = Escape /\ states[i] = "Escape"
              \/ /\ states[i - 1] = "Escape"
                 /\ states[i] = IF word[i] = Bracket THEN "Arg" ELSE "Ground"
              \/ /\ states[i - 1] = "Arg"
                 /\ states[i] = IF word[i] = LetterM THEN "Ground" ELSE "Arg"
  BY <1>1 DEF QuietFrom
<1>4. PICK c \in Nat : c = word[1]
  BY <1>2
<1>5. /\ RecvByte(c)
      /\ \/ ansi_state = "Ground" /\ c = Escape /\ states[1] = "Escape"
         \/ ansi_state = "Escape" /\ states[1] = IF c = Bracket THEN "Arg" ELSE "Ground"
         \/ ansi_state = "Arg" /\ states[1] = IF c = LetterM THEN "Ground" ELSE "Arg"
  <2>1. 1 \in 1..(n + 1) /\ 1 - 1 = 0
    OBVIOUS
  <2> QED  BY <1>2, <1>3, <1>4, <2>1
<1>6. MessagesKeepColours' /\ ansi_state' = states[1]
  <2>1. CASE ansi_state = "Ground" /\ c = Escape
    BY <1>5, <2>1, EscapeSent, SameCells
  <2>2. CASE ansi_state = "Escape"
    <3>1. ansi_state' = (IF c = Bracket THEN "Arg" ELSE "Ground") /\ UNCHANGED screen
      BY <1>5, <2>2 DEF RecvByte, Ground, EscapeByte, ArgDigit, ArgSeparator, SetColours, ArgOther, InArg
    <3> QED  BY <1>5, <2>2, <3>1, SameCells
  <2>3. CASE ansi_state = "Arg"
    <3>1. ansi_state' = (IF c = LetterM THEN "Ground" ELSE "Arg") /\ UNCHANGED screen
      BY <1>5, <2>3 DEF RecvByte, Ground, EscapeByte, ArgDigit, ArgSeparator, SetColours, ArgOther,
                        InArg, Digits, Semicolon, LetterM
    <3> QED  BY <1>5, <2>3, <3>1, SameCells
  <2> QED  BY <1>5, <2>1, <2>2, <2>3
<1>7. QuietFrom(ansi_state, Tail(word))'
  <2>1. PICK t \in Seq(Nat) : t = Tail(word)
    BY <1>2
  <2>2. PICK later \in [0..n -> {"Ground", "Escape", "Arg"}] : \A i \in 0..n : later[i] = states[i + 1]
    <3>1. \A i \in 0..n : states[i + 1] \in {"Ground", "Escape", "Arg"}
      <4>1. \A i \in 0..n : i + 1 \in 0..(n + 1)
        OBVIOUS
      <4> QED  BY <1>3, <4>1
    <3> DEFINE g == [i \in 0..n |-> states[i + 1]]
    <3>2. g \in [0..n -> {"Ground", "Escape", "Arg"}] /\ \A i \in 0..n : g[i] = states[i + 1]
      BY <3>1
    <3> QED  BY <3>2
  <2>3. later[0] = ansi_state' /\ later[n] = "Ground"
    BY <1>3, <1>6, <2>2
  <2>4. ASSUME NEW i \in 1..n
        PROVE  \/ /\ later[i - 1] = "Ground"
                  /\ t[i] = Escape /\ later[i] = "Escape"
               \/ /\ later[i - 1] = "Escape"
                  /\ later[i] = IF t[i] = Bracket THEN "Arg" ELSE "Ground"
               \/ /\ later[i - 1] = "Arg"
                  /\ later[i] = IF t[i] = LetterM THEN "Ground" ELSE "Arg"
    <3>1. i + 1 \in 1..(n + 1) /\ (i + 1) - 1 = i /\ i - 1 \in 0..n /\ i \in 0..n /\ (i - 1) + 1 = i
      OBVIOUS
    <3>2. t[i] = word[i + 1] /\ later[i - 1] = states[i] /\ later[i] = states[i + 1]
      BY <1>2, <2>1, <2>2, <3>1
    <3>3. PICK j \in 1..(n + 1) : j = i + 1 /\ j - 1 = i
      BY <3>1
    <3>4. t[i] = word[j] /\ later[i - 1] = states[j - 1] /\ later[i] = states[j]
      BY <3>2, <3>3
    <3> QED  BY <1>3, <3>4
  <2>5. QuietFrom(ansi_state', t)
    BY <1>2, <2>1, <2>2, <2>3, <2>4 DEF QuietFrom
  <2> QED  BY <2>1, <2>5
<1> QED  BY <1>6, <1>7

LEMMA ResetIsSeq == Reset \in Seq(Nat) /\ Reset # <<>>
BY DEF Reset, Escape, Bracket, LetterM, LineFeed

LEMMA PanicTextIsSeq == PanicText \in Seq(Nat)
BY DEF PanicText, Plain, LineFeed

LEMMA SgrIsSeq ==
  ASSUME NEW d \in Nat, NEW e \in Nat
  PROVE  Sgr(d, e) \in Seq(Nat) /\ Sgr(d, e) # <<>>
BY DEF Sgr, Escape, Bracket, LetterM

LEMMA PanicTitleIsSeq ==
  /\ Sgr(51, 57) \o PanicText \in Seq(Nat)
  /\ PanicTitle \in Seq(Nat)
  /\ Head(PanicTitle) = Red
  /\ Tail(PanicTitle) = Sgr(51, 57) \o PanicText
  /\ PanicTitle # <<>>
<1>1. Sgr(51, 57) \o PanicText \in Seq(Nat)
  BY SgrIsSeq, PanicTextIsSeq, ConcatProperties
<1>2. PICK s \in Seq(Nat) : s = Sgr(51, 57) \o PanicText
  BY <1>1
<1>3. PICK r \in Seq(Nat) : r = <<Red>>
  <2>1. <<Red>> \in Seq(Nat)
    BY DEF Red
  <2> QED  BY <2>1
<1>4. r # <<>> /\ Head(r) = Red /\ Tail(r) = <<>>
  BY <1>3
<1>5. r \o s \in Seq(Nat)
  BY ConcatProperties
<1>6. Head(r \o s) = Head(r) /\ Tail(r \o s) = Tail(r) \o s /\ r \o s # <<>>
  BY <1>4, FrontLemma
<1>7. <<>> \o s = s
  BY ConcatEmptySeq
<1> QED  BY <1>1, <1>2, <1>3, <1>4, <1>5, <1>6, <1>7 DEF PanicTitle

LEMMA AfterYellowIsSeq ==
  ASSUME NEW name \in Seq(Nat)
  PROVE  /\ name \o Reset \in Seq(Nat)
         /\ AfterYellow(name) \in Seq(Nat)
         /\ Head(AfterYellow(name)) = Yellow
         /\ Tail(AfterYellow(name)) = name \o Reset
         /\ AfterYellow(name) # <<>>
<1>1. name \o Reset \in Seq(Nat)
  BY ResetIsSeq, ConcatProperties
<1>2. PICK s \in Seq(Nat) : s = name \o Reset
  BY <1>1
<1>3. PICK r \in Seq(Nat) : r = <<Yellow>>
  <2>1. <<Yellow>> \in Seq(Nat)
    BY DEF Yellow
  <2> QED  BY <2>1
<1>4. r # <<>> /\ Head(r) = Yellow /\ Tail(r) = <<>>
  BY <1>3
<1>5. r \o s \in Seq(Nat)
  BY ConcatProperties
<1>6. Head(r \o s) = Head(r) /\ Tail(r \o s) = Tail(r) \o s /\ r \o s # <<>>
  BY <1>4, FrontLemma
<1>7. <<>> \o s = s
  BY ConcatEmptySeq
<1> QED  BY <1>1, <1>2, <1>3, <1>4, <1>5, <1>6, <1>7 DEF AfterYellow

(* A message begins where the last one left the terminal.                    *)
LEMMA MessageBegins ==
  ASSUME QuietNames, AtRest, NEW message \in Messages
  PROVE  Midway(message)
<1>1. CASE message = PlainMessage
  BY <1>1 DEF Midway, InPlainMessage
<1>2. CASE message = PanicMessage
  <2>1. message = Sgr(57, 49) \o PanicTitle
    BY <1>2 DEF PanicMessage, PanicTitle, PanicText
  <2> QED  BY <2>1 DEF AtRest, Midway, InPanicMessage, InSequence
<1>3. CASE \E name \in Names : message = BootMessage(name)
  <2>1. PICK name \in Names : message = Sgr(57, 51) \o AfterYellow(name)
    BY <1>3 DEF BootMessage, AfterYellow
  <2> QED  BY <2>1 DEF AtRest, Midway, InBootMessage, InSequence
<1> QED  BY <1>1, <1>2, <1>3 DEF Messages

LEMMA PlainStep ==
  ASSUME NEW left, InPlainMessage(left), left # <<>>, RecvByte(Head(left)), MessagesKeepColours
  PROVE  MessagesKeepColours' /\ InPlainMessage(Tail(left))'
<1>1. \/ Head(left) = Plain /\ Tail(left) \in {<<200, Plain, LineFeed>>, <<LineFeed>>}
      \/ Head(left) = 200 /\ Tail(left) = <<Plain, LineFeed>>
      \/ Head(left) = LineFeed /\ Tail(left) = <<>>
  <2>1. CASE left = PlainMessage
    BY <2>1 DEF PlainMessage
  <2>2. CASE left = <<200, Plain, LineFeed>>
    BY <2>2
  <2>3. CASE left = <<Plain, LineFeed>>
    BY <2>3
  <2>4. CASE left = <<LineFeed>>
    BY <2>4
  <2> QED  BY <2>1, <2>2, <2>3, <2>4 DEF InPlainMessage
<1>2. CASE Head(left) = Plain
  <2>1. Meant(Plain) = Default
    BY DEF Meant, Plain, Yellow, Red
  <2>2. MessagesKeepColours' /\ Says("Ground", Meant(Plain))'
    BY <1>2, <2>1, GlyphSent DEF InPlainMessage, AtRest
  <2>3. Tail(left) \in {<<200, Plain, LineFeed>>, <<LineFeed>>}
    BY <1>1, <1>2 DEF Plain, LineFeed
  <2> QED  BY <2>1, <2>2, <2>3 DEF InPlainMessage, AtRest, Says
<1>3. CASE Head(left) # Plain
  <2>1. PICK c \in Nat : c = Head(left) /\ c # Escape /\ (c = LineFeed \/ c >= 128)
    BY <1>1, <1>3 DEF LineFeed, Escape
  <2>2. MessagesKeepColours' /\ ansi_state' = "Ground" /\ UNCHANGED colours
    BY <2>1, NothingDrawn DEF InPlainMessage, AtRest, Says, colours
  <2>3. AtRest'
    BY <2>2 DEF InPlainMessage, AtRest, Says
  <2> QED  BY <1>1, <1>3, <2>2, <2>3 DEF InPlainMessage
<1> QED  BY <1>2, <1>3

LEMMA PanicStep ==
  ASSUME NEW left, InPanicMessage(left), RecvByte(Head(left)), MessagesKeepColours
  PROVE  MessagesKeepColours' /\ left # <<>> /\ Midway(Tail(left))'
<1>1. 57 \in Digits /\ 49 \in Digits /\ 51 \in Digits
  BY DEF Digits
<1>2. CASE InSequence(57, 49, Default, PanicTitle, left)
  <2>1. Apply((57 - 48) * 10 + (49 - 48), <<Default, Default>>) = <<Bright(1), Default>>
    BY DEF Apply
  <2>2. /\ MessagesKeepColours' /\ left # <<>>
        /\ \/ InSequence(57, 49, Default, PanicTitle, Tail(left))'
           \/ Says("Ground", Bright(1))' /\ Tail(left) = PanicTitle
    BY <1>1, <1>2, <2>1, SequenceStep, PanicTitleIsSeq
  <2> QED  BY <2>2 DEF InPanicMessage, Midway
<1>3. CASE Says("Ground", Bright(1)) /\ left = PanicTitle
  <2>1. Meant(Red) = Bright(1)
    BY DEF Meant, Red, Yellow
  <2>2. MessagesKeepColours' /\ Says("Ground", Meant(Red))'
    BY <1>3, <2>1, GlyphSent, PanicTitleIsSeq
  <2>3. InSequence(51, 57, Bright(1), PanicText, Tail(left))'
    BY <1>3, <2>1, <2>2, PanicTitleIsSeq DEF InSequence
  <2> QED  BY <1>3, <2>2, <2>3, PanicTitleIsSeq DEF InPanicMessage, Midway
<1>4. CASE InSequence(51, 57, Bright(1), PanicText, left)
  <2>1. Apply((51 - 48) * 10 + (57 - 48), <<Bright(1), Default>>) = <<Default, Default>>
    BY DEF Apply
  <2>2. /\ MessagesKeepColours' /\ left # <<>>
        /\ \/ InSequence(51, 57, Bright(1), PanicText, Tail(left))'
           \/ Says("Ground", Default)' /\ Tail(left) = PanicText
    BY <1>1, <1>4, <2>1, SequenceStep, PanicTextIsSeq
  <2> QED  BY <2>2 DEF InPanicMessage, InPlainMessage, PanicText, AtRest, Midway
<1> QED  BY <1>2, <1>3, <1>4 DEF InPanicMessage

LEMMA BootStep ==
  ASSUME QuietNames, NEW left, InBootMessage(left), RecvByte(Head(left)), MessagesKeepColours
  PROVE  MessagesKeepColours' /\ left # <<>> /\ Midway(Tail(left))'
<1>1. ASSUME NEW name \in Names, InSequence(57, 51, Default, AfterYellow(name), left)
      PROVE  MessagesKeepColours' /\ left # <<>> /\ Midway(Tail(left))'
  <2>1. Apply((57 - 48) * 10 + (51 - 48), <<Default, Default>>) = <<Bright(3), Default>>
    BY DEF Apply
  <2>2. 57 \in Digits /\ 51 \in Digits /\ AfterYellow(name) \in Seq(Nat)
    BY AfterYellowIsSeq DEF Digits, QuietNames
  <2>3. /\ MessagesKeepColours' /\ left # <<>>
        /\ \/ InSequence(57, 51, Default, AfterYellow(name), Tail(left))'
           \/ Says("Ground", Bright(3))' /\ Tail(left) = AfterYellow(name)
    BY <1>1, <2>1, <2>2, SequenceStep
  <2> QED  BY <2>3 DEF InBootMessage, Midway
<1>2. ASSUME NEW name \in Names, Says("Ground", Bright(3)), left = AfterYellow(name)
      PROVE  MessagesKeepColours' /\ left # <<>> /\ Midway(Tail(left))'
  <2>1. name \in Seq(Nat) /\ QuietFrom("Ground", name)
    BY DEF QuietNames
  <2>2. Head(left) = Yellow /\ Tail(left) = name \o Reset /\ left # <<>>
    BY <1>2, <2>1, AfterYellowIsSeq
  <2>3. Meant(Yellow) = Bright(3)
    BY DEF Meant, Yellow, Red
  <2>4. MessagesKeepColours' /\ Says("Ground", Meant(Yellow))'
    BY <1>2, <2>2, <2>3, GlyphSent
  <2>5. QuietFrom(ansi_state, name)'
    BY <2>1, <2>4 DEF Says
  <2> QED  BY <2>1, <2>2, <2>4, <2>5 DEF InBootMessage, Midway
<1>3. ASSUME NEW word \in Seq(Nat), QuietFrom(ansi_state, word), left = word \o Reset
      PROVE  MessagesKeepColours' /\ left # <<>> /\ Midway(Tail(left))'
  <2>1. CASE word # <<>>
    <3>1. Head(left) = Head(word) /\ Tail(left) = Tail(word) \o Reset /\ left # <<>>
      BY <1>3, <2>1, FrontLemma, ResetIsSeq
    <3>2. MessagesKeepColours' /\ QuietFrom(ansi_state, Tail(word))' /\ Tail(word) \in Seq(Nat)
      BY <1>3, <2>1, <3>1, WordStep, HeadTailProperties
    <3> QED  BY <3>1, <3>2 DEF InBootMessage, Midway
  <2>2. CASE word = <<>>
    <3>1. left = <<Escape, Bracket, LetterM, LineFeed>>
      BY <1>3, <2>2, ResetIsSeq, ConcatEmptySeq DEF Reset
    <3>2. ansi_state = "Ground"
      BY <1>3, <2>2 DEF QuietFrom
    <3>3. ansi_state' = "Escape" /\ UNCHANGED <<colours, screen>>
      BY <1>3, <3>1, <3>2, EscapeSent
    <3> QED  BY <3>1, <3>3, SameCells DEF InBootMessage, Midway
  <2> QED  BY <2>1, <2>2
<1>4. CASE ansi_state = "Escape" /\ left = <<Bracket, LetterM, LineFeed>>
  <2>1. ansi_state' = "Arg" /\ args' = <<0>> /\ UNCHANGED <<colours, screen>>
    BY <1>4, BracketSent
  <2> QED  BY <1>4, <2>1, SameCells DEF InBootMessage, Midway
<1>5. CASE ansi_state = "Arg" /\ args = <<0>> /\ left = <<LetterM, LineFeed>>
  <2>1. Apply(0, colours) = <<Default, Default>> /\ RecvByte(LetterM)
    BY <1>5 DEF Apply
  <2>2. ansi_state' = "Ground" /\ colours' = <<Default, Default>> /\ UNCHANGED screen
    BY <1>5, <2>1, LetterSent
  <2> QED  BY <1>5, <2>2, SameCells DEF Says, AtRest, InPlainMessage, Midway
<1> QED  BY <1>1, <1>2, <1>3, <1>4, <1>5 DEF InBootMessage

LEMMA MidwayStep ==
  ASSUME QuietNames, NEW left, Midway(left), left # <<>>, RecvByte(Head(left)), MessagesKeepColours
  PROVE  MessagesKeepColours' /\ Midway(Tail(left))'
BY BootStep, PanicStep, PlainStep DEF Midway

LEMMA MessageInvInit == ConsoleInit => MessageInv
BY ConsoleAssumption
   DEF ConsoleInit, TermInit, MessageInv, MessagesKeepColours, AtRest, Says, colours

LEMMA SameTerminal ==
  ASSUME UNCHANGED termVars
  PROVE  /\ MessagesKeepColours => MessagesKeepColours'
         /\ AtRest => AtRest'
         /\ \A left : Midway(left) => Midway(left)'
<1> UNCHANGED <<colours, ansi_state, args, screen>>
  BY DEF termVars
<1>1. \A state, fg : Says(state, fg) <=> Says(state, fg)'
  BY DEF Says
<1>2. AtRest <=> AtRest'
  BY <1>1 DEF AtRest
<1>3. ASSUME NEW d, NEW e, NEW fg, NEW rest, NEW left
      PROVE  InSequence(d, e, fg, rest, left) <=> InSequence(d, e, fg, rest, left)'
  <2>1. Says("Ground", fg) <=> Says("Ground", fg)'
    BY <1>1
  <2>2. Says("Escape", fg) <=> Says("Escape", fg)'
    BY <1>1
  <2>3. Says("Arg", fg) <=> Says("Arg", fg)'
    BY <1>1
  <2> QED  BY <2>1, <2>2, <2>3 DEF InSequence
<1>4. \A left : InBootMessage(left) <=> InBootMessage(left)'
  BY <1>1, <1>3 DEF InBootMessage
<1>5. \A left : InPanicMessage(left) <=> InPanicMessage(left)'
  BY <1>1, <1>3 DEF InPanicMessage
<1>6. \A left : InPlainMessage(left) <=> InPlainMessage(left)'
  BY <1>2 DEF InPlainMessage
<1> QED  BY <1>2, <1>4, <1>5, <1>6, SameCells DEF Midway

LEMMA MessageSent ==
  ASSUME QuietNames, ConsoleInv, MessageInv, NEW c \in Printers, SendByte(c)
  PROVE  MessageInv'
<1>1. owner = c /\ c # NULL /\ terminal = "Some" /\ UNCHANGED <<pc, owner, terminal>>
  BY ConsoleAssumption, IndexInBoundsLemma DEF ConsoleInv, TerminalInv, OwnerInv, SendByte, Sending
<1>2. PICK left : left = out[c]
  OBVIOUS
<1>3. RecvByte(Head(left)) /\ left # <<>> /\ out' = [out EXCEPT ![c] = Tail(left)]
  BY <1>2, IndexInBoundsLemma DEF ConsoleInv, TerminalInv, SendByte, Sending
<1>4. Midway(left)
  BY <1>1, <1>2 DEF MessageInv
<1>5. MessagesKeepColours' /\ Midway(Tail(left))'
  BY <1>3, <1>4, MidwayStep DEF MessageInv
<1>6. DOMAIN out' = Printers /\ out'[c] = Tail(left)
  BY <1>3 DEF MessageInv
<1>7. ASSUME NEW b \in Printers, pc'[b] = "spin" PROVE out'[b] \in Messages
  <2>1. b # c /\ out'[b] = out[b]
    BY <1>1, <1>3, <1>7 DEF MessageInv, ConsoleInv, OwnerInv
  <2> QED  BY <1>1, <1>7, <2>1 DEF MessageInv
<1>8. Midway(out[owner])'
  BY <1>1, <1>5, <1>6
<1> QED  BY <1>1, <1>5, <1>6, <1>7, <1>8 DEF MessageInv

(* Code that begins to print does not have the lock.                         *)
LEMMA MessageQueued ==
  ASSUME ConsoleInv, MessageInv, NEW c \in Printers, pc[c] = "code", NEW message \in Messages,
         Begin(c, message), UNCHANGED <<termVars, owner, terminal>>
  PROVE  MessageInv'
<1>1. MessagesKeepColours' /\ (AtRest => AtRest') /\ \A left : Midway(left) => Midway(left)'
  BY SameTerminal DEF MessageInv
<1>2. owner # c
  BY DEF ConsoleInv, OwnerInv
<1>3. DOMAIN out' = Printers /\ \A b \in Printers : pc'[b] = "spin" => out'[b] \in Messages
  BY DEF Begin, MessageInv, ConsoleInv, OwnerInv
<1>4. ASSUME owner # NULL
      PROVE  IF terminal = "None" THEN out'[owner] \in Messages ELSE Midway(out[owner])'
  <2>1. out'[owner] = out[owner]
    BY <1>2 DEF Begin
  <2>2. PICK left : left = out[owner]
    OBVIOUS
  <2>3. CASE terminal = "None"
    BY <1>4, <2>1, <2>3 DEF MessageInv
  <2>4. CASE terminal # "None"
    BY <1>1, <1>4, <2>1, <2>2, <2>4 DEF MessageInv
  <2> QED  BY <2>3, <2>4
<1> QED  BY <1>1, <1>3, <1>4 DEF MessageInv

LEMMA LockTaken ==
  ASSUME QuietNames, ConsoleInv, MessageInv, NEW c \in Printers, Lock(c)
  PROVE  MessageInv'
<1>1. /\ MessagesKeepColours' /\ AtRest /\ AtRest' /\ out[c] \in Messages /\ owner' = c
      /\ UNCHANGED <<terminal, out>> /\ \A left : Midway(left) => Midway(left)'
  BY SameTerminal DEF MessageInv, Lock, LockFree
<1>2. PICK left : left = out[c]
  OBVIOUS
<1>3. Midway(left)'
  BY <1>1, <1>2, MessageBegins
<1>4. \A b \in Printers : pc'[b] = "spin" => out'[b] \in Messages
  BY DEF Lock, MessageInv, ConsoleInv, OwnerInv
<1> QED  BY <1>1, <1>2, <1>3, <1>4 DEF MessageInv

(* The last byte of a message leaves the terminal at rest.                   *)
LEMMA MessageOut ==
  ASSUME QuietNames, Midway(<<>>)
  PROVE  AtRest
<1>1. ASSUME NEW d \in Nat, NEW e \in Nat, NEW fg, NEW rest \in Seq(Nat),
             InSequence(d, e, fg, rest, <<>>)
      PROVE  FALSE
  <2>1. Bracket \in Nat /\ LetterM \in Nat /\ Sgr(d, e) \in Seq(Nat) /\ Sgr(d, e) # <<>>
    BY SgrIsSeq DEF Bracket, LetterM
  <2>2. /\ Sgr(d, e) \o rest # <<>> /\ <<Bracket, d, e, LetterM>> \o rest # <<>>
        /\ <<d, e, LetterM>> \o rest # <<>> /\ <<e, LetterM>> \o rest # <<>> /\ <<LetterM>> \o rest # <<>>
    BY <2>1, FrontLemma
  <2> QED  BY <1>1, <2>2 DEF InSequence
<1>2. ~InPanicMessage(<<>>)
  BY <1>1, PanicTitleIsSeq, PanicTextIsSeq DEF InPanicMessage
<1>3. ~InBootMessage(<<>>)
  <2>1. \A name \in Names : AfterYellow(name) \in Seq(Nat) /\ AfterYellow(name) # <<>>
    BY AfterYellowIsSeq DEF QuietNames
  <2>2. \A word \in Seq(Nat) : word \o Reset # <<>>
    BY ResetIsSeq, ConcatEqualIffEmpty
  <2>3. 57 \in Nat /\ 51 \in Nat
    OBVIOUS
  <2>4. \A name \in Names : ~InSequence(57, 51, Default, AfterYellow(name), <<>>)
    BY <1>1, <2>1, <2>3
  <2> QED  BY <2>1, <2>2, <2>4 DEF InBootMessage
<1> QED  BY <1>2, <1>3 DEF Midway, InPlainMessage

LEMMA MessageDone ==
  ASSUME QuietNames, ConsoleInv, MessageInv, NEW c \in Printers, LogReturns(c)
  PROVE  MessageInv'
<1>1. owner = c /\ owner # NULL /\ owner' = NULL
  BY ConsoleAssumption DEF ConsoleInv, OwnerInv, LogReturns
<1>2. AtRest
  <2>1. CASE terminal = "None"
    BY <2>1 DEF MessageInv
  <2>2. CASE terminal # "None"
    BY <1>1, <2>2, MessageOut DEF LogReturns, MessageInv
  <2> QED  BY <2>1, <2>2
<1>3. MessagesKeepColours' /\ AtRest'
  BY <1>2, SameTerminal DEF LogReturns, MessageInv
<1>4. DOMAIN out' = Printers /\ \A b \in Printers : pc'[b] = "spin" => out'[b] \in Messages
  BY DEF LogReturns, MessageInv, ConsoleInv, OwnerInv
<1> QED  BY <1>1, <1>3, <1>4 DEF MessageInv

LEMMA MessageInvNext ==
  ASSUME QuietNames, ConsoleInv, MessageInv, [ConsoleNext]_allVars
  PROVE  MessageInv'
<1>1. ASSUME UNCHANGED <<termVars, owner, terminal, pc, out>> PROVE MessageInv'
  <2>1. MessagesKeepColours' /\ (AtRest => AtRest') /\ \A left : Midway(left) => Midway(left)'
    BY <1>1, SameTerminal DEF MessageInv
  <2>2. PICK left : left = out[owner]
    OBVIOUS
  <2> QED  BY <1>1, <2>1, <2>2 DEF MessageInv
<1>2. PanicMessage \in Messages /\ PlainMessage \in Messages
      /\ \A name \in Names : BootMessage(name) \in Messages
  BY DEF Messages
<1>3. ASSUME NEW found \in BOOLEAN, TerminalInit(found) PROVE MessageInv'
  <2>1. CASE found
    <3>1. UNCHANGED <<termVars, owner, pc, out>> /\ owner = NULL
      BY <1>3, <2>1 DEF TerminalInit
    <3>2. MessagesKeepColours' /\ (AtRest => AtRest')
      BY <3>1, SameTerminal DEF MessageInv
    <3> QED  BY <3>1, <3>2 DEF MessageInv
  <2>2. CASE ~found
    BY <1>2, <1>3, <2>2, MessageQueued, ConsoleAssumption DEF TerminalInit
  <2> QED  BY <2>1, <2>2
<1>4. CASE StartCpus
  BY <1>1, <1>4 DEF StartCpus
<1>5. ASSUME NEW c \in Printers, NEW message \in Messages, Log(c, message) PROVE MessageInv'
  BY <1>5, MessageQueued DEF Log, Runs
<1>6. CASE Greet
  BY <1>2, <1>5, <1>6, ConsoleAssumption DEF Greet
<1>7. ASSUME NEW c \in Printers, Panic(c) PROVE MessageInv'
  BY <1>2, <1>7, MessageQueued DEF Panic, Runs
<1>8. CASE UNCHANGED allVars
  BY <1>1, <1>8 DEF allVars, consoleVars
<1> QED
  BY <1>2, <1>3, <1>4, <1>5, <1>6, <1>7, <1>8, LockTaken, MessageSent, MessageDone DEF ConsoleNext

(* The inductive invariant of the messages: what is left of the message      *)
(* being sent says what the terminal is in the middle of.                    *)
THEOREM MessageInvariant ==
  ASSUME QuietNames
  PROVE  ConsoleSpec => [](ConsoleInv /\ MessageInv)
<1>1. ConsoleInit => ConsoleInv /\ MessageInv
  BY ConsoleInvInit, MessageInvInit
<1>2. ConsoleInv /\ MessageInv /\ [ConsoleNext]_allVars => (ConsoleInv /\ MessageInv)'
  BY ConsoleInvNext, MessageInvNext
<1> QED  BY <1>1, <1>2, PTL DEF ConsoleSpec

(* MessagesKeepColours: log holds the lock for a whole message and every     *)
(* message sets the colours back, so what is on the screen has the colours   *)
(* of its own message and no byte of an escape sequence is ever drawn.       *)
THEOREM MessagesInTheirColours ==
  ASSUME QuietNames
  PROVE  ConsoleSpec => []MessagesKeepColours
<1>1. MessageInv => MessagesKeepColours
  BY DEF MessageInv
<1> QED  BY <1>1, MessageInvariant, PTL

(* TerminalAtRest: when log lets go of the lock, the terminal is in no       *)
(* escape sequence and has the default colours.                              *)
THEOREM TerminalLeftAtRest ==
  ASSUME QuietNames
  PROVE  ConsoleSpec => []TerminalAtRest
<1>1. MessageInv => TerminalAtRest
  BY DEF MessageInv, TerminalAtRest, AtRest, Says
<1> QED  BY <1>1, MessageInvariant, PTL

-----------------------------------------------------------------------------
(* The arguments of an escape sequence *)

(* Induction, for a set of naturals.                                         *)
LEMMA Induction ==
  ASSUME NEW P \in SUBSET Nat, 0 \in P, \A n \in P : n + 1 \in P
  PROVE  P = Nat
<1> SUFFICES ASSUME Nat \ P # {} PROVE FALSE
  OBVIOUS
<1>1. PICK x \in Nat \ P : \A y \in Nat \ P : ~(<<y, x>> \in OpToRel(<, Nat))
  BY NatLessThanWellFounded, WFMin
<1>2. \A y \in Nat : y < x <=> <<y, x>> \in OpToRel(<, Nat)
  BY DEF OpToRel
<1>3. \A y \in Nat \ P : ~(y < x)
  BY <1>1, <1>2, Zenon
<1>4. x \in Nat /\ x # 0
  OBVIOUS
<1>5. x - 1 \in Nat /\ x - 1 < x /\ (x - 1) + 1 = x
  BY <1>4
<1>6. x - 1 \in P
  BY <1>3, <1>5
<1> QED  BY <1>5, <1>6

(* The first n + 1 values of a function defined step by step exist.          *)
Steps(a, m, w, n) ==
  {f \in [0..n -> Nat] : f[0] = a /\ \A i \in 1..n : f[i] = m * f[i - 1] + w[i]}

LEMMA StepsExist ==
  ASSUME NEW n \in Nat, NEW a \in Nat, NEW m \in Nat, NEW w \in [1..n -> Nat]
  PROVE  Steps(a, m, w, n) # {}
<1> DEFINE P == {k \in Nat : k <= n => Steps(a, m, w, k) # {}}
<1>1. 0 \in P
  <2>1. [i \in 0..0 |-> a] \in Steps(a, m, w, 0)
    BY DEF Steps
  <2> QED  BY <2>1
<1>2. ASSUME NEW k \in P PROVE k + 1 \in P
  <2> SUFFICES ASSUME k + 1 <= n PROVE Steps(a, m, w, k + 1) # {}
    OBVIOUS
  <2>1. k \in Nat /\ k <= n /\ k + 1 \in 1..n
    OBVIOUS
  <2>2. PICK f \in Steps(a, m, w, k) : TRUE
    BY <2>1
  <2>3. f \in [0..k -> Nat] /\ f[0] = a /\ \A i \in 1..k : f[i] = m * f[i - 1] + w[i]
    BY <2>2 DEF Steps
  <2>4. PICK v \in Nat : v = m * f[k] + w[k + 1]
    <3>1. f[k] \in Nat /\ w[k + 1] \in Nat
      BY <2>1, <2>3
    <3>2. m * f[k] \in Nat
      BY <3>1
    <3> QED  BY <3>1, <3>2
  <2> DEFINE g == [i \in 0..(k + 1) |-> IF i <= k THEN f[i] ELSE v]
  <2>5. g \in [0..(k + 1) -> Nat]
    BY <2>1, <2>3
  <2>6. g[0] = a
    BY <2>1, <2>3
  <2>7. ASSUME NEW i \in 1..(k + 1) PROVE g[i] = m * g[i - 1] + w[i]
    <3>1. i - 1 \in 0..k /\ i - 1 \in 0..(k + 1) /\ i \in 0..(k + 1)
      BY <2>1
    <3>2. g[i - 1] = f[i - 1]
      BY <3>1
    <3>3. CASE i <= k
      <4>1. i \in 1..k /\ g[i] = f[i]
        BY <2>1, <3>3
      <4> QED  BY <2>3, <3>2, <4>1
    <3>4. CASE ~(i <= k)
      <4>1. i = k + 1 /\ i - 1 = k /\ g[i] = v
        BY <2>1, <3>4
      <4> QED  BY <2>4, <3>2, <4>1
    <3> QED  BY <3>3, <3>4
  <2>8. g \in Steps(a, m, w, k + 1)
    BY <2>5, <2>6, <2>7 DEF Steps
  <2> QED  BY <2>8
<1>3. P = Nat
  BY <1>1, <1>2, Induction
<1> QED  BY <1>3

LEMMA TenLemma ==
  /\ Ten[0] = 1
  /\ \A n \in Nat : Ten[n] \in Nat /\ Ten[n + 1] = 10 * Ten[n]
<1> DEFINE zero(n) == [i \in 1..n |-> 0]
           tens(n) == Steps(1, 10, zero(n), n)
           first(n) == CHOOSE f : f \in tens(n)
           h == [n \in Nat |-> first(n)[n]]
           F(ten) == [n \in Nat |-> IF n = 0 THEN 1 ELSE 10 * ten[n - 1]]
<1>1. ASSUME NEW n \in Nat PROVE tens(n) # {}
  <2>1. zero(n) \in [1..n -> Nat]
    OBVIOUS
  <2> QED  BY <2>1, StepsExist
<1>2. ASSUME NEW n \in Nat, NEW f \in tens(n)
      PROVE  f \in [0..n -> Nat] /\ f[0] = 1 /\ \A i \in 1..n : f[i] = 10 * f[i - 1]
  <2>1. /\ f \in [0..n -> Nat] /\ f[0] = 1
        /\ \A i \in 1..n : f[i] = 10 * f[i - 1] + zero(n)[i]
    BY DEF Steps
  <2>2. \A i \in 1..n : f[i - 1] \in Nat /\ zero(n)[i] = 0
    BY <2>1
  <2> QED  BY <2>1, <2>2
<1>3. ASSUME NEW n \in Nat PROVE first(n) \in tens(n)
  BY <1>1
<1> HIDE DEF first, tens, zero
<1>4. ASSUME NEW n \in Nat PROVE first(n + 1)[n] = first(n)[n]
  <2>1. PICK f, g : f = first(n) /\ g = first(n + 1)
    OBVIOUS
  <2>2. /\ f \in [0..n -> Nat] /\ f[0] = 1 /\ \A i \in 1..n : f[i] = 10 * f[i - 1]
        /\ g[0] = 1 /\ \A i \in 1..(n + 1) : g[i] = 10 * g[i - 1]
    <3>1. n + 1 \in Nat
      OBVIOUS
    <3>2. f \in tens(n) /\ g \in tens(n + 1)
      BY <1>3, <2>1, <3>1
    <3>3. f \in [0..n -> Nat] /\ f[0] = 1 /\ \A i \in 1..n : f[i] = 10 * f[i - 1]
      BY <1>2, <3>2
    <3>4. g[0] = 1 /\ \A i \in 1..(n + 1) : g[i] = 10 * g[i - 1]
      BY <1>2, <3>1, <3>2
    <3> QED  BY <3>3, <3>4
  <2> DEFINE P == {i \in Nat : i <= n => f[i] = g[i]}
  <2>3. 0 \in P
    BY <2>2
  <2>4. ASSUME NEW i \in P PROVE i + 1 \in P
    <3> SUFFICES ASSUME i + 1 <= n PROVE f[i + 1] = g[i + 1]
      OBVIOUS
    <3>1. i + 1 \in 1..n /\ i + 1 \in 1..(n + 1) /\ (i + 1) - 1 = i /\ f[i] = g[i]
      OBVIOUS
    <3>2. f[i + 1] = 10 * f[i] /\ g[i + 1] = 10 * g[i]
      BY <2>2, <3>1
    <3> QED  BY <3>1, <3>2
  <2>5. P = Nat
    BY <2>3, <2>4, Induction
  <2> QED  BY <2>1, <2>5
<1>5. ASSUME NEW n \in Nat PROVE h[n] \in Nat /\ h[n] = IF n = 0 THEN 1 ELSE 10 * h[n - 1]
  <2>1. PICK f : f = first(n)
    OBVIOUS
  <2>2. /\ f \in [0..n -> Nat] /\ f[0] = 1 /\ \A i \in 1..n : f[i] = 10 * f[i - 1]
        /\ h[n] = f[n]
    BY <1>2, <1>3, <2>1
  <2>3. CASE n # 0
    <3>1. n \in 1..n /\ n - 1 \in Nat /\ (n - 1) + 1 = n
      BY <2>3
    <3>2. h[n - 1] = first(n - 1)[n - 1]
      BY <3>1
    <3>3. first(n - 1)[n - 1] = f[n - 1]
      BY <1>4, <2>1, <3>1
    <3> QED  BY <2>2, <2>3, <3>1, <3>2, <3>3
  <2> QED  BY <2>2, <2>3
<1>6. h = F(h)
  BY <1>5
<1> HIDE DEF h
<1>7. Ten = F(Ten)
  <2>1. Ten = CHOOSE ten : ten = F(ten)
    BY DEF Ten
  <2> QED  BY <1>6, <2>1
<1>8. Ten[0] = 1 /\ \A n \in Nat : Ten[n + 1] = 10 * Ten[n]
  <2>1. \A n \in Nat : Ten[n] = IF n = 0 THEN 1 ELSE 10 * Ten[n - 1]
    BY <1>7
  <2>2. \A n \in Nat : n + 1 \in Nat /\ n + 1 # 0 /\ (n + 1) - 1 = n
    OBVIOUS
  <2> QED  BY <2>1, <2>2
<1> DEFINE P == {n \in Nat : Ten[n] \in Nat}
<1>9. P = Nat
  <2>1. 0 \in P
    BY <1>8
  <2>2. ASSUME NEW n \in P PROVE n + 1 \in P
    BY <1>8
  <2> HIDE DEF P
  <2>3. P \in SUBSET Nat
    BY DEF P
  <2> QED  BY <2>1, <2>2, <2>3, Induction
<1> QED  BY <1>8, <1>9

(* What DecimalField adds up.                                                *)
LEMMA WorthLemma ==
  ASSUME NEW S, NEW s \in Seq(S), NEW k \in Nat, NEW i \in 1..Len(s)
  PROVE  Worth(s, k, i) \in Nat
<1>1. DigitsOf(s, k) \subseteq 1..Len(s) /\ Len(s) \in Nat
  BY LenProperties DEF DigitsOf
<1>2. CASE i \in DigitsOf(s, k)
  <2>1. PICK later : later = {j \in DigitsOf(s, k) : j > i}
    OBVIOUS
  <2>2. IsFiniteSet(1..Len(s)) /\ later \in SUBSET (1..Len(s))
    BY <1>1, <2>1, FS_Interval
  <2>3. Cardinality(later) \in Nat
    BY <2>2, FS_Subset, FS_CardinalityType
  <2>4. PICK t \in Nat : t = Ten[Cardinality(later)]
    BY <2>3, TenLemma
  <2>5. PICK d \in Nat : d = s[i] - 48
    BY <1>2 DEF DigitsOf, Digits
  <2>6. d * t \in Nat
    BY <2>4, <2>5
  <2> QED  BY <1>2, <2>1, <2>4, <2>5, <2>6 DEF Worth
<1>3. CASE i \notin DigitsOf(s, k)
  BY <1>3 DEF Worth
<1> QED  BY <1>2, <1>3

LEMMA FieldLemma ==
  ASSUME NEW S, NEW s \in Seq(S), NEW k \in Nat
  PROVE  \E f \in [0..Len(s) -> Nat] :
           /\ f[0] = 0
           /\ \A i \in 1..Len(s) : f[i] = f[i - 1] + Worth(s, k, i)
           /\ DecimalField(s, k) = f[Len(s)]
<1>1. PICK n \in Nat : n = Len(s)
  BY LenProperties
<1> DEFINE w == [i \in 1..n |-> Worth(s, k, i)]
           F(sum) == [i \in 0..n |-> IF i = 0 THEN 0 ELSE sum[i - 1] + Worth(s, k, i)]
           chosen == CHOOSE sum : sum = F(sum)
<1>2. w \in [1..n -> Nat]
  BY <1>1, WorthLemma
<1>3. PICK f \in Steps(0, 1, w, n) : TRUE
  BY <1>2, StepsExist
<1>4. /\ f \in [0..n -> Nat] /\ f[0] = 0
      /\ \A i \in 1..n : f[i] = f[i - 1] + Worth(s, k, i)
  <2>1. /\ f \in [0..n -> Nat] /\ f[0] = 0
        /\ \A i \in 1..n : f[i] = 1 * f[i - 1] + w[i]
    BY <1>3 DEF Steps
  <2>2. \A i \in 1..n : f[i - 1] \in Nat /\ w[i] = Worth(s, k, i)
    BY <2>1
  <2> QED  BY <2>1, <2>2
<1>5. f = F(f)
  <2>1. \A i \in 0..n : f[i] = IF i = 0 THEN 0 ELSE f[i - 1] + Worth(s, k, i)
    BY <1>4
  <2> QED  BY <1>4, <2>1
<1>6. chosen = F(chosen)
  BY <1>5
<1>7. DecimalField(s, k) = chosen[n]
  BY <1>1 DEF DecimalField
<1> HIDE DEF chosen
<1>8. \A i \in 0..n : chosen[i] = IF i = 0 THEN 0 ELSE chosen[i - 1] + Worth(s, k, i)
  BY <1>6
<1> DEFINE P == {i \in Nat : i <= n => chosen[i] = f[i]}
<1>9. P = Nat
  <2>1. 0 \in P
    BY <1>4, <1>8
  <2>2. ASSUME NEW i \in P PROVE i + 1 \in P
    <3> SUFFICES ASSUME i + 1 <= n PROVE chosen[i + 1] = f[i + 1]
      OBVIOUS
    <3>1. i + 1 \in 1..n /\ i + 1 \in 0..n /\ (i + 1) - 1 = i /\ i + 1 # 0 /\ chosen[i] = f[i]
      OBVIOUS
    <3>2. chosen[i + 1] = chosen[i] + Worth(s, k, i + 1)
      BY <1>8, <3>1
    <3>3. f[i + 1] = f[i] + Worth(s, k, i + 1)
      BY <1>4, <3>1
    <3> QED  BY <3>1, <3>2, <3>3
  <2> QED  BY <2>1, <2>2, Induction
<1>10. chosen[n] = f[n]
  <2>1. n \in P
    BY <1>9
  <2> QED  BY <2>1
<1> QED  BY <1>1, <1>4, <1>7, <1>10

(* One more byte of text.                                                    *)
LEMMA AppendLemma ==
  ASSUME NEW S, NEW s \in Seq(S), NEW c
  PROVE  /\ Append(s, c) \in Seq(S \cup {c})
         /\ Len(s) \in Nat /\ Len(Append(s, c)) = Len(s) + 1
         /\ \A i \in 1..Len(s) : Append(s, c)[i] = s[i]
         /\ Append(s, c)[Len(s) + 1] = c
<1>1. PICK T : T = S \cup {c}
  OBVIOUS
<1>2. s \in Seq(T) /\ c \in T
  BY <1>1, SeqMonotonic
<1> QED  BY <1>1, <1>2, AppendProperties, LenProperties

Fields(s) == Field(Cardinality(Semicolons(s)) + 1)

LEMMA SemicolonsLemma ==
  ASSUME NEW S, NEW s \in Seq(S)
  PROVE  /\ Semicolons(s) \subseteq 1..Len(s)
         /\ \A X \in SUBSET Semicolons(s) :
              /\ IsFiniteSet(X) /\ Cardinality(X) \in Nat
              /\ Cardinality(X) <= Cardinality(Semicolons(s))
<1>1. Semicolons(s) \subseteq 1..Len(s) /\ Len(s) \in Nat
  BY LenProperties DEF Semicolons
<1>2. IsFiniteSet(1..Len(s))
  BY <1>1, FS_Interval
<1>3. IsFiniteSet(Semicolons(s))
  BY <1>1, <1>2, FS_Subset
<1>4. \A X \in SUBSET Semicolons(s) : IsFiniteSet(X) /\ Cardinality(X) <= Cardinality(Semicolons(s))
  BY <1>3, FS_Subset
<1> QED  BY <1>1, <1>4, FS_CardinalityType

LEMMA FieldOfLemma ==
  ASSUME NEW S, NEW s \in Seq(S)
  PROVE  /\ Fields(s) \in 1..MaxArgs
         /\ \A i \in 1..Len(s) : FieldOf(s, i) \in 1..Fields(s)
<1>1. Cardinality(Semicolons(s)) \in Nat
  BY SemicolonsLemma
<1>2. Fields(s) \in 1..MaxArgs
  BY <1>1, TerminalAssumption DEF Fields, Field
<1>3. ASSUME NEW i \in 1..Len(s) PROVE FieldOf(s, i) \in 1..Fields(s)
  <2>1. PICK X : X = {j \in Semicolons(s) : j < i}
    OBVIOUS
  <2>2. Cardinality(X) \in Nat /\ Cardinality(X) <= Cardinality(Semicolons(s))
    BY <2>1, SemicolonsLemma
  <2>3. FieldOf(s, i) = Field(Cardinality(X) + 1)
    BY <2>1 DEF FieldOf
  <2> QED  BY <1>1, <2>2, <2>3, TerminalAssumption DEF Field, Fields
<1> QED  BY <1>2, <1>3

LEMMA ByteLemma ==
  ASSUME NEW S, NEW s \in Seq(S), NEW c
  PROVE  /\ Semicolons(Append(s, c)) =
              IF c = Semicolon THEN Semicolons(s) \cup {Len(s) + 1} ELSE Semicolons(s)
         /\ \A i \in 1..(Len(s) + 1) : FieldOf(Append(s, c), i) = FieldOf(s, i)
         /\ FieldOf(s, Len(s) + 1) = Fields(s)
<1>1. PICK n \in Nat : n = Len(s)
  BY LenProperties
<1>2. PICK t : t = Append(s, c)
  OBVIOUS
<1>3. Len(t) = n + 1 /\ (\A i \in 1..n : t[i] = s[i]) /\ t[n + 1] = c
  BY <1>1, <1>2, AppendLemma
<1>4. Semicolons(t) = IF c = Semicolon THEN Semicolons(s) \cup {n + 1} ELSE Semicolons(s)
  <2>1. 1..(n + 1) = (1..n) \cup {n + 1}
    OBVIOUS
  <2> QED  BY <1>1, <1>3, <2>1 DEF Semicolons
<1>5. Semicolons(s) \subseteq 1..n
  BY <1>1, SemicolonsLemma
<1>6. ASSUME NEW i \in 1..(n + 1)
      PROVE  {j \in Semicolons(t) : j < i} = {j \in Semicolons(s) : j < i}
  <2>1. \A j \in Semicolons(t) : j < i => j \in Semicolons(s)
    BY <1>4
  <2>2. Semicolons(s) \subseteq Semicolons(t)
    BY <1>4
  <2> QED  BY <2>1, <2>2
<1>7. \A i \in 1..(n + 1) : FieldOf(t, i) = FieldOf(s, i)
  BY <1>6 DEF FieldOf
<1>8. FieldOf(s, n + 1) = Fields(s)
  <2>1. {j \in Semicolons(s) : j < n + 1} = Semicolons(s)
    BY <1>5
  <2> QED  BY <2>1 DEF FieldOf, Fields
<1> QED  BY <1>1, <1>2, <1>4, <1>7, <1>8

LEMMA DigitLemma ==
  ASSUME NEW S, NEW s \in Seq(S), NEW c, NEW k
  PROVE  DigitsOf(Append(s, c), k) = IF c \in Digits /\ k = Fields(s)
                                     THEN DigitsOf(s, k) \cup {Len(s) + 1} ELSE DigitsOf(s, k)
<1>1. PICK n \in Nat : n = Len(s)
  BY LenProperties
<1>2. PICK t : t = Append(s, c)
  OBVIOUS
<1>3. Len(t) = n + 1 /\ (\A i \in 1..n : t[i] = s[i]) /\ t[n + 1] = c
  BY <1>1, <1>2, AppendLemma
<1>4. (\A i \in 1..(n + 1) : FieldOf(t, i) = FieldOf(s, i)) /\ FieldOf(s, n + 1) = Fields(s)
  BY <1>1, <1>2, ByteLemma
<1>5. n + 1 \in 1..(n + 1) /\ \A i \in 1..(n + 1) : i \in 1..n \/ i = n + 1
  OBVIOUS
<1>6. PICK D, E : D = DigitsOf(t, k) /\ E = DigitsOf(s, k)
  OBVIOUS
<1>7. \A i \in 1..n : i \in D <=> i \in E
  <2>1. \A i \in 1..n : i \in 1..(n + 1)
    OBVIOUS
  <2> QED  BY <1>1, <1>3, <1>4, <1>6, <2>1 DEF DigitsOf
<1>8. n + 1 \in D <=> c \in Digits /\ k = Fields(s)
  BY <1>3, <1>4, <1>5, <1>6 DEF DigitsOf
<1>9. D \subseteq 1..(n + 1) /\ E \subseteq 1..n
  BY <1>1, <1>3, <1>6 DEF DigitsOf
<1>10. \A x : x \in D <=> x \in E \/ (c \in Digits /\ k = Fields(s) /\ x = n + 1)
  BY <1>5, <1>7, <1>8, <1>9
<1>11. D = IF c \in Digits /\ k = Fields(s) THEN E \cup {n + 1} ELSE E
  BY <1>10
<1> QED  BY <1>1, <1>2, <1>6, <1>11

LEMMA ScaledSum ==
  ASSUME NEW n \in Nat, NEW m \in Nat, NEW f \in [0..n -> Nat], NEW g \in [0..(n + 1) -> Nat],
         f[0] = 0, g[0] = 0, \A i \in 1..n : g[i] - g[i - 1] = m * (f[i] - f[i - 1])
  PROVE  g[n] = m * f[n]
<1> DEFINE P == {i \in Nat : i <= n => g[i] = m * f[i]}
<1>1. 0 \in P
  BY SMTT(30)
<1>2. ASSUME NEW i \in P PROVE i + 1 \in P
  <2> SUFFICES ASSUME i + 1 <= n PROVE g[i + 1] = m * f[i + 1]
    OBVIOUS
  <2>1. i + 1 \in 1..n /\ (i + 1) - 1 = i /\ g[i] = m * f[i]
    OBVIOUS
  <2>2. g[i + 1] - g[i] = m * (f[i + 1] - f[i])
    BY <2>1
  <2>3. PICK a \in Nat, b \in Nat, p \in Nat, q \in Nat :
          a = f[i] /\ b = f[i + 1] /\ p = g[i] /\ q = g[i + 1]
    <3>1. i \in 0..n /\ i + 1 \in 0..n /\ i \in 0..(n + 1) /\ i + 1 \in 0..(n + 1)
      BY <2>1
    <3>2. f[i] \in Nat /\ f[i + 1] \in Nat /\ g[i] \in Nat /\ g[i + 1] \in Nat
      BY <3>1
    <3> QED  BY <3>2
  <2>4. \A x, y, u, v \in Nat : u = m * x /\ v - u = m * (y - x) => v = m * y
    OBVIOUS
  <2> QED  BY <2>1, <2>2, <2>3, <2>4
<1>3. P = Nat
  BY <1>1, <1>2, Induction
<1>4. n \in P
  BY <1>3
<1> QED  BY <1>4

(* A digit multiplies the field it belongs to by ten, the last one, and adds *)
(* to it; any other byte leaves the fields alone.                            *)
LEMMA FieldAppend ==
  ASSUME NEW S, NEW s \in Seq(S), NEW c, NEW k \in Nat
  PROVE  /\ DecimalField(s, k) \in Nat
         /\ c \in Digits /\ k = Fields(s) =>
              DecimalField(Append(s, c), k) = 10 * DecimalField(s, k) + (c - 48)
         /\ ~(c \in Digits /\ k = Fields(s)) =>
              DecimalField(Append(s, c), k) = DecimalField(s, k)
<1>0. PICK t : t = Append(s, c)
  OBVIOUS
<1>1. PICK n \in Nat : n = Len(s)
  BY LenProperties
<1>2. PICK T : t \in Seq(T)
  BY <1>0, AppendLemma
<1>3. Len(t) = n + 1 /\ (\A i \in 1..n : t[i] = s[i]) /\ t[n + 1] = c
  BY <1>0, <1>1, AppendLemma
<1>4. PICK f \in [0..n -> Nat] :
        /\ f[0] = 0
        /\ \A i \in 1..n : f[i] = f[i - 1] + Worth(s, k, i)
        /\ DecimalField(s, k) = f[n]
  BY <1>1, FieldLemma
<1>5. PICK g \in [0..(n + 1) -> Nat] :
        /\ g[0] = 0
        /\ \A i \in 1..(n + 1) : g[i] = g[i - 1] + Worth(t, k, i)
        /\ DecimalField(t, k) = g[n + 1]
  <2>1. \E g \in [0..Len(t) -> Nat] :
          /\ g[0] = 0
          /\ \A i \in 1..Len(t) : g[i] = g[i - 1] + Worth(t, k, i)
          /\ DecimalField(t, k) = g[Len(t)]
    BY <1>2, FieldLemma
  <2> QED  BY <1>3, <2>1
<1>6. DecimalField(t, k) = g[n] + Worth(t, k, n + 1) /\ g[n] \in Nat
  <2>1. n + 1 \in 1..(n + 1) /\ (n + 1) - 1 = n
    OBVIOUS
  <2> QED  BY <1>5, <2>1
<1>7. PICK D, E : D = DigitsOf(s, k) /\ E = DigitsOf(t, k)
  OBVIOUS
<1>8. E = IF c \in Digits /\ k = Fields(s) THEN D \cup {n + 1} ELSE D
  BY <1>0, <1>1, <1>7, DigitLemma
<1>9. D \subseteq 1..n
  BY <1>1, <1>7 DEF DigitsOf
<1>10. ASSUME NEW i \in 1..n PROVE i \in 1..(n + 1) /\ t[i] = s[i] /\ (i \in E <=> i \in D)
  BY <1>3, <1>8
<1>11. ASSUME c \in Digits /\ k = Fields(s)
       PROVE  DecimalField(t, k) = 10 * DecimalField(s, k) + (c - 48)
  <2>1. \A i \in 1..n : Worth(t, k, i) = 10 * Worth(s, k, i)
    <3> SUFFICES ASSUME NEW i \in 1..n PROVE Worth(t, k, i) = 10 * Worth(s, k, i)
      OBVIOUS
    <3>1. CASE i \in D
      <4>1. PICK X, Y : X = {j \in D : j > i} /\ Y = {j \in E : j > i}
        OBVIOUS
      <4>2. Y = X \cup {n + 1} /\ n + 1 \notin X
        BY <1>8, <1>9, <1>11, <4>1
      <4>3. IsFiniteSet(1..n) /\ X \in SUBSET (1..n)
        <5>1. X \in SUBSET (1..n)
          BY <1>9, <4>1
        <5>2. 1 \in Int /\ n \in Int
          OBVIOUS
        <5> QED  BY <5>1, <5>2, FS_Interval
      <4>4. IsFiniteSet(X) /\ Cardinality(X) \in Nat
        BY <4>3, FS_Subset, FS_CardinalityType
      <4>5. Cardinality(Y) = Cardinality(X) + 1
        BY <4>2, <4>4, FS_AddElement
      <4>6. PICK p \in Nat, q \in Nat : p = Ten[Cardinality(X)] /\ q = Ten[Cardinality(Y)] /\ q = 10 * p
        <5>1. PICK x \in Nat : x = Cardinality(X)
          BY <4>4
        <5>2. Ten[x] \in Nat /\ Ten[x + 1] = 10 * Ten[x]
          BY TenLemma, ZenonT(30)
        <5>3. PICK y \in Nat : y = Ten[x]
          BY <5>2
        <5>4. 10 * y \in Nat
          OBVIOUS
        <5> QED  BY <4>5, <5>1, <5>2, <5>3, <5>4
      <4>7. PICK d \in Nat : d = s[i] - 48
        <5>1. s[i] \in Digits
          BY <1>7, <3>1 DEF DigitsOf
        <5>2. \A e \in Digits : e - 48 \in Nat
          BY DEF Digits
        <5> QED  BY <5>1, <5>2
      <4>8. Worth(s, k, i) = d * p /\ Worth(t, k, i) = d * q
        BY <1>7, <1>10, <3>1, <4>1, <4>6, <4>7 DEF Worth
      <4>9. d * (10 * p) = 10 * (d * p)
        OBVIOUS
      <4> QED  BY <4>6, <4>8, <4>9
    <3>2. CASE i \notin D
      BY <1>7, <1>10, <3>2 DEF Worth
    <3> QED  BY <3>1, <3>2
  <2>2. Worth(t, k, n + 1) = c - 48
    <3>1. n + 1 \in E /\ {j \in E : j > n + 1} = {}
      <4>1. \A j \in E : j \in 1..n \/ j = n + 1
        BY <1>8, <1>9, <1>11
      <4>2. ASSUME NEW j \in E PROVE ~(j > n + 1)
        <5>1. CASE j \in 1..n
          BY <5>1
        <5>2. CASE j = n + 1
          BY <5>2
        <5> QED  BY <4>1, <5>1, <5>2
      <4> QED  BY <1>8, <1>11, <4>2
    <3>2. Ten[Cardinality({})] = 1
      BY FS_EmptySet, TenLemma
    <3>3. c - 48 \in Nat /\ (c - 48) * 1 = c - 48
      BY <1>11 DEF Digits
    <3> QED  BY <1>3, <1>7, <3>1, <3>2, <3>3 DEF Worth
  <2>3. \A i \in 1..n : g[i] - g[i - 1] = 10 * (f[i] - f[i - 1])
    <3> SUFFICES ASSUME NEW i \in 1..n PROVE g[i] - g[i - 1] = 10 * (f[i] - f[i - 1])
      OBVIOUS
    <3>1. /\ f[i] = f[i - 1] + Worth(s, k, i) /\ g[i] = g[i - 1] + Worth(t, k, i)
          /\ f[i - 1] \in Nat /\ f[i] \in Nat /\ g[i - 1] \in Nat /\ g[i] \in Nat
      BY <1>4, <1>5, <1>10
    <3>2. PICK v \in Nat, p \in Nat, q \in Nat, x \in Nat, y \in Nat :
            v = Worth(s, k, i) /\ p = f[i - 1] /\ q = f[i] /\ x = g[i - 1] /\ y = g[i]
      BY <1>1, <3>1, WorthLemma
    <3>3. q = p + v /\ y = x + 10 * v
      BY <2>1, <3>1, <3>2
    <3>4. y - x = 10 * (q - p)
      BY <3>3
    <3> QED  BY <3>2, <3>4
  <2>4. g[n] = 10 * f[n]
    BY <1>4, <1>5, <2>3, ScaledSum
  <2> QED  BY <1>4, <1>6, <1>11, <2>2, <2>4
<1>12. ASSUME ~(c \in Digits /\ k = Fields(s))
       PROVE  DecimalField(t, k) = DecimalField(s, k)
  <2>1. \A i \in 1..n : Worth(t, k, i) = Worth(s, k, i)
    BY <1>7, <1>8, <1>10, <1>12 DEF Worth
  <2>2. Worth(t, k, n + 1) = 0
    BY <1>7, <1>8, <1>9, <1>12 DEF Worth
  <2>3. \A i \in 1..n : g[i] - g[i - 1] = 1 * (f[i] - f[i - 1])
    <3> SUFFICES ASSUME NEW i \in 1..n PROVE g[i] - g[i - 1] = 1 * (f[i] - f[i - 1])
      OBVIOUS
    <3>1. /\ f[i] = f[i - 1] + Worth(s, k, i) /\ g[i] = g[i - 1] + Worth(t, k, i)
          /\ f[i - 1] \in Nat /\ f[i] \in Nat /\ g[i - 1] \in Nat /\ g[i] \in Nat
      BY <1>4, <1>5, <1>10
    <3>2. PICK v \in Nat, p \in Nat, q \in Nat, x \in Nat, y \in Nat :
            v = Worth(s, k, i) /\ p = f[i - 1] /\ q = f[i] /\ x = g[i - 1] /\ y = g[i]
      BY <1>1, <3>1, WorthLemma
    <3>3. q = p + v /\ y = x + 1 * v
      BY <2>1, <3>1, <3>2
    <3>4. y - x = 1 * (q - p)
      BY <3>3
    <3> QED  BY <3>2, <3>4
  <2>4. g[n] = 1 * f[n]
    BY <1>4, <1>5, <2>3, ScaledSum
  <2>5. f[n] \in Nat
    OBVIOUS
  <2> QED  BY <1>4, <1>6, <1>12, <2>2, <2>4, <2>5
<1>13. f[n] \in Nat
  OBVIOUS
<1> QED  BY <1>0, <1>4, <1>11, <1>12, <1>13

(* Reducing a number before a multiple of it is taken changes nothing.       *)
LEMMA QuotientLemma ==
  ASSUME NEW u \in Nat \ {0}, NEW p \in Nat, NEW q \in Nat, NEW r \in 0..(u - 1), NEW r2 \in 0..(u - 1),
         u * p + r = u * q + r2
  PROVE  r = r2
<1>1. ASSUME NEW a \in Nat, NEW b \in Nat, a < b PROVE u * a + u <= u * b
  <2>1. PICK e \in Nat : b = (a + 1) + e
    <3>1. b - (a + 1) \in Nat /\ b = (a + 1) + (b - (a + 1))
      BY <1>1
    <3> QED  BY <3>1
  <2>2. u * b = u * a + u + u * e /\ u * e >= 0
    BY <2>1
  <2>3. u * a \in Nat /\ u * b \in Nat /\ u * e \in Nat
    OBVIOUS
  <2> QED  BY <2>2, <2>3
<1>2. PICK x \in Nat, y \in Nat : x = u * p /\ y = u * q
  OBVIOUS
<1>3. ~(p < q) /\ ~(q < p)
  BY <1>1, <1>2
<1>4. p = q
  BY <1>3
<1> QED  BY <1>2, <1>4

LEMMA ModLemma ==
  ASSUME NEW u \in Nat \ {0}, NEW v \in Nat, NEW d \in Nat
  PROVE  ((v % u) * 10 + d) % u = (10 * v + d) % u
<1>1. \A n \in Nat : n \div u \in Nat /\ n % u \in 0..(u - 1) /\ n = u * (n \div u) + (n % u)
  BY SMTT(30)
<1>2. PICK p \in Nat, r \in 0..(u - 1) : r = v % u /\ v = u * p + r
  BY <1>1
<1>3. PICK m \in Nat : m = r * 10 + d
  OBVIOUS
<1>4. PICK n \in Nat : n = 10 * v + d
  OBVIOUS
<1>5. n = u * (10 * p) + m
  BY <1>2, <1>3, <1>4
<1>6. PICK q1 \in Nat, r1 \in 0..(u - 1) : r1 = m % u /\ m = u * q1 + r1
  BY <1>1
<1>7. PICK q2 \in Nat, r2 \in 0..(u - 1) : r2 = n % u /\ n = u * q2 + r2
  BY <1>1
<1>8. 10 * p + q1 \in Nat /\ u * (10 * p + q1) + r1 = u * q2 + r2
  BY <1>5, <1>6, <1>7
<1>9. r1 = r2
  BY <1>8, QuotientLemma
<1> QED  BY <1>2, <1>3, <1>4, <1>6, <1>7, <1>9

Parsed(s, a) ==
  /\ a \in Seq(Nat)
  /\ Len(a) = Fields(s)
  /\ \A k \in 1..Len(a) : a[k] = DecimalField(s, k) % USIZE

LEMMA ParsedNothing == Parsed(<<>>, <<0>>)
<1>1. <<>> \in Seq(Nat) /\ Len(<<>>) = 0
  OBVIOUS
<1>2. Semicolons(<<>>) = {}
  BY <1>1 DEF Semicolons
<1>3. Fields(<<>>) = 1
  BY <1>2, FS_EmptySet, TerminalAssumption DEF Fields, Field
<1>4. DecimalField(<<>>, 1) = 0
  <2>1. PICK s \in Seq(Nat) : s = <<>>
    BY <1>1
  <2>2. PICK f \in [0..Len(s) -> Nat] : f[0] = 0 /\ DecimalField(s, 1) = f[Len(s)]
    BY FieldLemma
  <2> QED  BY <1>1, <2>1, <2>2
<1>5. 0 % USIZE = 0
  BY TerminalAssumption
<1>6. <<0>> \in Seq(Nat) /\ Len(<<0>>) = 1 /\ <<0>>[1] = 0
  OBVIOUS
<1>7. \A k \in 1..1 : k = 1
  OBVIOUS
<1> QED  BY <1>3, <1>4, <1>5, <1>6, <1>7 DEF Parsed

LEMMA FieldsLemma ==
  ASSUME NEW S, NEW s \in Seq(S), NEW c, c # Semicolon
  PROVE  Fields(Append(s, c)) = Fields(s)
BY ByteLemma DEF Fields

LEMMA ParsedDigit ==
  ASSUME NEW S, NEW s \in Seq(S), NEW a, Parsed(s, a), NEW c \in Digits,
         NEW b, b = [a EXCEPT ![Len(a)] = NewVal(@, c)]
  PROVE  Parsed(Append(s, c), b)
<1>1. PICK n \in Nat : n = Len(a) /\ n = Fields(s) /\ n \in 1..MaxArgs /\ n \in 1..n
  BY FieldOfLemma DEF Parsed
<1>2. a \in Seq(Nat) /\ a[n] \in Nat
  BY <1>1, ElementOfSeq DEF Parsed
<1>3. USIZE \in Nat \ {0} /\ c - 48 \in Nat /\ c # Semicolon
  BY TerminalAssumption DEF Digits, Semicolon
<1>4. NewVal(a[n], c) \in Nat
  <2>1. PICK m \in Nat : m = a[n] * 10 + (c - 48)
    BY <1>2, <1>3
  <2>2. m % USIZE \in Nat
    BY <1>3
  <2> QED  BY <2>1, <2>2 DEF NewVal
<1>5. PICK e \in Nat : e = NewVal(a[n], c)
  BY <1>4
<1>6. b = [a EXCEPT ![n] = e]
  BY <1>1, <1>5
<1>7. b \in Seq(Nat) /\ Len(b) = n /\ \A k \in 1..n : b[k] = IF k = n THEN e ELSE a[k]
  <2>1. n \in 1..Len(a)
    BY <1>1
  <2>2. /\ [a EXCEPT ![n] = e] \in Seq(Nat) /\ Len([a EXCEPT ![n] = e]) = Len(a)
        /\ \A k \in 1..Len(a) : [a EXCEPT ![n] = e][k] = IF k = n THEN e ELSE a[k]
    BY <1>2, <2>1, ExceptSeq
  <2> QED  BY <1>1, <1>6, <2>2
<1>8. Fields(Append(s, c)) = n
  BY <1>1, <1>3, FieldsLemma
<1>9. ASSUME NEW k \in 1..n PROVE b[k] = DecimalField(Append(s, c), k) % USIZE
  <2>1. k \in Nat /\ a[k] = DecimalField(s, k) % USIZE
    BY <1>1 DEF Parsed
  <2>2. PICK v \in Nat : v = DecimalField(s, k)
    BY <2>1, FieldAppend
  <2>3. CASE k = n
    <3>1. DecimalField(Append(s, c), k) = 10 * v + (c - 48)
      BY <1>1, <2>1, <2>2, <2>3, FieldAppend
    <3>2. e = ((v % USIZE) * 10 + (c - 48)) % USIZE
      BY <1>5, <2>1, <2>2, <2>3 DEF NewVal
    <3>3. ((v % USIZE) * 10 + (c - 48)) % USIZE = (10 * v + (c - 48)) % USIZE
      BY <1>3, ModLemma
    <3> QED  BY <1>7, <2>3, <3>1, <3>2, <3>3
  <2>4. CASE k # n
    <3>1. DecimalField(Append(s, c), k) = DecimalField(s, k)
      BY <1>1, <2>1, <2>4, FieldAppend
    <3> QED  BY <1>7, <2>1, <2>4, <3>1
  <2> QED  BY <2>3, <2>4
<1> QED  BY <1>7, <1>8, <1>9 DEF Parsed

LEMMA ParsedOther ==
  ASSUME NEW S, NEW s \in Seq(S), NEW a, Parsed(s, a), NEW c, c \notin Digits, c # Semicolon
  PROVE  Parsed(Append(s, c), a)
<1>1. Len(a) \in Nat /\ Fields(Append(s, c)) = Fields(s)
  BY FieldsLemma, LenProperties DEF Parsed
<1>2. ASSUME NEW k \in 1..Len(a) PROVE DecimalField(Append(s, c), k) = DecimalField(s, k)
  <2>1. k \in Nat
    BY <1>1
  <2> QED  BY <2>1, FieldAppend
<1> QED  BY <1>1, <1>2 DEF Parsed

(* A field that is new is empty.                                             *)
LEMMA NewField ==
  ASSUME NEW S, NEW s \in Seq(S)
  PROVE  DecimalField(s, Fields(s) + 1) = 0
<1>1. PICK k \in Nat : k = Fields(s) + 1
  BY FieldOfLemma
<1>2. PICK n \in Nat : n = Len(s)
  BY LenProperties
<1>3. DigitsOf(s, k) = {}
  BY <1>1, FieldOfLemma DEF DigitsOf
<1>4. PICK f \in [0..n -> Nat] :
        /\ f[0] = 0
        /\ \A i \in 1..n : f[i] = f[i - 1] + Worth(s, k, i)
        /\ DecimalField(s, k) = f[n]
  BY <1>2, FieldLemma
<1>5. \A i \in 1..n : f[i] = f[i - 1]
  <2>1. \A i \in 1..n : Worth(s, k, i) = 0 /\ f[i - 1] \in Nat
    BY <1>3 DEF Worth
  <2> QED  BY <1>4, <2>1
<1> DEFINE P == {i \in Nat : i <= n => f[i] = 0}
<1>6. P = Nat
  <2>1. 0 \in P
    BY <1>4
  <2>2. ASSUME NEW i \in P PROVE i + 1 \in P
    <3> SUFFICES ASSUME i + 1 <= n PROVE f[i + 1] = 0
      OBVIOUS
    <3>1. i + 1 \in 1..n /\ (i + 1) - 1 = i /\ f[i] = 0
      OBVIOUS
    <3> QED  BY <1>5, <3>1
  <2> QED  BY <2>1, <2>2, Induction
<1>7. n \in P
  BY <1>6
<1> QED  BY <1>1, <1>4, <1>7

LEMMA ParsedSemicolon ==
  ASSUME NEW S, NEW s \in Seq(S), NEW a, Parsed(s, a),
         NEW b, b = IF RoomForArg(Len(a)) THEN Append(a, 0) ELSE a
  PROVE  Parsed(Append(s, Semicolon), b)
<1>1. PICK x \in Nat : x = Cardinality(Semicolons(s))
  BY SemicolonsLemma
<1>2. PICK n \in Nat : n = Len(a) /\ n = Field(x + 1) /\ n = Fields(s) /\ a \in Seq(Nat)
  BY <1>1, LenProperties DEF Parsed, Fields
<1>3. PICK t : t = Append(s, Semicolon)
  OBVIOUS
<1>4. Cardinality(Semicolons(t)) = x + 1
  <2>1. Semicolons(t) = Semicolons(s) \cup {Len(s) + 1}
    BY <1>3, ByteLemma
  <2>2. IsFiniteSet(Semicolons(s)) /\ Len(s) + 1 \notin Semicolons(s)
    <3>1. Len(s) \in Nat /\ Len(s) + 1 \notin 1..Len(s)
      BY LenProperties
    <3> QED  BY <3>1, SemicolonsLemma
  <2> QED  BY <1>1, <2>1, <2>2, FS_AddElement
<1>5. Fields(t) = Field((x + 1) + 1)
  BY <1>4 DEF Fields
<1>6. ASSUME NEW k \in Nat PROVE DecimalField(t, k) = DecimalField(s, k)
  <2>1. Semicolon \notin Digits
    BY DEF Semicolon, Digits
  <2> QED  BY <1>3, <2>1, FieldAppend
<1>7. \A k \in 1..n : k \in Nat /\ a[k] = DecimalField(t, k) % USIZE
  BY <1>2, <1>6 DEF Parsed
<1>8. CASE n < MaxArgs
  <2>1. Fields(t) = n + 1
    BY <1>2, <1>5, <1>8, TerminalAssumption DEF Field
  <2>2. b \in Seq(Nat) /\ Len(b) = n + 1 /\ (\A k \in 1..n : b[k] = a[k]) /\ b[n + 1] = 0
    <3>1. PICK z \in Nat : z = 0
      OBVIOUS
    <3>2. b = Append(a, z)
      BY <1>2, <1>8, <3>1 DEF RoomForArg
    <3>3. PICK N : N = Nat
      OBVIOUS
    <3>4. a \in Seq(N) /\ z \in N
      BY <1>2, <3>3
    <3>5. /\ Append(a, z) \in Seq(N) /\ Len(Append(a, z)) = Len(a) + 1
          /\ \A k \in 1..Len(a) : Append(a, z)[k] = a[k]
          /\ Append(a, z)[Len(a) + 1] = z
      BY <3>4, AppendProperties
    <3> QED  BY <1>2, <3>1, <3>2, <3>3, <3>5
  <2>3. DecimalField(t, n + 1) = 0
    BY <1>2, <1>6, NewField
  <2>4. 0 % USIZE = 0
    BY TerminalAssumption
  <2>5. \A k \in 1..(n + 1) : k \in 1..n \/ k = n + 1
    OBVIOUS
  <2> QED  BY <1>3, <1>7, <2>1, <2>2, <2>3, <2>4, <2>5 DEF Parsed
<1>9. CASE ~(n < MaxArgs)
  <2>1. Fields(t) = n
    BY <1>2, <1>5, <1>9, TerminalAssumption DEF Field
  <2>2. b = a
    BY <1>2, <1>9 DEF RoomForArg
  <2> QED  BY <1>2, <1>3, <1>7, <2>1, <2>2 DEF Parsed
<1> QED  BY <1>8, <1>9

(* The text is empty outside of a sequence: every sequence starts afresh.    *)
ArgsInv ==
  /\ \E S : text \in Seq(S)
  /\ ansi_state # "Arg" => text = <<>>
  /\ ansi_state = "Arg" => Parsed(text, args)

LEMMA ArgsInvByte ==
  ASSUME ArgsInv, NEW c, RecvByte(c)
  PROVE  ArgsInv'
<1>1. PICK S, s, a : s = text /\ a = args /\ s \in Seq(S)
  BY DEF ArgsInv
<1>2. CASE Ground(c)
  <2>1. UNCHANGED text /\ text = <<>> /\ ansi_state' # "Arg"
    BY <1>2 DEF Ground, ArgsInv
  <2> QED  BY <1>1, <2>1 DEF ArgsInv
<1>3. CASE EscapeByte(c)
  <2>1. UNCHANGED text /\ text = <<>> /\ (ansi_state' = "Arg" => args' = <<0>>)
    BY <1>3 DEF EscapeByte, ArgsInv
  <2>2. ansi_state' = "Arg" => Parsed(text, args)'
    BY <2>1, ParsedNothing
  <2> QED  BY <1>1, <2>1, <2>2 DEF ArgsInv
<1>4. CASE SetColours(c)
  <2>1. text' = <<>> /\ ansi_state' # "Arg"
    BY <1>4 DEF SetColours
  <2>2. <<>> \in Seq(Nat)
    OBVIOUS
  <2> QED  BY <2>1, <2>2 DEF ArgsInv
<1>5. ASSUME InArg(c), ansi_state' = "Arg", Parsed(Append(s, c), args') PROVE ArgsInv'
  <2>1. text' = Append(s, c)
    BY <1>1, <1>5 DEF InArg
  <2>2. text' \in Seq(S \cup {c})
    BY <1>1, <2>1, AppendLemma
  <2>3. Parsed(text, args)'
    BY <1>5, <2>1
  <2> QED  BY <1>5, <2>2, <2>3 DEF ArgsInv
<1>6. ansi_state = "Arg" => Parsed(s, a)
  BY <1>1 DEF ArgsInv
<1>7. CASE ArgDigit(c)
  <2>1. PICK b : b = args' /\ b = [a EXCEPT ![Len(a)] = NewVal(@, c)]
    BY <1>1, <1>7 DEF ArgDigit
  <2>2. Parsed(Append(s, c), b)
    BY <1>1, <1>6, <1>7, <2>1, ParsedDigit DEF ArgDigit, InArg
  <2> QED  BY <1>5, <1>7, <2>1, <2>2 DEF ArgDigit, InArg
<1>8. CASE ArgSeparator(c)
  <2>1. PICK b : b = args' /\ b = IF RoomForArg(Len(a)) THEN Append(a, 0) ELSE a
    BY <1>1, <1>8 DEF ArgSeparator
  <2>2. Parsed(Append(s, c), b)
    BY <1>1, <1>6, <1>8, <2>1, ParsedSemicolon DEF ArgSeparator, InArg
  <2> QED  BY <1>5, <1>8, <2>1, <2>2 DEF ArgSeparator, InArg
<1>9. CASE ArgOther(c)
  <2>1. Parsed(Append(s, c), a)
    BY <1>1, <1>6, <1>9, ParsedOther DEF ArgOther, InArg
  <2> QED  BY <1>1, <1>5, <1>9, <2>1 DEF ArgOther, InArg
<1> QED  BY <1>2, <1>3, <1>4, <1>7, <1>8, <1>9 DEF RecvByte

LEMMA ArgsInvNext == ArgsInv /\ [ConsoleNext]_allVars => ArgsInv'
<1> SUFFICES ASSUME ArgsInv, [ConsoleNext]_allVars PROVE ArgsInv'
  OBVIOUS
<1>1. ASSUME UNCHANGED termVars PROVE ArgsInv'
  <2>1. UNCHANGED <<text, args, ansi_state>>
    BY <1>1 DEF termVars
  <2> QED  BY <2>1 DEF ArgsInv
<1>2. ASSUME NEW c \in Printers, SendByte(c) PROVE ArgsInv'
  BY <1>1, <1>2, ArgsInvByte DEF SendByte
<1> QED
  BY <1>1, <1>2 DEF ConsoleNext, TerminalInit, StartCpus, Greet, Log, Panic, Lock, LogReturns, allVars

(* ParsedArgs: the arguments collected byte by byte are the decimal fields   *)
(* of the text modulo the width of usize, for texts of any length: digits    *)
(* that overflow, surplus separators and stray bytes included.               *)
THEOREM ArgsParsed == ConsoleSpec => []ParsedArgs
<1>1. ConsoleInit => ArgsInv
  <2>1. <<>> \in Seq(Nat)
    OBVIOUS
  <2> QED  BY <2>1 DEF ConsoleInit, TermInit, ArgsInv
<1>2. ArgsInv => ParsedArgs
  BY DEF ArgsInv, Parsed, Fields, ParsedArgs
<1> QED  BY <1>1, <1>2, ArgsInvNext, PTL DEF ConsoleSpec
=============================================================================
