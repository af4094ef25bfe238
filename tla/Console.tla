------------------------------- MODULE Console -------------------------------
(***************************************************************************)
(* The console of src/src/dev/console/mod.rs and the panic handler: code on *)
(* several CPUs sends its messages byte by byte to the one Terminal behind  *)
(* GLOBAL_TERMINAL.                                                         *)
(*                                                                         *)
(* A lock is as SpinLock shows it: one holder, which is not interrupted.    *)
(* No exception is raised inside log: its code, its data and the            *)
(* framebuffer are memory the bootloader has mapped.                        *)
(* In a message one letter stands for each run of text in one colour; what  *)
(* the bootloader calls itself is printed too, escape sequences and all.    *)
(***************************************************************************)
EXTENDS Terminal

CONSTANTS
  Printers,  \* code that prints: of kmain, of other CPUs, threads, handlers
  Kmain,
  Names,     \* the bootloader's name and version, without its letters
  NULL

ASSUME ConsoleAssumption == Kmain \in Printers /\ NULL \notin Printers

Yellow == 89   \* text that is to appear in bright yellow
Red == 82      \* in bright red
Plain == 80    \* in the default colour

Sgr(d, e) == <<Escape, Bracket, d, e, LetterM>>   \* "\x1b[dem"
Reset == <<Escape, Bracket, LetterM, LineFeed>>   \* "\x1b[m\n"

(* "\x1b[93m...\x1b[m\n" of kmain, and a message without colours.           *)
BootWithoutReset(name) == Sgr(57, 51) \o (<<Yellow>> \o (name \o <<LineFeed>>))
BootMessage(name) == Sgr(57, 51) \o (<<Yellow>> \o (name \o Reset))
PlainMessage == <<Plain, 200, Plain, LineFeed>>   \* one byte the font lacks

(* "\x1b[91mPANIC at ...\x1b[39m: ...\n"                                    *)
PanicMessage == Sgr(57, 49) \o (<<Red>> \o (Sgr(51, 57) \o <<Plain, LineFeed>>))

VARIABLES
  started,    \* whether kmain has started the other CPUs
  terminal,   \* whether GLOBAL_TERMINAL is Some
  owner,      \* who has its lock
  pc,         \* where each is: in its code, in log, or halted
  out,        \* what is left of its message
  panicking   \* those in the panic handler

consoleVars == <<started, terminal, owner, pc, out, panicking>>
allVars == <<termVars, consoleVars>>

ConsoleInit ==
  /\ TermInit
  /\ started = FALSE
  /\ terminal = "None"
  /\ owner = NULL
  /\ pc = [c \in Printers |-> "code"]
  /\ out = [c \in Printers |-> <<>>]
  /\ panicking = {}

Runs(c) == pc[c] = "code" /\ (c = Kmain \/ started)

Begin(c, message) ==
  /\ out' = [out EXCEPT ![c] = message]
  /\ pc' = [pc EXCEPT ![c] = "spin"]

(* console::init; without a framebuffer it returns false and kmain's assert *)
(* panics.                                                                  *)
TerminalInit(found) ==
  /\ pc[Kmain] = "code"
  /\ terminal = "None"
  /\ owner = NULL
  /\ IF found
     THEN terminal' = "Some" /\ UNCHANGED <<pc, out, panicking>>
     ELSE Begin(Kmain, PanicMessage) /\ panicking' = {Kmain} /\ UNCHANGED terminal
  /\ UNCHANGED <<termVars, started, owner>>

StartCpus ==
  /\ Runs(Kmain)
  /\ terminal = "Some"
  /\ started' = TRUE
  /\ UNCHANGED <<termVars, terminal, owner, pc, out, panicking>>

Log(c, message) ==
  /\ Runs(c)
  /\ Begin(c, message)
  /\ UNCHANGED <<termVars, started, terminal, owner, panicking>>

(* kmain prints in colour before it starts the other CPUs.                  *)
Greet == terminal = "Some" /\ ~started /\ \E name \in Names : Log(Kmain, BootMessage(name))

(* A panic, or an exception whose handler panics, anywhere outside log.      *)
Panic(c) ==
  /\ Runs(c)
  /\ panicking' = panicking \cup {c}
  /\ Begin(c, PanicMessage)
  /\ UNCHANGED <<termVars, started, terminal, owner>>

Unguarded == TRUE
LockFree == owner = NULL

Lock(c) ==
  /\ pc[c] = "spin"
  /\ LockFree
  /\ owner' = c
  /\ pc' = [pc EXCEPT ![c] = "log"]
  /\ UNCHANGED <<termVars, started, terminal, out, panicking>>

Sending(c) == pc[c] = "log" /\ out[c] # <<>> /\ terminal = "Some"

Draws(byte) == ansi_state = "Ground" /\ byte \notin {Escape, LineFeed} /\ byte < 128

(* put_pixel's index may be out of bounds: that is a panic with the guard   *)
(* still alive.                                                             *)
SendByte(c) ==
  /\ Sending(c)
  /\ IF Draws(Head(out[c])) /\ ~IndexInBounds
     THEN /\ panicking' = panicking \cup {c}
          /\ Begin(c, PanicMessage)
          /\ UNCHANGED termVars
     ELSE /\ RecvByte(Head(out[c]))
          /\ out' = [out EXCEPT ![c] = Tail(@)]
          /\ UNCHANGED <<pc, panicking>>
  /\ UNCHANGED <<terminal, started, owner>>

(* The message is out, or there is no terminal; the guard is dropped, and   *)
(* the panic handler goes on to halt.                                       *)
LogReturns(c) ==
  /\ pc[c] = "log"
  /\ out[c] = <<>> \/ terminal = "None"
  /\ owner' = NULL
  /\ out' = [out EXCEPT ![c] = <<>>]
  /\ pc' = [pc EXCEPT ![c] = IF c \in panicking THEN "halt" ELSE "code"]
  /\ UNCHANGED <<termVars, started, terminal, panicking>>

ConsoleNext ==
  \/ \E found \in BOOLEAN : TerminalInit(found)
  \/ StartCpus
  \/ Greet
  \/ \E c \in Printers :
       \/ Log(c, PlainMessage) \/ Panic(c) \/ Lock(c)
       \/ SendByte(c) \/ LogReturns(c)

ConsoleSpec == ConsoleInit /\ [][ConsoleNext]_allVars

-----------------------------------------------------------------------------
(* Properties *)

Meant(glyph) == CASE glyph = Yellow -> Bright(3) [] glyph = Red -> Bright(1) [] OTHER -> Default

(* A word that is all escape sequences, begun in the given state of the      *)
(* terminal, the last one complete: states[i] is the state after i bytes.    *)
QuietFrom(state, word) ==
  \E states \in [0..Len(word) -> {"Ground", "Escape", "Arg"}] :
    /\ states[0] = state
    /\ states[Len(word)] = "Ground"
    /\ \A i \in 1..Len(word) :
         \/ /\ states[i - 1] = "Ground"
            /\ word[i] = Escape
            /\ states[i] = "Escape"
         \/ /\ states[i - 1] = "Escape"
            /\ states[i] = IF word[i] = Bracket THEN "Arg" ELSE "Ground"
         \/ /\ states[i - 1] = "Arg"
            /\ states[i] = IF word[i] = LetterM THEN "Ground" ELSE "Arg"

(* A name that ended within a sequence would take the reset of the colours   *)
(* behind it for a part of its own.                                          *)
QuietNames == \A name \in Names : name \in Seq(Nat) /\ QuietFrom("Ground", name)

(* Messages printed at once do not mix: what is on the screen has the        *)
(* colours of the message it belongs to, and no byte of an escape sequence   *)
(* is on it, not even when one panics while another one prints; a scroll     *)
(* fills it with the default background.                                     *)
MessagesKeepColours ==
  /\ fill_color = Default
  /\ \A cell \in cells :
       /\ cell.glyph \in {Yellow, Red, Plain}
       /\ cell.fg = Meant(cell.glyph)
       /\ cell.bg = Default

(* Every message leaves the terminal as it found it: outside log it is in    *)
(* no escape sequence and has the default colours.                           *)
TerminalAtRest ==
  owner = NULL => ansi_state = "Ground" /\ colours = <<Default, Default>>

(* The panic handler prints through the lock any log holds: nobody waits for *)
(* the lock it has itself, because no index in log is out of bounds.  This   *)
(* says nothing of the two other ways to panic in there: an exception, for   *)
(* which log would have to touch memory that is not mapped, and the checks   *)
(* for overflow of a debug build.                                            *)
PanicCanPrint ==
  \A c \in Printers : pc[c] = "spin" => owner # c
=============================================================================
