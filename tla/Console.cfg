SPECIFICATION ConsoleSpec
CONSTANTS
  WIDTH = 20
  HEIGHT = 30
  PITCH = 84
  MaxArgs = 2
  USIZE = 128
  Printers = {kmain, p1, p2}
  Kmain = kmain
  Names <- MCNames
  ArgBytes = {48, 49, 51, 59, 65}
  MaxText = 4
  NULL = NULL
INVARIANTS MessagesKeepColours TerminalAtRest PanicCanPrint CursorCellBlank ParsedArgs
CHECK_DEADLOCK FALSE
