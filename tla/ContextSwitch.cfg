SPECIFICATION SwitchSpec
CONSTANTS
  Threads = {1, 2}
  Top = 26
  Depths = {0, 1, 3}
INVARIANTS ResumesExactly HandlerAligned
