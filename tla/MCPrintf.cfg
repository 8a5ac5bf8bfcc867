SPECIFICATION Spec
CONSTANTS
  Directives <- MCDirectives
  Ints <- MCInts
  Longs <- MCLongs
  Texts <- MCTexts
  Counts = {0, 1, 6}
  Cells = 8
  CharBits = 3
  ShortBits = 4
  IntBits = 6
  LongBits = 8
  PRINTF_NTOA_BUFFER_SIZE = 6
INVARIANTS TypeOK FormatsAsC Truncated
CHECK_DEADLOCK FALSE
