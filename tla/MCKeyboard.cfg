SPECIFICATION Spec
CONSTANTS
  Keys <- EditKeys
  BootKeys <- DownAtBoot
  Repeating <- EditKeys
  MaxHeld = 2
  FifoSize = 2
  Overrun = TRUE
  Width = 3
  TabStop = 2
INVARIANTS TypeOK ShiftFollows LockFollows ErasedBeyond
PROPERTY TypesAsStruck
