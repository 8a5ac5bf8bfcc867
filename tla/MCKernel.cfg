SPECIFICATION FairKernel
CONSTANTS
  BootMask <- ClockOpen
  Devices <- Clock
  Glitches = TRUE
  EarlyKeys = FALSE
  Keys <- TwoKeys
  BootKeys <- TwoKeys
  Repeating <- TwoKeys
  MaxHeld = 2
  FifoSize = 3
  Overrun = TRUE
  Width = 2
  TabStop = 2
PROPERTIES DecodesOnce AllRead
