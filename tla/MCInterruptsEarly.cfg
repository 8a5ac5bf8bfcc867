CONSTANTS
  BootMask <- AllMasked
  Devices <- Timers
  Glitches = FALSE
  EarlyKeys = TRUE
SPECIFICATION FairSpec
PROPERTY KeyRead
