CONSTANTS
  Files <- MCFiles
  Size = 12
  SECTOR = 4
  WRITE_CHUNK = 4
  MaxClicks = 2
  MaxFaults = 2
SPECIFICATION Spec
INVARIANTS DoneIsFlashed SoundFilesFlash
PROPERTIES OthersKept FlashEnds
CHECK_DEADLOCK FALSE
