CONSTANTS
  h1 = h1
  h2 = h2
  a = a
  b = b
  alien = alien
  Free = Free
  Hosts <- Both
  SetHosts <- Both
  ProfileHosts <- Second
  RebootHosts <- First
  Chunks <- ChunkSet
  BufLen = 2
  MaxLen = 3
  ProfileData <- TwoProfiles
  DefaultTopology <- DefaultTopo
  DefaultProfile <- AllAllowed
  MaxOps = 2
  MaxBoots = 1
SPECIFICATION Spec
INVARIANTS AckedIsStored RamProfileIsFlash
PROPERTIES CommittedBoots EveryCommandAnswered
CHECK_DEADLOCK FALSE
