SPECIFICATION FairSpec
CONSTANTS
  Launches <- MCLaunches
  Avatars <- MCAvatars
  Sheet <- MCSheet
  Tree <- Plain
  Packets <- MCPackets
  Weights <- MCWeights
  Gazes <- MCGazes
  Watched <- MCWatched
  Fresh = 1
  Watchdog = 1
  Rescan = 2
  Blink = 2
INVARIANTS
  SilenceIsNeutral
PROPERTIES
  MirroredFaces
  AvatarIsCurrent
  CommandLineWins
  Recovers
CHECK_DEADLOCK FALSE
