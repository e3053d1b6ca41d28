SPECIFICATION FairSpec
CONSTANTS
  Clients = {c1, c2}
  QueueCap = 1
  MaxCommands = 3
INVARIANTS
  AnswersAreTheirs
PROPERTIES
  EveryCommandShows
  RequestsEnd
CHECK_DEADLOCK FALSE
