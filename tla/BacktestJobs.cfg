SPECIFICATION FairSpec
CONSTANTS
  Clients = {c1, c2}
  MaxTickets = 2
  MaxIds = 2
  MaxRestarts = 1
INVARIANTS
  TypeOK
  OneReplayAtATime
  JobTellsTheTruth
PROPERTIES
  PollsGoForward
  BusyEnds
CHECK_DEADLOCK FALSE
