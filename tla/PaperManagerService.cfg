SPECIFICATION FairSpec
CONSTANTS
  Bots = {b1, b2}
  NRuns = 2
  Cap = 1
  Clients = {c1, c2}
  NoBot = NoBot
PROPERTIES
  RequestIsAnswered
  KeepsPromise
