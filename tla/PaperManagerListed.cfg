SPECIFICATION Spec
CONSTANTS
  Bots = {b1, b2, b3}
  NRuns = 3
  Cap = 2
  Clients = {c1, c2}
  NoBot = NoBot
SYMMETRY Interchangeable
INVARIANT
  ListedOncePerBot
