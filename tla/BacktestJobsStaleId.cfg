SPECIFICATION Spec
CONSTANTS
  Clients = {c1, c2}
  MaxTickets = 2
  MaxIds = 2
  MaxRestarts = 1
INVARIANTS
  PollAnswersOwnJob
CHECK_DEADLOCK FALSE
