SPECIFICATION Spec
CONSTANTS
  Context = {c1}
  MaxSessions = 1
  MaxNodes = 1
  GraphMessage <- Messages
  CarefulApp = FALSE
  MaxParticipant = 2
INVARIANT
  PingTrue
