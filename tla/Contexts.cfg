SPECIFICATION Spec
CONSTANTS
  Context = {c1, c2}
  MaxSessions = 2
  MaxNodes = 2
  GraphMessage <- Messages
  CarefulApp = TRUE
  MaxParticipant = 3
SYMMETRY ContextSymmetry
INVARIANTS
  TypeOK
  SlotsAccounted
  NodesHaveSession
  LiveOnAgent
  GraphOfThisSession
  ChangeNotMissed
  QueriesAgree
  PingTrue
PROPERTY
  ContextsApart
