SPECIFICATION FairSpec
CONSTANTS
  c1 = c1
  c2 = c2
  s = s
  p = p
  g = g
  Client = {c1, c2}
  Service = {s}
  Publisher = {p}
  Guard = {g}
  ServiceOf <- Calls
  Reliable = {c1, s, p}
  Guid <- Guids
  LowRange = 2
  Sessions = 2
  Home = 2
  MaxHistory = 2
  MaxStream = 2
  Asked <- Timeouts
  Workload <- Workloads
  WordBits = 12
  IntBits = 5
  MantissaBits = 3
  PerSecond = 10
INVARIANTS
  TypeOK
  NoTriggerLost
  AnswerTrue
  WaitInTime
  PublishTrue
  ReplyToItsRequest
  NeitherLostNorDoubled
PROPERTY
  TriggerReported
  RequestAnswered
