SPECIFICATION Spec
CONSTANTS
  MaxOf <- MixedReaders
  MaxHistory = 2
  Session = {1}
  MaxCreated <- ReusedSlots
  MaxSent = 3
INVARIANTS
  TypeOK
  DeliveredOnce
  AddresseeOwns
  WouldReach
  NotFromSuccessor
PROPERTIES
  OthersWait
CHECK_DEADLOCK FALSE
