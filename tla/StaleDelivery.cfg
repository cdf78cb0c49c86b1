SPECIFICATION Spec
CONSTANTS
  MaxOf <- OneSubscription
  MaxHistory = 2
  Session = {1}
  MaxCreated <- ReusedSlots
  MaxSent = 1
INVARIANT
  RightReader
CHECK_DEADLOCK FALSE
