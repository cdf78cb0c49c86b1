SPECIFICATION Spec
CONSTANTS
  MaxOf <- TwoSubscriptions
  MaxHistory = 2
  Session = {1, 2}
  MaxCreated <- OneEach
  MaxSent = 1
INVARIANT
  AddresseeOwns
CHECK_DEADLOCK FALSE
