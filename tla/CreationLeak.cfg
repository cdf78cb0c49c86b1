SPECIFICATION Spec
CONSTANTS
  MaxOf <- SubscriptionPools
  FailPoints = {"topic"}
INVARIANT
  CreationAvailable
