SPECIFICATION Spec
CONSTANTS
  MaxOf <- ServicePools
  FailPoints = {"replier"}
INVARIANT
  SlotExclusive
