SPECIFICATION Spec
CONSTANTS
  MaxOf <- FailurePools
  FailPoints = {"participant", "typesupport", "topic"}
INVARIANTS
  SlotExclusive
  TopicsOwned
  NoOrphan
