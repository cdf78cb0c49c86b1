SPECIFICATION Spec
CONSTANTS
  MaxOf <- SmallPools
  FailPoints = {"participant"}
INVARIANTS
  TypeOK
  NoSlotLost
  HandlesAlive
  CreationAvailable
PROPERTIES
  OthersSurvive
  ImplementsRegistry
