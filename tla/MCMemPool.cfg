SPECIFICATION Spec
CONSTANTS
  Size = 4
  HeapSize = 1
INVARIANTS
  TypeOK
  ListsThreaded
  DynamicMarked
  RanksExist
  NoItemLost
PROPERTIES
  ImplementsAllocator
  ImplementsStack
