SPECIFICATION Spec
CONSTANTS
  Size = 1
  HeapSize = 1
INVARIANT
  AnswerHasElement
CHECK_DEADLOCK FALSE
