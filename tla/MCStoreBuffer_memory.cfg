\* Loads, stores that overlap them in both ways, and instructions that fail or
\* turn out mispredicted between them.
CONSTANTS
  ROB_SIZE = 3
  STORE_BUFFER_SIZE = 2
  COMMIT_WIDTH = 2
  Addr <- MCAddr
  Byte <- MCByte
  Op <- MCOp
  Image <- MCImage
SPECIFICATION Spec
INVARIANT UncommittedAreLive
PROPERTY ImplementsSequentialMemory
