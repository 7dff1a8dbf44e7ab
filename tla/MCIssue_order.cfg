\* Who waits for whom: alone, fences, loads and stores, a buffer of one store.
SPECIFICATION Spec
CONSTANTS
  x = x
  y = y
  Arch = {x}
  PHY_REG_NUM = 2
  ROB_SIZE = 3
  ISSUE_QUEUE_SIZE = 3
  STORE_BUFFER_SIZE = 1
  RENAME_WIDTH = 3
  ISSUE_WIDTH = 2
  COMMIT_WIDTH = 2
  ALU_UNIT_NUM = 1
  Inst <- OrderInst
  Raising = {"store"}
INVARIANTS
  NothingLostOrDoubled
  AloneInTheMachine
  FenceOrders
  MemoryInOrder
