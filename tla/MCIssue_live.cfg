\* Nothing waits for ever, with the least room everywhere.
SPECIFICATION FairSpec
CONSTANTS
  x = x
  y = y
  Arch = {x}
  PHY_REG_NUM = 3
  ROB_SIZE = 2
  ISSUE_QUEUE_SIZE = 1
  STORE_BUFFER_SIZE = 1
  RENAME_WIDTH = 2
  ISSUE_WIDTH = 2
  COMMIT_WIDTH = 2
  ALU_UNIT_NUM = 1
  Inst <- WaitInst
  Raising = {"csr", "store"}
PROPERTIES
  EveryInstructionFinishes
  StallEnds
