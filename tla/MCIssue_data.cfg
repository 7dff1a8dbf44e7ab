\* Operands from the file and from both feedbacks, with exceptions and flushes.
SPECIFICATION Spec
CONSTANTS
  x = x
  y = y
  Arch = {x, y}
  PHY_REG_NUM = 4
  ROB_SIZE = 4
  ISSUE_QUEUE_SIZE = 2
  STORE_BUFFER_SIZE = 1
  RENAME_WIDTH = 2
  ISSUE_WIDTH = 2
  COMMIT_WIDTH = 2
  ALU_UNIT_NUM = 2
  Inst <- DataInst
  Raising = {"csr"}
INVARIANTS
  NoMissedResult
  OperandsRight
