\* A group of two is renamed and retired in a cycle with two registers to
\* spare; one checkpoint is enough for a branch to be mispredicted.
CONSTANTS
  PHY_REG_NUM = 3
  ARCH_REG_NUM = 2
  ROB_SIZE = 2
  CHECKPOINT_BUFFER_SIZE = 1
  FRONT_SIZE = 2
  FETCH_WIDTH = 1
  RENAME_WIDTH = 2
  WB_WIDTH = 1
  COMMIT_WIDTH = 2
  Kind = {"plain", "miss"}
SPECIFICATION Spec
INVARIANT RequestsLegal
PROPERTY ImplementsRenaming
