\* All kinds of instructions; one checkpoint, which one walk back can leak.
CONSTANTS
  PHY_REG_NUM = 2
  ARCH_REG_NUM = 2
  ROB_SIZE = 2
  CHECKPOINT_BUFFER_SIZE = 1
  FRONT_SIZE = 1
  FETCH_WIDTH = 1
  RENAME_WIDTH = 1
  WB_WIDTH = 1
  COMMIT_WIDTH = 2
  Kind = {"plain", "jump", "hit", "miss"}
SPECIFICATION FairSpec
PROPERTIES HeadLeaves FlushEnds JumpWaitEnds
