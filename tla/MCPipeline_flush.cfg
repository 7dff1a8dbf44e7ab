\* All kinds of instructions; two checkpoints, so that slots left behind by a
\* walk back meet the branches fetched after it.
CONSTANTS
  PHY_REG_NUM = 2
  ARCH_REG_NUM = 2
  ROB_SIZE = 2
  CHECKPOINT_BUFFER_SIZE = 2
  FRONT_SIZE = 1
  FETCH_WIDTH = 1
  RENAME_WIDTH = 1
  WB_WIDTH = 1
  COMMIT_WIDTH = 2
  Kind = {"plain", "jump", "hit", "miss"}
SPECIFICATION Spec
INVARIANTS RestoreAsserts LiveCheckpointsIntact OneAnswerPerEntry JumpWaitHasBranch
PROPERTY OnlyTheRightPathRetires
