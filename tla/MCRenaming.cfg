\* Three reorder buffer entries and two spare registers: the buffer can be
\* longer than the free list, and a register can be renamed twice over.
CONSTANTS
  PHY_REG_NUM = 4
  ARCH_REG_NUM = 3
  ROB_SIZE = 3
SPECIFICATION Spec
INVARIANTS TypeOK RatAssertsHold NoRegisterLeak PreciseWhenEmpty RestoredStateIsReal
PROPERTY CommittedChangesInOrder
CHECK_DEADLOCK TRUE
