\* Interrupts of two causes at any time; a fence.i that more than one store may
\* be in front of; a reorder buffer that can hold what a walk back has to undo.
CONSTANTS
  Program <- MCProgram
  Boot <- MCBoot
  Causes = {1, 3}
  ROB_SIZE = 5
  STORE_BUFFER_SIZE = 2
  FIFO_SIZE = 2
  WIDTH = 2
SPECIFICATION FairSpec
INVARIANTS TypeOK FenceIAlone
PROPERTIES ImplementsHart FetchNeverStuck InterruptTaken
