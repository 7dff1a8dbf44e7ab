CONSTANTS
  ROB_SIZE = 3
  STORE_BUFFER_SIZE = 2
  COMMIT_WIDTH = 2
  Addr <- MCAddr
  Byte <- MCByte
  Op <- MCOpLive
  Image <- MCImage
SPECIFICATION FairSpec
PROPERTIES HeldStoreProceeds RetiredStoreDrains
