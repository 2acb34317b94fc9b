SPECIFICATION Spec
CONSTANTS
  ChunkBytes = 3
  MaxWrites = 4
  ReplyLens <- MCReplyLens
  Slacks <- MCSlacks
  SndBuf = 6
  MaxProduced = 9
PROPERTY
  SlowPeerKept
CHECK_DEADLOCK FALSE
