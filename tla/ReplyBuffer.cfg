SPECIFICATION FairSpec
CONSTANTS
  ChunkBytes = 3
  MaxWrites = 4
  ReplyLens <- MCReplyLens
  Slacks <- MCSlacks
  SndBuf = 6
  MaxProduced = 9
INVARIANTS
  TypeOK
  WireInOrder
  NoOverflow
  ReplyBytesExact
  ScheduledOnce
PROPERTIES
  Flushed
  StreamSpec
\* A freed client and a dead process take no step.
CHECK_DEADLOCK FALSE
