SPECIFICATION Spec
CONSTANTS
  maxClient = 2
  FdsetIncr <- MCFdsetIncr
  BaseFds <- MCBaseFds
  Peers = 3
  MaxReq = 2
  MaxAccepts = 2
  SyscallsFail = TRUE
INVARIANTS
  TypeOK
  PointersLive
  RepliesScheduled
  EventsInSync
  NoStaleEvent
  ClientLimit
\* A dead process takes no step, an idle one blocks in epoll_wait().
CHECK_DEADLOCK FALSE
