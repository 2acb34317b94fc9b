SPECIFICATION Spec
CONSTANTS
  maxClient = 2
  FdsetIncr <- MCFdsetIncr
  BaseFds <- MCBaseFds
  Peers = 3
  MaxReq = 1
  MaxAccepts = 2
  SyscallsFail = FALSE
PROPERTY
  RefusedOnlyWhenFull
\* A dead process takes no step, an idle one blocks in epoll_wait().
CHECK_DEADLOCK FALSE
