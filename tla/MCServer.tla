------------------------------ MODULE MCServer ------------------------------
(* Two clients fill the server and a third peer is refused or takes the    *)
(* place, and the descriptor, of one that left.  Descriptors 0 and 1 stand *)
(* for the log, the epoll instance and the listening socket; the reserve   *)
(* of event-loop entries is exactly as large as they are.                  *)
EXTENDS Server

MCBaseFds == 2
MCFdsetIncr == MCBaseFds
=============================================================================
