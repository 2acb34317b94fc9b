---------------------------- MODULE MCReplyBuffer ----------------------------
(* A client whose chunk holds 3 bytes: replies of 1, 2 and 5 bytes fill    *)
(* the fixed buffer, top up a block, split over two and need one larger    *)
(* than a chunk; a flush stops after 4 bytes and the socket holds 6.       *)
EXTENDS ReplyBuffer

MCReplyLens == {1, 2, 5}
MCSlacks == {0, 1}
=============================================================================
