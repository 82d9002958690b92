--------------------------- MODULE MCCollabSession ---------------------------
(* CollabSession with few sockets.                                         *)
EXTENDS CollabSession
=============================================================================
