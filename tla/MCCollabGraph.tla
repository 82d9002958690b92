---------------------------- MODULE MCCollabGraph ----------------------------
(* CollabGraph with few clients.                                           *)
EXTENDS CollabGraph
=============================================================================
