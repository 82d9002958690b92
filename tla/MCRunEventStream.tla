---------------------------- MODULE MCRunEventStream ----------------------------
(* Model-checking instance of RunEventStream.  Bounds: MaxLen events, two  *)
(* or more pages of them, and MaxDrops broken connections.                 *)
EXTENDS RunEventStream
=============================================================================
