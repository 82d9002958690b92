---------------------------- MODULE MCRefreshToken ----------------------------
(* RefreshToken with two tabs and three calls in few ticks.                *)
EXTENDS RefreshToken
=============================================================================
