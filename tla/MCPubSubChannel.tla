---------------------------- MODULE MCPubSubChannel ----------------------------
(* PubSubChannel with a queue of two, to be filled by few messages.        *)
EXTENDS PubSubChannel
=============================================================================
