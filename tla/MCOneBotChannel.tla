--------------------------- MODULE MCOneBotChannel ---------------------------
(* OneBotChannel with two deliveries, of one message or two, over two       *)
(* connections, one slot and one claim, and replies of up to two chunks.    *)
EXTENDS OneBotChannel, TLC
=============================================================================
