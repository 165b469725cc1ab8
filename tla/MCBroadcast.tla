---------------------------- MODULE MCBroadcast ----------------------------
(* Small instance of Broadcast: one card, one handler beside the timer. *)
EXTENDS Broadcast

MCHandlers == {"handler"}
MCCards == {"card"}
=============================================================================
