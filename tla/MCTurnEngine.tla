---------------------------- MODULE MCTurnEngine ----------------------------
(* Small instance of TurnEngine: one tool the catalog does not know, one     *)
(* that reads, one that ends the turn and is long-running.                   *)
EXTENDS TurnEngine

MCTools == {"ghost", "read", "ask"}
MCRegistered == {"read", "ask"}
MCEndTurn == {"ask"}
MCLongRunning == {"ask"}
=============================================================================
