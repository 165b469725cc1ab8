---------------------------- MODULE MCThreadLoop ----------------------------
(* Small instance of ThreadLoop: one connection beside the loops.             *)
EXTENDS ThreadLoop

CONSTANT desktop

MCClients == {desktop}
=============================================================================
