--------------------------- MODULE MCPluginEvents ---------------------------
(* Small instance of PluginEvents: a plugin that may refuse and one that     *)
(* only listens, two tool calls at once, two requests. Neither the calls nor *)
(* the requests are told apart by anything but their own entries.            *)
EXTENDS PluginEvents, TLC

CONSTANTS call1, call2, toggle1, toggle2

MCCalls == {call1, call2}
MCRequests == {toggle1, toggle2}
MCOrder == <<"guard", "audit">>
MCListens == [p \in {"guard", "audit"} |-> {"before"}]
MCDeniers == {"guard"}
MCSymmetry == Permutations(MCCalls) \cup Permutations(MCRequests)
=============================================================================
