---------------------------- MODULE MCAgentPool ----------------------------
(* Small instance of AgentPool: one workspace, one client of each kind. *)
EXTENDS AgentPool

MCKeys == {"workspace"}
MCClients == {"page", "app"}
MCRelays == {"app"}
=============================================================================
