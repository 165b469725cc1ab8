-------------------------- MODULE MCSessionMirror --------------------------
(* Small instance of SessionMirror: a session and the child it delegates to. *)
EXTENDS SessionMirror

MCThreads == {"main", "child"}
MCChildren == {"child"}
MCParentOf == [c \in {"child"} |-> "main"]
MCSyncers == {"timer", "drain"}
MCMortal == {"drain"}
=============================================================================
