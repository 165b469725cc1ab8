--------------------------- MODULE MCModelStream ---------------------------
(* ModelStream as it is: its constants are numbers. *)
EXTENDS ModelStream
=============================================================================
