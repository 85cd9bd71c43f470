--------------------------- MODULE MCSharedServer ---------------------------
(* A server with two connections at a time.                                *)
EXTENDS SharedServer
=============================================================================
