---------------------------- MODULE MCSharedRing ----------------------------
(* One producer and one or two consumers on a ring of a few bytes.         *)
EXTENDS SharedRing
=============================================================================
