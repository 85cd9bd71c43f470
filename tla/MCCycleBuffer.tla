--------------------------- MODULE MCCycleBuffer ---------------------------
(* A ring of a few bytes: messages of every length up to MaxLen, each of   *)
(* one repeated byte, so that two messages never look alike by chance.     *)
EXTENDS CycleBuffer

MCMessages == UNION {{[i \in 1 .. n |-> b] : b \in Byte} : n \in 0 .. MaxLen}
=============================================================================
