------------------------------ MODULE MCPacket ------------------------------
(* Two threads that share packets of two bytes.                            *)
EXTENDS Packet, TLC

CONSTANTS t1, t2

TwoAndOne == t1 :> 2 @@ t2 :> 1
Symmetry == Permutations(Packets)
=============================================================================
