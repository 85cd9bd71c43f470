----------------------------- MODULE RingLayout -----------------------------
(***************************************************************************)
(* Where lib/libshared/CycleBuffer.h puts a message in the ring.  A record *)
(* is a two-byte header with the length of the message, then its bytes; a  *)
(* header that would start on the last byte of the segment moves to offset *)
(* 0, and bytes that would reach the end move to offset 0 behind a header  *)
(* that stays where it is.  No variable: CycleBuffer and SharedRing share  *)
(* these definitions.                                                      *)
(***************************************************************************)
EXTENDS Integers

CONSTANTS Size,      \* _desc->size, the bytes of the ring
          MaxLen     \* the longest message: at most 65535, its length is a uint16_t

ASSUME SizeAssumption == Size \in Nat \ {0}
ASSUME LenAssumption  == MaxLen \in Nat /\ MaxLen <= 65535

Offsets == 0 .. Size - 1
Lengths == 0 .. MaxLen

(* The two bytes of a header.  A uint16_t is read back from memory as it   *)
(* was written only if both its bytes are still there.                     *)
HeaderByte(i, n) == [half |-> i, len |-> n]
HeaderBytes == [half : {1, 2}, len : Lengths]
Blank == [blank |-> TRUE]    \* a byte of the segment nobody has written

HeaderIs(memory, p, n) == /\ memory[p] = HeaderByte(1, n)
                          /\ memory[p + 1] = HeaderByte(2, n)

(* The lengths a reader may get out of the two bytes at p.                 *)
HeaderValues(memory, p) ==
    IF \E n \in Lengths : HeaderIs(memory, p, n)
    THEN {n \in Lengths : HeaderIs(memory, p, n)}
    ELSE Lengths

(* Where a record that begins at p has its header and its n bytes, and     *)
(* where the next record begins: computed alike by write1 and read1.       *)
HeaderPos(p) == IF p = Size - 1 THEN 0 ELSE p
DataPos(p, n) == IF p = Size - 1 THEN 2
                 ELSE IF p + 2 + n >= Size THEN 0 ELSE p + 2
EndPos(p, n) == DataPos(p, n) + n

------------------------------------------------------------------------------
(* Regions of the ring.                                                    *)

(* Bytes of the segment between tail and head, in ring order.              *)
Used(h, t) == IF t <= h THEN t .. h - 1 ELSE (t .. Size - 1) \cup (0 .. h - 1)

(* The bytes the record of a message of n bytes that begins at p occupies. *)
Footprint(p, n) == (HeaderPos(p) .. HeaderPos(p) + 1)
                   \cup (DataPos(p, n) .. EndPos(p, n) - 1)

(* How far offset p lies ahead of the tail.                                *)
Ahead(t, p) == IF p >= t THEN p - t ELSE Size - t + p
=============================================================================
