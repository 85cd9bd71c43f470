-------------------------- MODULE CycleBufferProofs --------------------------
(***************************************************************************)
(* Proofs about the ring of CycleBuffer for every size, every bound on the *)
(* length of a message and every set of messages.                          *)
(*                                                                         *)
(* The argument: the distance from tail grows strictly along the chain of  *)
(* records and up to head (Order), so a record that fits behind head lies  *)
(* in the free part of the ring and disturbs none that is still unread.    *)
(***************************************************************************)
EXTENDS CycleBuffer, SequenceTheorems, WellFoundedInduction, TLAPS

(* A record either stays clear of the end of the segment or ends before    *)
(* the place it begins.                                                    *)
Fits(p, n) == p + 2 + n < Size \/ EndPos(p, n) < p

Pos(i) == pending[i].pos
Bytes(i) == Len(pending[i].msg)

(* The chain of records, from tail to head.                                *)
Links == /\ pending = << >> => tail = head
         /\ pending # << >> => pending[1].pos = tail
         /\ \A i \in 1 .. Len(pending) :
               /\ EndPos(Pos(i), Bytes(i)) = PosAfter(i)
               /\ Fits(Pos(i), Bytes(i))

(* The records lie in ring order, all of them before head.                 *)
Order == /\ \A i \in 1 .. Len(pending) : Ahead(tail, Pos(i)) < Ahead(tail, head)
         /\ \A i, j \in 1 .. Len(pending) :
               i < j => Ahead(tail, Pos(i)) < Ahead(tail, Pos(j))

IInv == TypeOK /\ Links /\ Order /\ Intact

------------------------------------------------------------------------------
(* Where a record lies relative to tail and head, for every size: linear   *)
(* arithmetic.                                                             *)

(* A record that ends further ahead of tail than it begins lies wholly     *)
(* between tail and its end.                                               *)
LEMMA FootprintInArc ==
    ASSUME NEW t \in Offsets, NEW p \in Offsets, NEW n \in Nat,
           EndPos(p, n) \in Offsets, Fits(p, n),
           Ahead(t, p) < Ahead(t, EndPos(p, n))
    PROVE  Footprint(p, n) \subseteq Used(EndPos(p, n), t)
  BY SizeAssumption
  DEF Offsets, Fits, EndPos, DataPos, HeaderPos, Footprint, Used, Ahead

(* Bytes between tail and a nearer end are between tail and a further one. *)
LEMMA ArcGrows ==
    ASSUME NEW t \in Offsets, NEW e \in Offsets, NEW h \in Offsets,
           Ahead(t, e) <= Ahead(t, h)
    PROVE  Used(e, t) \subseteq Used(h, t)
  BY SizeAssumption DEF Offsets, Used, Ahead

(* Two offsets ahead of tail keep their order when tail moves up to the    *)
(* nearer of them.                                                         *)
LEMMA OrderSurvives ==
    ASSUME NEW t \in Offsets, NEW u \in Offsets, NEW p \in Offsets, NEW e \in Offsets,
           Ahead(t, u) <= Ahead(t, p), Ahead(t, p) < Ahead(t, e)
    PROVE  Ahead(u, p) < Ahead(u, e)
  BY SizeAssumption DEF Offsets, Ahead

(* A header that is whole gives the reader one length, the right one.      *)
LEMMA OneLength ==
    ASSUME NEW m, NEW p, NEW n \in Lengths, HeaderIs(m, p, n)
    PROVE  HeaderValues(m, p) = {n}
<1>1. \A k \in Lengths : HeaderIs(m, p, k) => k = n
  BY DEF HeaderIs, HeaderByte
<1>2. {k \in Lengths : HeaderIs(m, p, k)} = {n}
  BY <1>1
<1>3. QED
  BY <1>2 DEF HeaderValues

(* What the tests of write1 and read1 are good for.                        *)

(* What write1 accepts moves head further ahead of tail, and stays inside  *)
(* the ring.                                                               *)
LEMMA RoomAdvances ==
    ASSUME NEW h \in Offsets, NEW t \in Offsets, NEW n \in Nat,
           ~NoRoom(h, t, n)
    PROVE  /\ EndPos(h, n) \in Offsets
           /\ Fits(h, n)
           /\ Ahead(t, h) < Ahead(t, EndPos(h, n))
  BY SizeAssumption DEF Offsets, NoRoom, Fits, EndPos, DataPos, Ahead

(* What write1 accepts is written outside the part that is in use.         *)
LEMMA RoomIsFree ==
    ASSUME NEW h \in Offsets, NEW t \in Offsets, NEW n \in Nat,
           ~NoRoom(h, t, n)
    PROVE  Footprint(h, n) \cap Used(h, t) = {}
  BY SizeAssumption
  DEF Offsets, NoRoom, EndPos, DataPos, HeaderPos, Footprint, Used

(* The ring is empty for read1 exactly when tail has caught up with head,  *)
(* given that a record in it ends beyond where it begins.                  *)
LEMMA NoRecordMeansEmpty ==
    ASSUME NEW h \in Offsets, NEW t \in Offsets, NEW n \in Nat,
           EndPos(t, n) \in Offsets, Fits(t, n), 0 < Ahead(t, EndPos(t, n)),
           Ahead(t, EndPos(t, n)) <= Ahead(t, h)
    PROVE  ~NoRecord(h, t)
  BY SizeAssumption DEF Offsets, Fits, EndPos, DataPos, Ahead, NoRecord

------------------------------------------------------------------------------
(* Facts about one call in a state that satisfies IInv.                    *)

LEMMA RecordType ==
    ASSUME TypeOK, NEW i \in 1 .. Len(pending)
    PROVE  /\ pending[i] \in [pos : Offsets, msg : Messages]
           /\ Pos(i) \in Offsets
           /\ pending[i].msg \in Seq(Byte)
           /\ Bytes(i) \in Nat /\ Bytes(i) <= MaxLen
<1>1. pending[i] \in [pos : Offsets, msg : Messages]
  BY ElementOfSeq DEF TypeOK
<1>2. QED
  BY <1>1, MessagesAssumption DEF Pos, Bytes

LEMMA DomainIsRange ==
    ASSUME TypeOK
    PROVE  DOMAIN pending = 1 .. Len(pending) /\ Len(pending) \in Nat
  BY DEF TypeOK

(* The header of the oldest record is read back as it was written, so      *)
(* read1 finds the one length that is right.                               *)
LEMMA HeaderIsRead ==
    ASSUME IInv, pending # << >>
    PROVE  HeaderValues(mem, HeaderPos(tail)) = {Len(pending[1].msg)}
<1>0. 1 \in 1 .. Len(pending)
  BY DEF IInv, TypeOK
<1>1. 1 \in DOMAIN pending /\ pending[1].msg \in Messages /\ pending[1].pos = tail
  BY <1>0, RecordType, DomainIsRange DEF IInv, Links
<1>2. Len(pending[1].msg) \in Lengths
  BY <1>0, RecordType, LenAssumption DEF IInv, Bytes, Lengths
<1>3. HeaderIs(mem, HeaderPos(tail), Len(pending[1].msg))
  BY <1>1 DEF IInv, Intact
<1>4. QED
  BY <1>2, <1>3, OneLength

(* A pending record lies in the part of the ring that is in use, and its   *)
(* successor is no further than head.                                      *)
LEMMA RecordInUse ==
    ASSUME IInv, NEW i \in 1 .. Len(pending)
    PROVE  /\ PosAfter(i) \in Offsets
           /\ Ahead(tail, Pos(i)) < Ahead(tail, PosAfter(i))
           /\ Ahead(tail, PosAfter(i)) <= Ahead(tail, head)
           /\ Footprint(Pos(i), Bytes(i)) \subseteq Used(head, tail)
           /\ Footprint(Pos(i), Bytes(i)) \subseteq Offsets
<1>1. Pos(i) \in Offsets /\ Bytes(i) \in Nat
  BY RecordType DEF IInv
<1>2. head \in Offsets /\ tail \in Offsets /\ Len(pending) \in Nat
  BY DEF IInv, TypeOK
<1>3. /\ PosAfter(i) \in Offsets
      /\ Ahead(tail, Pos(i)) < Ahead(tail, PosAfter(i))
      /\ Ahead(tail, PosAfter(i)) <= Ahead(tail, head)
  <2>1. CASE i = Len(pending)
    <3>1. PosAfter(i) = head
      BY <2>1 DEF PosAfter
    <3>2. Ahead(tail, Pos(i)) < Ahead(tail, head)
      BY DEF IInv, Order
    <3>3. QED
      BY <3>1, <3>2, <1>2, SizeAssumption DEF Ahead, Offsets
  <2>2. CASE i # Len(pending)
    <3>1. i + 1 \in 1 .. Len(pending) /\ i < i + 1
      BY <2>2, <1>2
    <3>2. PosAfter(i) = Pos(i + 1)
      BY <2>2 DEF PosAfter, Pos
    <3>3. Ahead(tail, Pos(i)) < Ahead(tail, Pos(i + 1)) /\ Ahead(tail, Pos(i + 1)) < Ahead(tail, head)
      BY <3>1 DEF IInv, Order
    <3>4. Pos(i + 1) \in Offsets
      BY <3>1, RecordType DEF IInv
    <3>5. QED
      BY <3>2, <3>3, <3>4, <1>2, SizeAssumption DEF Ahead, Offsets
  <2>3. QED
    BY <2>1, <2>2
<1>4. EndPos(Pos(i), Bytes(i)) = PosAfter(i) /\ Fits(Pos(i), Bytes(i))
  BY DEF IInv, Links
<1>5. Footprint(Pos(i), Bytes(i)) \subseteq Used(PosAfter(i), tail)
  BY <1>1, <1>2, <1>3, <1>4, FootprintInArc
<1>6. Used(PosAfter(i), tail) \subseteq Used(head, tail)
  BY <1>2, <1>3, ArcGrows
<1>7. Used(head, tail) \subseteq Offsets
  BY <1>2, SizeAssumption DEF Used, Offsets
<1>8. QED
  BY <1>3, <1>5, <1>6, <1>7

(* read1 finds the ring empty exactly when nothing is pending.             *)
LEMMA EmptyAgrees ==
    ASSUME IInv
    PROVE  NoRecord(head, tail) <=> pending = << >>
<1>1. CASE pending = << >>
  BY <1>1, SizeAssumption DEF IInv, TypeOK, Links, NoRecord, Offsets
<1>2. CASE pending # << >>
  <2>1. 1 \in 1 .. Len(pending) /\ Len(pending) \in Nat
    BY <1>2 DEF IInv, TypeOK
  <2> DEFINE n == Bytes(1)
  <2>2. n \in Nat
    BY <2>1, RecordType DEF IInv
  <2>3. EndPos(tail, n) = PosAfter(1) /\ Fits(tail, n)
    BY <1>2, <2>1 DEF IInv, Links, Pos
  <2>4. /\ PosAfter(1) \in Offsets
        /\ Ahead(tail, tail) < Ahead(tail, PosAfter(1))
        /\ Ahead(tail, PosAfter(1)) <= Ahead(tail, head)
    BY <1>2, <2>1, RecordInUse DEF IInv, Links, Pos
  <2>5. 0 < Ahead(tail, EndPos(tail, n))
    BY <2>3, <2>4, SizeAssumption DEF IInv, TypeOK, Ahead, Offsets
  <2>6. ~NoRecord(head, tail)
    BY <2>2, <2>3, <2>4, <2>5, NoRecordMeansEmpty DEF IInv, TypeOK
  <2>7. QED
    BY <1>2, <2>6
<1>3. QED
  BY <1>1, <1>2

------------------------------------------------------------------------------
(* write1 preserves the invariant.                                         *)

(* The segment after a record has been written: the record, and everything *)
(* outside it as before.                                                   *)
LEMMA RecordWritten ==
    ASSUME NEW p \in Offsets, NEW m \in Seq(Byte), NEW memory,
           EndPos(p, Len(m)) \in Offsets, Fits(p, Len(m))
    PROVE  /\ DOMAIN WithRecord(memory, p, m) = Offsets
           /\ HeaderIs(WithRecord(memory, p, m), HeaderPos(p), Len(m))
           /\ \A k \in 1 .. Len(m) :
                 WithRecord(memory, p, m)[DataPos(p, Len(m)) + k - 1] = m[k]
           /\ \A a \in Offsets \ Footprint(p, Len(m)) :
                 WithRecord(memory, p, m)[a] = memory[a]
<1> DEFINE n == Len(m)
           d == DataPos(p, n)
           h == HeaderPos(p)
<1>1. n \in Nat
  OBVIOUS
<1>2. /\ h \in Offsets /\ h + 1 \in Offsets
      /\ d \in Nat
      /\ d + n \in Offsets
      /\ h \notin d .. (d + n - 1) /\ h + 1 \notin d .. (d + n - 1)
  BY <1>1, SizeAssumption DEF Offsets, Fits, EndPos, DataPos, HeaderPos
<1>3. EndPos(p, n) = d + n
  BY DEF EndPos
<1>4. /\ DOMAIN WithRecord(memory, p, m) = Offsets
      /\ \A a \in Offsets :
           WithRecord(memory, p, m)[a] =
              IF a \in d .. (d + n - 1) THEN m[a - d + 1]
              ELSE IF a = h THEN HeaderByte(1, n)
              ELSE IF a = h + 1 THEN HeaderByte(2, n)
              ELSE memory[a]
  BY <1>1, <1>2, <1>3, SizeAssumption DEF WithRecord, Offsets
<1> HIDE DEF n, d, h
<1>5. HeaderIs(WithRecord(memory, p, m), h, n)
  BY <1>1, <1>2, <1>4, SizeAssumption DEF HeaderIs, Offsets
<1>6. ASSUME NEW k \in 1 .. n
      PROVE  WithRecord(memory, p, m)[d + k - 1] = m[k]
  <2>1. d + k - 1 \in Offsets /\ d + k - 1 \in d .. (d + n - 1) /\ (d + k - 1) - d + 1 = k
    BY <1>1, <1>2, <1>6, SizeAssumption DEF Offsets
  <2>2. QED
    BY <1>4, <2>1
<1>7. ASSUME NEW a \in Offsets \ Footprint(p, n)
      PROVE  WithRecord(memory, p, m)[a] = memory[a]
  <2>1. a \notin d .. (d + n - 1) /\ a # h /\ a # h + 1
    BY <1>1, <1>2, <1>3, <1>7, SizeAssumption DEF Footprint, Offsets, n, d, h
  <2>2. QED
    BY <1>4, <2>1
<1>8. QED
  BY <1>4, <1>5, <1>6, <1>7 DEF n, d, h

LEMMA Write1Keeps ==
    ASSUME IInv, NEW m \in Messages, Write1(m)
    PROVE  IInv'
<1> DEFINE n == Len(m)
           L == Len(pending)
<1>1. m \in Seq(Byte) /\ n \in Nat /\ n <= MaxLen
  BY MessagesAssumption
<1>2. L \in Nat /\ pending \in Seq([pos : Offsets, msg : Messages])
  BY DEF IInv, TypeOK
<1>3. head \in Offsets /\ tail \in Offsets /\ tail' = tail
  BY DEF IInv, TypeOK, Write1
<1>4. /\ head' = EndPos(head, n)
      /\ head' \in Offsets
      /\ Fits(head, n)
      /\ Ahead(tail, head) < Ahead(tail, head')
  BY <1>1, <1>3, RoomAdvances DEF Write1
<1>5. /\ pending' \in Seq([pos : Offsets, msg : Messages])
      /\ Len(pending') = L + 1
      /\ \A i \in 1 .. L : pending'[i] = pending[i]
      /\ pending'[L + 1] = [pos |-> head, msg |-> m]
  <2>1. [pos |-> head, msg |-> m] \in [pos : Offsets, msg : Messages]
    BY <1>3
  <2>2. pending' = Append(pending, [pos |-> head, msg |-> m])
    BY DEF Write1
  <2>3. QED
    BY <1>2, <2>1, <2>2, AppendProperties
<1>6. mem' = WithRecord(mem, head, m)
  BY DEF Write1
<1> HIDE DEF n, L
<1>7. ASSUME NEW i \in 1 .. L
      PROVE  /\ Pos(i)' = Pos(i) /\ Bytes(i)' = Bytes(i)
             /\ PosAfter(i)' = PosAfter(i)
             /\ Pos(i) \in Offsets /\ Bytes(i) \in Nat
  <2>1. Pos(i)' = Pos(i) /\ Bytes(i)' = Bytes(i)
    BY <1>5 DEF Pos, Bytes
  <2>2. PosAfter(i)' = PosAfter(i)
    <3>1. CASE i = L
      BY <3>1, <1>2, <1>5 DEF PosAfter, L
    <3>2. CASE i # L
      <4>1. i + 1 \in 1 .. L /\ i # L + 1
        BY <3>2, <1>2 DEF L
      <4>2. pending'[i + 1] = pending[i + 1]
        BY <4>1, <1>5
      <4>3. QED
        BY <3>2, <4>1, <4>2, <1>5 DEF PosAfter, L
    <3>3. QED
      BY <3>1, <3>2
  <2>3. QED
    BY <2>1, <2>2, RecordType DEF IInv, L
<1>8. ASSUME NEW i, i = L + 1
      PROVE  Pos(i)' = head /\ Bytes(i)' = n /\ PosAfter(i)' = head'
  BY <1>5, <1>8 DEF Pos, Bytes, PosAfter, n
<1>9. TypeOK'
  <2>1. mem' \in [Offsets -> Byte \cup HeaderBytes \cup {Blank}]
    <3>0. n \in Lengths
      BY <1>1, LenAssumption DEF Lengths
    <3>1. HeaderByte(1, n) \in HeaderBytes /\ HeaderByte(2, n) \in HeaderBytes
      BY <3>0 DEF HeaderByte, HeaderBytes
    <3>2. ASSUME NEW a \in Offsets
          PROVE  mem'[a] \in Byte \cup HeaderBytes \cup {Blank}
      <4>1. mem[a] \in Byte \cup HeaderBytes \cup {Blank}
        BY DEF IInv, TypeOK
      <4>2. CASE a \in DataPos(head, n) .. (EndPos(head, n) - 1)
        <5>1. a - DataPos(head, n) + 1 \in 1 .. n
          BY <4>2, <1>1, <1>3, SizeAssumption DEF DataPos, EndPos, Offsets, n
        <5>2. m[a - DataPos(head, n) + 1] \in Byte
          BY <5>1, <1>1, ElementOfSeq DEF n
        <5>3. QED
          BY <4>2, <5>2, <1>6 DEF WithRecord, n
      <4>3. CASE a \notin DataPos(head, n) .. (EndPos(head, n) - 1)
        BY <4>1, <4>3, <3>1, <1>6 DEF WithRecord, n
      <4>4. QED
        BY <4>2, <4>3
    <3>3. QED
      BY <3>2, <1>6 DEF WithRecord
  <2>2. QED
    BY <2>1, <1>3, <1>4, <1>5 DEF TypeOK
<1>10. Links'
  <2>1. pending' # << >>
    BY <1>2, <1>5 DEF L
  <2>2. pending'[1].pos = tail'
    <3>1. CASE pending = << >>
      <4>1. L = 0 /\ tail = head
        BY <3>1 DEF L, IInv, Links
      <4>2. QED
        BY <4>1, <1>3, <1>5
    <3>2. CASE pending # << >>
      <4>1. 1 \in 1 .. L /\ pending[1].pos = tail
        BY <3>2, <1>2 DEF L, IInv, Links
      <4>2. QED
        BY <4>1, <1>3, <1>5
    <3>3. QED
      BY <3>1, <3>2
  <2>3. ASSUME NEW i \in 1 .. L + 1
        PROVE  (EndPos(Pos(i), Bytes(i)) = PosAfter(i) /\ Fits(Pos(i), Bytes(i)))'
    <3>1. CASE i = L + 1
      BY <3>1, <1>4, <1>8 DEF EndPos, DataPos, Fits
    <3>2. CASE i # L + 1
      <4>1. i \in 1 .. L
        BY <3>2, <1>2 DEF L
      <4>2. EndPos(Pos(i), Bytes(i)) = PosAfter(i) /\ Fits(Pos(i), Bytes(i))
        BY <4>1 DEF L, IInv, Links
      <4>3. QED
        BY <4>1, <4>2, <1>7 DEF EndPos, DataPos, Fits
    <3>3. QED
      BY <3>1, <3>2
  <2>4. QED
    BY <2>1, <2>2, <2>3, <1>5 DEF Links
<1>11. Order'
  <2>1. \A i \in 1 .. L : Ahead(tail, Pos(i)) < Ahead(tail, head)
    BY DEF IInv, Order, L
  <2>2. Ahead(tail, head) \in Int /\ Ahead(tail, head') \in Int
        /\ \A i \in 1 .. L : Ahead(tail, Pos(i)) \in Int
    BY <1>3, <1>4, <1>7, SizeAssumption DEF Ahead, Offsets
  <2>3. ASSUME NEW i \in 1 .. L + 1
        PROVE  (Ahead(tail, Pos(i)) < Ahead(tail, head))'
    <3>1. CASE i = L + 1
      BY <3>1, <1>3, <1>4, <1>8 DEF Ahead
    <3>2. CASE i # L + 1
      <4>1. i \in 1 .. L
        BY <3>2, <1>2 DEF L
      <4>2. Ahead(tail, Pos(i)) < Ahead(tail, head')
        BY <4>1, <2>1, <2>2, <1>4
      <4>3. QED
        BY <4>1, <4>2, <1>3, <1>7 DEF Ahead
    <3>3. QED
      BY <3>1, <3>2
  <2>4. ASSUME NEW i \in 1 .. L + 1, NEW j \in 1 .. L + 1, i < j
        PROVE  (Ahead(tail, Pos(i)) < Ahead(tail, Pos(j)))'
    <3>0. i \in 1 .. L
      BY <2>4, <1>2 DEF L
    <3>1. CASE j = L + 1
      BY <3>0, <3>1, <2>1, <1>3, <1>7, <1>8 DEF Ahead
    <3>2. CASE j # L + 1
      <4>1. j \in 1 .. L
        BY <3>2, <1>2 DEF L
      <4>2. Ahead(tail, Pos(i)) < Ahead(tail, Pos(j))
        BY <2>4, <3>0, <4>1 DEF IInv, Order, L
      <4>3. QED
        BY <3>0, <4>1, <4>2, <1>3, <1>7 DEF Ahead
    <3>3. QED
      BY <3>1, <3>2
  <2>5. QED
    BY <2>3, <2>4, <1>5 DEF Order
<1>12. Intact'
  <2>1. ASSUME NEW i \in 1 .. L + 1
        PROVE  LET p == pending'[i].pos
                   q == pending'[i].msg
               IN  /\ HeaderIs(mem', HeaderPos(p), Len(q))
                   /\ \A k \in 1 .. Len(q) : mem'[DataPos(p, Len(q)) + k - 1] = q[k]
    <3>1. CASE i = L + 1
      BY <3>1, <1>1, <1>3, <1>4, <1>5, <1>6, RecordWritten DEF n
    <3>2. CASE i # L + 1
      <4>1. i \in 1 .. L
        BY <3>2, <1>2 DEF L
      <4>2. /\ HeaderIs(mem, HeaderPos(Pos(i)), Bytes(i))
            /\ \A k \in 1 .. Bytes(i) :
                  mem[DataPos(Pos(i), Bytes(i)) + k - 1] = pending[i].msg[k]
        BY <4>1, DomainIsRange DEF IInv, Intact, Pos, Bytes, L
      <4>3. Footprint(Pos(i), Bytes(i)) \cap Footprint(head, n) = {}
        BY <4>1, <1>1, <1>3, RecordInUse, RoomIsFree DEF Write1, n, L
      <4>4. \A a \in Footprint(Pos(i), Bytes(i)) \cap Offsets : mem'[a] = mem[a]
        BY <4>3, <1>1, <1>3, <1>4, <1>6, RecordWritten DEF n
      <4>5. Footprint(Pos(i), Bytes(i)) \subseteq Offsets
        BY <4>1, RecordInUse DEF L
      <4>6. /\ HeaderPos(Pos(i)) \in Footprint(Pos(i), Bytes(i))
            /\ HeaderPos(Pos(i)) + 1 \in Footprint(Pos(i), Bytes(i))
            /\ \A k \in 1 .. Bytes(i) :
                  DataPos(Pos(i), Bytes(i)) + k - 1 \in Footprint(Pos(i), Bytes(i))
        BY <4>1, <1>7, SizeAssumption DEF Footprint, EndPos, HeaderPos, DataPos, Offsets
      <4>7. /\ HeaderIs(mem', HeaderPos(Pos(i)), Bytes(i))
            /\ \A k \in 1 .. Bytes(i) :
                  mem'[DataPos(Pos(i), Bytes(i)) + k - 1] = pending[i].msg[k]
        BY <4>2, <4>4, <4>5, <4>6 DEF HeaderIs
      <4>8. QED
        BY <4>1, <4>7, <1>5 DEF Pos, Bytes
    <3>3. QED
      BY <3>1, <3>2
  <2>2. DOMAIN pending' = 1 .. L + 1
    BY <1>5
  <2>3. QED
    BY <2>1, <2>2 DEF Intact
<1>13. QED
  BY <1>9, <1>10, <1>11, <1>12 DEF IInv

------------------------------------------------------------------------------
(* read1 preserves the invariant.                                          *)

(* What read1 does when it does not return nullptr: the oldest record goes,*)
(* tail moves to where it ends.                                            *)
LEMMA Read1Effect ==
    ASSUME IInv, Read1
    PROVE  /\ pending # << >>
           /\ tail' = PosAfter(1)
           /\ pending' = Tail(pending)
           /\ result' = Queue!Got(pending[1].msg)
<1>1. pending # << >>
  BY EmptyAgrees DEF Read1
<1>2. 1 \in 1 .. Len(pending)
  BY <1>1 DEF IInv, TypeOK
<1>3. HeaderValues(mem, HeaderPos(tail)) = {Bytes(1)}
  BY <1>1, HeaderIsRead DEF Bytes
<1>4. tail = Pos(1) /\ EndPos(Pos(1), Bytes(1)) = PosAfter(1)
  BY <1>1, <1>2 DEF IInv, Links, Pos
<1>5. /\ tail' = EndPos(tail, Bytes(1))
      /\ result' = Queue!Got([i \in 1 .. Bytes(1) |-> mem[DataPos(tail, Bytes(1)) + i - 1]])
  BY <1>3 DEF Read1
<1>6. [i \in 1 .. Bytes(1) |-> mem[DataPos(tail, Bytes(1)) + i - 1]] = pending[1].msg
  <2>1. pending[1].msg \in Seq(Byte)
    BY <1>2, RecordType DEF IInv
  <2>2. \A k \in 1 .. Bytes(1) : mem[DataPos(tail, Bytes(1)) + k - 1] = pending[1].msg[k]
    BY <1>2, <1>4, DomainIsRange DEF IInv, Intact, Pos, Bytes
  <2>3. QED
    BY <2>1, <2>2 DEF Bytes
<1>7. QED
  BY <1>1, <1>4, <1>5, <1>6 DEF Read1

LEMMA Read1Keeps ==
    ASSUME IInv, Read1
    PROVE  IInv'
<1> DEFINE L == Len(pending)
<1>1. pending # << >> /\ tail' = PosAfter(1) /\ pending' = Tail(pending)
  BY Read1Effect
<1>2. pending \in Seq([pos : Offsets, msg : Messages])
  BY DEF IInv, TypeOK
<1>3. /\ L \in Nat /\ 1 <= L
      /\ pending' \in Seq([pos : Offsets, msg : Messages])
      /\ Len(pending') = L - 1
      /\ \A i \in 1 .. L - 1 : pending'[i] = pending[i + 1]
  BY <1>1, <1>2, HeadTailProperties
<1>4. head' = head /\ mem' = mem
  BY DEF Read1
<1>5. head \in Offsets /\ tail \in Offsets /\ tail' \in Offsets
  BY <1>1, <1>3, RecordInUse DEF IInv, TypeOK
<1>6. L = 1 => tail' = head
  BY <1>1 DEF PosAfter
<1>7. L > 1 => tail' = Pos(2) /\ Pos(2) \in Offsets
  BY <1>1, <1>3, RecordType DEF IInv, PosAfter, Pos
<1> HIDE DEF L
<1>8. ASSUME NEW i \in 1 .. L - 1
      PROVE  /\ i + 1 \in 1 .. L
             /\ Pos(i)' = Pos(i + 1) /\ Bytes(i)' = Bytes(i + 1)
             /\ PosAfter(i)' = PosAfter(i + 1)
             /\ Pos(i + 1) \in Offsets
             /\ Ahead(tail, tail') <= Ahead(tail, Pos(i + 1))
  <2>1. i + 1 \in 1 .. L /\ pending'[i] = pending[i + 1] /\ L > 1
    BY <1>3
  <2>2. PosAfter(i)' = PosAfter(i + 1)
    <3>1. CASE i = L - 1
      <4>1. i = Len(pending') /\ i + 1 = Len(pending)
        BY <3>1, <1>3 DEF L
      <4>2. QED
        BY <4>1, <1>4 DEF PosAfter
    <3>2. CASE i # L - 1
      <4>1. i + 1 \in 1 .. L - 1 /\ i # Len(pending') /\ i + 1 # Len(pending)
        BY <3>2, <1>3 DEF L
      <4>2. pending'[i + 1] = pending[i + 2]
        BY <4>1, <1>3
      <4>3. QED
        BY <4>1, <4>2 DEF PosAfter
    <3>3. QED
      BY <3>1, <3>2
  <2>3. Pos(i + 1) \in Offsets
    BY <2>1, RecordType DEF IInv, L
  <2>4. Ahead(tail, tail') <= Ahead(tail, Pos(i + 1))
    <3>1. tail' = Pos(2) /\ Pos(2) \in Offsets /\ 2 \in 1 .. L
      BY <1>7, <1>3, <2>1
    <3>2. CASE i = 1
      BY <3>1, <3>2, <1>5, SizeAssumption DEF Ahead, Offsets
    <3>3. CASE i # 1
      <4>1. 2 < i + 1
        BY <3>3, <1>3
      <4>2. Ahead(tail, Pos(2)) < Ahead(tail, Pos(i + 1))
        BY <4>1, <3>1, <2>1 DEF IInv, Order, L
      <4>3. QED
        BY <4>2, <3>1, <2>3, <1>5, SizeAssumption DEF Ahead, Offsets
    <3>4. QED
      BY <3>2, <3>3
  <2>5. QED
    BY <2>1, <2>2, <2>3, <2>4 DEF Pos, Bytes
<1>9. TypeOK'
  BY <1>3, <1>4, <1>5 DEF IInv, TypeOK
<1>10. Links'
  <2>1. pending' = << >> => tail' = head'
    BY <1>3, <1>4, <1>6
  <2>2. pending' # << >> => pending'[1].pos = tail'
    <3>1. CASE L = 1
      BY <3>1, <1>3
    <3>2. CASE L # 1
      <4>1. L > 1 /\ 1 \in 1 .. L - 1
        BY <3>2, <1>3
      <4>2. QED
        BY <4>1, <1>3, <1>7 DEF Pos
    <3>3. QED
      BY <3>1, <3>2
  <2>3. ASSUME NEW i \in 1 .. L - 1
        PROVE  (EndPos(Pos(i), Bytes(i)) = PosAfter(i) /\ Fits(Pos(i), Bytes(i)))'
    <3>1. /\ EndPos(Pos(i + 1), Bytes(i + 1)) = PosAfter(i + 1)
          /\ Fits(Pos(i + 1), Bytes(i + 1))
      BY <1>8 DEF IInv, Links, L
    <3>2. QED
      BY <3>1, <1>8 DEF EndPos, DataPos, Fits
  <2>4. QED
    BY <2>1, <2>2, <2>3, <1>3 DEF Links
<1>11. Order'
  <2>1. ASSUME NEW i \in 1 .. L - 1
        PROVE  (Ahead(tail, Pos(i)) < Ahead(tail, head))'
    <3>1. Ahead(tail, Pos(i + 1)) < Ahead(tail, head)
      BY <1>8 DEF IInv, Order, L
    <3>2. Ahead(tail', Pos(i + 1)) < Ahead(tail', head)
      BY <3>1, <1>5, <1>8, OrderSurvives
    <3>3. QED
      BY <3>2, <1>4, <1>8 DEF Ahead
  <2>2. ASSUME NEW i \in 1 .. L - 1, NEW j \in 1 .. L - 1, i < j
        PROVE  (Ahead(tail, Pos(i)) < Ahead(tail, Pos(j)))'
    <3>1. i + 1 \in 1 .. L /\ j + 1 \in 1 .. L /\ i + 1 < j + 1
      BY <2>2, <1>3
    <3>2. Ahead(tail, Pos(i + 1)) < Ahead(tail, Pos(j + 1))
      BY <3>1 DEF IInv, Order, L
    <3>3. Ahead(tail', Pos(i + 1)) < Ahead(tail', Pos(j + 1))
      BY <3>2, <1>5, <1>8, OrderSurvives
    <3>4. QED
      BY <3>3, <1>8 DEF Ahead
  <2>3. QED
    BY <2>1, <2>2, <1>3 DEF Order
<1>12. Intact'
  <2>1. DOMAIN pending' = 1 .. L - 1
    BY <1>3
  <2>2. ASSUME NEW i \in 1 .. L - 1
        PROVE  i + 1 \in DOMAIN pending /\ pending'[i] = pending[i + 1]
    BY <1>3, <1>8, DomainIsRange DEF IInv, L
  <2>3. QED
    BY <2>1, <2>2, <1>4 DEF IInv, Intact, HeaderIs
<1>13. QED
  BY <1>9, <1>10, <1>11, <1>12 DEF IInv

------------------------------------------------------------------------------
(* The theorems.                                                           *)

(* IInv holds of a fresh ring and is kept by every call.                   *)
THEOREM Invariance == Spec => []IInv
<1>1. Init => IInv
  <2> SUFFICES ASSUME Init PROVE IInv
    OBVIOUS
  <2>1. pending = << >> /\ Len(pending) = 0 /\ DOMAIN pending = {}
    BY DEF Init
  <2>2. TypeOK
    BY SizeAssumption DEF Init, TypeOK, Offsets
  <2>3. Links /\ Order /\ Intact
    BY <2>1 DEF Init, Links, Order, Intact
  <2>4. QED
    BY <2>2, <2>3 DEF IInv
<1>2. IInv /\ [Next]_vars => IInv'
  <2> SUFFICES ASSUME IInv, [Next]_vars PROVE IInv'
    OBVIOUS
  <2>1. ASSUME NEW m \in Messages, Write1(m) PROVE IInv'
    BY <2>1, Write1Keeps
  <2>2. ASSUME UNCHANGED <<head, tail, mem, pending>> PROVE IInv'
    BY <2>2 DEF IInv, TypeOK, Links, Order, Intact, Pos, Bytes, PosAfter, EndPos, DataPos,
                Fits, Ahead, HeaderIs
  <2>3. CASE Read1
    BY <2>3, Read1Keeps
  <2>4. CASE Clear
    <3>1. pending' = << >> /\ Len(pending') = 0 /\ DOMAIN pending' = {}
      BY <2>4 DEF Clear
    <3>2. TypeOK'
      BY <2>4, SizeAssumption DEF Clear, IInv, TypeOK, Offsets
    <3>3. (Links /\ Order /\ Intact)'
      BY <2>4, <3>1 DEF Clear, Links, Order, Intact
    <3>4. QED
      BY <3>2, <3>3 DEF IInv
  <2>5. QED
    BY <2>1, <2>2, <2>3, <2>4 DEF Next, vars, Write1Refused, Read1Nothing
<1>3. QED
  BY <1>1, <1>2, PTL DEF Spec

(* head and tail always name a byte of the ring, and what write1 wrote and *)
(* read1 has not released are whole records of messages.                   *)
THEOREM TypeCorrect == Spec => []TypeOK
<1>1. IInv => TypeOK
  BY DEF IInv
<1>2. QED
  BY <1>1, Invariance, PTL

(* No write ever lands on a record that has not been read: whatever the    *)
(* lengths, and wherever the records meet the end of the segment.          *)
THEOREM NothingOverwritten == Spec => []Intact
<1>1. IInv => Intact
  BY DEF IInv
<1>2. QED
  BY <1>1, Invariance, PTL

(* The ring is one chain of whole records from tail to head, and both the  *)
(* reader's test and length() see it as empty exactly when it is.          *)
THEOREM ChainHolds == Spec => []Chain
<1>1. ASSUME IInv PROVE Chain
  <2>1. DOMAIN pending = 1 .. Len(pending) /\ Len(pending) \in Nat
    BY <1>1, DomainIsRange DEF IInv
  <2>2. head \in Offsets /\ tail \in Offsets
    BY <1>1 DEF IInv, TypeOK
  <2>3. IF pending = << >> THEN tail = head ELSE pending[1].pos = tail
    BY <1>1 DEF IInv, Links
  <2>4. ASSUME NEW i \in DOMAIN pending
        PROVE  /\ EndPos(Pos(i), Bytes(i)) = PosAfter(i)
               /\ Ahead(tail, Pos(i)) < Ahead(tail, PosAfter(i))
               /\ Footprint(Pos(i), Bytes(i)) \subseteq Used(head, tail)
    BY <1>1, <2>1, RecordInUse DEF IInv, Links
  <2>5. NoRecord(head, tail) <=> pending = << >>
    BY <1>1, EmptyAgrees
  <2>6. Length = 0 <=> pending = << >>
    <3>1. pending = << >> => Length = 0
      BY <2>2, <2>3 DEF Length, Offsets
    <3>2. Length = 0 => tail = head
      BY <2>2, SizeAssumption DEF Length, Offsets
    <3>3. tail = head => NoRecord(head, tail)
      BY <2>2 DEF NoRecord, Offsets
    <3>4. QED
      BY <2>5, <3>1, <3>2, <3>3
  <2>7. QED
    BY <2>3, <2>4, <2>5, <2>6 DEF Chain, Pos, Bytes
<1>2. QED
  BY <1>1, Invariance, PTL

------------------------------------------------------------------------------
(* The ring implements a queue of messages.                                *)

Msgs == [i \in DOMAIN pending |-> pending[i].msg]

LEMMA MsgsIsSeq ==
    ASSUME TypeOK
    PROVE  /\ Msgs \in Seq(Messages)
           /\ Len(Msgs) = Len(pending)
           /\ \A i \in 1 .. Len(pending) : Msgs[i] = pending[i].msg
           /\ Msgs = << >> <=> pending = << >>
<1>1. DOMAIN pending = 1 .. Len(pending) /\ Len(pending) \in Nat
  BY DomainIsRange
<1>2. \A i \in 1 .. Len(pending) : pending[i].msg \in Messages
  BY RecordType
<1>3. Msgs = [i \in 1 .. Len(pending) |-> pending[i].msg]
  BY <1>1 DEF Msgs
<1>4. Msgs \in Seq(Messages)
  BY <1>1, <1>2, <1>3, IsASeq
<1>5. Len(Msgs) = Len(pending)
  BY <1>1, <1>3, <1>4, LenProperties
<1>6. Msgs = << >> <=> pending = << >>
  BY <1>4, <1>5, EmptySeq DEF TypeOK
<1>7. QED
  BY <1>3, <1>4, <1>5, <1>6

LEMMA Write1Puts ==
    ASSUME IInv, NEW m \in Messages, Write1(m)
    PROVE  Msgs' = Append(Msgs, m)
<1> DEFINE r == [pos |-> head, msg |-> m]
           L == Len(pending)
<1>1. IInv'
  BY Write1Keeps
<1>2. /\ Len(pending') = L + 1
      /\ \A i \in 1 .. L : pending'[i] = pending[i]
      /\ pending'[L + 1] = r
      /\ L \in Nat
  <2>1. r \in [pos : Offsets, msg : Messages] /\ pending' = Append(pending, r)
    BY DEF Write1, IInv, TypeOK
  <2>2. pending \in Seq([pos : Offsets, msg : Messages])
    BY DEF IInv, TypeOK
  <2>3. QED
    BY <2>1, <2>2, AppendProperties
<1>3. Msgs' \in Seq(Messages) /\ Len(Msgs') = L + 1
      /\ \A i \in 1 .. L + 1 : Msgs'[i] = pending'[i].msg
  <2>1. TypeOK'
    BY <1>1 DEF IInv
  <2>2. (/\ Msgs \in Seq(Messages)
         /\ Len(Msgs) = Len(pending)
         /\ \A i \in 1 .. Len(pending) : Msgs[i] = pending[i].msg)'
    BY <2>1, MsgsIsSeq, PTL
  <2>3. QED
    BY <2>2, <1>2
<1>4. /\ Msgs \in Seq(Messages) /\ Len(Msgs) = L
      /\ \A i \in 1 .. L : Msgs[i] = pending[i].msg
  BY MsgsIsSeq DEF IInv
<1>5. /\ Append(Msgs, m) \in Seq(Messages)
      /\ Len(Append(Msgs, m)) = L + 1
      /\ \A i \in 1 .. L : Append(Msgs, m)[i] = Msgs[i]
      /\ Append(Msgs, m)[L + 1] = m
  BY <1>4, AppendProperties
<1> HIDE DEF L, r
<1>6. ASSUME NEW i \in 1 .. L + 1
      PROVE  Msgs'[i] = Append(Msgs, m)[i]
  <2>1. CASE i = L + 1
    BY <2>1, <1>2, <1>3, <1>5 DEF r
  <2>2. CASE i # L + 1
    <3>1. i \in 1 .. L
      BY <2>2, <1>2
    <3>2. QED
      BY <3>1, <1>2, <1>3, <1>4, <1>5
  <2>3. QED
    BY <2>1, <2>2
<1>7. QED
  BY <1>3, <1>5, <1>6, SeqEqual

LEMMA Read1Gets ==
    ASSUME IInv, Read1
    PROVE  /\ Msgs # << >>
           /\ result' = Queue!Got(Head(Msgs))
           /\ Msgs' = Tail(Msgs)
<1> DEFINE L == Len(pending)
<1>1. pending # << >> /\ pending' = Tail(pending) /\ result' = Queue!Got(pending[1].msg)
  BY Read1Effect
<1>2. /\ L \in Nat /\ 1 <= L
      /\ Len(pending') = L - 1
      /\ \A i \in 1 .. L - 1 : pending'[i] = pending[i + 1]
  BY <1>1, HeadTailProperties DEF IInv, TypeOK
<1>3. /\ Msgs \in Seq(Messages) /\ Len(Msgs) = L /\ Msgs # << >>
      /\ \A i \in 1 .. L : Msgs[i] = pending[i].msg
  BY <1>1, MsgsIsSeq DEF IInv
<1>4. Msgs' \in Seq(Messages) /\ Len(Msgs') = L - 1
      /\ \A i \in 1 .. L - 1 : Msgs'[i] = pending'[i].msg
  <2>1. TypeOK'
    BY Read1Keeps DEF IInv
  <2>2. (/\ Msgs \in Seq(Messages)
         /\ Len(Msgs) = Len(pending)
         /\ \A i \in 1 .. Len(pending) : Msgs[i] = pending[i].msg)'
    BY <2>1, MsgsIsSeq, PTL
  <2>3. QED
    BY <2>2, <1>2
<1>5. /\ Tail(Msgs) \in Seq(Messages) /\ Len(Tail(Msgs)) = L - 1
      /\ \A i \in 1 .. L - 1 : Tail(Msgs)[i] = Msgs[i + 1]
      /\ Head(Msgs) = Msgs[1]
  BY <1>3, HeadTailProperties
<1> HIDE DEF L
<1>6. ASSUME NEW i \in 1 .. L - 1
      PROVE  Msgs'[i] = Tail(Msgs)[i]
  <2>1. i + 1 \in 1 .. L
    BY <1>2
  <2>2. QED
    BY <2>1, <1>2, <1>3, <1>4, <1>5
<1>7. Msgs' = Tail(Msgs)
  BY <1>4, <1>5, <1>6, SeqEqual
<1>8. Head(Msgs) = pending[1].msg
  BY <1>2, <1>3, <1>5
<1>9. QED
  BY <1>1, <1>3, <1>7, <1>8

(* An empty ring takes every small message.                                *)
LEMMA EmptyTakesSmall ==
    ASSUME IInv, pending = << >>, NEW m \in Messages, NoRoom(head, tail, Len(m))
    PROVE  m \notin {x \in Messages : 2 * (Len(x) + 2) < Size}
<1>1. Len(m) \in Nat
  BY MessagesAssumption
<1>2. tail = head /\ head \in Offsets
  BY DEF IInv, Links, TypeOK
<1>3. ~(2 * (Len(m) + 2) < Size)
  BY <1>1, <1>2, SizeAssumption DEF NoRoom, Offsets
<1>4. QED
  BY <1>3

(* What the two sides of a channel see of the ring is a first-in first-out *)
(* queue of messages that never refuses a small one when it is empty.      *)
THEOREM Implementation == Spec => IsQueue
<1>1. Init => Queue!QInit
  <2> SUFFICES ASSUME Init PROVE Queue!QInit
    OBVIOUS
  <2>1. Msgs = << >>
    BY DEF Init, Msgs
  <2>2. QED
    BY <2>1 DEF Init, Queue!QInit, Msgs
<1>2. IInv /\ [Next]_vars => [Queue!QNext]_(Queue!qvars)
  <2> SUFFICES ASSUME IInv, [Next]_vars PROVE [Queue!QNext]_(Queue!qvars)
    OBVIOUS
  <2>0. Msgs = << >> <=> pending = << >>
    BY MsgsIsSeq DEF IInv
  <2>1. ASSUME NEW m \in Messages, Write1(m) PROVE Queue!Put(m)
    BY <2>1, Write1Puts DEF Write1, Queue!Put, Msgs
  <2>2. ASSUME NEW m \in Messages, Write1Refused(m) PROVE Queue!Refuse(m)
    <3>1. Msgs # << >> \/ m \notin {x \in Messages : 2 * (Len(x) + 2) < Size}
      BY <2>0, <2>2, EmptyTakesSmall DEF Write1Refused
    <3>2. Msgs' = Msgs /\ result' = Queue!Refused
      BY <2>2 DEF Write1Refused, Msgs
    <3>3. QED
      BY <3>1, <3>2 DEF Queue!Refuse, Msgs
  <2>3. CASE Read1
    BY <2>3, Read1Gets DEF Queue!Get, Queue!QNext, Msgs
  <2>4. CASE Read1Nothing
    <3>1. Msgs = << >>
      BY <2>0, <2>4, EmptyAgrees DEF Read1Nothing
    <3>2. Msgs' = Msgs /\ result' = Queue!Nothing
      BY <2>4 DEF Read1Nothing, Msgs
    <3>3. QED
      BY <3>1, <3>2 DEF Queue!GetNothing, Queue!QNext, Msgs
  <2>5. CASE Clear
    <3>1. Msgs' = << >>
      BY <2>5 DEF Clear, Msgs
    <3>2. QED
      BY <3>1, <2>5 DEF Clear, Queue!Discard, Queue!QNext, Msgs
  <2>6. CASE UNCHANGED vars
    BY <2>6 DEF vars, Queue!qvars
  <2>7. QED
    BY <2>1, <2>2, <2>3, <2>4, <2>5, <2>6 DEF Next, Queue!QNext
<1>3. QED
  BY <1>1, <1>2, Invariance, PTL DEF Spec, IsQueue, Queue!QSpec
------------------------------------------------------------------------------
(* What a refusal means.                                                   *)

(* Induction.  The theorems of the library take a property; these take the *)
(* set of what has it, which the provers can instantiate.                  *)
LEMMA LeastNumber ==
    ASSUME NEW T, T \subseteq Nat, T # {}
    PROVE  \E n \in T : \A m \in T : n <= m
<1>1. PICK n \in T : \A m \in T : ~ (<<m, n>> \in OpToRel(<, Nat))
  BY NatLessThanWellFounded, WFMin, Zenon
<1>2. \A m \in T : m < n => <<m, n>> \in OpToRel(<, Nat)
  BY DEF OpToRel
<1>3. \A m \in T : ~ (m < n)
  BY <1>1, <1>2, Zenon
<1>4. QED
  BY <1>3

LEMMA SetInduction ==
    ASSUME NEW S, 0 \in S, \A n \in Nat : n \in S => n + 1 \in S
    PROVE  Nat \subseteq S
<1> DEFINE T == Nat \ S
<1>1. CASE T # {}
  <2>1. PICK n \in T : \A m \in T : n <= m
    BY <1>1, LeastNumber
  <2>2. n # 0 /\ n \in Nat /\ n - 1 \in Nat
    BY <2>1
  <2>3. n - 1 \in S
    BY <2>1, <2>2
  <2>4. n - 1 + 1 \in S
    BY <2>2, <2>3
  <2>5. n - 1 + 1 = n
    BY <2>2
  <2>6. QED
    BY <2>1, <2>4, <2>5
<1>2. QED
  BY <1>1

(* The bytes of the first i pending records, headers included.             *)
Adds(g, n) == g[0] = 0 /\ \A i \in 1 .. n : g[i] = g[i - 1] + Bytes(i) + 2

LEMMA WaitingAdds ==
    ASSUME TypeOK
    PROVE  \E g : Adds(g, Len(pending)) /\ Waiting = g[Len(pending)]
<1> DEFINE n == Len(pending)
           Def(h) == h = [i \in 0 .. Len(pending) |->
                             IF i = 0 THEN 0 ELSE h[i - 1] + Len(pending[i].msg) + 2]
           S == {k \in Nat : k <= n => \E g \in [0 .. n -> Nat] : Adds(g, k)}
<1>0. n \in Nat /\ \A i \in 1 .. n : Bytes(i) \in Nat
  BY DomainIsRange, RecordType
<1>1. 0 \in S
  <2>1. [i \in 0 .. n |-> 0] \in [0 .. n -> Nat] /\ Adds([i \in 0 .. n |-> 0], 0)
    BY <1>0 DEF Adds
  <2>2. QED
    BY <2>1
<1>2. ASSUME NEW k \in Nat, k \in S PROVE k + 1 \in S
  <2> SUFFICES ASSUME k + 1 <= n PROVE \E g \in [0 .. n -> Nat] : Adds(g, k + 1)
    OBVIOUS
  <2>1. PICK g \in [0 .. n -> Nat] : Adds(g, k)
    BY <1>0, <1>2
  <2>2. PICK h : h = [g EXCEPT ![k + 1] = g[k] + Bytes(k + 1) + 2]
    OBVIOUS
  <2>3. k \in 0 .. n /\ k + 1 \in 1 .. n /\ g[k] + Bytes(k + 1) + 2 \in Nat
    <3>1. k \in 0 .. n /\ k + 1 \in 1 .. n
      BY <1>0
    <3>2. g[k] \in Nat /\ Bytes(k + 1) \in Nat
      BY <1>0, <3>1
    <3>3. QED
      BY <3>1, <3>2
  <2>4. h \in [0 .. n -> Nat] /\ h[k + 1] = g[k] + Bytes(k + 1) + 2 /\ \A i \in 0 .. k : h[i] = g[i]
    BY <1>0, <2>2, <2>3
  <2>5. ASSUME NEW i \in 1 .. k + 1 PROVE h[i] = h[i - 1] + Bytes(i) + 2
    <3>1. CASE i = k + 1
      BY <2>4, <3>1
    <3>2. CASE i # k + 1
      <4>1. i \in 1 .. k /\ i \in 0 .. k /\ i - 1 \in 0 .. k
        BY <3>2
      <4>2. QED
        BY <2>1, <2>4, <4>1 DEF Adds
    <3>3. QED
      BY <3>1, <3>2
  <2>6. Adds(h, k + 1)
    BY <2>1, <2>4, <2>5 DEF Adds
  <2>7. QED
    BY <2>4, <2>6
<1>3. PICK g \in [0 .. n -> Nat] : Adds(g, n)
  <2>1. Nat \subseteq S
    BY <1>1, <1>2, SetInduction
  <2>2. QED
    BY <1>0, <2>1
<1>4. Def(g)
  <2>1. ASSUME NEW i \in 0 .. n
        PROVE  g[i] = IF i = 0 THEN 0 ELSE g[i - 1] + Len(pending[i].msg) + 2
    BY <1>0, <1>3 DEF Adds, Bytes
  <2>2. QED
    BY <2>1
<1>5. PICK bytes : Def(bytes) /\ Waiting = bytes[n]
  BY <1>4 DEF Waiting
<1>6. Adds(bytes, n)
  <2>1. bytes[0] = 0
    BY <1>0, <1>5
  <2>2. ASSUME NEW i \in 1 .. n PROVE bytes[i] = bytes[i - 1] + Bytes(i) + 2
    <3>1. i \in 0 .. n /\ i # 0
      BY <1>0
    <3>2. QED
      BY <1>5, <3>1 DEF Bytes
  <2>3. QED
    BY <2>1, <2>2 DEF Adds
<1>7. QED
  BY <1>5, <1>6

(* No pending message is wider than the widest.                            *)
LEMMA WidestIs ==
    ASSUME TypeOK
    PROVE  Widest \in Nat /\ 1 <= Widest /\ \A i \in 1 .. Len(pending) : Bytes(i) <= Widest
<1> DEFINE W == {Len(pending[i].msg) : i \in DOMAIN pending} \cup {1}
           B == {n \in Nat : \A w \in W : w <= n}
<1>0. DOMAIN pending = 1 .. Len(pending) /\ Len(pending) \in Nat
  BY DomainIsRange
<1>1. \A w \in W : w \in Nat /\ w <= MaxLen + 1
  <2>1. \A i \in 1 .. Len(pending) : Len(pending[i].msg) \in Nat /\ Len(pending[i].msg) <= MaxLen
    BY RecordType DEF Bytes
  <2>2. QED
    BY <1>0, <2>1, LenAssumption
<1>2. PICK n \in B : \A m \in B : n <= m
  <2>1. MaxLen + 1 \in B
    BY <1>1, LenAssumption
  <2>2. QED
    BY <2>1, LeastNumber
<1>3. n \in W
  <2> SUFFICES ASSUME n \notin W PROVE FALSE
    OBVIOUS
  <2>1. 1 \in W /\ n \in Nat
    BY <1>2
  <2>2. n # 0 /\ n - 1 \in Nat
    BY <1>2, <2>1
  <2>3. \A w \in W : w <= n - 1
    BY <1>1, <1>2, <2>1
  <2>4. n - 1 \in B
    BY <2>2, <2>3
  <2>5. QED
    BY <1>2, <2>1, <2>4
<1>4. Widest \in W /\ \A w \in W : Widest >= w
  <2>1. \E x \in W : \A y \in W : x >= y
    BY <1>1, <1>2, <1>3
  <2>2. Widest = CHOOSE x \in W : \A y \in W : x >= y
    BY DEF Widest, Max
  <2>3. QED
    BY <2>1, <2>2
<1>5. \A i \in 1 .. Len(pending) : Bytes(i) \in W
  BY <1>0 DEF Bytes
<1>6. QED
  BY <1>1, <1>4, <1>5

(* What a record takes: its header and its bytes, and where it wraps some  *)
(* bytes at the end of the segment, no more than it has itself.            *)
LEMMA RecordTakes ==
    ASSUME NEW t \in Offsets, NEW p \in Offsets, NEW n \in Nat, NEW e \in Offsets,
           e = EndPos(p, n), Fits(p, n), Ahead(t, p) < Ahead(t, e)
    PROVE  /\ p >= t /\ e >= t => Ahead(t, e) = Ahead(t, p) + n + 2
           /\ p >= t /\ e < t => \/ Ahead(t, e) <= Ahead(t, p) + n + 2 + n
                                 \/ Ahead(t, e) <= Ahead(t, p) + n + 2 + 1
           /\ p < t => e < t /\ Ahead(t, e) = Ahead(t, p) + n + 2
  BY SizeAssumption DEF Offsets, Fits, EndPos, DataPos, Ahead

(* The bytes between tail and head are those waiting, and if a record has  *)
(* wrapped at most those of the widest record more.                        *)
Accounted(e, bytes) == /\ e >= tail => Ahead(tail, e) = bytes
                       /\ e < tail => Ahead(tail, e) <= bytes + Widest

LEMMA StillAccounted ==
    ASSUME NEW x \in Nat, NEW y \in Nat, NEW p \in Offsets, NEW e \in Offsets, tail \in Offsets,
           NEW a \in Nat, NEW b, NEW w \in Nat, b = a + w + 2,
           Widest \in Nat, 1 <= Widest, w <= Widest,
           x = Ahead(tail, p), y = Ahead(tail, e), Accounted(p, a),
           p >= tail /\ e >= tail => y = x + w + 2,
           p >= tail /\ e < tail => y <= x + w + 2 + w \/ y <= x + w + 2 + 1,
           p < tail => e < tail /\ y = x + w + 2
    PROVE  Accounted(e, b)
<1>1. tail \in Nat /\ p \in Nat /\ e \in Nat
  BY DEF Offsets
<1>2. PICK W \in Nat : W = Widest
  OBVIOUS
<1>3. (p >= tail => x = a) /\ (p < tail => x <= a + W)
  BY <1>2 DEF Accounted
<1>4. (e >= tail => y = b) /\ (e < tail => y <= b + W)
  BY <1>1, <1>2, <1>3
<1>5. QED
  BY <1>2, <1>4 DEF Accounted

LEMMA WaitingFills ==
    ASSUME IInv
    PROVE  Waiting \in Nat /\ Accounted(head, Waiting)
<1> DEFINE n == Len(pending)
           End(i) == IF i = 0 THEN tail ELSE PosAfter(i)
<1>0. n \in Nat /\ tail \in Offsets /\ head \in Offsets /\ TypeOK
  BY DEF IInv, TypeOK
<1>1. PICK g : Adds(g, n) /\ Waiting = g[n]
  BY <1>0, WaitingAdds
<1>2. Widest \in Nat /\ 1 <= Widest /\ \A i \in 1 .. n : Bytes(i) <= Widest
  BY <1>0, WidestIs
<1> DEFINE S == {k \in Nat : k <= n => g[k] \in Nat /\ End(k) \in Offsets /\ Accounted(End(k), g[k])}
<1>3. 0 \in S
  <2>1. g[0] = 0 /\ End(0) = tail
    BY <1>1 DEF Adds
  <2>2. Accounted(tail, 0)
    BY <1>0, SizeAssumption DEF Accounted, Ahead, Offsets
  <2>3. QED
    BY <1>0, <2>1, <2>2
<1>4. ASSUME NEW k \in Nat, k \in S PROVE k + 1 \in S
  <2> SUFFICES ASSUME k + 1 <= n
               PROVE  g[k + 1] \in Nat /\ End(k + 1) \in Offsets /\ Accounted(End(k + 1), g[k + 1])
    OBVIOUS
  <2>1. k + 1 \in 1 .. n /\ (k + 1) - 1 = k
    BY <1>0
  <2>2. g[k] \in Nat /\ End(k) \in Offsets /\ Accounted(End(k), g[k])
    BY <1>0, <1>4
  <2>3. End(k) = Pos(k + 1)
    <3>1. CASE k = 0
      BY <1>0, <2>1, <3>1, EmptySeq DEF IInv, Links, Pos
    <3>2. CASE k # 0
      BY <1>0, <3>2 DEF PosAfter, Pos
    <3>3. QED
      BY <3>1, <3>2
  <2>4. PICK p, w, e : p = End(k) /\ w = Bytes(k + 1) /\ e = End(k + 1)
    OBVIOUS
  <2>5. e = PosAfter(k + 1)
    BY <2>4
  <2>6. p \in Offsets /\ w \in Nat /\ w <= Widest /\ g[k + 1] = g[k] + w + 2
    BY <1>0, <1>1, <1>2, <2>1, <2>2, <2>4, RecordType DEF Adds
  <2>7. e = EndPos(p, w) /\ Fits(p, w)
    BY <2>1, <2>3, <2>4, <2>5 DEF IInv, Links
  <2>8. e \in Offsets /\ Ahead(tail, p) < Ahead(tail, e)
    BY <2>1, <2>3, <2>4, <2>5, RecordInUse
  <2>9. /\ p >= tail /\ e >= tail => Ahead(tail, e) = Ahead(tail, p) + w + 2
        /\ p >= tail /\ e < tail => \/ Ahead(tail, e) <= Ahead(tail, p) + w + 2 + w
                                    \/ Ahead(tail, e) <= Ahead(tail, p) + w + 2 + 1
        /\ p < tail => e < tail /\ Ahead(tail, e) = Ahead(tail, p) + w + 2
    BY <1>0, <2>6, <2>7, <2>8, RecordTakes
  <2>10. Accounted(p, g[k])
    BY <2>2, <2>4
  <2>11. Ahead(tail, p) \in Nat /\ Ahead(tail, e) \in Nat
    BY <1>0, <2>6, <2>8, SizeAssumption DEF Ahead, Offsets
  <2>12. Accounted(e, g[k + 1])
    BY <1>0, <1>2, <2>2, <2>6, <2>8, <2>9, <2>10, <2>11, StillAccounted
  <2>13. QED
    BY <2>2, <2>4, <2>6, <2>8, <2>12
<1>5. g[n] \in Nat /\ Accounted(End(n), g[n])
  <2>1. Nat \subseteq S
    BY <1>3, <1>4, SetInduction
  <2>2. QED
    BY <1>0, <2>1
<1>6. End(n) = head
  <2>1. CASE n = 0
    <3>1. pending = << >>
      BY <1>0, <2>1, EmptySeq DEF TypeOK
    <3>2. QED
      BY <2>1, <3>1 DEF IInv, Links
  <2>2. CASE n # 0
    BY <2>2 DEF PosAfter
  <2>3. QED
    BY <2>1, <2>2
<1>7. QED
  BY <1>1, <1>5, <1>6

(* write1 refuses a message only if what waits, the widest of it once more *)
(* and twice the record that is refused fill the ring.                     *)
THEOREM RefusedForWantOfRoom == Spec => []RefusalMeansBacklog
<1>1. IInv => RefusalMeansBacklog
  <2> SUFFICES ASSUME IInv, NEW m \in Messages, NoRoom(head, tail, Len(m))
               PROVE  Waiting + Widest + 2 * (Len(m) + 2) >= Size
    BY DEF RefusalMeansBacklog
  <2>1. Len(m) \in Nat
    BY MessagesAssumption
  <2>2. head \in Offsets /\ tail \in Offsets /\ TypeOK
    BY DEF IInv, TypeOK
  <2>3. Widest \in Nat /\ 1 <= Widest
    BY <2>2, WidestIs
  <2>4. Waiting \in Nat /\ Accounted(head, Waiting)
    BY WaitingFills
  <2>5. QED
    BY <2>1, <2>2, <2>3, <2>4, SizeAssumption DEF Accounted, Ahead, NoRoom, Offsets
<1>2. QED
  BY <1>1, Invariance, PTL
==============================================================================
