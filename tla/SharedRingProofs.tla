--------------------------- MODULE SharedRingProofs ---------------------------
(***************************************************************************)
(* The ring between two processes, for every size and every length: what   *)
(* the reader finds at tail is whole, what the handler goes through is the *)
(* message popped for it, and messages come in order, provided that the    *)
(* producer stays within Modest.  For a client that attaches late, and so  *)
(* clears the ring under the writer: what is handled is still a message,   *)
(* and none comes again.                                                   *)
(*                                                                         *)
(* The argument: the room that a push found is not taken from it while it  *)
(* runs (Room), because only the reader moves, and what tail gives up is   *)
(* at most what the handler takes into its hands.  So the tests of write1, *)
(* whose loads of tail may disagree, need not be trusted.  A late attach   *)
(* finds tail at 0 still, so it takes nothing from that room either: it    *)
(* only hides the records, all of them or until the writer publishes.      *)
(***************************************************************************)
EXTENDS SharedRing, SequenceTheorems, TLAPS

(* A record either stays clear of the end of the segment or ends before    *)
(* the place it begins.                                                    *)
Fits(p, n) == p + 2 + n < Size \/ EndPos(p, n) < p

Reader == CHOOSE c : Consumers = {c}
rd == r[Reader]

(* The producer's bound, and the one consumer the ring is made for.        *)
Modest == Consumers = {Reader} /\ Backlog + MaxLen < Size

Sizes == 1 .. MaxLen
Recs == [pos : Offsets, msg : [id : Nat, len : Sizes]]

(* The chain of records q between tail t and head h, as in CycleBuffer.    *)
After(h, q, i) == IF i = Len(q) THEN h ELSE q[i + 1].pos
Chained(h, t, q) ==
    /\ h \in Offsets /\ t \in Offsets /\ q \in Seq(Recs)
    /\ q = << >> => t = h
    /\ q # << >> => q[1].pos = t
    /\ \A i \in 1 .. Len(q) : /\ EndPos(q[i].pos, q[i].msg.len) = After(h, q, i)
                              /\ Fits(q[i].pos, q[i].msg.len)
                              /\ Ahead(t, q[i].pos) < Ahead(t, h)
    /\ \A i, j \in 1 .. Len(q) : i < j => Ahead(t, q[i].pos) < Ahead(t, q[j].pos)

Whole(memory, rec) ==
    /\ HeaderIs(memory, HeaderPos(rec.pos), rec.msg.len)
    /\ \A k \in 1 .. rec.msg.len : memory[DataPos(rec.pos, rec.msg.len) + k - 1] = MsgByte(rec.msg, k)

Numbered(s, q) == \A i \in 1 .. Len(q) : q[i].msg.id = s - Len(q) + i

Ring == /\ Chained(head, tail, pending)
        /\ DOMAIN mem = Offsets
        /\ \A i \in 1 .. Len(pending) : Whole(mem, pending[i])
        /\ sent \in Nat /\ Numbered(sent, pending)

Unused == client # "attached" =>
              head = 0 /\ tail = 0 /\ pending = << >> /\ w.pc = "idle" /\ rd.pc = "idle"

(* The bytes that the handler may still look at lie before tail.           *)
Held == IF rd.pc = "handle" THEN rd.len ELSE 0
Room(n) == Ahead(tail, head) + Held + 2 * n + 2 < Size

Writing ==
    /\ DOMAIN w = {"pc", "start", "pos", "msg", "done"}
    /\ w.pc # "idle" =>
          /\ w.start = head
          /\ w.msg = Msg(sent + 1, w.msg.len) /\ w.msg.len \in Sizes
          /\ Room(w.msg.len)
          /\ w.pc # "copy" => w.pos = head + 2 /\ w.done = 0
          /\ w.pc = "copy" =>
                /\ w.pos = DataPos(head, w.msg.len)
                /\ HeaderIs(mem, HeaderPos(head), w.msg.len)
                /\ w.done \in 0 .. w.msg.len
                /\ \A k \in 1 .. w.done : mem[w.pos + k - 1] = MsgByte(w.msg, k)

Popped == sent - Len(pending)
Reading ==
    /\ DOMAIN r = Consumers /\ DOMAIN rd = {"pc", "pos", "len", "rec", "got"}
    /\ rd.pc \in {"test1", "test2", "length"} => rd.pos = tail + 2
    /\ rd.pc \in {"length", "release"} => pending # << >>
    /\ rd.pc = "release" => rd.len = pending[1].msg.len /\ rd.pos = DataPos(tail, rd.len)
    /\ rd.pc # "handle" => rd.got = << >>
    /\ rd.pc = "handle" =>
          /\ rd.rec = Msg(Popped, rd.len) /\ rd.len \in Sizes
          /\ rd.pos \in Nat /\ rd.pos + rd.len = tail
          /\ \A k \in 1 .. rd.len : mem[rd.pos + k - 1] = MsgByte(rd.rec, k)
          /\ \E g \in 0 .. rd.len : rd.got = [k \in 1 .. g |-> MsgByte(rd.rec, k)]

Done == /\ DOMAIN handled = Consumers
        /\ handled[Reader].got = BytesOf(handled[Reader].rec)
        /\ handled[Reader].rec.id = IF rd.pc = "handle" THEN Popped - 1 ELSE Popped

IInv == Ring /\ Unused /\ Writing /\ Reading /\ Done

------------------------------------------------------------------------------
(* Where a record lies relative to tail and head, for every size: linear   *)
(* arithmetic.                                                             *)

(* A record that ends further ahead of tail than it begins lies wholly     *)
(* between tail and its end.                                               *)
LEMMA FootprintInArc ==
    ASSUME NEW t \in Offsets, NEW p \in Offsets, NEW n \in Nat,
           EndPos(p, n) \in Offsets, Fits(p, n),
           Ahead(t, p) < Ahead(t, EndPos(p, n))
    PROVE  Footprint(p, n) \subseteq Used(EndPos(p, n), t)
  BY SizeAssumption
  DEF Offsets, Fits, EndPos, DataPos, HeaderPos, Footprint, Used, Ahead

(* Bytes between tail and a nearer end are between tail and a further one. *)
LEMMA ArcGrows ==
    ASSUME NEW t \in Offsets, NEW e \in Offsets, NEW h \in Offsets,
           Ahead(t, e) <= Ahead(t, h)
    PROVE  Used(e, t) \subseteq Used(h, t)
  BY SizeAssumption DEF Offsets, Used, Ahead

(* Two offsets ahead of tail keep their order when tail moves up to the    *)
(* nearer of them.                                                         *)
LEMMA OrderSurvives ==
    ASSUME NEW t \in Offsets, NEW u \in Offsets, NEW p \in Offsets, NEW e \in Offsets,
           Ahead(t, u) <= Ahead(t, p), Ahead(t, p) < Ahead(t, e)
    PROVE  Ahead(u, p) < Ahead(u, e)
  BY SizeAssumption DEF Offsets, Ahead

(* What a record gives back is at least its header and its bytes; the      *)
(* bytes end at the new tail.                                              *)
LEMMA TailComesNearer ==
    ASSUME NEW t \in Offsets, NEW h \in Offsets, NEW n \in Nat,
           EndPos(t, n) \in Offsets, Fits(t, n), 0 < Ahead(t, EndPos(t, n)),
           Ahead(t, EndPos(t, n)) <= Ahead(t, h)
    PROVE  /\ Ahead(EndPos(t, n), h) + n + 2 <= Ahead(t, h)
           /\ DataPos(t, n) \in Nat /\ DataPos(t, n) + n = EndPos(t, n)
  BY SizeAssumption DEF Offsets, Ahead, Fits, EndPos, DataPos

(* A record for which there is room twice, behind what is in use and what  *)
(* a reader still holds before tail, moves head on and stays inside.       *)
LEMMA RoomyAdvances ==
    ASSUME NEW h \in Offsets, NEW t \in Offsets, NEW n \in Nat \ {0},
           Ahead(t, h) + 2 * n + 2 < Size
    PROVE  /\ EndPos(h, n) \in Offsets /\ Fits(h, n)
           /\ Ahead(t, h) < Ahead(t, EndPos(h, n))
  BY SizeAssumption DEF Offsets, Fits, EndPos, DataPos, Ahead

LEMMA RoomyIsFree ==
    ASSUME NEW h \in Offsets, NEW t \in Offsets, NEW n \in Nat \ {0}, NEW held \in 0 .. t,
           Ahead(t, h) + held + 2 * n + 2 < Size
    PROVE  /\ Footprint(h, n) \subseteq Offsets
           /\ Footprint(h, n) \cap Used(h, t) = {}
           /\ Footprint(h, n) \cap (t - held .. t - 1) = {}
  BY SizeAssumption
  DEF Offsets, EndPos, DataPos, HeaderPos, Footprint, Used, Ahead

(* The places of the parts of a record.                                    *)
LEMMA RecordParts ==
    ASSUME NEW p \in Offsets, NEW n \in Nat, EndPos(p, n) \in Offsets, Fits(p, n)
    PROVE  /\ HeaderPos(p) \in Footprint(p, n) /\ HeaderPos(p) + 1 \in Footprint(p, n)
           /\ HeaderPos(p) \in Offsets /\ HeaderPos(p) + 1 \in Offsets
           /\ DataPos(p, n) \in Nat /\ EndPos(p, n) = DataPos(p, n) + n
           /\ \A k \in 1 .. n :
                 /\ DataPos(p, n) + k - 1 \in Footprint(p, n)
                 /\ DataPos(p, n) + k - 1 \in Offsets
                 /\ DataPos(p, n) + k - 1 \notin {HeaderPos(p), HeaderPos(p) + 1}
  BY SizeAssumption DEF Footprint, EndPos, HeaderPos, DataPos, Fits, Offsets

(* A header that is whole gives the reader one length, the right one.      *)
LEMMA OneLength ==
    ASSUME NEW m, NEW p, NEW n \in Lengths, HeaderIs(m, p, n)
    PROVE  HeaderValues(m, p) = {n}
<1>1. \A k \in Lengths : HeaderIs(m, p, k) => k = n
  BY DEF HeaderIs, HeaderByte
<1>2. {k \in Lengths : HeaderIs(m, p, k)} = {n}
  BY <1>1
<1>3. QED
  BY <1>2 DEF HeaderValues

------------------------------------------------------------------------------
(* Chains of records.                                                      *)

LEMMA SizesArePositive == Sizes \subseteq Nat \ {0} /\ Sizes \subseteq Lengths
  BY LenAssumption DEF Sizes, Lengths

LEMMA ChainTypes ==
    ASSUME NEW h, NEW t, NEW q, Chained(h, t, q)
    PROVE  /\ Len(q) \in Nat /\ DOMAIN q = 1 .. Len(q)
           /\ q # << >> <=> 1 \in 1 .. Len(q)
           /\ \A i \in 1 .. Len(q) : /\ q[i] \in Recs /\ q[i].pos \in Offsets
                                     /\ q[i].msg.len \in Nat \ {0} /\ q[i].msg.len \in Sizes
                                     /\ q[i].msg.id \in Nat
<1>1. q \in Seq(Recs)
  BY DEF Chained
<1>2. \A i \in 1 .. Len(q) : q[i] \in Recs
  BY <1>1, ElementOfSeq
<1>4. q # << >> <=> 1 \in 1 .. Len(q)
  BY <1>1
<1>5. ASSUME NEW i \in 1 .. Len(q)
      PROVE  /\ q[i] \in Recs /\ q[i].pos \in Offsets
             /\ q[i].msg.len \in Nat \ {0} /\ q[i].msg.len \in Sizes
             /\ q[i].msg.id \in Nat
  <2>1. q[i] \in Recs
    BY <1>2
  <2>2. q[i].pos \in Offsets /\ q[i].msg \in [id : Nat, len : Sizes]
    BY <2>1 DEF Recs
  <2>3. q[i].msg.len \in Sizes /\ q[i].msg.id \in Nat
    BY <2>2
  <2>4. QED
    BY <2>1, <2>2, <2>3, SizesArePositive
<1>6. Len(q) \in Nat /\ DOMAIN q = 1 .. Len(q)
  BY <1>1, LenProperties
<1>7. QED
  BY <1>4, <1>5, <1>6

LEMMA ChainInUse ==
    ASSUME NEW h, NEW t, NEW q, Chained(h, t, q), NEW i \in 1 .. Len(q),
           NEW p, p = q[i].pos, NEW n, n = q[i].msg.len, NEW e, e = After(h, q, i)
    PROVE  /\ p \in Offsets /\ n \in Nat \ {0} /\ e \in Offsets /\ EndPos(p, n) = e /\ Fits(p, n)
           /\ Ahead(t, p) < Ahead(t, e) /\ Ahead(t, e) <= Ahead(t, h)
           /\ Footprint(p, n) \subseteq Used(h, t)
<1>1. p \in Offsets /\ n \in Nat \ {0} /\ h \in Offsets /\ t \in Offsets /\ Len(q) \in Nat
  BY ChainTypes DEF Chained
<1>2. e \in Offsets /\ Ahead(t, p) < Ahead(t, e) /\ Ahead(t, e) <= Ahead(t, h)
  <2>1. CASE i = Len(q)
    <3>1. e = h /\ Ahead(t, p) < Ahead(t, h)
      BY <2>1 DEF After, Chained
    <3>2. QED
      BY <1>1, <3>1, SizeAssumption DEF Ahead, Offsets
  <2>2. CASE i # Len(q)
    <3>1. i + 1 \in 1 .. Len(q) /\ i < i + 1
      BY <1>1, <2>2
    <3>2. e = q[i + 1].pos
      BY <2>2 DEF After
    <3>3. Ahead(t, p) < Ahead(t, e) /\ Ahead(t, e) < Ahead(t, h) /\ e \in Offsets
      BY <3>1, <3>2, ChainTypes DEF Chained
    <3>4. QED
      BY <1>1, <3>3, SizeAssumption DEF Ahead, Offsets
  <2>3. QED
    BY <2>1, <2>2
<1>3. EndPos(p, n) = e /\ Fits(p, n)
  BY DEF Chained
<1>4. Footprint(p, n) \subseteq Used(e, t)
  BY <1>1, <1>2, <1>3, FootprintInArc
<1>5. Used(e, t) \subseteq Used(h, t)
  BY <1>1, <1>2, ArcGrows
<1>6. QED
  BY <1>1, <1>2, <1>3, <1>4, <1>5

LEMMA ChainAppend ==
    ASSUME NEW h, NEW t, NEW q, Chained(h, t, q), NEW rec \in Recs, rec.pos = h,
           NEW s, s = Append(q, rec), NEW g \in Offsets, Ahead(t, h) < Ahead(t, g),
           EndPos(rec.pos, rec.msg.len) = g, Fits(rec.pos, rec.msg.len)
    PROVE  Chained(g, t, s)
<1> DEFINE L == Len(q)
<1>1. /\ h \in Offsets /\ t \in Offsets /\ L \in Nat
      /\ q \in Seq(Recs) /\ rec \in Recs
  BY DEF Chained, Recs
<1>2. /\ s \in Seq(Recs) /\ Len(s) = L + 1 /\ s[L + 1] = rec
      /\ \A i \in 1 .. L : s[i] = q[i]
  BY <1>1, AppendProperties
<1>3. s # << >> /\ s[1].pos = t
  <2>1. CASE q = << >>
    <3>1. L = 0 /\ t = h
      BY <2>1 DEF Chained
    <3>2. QED
      BY <1>2, <3>1
  <2>2. CASE q # << >>
    <3>1. 1 \in 1 .. L /\ q[1].pos = t
      BY <2>2, ChainTypes DEF Chained
    <3>2. QED
      BY <1>2, <3>1
  <2>3. QED
    BY <2>1, <2>2
<1> HIDE DEF L
<1>4. \A x, y, z \in Offsets : Ahead(x, y) \in Int
  BY SizeAssumption DEF Ahead, Offsets
<1>5. \A i \in 1 .. L : q[i].pos \in Offsets /\ Ahead(t, q[i].pos) < Ahead(t, h)
  BY ChainTypes DEF Chained, L
<1>6. ASSUME NEW i \in 1 .. L + 1
      PROVE  /\ EndPos(s[i].pos, s[i].msg.len) = After(g, s, i)
             /\ Fits(s[i].pos, s[i].msg.len)
             /\ Ahead(t, s[i].pos) < Ahead(t, g)
  <2>1. CASE i = L + 1
    BY <1>2, <2>1 DEF After
  <2>2. CASE i # L + 1
    <3>1. i \in 1 .. L /\ s[i] = q[i]
      BY <1>1, <1>2, <2>2
    <3>2. EndPos(q[i].pos, q[i].msg.len) = After(h, q, i) /\ Fits(q[i].pos, q[i].msg.len)
      BY <3>1 DEF Chained, L
    <3>3. Ahead(t, q[i].pos) < Ahead(t, g)
      BY <1>1, <1>4, <1>5, <3>1
    <3>4. After(g, s, i) = After(h, q, i)
      <4>1. CASE i = L
        BY <1>1, <1>2, <4>1 DEF After, L
      <4>2. CASE i # L
        <5>1. i + 1 \in 1 .. L /\ i # L + 1
          BY <1>1, <3>1, <4>2
        <5>2. QED
          BY <1>2, <4>2, <5>1 DEF After, L
      <4>3. QED
        BY <4>1, <4>2
    <3>5. QED
      BY <3>1, <3>2, <3>3, <3>4
  <2>3. QED
    BY <2>1, <2>2
<1>7. ASSUME NEW i \in 1 .. L + 1, NEW j \in 1 .. L + 1, i < j
      PROVE  Ahead(t, s[i].pos) < Ahead(t, s[j].pos)
  <2>1. i \in 1 .. L /\ s[i] = q[i]
    BY <1>1, <1>2, <1>7
  <2>2. CASE j = L + 1
    BY <1>2, <1>5, <2>1, <2>2
  <2>3. CASE j # L + 1
    <3>1. j \in 1 .. L /\ s[j] = q[j]
      BY <1>1, <1>2, <2>3
    <3>2. QED
      BY <1>7, <2>1, <3>1 DEF Chained, L
  <2>4. QED
    BY <2>2, <2>3
<1>8. QED
  BY <1>1, <1>2, <1>3, <1>6, <1>7 DEF Chained, L

LEMMA ChainTail ==
    ASSUME NEW h, NEW t, NEW q, Chained(h, t, q), q # << >>
    PROVE  /\ Chained(h, After(h, q, 1), Tail(q))
           /\ EndPos(t, q[1].msg.len) = After(h, q, 1)
           /\ Ahead(After(h, q, 1), h) + q[1].msg.len + 2 <= Ahead(t, h)
           /\ DataPos(t, q[1].msg.len) \in Nat
           /\ DataPos(t, q[1].msg.len) + q[1].msg.len = After(h, q, 1)
<1> DEFINE L == Len(q)
<1> PICK u, s, n : u = After(h, q, 1) /\ s = Tail(q) /\ n = q[1].msg.len
  OBVIOUS
<1>1. q \in Seq(Recs) /\ 1 \in 1 .. L /\ L \in Nat /\ h \in Offsets /\ t \in Offsets /\ q[1].pos = t
  BY ChainTypes DEF Chained
<1>2. /\ s \in Seq(Recs) /\ Len(s) = L - 1
      /\ \A i \in 1 .. L - 1 : s[i] = q[i + 1]
  BY <1>1, HeadTailProperties
<1>3. /\ u \in Offsets /\ n \in Nat \ {0} /\ EndPos(t, n) = u /\ Fits(t, n)
      /\ Ahead(t, t) < Ahead(t, u) /\ Ahead(t, u) <= Ahead(t, h)
  BY <1>1, ChainInUse
<1>4. /\ Ahead(u, h) + n + 2 <= Ahead(t, h)
      /\ DataPos(t, n) \in Nat /\ DataPos(t, n) + n = u
  <2>1. 0 < Ahead(t, u)
    BY <1>1, <1>3, SizeAssumption DEF Ahead, Offsets
  <2>2. QED
    BY <1>1, <1>3, <2>1, TailComesNearer
<1> HIDE DEF L
<1>5. \A i \in 1 .. L : q[i].pos \in Offsets /\ Ahead(t, q[i].pos) < Ahead(t, h)
  BY ChainTypes DEF Chained, L
<1>6. L = 1 => u = h
  BY DEF After, L
<1>7. L # 1 => 2 \in 1 .. L /\ u = q[2].pos
  <2>1. 1 + 1 = 2
    OBVIOUS
  <2>2. L # 1 => 2 \in 1 .. L
    BY <1>1
  <2>3. L # 1 => u = q[1 + 1].pos
    BY DEF After, L
  <2>4. QED
    BY <2>1, <2>2, <2>3
<1>8. ASSUME NEW i \in 1 .. L - 1
      PROVE  /\ i + 1 \in 1 .. L /\ s[i] = q[i + 1]
             /\ Ahead(t, u) <= Ahead(t, q[i + 1].pos)
  <2>1. i + 1 \in 1 .. L /\ s[i] = q[i + 1] /\ L # 1
    BY <1>1, <1>2
  <2>2. Ahead(t, u) \in Int /\ Ahead(t, q[i + 1].pos) \in Int
    <3>1. q[i + 1].pos \in Offsets
      BY <1>5, <2>1
    <3>2. \A x, y \in Offsets : Ahead(x, y) \in Int
      BY SizeAssumption DEF Ahead, Offsets
    <3>3. QED
      BY <1>1, <1>3, <3>1, <3>2
  <2>3. i = 1 => u = q[i + 1].pos
    BY <1>7, <2>1
  <2>4. i # 1 => Ahead(t, u) < Ahead(t, q[i + 1].pos)
    <3>1. i # 1 => 2 < i + 1
      OBVIOUS
    <3>2. i # 1 => Ahead(t, q[2].pos) < Ahead(t, q[i + 1].pos)
      BY <1>7, <2>1, <3>1 DEF Chained, L
    <3>3. QED
      BY <1>7, <2>1, <3>2
  <2>5. i = 1 => Ahead(t, u) = Ahead(t, q[i + 1].pos)
    BY <2>3, Zenon
  <2>6. \A x, y \in Int : x = y \/ x < y => x <= y
    OBVIOUS
  <2>7. Ahead(t, u) <= Ahead(t, q[i + 1].pos)
    BY <2>2, <2>4, <2>5, <2>6, Zenon
  <2>8. QED
    BY <2>1, <2>7
<1>9. ASSUME NEW i \in 1 .. L - 1
      PROVE  /\ EndPos(s[i].pos, s[i].msg.len) = After(h, s, i)
             /\ Fits(s[i].pos, s[i].msg.len)
             /\ Ahead(u, s[i].pos) < Ahead(u, h)
  <2>1. EndPos(s[i].pos, s[i].msg.len) = After(h, q, i + 1) /\ Fits(s[i].pos, s[i].msg.len)
    BY <1>8 DEF Chained, L
  <2>2. Ahead(u, s[i].pos) < Ahead(u, h)
    BY <1>1, <1>3, <1>5, <1>8, OrderSurvives
  <2>3. After(h, s, i) = After(h, q, i + 1)
    <3>1. CASE i = L - 1
      BY <1>1, <1>2, <3>1 DEF After, L
    <3>2. CASE i # L - 1
      <4>1. i + 1 \in 1 .. L - 1 /\ i # Len(s) /\ i + 1 # L
        BY <1>1, <1>2, <3>2
      <4>2. s[i + 1] = q[(i + 1) + 1]
        BY <1>2, <4>1
      <4>3. QED
        BY <4>1, <4>2 DEF After, L
    <3>3. QED
      BY <3>1, <3>2
  <2>4. QED
    BY <2>1, <2>2, <2>3
<1>10. ASSUME NEW i \in 1 .. L - 1, NEW j \in 1 .. L - 1, i < j
       PROVE  Ahead(u, s[i].pos) < Ahead(u, s[j].pos)
  <2>1. i + 1 \in 1 .. L /\ j + 1 \in 1 .. L /\ i + 1 < j + 1
    BY <1>1, <1>10
  <2>2. Ahead(t, q[i + 1].pos) < Ahead(t, q[j + 1].pos)
    BY <2>1 DEF Chained, L
  <2>3. QED
    BY <1>1, <1>3, <1>5, <1>8, <2>1, <2>2, OrderSurvives
<1>11. (s = << >> => u = h) /\ (s # << >> => s[1].pos = u)
  <2>1. CASE L = 1
    BY <1>2, <1>6, <2>1
  <2>2. CASE L # 1
    <3>1. 1 \in 1 .. L - 1
      BY <1>1, <2>2
    <3>2. s[1] = q[2]
      BY <1>2, <3>1
    <3>3. s # << >>
      BY <1>2, <3>1
    <3>4. QED
      BY <1>7, <2>2, <3>2, <3>3
  <2>3. QED
    BY <2>1, <2>2
<1>12. Chained(h, u, s)
  BY <1>1, <1>2, <1>3, <1>9, <1>10, <1>11 DEF Chained
<1>13. QED
  BY <1>1, <1>2, <1>3, <1>4, <1>8, <1>12 DEF L

------------------------------------------------------------------------------
(* Memory, as the reader and the writer see it.                            *)

LEMMA WholeKept ==
    ASSUME NEW h, NEW t, NEW q, Chained(h, t, q), NEW i \in 1 .. Len(q),
           NEW m1, NEW m2, Whole(m1, q[i]), \A a \in Used(h, t) : m2[a] = m1[a]
    PROVE  Whole(m2, q[i])
<1> DEFINE p == q[i].pos
           n == q[i].msg.len
<1>1. /\ p \in Offsets /\ n \in Nat /\ EndPos(p, n) \in Offsets /\ Fits(p, n)
      /\ Footprint(p, n) \subseteq Used(h, t)
  BY ChainInUse
<1>2. /\ HeaderPos(p) \in Used(h, t) /\ HeaderPos(p) + 1 \in Used(h, t)
      /\ \A k \in 1 .. n : DataPos(p, n) + k - 1 \in Used(h, t)
  BY <1>1, RecordParts
<1>3. HeaderIs(m2, HeaderPos(p), n)
  BY <1>2 DEF Whole, HeaderIs
<1>4. \A k \in 1 .. n : m2[DataPos(p, n) + k - 1] = MsgByte(q[i].msg, k)
  BY <1>2 DEF Whole
<1>5. QED
  BY <1>3, <1>4 DEF Whole

(* What the producer counts: the bytes in use, and the record held.        *)
LEMMA SumOfHandlers ==
    ASSUME NEW x, NEW S, S = {} \/ S = {x}
    PROVE  MapThenSumSet(LAMBDA c : r[c].len + 2, S) = IF S = {} THEN 0 ELSE (r[x].len + 2) + 0
<1> DEFINE choose(s) == CHOOSE c \in s : TRUE
           Def(g) == g = [s \in SUBSET S |-> IF s = {} THEN 0
                                             ELSE (r[choose(s)].len + 2) + g[s \ {choose(s)}]]
           iter == CHOOSE g : Def(g)
           wit == [s \in SUBSET S |-> IF s = {} THEN 0 ELSE (r[x].len + 2) + 0]
<1>1. \A s \in SUBSET S : s # {} => choose(s) = x /\ s \ {choose(s)} = {}
  OBVIOUS
<1>2. Def(wit)
  BY <1>1
<1>3. Def(iter)
  <2>1. \E g : Def(g)
    BY <1>2
  <2> HIDE DEF Def
  <2>2. QED
    BY <2>1
<1>4. MapThenSumSet(LAMBDA c : r[c].len + 2, S) = iter[S]
  BY DEF MapThenSumSet, MapThenFoldSet
<1> HIDE DEF iter
<1>5. iter[{}] = 0 /\ (S # {} => iter[S] = (r[x].len + 2) + iter[{}])
  BY <1>1, <1>3
<1>6. QED
  BY <1>4, <1>5

LEMMA PushHasRoom ==
    ASSUME Modest, IInv, NEW n \in Lengths \ {0}, Outstanding + n + 2 <= Backlog
    PROVE  Room(n)
<1> DEFINE S == {c \in Consumers : r[c].pc = "handle"}
<1>1. head \in Offsets /\ tail \in Offsets
  BY DEF IInv, Ring, Chained
<1>2. S = IF rd.pc = "handle" THEN {Reader} ELSE {}
  BY DEF Modest, rd
<1>3. Outstanding = Ahead(tail, head) + IF rd.pc = "handle" THEN (rd.len + 2) + 0 ELSE 0
  BY <1>2, SumOfHandlers DEF Outstanding, Ahead, rd
<1>4. rd.pc = "handle" => rd.len \in Nat
  BY LenAssumption DEF IInv, Reading, Sizes
<1>5. n \in Nat /\ n <= MaxLen /\ MaxLen \in Nat /\ Backlog + MaxLen < Size /\ Backlog \in Nat
  BY LenAssumption, BacklogAssumption DEF Lengths, Modest
<1>6. Ahead(tail, head) \in Nat
  BY <1>1, SizeAssumption DEF Ahead, Offsets
<1>7. QED
  BY <1>3, <1>4, <1>5, <1>6, SizeAssumption DEF Room, Held

(* While a record is written, only bytes change that neither the records   *)
(* in the ring nor the handler use.                                        *)
LEMMA WriteSpares ==
    ASSUME IInv, w.pc # "idle", NEW n, n = w.msg.len, NEW m2,
           \A a \in Offsets \ Footprint(head, n) : m2[a] = mem[a]
    PROVE  /\ n \in Nat \ {0} /\ head \in Offsets /\ tail \in Offsets
           /\ EndPos(head, n) \in Offsets /\ Fits(head, n)
           /\ Ahead(tail, head) < Ahead(tail, EndPos(head, n))
           /\ \A i \in 1 .. Len(pending) : Whole(m2, pending[i])
           /\ rd.pc = "handle" => \A k \in 1 .. rd.len : m2[rd.pos + k - 1] = MsgByte(rd.rec, k)
<1>1. /\ Chained(head, tail, pending) /\ head \in Offsets /\ tail \in Offsets
      /\ n \in Nat \ {0}
  <2>1. Chained(head, tail, pending) /\ head \in Offsets /\ tail \in Offsets
    BY DEF IInv, Ring, Chained
  <2>2. n \in Sizes
    BY DEF IInv, Writing
  <2>3. QED
    BY <2>1, <2>2, SizesArePositive
<1>2. Ahead(tail, head) + Held + 2 * n + 2 < Size
  BY DEF IInv, Writing, Room
<1>3. rd.pc = "handle" => /\ rd.len \in Nat /\ rd.pos \in Nat /\ rd.pos + rd.len = tail
                          /\ \A k \in 1 .. rd.len : mem[rd.pos + k - 1] = MsgByte(rd.rec, k)
  BY SizesArePositive DEF IInv, Reading
<1>4. Held \in 0 .. tail
  BY <1>1, <1>3 DEF Held, Offsets
<1>5. Ahead(tail, head) + 2 * n + 2 < Size
  BY <1>1, <1>2, <1>4, SizeAssumption DEF Ahead, Offsets
<1>6. /\ EndPos(head, n) \in Offsets /\ Fits(head, n)
      /\ Ahead(tail, head) < Ahead(tail, EndPos(head, n))
  BY <1>1, <1>5, RoomyAdvances
<1>7. /\ Footprint(head, n) \cap Used(head, tail) = {}
      /\ Footprint(head, n) \cap (tail - Held .. tail - 1) = {}
  BY <1>1, <1>2, <1>4, RoomyIsFree
<1>8. Used(head, tail) \subseteq Offsets /\ (tail - Held .. tail - 1) \subseteq Offsets
  BY <1>1, <1>4, SizeAssumption DEF Used, Offsets
<1>9. \A i \in 1 .. Len(pending) : Whole(m2, pending[i])
  <2>1. \A a \in Used(head, tail) : m2[a] = mem[a]
    BY <1>7, <1>8
  <2>2. \A i \in 1 .. Len(pending) : Whole(mem, pending[i])
    BY DEF IInv, Ring
  <2>3. QED
    BY <1>1, <2>1, <2>2, WholeKept
<1>10. ASSUME rd.pc = "handle", NEW k \in 1 .. rd.len
       PROVE  m2[rd.pos + k - 1] = MsgByte(rd.rec, k)
  <2>1. rd.pos + k - 1 \in tail - Held .. tail - 1
    BY <1>1, <1>3, <1>10 DEF Held, Offsets
  <2>2. m2[rd.pos + k - 1] = mem[rd.pos + k - 1]
    BY <1>7, <1>8, <2>1
  <2>3. QED
    BY <1>3, <1>10, <2>2
<1>11. QED
  BY <1>1, <1>6, <1>9, <1>10

------------------------------------------------------------------------------
(* write1.                                                                 *)

LEMMA OnlyWriterMoves ==
    ASSUME IInv, UNCHANGED <<head, tail, mem, r, sent, pending, handled>>
    PROVE  Ring' /\ Reading' /\ Done'
<1>1. Ring'
  BY DEF IInv, Ring
<1>2. Reading'
  BY DEF IInv, Reading, Popped, rd
<1>3. Done'
  BY DEF IInv, Done, Popped, rd
<1>4. QED
  BY <1>1, <1>2, <1>3

LEMMA PushKeeps ==
    ASSUME Modest, IInv, ~late, NEW n \in Lengths \ {0}, Push(n)
    PROVE  IInv'
<1>1. /\ client = "attached" /\ w.pc = "idle"
      /\ w' = [pc |-> "test1", start |-> head, pos |-> head + 2, msg |-> Msg(sent + 1, n), done |-> 0]
      /\ UNCHANGED <<head, tail, mem, client, r, sent, pending, handled, late>>
      /\ Outstanding + n + 2 <= Backlog
  BY DEF Push
<1>2. Ring' /\ Reading' /\ Done'
  BY <1>1, OnlyWriterMoves
<1>3. Unused'
  BY <1>1 DEF Unused
<1>4. Writing'
  <2>1. Room(n)'
    BY <1>1, PushHasRoom DEF Room, Held, rd
  <2>2. /\ w'.pc = "test1" /\ w'.start = head /\ w'.pos = head + 2 /\ w'.done = 0
        /\ w'.msg = Msg(sent + 1, n) /\ w'.msg.len = n
    BY <1>1 DEF Msg
  <2>3. DOMAIN w' = {"pc", "start", "pos", "msg", "done"}
    BY <1>1
  <2>4. n \in Sizes
    BY LenAssumption DEF Lengths, Sizes
  <2>5. QED
    BY <1>1, <2>1, <2>2, <2>3, <2>4 DEF Writing, Room, Held, rd
<1>5. QED
  BY <1>2, <1>3, <1>4 DEF IInv

(* What the loads of tail say does not matter.                             *)
LEMMA TestKeeps ==
    ASSUME IInv, NEW pc, NEW next, WriterTest(pc, next),
           pc \notin {"idle", "copy"}, next \notin {"idle", "copy"}
    PROVE  IInv'
<1>1. /\ w.pc = pc /\ UNCHANGED <<head, tail, mem, client, r, sent, pending, handled, late>>
      /\ w' = IF next = "refused" THEN WriterIdle ELSE [w EXCEPT !.pc = next]
  BY DEF WriterTest
<1>2. Ring' /\ Reading' /\ Done'
  BY <1>1, OnlyWriterMoves
<1>3. Unused'
  BY <1>1 DEF IInv, Unused
<1>4. Writing'
  <2>1. CASE next = "refused"
    BY <1>1, <2>1 DEF Writing, WriterIdle
  <2>2. CASE next # "refused"
    <3>1. /\ w'.pc = next /\ w'.start = w.start /\ w'.pos = w.pos /\ w'.done = w.done /\ w'.msg = w.msg
          /\ DOMAIN w' = DOMAIN w
      BY <1>1, <2>2 DEF IInv, Writing
    <3>2. QED
      BY <1>1, <3>1 DEF IInv, Writing, Room, Held, rd
  <2>3. QED
    BY <2>1, <2>2
<1>5. QED
  BY <1>2, <1>3, <1>4 DEF IInv

LEMMA ReaderLeftAlone ==
    ASSUME IInv, UNCHANGED <<tail, r, sent, pending, handled>>,
           rd.pc = "handle" => \A k \in 1 .. rd.len : mem'[rd.pos + k - 1] = MsgByte(rd.rec, k)
    PROVE  Reading' /\ Done'
<1>1. rd' = rd /\ Popped' = Popped
  BY DEF Popped, rd
<1>2. Reading'
  BY <1>1 DEF IInv, Reading
<1>3. Done'
  BY <1>1 DEF IInv, Done
<1>4. QED
  BY <1>2, <1>3

LEMMA StoreHeaderKeeps ==
    ASSUME IInv, StoreHeader
    PROVE  IInv'
<1> DEFINE n == w.msg.len
           at == HeaderPos(head)
<1>1. /\ w.pc = "header" /\ UNCHANGED <<head, tail, client, r, sent, pending, handled, late>>
      /\ w.pos = head + 2 /\ w.done = 0
      /\ w.start = head /\ w.msg = Msg(sent + 1, n) /\ n \in Sizes /\ Room(n)
      /\ DOMAIN w = {"pc", "start", "pos", "msg", "done"} /\ DOMAIN mem = Offsets
  BY DEF IInv, Writing, Ring, StoreHeader
<1>2. n \in Nat \ {0} /\ head \in Offsets
  BY <1>1, WriteSpares
<1>3. at = IF head = Size - 1 THEN 0 ELSE w.pos - 2
  BY <1>1, <1>2 DEF HeaderPos, Offsets
<1>4. /\ mem' = [mem EXCEPT ![at] = HeaderByte(1, n), ![at + 1] = HeaderByte(2, n)]
      /\ w' = [w EXCEPT !.pc = "copy",
                        !.pos = IF head = Size - 1 THEN 2
                                ELSE IF w.pos + w.msg.len >= Size THEN 0 ELSE w.pos]
  BY <1>3, Zenon DEF StoreHeader
<1>5. EndPos(head, n) \in Offsets /\ Fits(head, n)
  BY <1>1, WriteSpares
<1>6. at \in Offsets /\ at + 1 \in Offsets /\ at \in Footprint(head, n) /\ at + 1 \in Footprint(head, n)
  BY <1>2, <1>5, RecordParts
<1>7. /\ DOMAIN mem' = Offsets /\ HeaderIs(mem', at, n)
      /\ \A a \in Offsets \ Footprint(head, n) : mem'[a] = mem[a]
  BY <1>1, <1>4, <1>6, SizeAssumption DEF HeaderIs, Offsets
<1>8. PICK m2 : m2 = mem'
  OBVIOUS
<1>9. /\ \A i \in 1 .. Len(pending) : Whole(m2, pending[i])
      /\ rd.pc = "handle" => \A k \in 1 .. rd.len : m2[rd.pos + k - 1] = MsgByte(rd.rec, k)
  BY <1>1, <1>7, <1>8, WriteSpares
<1>10. Ring'
  BY <1>1, <1>7, <1>8, <1>9 DEF IInv, Ring
<1>11. Reading' /\ Done'
  BY <1>1, <1>8, <1>9, ReaderLeftAlone
<1>12. Unused'
  BY <1>1 DEF IInv, Unused
<1>13. Writing'
  <2>1. /\ w'.pc = "copy" /\ w'.start = head /\ w'.msg = w.msg /\ w'.done = 0
        /\ DOMAIN w' = {"pc", "start", "pos", "msg", "done"}
        /\ w'.pos = IF head = Size - 1 THEN 2 ELSE IF w.pos + w.msg.len >= Size THEN 0 ELSE w.pos
    BY <1>1, <1>4
  <2>2. w'.pos = DataPos(head, n)
    BY <1>1, <1>2, <2>1 DEF DataPos, Offsets
  <2>3. Room(n)'
    BY <1>1, <2>1 DEF Room, Held, rd
  <2>4. HeaderIs(m2, at, n) /\ w'.done \in 0 .. n
    BY <1>2, <1>7, <1>8, <2>1
  <2>5. \A k \in 1 .. w'.done : m2[w'.pos + k - 1] = MsgByte(w'.msg, k)
    BY <2>1
  <2>6. QED
    BY <1>1, <1>8, <2>1, <2>2, <2>3, <2>4, <2>5 DEF Writing, Room, Held, rd
<1>14. QED
  BY <1>10, <1>11, <1>12, <1>13 DEF IInv

LEMMA CopyByteKeeps ==
    ASSUME IInv, CopyByte
    PROVE  IInv'
<1> DEFINE n == w.msg.len
           a1 == w.pos + w.done
<1>1. /\ w.pc = "copy" /\ UNCHANGED <<head, tail, client, r, sent, pending, handled, late>>
      /\ w.pos = DataPos(head, n) /\ w.done \in 0 .. n /\ w.done < n
      /\ w.start = head /\ w.msg = Msg(sent + 1, n) /\ n \in Sizes /\ Room(n)
      /\ HeaderIs(mem, HeaderPos(head), n)
      /\ \A k \in 1 .. w.done : mem[w.pos + k - 1] = MsgByte(w.msg, k)
      /\ DOMAIN w = {"pc", "start", "pos", "msg", "done"} /\ DOMAIN mem = Offsets
      /\ mem' = [mem EXCEPT ![a1] = MsgByte(w.msg, w.done + 1)]
      /\ w' = [w EXCEPT !.done = @ + 1]
  BY DEF IInv, Writing, Ring, CopyByte
<1>2. n \in Nat \ {0} /\ head \in Offsets /\ EndPos(head, n) \in Offsets /\ Fits(head, n)
  BY <1>1, WriteSpares
<1>3. /\ HeaderPos(head) \in Offsets /\ HeaderPos(head) + 1 \in Offsets /\ w.pos \in Nat
      /\ \A k \in 1 .. n : /\ w.pos + k - 1 \in Footprint(head, n)
                           /\ w.pos + k - 1 \in Offsets
                           /\ w.pos + k - 1 \notin {HeaderPos(head), HeaderPos(head) + 1}
  BY <1>1, <1>2, RecordParts
<1>4. w.done \in Nat /\ w.done + 1 \in 1 .. n /\ a1 = w.pos + (w.done + 1) - 1
  BY <1>1, <1>2, <1>3
<1>5. a1 \in Offsets /\ a1 \in Footprint(head, n) /\ a1 \notin {HeaderPos(head), HeaderPos(head) + 1}
  BY <1>3, <1>4
<1> HIDE DEF a1
<1>6. /\ DOMAIN mem' = Offsets /\ mem'[a1] = MsgByte(w.msg, w.done + 1)
      /\ \A a \in Offsets \ {a1} : mem'[a] = mem[a]
  BY <1>1, <1>5
<1>7. PICK m2 : m2 = mem'
  OBVIOUS
<1>8. /\ \A i \in 1 .. Len(pending) : Whole(m2, pending[i])
      /\ rd.pc = "handle" => \A k \in 1 .. rd.len : m2[rd.pos + k - 1] = MsgByte(rd.rec, k)
  <2>1. \A a \in Offsets \ Footprint(head, n) : m2[a] = mem[a]
    BY <1>5, <1>6, <1>7
  <2>2. w.pc # "idle"
    BY <1>1
  <2>3. QED
    BY <2>1, <2>2, WriteSpares
<1>9. Ring'
  BY <1>1, <1>6, <1>7, <1>8 DEF IInv, Ring
<1>10. Reading' /\ Done'
  BY <1>1, <1>7, <1>8, ReaderLeftAlone
<1>11. Unused'
  BY <1>1 DEF IInv, Unused
<1>12. Writing'
  <2>1. /\ w'.pc = "copy" /\ w'.start = head /\ w'.msg = w.msg /\ w'.done = w.done + 1
        /\ DOMAIN w' = {"pc", "start", "pos", "msg", "done"} /\ w'.pos = w.pos
    BY <1>1
  <2>2. Room(n)'
    BY <1>1, <2>1 DEF Room, Held, rd
  <2>3. HeaderIs(m2, HeaderPos(head), n)
    BY <1>1, <1>3, <1>5, <1>6, <1>7 DEF HeaderIs
  <2>4. \A k \in 1 .. w.done + 1 : m2[w.pos + k - 1] = MsgByte(w.msg, k)
    <3>1. ASSUME NEW k \in 1 .. w.done + 1
          PROVE  m2[w.pos + k - 1] = MsgByte(w.msg, k)
      <4>1. CASE k = w.done + 1
        BY <1>4, <1>6, <1>7, <4>1
      <4>2. CASE k # w.done + 1
        <5>1. k \in 1 .. w.done /\ k \in 1 .. n
          BY <1>2, <1>4, <4>2
        <5>2. w.pos + k - 1 \in Offsets \ {a1}
          BY <1>3, <1>4, <4>2, <5>1
        <5>3. QED
          BY <1>1, <1>6, <1>7, <5>1, <5>2
      <4>3. QED
        BY <4>1, <4>2
    <3>2. QED
      BY <3>1
  <2>5. w'.done \in 0 .. n
    BY <1>2, <1>4, <2>1
  <2>6. QED
    BY <1>1, <1>7, <2>1, <2>2, <2>3, <2>4, <2>5 DEF Writing, Room, Held, rd
<1>13. QED
  BY <1>9, <1>10, <1>11, <1>12 DEF IInv

LEMMA PublishKeeps ==
    ASSUME IInv, Publish
    PROVE  IInv'
<1> DEFINE n == w.msg.len
           L == Len(pending)
<1>1. /\ w.pc = "copy" /\ w.done = n /\ UNCHANGED <<tail, mem, client, r, handled, late>>
      /\ w.pos = DataPos(head, n) /\ w.start = head
      /\ w.msg = Msg(sent + 1, n) /\ n \in Sizes
      /\ HeaderIs(mem, HeaderPos(head), n)
      /\ \A k \in 1 .. n : mem[w.pos + k - 1] = MsgByte(w.msg, k)
      /\ head' = w.pos + n /\ w' = WriterIdle /\ sent' = sent + 1
      /\ pending' = Append(pending, [pos |-> head, msg |-> w.msg])
      /\ Chained(head, tail, pending) /\ sent \in Nat /\ DOMAIN mem = Offsets
      /\ Numbered(sent, pending) /\ \A i \in 1 .. L : Whole(mem, pending[i])
  BY DEF IInv, Writing, Ring, Publish
<1>2. /\ head \in Offsets /\ EndPos(head, n) \in Offsets /\ Fits(head, n)
      /\ Ahead(tail, head) < Ahead(tail, EndPos(head, n))
  BY <1>1, WriteSpares
<1>3. w.msg \in [id : Nat, len : Sizes] /\ w.msg.id = sent + 1
  BY <1>1 DEF Msg
<1>4. PICK g, s, rec : /\ g = head' /\ s = pending' /\ s = Append(pending, rec)
                       /\ rec = [pos |-> head, msg |-> w.msg]
  BY <1>1
<1>5. g = EndPos(head, n)
  BY <1>1, <1>4 DEF EndPos
<1>6. /\ Chained(g, tail, s) /\ Len(s) = L + 1 /\ L \in Nat
      /\ s[L + 1] = rec /\ \A i \in 1 .. L : s[i] = pending[i]
  <2>1. head \in Offsets /\ g \in Offsets
    BY <1>2, <1>5
  <2>2. rec \in Recs /\ rec.pos = head /\ rec.msg.len = n
    BY <1>3, <1>4, <2>1 DEF Recs
  <2>3. L \in Nat
    BY <1>1, ChainTypes
  <2>4. /\ EndPos(rec.pos, rec.msg.len) = g /\ Fits(rec.pos, rec.msg.len)
        /\ Ahead(tail, head) < Ahead(tail, g)
    BY <1>2, <1>5, <2>2
  <2>5. Chained(head, tail, pending) /\ s = Append(pending, rec)
    BY <1>1, <1>4
  <2>6. Chained(g, tail, s)
    BY <2>1, <2>2, <2>4, <2>5, ChainAppend
  <2>7. pending \in Seq(Recs)
    BY <2>5 DEF Chained
  <2>8. /\ Len(s) = L + 1 /\ s[L + 1] = rec
        /\ \A i \in 1 .. L : s[i] = pending[i]
    BY <2>2, <2>5, <2>7, AppendProperties
  <2>9. QED
    BY <2>3, <2>6, <2>8
<1> HIDE DEF L
<1>7. \A i \in 1 .. L + 1 : i \in 1 .. L \/ i = L + 1
  BY <1>6
<1>8. \A i \in 1 .. L + 1 : Whole(mem, s[i])
  <2>1. Whole(mem, s[L + 1])
    BY <1>1, <1>4, <1>6 DEF Whole
  <2>2. QED
    BY <1>1, <1>6, <1>7, <2>1
<1>9. Numbered(sent + 1, s)
  <2>1. s[L + 1].msg.id = sent + 1
    BY <1>3, <1>4, <1>6
  <2>2. \A i \in 1 .. L : s[i].msg.id = sent - L + i
    BY <1>1, <1>6 DEF Numbered, L
  <2>3. \A i \in 1 .. L + 1 : s[i].msg.id = (sent + 1) - (L + 1) + i
    BY <1>1, <1>6, <1>7, <2>1, <2>2
  <2>4. QED
    BY <1>6, <2>3 DEF Numbered
<1>10. Ring'
  BY <1>1, <1>4, <1>6, <1>8, <1>9 DEF Ring
<1>11. Popped' = Popped
  BY <1>1, <1>4, <1>6 DEF Popped, L
<1>12. pending # << >> => pending' # << >> /\ pending'[1] = pending[1]
  <2>1. pending # << >> => 1 \in 1 .. L
    BY <1>1, ChainTypes DEF L
  <2>2. s # << >>
    BY <1>6
  <2>3. QED
    BY <1>4, <1>6, <2>1, <2>2
<1>13. Reading'
  <2>1. UNCHANGED <<tail, mem, r>>
    BY <1>1
  <2>2. Reading
    BY DEF IInv
  <2>3. QED
    BY <1>11, <1>12, <2>1, <2>2 DEF Reading, rd
<1>14. Done'
  BY <1>1, <1>11 DEF IInv, Done, rd
<1>15. Unused'
  BY <1>1 DEF IInv, Unused
<1>16. Writing'
  BY <1>1 DEF Writing, WriterIdle
<1>17. QED
  BY <1>10, <1>13, <1>14, <1>15, <1>16 DEF IInv

------------------------------------------------------------------------------
(* read1 and the handler.                                                  *)

LEMMA OnlyReaderMoves ==
    ASSUME IInv, UNCHANGED <<head, tail, mem, client, w, sent, pending, late>>,
           client = "attached", Held \in Nat, Held' \in Nat, Held' <= Held
    PROVE  Ring' /\ Unused' /\ Writing' /\ Popped' = Popped
<1>1. Ring'
  BY DEF IInv, Ring
<1>2. Unused'
  BY DEF Unused
<1>3. Popped' = Popped
  BY DEF Popped
<1>4. Writing'
  <2>1. CASE w.pc = "idle"
    BY <2>1 DEF IInv, Writing
  <2>2. CASE w.pc # "idle"
    <3>1. head \in Offsets /\ tail \in Offsets /\ w.msg.len \in Nat /\ Room(w.msg.len)
      BY <2>2, SizesArePositive DEF IInv, Ring, Chained, Writing
    <3>2. \A x, y \in Offsets : Ahead(x, y) \in Nat
      BY SizeAssumption DEF Ahead, Offsets
    <3>3. Ahead(tail, head) \in Nat
      BY <3>1, <3>2
    <3>4. Room(w.msg.len)'
      BY <3>1, <3>3, SizeAssumption DEF Room
    <3>5. Writing
      BY DEF IInv
    <3>6. QED
      BY <2>2, <3>4, <3>5 DEF Writing
  <2>3. QED
    BY <2>1, <2>2
<1>5. QED
  BY <1>1, <1>2, <1>3, <1>4

(* One of the first steps of read1: the handler holds nothing.             *)
LEMMA QuietStep ==
    ASSUME Modest, IInv, UNCHANGED <<head, tail, mem, client, w, sent, pending, handled, late>>,
           client = "attached", rd.pc # "handle", rd'.pc # "handle", rd'.got = << >>,
           DOMAIN r' = Consumers, DOMAIN rd' = {"pc", "pos", "len", "rec", "got"},
           rd'.pc \in {"test1", "test2", "length"} => rd'.pos = tail + 2,
           rd'.pc \in {"length", "release"} => pending # << >>,
           rd'.pc = "release" => /\ rd'.len = pending[1].msg.len
                                 /\ rd'.pos = DataPos(tail, rd'.len)
    PROVE  IInv'
<1>1. Held = 0 /\ Held' = 0
  BY DEF Held
<1>2. Ring' /\ Unused' /\ Writing' /\ Popped' = Popped
  BY <1>1, OnlyReaderMoves
<1>3. Reading'
  BY DEF Reading
<1>4. Done'
  BY <1>2 DEF IInv, Done
<1>5. QED
  BY <1>2, <1>3, <1>4 DEF IInv

LEMMA PopKeeps ==
    ASSUME Modest, IInv, Pop(Reader)
    PROVE  IInv'
<1>1. /\ UNCHANGED <<head, tail, mem, client, w, sent, pending, handled, late>>
      /\ client = "attached" /\ rd.pc = "idle"
      /\ r' = [r EXCEPT ![Reader] = [ReaderIdle EXCEPT !.pc = "test1", !.pos = tail + 2]]
      /\ DOMAIN r = Consumers /\ Reader \in Consumers
  BY DEF Pop, rd, IInv, Reading, Modest
<1>2. rd' = [ReaderIdle EXCEPT !.pc = "test1", !.pos = tail + 2] /\ DOMAIN r' = Consumers
  BY <1>1 DEF rd
<1>3. /\ rd'.pc = "test1" /\ rd'.pos = tail + 2 /\ rd'.got = << >>
      /\ DOMAIN rd' = {"pc", "pos", "len", "rec", "got"}
  BY <1>2 DEF ReaderIdle
<1>4. QED
  BY <1>1, <1>2, <1>3, QuietStep

LEMMA PopTestsKeep ==
    ASSUME Modest, IInv, PopTestBehind(Reader) \/ PopTestEmpty(Reader)
    PROVE  IInv'
<1>1. /\ UNCHANGED <<head, tail, mem, client, w, sent, pending, handled, late>>
      /\ DOMAIN r = Consumers /\ Reader \in Consumers
      /\ rd.pc \in {"test1", "test2"} /\ rd.pos = tail + 2 /\ rd.got = << >>
      /\ DOMAIN rd = {"pc", "pos", "len", "rec", "got"}
  BY DEF PopTestBehind, PopTestEmpty, rd, IInv, Reading, Modest
<1>2. client = "attached"
  BY <1>1 DEF IInv, Unused
<1>3. head \in Offsets /\ tail \in Offsets /\ (pending = << >> => tail = head)
  BY DEF IInv, Ring, Chained
<1>4. \/ /\ rd' = [rd EXCEPT !.pc = IF tail <= head THEN "test2" ELSE "length"]
      \/ /\ rd.pos > head
         /\ rd' = ReaderIdle
      \/ /\ ~(rd.pos > head)
         /\ rd' = [rd EXCEPT !.pc = "length"]
  BY <1>1 DEF PopTestBehind, PopTestEmpty, rd
<1>5. DOMAIN r' = Consumers
  BY <1>1 DEF PopTestBehind, PopTestEmpty
<1>6. CASE rd' = ReaderIdle
  BY <1>1, <1>2, <1>5, <1>6, QuietStep DEF ReaderIdle
<1>7. CASE rd' # ReaderIdle
  <2>1. /\ rd'.pos = rd.pos /\ rd'.got = rd.got /\ DOMAIN rd' = DOMAIN rd
        /\ rd'.pc \in {"test2", "length"}
    BY <1>1, <1>4, <1>7
  <2>2. rd'.pc = "length" => tail # head
    BY <1>1, <1>3, <1>4, <1>7 DEF Offsets
  <2>3. rd'.pc \in {"length", "release"} => pending # << >>
    BY <1>3, <2>1, <2>2
  <2>4. QED
    BY <1>1, <1>2, <1>5, <2>1, <2>3, QuietStep
<1>8. QED
  BY <1>6, <1>7

LEMMA ReadLengthKeeps ==
    ASSUME Modest, IInv, ReadLength(Reader)
    PROVE  IInv'
<1> DEFINE n == pending[1].msg.len
<1>1. /\ UNCHANGED <<head, tail, mem, client, w, sent, pending, handled, late>>
      /\ DOMAIN r = Consumers /\ Reader \in Consumers
      /\ rd.pc = "length" /\ rd.pos = tail + 2 /\ rd.got = << >> /\ pending # << >>
      /\ DOMAIN rd = {"pc", "pos", "len", "rec", "got"}
  BY DEF ReadLength, rd, IInv, Reading, Modest
<1>2. client = "attached"
  BY <1>1 DEF IInv, Unused
<1>3. /\ Chained(head, tail, pending) /\ 1 \in 1 .. Len(pending) /\ pending[1].pos = tail
      /\ tail \in Offsets /\ Whole(mem, pending[1])
  BY <1>1, ChainTypes DEF IInv, Ring, Chained
<1>4. n \in Sizes /\ n \in Nat \ {0} /\ EndPos(tail, n) \in Offsets /\ Fits(tail, n)
  BY <1>3, ChainInUse, ChainTypes
<1>5. HeaderIs(mem, HeaderPos(tail), n) /\ HeaderPos(tail) + 1 \in Offsets
  BY <1>3, <1>4, RecordParts DEF Whole
<1>6. LengthsAt(HeaderPos(tail)) = {n}
  BY <1>4, <1>5, OneLength, SizesArePositive DEF LengthsAt
<1>7. /\ rd' = [rd EXCEPT !.pc = "release", !.len = n, !.pos = DataPos(tail, n)]
      /\ DOMAIN r' = Consumers
  <2>1. CASE tail = Size - 1
    <3>1. HeaderPos(tail) = 0 /\ DataPos(tail, n) = 2
      BY <2>1 DEF HeaderPos, DataPos
    <3>2. r' = [r EXCEPT ![Reader].pc = "release", ![Reader].len = n, ![Reader].pos = 2]
      BY <1>6, <2>1, <3>1 DEF ReadLength
    <3>3. QED
      BY <1>1, <3>1, <3>2 DEF rd
  <2>2. CASE tail # Size - 1
    <3>1. /\ HeaderPos(tail) = tail /\ rd.pos - 2 = tail
          /\ DataPos(tail, n) = IF rd.pos + n >= Size THEN 0 ELSE rd.pos
      BY <1>1, <1>3, <1>4, <2>2 DEF HeaderPos, DataPos, Offsets
    <3>2. r' = [r EXCEPT ![Reader].pc = "release", ![Reader].len = n,
                         ![Reader].pos = IF @ + n >= Size THEN 0 ELSE @]
      BY <1>6, <2>2, <3>1 DEF ReadLength, rd
    <3>3. QED
      BY <1>1, <3>1, <3>2 DEF rd
  <2>3. QED
    BY <2>1, <2>2
<1>8. /\ rd'.pc = "release" /\ rd'.len = n /\ rd'.pos = DataPos(tail, n) /\ rd'.got = << >>
      /\ DOMAIN rd' = {"pc", "pos", "len", "rec", "got"}
  BY <1>1, <1>7
<1>9. QED
  BY <1>1, <1>2, <1>7, <1>8, QuietStep

(* The record leaves the ring, its bytes come into the handler's hands.    *)
LEMMA ReleaseKeeps ==
    ASSUME Modest, IInv, Release(Reader)
    PROVE  IInv'
<1> DEFINE n == pending[1].msg.len
           L == Len(pending)
<1>1. /\ UNCHANGED <<head, mem, client, w, sent, handled, late>>
      /\ DOMAIN r = Consumers /\ Reader \in Consumers
      /\ rd.pc = "release" /\ pending # << >> /\ rd.len = n /\ rd.pos = DataPos(tail, n)
      /\ rd.got = << >> /\ DOMAIN rd = {"pc", "pos", "len", "rec", "got"}
      /\ tail' = rd.pos + rd.len /\ pending' = Tail(pending)
      /\ r' = [r EXCEPT ![Reader].pc = "handle", ![Reader].rec = Head(pending).msg]
  BY DEF Release, rd, IInv, Reading, Modest
<1>2. client = "attached"
  BY <1>1 DEF IInv, Unused
<1>3. /\ Chained(head, tail, pending) /\ 1 \in 1 .. L /\ pending[1].pos = tail
      /\ head \in Offsets /\ tail \in Offsets /\ Whole(mem, pending[1])
      /\ pending[1] \in Recs /\ pending[1].msg.id = sent - L + 1 /\ sent \in Nat
      /\ DOMAIN mem = Offsets
  BY <1>1, ChainTypes DEF IInv, Ring, Chained, Numbered
<1>4. n \in Sizes /\ n \in Nat \ {0} /\ pending[1].msg = Msg(sent - L + 1, n)
  BY <1>3, ChainTypes DEF Recs, Msg
<1>5. PICK u, s, t : u = After(head, pending, 1) /\ s = Tail(pending) /\ t = tail
  OBVIOUS
<1>6. /\ Chained(head, u, s) /\ Len(s) = L - 1 /\ L \in Nat
      /\ \A i \in 1 .. Len(s) : i + 1 \in 1 .. L /\ s[i] = pending[i + 1]
      /\ EndPos(tail, n) = u /\ Ahead(u, head) + n + 2 <= Ahead(tail, head)
      /\ DataPos(tail, n) \in Nat /\ DataPos(tail, n) + n = u
  <2>1. /\ Chained(head, u, s) /\ EndPos(tail, n) = u
        /\ Ahead(u, head) + n + 2 <= Ahead(tail, head)
        /\ DataPos(tail, n) \in Nat /\ DataPos(tail, n) + n = u
    <3>1. Chained(head, tail, pending) /\ pending # << >>
      BY <1>1, <1>3
    <3>2. Chained(head, After(head, pending, 1), Tail(pending))
      BY <3>1, ChainTail, Zenon
    <3>3. /\ EndPos(tail, n) = After(head, pending, 1)
          /\ Ahead(After(head, pending, 1), head) + n + 2 <= Ahead(tail, head)
          /\ DataPos(tail, n) \in Nat /\ DataPos(tail, n) + n = After(head, pending, 1)
      BY <3>1, ChainTail
    <3>4. QED
      BY <1>5, <3>2, <3>3
  <2>2. pending \in Seq(Recs)
    BY <1>3 DEF Chained
  <2>3. L \in Nat /\ Len(s) = L - 1 /\ \A i \in 1 .. L - 1 : s[i] = pending[i + 1]
    BY <1>1, <1>5, <2>2, HeadTailProperties
  <2>4. \A i \in 1 .. L - 1 : i + 1 \in 1 .. L
    BY <2>3
  <2>5. QED
    BY <2>1, <2>3, <2>4
<1> HIDE DEF L
<1>7. tail' = u /\ pending' = s
  BY <1>1, <1>5, <1>6
<1>8. rd' = [rd EXCEPT !.pc = "handle", !.rec = pending[1].msg] /\ DOMAIN r' = Consumers
  <2>1. Head(pending) = pending[1]
    BY <1>1, <1>3 DEF Chained
  <2>2. r' = [r EXCEPT ![Reader].pc = "handle", ![Reader].rec = pending[1].msg]
    BY <1>1, <2>1
  <2>3. QED
    BY <1>1, <2>2 DEF rd
<1>9. /\ rd'.pc = "handle" /\ rd'.rec = pending[1].msg /\ rd'.len = n /\ rd'.got = << >>
      /\ rd'.pos = DataPos(tail, n) /\ DOMAIN rd' = {"pc", "pos", "len", "rec", "got"}
  BY <1>1, <1>8
<1>10. Ring'
  <2>1. \A i \in 1 .. Len(s) : Whole(mem, s[i])
    BY <1>6 DEF IInv, Ring, L
  <2>2. Numbered(sent, s)
    <3>1. ASSUME NEW i \in 1 .. Len(s)
          PROVE  s[i].msg.id = sent - Len(s) + i
      <4>1. pending[i + 1].msg.id = sent - L + (i + 1)
        BY <1>6 DEF IInv, Ring, Numbered, L
      <4>2. QED
        BY <1>3, <1>6, <4>1
    <3>2. QED
      BY <3>1 DEF Numbered
  <2>3. QED
    BY <1>1, <1>3, <1>6, <1>7, <2>1, <2>2 DEF Ring
<1>11. Popped' = sent - L + 1 /\ Popped = sent - L
  <2>1. Popped' = sent - Len(s)
    BY <1>1, <1>7 DEF Popped
  <2>2. QED
    BY <1>3, <1>6, <2>1 DEF Popped, L
<1>12. Unused'
  BY <1>1, <1>2 DEF Unused
<1>13. Held = 0 /\ Held' = n
  BY <1>1, <1>9 DEF Held
<1>14. Writing'
  <2>1. CASE w.pc = "idle"
    BY <1>1, <2>1 DEF IInv, Writing
  <2>2. CASE w.pc # "idle"
    <3>1. w.msg.len \in Nat /\ Room(w.msg.len) /\ Writing
      BY <2>2, SizesArePositive DEF IInv, Writing
    <3>2. \A x, y \in Offsets : Ahead(x, y) \in Nat
      BY SizeAssumption DEF Ahead, Offsets
    <3>3. Ahead(tail, head) \in Nat /\ Ahead(u, head) \in Nat
      BY <1>3, <1>6, <3>2 DEF Chained
    <3>4. Ahead(u, head) + n + 2 * w.msg.len + 2 < Size
      <4>1. Ahead(tail, head) + 0 + 2 * w.msg.len + 2 < Size
        BY <1>13, <3>1 DEF Room
      <4>2. \A x, y, m, k \in Nat :
               x + k + 2 <= y /\ y + 0 + 2 * m + 2 < Size => x + k + 2 * m + 2 < Size
        BY SizeAssumption
      <4>3. QED
        BY <1>4, <1>6, <3>1, <3>3, <4>1, <4>2
    <3>5. Room(w.msg.len)'
      BY <1>1, <1>7, <1>13, <3>4 DEF Room
    <3>6. QED
      BY <1>1, <2>2, <3>1, <3>5 DEF Writing
  <2>3. QED
    BY <2>1, <2>2
<1>15. Reading'
  <2>1. \A k \in 1 .. n : mem[DataPos(tail, n) + k - 1] = MsgByte(pending[1].msg, k)
    BY <1>3 DEF Whole
  <2>2. rd'.rec = Msg(Popped', n)
    BY <1>4, <1>9, <1>11
  <2>3. \E g \in 0 .. n : rd'.got = [k \in 1 .. g |-> MsgByte(rd'.rec, k)]
    <3>1. rd'.got = [k \in 1 .. 0 |-> MsgByte(rd'.rec, k)]
      BY <1>9
    <3>2. QED
      BY <1>4, <3>1
  <2>4. \A k \in 1 .. rd'.len : mem'[rd'.pos + k - 1] = MsgByte(rd'.rec, k)
    BY <1>1, <1>9, <2>1
  <2>5. rd'.pos \in Nat /\ rd'.pos + rd'.len = tail'
    BY <1>6, <1>7, <1>9
  <2>6. QED
    BY <1>4, <1>8, <1>9, <2>2, <2>3, <2>4, <2>5 DEF Reading
<1>16. Done'
  <2>1. handled[Reader].rec.id = sent - L
    BY <1>1, <1>11 DEF IInv, Done
  <2>2. handled[Reader].rec.id = Popped' - 1
    BY <1>3, <1>6, <1>11, <2>1
  <2>3. QED
    BY <1>1, <1>9, <2>2 DEF IInv, Done
<1>17. QED
  BY <1>10, <1>12, <1>14, <1>15, <1>16 DEF IInv

LEMMA HandleByteKeeps ==
    ASSUME Modest, IInv, HandleByte(Reader)
    PROVE  IInv'
<1>1. /\ UNCHANGED <<head, tail, mem, client, w, sent, pending, handled, late>>
      /\ DOMAIN r = Consumers /\ Reader \in Consumers
      /\ rd.pc = "handle" /\ rd.len \in Sizes /\ rd.pos \in Nat /\ rd.pos + rd.len = tail
      /\ \A k \in 1 .. rd.len : mem[rd.pos + k - 1] = MsgByte(rd.rec, k)
      /\ DOMAIN rd = {"pc", "pos", "len", "rec", "got"}
      /\ Len(rd.got) < rd.len /\ tail \in Offsets
      /\ r' = [r EXCEPT ![Reader].got = Append(@, At(rd.pos + Len(@)))]
  BY DEF HandleByte, rd, IInv, Reading, Modest, Ring, Chained
<1>2. client = "attached"
  BY <1>1 DEF IInv, Unused
<1>3. rd.len \in Nat \ {0}
  BY <1>1, SizesArePositive
<1>4. PICK g \in 0 .. rd.len : rd.got = [k \in 1 .. g |-> MsgByte(rd.rec, k)]
  BY <1>1 DEF IInv, Reading
<1>5. Len(rd.got) = g /\ g \in Nat /\ g + 1 \in 1 .. rd.len
  BY <1>1, <1>3, <1>4
<1>6. At(rd.pos + g) = MsgByte(rd.rec, g + 1)
  <2>1. rd.pos + g = rd.pos + (g + 1) - 1 /\ rd.pos + g \in Offsets
    BY <1>1, <1>3, <1>5, SizeAssumption DEF Offsets
  <2>2. QED
    BY <1>1, <1>5, <2>1 DEF At
<1>7. rd' = [rd EXCEPT !.got = Append(rd.got, MsgByte(rd.rec, g + 1))] /\ DOMAIN r' = Consumers
  BY <1>1, <1>5, <1>6 DEF rd
<1>8. /\ rd'.pc = rd.pc /\ rd'.pos = rd.pos /\ rd'.len = rd.len /\ rd'.rec = rd.rec
      /\ rd'.got = Append(rd.got, MsgByte(rd.rec, g + 1)) /\ DOMAIN rd' = DOMAIN rd
  BY <1>1, <1>7
<1>9. rd'.got = [k \in 1 .. g + 1 |-> MsgByte(rd.rec, k)]
  BY <1>4, <1>5, <1>8
<1>10. Ring' /\ Unused' /\ Writing' /\ Popped' = Popped
  <2>1. Held = rd.len /\ Held' = rd.len
    BY <1>1, <1>8 DEF Held
  <2>2. QED
    BY <1>1, <1>2, <1>3, <2>1, OnlyReaderMoves
<1>11. Reading'
  <2>1. rd'.rec = Msg(Popped', rd'.len)
    BY <1>1, <1>8, <1>10 DEF IInv, Reading
  <2>2. \E j \in 0 .. rd'.len : rd'.got = [k \in 1 .. j |-> MsgByte(rd'.rec, k)]
    BY <1>5, <1>8, <1>9
  <2>3. QED
    BY <1>1, <1>7, <1>8, <2>1, <2>2 DEF Reading
<1>12. Done'
  BY <1>1, <1>8, <1>10 DEF IInv, Done
<1>13. QED
  BY <1>10, <1>11, <1>12 DEF IInv

LEMMA HandledKeeps ==
    ASSUME Modest, IInv, Handled(Reader)
    PROVE  /\ IInv'
           /\ handled'[Reader].rec.id = handled[Reader].rec.id + 1
<1>1. /\ UNCHANGED <<head, tail, mem, client, w, sent, pending, late>>
      /\ DOMAIN r = Consumers /\ DOMAIN handled = Consumers /\ Reader \in Consumers
      /\ rd.pc = "handle" /\ rd.len \in Sizes /\ Len(rd.got) = rd.len
      /\ rd.rec = Msg(Popped, rd.len)
      /\ r' = [r EXCEPT ![Reader] = ReaderIdle]
      /\ handled' = [handled EXCEPT ![Reader] = [rec |-> rd.rec, got |-> rd.got]]
      /\ handled[Reader].rec.id = Popped - 1
  BY DEF Handled, rd, IInv, Reading, Done, Modest
<1>2. client = "attached"
  BY <1>1 DEF IInv, Unused
<1>3. rd.len \in Nat \ {0} /\ Popped \in Int
  <2>1. Len(pending) \in Nat /\ sent \in Nat
    BY ChainTypes DEF IInv, Ring
  <2>2. QED
    BY <1>1, <2>1, SizesArePositive DEF Popped
<1>4. PICK g \in 0 .. rd.len : rd.got = [k \in 1 .. g |-> MsgByte(rd.rec, k)]
  BY <1>1 DEF IInv, Reading
<1>5. g = rd.len
  BY <1>1, <1>3, <1>4
<1>6. rd' = ReaderIdle /\ DOMAIN r' = Consumers /\ DOMAIN handled' = Consumers
  BY <1>1 DEF rd
<1>7. handled'[Reader].rec = rd.rec /\ handled'[Reader].got = BytesOf(rd.rec)
  BY <1>1, <1>4, <1>5 DEF BytesOf, Msg
<1>8. handled'[Reader].rec.id = Popped
  BY <1>1, <1>7 DEF Msg
<1>9. Ring' /\ Unused' /\ Writing' /\ Popped' = Popped
  <2>1. Held = rd.len /\ Held' = 0
    BY <1>1, <1>6 DEF Held, ReaderIdle
  <2>2. QED
    BY <1>1, <1>2, <1>3, <2>1, OnlyReaderMoves
<1>10. Reading'
  BY <1>6 DEF Reading, ReaderIdle
<1>11. Done'
  BY <1>6, <1>7, <1>8, <1>9 DEF Done, ReaderIdle
<1>12. QED
  BY <1>1, <1>3, <1>8, <1>9, <1>10, <1>11 DEF IInv

------------------------------------------------------------------------------
(* A client that attaches to a ring nobody used clears what is clear.      *)
LEMMA AttachKeeps ==
    ASSUME IInv, Attach
    PROVE  IInv'
<1>1. /\ head = 0 /\ tail = 0 /\ pending = << >> /\ w.pc = "idle" /\ rd.pc = "idle"
      /\ UNCHANGED <<mem, w, r, sent, handled, late>>
      /\ head' = 0 /\ tail' = 0 /\ pending' = << >>
  BY DEF IInv, Unused, Attach, ClearHead, ClearTail
<1>2. Ring' /\ Reading' /\ Done'
  BY <1>1, OnlyWriterMoves
<1>3. Unused'
  BY <1>1 DEF Unused, rd
<1>4. Writing'
  BY <1>1 DEF IInv, Writing
<1>5. QED
  BY <1>2, <1>3, <1>4 DEF IInv

------------------------------------------------------------------------------
LEMMA Start == ASSUME Modest, Init PROVE IInv
<1>1. Reader \in Consumers /\ 0 \in Offsets
  BY SizeAssumption DEF Modest, Offsets
<1>2. rd = ReaderIdle
  BY <1>1 DEF Init, rd
<1>3. Ring
  <2>1. Chained(head, tail, pending)
    BY <1>1 DEF Init, Chained
  <2>2. QED
    BY <2>1 DEF Init, Ring, Numbered
<1>4. Unused /\ Writing
  BY <1>2 DEF Init, Unused, Writing, WriterIdle, ReaderIdle
<1>5. Reading
  BY <1>2 DEF Init, Reading, ReaderIdle
<1>6. Done
  <2>1. Popped = 0
    <3>1. Len(pending) = 0 /\ sent = 0
      BY DEF Init
    <3>2. QED
      BY <3>1 DEF Popped
  <2>2. handled[Reader] = [rec |-> NoMsg, got |-> << >>] /\ DOMAIN handled = Consumers
    BY <1>1 DEF Init
  <2>3. BytesOf(NoMsg) = << >> /\ NoMsg.id = 0
    BY DEF BytesOf, NoMsg, Msg
  <2>4. QED
    BY <1>2, <2>1, <2>2, <2>3 DEF Done, ReaderIdle
<1>7. QED
  BY <1>3, <1>4, <1>5, <1>6 DEF IInv

LEMMA Step ==
    ASSUME Modest, ~late, IInv, [Next]_vars
    PROVE  IInv'
<1>1. CASE Producer
  <2>1. ASSUME NEW n \in Lengths \ {0}, Push(n) PROVE IInv'
    BY <2>1, PushKeeps
  <2>2. CASE TestBehind \/ TestStart \/ TestAhead \/ TestGap
    <3>1. \E pc \in {"test1", "test2", "test3", "test4"},
             next \in {"test2", "test3", "test4", "header", "refused"} : WriterTest(pc, next)
      BY <2>2 DEF TestBehind, TestStart, TestAhead, TestGap
    <3>2. QED
      BY <3>1, TestKeeps
  <2>3. CASE StoreHeader
    BY <2>3, StoreHeaderKeeps
  <2>4. CASE CopyByte
    BY <2>4, CopyByteKeeps
  <2>5. CASE Publish
    BY <2>5, PublishKeeps
  <2>6. QED
    BY <1>1, <2>1, <2>2, <2>3, <2>4, <2>5 DEF Producer
<1>2. CASE Attach
  BY <1>2, AttachKeeps
<1>3. ASSUME NEW c \in Consumers, Consumer(c)
      PROVE  IInv'
  <2>1. c = Reader
    BY DEF Modest
  <2>2. \/ Pop(Reader) \/ PopTestBehind(Reader) \/ PopTestEmpty(Reader) \/ ReadLength(Reader)
        \/ Release(Reader) \/ HandleByte(Reader) \/ Handled(Reader)
    BY <1>3, <2>1 DEF Consumer
  <2>3. QED
    BY <2>2, PopKeeps, PopTestsKeep, ReadLengthKeeps, ReleaseKeeps, HandleByteKeeps, HandledKeeps
<1>4. CASE UNCHANGED vars
  <2>1. UNCHANGED <<head, tail, mem, client, w, r, sent, pending, handled, late>>
    BY <1>4 DEF vars
  <2>2. Ring' /\ Reading' /\ Done'
    BY <2>1, OnlyWriterMoves
  <2>3. Unused'
    BY <2>1 DEF IInv, Unused, rd
  <2>4. Writing'
    BY <2>1 DEF IInv, Writing, Room, Held, rd
  <2>5. QED
    BY <2>2, <2>3, <2>4 DEF IInv
<1>5. QED
  BY <1>1, <1>2, <1>3, <1>4 DEF Next

LEMMA LateStays == ASSUME [Next]_vars PROVE late' = late
  BY DEF Next, vars, Producer, Attach, Consumer, Push, WriterTest, TestBehind, TestStart,
         TestAhead, TestGap, StoreHeader, CopyByte, Publish, Pop, PopTestBehind, PopTestEmpty,
         ReadLength, Release, HandleByte, Handled, ClearHead, ClearTail

(* Where the client attached first, the inductive invariant holds.         *)
THEOREM Invariance == Modest => (Spec => [](late \/ IInv))
<1> SUFFICES ASSUME Modest PROVE Spec => [](late \/ IInv)
  OBVIOUS
<1>1. Init => late \/ IInv
  BY Start
<1>2. (late \/ IInv) /\ [Next]_vars => (late \/ IInv)'
  <2>1. ASSUME late, [Next]_vars PROVE late'
    BY <2>1, LateStays
  <2>2. ASSUME ~late, IInv, [Next]_vars PROVE IInv'
    BY <2>2, Step
  <2>3. QED
    BY <2>1, <2>2
<1>3. QED
  BY <1>1, <1>2, PTL DEF Spec

(* What read1 finds between tail and head is whole (CycleBuffer.h:102),    *)
(* although write1 loads tail up to four times in one test.                *)
THEOREM SeenIsComplete == Modest => (Spec => []SeenMeansComplete)
<1>1. (late \/ IInv) => SeenMeansComplete
  <2>1. ASSUME ~late, IInv PROVE SeenMeansComplete
    <3>1. DOMAIN pending = 1 .. Len(pending)
      BY <2>1, ChainTypes DEF IInv, Ring
    <3>2. QED
      BY <2>1, <3>1 DEF IInv, Ring, SeenMeansComplete, Complete, Whole
  <2>2. QED
    BY <2>1 DEF SeenMeansComplete
<1>2. QED
  BY <1>1, Invariance, PTL

------------------------------------------------------------------------------
(* A client that attaches while the server pushes.  The records between    *)
(* tail and where the writer goes on (Origin) are not those of pending,    *)
(* which knows of the clearing: if write1 was under way it sets head to    *)
(* the end of its record, and what was pushed before comes back with it.   *)
(* So there are such records q, but which ones the invariant leaves open;  *)
(* their numbers rise, above that of the message d handled last and that   *)
(* of the message x in the handler's hands.                                *)

Origin == IF w.pc = "idle" THEN head ELSE w.start

Rising(q, s) == /\ \A i \in 1 .. Len(q) : q[i].msg.id <= s
                /\ \A i, j \in 1 .. Len(q) : i < j => q[i].msg.id < q[j].msg.id

LateRing(q) == /\ Chained(Origin, tail, q)
               /\ DOMAIN mem = Offsets
               /\ \A i \in 1 .. Len(q) : Whole(mem, q[i])
               /\ sent \in Nat /\ sent <= MaxMsgs /\ Rising(q, sent)

(* The ring is cleared under the writer: until it publishes its record the *)
(* reader finds nothing.                                                   *)
Cleared == client # "away" /\ head = 0 /\ tail = 0 /\ rd.pc \in {"idle", "test1", "test2"}
AtHead == head = Origin \/ Cleared

Unattached == client # "attached" => tail = 0 /\ rd.pc = "idle"

LateRoom(n) == Ahead(tail, Origin) + Held + 2 * n + 2 < Size

LateWriting ==
    /\ DOMAIN w = {"pc", "start", "pos", "msg", "done"}
    /\ w.pc # "idle" =>
          /\ w.msg = Msg(sent + 1, w.msg.len) /\ w.msg.len \in Sizes /\ sent < MaxMsgs
          /\ LateRoom(w.msg.len)
          /\ w.pc # "copy" => w.pos = w.start + 2 /\ w.done = 0
          /\ w.pc = "copy" =>
                /\ w.pos = DataPos(w.start, w.msg.len)
                /\ HeaderIs(mem, HeaderPos(w.start), w.msg.len)
                /\ w.done \in 0 .. w.msg.len
                /\ \A k \in 1 .. w.done : mem[w.pos + k - 1] = MsgByte(w.msg, k)

LateReading(q, x) ==
    /\ DOMAIN r = Consumers /\ DOMAIN rd = {"pc", "pos", "len", "rec", "got"}
    /\ rd.pc \in {"test1", "test2", "length"} => rd.pos = tail + 2
    /\ rd.pc \in {"length", "release"} => q # << >>
    /\ rd.pc = "release" => rd.len = q[1].msg.len /\ rd.pos = DataPos(tail, rd.len)
    /\ rd.pc # "handle" => rd.got = << >>
    /\ rd.pc = "handle" =>
          /\ x = Msg(x.id, rd.len) /\ rd.len \in Sizes /\ x.id \in Nat /\ x.id <= sent
          /\ \A i \in 1 .. Len(q) : x.id < q[i].msg.id
          /\ rd.pos \in Nat /\ rd.pos + rd.len = tail
          /\ \A k \in 1 .. rd.len : mem[rd.pos + k - 1] = MsgByte(x, k)
          /\ \E g \in 0 .. rd.len : rd.got = [k \in 1 .. g |-> MsgByte(x, k)]

LateDone(q, d, x) ==
    /\ DOMAIN handled = Consumers
    /\ handled[Reader].got = BytesOf(d)
    /\ d = Msg(d.id, d.len) /\ d.id \in Nat /\ d.id <= sent /\ d.len \in Lengths
    /\ rd.pc = "handle" => d.id < x.id
    /\ \A i \in 1 .. Len(q) : d.id < q[i].msg.id

LInv(q, d, x) == /\ LateRing(q) /\ AtHead /\ Unattached
                 /\ LateWriting /\ LateReading(q, x) /\ LateDone(q, d, x)
LateInv == \E q, d, x : LInv(q, d, x)

LEMMA LatePushHasRoom ==
    ASSUME Modest, NEW q, NEW d, NEW x, LInv(q, d, x), w.pc = "idle",
           NEW n \in Lengths \ {0}, Outstanding + n + 2 <= Backlog
    PROVE  Ahead(tail, head) + Held + 2 * n + 2 < Size
<1> DEFINE S == {c \in Consumers : r[c].pc = "handle"}
<1>1. head \in Offsets /\ tail \in Offsets
  BY DEF LInv, LateRing, Chained, Origin
<1>2. S = IF rd.pc = "handle" THEN {Reader} ELSE {}
  BY DEF Modest, rd
<1>3. Outstanding = Ahead(tail, head) + IF rd.pc = "handle" THEN (rd.len + 2) + 0 ELSE 0
  BY <1>2, SumOfHandlers DEF Outstanding, Ahead, rd
<1>4. rd.pc = "handle" => rd.len \in Nat
  BY LenAssumption DEF LInv, LateReading, Sizes
<1>5. n \in Nat /\ n <= MaxLen /\ MaxLen \in Nat /\ Backlog + MaxLen < Size /\ Backlog \in Nat
  BY LenAssumption, BacklogAssumption DEF Lengths, Modest
<1>6. Ahead(tail, head) \in Nat
  BY <1>1, SizeAssumption DEF Ahead, Offsets
<1>7. QED
  BY <1>3, <1>4, <1>5, <1>6, SizeAssumption DEF Held

LEMMA LateSpares ==
    ASSUME NEW q, NEW d, NEW x, LInv(q, d, x), w.pc # "idle", NEW n, n = w.msg.len,
           NEW o, o = w.start, NEW m2, \A a \in Offsets \ Footprint(o, n) : m2[a] = mem[a]
    PROVE  /\ n \in Nat \ {0} /\ o \in Offsets /\ tail \in Offsets
           /\ EndPos(o, n) \in Offsets /\ Fits(o, n)
           /\ Ahead(tail, o) < Ahead(tail, EndPos(o, n))
           /\ \A i \in 1 .. Len(q) : Whole(m2, q[i])
           /\ rd.pc = "handle" => \A k \in 1 .. rd.len : m2[rd.pos + k - 1] = MsgByte(x, k)
<1>1. /\ Chained(o, tail, q) /\ o \in Offsets /\ tail \in Offsets
      /\ n \in Nat \ {0}
  <2>1. Chained(o, tail, q) /\ o \in Offsets /\ tail \in Offsets
    BY DEF LInv, LateRing, Chained, Origin
  <2>2. n \in Sizes
    BY DEF LInv, LateWriting
  <2>3. QED
    BY <2>1, <2>2, SizesArePositive
<1>2. Ahead(tail, o) + Held + 2 * n + 2 < Size
  BY DEF LInv, LateWriting, LateRoom, Origin
<1>3. rd.pc = "handle" => /\ rd.len \in Nat /\ rd.pos \in Nat /\ rd.pos + rd.len = tail
                          /\ \A k \in 1 .. rd.len : mem[rd.pos + k - 1] = MsgByte(x, k)
  BY SizesArePositive DEF LInv, LateReading
<1>4. Held \in 0 .. tail
  BY <1>1, <1>3 DEF Held, Offsets
<1>5. Ahead(tail, o) + 2 * n + 2 < Size
  BY <1>1, <1>2, <1>4, SizeAssumption DEF Ahead, Offsets
<1>6. /\ EndPos(o, n) \in Offsets /\ Fits(o, n)
      /\ Ahead(tail, o) < Ahead(tail, EndPos(o, n))
  BY <1>1, <1>5, RoomyAdvances
<1>7. /\ Footprint(o, n) \cap Used(o, tail) = {}
      /\ Footprint(o, n) \cap (tail - Held .. tail - 1) = {}
  BY <1>1, <1>2, <1>4, RoomyIsFree
<1>8. Used(o, tail) \subseteq Offsets /\ (tail - Held .. tail - 1) \subseteq Offsets
  BY <1>1, <1>4, SizeAssumption DEF Used, Offsets
<1>9. \A i \in 1 .. Len(q) : Whole(m2, q[i])
  <2>1. \A a \in Used(o, tail) : m2[a] = mem[a]
    BY <1>7, <1>8
  <2>2. \A i \in 1 .. Len(q) : Whole(mem, q[i])
    BY DEF LInv, LateRing
  <2>3. QED
    BY <1>1, <2>1, <2>2, WholeKept
<1>10. ASSUME rd.pc = "handle", NEW k \in 1 .. rd.len
       PROVE  m2[rd.pos + k - 1] = MsgByte(x, k)
  <2>1. rd.pos + k - 1 \in tail - Held .. tail - 1
    BY <1>1, <1>3, <1>10 DEF Held, Offsets
  <2>2. m2[rd.pos + k - 1] = mem[rd.pos + k - 1]
    BY <1>7, <1>8, <2>1
  <2>3. QED
    BY <1>3, <1>10, <2>2
<1>11. QED
  BY <1>1, <1>6, <1>9, <1>10

(* A step of the writer that leaves the ring and the reader alone.         *)
LEMMA LateWriterSteps ==
    ASSUME NEW q, NEW d, NEW x, LInv(q, d, x), UNCHANGED <<head, tail, client, r, sent, handled>>,
           DOMAIN mem' = Offsets, \A i \in 1 .. Len(q) : Whole(mem', q[i]),
           rd.pc = "handle" => \A k \in 1 .. rd.len : mem'[rd.pos + k - 1] = MsgByte(x, k),
           Origin' = Origin, LateWriting'
    PROVE  LInv(q, d, x)'
<1>1. rd' = rd
  BY DEF rd
<1>2. LateRing(q)'
  BY DEF LInv, LateRing
<1>3. AtHead' /\ Unattached'
  BY <1>1 DEF LInv, AtHead, Cleared, Unattached
<1>4. LateReading(q, x)'
  BY <1>1 DEF LInv, LateReading
<1>5. LateDone(q, d, x)'
  BY <1>1 DEF LInv, LateDone
<1>6. QED
  BY <1>2, <1>3, <1>4, <1>5 DEF LInv

LEMMA LatePushKeeps ==
    ASSUME Modest, NEW q, NEW d, NEW x, LInv(q, d, x), NEW n \in Lengths \ {0}, Push(n)
    PROVE  LInv(q, d, x)'
<1>1. /\ w.pc = "idle" /\ sent < MaxMsgs
      /\ w' = [pc |-> "test1", start |-> head, pos |-> head + 2, msg |-> Msg(sent + 1, n), done |-> 0]
      /\ UNCHANGED <<head, tail, mem, client, r, sent, pending, handled, late>>
      /\ Outstanding + n + 2 <= Backlog
  BY DEF Push
<1>2. /\ w'.pc = "test1" /\ w'.start = head /\ w'.pos = head + 2 /\ w'.done = 0
      /\ w'.msg = Msg(sent + 1, n) /\ w'.msg.len = n
      /\ DOMAIN w' = {"pc", "start", "pos", "msg", "done"}
  BY <1>1 DEF Msg
<1>3. Origin' = Origin /\ Origin = head
  BY <1>1, <1>2 DEF Origin
<1>4. LateWriting'
  <2>1. LateRoom(n)'
    BY <1>1, <1>3, LatePushHasRoom DEF LateRoom, Held, rd
  <2>2. n \in Sizes
    BY LenAssumption DEF Lengths, Sizes
  <2>3. QED
    BY <1>1, <1>2, <2>1, <2>2 DEF LateWriting
<1>5. /\ DOMAIN mem' = Offsets /\ \A i \in 1 .. Len(q) : Whole(mem', q[i])
      /\ rd.pc = "handle" => \A k \in 1 .. rd.len : mem'[rd.pos + k - 1] = MsgByte(x, k)
  BY <1>1 DEF LInv, LateRing, LateReading
<1>6. QED
  BY <1>1, <1>3, <1>4, <1>5, LateWriterSteps

(* A ring that is cleared and has no writer is empty.                      *)
LEMMA LateEmpties ==
    ASSUME NEW q, NEW d, NEW x, LInv(q, d, x), UNCHANGED <<tail, mem, r, sent, handled>>,
           tail = 0, head' = 0, Origin' = 0, rd.pc \in {"idle", "test1", "test2"},
           Unattached', LateWriting'
    PROVE  LInv(<< >>, d, x)'
<1>1. rd' = rd /\ rd.pc # "handle" /\ rd.pc \notin {"length", "release"}
  BY DEF rd
<1>2. 0 \in Offsets /\ Len(<< >>) = 0 /\ << >> \in Seq(Recs)
  BY SizeAssumption DEF Offsets
<1>3. Chained(0, 0, << >>)
  BY <1>2 DEF Chained
<1>4. LateRing(<< >>)'
  BY <1>2, <1>3 DEF LInv, LateRing, Rising
<1>5. AtHead'
  BY DEF AtHead
<1>6. LateReading(<< >>, x)'
  BY <1>1 DEF LInv, LateReading
<1>7. LateDone(<< >>, d, x)'
  BY <1>1, <1>2 DEF LInv, LateDone
<1>8. QED
  BY <1>4, <1>5, <1>6, <1>7 DEF LInv

LEMMA LateTestKeeps ==
    ASSUME NEW q, NEW d, NEW x, LInv(q, d, x), NEW pc, NEW next, WriterTest(pc, next),
           pc \notin {"idle", "copy"}, next \notin {"idle", "copy"}
    PROVE  LInv(q, d, x)' \/ LInv(<< >>, d, x)'
<1>1. /\ w.pc = pc /\ UNCHANGED <<head, tail, mem, client, r, sent, pending, handled, late>>
      /\ w' = IF next = "refused" THEN WriterIdle ELSE [w EXCEPT !.pc = next]
  BY DEF WriterTest
<1>2. /\ DOMAIN mem' = Offsets /\ \A i \in 1 .. Len(q) : Whole(mem', q[i])
      /\ rd.pc = "handle" => \A k \in 1 .. rd.len : mem'[rd.pos + k - 1] = MsgByte(x, k)
  BY <1>1 DEF LInv, LateRing, LateReading
<1>3. CASE next # "refused"
  <2>1. /\ w'.pc = next /\ w'.start = w.start /\ w'.pos = w.pos /\ w'.done = w.done /\ w'.msg = w.msg
        /\ DOMAIN w' = DOMAIN w
    BY <1>1, <1>3 DEF LInv, LateWriting
  <2>2. Origin' = Origin
    BY <1>1, <2>1 DEF Origin
  <2>3. LateWriting'
    BY <1>1, <2>1, <2>2 DEF LInv, LateWriting, LateRoom, Held, rd
  <2>4. QED
    BY <1>1, <1>2, <2>2, <2>3, LateWriterSteps
<1>4. CASE next = "refused"
  <2>1. w' = WriterIdle /\ Origin' = head
    BY <1>1, <1>4 DEF Origin, WriterIdle
  <2>2. LateWriting'
    BY <2>1 DEF LateWriting, WriterIdle
  <2>3. CASE head = Origin
    BY <1>1, <1>2, <2>1, <2>2, <2>3, LateWriterSteps
  <2>4. CASE Cleared
    <3>1. Unattached'
      BY <1>1 DEF LInv, Unattached, rd
    <3>2. QED
      BY <1>1, <2>1, <2>2, <2>4, <3>1, LateEmpties DEF Cleared
  <2>5. QED
    BY <2>3, <2>4 DEF LInv, AtHead
<1>5. QED
  BY <1>3, <1>4

(* A ring that was cleared has its tail at 0, and the record that is being *)
(* written there starts before the last byte of the segment.               *)
LEMMA LateStoreHeaderKeeps ==
    ASSUME NEW q, NEW d, NEW x, LInv(q, d, x), StoreHeader
    PROVE  LInv(q, d, x)'
<1> DEFINE n == w.msg.len
           o == w.start
           at == HeaderPos(o)
<1>1. /\ w.pc = "header" /\ UNCHANGED <<head, tail, client, r, sent, pending, handled, late>>
      /\ w.pos = o + 2 /\ w.done = 0 /\ Origin = o
      /\ w.msg = Msg(sent + 1, n) /\ n \in Sizes /\ sent < MaxMsgs /\ LateRoom(n)
      /\ DOMAIN w = {"pc", "start", "pos", "msg", "done"} /\ DOMAIN mem = Offsets
  BY DEF LInv, LateWriting, LateRing, StoreHeader, Origin
<1>2. n \in Nat \ {0} /\ o \in Offsets /\ EndPos(o, n) \in Offsets /\ Fits(o, n)
  BY <1>1, LateSpares
<1>3. head = Size - 1 <=> o = Size - 1
  <2>1. CASE head = o
    BY <2>1
  <2>2. CASE Cleared
    <3>1. head = 0 /\ tail = 0 /\ Held = 0
      BY <2>2 DEF Cleared, Held
    <3>2. o + 2 * n + 2 < Size
      BY <1>1, <1>2, <3>1 DEF LateRoom, Ahead, Offsets
    <3>3. QED
      BY <1>2, <3>1, <3>2, SizeAssumption DEF Offsets
  <2>3. QED
    BY <1>1, <2>1, <2>2 DEF LInv, AtHead
<1>4. at = IF head = Size - 1 THEN 0 ELSE w.pos - 2
  BY <1>1, <1>2, <1>3 DEF HeaderPos, Offsets
<1>5. /\ mem' = [mem EXCEPT ![at] = HeaderByte(1, n), ![at + 1] = HeaderByte(2, n)]
      /\ w' = [w EXCEPT !.pc = "copy",
                        !.pos = IF head = Size - 1 THEN 2
                                ELSE IF w.pos + w.msg.len >= Size THEN 0 ELSE w.pos]
  BY <1>4, Zenon DEF StoreHeader
<1>6. at \in Offsets /\ at + 1 \in Offsets /\ at \in Footprint(o, n) /\ at + 1 \in Footprint(o, n)
  BY <1>2, RecordParts
<1>7. /\ DOMAIN mem' = Offsets /\ HeaderIs(mem', at, n)
      /\ \A a \in Offsets \ Footprint(o, n) : mem'[a] = mem[a]
  BY <1>1, <1>5, <1>6, SizeAssumption DEF HeaderIs, Offsets
<1>8. PICK m2 : m2 = mem'
  OBVIOUS
<1>9. /\ \A i \in 1 .. Len(q) : Whole(m2, q[i])
      /\ rd.pc = "handle" => \A k \in 1 .. rd.len : m2[rd.pos + k - 1] = MsgByte(x, k)
  BY <1>1, <1>7, <1>8, LateSpares
<1>10. /\ w'.pc = "copy" /\ w'.start = o /\ w'.msg = w.msg /\ w'.done = 0
       /\ DOMAIN w' = {"pc", "start", "pos", "msg", "done"}
       /\ w'.pos = IF head = Size - 1 THEN 2 ELSE IF w.pos + w.msg.len >= Size THEN 0 ELSE w.pos
  BY <1>1, <1>5
<1>11. Origin' = Origin
  BY <1>1, <1>10 DEF Origin
<1>12. LateWriting'
  <2>1. w'.pos = DataPos(o, n)
    BY <1>1, <1>2, <1>3, <1>10 DEF DataPos, Offsets
  <2>2. LateRoom(n)'
    BY <1>1, <1>10, <1>11 DEF LateRoom, Held, rd
  <2>3. HeaderIs(m2, at, n) /\ w'.done \in 0 .. n
    BY <1>2, <1>7, <1>8, <1>10
  <2>4. \A k \in 1 .. w'.done : m2[w'.pos + k - 1] = MsgByte(w'.msg, k)
    BY <1>10
  <2>5. QED
    BY <1>1, <1>8, <1>10, <2>1, <2>2, <2>3, <2>4 DEF LateWriting
<1>13. QED
  BY <1>1, <1>7, <1>8, <1>9, <1>11, <1>12, LateWriterSteps

LEMMA LateCopyByteKeeps ==
    ASSUME NEW q, NEW d, NEW x, LInv(q, d, x), CopyByte
    PROVE  LInv(q, d, x)'
<1> DEFINE n == w.msg.len
           o == w.start
           a1 == w.pos + w.done
<1>1. /\ w.pc = "copy" /\ UNCHANGED <<head, tail, client, r, sent, pending, handled, late>>
      /\ w.pos = DataPos(o, n) /\ w.done \in 0 .. n /\ w.done < n /\ Origin = o
      /\ w.msg = Msg(sent + 1, n) /\ n \in Sizes /\ sent < MaxMsgs /\ LateRoom(n)
      /\ HeaderIs(mem, HeaderPos(o), n)
      /\ \A k \in 1 .. w.done : mem[w.pos + k - 1] = MsgByte(w.msg, k)
      /\ DOMAIN w = {"pc", "start", "pos", "msg", "done"} /\ DOMAIN mem = Offsets
      /\ mem' = [mem EXCEPT ![a1] = MsgByte(w.msg, w.done + 1)]
      /\ w' = [w EXCEPT !.done = @ + 1]
  BY DEF LInv, LateWriting, LateRing, CopyByte, Origin
<1>2. n \in Nat \ {0} /\ o \in Offsets /\ EndPos(o, n) \in Offsets /\ Fits(o, n)
  BY <1>1, LateSpares
<1>3. /\ HeaderPos(o) \in Offsets /\ HeaderPos(o) + 1 \in Offsets /\ w.pos \in Nat
      /\ \A k \in 1 .. n : /\ w.pos + k - 1 \in Footprint(o, n)
                           /\ w.pos + k - 1 \in Offsets
                           /\ w.pos + k - 1 \notin {HeaderPos(o), HeaderPos(o) + 1}
  BY <1>1, <1>2, RecordParts
<1>4. w.done \in Nat /\ w.done + 1 \in 1 .. n /\ a1 = w.pos + (w.done + 1) - 1
  BY <1>1, <1>2, <1>3
<1>5. a1 \in Offsets /\ a1 \in Footprint(o, n) /\ a1 \notin {HeaderPos(o), HeaderPos(o) + 1}
  BY <1>3, <1>4
<1> HIDE DEF a1
<1>6. /\ DOMAIN mem' = Offsets /\ mem'[a1] = MsgByte(w.msg, w.done + 1)
      /\ \A a \in Offsets \ {a1} : mem'[a] = mem[a]
  BY <1>1, <1>5
<1>7. PICK m2 : m2 = mem'
  OBVIOUS
<1>8. /\ \A i \in 1 .. Len(q) : Whole(m2, q[i])
      /\ rd.pc = "handle" => \A k \in 1 .. rd.len : m2[rd.pos + k - 1] = MsgByte(x, k)
  <2>1. \A a \in Offsets \ Footprint(o, n) : m2[a] = mem[a]
    BY <1>5, <1>6, <1>7
  <2>2. w.pc # "idle"
    BY <1>1
  <2>3. QED
    BY <2>1, <2>2, LateSpares
<1>9. /\ w'.pc = "copy" /\ w'.start = o /\ w'.msg = w.msg /\ w'.done = w.done + 1
      /\ DOMAIN w' = {"pc", "start", "pos", "msg", "done"} /\ w'.pos = w.pos
  BY <1>1
<1>10. Origin' = Origin
  BY <1>1, <1>9 DEF Origin
<1>11. LateWriting'
  <2>1. LateRoom(n)'
    BY <1>1, <1>10 DEF LateRoom, Held, rd
  <2>2. HeaderIs(m2, HeaderPos(o), n)
    BY <1>1, <1>3, <1>5, <1>6, <1>7 DEF HeaderIs
  <2>3. \A k \in 1 .. w.done + 1 : m2[w.pos + k - 1] = MsgByte(w.msg, k)
    <3>1. ASSUME NEW k \in 1 .. w.done + 1
          PROVE  m2[w.pos + k - 1] = MsgByte(w.msg, k)
      <4>1. CASE k = w.done + 1
        BY <1>4, <1>6, <1>7, <4>1
      <4>2. CASE k # w.done + 1
        <5>1. k \in 1 .. w.done /\ k \in 1 .. n
          BY <1>2, <1>4, <4>2
        <5>2. w.pos + k - 1 \in Offsets \ {a1}
          BY <1>3, <1>4, <4>2, <5>1
        <5>3. QED
          BY <1>1, <1>6, <1>7, <5>1, <5>2
      <4>3. QED
        BY <4>1, <4>2
    <3>2. QED
      BY <3>1
  <2>4. w'.done \in 0 .. n
    BY <1>2, <1>4, <1>9
  <2>5. QED
    BY <1>1, <1>7, <1>9, <2>1, <2>2, <2>3, <2>4 DEF LateWriting
<1>12. QED
  BY <1>1, <1>6, <1>7, <1>8, <1>10, <1>11, LateWriterSteps

(* Publishing undoes a clearing: head is where the record ends.            *)
LEMMA LatePublishKeeps ==
    ASSUME NEW q, NEW d, NEW x, LInv(q, d, x), Publish,
           NEW s, s = Append(q, [pos |-> w.start, msg |-> w.msg])
    PROVE  LInv(s, d, x)'
<1> DEFINE n == w.msg.len
           o == w.start
           L == Len(q)
<1>1. /\ w.pc = "copy" /\ w.done = n /\ UNCHANGED <<tail, mem, client, r, handled, late>>
      /\ w.pos = DataPos(o, n) /\ Origin = o
      /\ w.msg = Msg(sent + 1, n) /\ n \in Sizes /\ sent < MaxMsgs
      /\ HeaderIs(mem, HeaderPos(o), n)
      /\ \A k \in 1 .. n : mem[w.pos + k - 1] = MsgByte(w.msg, k)
      /\ head' = w.pos + n /\ w' = WriterIdle /\ sent' = sent + 1
      /\ Chained(o, tail, q) /\ sent \in Nat /\ DOMAIN mem = Offsets
      /\ Rising(q, sent) /\ \A i \in 1 .. L : Whole(mem, q[i])
  BY DEF LInv, LateWriting, LateRing, Publish, Origin
<1>2. /\ o \in Offsets /\ EndPos(o, n) \in Offsets /\ Fits(o, n)
      /\ Ahead(tail, o) < Ahead(tail, EndPos(o, n))
  BY <1>1, LateSpares
<1>3. w.msg \in [id : Nat, len : Sizes] /\ w.msg.id = sent + 1
  BY <1>1 DEF Msg
<1>4. PICK g, rec : g = head' /\ rec = [pos |-> o, msg |-> w.msg] /\ s = Append(q, rec)
  BY <1>1
<1>5. g = EndPos(o, n)
  BY <1>1, <1>4 DEF EndPos
<1>6. /\ Chained(g, tail, s) /\ Len(s) = L + 1 /\ L \in Nat
      /\ s[L + 1] = rec /\ \A i \in 1 .. L : s[i] = q[i]
  <2>1. o \in Offsets /\ g \in Offsets
    BY <1>2, <1>5
  <2>2. rec \in Recs /\ rec.pos = o /\ rec.msg.len = n
    BY <1>3, <1>4, <2>1 DEF Recs
  <2>3. L \in Nat
    BY <1>1, ChainTypes
  <2>4. /\ EndPos(rec.pos, rec.msg.len) = g /\ Fits(rec.pos, rec.msg.len)
        /\ Ahead(tail, o) < Ahead(tail, g)
    BY <1>2, <1>5, <2>2
  <2>5. Chained(o, tail, q) /\ s = Append(q, rec)
    BY <1>1, <1>4
  <2>6. Chained(g, tail, s)
    BY <2>1, <2>2, <2>4, <2>5, ChainAppend
  <2>7. q \in Seq(Recs)
    BY <2>5 DEF Chained
  <2>8. /\ Len(s) = L + 1 /\ s[L + 1] = rec
        /\ \A i \in 1 .. L : s[i] = q[i]
    BY <2>2, <2>5, <2>7, AppendProperties
  <2>9. QED
    BY <2>3, <2>6, <2>8
<1> HIDE DEF L
<1>7. \A i \in 1 .. L + 1 : i \in 1 .. L \/ i = L + 1
  BY <1>6
<1>8. \A i \in 1 .. L + 1 : Whole(mem, s[i])
  <2>1. Whole(mem, s[L + 1])
    BY <1>1, <1>4, <1>6 DEF Whole
  <2>2. QED
    BY <1>1, <1>6, <1>7, <2>1
<1>9. Rising(s, sent + 1)
  <2>1. s[L + 1].msg.id = sent + 1
    BY <1>3, <1>4, <1>6
  <2>2. \A i \in 1 .. L : s[i].msg.id \in Nat /\ s[i].msg.id <= sent
    BY <1>1, <1>6, ChainTypes DEF Rising, L
  <2>0. sent + 1 <= sent + 1 /\ \A m \in Nat : m <= sent => m <= sent + 1 /\ m < sent + 1
    BY <1>1
  <2>3. ASSUME NEW i \in 1 .. L + 1 PROVE s[i].msg.id <= sent + 1
    <3>1. CASE i = L + 1
      BY ONLY <2>0, <2>1, <3>1
    <3>2. CASE i \in 1 .. L
      <4>1. s[i].msg.id \in Nat /\ s[i].msg.id <= sent
        BY <2>2, <3>2
      <4>2. QED
        BY ONLY <2>0, <4>1
    <3>3. QED
      BY <1>7, <3>1, <3>2
  <2>4. ASSUME NEW i \in 1 .. L + 1, NEW j \in 1 .. L + 1, i < j
        PROVE  s[i].msg.id < s[j].msg.id
    <3>1. i \in 1 .. L
      BY <1>6, <2>4
    <3>2. CASE j = L + 1
      <4>1. s[i].msg.id \in Nat /\ s[i].msg.id <= sent /\ s[j].msg.id = sent + 1
        BY <2>1, <2>2, <3>1, <3>2
      <4>2. QED
        BY ONLY <2>0, <4>1
    <3>3. CASE j \in 1 .. L
      BY <1>1, <1>6, <2>4, <3>1, <3>3 DEF Rising, L
    <3>4. QED
      BY <1>7, <3>2, <3>3
  <2>5. QED
    BY <1>6, <2>3, <2>4 DEF Rising
<1>10. Origin' = g
  BY <1>1, <1>4 DEF Origin, WriterIdle
<1>11. LateRing(s)'
  <2>1. sent + 1 \in Nat /\ sent + 1 <= MaxMsgs
    BY <1>1, BacklogAssumption
  <2>2. QED
    BY <1>1, <1>6, <1>8, <1>9, <1>10, <2>1 DEF LateRing
<1>12. AtHead' /\ Unattached'
  BY <1>1, <1>4, <1>10 DEF LInv, AtHead, Unattached, rd
<1>13. ASSUME NEW m \in Nat, m <= sent, \A i \in 1 .. L : m < q[i].msg.id
       PROVE  \A i \in 1 .. Len(s) : m < s[i].msg.id
  <2>1. m < s[L + 1].msg.id
    BY <1>1, <1>3, <1>4, <1>6, <1>13
  <2>2. QED
    BY <1>6, <1>7, <1>13, <2>1
<1>14. q # << >> => s # << >> /\ s[1] = q[1]
  <2>1. q # << >> => 1 \in 1 .. L
    BY <1>1, ChainTypes DEF L
  <2>2. s # << >>
    BY <1>6
  <2>3. QED
    BY <1>6, <2>1, <2>2
<1>15. LateReading(s, x)'
  <2>1. rd' = rd /\ DOMAIN r' = Consumers /\ tail' = tail /\ mem' = mem /\ LateReading(q, x)
    BY <1>1 DEF LInv, LateReading, rd
  <2>2. ASSUME rd.pc = "handle"
        PROVE  x.id <= sent' /\ \A i \in 1 .. Len(s) : x.id < s[i].msg.id
    <3>1. x.id \in Nat /\ x.id <= sent /\ \A i \in 1 .. L : x.id < q[i].msg.id
      BY <2>1, <2>2 DEF LateReading, L
    <3>2. \A i \in 1 .. Len(s) : x.id < s[i].msg.id
      BY <1>13, <3>1
    <3>3. x.id <= sent'
      BY <1>1, <3>1
    <3>4. QED
      BY <3>2, <3>3
  <2>3. QED
    BY <1>14, <2>1, <2>2 DEF LateReading
<1>16. LateDone(s, d, x)'
  <2>1. rd' = rd /\ handled' = handled /\ LateDone(q, d, x)
    BY <1>1 DEF LInv, rd
  <2>2. d.id <= sent' /\ \A i \in 1 .. Len(s) : d.id < s[i].msg.id
    BY <1>1, <1>13, <2>1 DEF LateDone, L
  <2>3. QED
    BY <2>1, <2>2 DEF LateDone
<1>17. LateWriting'
  BY <1>1 DEF LateWriting, WriterIdle
<1>18. QED
  BY <1>11, <1>12, <1>15, <1>16, <1>17 DEF LInv

(* A step of read1 or of the handler that leaves the ring alone.           *)
LEMMA LateReaderSteps ==
    ASSUME NEW q, NEW d, NEW x, NEW d2, LInv(q, d, x),
           UNCHANGED <<head, tail, mem, client, w, sent>>,
           client = "attached", Held \in Nat, Held' \in Nat, Held' <= Held,
           rd.pc \in {"idle", "test1", "test2"} =>
              head = Origin \/ rd'.pc \in {"idle", "test1", "test2"},
           LateReading(q, x)', LateDone(q, d2, x)'
    PROVE  LInv(q, d2, x)'
<1>1. Origin' = Origin
  BY DEF Origin
<1>2. LateRing(q)'
  BY <1>1 DEF LInv, LateRing
<1>3. AtHead' /\ Unattached'
  BY <1>1 DEF LInv, AtHead, Cleared, Unattached
<1>4. LateWriting'
  <2>1. CASE w.pc = "idle"
    BY <2>1 DEF LInv, LateWriting
  <2>2. CASE w.pc # "idle"
    <3>1. Origin \in Offsets /\ tail \in Offsets /\ w.msg.len \in Nat /\ LateRoom(w.msg.len)
      BY <2>2, SizesArePositive DEF LInv, LateRing, Chained, LateWriting
    <3>2. \A a, b \in Offsets : Ahead(a, b) \in Nat
      BY SizeAssumption DEF Ahead, Offsets
    <3>3. Ahead(tail, Origin) \in Nat
      BY <3>1, <3>2
    <3>4. LateRoom(w.msg.len)'
      BY <1>1, <3>1, <3>3, SizeAssumption DEF LateRoom
    <3>5. LateWriting
      BY DEF LInv
    <3>6. QED
      BY <2>2, <3>4, <3>5 DEF LateWriting
  <2>3. QED
    BY <2>1, <2>2
<1>5. QED
  BY <1>2, <1>3, <1>4 DEF LInv

(* One of the first steps of read1: the handler holds nothing.             *)
LEMMA LateQuietStep ==
    ASSUME NEW q, NEW d, NEW x, LInv(q, d, x),
           UNCHANGED <<head, tail, mem, client, w, sent, handled>>,
           client = "attached", rd.pc # "handle", rd'.pc # "handle", rd'.got = << >>,
           rd.pc \in {"idle", "test1", "test2"} =>
              head = Origin \/ rd'.pc \in {"idle", "test1", "test2"},
           DOMAIN r' = Consumers, DOMAIN rd' = {"pc", "pos", "len", "rec", "got"},
           rd'.pc \in {"test1", "test2", "length"} => rd'.pos = tail + 2,
           rd'.pc \in {"length", "release"} => q # << >>,
           rd'.pc = "release" => rd'.len = q[1].msg.len /\ rd'.pos = DataPos(tail, rd'.len)
    PROVE  LInv(q, d, x)'
<1>1. Held = 0 /\ Held' = 0
  BY DEF Held
<1>2. LateReading(q, x)'
  BY DEF LateReading
<1>3. LateDone(q, d, x)'
  BY DEF LInv, LateDone
<1>4. QED
  BY <1>1, <1>2, <1>3, LateReaderSteps

LEMMA LatePopKeeps ==
    ASSUME Modest, NEW q, NEW d, NEW x, LInv(q, d, x), Pop(Reader)
    PROVE  LInv(q, d, x)'
<1>1. /\ UNCHANGED <<head, tail, mem, client, w, sent, handled>>
      /\ client = "attached" /\ rd.pc = "idle"
      /\ r' = [r EXCEPT ![Reader] = [ReaderIdle EXCEPT !.pc = "test1", !.pos = tail + 2]]
      /\ DOMAIN r = Consumers /\ Reader \in Consumers
  BY DEF Pop, rd, LInv, LateReading, Modest
<1>2. rd' = [ReaderIdle EXCEPT !.pc = "test1", !.pos = tail + 2] /\ DOMAIN r' = Consumers
  BY <1>1 DEF rd
<1>3. /\ rd'.pc = "test1" /\ rd'.pos = tail + 2 /\ rd'.got = << >>
      /\ DOMAIN rd' = {"pc", "pos", "len", "rec", "got"}
  BY <1>2 DEF ReaderIdle
<1>4. QED
  BY <1>1, <1>2, <1>3, LateQuietStep

(* In a ring that is cleared the tests find nothing.                       *)
LEMMA LatePopTestsKeep ==
    ASSUME Modest, NEW q, NEW d, NEW x, LInv(q, d, x),
           PopTestBehind(Reader) \/ PopTestEmpty(Reader)
    PROVE  LInv(q, d, x)'
<1>1. /\ UNCHANGED <<head, tail, mem, client, w, sent, handled>>
      /\ DOMAIN r = Consumers /\ Reader \in Consumers
      /\ rd.pc \in {"test1", "test2"} /\ rd.pos = tail + 2 /\ rd.got = << >>
      /\ DOMAIN rd = {"pc", "pos", "len", "rec", "got"}
  BY DEF PopTestBehind, PopTestEmpty, rd, LInv, LateReading, Modest
<1>2. client = "attached"
  BY <1>1 DEF LInv, Unattached
<1>3. Origin \in Offsets /\ tail \in Offsets /\ (q = << >> => tail = Origin)
  BY DEF LInv, LateRing, Chained
<1>4. \/ /\ rd' = [rd EXCEPT !.pc = IF tail <= head THEN "test2" ELSE "length"]
      \/ /\ rd.pos > head
         /\ rd' = ReaderIdle
      \/ /\ ~(rd.pos > head)
         /\ rd' = [rd EXCEPT !.pc = "length"]
  BY <1>1 DEF PopTestBehind, PopTestEmpty, rd
<1>5. DOMAIN r' = Consumers
  BY <1>1 DEF PopTestBehind, PopTestEmpty
<1>6. CASE rd' = ReaderIdle
  BY <1>1, <1>2, <1>5, <1>6, LateQuietStep DEF ReaderIdle
<1>7. CASE rd' # ReaderIdle
  <2>1. /\ rd'.pos = rd.pos /\ rd'.got = rd.got /\ DOMAIN rd' = DOMAIN rd
        /\ rd'.pc \in {"test2", "length"}
    BY <1>1, <1>4, <1>7
  <2>2. head \in Int /\ (head = Origin \/ (head = 0 /\ tail = 0))
    BY <1>3 DEF LInv, AtHead, Cleared, Offsets
  <2>3. rd'.pc = "length" => head = Origin /\ tail # head
    BY <1>1, <1>3, <1>4, <1>7, <2>2 DEF Offsets
  <2>4. rd'.pc \in {"length", "release"} => q # << >>
    BY <1>3, <2>1, <2>3
  <2>5. QED
    BY <1>1, <1>2, <1>5, <2>1, <2>3, <2>4, LateQuietStep
<1>8. QED
  BY <1>6, <1>7

LEMMA LateReadLengthKeeps ==
    ASSUME Modest, NEW q, NEW d, NEW x, LInv(q, d, x), ReadLength(Reader)
    PROVE  LInv(q, d, x)'
<1> DEFINE n == q[1].msg.len
<1>1. /\ UNCHANGED <<head, tail, mem, client, w, sent, handled>>
      /\ DOMAIN r = Consumers /\ Reader \in Consumers
      /\ rd.pc = "length" /\ rd.pos = tail + 2 /\ rd.got = << >> /\ q # << >>
      /\ DOMAIN rd = {"pc", "pos", "len", "rec", "got"}
  BY DEF ReadLength, rd, LInv, LateReading, Modest
<1>2. client = "attached"
  BY <1>1 DEF LInv, Unattached
<1>3. /\ Chained(Origin, tail, q) /\ 1 \in 1 .. Len(q) /\ q[1].pos = tail
      /\ tail \in Offsets /\ Whole(mem, q[1])
  BY <1>1, ChainTypes DEF LInv, LateRing, Chained
<1>4. n \in Sizes /\ n \in Nat \ {0} /\ EndPos(tail, n) \in Offsets /\ Fits(tail, n)
  BY <1>3, ChainInUse, ChainTypes
<1>5. HeaderIs(mem, HeaderPos(tail), n) /\ HeaderPos(tail) + 1 \in Offsets
  BY <1>3, <1>4, RecordParts DEF Whole
<1>6. LengthsAt(HeaderPos(tail)) = {n}
  BY <1>4, <1>5, OneLength, SizesArePositive DEF LengthsAt
<1>7. /\ rd' = [rd EXCEPT !.pc = "release", !.len = n, !.pos = DataPos(tail, n)]
      /\ DOMAIN r' = Consumers
  <2>1. CASE tail = Size - 1
    <3>1. HeaderPos(tail) = 0 /\ DataPos(tail, n) = 2
      BY <2>1 DEF HeaderPos, DataPos
    <3>2. r' = [r EXCEPT ![Reader].pc = "release", ![Reader].len = n, ![Reader].pos = 2]
      BY <1>6, <2>1, <3>1 DEF ReadLength
    <3>3. QED
      BY <1>1, <3>1, <3>2 DEF rd
  <2>2. CASE tail # Size - 1
    <3>1. /\ HeaderPos(tail) = tail /\ rd.pos - 2 = tail
          /\ DataPos(tail, n) = IF rd.pos + n >= Size THEN 0 ELSE rd.pos
      BY <1>1, <1>3, <1>4, <2>2 DEF HeaderPos, DataPos, Offsets
    <3>2. r' = [r EXCEPT ![Reader].pc = "release", ![Reader].len = n,
                         ![Reader].pos = IF @ + n >= Size THEN 0 ELSE @]
      BY <1>6, <2>2, <3>1 DEF ReadLength, rd
    <3>3. QED
      BY <1>1, <3>1, <3>2 DEF rd
  <2>3. QED
    BY <2>1, <2>2
<1>8. /\ rd'.pc = "release" /\ rd'.len = n /\ rd'.pos = DataPos(tail, n) /\ rd'.got = << >>
      /\ DOMAIN rd' = {"pc", "pos", "len", "rec", "got"}
  BY <1>1, <1>7
<1>9. QED
  BY <1>1, <1>2, <1>7, <1>8, LateQuietStep

(* The record leaves the ring, its bytes come into the handler's hands.    *)
LEMMA LateReleaseKeeps ==
    ASSUME Modest, NEW q, NEW d, NEW x, LInv(q, d, x), Release(Reader),
           NEW s, s = Tail(q), NEW y, y = q[1].msg
    PROVE  LInv(s, d, y)'
<1> DEFINE n == y.len
           L == Len(q)
           o == Origin
           u == After(Origin, q, 1)
<1>1. /\ UNCHANGED <<head, mem, client, w, sent, handled>>
      /\ DOMAIN r = Consumers /\ Reader \in Consumers
      /\ rd.pc = "release" /\ q # << >> /\ rd.len = n /\ rd.pos = DataPos(tail, n)
      /\ rd.got = << >> /\ DOMAIN rd = {"pc", "pos", "len", "rec", "got"}
      /\ tail' = rd.pos + rd.len
      /\ DOMAIN r' = Consumers /\ rd'.pc = "handle" /\ rd'.pos = rd.pos /\ rd'.len = rd.len
      /\ rd'.got = rd.got /\ DOMAIN rd' = DOMAIN rd
  BY DEF Release, rd, LInv, LateReading, Modest
<1>2. client = "attached" /\ head = o
  BY <1>1 DEF LInv, Unattached, AtHead, Cleared
<1>3. /\ Chained(o, tail, q) /\ 1 \in 1 .. L /\ L \in Nat /\ q[1].pos = tail
      /\ o \in Offsets /\ tail \in Offsets /\ Whole(mem, q[1])
      /\ q[1] \in Recs /\ q \in Seq(Recs) /\ y.id <= sent /\ sent \in Nat /\ sent <= MaxMsgs
      /\ DOMAIN mem = Offsets /\ Rising(q, sent)
  BY <1>1, ChainTypes DEF LInv, LateRing, Chained, Rising
<1>4. n \in Sizes /\ n \in Nat \ {0} /\ y = Msg(y.id, n) /\ y.id \in Nat
  BY <1>3, ChainTypes DEF Recs, Msg
<1>5. /\ Chained(o, u, s) /\ EndPos(tail, n) = u
      /\ Ahead(u, o) + n + 2 <= Ahead(tail, o)
      /\ DataPos(tail, n) \in Nat /\ DataPos(tail, n) + n = u
  <2>1. Chained(o, u, Tail(q))
    BY <1>1, <1>3, ChainTail, Zenon
  <2>2. /\ EndPos(tail, n) = u /\ Ahead(u, o) + n + 2 <= Ahead(tail, o)
        /\ DataPos(tail, n) \in Nat /\ DataPos(tail, n) + n = u
    BY <1>1, <1>3, ChainTail
  <2>3. QED
    BY <2>1, <2>2
<1>6. /\ Len(s) = L - 1
      /\ \A i \in 1 .. Len(s) : i + 1 \in 1 .. L /\ 1 < i + 1 /\ s[i] = q[i + 1]
  <2>1. Len(s) = L - 1 /\ \A i \in 1 .. L - 1 : s[i] = q[i + 1]
    BY <1>1, <1>3, HeadTailProperties
  <2>2. \A i \in 1 .. L - 1 : i + 1 \in 1 .. L /\ 1 < i + 1
    BY <1>3
  <2>3. QED
    BY <2>1, <2>2
<1> HIDE DEF L, u
<1>7. tail' = u
  BY <1>1, <1>5
<1>8. Origin' = o
  BY <1>1 DEF Origin
<1> HIDE DEF o
<1>9. LateRing(s)'
  <2>1. \A i \in 1 .. Len(s) : Whole(mem, s[i])
    BY <1>6 DEF LInv, LateRing, L
  <2>2. Rising(s, sent)
    <3>1. \A i \in 1 .. Len(s) : s[i].msg.id <= sent
      BY <1>3, <1>6 DEF Rising, L
    <3>2. ASSUME NEW i \in 1 .. Len(s), NEW j \in 1 .. Len(s), i < j
          PROVE  s[i].msg.id < s[j].msg.id
      <4>1. i + 1 \in 1 .. L /\ j + 1 \in 1 .. L /\ i + 1 < j + 1
        BY <1>6, <3>2
      <4>2. q[i + 1].msg.id < q[j + 1].msg.id
        BY <1>3, <4>1 DEF Rising, L
      <4>3. QED
        BY <1>6, <4>2
    <3>3. QED
      BY <3>1, <3>2 DEF Rising
  <2>3. QED
    BY <1>1, <1>3, <1>5, <1>7, <1>8, <2>1, <2>2 DEF LateRing
<1>10. AtHead' /\ Unattached'
  BY <1>1, <1>2, <1>8 DEF AtHead, Unattached
<1>11. Held = 0 /\ Held' = n
  BY <1>1 DEF Held
<1>12. LateWriting'
  <2>1. CASE w.pc = "idle"
    BY <1>1, <2>1 DEF LInv, LateWriting
  <2>2. CASE w.pc # "idle"
    <3>1. w.msg.len \in Nat /\ LateRoom(w.msg.len) /\ LateWriting
      BY <2>2, SizesArePositive DEF LInv, LateWriting
    <3>2. \A a, b \in Offsets : Ahead(a, b) \in Nat
      BY SizeAssumption DEF Ahead, Offsets
    <3>3. Ahead(tail, o) \in Nat /\ Ahead(u, o) \in Nat
      BY <1>3, <1>5, <3>2 DEF Chained
    <3>4. Ahead(u, o) + n + 2 * w.msg.len + 2 < Size
      <4>1. Ahead(tail, o) + 0 + 2 * w.msg.len + 2 < Size
        BY <1>11, <3>1 DEF LateRoom, o
      <4>2. \A a, b, m, k \in Nat :
               a + k + 2 <= b /\ b + 0 + 2 * m + 2 < Size => a + k + 2 * m + 2 < Size
        BY SizeAssumption
      <4>3. QED
        BY <1>4, <1>5, <3>1, <3>3, <4>1, <4>2
    <3>5. LateRoom(w.msg.len)'
      BY <1>1, <1>7, <1>8, <1>11, <3>4 DEF LateRoom
    <3>6. QED
      BY <1>1, <2>2, <3>1, <3>5 DEF LateWriting
  <2>3. QED
    BY <2>1, <2>2
<1>13. LateReading(s, y)'
  <2>1. \A k \in 1 .. rd'.len : mem'[rd'.pos + k - 1] = MsgByte(y, k)
    BY <1>1, <1>3 DEF Whole
  <2>2. \E g \in 0 .. rd'.len : rd'.got = [k \in 1 .. g |-> MsgByte(y, k)]
    <3>1. rd'.got = [k \in 1 .. 0 |-> MsgByte(y, k)]
      BY <1>1
    <3>2. QED
      BY <1>1, <1>4, <3>1
  <2>3. \A i \in 1 .. Len(s) : y.id < s[i].msg.id
    BY <1>3, <1>6 DEF Rising, L
  <2>4. rd'.pos \in Nat /\ rd'.pos + rd'.len = tail'
    BY <1>1, <1>5
  <2>5. QED
    BY <1>1, <1>3, <1>4, <2>1, <2>2, <2>3, <2>4 DEF LateReading
<1>14. LateDone(s, d, y)'
  <2>1. LateDone(q, d, x)
    BY DEF LInv
  <2>2. d.id < y.id /\ \A i \in 1 .. Len(s) : d.id < s[i].msg.id
    BY <1>3, <1>6, <2>1 DEF LateDone, L
  <2>3. QED
    BY <1>1, <2>1, <2>2 DEF LateDone
<1>15. QED
  BY <1>9, <1>10, <1>12, <1>13, <1>14 DEF LInv

LEMMA LateHandleByteKeeps ==
    ASSUME Modest, NEW q, NEW d, NEW x, LInv(q, d, x), HandleByte(Reader)
    PROVE  LInv(q, d, x)'
<1>1. /\ UNCHANGED <<head, tail, mem, client, w, sent, handled>>
      /\ DOMAIN r = Consumers /\ Reader \in Consumers
      /\ rd.pc = "handle" /\ rd.len \in Sizes /\ rd.pos \in Nat /\ rd.pos + rd.len = tail
      /\ \A k \in 1 .. rd.len : mem[rd.pos + k - 1] = MsgByte(x, k)
      /\ DOMAIN rd = {"pc", "pos", "len", "rec", "got"}
      /\ Len(rd.got) < rd.len /\ tail \in Offsets
      /\ r' = [r EXCEPT ![Reader].got = Append(@, At(rd.pos + Len(@)))]
  BY DEF HandleByte, rd, LInv, LateReading, Modest, LateRing, Chained
<1>2. client = "attached"
  BY <1>1 DEF LInv, Unattached
<1>3. rd.len \in Nat \ {0}
  BY <1>1, SizesArePositive
<1>4. PICK g \in 0 .. rd.len : rd.got = [k \in 1 .. g |-> MsgByte(x, k)]
  BY <1>1 DEF LInv, LateReading
<1>5. Len(rd.got) = g /\ g \in Nat /\ g + 1 \in 1 .. rd.len
  BY <1>1, <1>3, <1>4
<1>6. At(rd.pos + g) = MsgByte(x, g + 1)
  <2>1. rd.pos + g = rd.pos + (g + 1) - 1 /\ rd.pos + g \in Offsets
    BY <1>1, <1>3, <1>5, SizeAssumption DEF Offsets
  <2>2. QED
    BY <1>1, <1>5, <2>1 DEF At
<1>7. rd' = [rd EXCEPT !.got = Append(rd.got, MsgByte(x, g + 1))] /\ DOMAIN r' = Consumers
  BY <1>1, <1>5, <1>6 DEF rd
<1>8. /\ rd'.pc = rd.pc /\ rd'.pos = rd.pos /\ rd'.len = rd.len
      /\ rd'.got = Append(rd.got, MsgByte(x, g + 1)) /\ DOMAIN rd' = DOMAIN rd
  BY <1>1, <1>7
<1>9. rd'.got = [k \in 1 .. g + 1 |-> MsgByte(x, k)]
  BY <1>4, <1>5, <1>8
<1>10. LateReading(q, x)'
  <2>1. \E j \in 0 .. rd'.len : rd'.got = [k \in 1 .. j |-> MsgByte(x, k)]
    BY <1>5, <1>8, <1>9
  <2>2. LateReading(q, x)
    BY DEF LInv
  <2>3. QED
    BY <1>1, <1>7, <1>8, <2>1, <2>2 DEF LateReading
<1>11. LateDone(q, d, x)'
  BY <1>1, <1>8 DEF LInv, LateDone
<1>12. QED
  <2>1. Held = rd.len /\ Held' = rd.len
    BY <1>1, <1>8 DEF Held
  <2>2. QED
    BY <1>1, <1>2, <1>3, <1>10, <1>11, <2>1, LateReaderSteps

(* What was handled is the message that was in the handler's hands; its    *)
(* number is above that of the message handled before.                     *)
LEMMA LateHandledKeeps ==
    ASSUME Modest, NEW q, NEW d, NEW x, LInv(q, d, x), Handled(Reader)
    PROVE  /\ LInv(q, x, x)'
           /\ x.id \in Nat /\ x.len \in Sizes /\ d.id < x.id
           /\ handled'[Reader].got = BytesOf(x)
<1>1. /\ UNCHANGED <<head, tail, mem, client, w, sent>>
      /\ DOMAIN r = Consumers /\ DOMAIN handled = Consumers /\ Reader \in Consumers
      /\ rd.pc = "handle" /\ rd.len \in Sizes /\ Len(rd.got) = rd.len
      /\ x = Msg(x.id, rd.len) /\ x.id \in Nat /\ x.id <= sent
      /\ \A i \in 1 .. Len(q) : x.id < q[i].msg.id
      /\ r' = [r EXCEPT ![Reader] = ReaderIdle]
      /\ handled' = [handled EXCEPT ![Reader] = [rec |-> rd.rec, got |-> rd.got]]
      /\ d.id < x.id
  BY DEF Handled, rd, LInv, LateReading, LateDone, Modest
<1>2. client = "attached"
  BY <1>1 DEF LInv, Unattached
<1>3. rd.len \in Nat \ {0} /\ x.len = rd.len /\ x.len \in Lengths
  BY <1>1, SizesArePositive DEF Msg
<1>4. PICK g \in 0 .. rd.len : rd.got = [k \in 1 .. g |-> MsgByte(x, k)]
  BY <1>1 DEF LInv, LateReading
<1>5. g = rd.len
  BY <1>1, <1>3, <1>4
<1>6. rd' = ReaderIdle /\ DOMAIN r' = Consumers /\ DOMAIN handled' = Consumers
  BY <1>1 DEF rd
<1>7. handled'[Reader].got = BytesOf(x)
  BY <1>1, <1>3, <1>4, <1>5 DEF BytesOf
<1>8. LateReading(q, x)'
  BY <1>6 DEF LateReading, ReaderIdle
<1>9. LateDone(q, x, x)'
  BY <1>1, <1>3, <1>6, <1>7 DEF LateDone, ReaderIdle
<1>10. LInv(q, x, x)'
  <2>1. Held = rd.len /\ Held' = 0
    BY <1>1, <1>6 DEF Held, ReaderIdle
  <2>2. QED
    BY <1>1, <1>2, <1>3, <1>8, <1>9, <2>1, LateReaderSteps
<1>11. QED
  BY <1>1, <1>3, <1>7, <1>10

------------------------------------------------------------------------------
(* The client clears the ring.                                             *)

LEMMA LateClearHeadKeeps ==
    ASSUME NEW q, NEW d, NEW x, LInv(q, d, x), ClearHead
    PROVE  LInv(q, d, x)' \/ LInv(<< >>, d, x)'
<1>1. /\ client = "away" /\ client' = "clearing" /\ head' = 0
      /\ UNCHANGED <<tail, mem, w, r, sent, handled>>
  BY DEF ClearHead
<1>2. tail = 0 /\ rd.pc = "idle" /\ rd' = rd
  BY <1>1 DEF LInv, Unattached, rd
<1>3. Unattached'
  BY <1>1, <1>2 DEF Unattached
<1>4. CASE w.pc = "idle"
  <2>1. Origin' = 0
    BY <1>1, <1>4 DEF Origin
  <2>2. LateWriting'
    BY <1>1, <1>4 DEF LInv, LateWriting
  <2>3. QED
    BY <1>1, <1>2, <1>3, <2>1, <2>2, LateEmpties
<1>5. CASE w.pc # "idle"
  <2>1. Origin' = Origin
    BY <1>1, <1>5 DEF Origin
  <2>2. AtHead'
    BY <1>1, <1>2 DEF AtHead, Cleared
  <2>3. LateRing(q)'
    BY <1>1, <2>1 DEF LInv, LateRing
  <2>4. LateWriting'
    BY <1>1, <1>2, <2>1 DEF LInv, LateWriting, LateRoom, Held
  <2>5. LateReading(q, x)' /\ LateDone(q, d, x)'
    BY <1>1, <1>2 DEF LInv, LateReading, LateDone
  <2>6. QED
    BY <1>3, <2>2, <2>3, <2>4, <2>5 DEF LInv
<1>6. QED
  BY <1>4, <1>5

LEMMA LateClearTailKeeps ==
    ASSUME NEW q, NEW d, NEW x, LInv(q, d, x), ClearTail
    PROVE  LInv(q, d, x)'
<1>1. /\ client = "clearing" /\ client' = "attached"
      /\ UNCHANGED <<head, mem, w, r, sent, handled>>
      /\ tail' = tail
  BY DEF LInv, Unattached, ClearTail
<1>2. rd' = rd /\ Origin' = Origin
  BY <1>1 DEF Origin, rd
<1>3. LateRing(q)' /\ Unattached'
  BY <1>1, <1>2 DEF LInv, LateRing, Unattached
<1>4. AtHead'
  BY <1>1, <1>2 DEF LInv, AtHead, Cleared
<1>5. LateWriting'
  BY <1>1, <1>2 DEF LInv, LateWriting, LateRoom, Held
<1>6. LateReading(q, x)' /\ LateDone(q, d, x)'
  BY <1>1, <1>2 DEF LInv, LateReading, LateDone
<1>7. QED
  BY <1>3, <1>4, <1>5, <1>6 DEF LInv

LEMMA LateStart == ASSUME Modest, Init PROVE LateInv
<1>1. Reader \in Consumers /\ 0 \in Offsets /\ 0 \in Lengths /\ 0 <= MaxMsgs
  BY SizeAssumption, LenAssumption, BacklogAssumption DEF Modest, Offsets, Lengths
<1>2. rd = ReaderIdle /\ Origin = 0 /\ Len(<< >>) = 0 /\ << >> \in Seq(Recs)
  BY <1>1 DEF Init, rd, Origin, WriterIdle
<1>3. LateRing(<< >>)
  <2>1. Chained(0, 0, << >>)
    BY <1>1, <1>2 DEF Chained
  <2>2. QED
    BY <1>1, <1>2, <2>1 DEF Init, LateRing, Rising
<1>4. AtHead /\ Unattached /\ LateWriting
  BY <1>2 DEF Init, AtHead, Unattached, LateWriting, WriterIdle, ReaderIdle
<1>5. LateReading(<< >>, NoMsg)
  BY <1>2 DEF Init, LateReading, ReaderIdle
<1>6. LateDone(<< >>, NoMsg, NoMsg)
  <2>1. handled[Reader] = [rec |-> NoMsg, got |-> << >>] /\ DOMAIN handled = Consumers
    BY <1>1 DEF Init
  <2>2. BytesOf(NoMsg) = << >> /\ NoMsg = Msg(0, 0) /\ NoMsg.id = 0 /\ NoMsg.len = 0
    BY DEF BytesOf, NoMsg, Msg
  <2>3. QED
    BY <1>1, <1>2, <2>1, <2>2 DEF Init, LateDone, ReaderIdle
<1>7. LInv(<< >>, NoMsg, NoMsg)
  BY <1>3, <1>4, <1>5, <1>6 DEF LInv
<1>8. QED
  BY <1>7 DEF LateInv

LEMMA LateStutter ==
    ASSUME NEW q, NEW d, NEW x, LInv(q, d, x), UNCHANGED vars
    PROVE  LInv(q, d, x)'
<1>1. UNCHANGED <<head, tail, mem, client, w, r, sent, handled>> /\ rd' = rd
  BY DEF vars, rd
<1>2. Origin' = Origin
  BY <1>1 DEF Origin
<1>3. LateRing(q)' /\ AtHead' /\ Unattached'
  BY <1>1, <1>2 DEF LInv, LateRing, AtHead, Cleared, Unattached
<1>4. LateWriting'
  BY <1>1, <1>2 DEF LInv, LateWriting, LateRoom, Held
<1>5. LateReading(q, x)' /\ LateDone(q, d, x)'
  BY <1>1 DEF LInv, LateReading, LateDone
<1>6. QED
  BY <1>3, <1>4, <1>5 DEF LInv

(* The steps of the writer and the client's attaching leave the records as *)
(* they are, add one, or drop them all.                                    *)
LEMMA LateStep ==
    ASSUME Modest, LateInv, [Next]_vars
    PROVE  LateInv'
<1>1. PICK q, d, x : LInv(q, d, x)
  BY DEF LateInv
<1>2. ASSUME NEW s, NEW e, NEW y, LInv(s, e, y)' PROVE LateInv'
  BY <1>2 DEF LateInv
<1>3. CASE Producer
  <2>1. ASSUME NEW n \in Lengths \ {0}, Push(n) PROVE LateInv'
    BY <1>1, <1>2, <2>1, LatePushKeeps
  <2>2. CASE TestBehind \/ TestStart \/ TestAhead \/ TestGap
    <3>1. \E pc \in {"test1", "test2", "test3", "test4"},
             next \in {"test2", "test3", "test4", "header", "refused"} : WriterTest(pc, next)
      BY <2>2 DEF TestBehind, TestStart, TestAhead, TestGap
    <3>2. LInv(q, d, x)' \/ LInv(<< >>, d, x)'
      BY <1>1, <3>1, LateTestKeeps
    <3>3. QED
      BY <1>2, <3>2
  <2>3. CASE StoreHeader
    BY <1>1, <1>2, <2>3, LateStoreHeaderKeeps
  <2>4. CASE CopyByte
    BY <1>1, <1>2, <2>4, LateCopyByteKeeps
  <2>5. CASE Publish
    <3>1. PICK s : s = Append(q, [pos |-> w.start, msg |-> w.msg])
      OBVIOUS
    <3>2. LInv(s, d, x)'
      BY <1>1, <2>5, <3>1, LatePublishKeeps
    <3>3. QED
      BY <1>2, <3>2
  <2>6. QED
    BY <1>3, <2>1, <2>2, <2>3, <2>4, <2>5 DEF Producer
<1>4. CASE Attach
  <2>1. LInv(q, d, x)' \/ LInv(<< >>, d, x)'
    BY <1>1, <1>4, LateClearHeadKeeps, LateClearTailKeeps DEF Attach
  <2>2. QED
    BY <1>2, <2>1
<1>5. ASSUME NEW c \in Consumers, Consumer(c)
      PROVE  LateInv'
  <2>1. c = Reader
    BY DEF Modest
  <2>2. CASE Pop(c)
    BY <1>1, <1>2, <2>1, <2>2, LatePopKeeps
  <2>3. CASE PopTestBehind(c) \/ PopTestEmpty(c)
    BY <1>1, <1>2, <2>1, <2>3, LatePopTestsKeep
  <2>4. CASE ReadLength(c)
    BY <1>1, <1>2, <2>1, <2>4, LateReadLengthKeeps
  <2>5. CASE Release(c)
    <3>1. PICK s, y : s = Tail(q) /\ y = q[1].msg
      OBVIOUS
    <3>2. LInv(s, d, y)'
      BY <1>1, <2>1, <2>5, <3>1, LateReleaseKeeps
    <3>3. QED
      BY <1>2, <3>2
  <2>6. CASE HandleByte(c)
    BY <1>1, <1>2, <2>1, <2>6, LateHandleByteKeeps
  <2>7. CASE Handled(c)
    BY <1>1, <1>2, <2>1, <2>7, LateHandledKeeps
  <2>8. QED
    BY <1>5, <2>2, <2>3, <2>4, <2>5, <2>6, <2>7 DEF Consumer
<1>6. CASE UNCHANGED vars
  BY <1>1, <1>2, <1>6, LateStutter
<1>7. QED
  BY <1>3, <1>4, <1>5, <1>6 DEF Next

(* Whenever the client attaches, such records exist.                       *)
THEOREM LateInvariance == Modest => (Spec => []LateInv)
<1> SUFFICES ASSUME Modest PROVE Spec => []LateInv
  OBVIOUS
<1>1. Init => LateInv
  BY LateStart
<1>2. LateInv /\ [Next]_vars => LateInv'
  BY LateStep
<1>3. QED
  BY <1>1, <1>2, PTL DEF Spec

------------------------------------------------------------------------------
(* The bytes of a message tell its number, if it has any.                  *)
LEMMA BytesNameTheirMessage ==
    ASSUME NEW m, m.len \in Nat
    PROVE  /\ BytesOf(m) # << >> => m.len # 0
           /\ m.len # 0 => BytesOf(m)[1].of = m.id
<1>1. m.len = 0 => BytesOf(m) = << >>
  BY DEF BytesOf
<1>2. m.len # 0 => 1 \in 1 .. m.len
  OBVIOUS
<1>3. m.len # 0 => BytesOf(m)[1] = MsgByte(m, 1)
  BY <1>2 DEF BytesOf
<1>4. QED
  BY <1>1, <1>3 DEF MsgByte

(* The handler goes through the bytes of the message popped for it, though *)
(* read1 moved tail before it returned the pointer (CycleBuffer.h:122).    *)
(* After a late attach they are the bytes of some message, all of them.    *)
THEOREM HandlersSeeTheirMessage == Modest => (Spec => []HandledIntact)
<1> SUFFICES ASSUME Modest PROVE Spec => []HandledIntact
  OBVIOUS
<1>1. (late \/ IInv) /\ LateInv => HandledIntact
  <2> SUFFICES ASSUME late \/ IInv, LateInv PROVE HandledIntact
    OBVIOUS
  <2>1. Consumers = {Reader}
    BY DEF Modest
  <2>2. CASE ~late
    BY <2>1, <2>2 DEF IInv, Done, HandledIntact
  <2>3. CASE late
    <3>1. PICK q, d, x : LInv(q, d, x)
      BY DEF LateInv
    <3>2. /\ d = Msg(d.id, d.len) /\ d.id \in Nat /\ d.id <= sent /\ d.len \in Lengths
          /\ handled[Reader].got = BytesOf(d) /\ sent \in Nat /\ sent <= MaxMsgs
      BY <3>1 DEF LInv, LateDone, LateRing
    <3>3. PICK i, n : i = d.id /\ n = d.len
      OBVIOUS
    <3>4. i \in 0 .. MaxMsgs /\ n \in Lengths
      BY <3>2, <3>3, BacklogAssumption
    <3>5. handled[Reader].got = BytesOf(Msg(i, n))
      BY <3>2, <3>3
    <3>6. QED
      BY <2>1, <2>3, <3>4, <3>5 DEF HandledIntact
  <2>4. QED
    BY <2>2, <2>3
<1>2. Modest
  OBVIOUS
<1>3. QED
  BY <1>1, <1>2, Invariance, LateInvariance, PTL

(* Every message is handled once, and in the order of the pushes; after a  *)
(* late attach some may be left out, none comes again.                     *)
THEOREM HandledInOrder == Modest => (Spec => InOrder)
<1> SUFFICES ASSUME Modest PROVE Spec => InOrder
  OBVIOUS
<1> DEFINE Ordered == \A c \in Consumers :
                 handled'[c] # handled[c] =>
                    IF late
                    THEN handled[c].got # << >> => handled'[c].got[1].of > handled[c].got[1].of
                    ELSE handled'[c].rec.id = handled[c].rec.id + 1
<1>1. (late \/ IInv) /\ LateInv /\ [Next]_vars => [Ordered]_vars
  <2> SUFFICES ASSUME late \/ IInv, LateInv, Next, NEW c \in Consumers, handled'[c] # handled[c]
               PROVE  IF late
                      THEN handled[c].got # << >> => handled'[c].got[1].of > handled[c].got[1].of
                      ELSE handled'[c].rec.id = handled[c].rec.id + 1
    OBVIOUS
  <2>1. c = Reader
    BY DEF Modest
  <2>2. Handled(Reader)
    BY <2>1 DEF Modest, Next, Producer, Attach, Consumer, Push, WriterTest, TestBehind, TestStart,
         TestAhead, TestGap, StoreHeader, CopyByte, Publish, Pop, PopTestBehind, PopTestEmpty,
         ReadLength, Release, HandleByte, ClearHead, ClearTail
  <2>3. CASE ~late
    BY <2>1, <2>2, <2>3, HandledKeeps
  <2>4. CASE late
    <3>1. PICK q, d, x : LInv(q, d, x)
      BY DEF LateInv
    <3>2. /\ x.id \in Nat /\ x.len \in Sizes /\ d.id < x.id /\ handled'[Reader].got = BytesOf(x)
          /\ handled[Reader].got = BytesOf(d) /\ d.id \in Nat /\ d.len \in Lengths
      BY <2>2, <3>1, LateHandledKeeps DEF LInv, LateDone
    <3>3. x.len \in Nat \ {0} /\ d.len \in Nat
      <4>1. Lengths \subseteq Nat
        BY LenAssumption DEF Lengths
      <4>2. QED
        BY <3>2, <4>1, SizesArePositive, Zenon
    <3>4. handled'[Reader].got[1].of = x.id
      BY <3>2, <3>3, BytesNameTheirMessage
    <3>5. handled[Reader].got # << >> => handled[Reader].got[1].of = d.id
      BY <3>2, <3>3, BytesNameTheirMessage
    <3>6. QED
      BY <2>1, <2>4, <3>2, <3>4, <3>5
  <2>5. QED
    BY <2>3, <2>4
<1>2. Modest
  OBVIOUS
<1>3. QED
  BY <1>1, <1>2, Invariance, LateInvariance, PTL DEF Spec, InOrder
==============================================================================
