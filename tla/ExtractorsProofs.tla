-------------------------- MODULE ExtractorsProofs --------------------------
(***************************************************************************)
(* What the extractors get right in every well-formed packet, however many *)
(* headers, parameters and fields it has and however long they are.        *)
(*                                                                         *)
(* The argument: where a piece begins is the sum of the sizes before it,   *)
(* so no two begin at one place and a reading at the place of a piece      *)
(* finds that piece.  The invariant says at which piece the code is: at a  *)
(* header (OnHeader, with the number of tags it has counted), at a         *)
(* parameter of an M3UA message whose length it still has (OnParam), at    *)
(* the field of an SCCP message that it has counted up to (OnField), at an *)
(* optional parameter (OnParameter).  Each step adds to the offset what    *)
(* the piece says it is long, which leads to the piece that follows; that  *)
(* the packet fits in 65536 bytes keeps the 16-bit sum exact.              *)
(*                                                                         *)
(* What is found, the point codes, TCAP and the optional parameters, needs *)
(* in addition that the code comes to where it lies: as long as it is not  *)
(* there it is at one of the headers before (OnWay), each of which leads   *)
(* on.  From there three invariants follow it: of the point codes (Found), *)
(* of the calling party's number (Calling) and of the names passed so far  *)
(* (AtName, Coming).                                                       *)
(***************************************************************************)
EXTENDS PacketLayout, WellFoundedInduction, TLAPS

HeaderKinds  == FirstKinds \cup {"Vlan", "Mpls", "Tcp", "Udp", "Isup"}
BeforeChunks == {"Eth", "Vlan", "Mpls", "Ip4", "Sctp", "Chunk", "Tcp", "Udp"}
FieldKinds   == {"Class", "VPtr", "OPtr"} \cup Lengthy
States == HeaderKinds \cup FieldKinds
              \cup {"Param", "Name", "OLength", "Tcap", "returned", "dropped", "asserted"}

Types == base \in Nat /\ off \in Nat /\ field \in Nat /\ at \in States

(* How many labels in a row the piece i is the last of, which is a label.  *)
LabelNo(p, i) == IF ~Label(p, i - 1) THEN 1 ELSE IF ~Label(p, i - 2) THEN 2 ELSE 3

OnHeader ==
    at \in HeaderKinds =>
        \E i \in Taken :
            /\ Here = Start(i) /\ packet[i].kind = at
            /\ at \in BeforeChunks => \A j \in 1 .. i - 1 : packet[j].kind # "Chunk"
            /\ at = "Mpls" => tags = LabelNo(packet, i)
            /\ at \notin {"Eth", "Vlan", "Mpls"} => off = 0

(* The window begins at the M3UA header; what is read next is one of the   *)
(* message's parameters, or the chunk at its end, or lies behind the end.  *)
ParamAt(m, i) ==
    /\ m < i /\ Here = Start(i)
    /\ \A j \in m + 1 .. i - 1 : NoDataParam(packet, j)
    /\ \/ off < packet[m].len /\ packet[i].kind = "Param" /\ i \in Taken
       \/ off = packet[m].len /\ packet[i].kind = "Chunk" /\ Complete(packet, i)
OnParam ==
    at = "Param" =>
        \E m \in Taken :
            /\ base = Start(m) /\ packet[m].kind = "M3ua"
            /\ off > packet[m].len \/ \E i \in DOMAIN packet : ParamAt(m, i)

OnField ==
    at \in FieldKinds =>
        \E m \in Taken :
            /\ base = Start(m) /\ HasFields(packet, m)
            /\ field \in 1 .. Len(Layouts[packet[m].says].parts)
            /\ at = Layouts[packet[m].says].parts[field]
            /\ Here = Place(packet, m, field)
            /\ opt => \E k \in 1 .. field - 1 : PointsTo(packet, m, k)

OnParameter ==
    /\ at = "Name" => Lies(packet, Here, "Name")
    /\ at = "OLength" =>
          \E i \in DOMAIN packet : /\ Here = Start(i) /\ packet[i].kind = "Length"
                                   /\ Lies(packet, Here + 1 + packet[i].len, "Name")
    /\ at = "Tcap" => Lies(packet, Here, "Data")

OnAssert ==
    at = "asserted" => \E i \in Taken : packet[i].kind = "Class" /\ packet[i].len \notin {2, 3}

(* No pointer to optional parameters is kept before there is a message.    *)
OptUnset == opt => at \notin HeaderKinds \cup {"Param"}

IInv == /\ WellFormed(packet) /\ Types /\ OptUnset
        /\ OnHeader /\ OnParam /\ OnField /\ OnParameter /\ OnAssert

------------------------------------------------------------------------------
(* Numbers.                                                                *)

LEMMA LeastNumber ==
    ASSUME NEW T, T \subseteq Nat, T # {}
    PROVE  \E n \in T : \A m \in T : n <= m
<1>1. PICK n \in T : \A m \in T : ~ (<<m, n>> \in OpToRel(<, Nat))
  BY NatLessThanWellFounded, WFMin, Zenon
<1>2. \A m \in T : m < n => <<m, n>> \in OpToRel(<, Nat)
  BY DEF OpToRel
<1>3. \A m \in T : ~ (m < n)
  BY <1>1, <1>2, Zenon
<1>4. QED
  BY <1>3

LEMMA SetInduction ==
    ASSUME NEW S, 0 \in S, \A n \in Nat : n \in S => n + 1 \in S
    PROVE  Nat \subseteq S
<1> DEFINE T == Nat \ S
<1>1. CASE T # {}
  <2>1. PICK n \in T : \A m \in T : n <= m
    BY <1>1, LeastNumber
  <2>2. n # 0 /\ n \in Nat /\ n - 1 \in Nat
    BY <2>1
  <2>3. n - 1 \in S
    BY <2>1, <2>2
  <2>4. n - 1 + 1 \in S
    BY <2>2, <2>3
  <2>5. n - 1 + 1 = n
    BY <2>2
  <2>6. QED
    BY <2>1, <2>4, <2>5
<1>2. QED
  BY <1>1

(* The pieces of a packet.                                                 *)
LEMMA PieceTypes ==
    ASSUME NEW p \in Seq(Pieces)
    PROVE  /\ Len(p) \in Nat /\ DOMAIN p = 1 .. Len(p)
           /\ \A i \in 1 .. Len(p) : p[i].size \in Nat \ {0} /\ p[i].len \in Nat
<1>1. Len(p) \in Nat /\ DOMAIN p = 1 .. Len(p) /\ \A i \in 1 .. Len(p) : p[i] \in Pieces
  OBVIOUS
<1>2. \A q \in Pieces : q.size \in Nat \ {0} /\ q.len \in Nat
  BY DEF Pieces
<1>3. QED
  BY <1>1, <1>2

(* s[i] is the size of the first i pieces of p.                            *)
Sums(s, p, n) == s[0] = 0 /\ \A i \in 1 .. n : s[i] = s[i - 1] + p[i].size

LEMMA StartSums ==
    ASSUME NEW p \in Seq(Pieces)
    PROVE  \E s \in [0 .. Len(p) -> Nat] :
             Sums(s, p, Len(p)) /\ \A i \in 1 .. Len(p) + 1 : StartIn(p, i) = s[i - 1]
<1> DEFINE n == Len(p)
           Def(h) == h = [k \in 0 .. Len(p) |-> IF k = 0 THEN 0 ELSE h[k - 1] + p[k].size]
           S == {k \in Nat : k <= n => \E s \in [0 .. n -> Nat] : Sums(s, p, k)}
<1>0. n \in Nat /\ \A i \in 1 .. n : p[i].size \in Nat
  BY PieceTypes
<1>1. 0 \in S
  <2>1. [i \in 0 .. n |-> 0] \in [0 .. n -> Nat] /\ Sums([i \in 0 .. n |-> 0], p, 0)
    BY <1>0 DEF Sums
  <2>2. QED
    BY <2>1
<1>2. ASSUME NEW k \in Nat, k \in S PROVE k + 1 \in S
  <2> SUFFICES ASSUME k + 1 <= n PROVE \E s \in [0 .. n -> Nat] : Sums(s, p, k + 1)
    OBVIOUS
  <2>1. PICK g \in [0 .. n -> Nat] : Sums(g, p, k)
    BY <1>0, <1>2
  <2>2. PICK h : h = [g EXCEPT ![k + 1] = g[k] + p[k + 1].size]
    OBVIOUS
  <2>3. k \in 0 .. n /\ k + 1 \in 1 .. n /\ g[k] + p[k + 1].size \in Nat
    <3>1. k \in 0 .. n /\ k + 1 \in 1 .. n
      BY <1>0
    <3>2. g[k] \in Nat /\ p[k + 1].size \in Nat
      BY <1>0, <3>1
    <3>3. QED
      BY <3>1, <3>2
  <2>4. h \in [0 .. n -> Nat] /\ h[k + 1] = g[k] + p[k + 1].size /\ \A i \in 0 .. k : h[i] = g[i]
    BY <1>0, <2>2, <2>3
  <2>5. ASSUME NEW i \in 1 .. k + 1 PROVE h[i] = h[i - 1] + p[i].size
    <3>1. CASE i = k + 1
      BY <2>4, <3>1
    <3>2. CASE i # k + 1
      <4>1. i \in 1 .. k /\ i \in 0 .. k /\ i - 1 \in 0 .. k
        BY <3>2
      <4>2. QED
        BY <2>1, <2>4, <4>1 DEF Sums
    <3>3. QED
      BY <3>1, <3>2
  <2>6. Sums(h, p, k + 1)
    BY <2>1, <2>4, <2>5 DEF Sums
  <2>7. QED
    BY <2>4, <2>6
<1>3. PICK g \in [0 .. n -> Nat] : Sums(g, p, n)
  <2>1. n \in S
    <3> HIDE DEF S
    <3>1. QED
      BY <1>0, <1>1, <1>2, SetInduction
  <2>2. n <= n
    BY <1>0
  <2>3. QED
    BY <2>1, <2>2
<1>4. Def(g)
  <2>1. ASSUME NEW i \in 0 .. n PROVE g[i] = IF i = 0 THEN 0 ELSE g[i - 1] + p[i].size
    BY <1>0, <1>3 DEF Sums
  <2>2. QED
    BY <2>1
<1>5. PICK sum : Def(sum) /\ \A i : StartIn(p, i) = sum[i - 1]
  BY <1>4 DEF StartIn
<1>6. sum[0] = 0 /\ \A i \in 1 .. n : sum[i] = sum[i - 1] + p[i].size
  <2>1. sum[0] = 0
    BY <1>0, <1>5
  <2>2. ASSUME NEW i \in 1 .. n PROVE sum[i] = sum[i - 1] + p[i].size
    <3>1. i \in 0 .. n /\ i # 0
      BY <1>0
    <3>2. QED
      BY <1>5, <3>1
  <2>3. QED
    BY <2>1, <2>2
<1> DEFINE E == {k \in Nat : k <= n => sum[k] = g[k]}
<1>7. 0 \in E
  BY <1>3, <1>6 DEF Sums
<1>8. ASSUME NEW k \in Nat, k \in E PROVE k + 1 \in E
  <2>1. k + 1 <= n => k + 1 \in 1 .. n /\ k + 1 - 1 = k /\ k <= n
    BY <1>0
  <2>2. QED
    BY <1>3, <1>6, <1>8, <2>1 DEF Sums
<1>9. \A k \in 0 .. n : sum[k] = g[k]
  <2>1. Nat \subseteq E
    <3> HIDE DEF E
    <3>1. QED
      BY <1>7, <1>8, SetInduction
  <2>2. QED
    BY <1>0, <2>1
<1>10. \A i \in 1 .. n + 1 : StartIn(p, i) = g[i - 1]
  BY <1>0, <1>5, <1>9
<1>11. QED
  BY <1>3, <1>10

------------------------------------------------------------------------------
(* Where the pieces lie.                                                   *)

LEMMA StartNext ==
    ASSUME NEW p \in Seq(Pieces)
    PROVE  /\ StartIn(p, 1) = 0
           /\ \A i \in 1 .. Len(p) + 1 : StartIn(p, i) \in Nat
           /\ \A i \in 1 .. Len(p) : StartIn(p, i + 1) = StartIn(p, i) + p[i].size
<1>1. PICK s \in [0 .. Len(p) -> Nat] :
          Sums(s, p, Len(p)) /\ \A i \in 1 .. Len(p) + 1 : StartIn(p, i) = s[i - 1]
  BY StartSums
<1>2. Len(p) \in Nat
  BY PieceTypes
<1>3. \A i \in 1 .. Len(p) + 1 : StartIn(p, i) \in Nat
  BY <1>1, <1>2
<1>4. ASSUME NEW i \in 1 .. Len(p) PROVE StartIn(p, i + 1) = StartIn(p, i) + p[i].size
  <2>1. i \in 1 .. Len(p) + 1 /\ i + 1 \in 1 .. Len(p) + 1 /\ i + 1 - 1 = i
    BY <1>2
  <2>2. QED
    BY <1>1, <2>1 DEF Sums
<1>5. StartIn(p, 1) = 0
  BY <1>1, <1>2 DEF Sums
<1>6. QED
  BY <1>3, <1>4, <1>5

LEMMA StartIncreases ==
    ASSUME NEW p \in Seq(Pieces), NEW i \in 1 .. Len(p) + 1, NEW j \in 1 .. Len(p) + 1, i < j
    PROVE  StartIn(p, i) < StartIn(p, j)
<1> DEFINE S == {k \in Nat : i + 1 + k <= Len(p) + 1 => StartIn(p, i) < StartIn(p, i + 1 + k)}
<1>0. Len(p) \in Nat /\ \A k \in 1 .. Len(p) : p[k].size \in Nat \ {0}
  BY PieceTypes
<1>1. 0 \in S
  <2> SUFFICES ASSUME i + 1 + 0 <= Len(p) + 1 PROVE StartIn(p, i) < StartIn(p, i + 1 + 0)
    OBVIOUS
  <2>1. i \in 1 .. Len(p) /\ i + 1 + 0 = i + 1
    BY <1>0
  <2>2. PICK s \in Nat \ {0}, b \in Nat : s = p[i].size /\ b = StartIn(p, i)
    BY <1>0, <2>1, StartNext
  <2>3. StartIn(p, i + 1) = b + s
    BY <2>1, <2>2, StartNext
  <2>4. QED
    BY <2>1, <2>2, <2>3
<1>2. ASSUME NEW k \in Nat, k \in S PROVE k + 1 \in S
  <2> SUFFICES ASSUME i + 1 + (k + 1) <= Len(p) + 1
               PROVE  StartIn(p, i) < StartIn(p, i + 1 + (k + 1))
    OBVIOUS
  <2>1. i + 1 + k \in 1 .. Len(p) /\ i + 1 + (k + 1) = i + 1 + k + 1
    <3>1. i \in Nat /\ 1 <= i /\ Len(p) \in Nat
      BY <1>0
    <3> HIDE DEF S
    <3>2. QED
      BY ONLY <3>1, i + 1 + (k + 1) <= Len(p) + 1, k \in Nat
  <2>2. StartIn(p, i) < StartIn(p, i + 1 + k)
    BY <1>0, <1>2
  <2>3. PICK q : q = i + 1 + k
    OBVIOUS
  <2>4. q \in 1 .. Len(p) /\ q \in 1 .. Len(p) + 1
    BY <1>0, <2>1, <2>3
  <2>5. PICK s \in Nat \ {0}, b \in Nat, d \in Nat :
             s = p[q].size /\ b = StartIn(p, q) /\ d = StartIn(p, i)
    BY <1>0, <2>4, StartNext
  <2>6. StartIn(p, q + 1) = b + s
    BY <2>4, <2>5, StartNext
  <2>7. d < b + s
    BY <2>2, <2>3, <2>5
  <2>8. QED
    BY <2>1, <2>3, <2>5, <2>6, <2>7
<1>3. j - i - 1 \in Nat /\ i + 1 + (j - i - 1) = j
  BY <1>0
<1>4. j - i - 1 \in S
  <2>1. Nat \subseteq S
    <3> HIDE DEF S
    <3>1. QED
      BY <1>1, <1>2, SetInduction
  <2>2. QED
    BY <1>3, <2>1
<1>5. QED
  BY <1>0, <1>3, <1>4

(* No two pieces begin at one place, and every one lies in the packet.     *)
LEMMA StartUnique ==
    ASSUME NEW p \in Seq(Pieces), NEW i \in DOMAIN p, NEW j \in DOMAIN p,
           StartIn(p, i) = StartIn(p, j)
    PROVE  i = j
<1>1. /\ Len(p) \in Nat /\ i \in 1 .. Len(p) /\ j \in 1 .. Len(p)
      /\ i \in 1 .. Len(p) + 1 /\ j \in 1 .. Len(p) + 1
  BY PieceTypes
<1>2. StartIn(p, i) \in Nat /\ StartIn(p, j) \in Nat
  BY <1>1, StartNext
<1>3. QED
  BY <1>1, <1>2, StartIncreases

LEMMA StartInside ==
    ASSUME NEW p, Whole(p), NEW i \in DOMAIN p
    PROVE  /\ StartIn(p, i) \in Nat /\ StartIn(p, i + 1) \in Nat
           /\ StartIn(p, i + 1) = StartIn(p, i) + p[i].size
           /\ p[i].size \in Nat \ {0} /\ p[i].len \in Nat
           /\ StartIn(p, i) < 65536 /\ StartIn(p, i + 1) < 65536
<1>1. /\ p \in Seq(Pieces) /\ Len(p) \in Nat /\ i \in 1 .. Len(p) /\ i \in 1 .. Len(p) + 1
      /\ i + 1 \in 1 .. Len(p) + 1 /\ Len(p) + 1 \in 1 .. Len(p) + 1
      /\ p[i].size \in Nat \ {0} /\ p[i].len \in Nat
  BY PieceTypes DEF Whole
<1>2. StartIn(p, i) \in Nat /\ StartIn(p, i + 1) \in Nat /\ Bytes(p) \in Nat
  BY <1>1, StartNext DEF Bytes
<1>3. StartIn(p, i + 1) = StartIn(p, i) + p[i].size
  BY <1>1, StartNext
<1>4. StartIn(p, i + 1) <= Bytes(p)
  <2>1. CASE i = Len(p)
    BY <1>2, <2>1 DEF Bytes
  <2>2. CASE i # Len(p)
    <3>1. i + 1 < Len(p) + 1
      BY <1>1, <2>2
    <3>2. QED
      BY <1>1, <1>2, <3>1, StartIncreases DEF Bytes
  <2>3. QED
    BY <2>1, <2>2
<1>5. QED
  BY <1>1, <1>2, <1>3, <1>4 DEF Whole

(* A header is read where it begins, and it only.                          *)
LEMMA ReadPiece ==
    ASSUME WellFormed(packet), NEW i \in DOMAIN packet, NEW o, o = Start(i)
    PROVE  /\ PiecesAt(o, packet[i].kind) = {packet[i]}
           /\ Read(o, packet[i].kind) = {packet[i]}
<1>1. packet \in Seq(Pieces)
  BY DEF WellFormed, Whole
<1>2. \A j \in DOMAIN packet : Start(j) = o => j = i
  BY <1>1, StartUnique DEF Start
<1>3. PiecesAt(o, packet[i].kind) = {packet[i]}
  BY <1>2 DEF PiecesAt
<1>4. QED
  BY <1>3 DEF Read

(* Nothing else is read there.                                             *)
LEMMA NothingElse ==
    ASSUME WellFormed(packet), NEW i \in DOMAIN packet, NEW o, o = Start(i),
           NEW kind, packet[i].kind # kind
    PROVE  PiecesAt(o, kind) = {}
<1>1. packet \in Seq(Pieces)
  BY DEF WellFormed, Whole
<1>2. \A j \in DOMAIN packet : Start(j) = o => j = i
  BY <1>1, StartUnique DEF Start
<1>3. QED
  BY <1>2 DEF PiecesAt

(* The header behind the piece i, as it is reached from there.             *)
LEMMA Moves ==
    ASSUME WellFormed(packet), Types, NEW i \in DOMAIN packet, Here = Start(i),
           NEW n, n = packet[i].size
    PROVE  /\ base + off + n = Start(i + 1) /\ (base + off + n) % 65536 = Start(i + 1)
           /\ (off + n) % 65536 = off + n
           /\ off + n \in Nat /\ Start(i + 1) \in Nat
<1>1. Whole(packet)
  BY DEF WellFormed
<1>2. /\ Start(i) \in Nat /\ Start(i + 1) \in Nat /\ Start(i + 1) = Start(i) + n
      /\ n \in Nat /\ Start(i + 1) < 65536
  BY <1>1, StartInside DEF Start
<1>3. base \in Nat /\ off \in Nat
  BY DEF Types
<1>4. base + off + n = Start(i + 1) /\ off + n < 65536 /\ off + n \in Nat
  BY <1>2, <1>3 DEF Here
<1>5. QED
  BY <1>2, <1>4

(* A step to a header that follows the piece i.                            *)
LEMMA ToHeader ==
    ASSUME WellFormed(packet), Types, NEW i \in Taken, NEW kind \in HeaderKinds,
           Followed(packet, i, kind),
           kind \in BeforeChunks => \A j \in 1 .. i : packet[j].kind # "Chunk",
           kind = "Mpls" => tags' = LabelNo(packet, i + 1),
           kind \notin {"Eth", "Vlan", "Mpls"} => off' = 0,
           packet' = packet, at' = kind, base' \in Nat, off' \in Nat, field' \in Nat, ~opt',
           base' + off' = Start(i + 1)
    PROVE  IInv'
<1>1. /\ packet \in Seq(Pieces) /\ i \in DOMAIN packet /\ i + 1 \in DOMAIN packet
      /\ packet[i + 1].kind = kind
  BY DEF WellFormed, Whole, Followed, Taken, TakenOf
<1>2. /\ DOMAIN packet = 1 .. Len(packet) /\ Len(packet) \in Nat
  BY <1>1, PieceTypes
<1>3. i + 1 \in Taken
  <2> SUFFICES ASSUME NEW j \in 1 .. i + 1, NEW k \in 1 .. i + 1,
                      packet[j].kind = "Chunk", packet[k].kind = "Chunk"
               PROVE  j = k
    BY <1>1 DEF Taken, TakenOf
  <2>1. CASE kind = "Chunk"
    <3>1. \A l \in 1 .. i : packet[l].kind # "Chunk"
      BY <2>1 DEF BeforeChunks
    <3>2. QED
      BY <1>1, <1>2, <3>1
  <2>2. CASE kind # "Chunk"
    <3>1. j # i + 1 /\ k # i + 1
      BY <1>1, <2>2
    <3>2. j \in 1 .. i /\ k \in 1 .. i
      BY <1>1, <1>2, <3>1
    <3>3. QED
      BY <3>2 DEF Taken, TakenOf
  <2>3. QED
    BY <2>1, <2>2
<1>4. kind \in BeforeChunks => \A j \in 1 .. i + 1 - 1 : packet[j].kind # "Chunk"
  BY <1>1, <1>2
<1>5. /\ kind \notin FieldKinds
      /\ kind \notin {"Param", "Name", "OLength", "Tcap", "returned", "dropped", "asserted"}
  BY DEF HeaderKinds, FirstKinds, FieldKinds, Lengthy
<1>6. Types'
  BY DEF Types, States
<1>7. OnHeader'
  BY <1>1, <1>3, <1>4 DEF OnHeader, Here, Start, Taken
<1>8. OnParam' /\ OnField' /\ OnParameter' /\ OnAssert'
  BY <1>5 DEF OnParam, OnField, OnParameter, OnAssert
<1>9. WellFormed(packet)'
  OBVIOUS
<1>10. QED
  BY <1>6, <1>7, <1>8, <1>9 DEF IInv, OptUnset

(* A step that ends the extraction.                                        *)
LEMMA ToEnd ==
    ASSUME WellFormed(packet), Types, packet' = packet, at' \in {"returned", "dropped"},
           base' \in Nat, off' \in Nat, field' \in Nat
    PROVE  IInv'
<1>1. /\ at' \notin HeaderKinds /\ at' \notin FieldKinds
      /\ at' \notin {"Param", "Name", "OLength", "Tcap", "asserted"}
  BY DEF HeaderKinds, FirstKinds, FieldKinds, Lengthy
<1>2. Types'
  BY DEF Types, States
<1>3. QED
  BY <1>1, <1>2 DEF IInv, OptUnset, OnHeader, OnParam, OnField, OnParameter, OnAssert

(* The header that the code is at.                                         *)
AtHeader(i) ==
    /\ at \in HeaderKinds /\ ~opt
    /\ i \in Taken /\ i \in DOMAIN packet
    /\ Here = Start(i) /\ packet[i].kind = at
    /\ at \in BeforeChunks => \A j \in 1 .. i : packet[j].kind = "Chunk" => j = i
    /\ at = "Mpls" => tags = LabelNo(packet, i)
    /\ at \notin {"Eth", "Vlan", "Mpls"} => off = 0

LEMMA FindHeader ==
    ASSUME IInv, at \in HeaderKinds
    PROVE  \E i : AtHeader(i) /\ Read(Here, at) = {packet[i]}
<1>1. PICK i \in Taken :
         /\ Here = Start(i) /\ packet[i].kind = at
         /\ at \in BeforeChunks => \A j \in 1 .. i - 1 : packet[j].kind # "Chunk"
         /\ at = "Mpls" => tags = LabelNo(packet, i)
         /\ at \notin {"Eth", "Vlan", "Mpls"} => off = 0
  BY DEF IInv, OnHeader
<1>2. i \in DOMAIN packet /\ packet \in Seq(Pieces)
  BY DEF Taken, TakenOf, IInv, WellFormed, Whole
<1>3. i \in Nat
  BY <1>2, PieceTypes
<1>4. at \in BeforeChunks => \A j \in 1 .. i : packet[j].kind = "Chunk" => j = i
  <2> SUFFICES ASSUME at \in BeforeChunks, NEW j \in 1 .. i, packet[j].kind = "Chunk" PROVE j = i
    OBVIOUS
  <2>1. j \notin 1 .. i - 1
    BY <1>1
  <2>2. QED
    BY <1>3, <2>1
<1>5. AtHeader(i)
  BY <1>1, <1>2, <1>4 DEF AtHeader, IInv, OptUnset
<1>6. Read(Here, at) = {packet[i]}
  BY <1>1, <1>2, ReadPiece DEF IInv
<1>7. QED
  BY <1>5, <1>6

(* make<Header>().rebase(): the window begins at the header that follows.  *)
LEMMA GotHeader ==
    ASSUME IInv, NEW i, AtHeader(i), NEW kind \in HeaderKinds \ {"Vlan", "Mpls"},
           Followed(packet, i, kind), Got(kind, packet[i].size),
           kind \in BeforeChunks => at \in BeforeChunks /\ at # "Chunk"
    PROVE  IInv'
<1>1. WellFormed(packet) /\ Types /\ i \in Taken /\ i \in DOMAIN packet /\ Here = Start(i)
  BY DEF IInv, AtHeader
<1>2. (base + off + packet[i].size) % 65536 = Start(i + 1) /\ Start(i + 1) \in Nat
  BY <1>1, Moves
<1>3. /\ packet' = packet /\ at' = kind /\ off' = 0 /\ base' = Start(i + 1)
      /\ field' = field /\ base' + off' = Start(i + 1) /\ base' \in Nat /\ off' \in Nat /\ field' \in Nat
      /\ ~opt'
  BY <1>1, <1>2 DEF Got, Rebased, Types, AtHeader
<1>4. kind \in BeforeChunks => \A j \in 1 .. i : packet[j].kind # "Chunk"
  <2>1. ASSUME kind \in BeforeChunks, NEW j \in 1 .. i, packet[j].kind = "Chunk" PROVE FALSE
    <3>1. j = i /\ packet[i].kind # "Chunk"
      BY <2>1 DEF AtHeader
    <3>2. QED
      BY <2>1, <3>1
  <2>2. QED
    BY <2>1
<1>5. QED
  BY <1>1, <1>3, <1>4, ToHeader

(* make<Header>(): it follows in the same window.                          *)
LEMMA MadeHeader ==
    ASSUME IInv, NEW i, AtHeader(i), NEW kind \in {"Vlan", "Mpls"},
           Followed(packet, i, kind), Make(kind, packet[i].size),
           at \in {"Eth", "Vlan", "Mpls"},
           kind = "Mpls" => tags' = LabelNo(packet, i + 1)
    PROVE  IInv'
<1>1. WellFormed(packet) /\ Types /\ i \in Taken /\ i \in DOMAIN packet /\ Here = Start(i)
  BY DEF IInv, AtHeader
<1>2. /\ base + off + packet[i].size = Start(i + 1) /\ Start(i + 1) \in Nat
      /\ (off + packet[i].size) % 65536 = off + packet[i].size /\ off + packet[i].size \in Nat
  BY <1>1, Moves
<1>3. /\ packet' = packet /\ at' = kind /\ off' = off + packet[i].size /\ base' = base
      /\ field' = field /\ base \in Nat /\ field \in Nat /\ packet[i].size \in Nat /\ off \in Nat
      /\ ~opt'
  <2>1. packet[i].size \in Nat
    BY <1>1, StartInside DEF WellFormed
  <2>2. QED
    BY <1>1, <1>2, <2>1 DEF Make, Types, AtHeader
<1>4. base' + off' = Start(i + 1) /\ off' \in Nat
  BY <1>2, <1>3
<1>5. \A j \in 1 .. i : packet[j].kind # "Chunk"
  BY DEF AtHeader, BeforeChunks
<1>6. kind \in HeaderKinds
  BY DEF HeaderKinds
<1>7. QED
  BY <1>1, <1>3, <1>4, <1>5, <1>6, ToHeader

LEMMA Ending ==
    ASSUME IInv, NEW how \in {"returned", "dropped"}, End(how)
    PROVE  IInv'
<1>1. /\ WellFormed(packet) /\ Types /\ packet' = packet /\ at' = how
      /\ base' \in Nat /\ off' \in Nat /\ field' \in Nat
  BY DEF IInv, End, Types
<1>2. QED
  BY <1>1, ToEnd

------------------------------------------------------------------------------
(* Ethernet, tags and labels.                                              *)

LEMMA FirstLabel ==
    ASSUME NEW p \in Seq(Pieces), NEW i \in DOMAIN p, p[i].kind # "Mpls"
    PROVE  LabelNo(p, i + 1) = 1
<1>1. i \in Nat
  BY PieceTypes
<1>2. PICK j : j = i + 1
  OBVIOUS
<1>3. ~Label(p, j - 1)
  BY <1>1, <1>2 DEF Label
<1>4. LabelNo(p, j) = 1
  BY <1>3, Zenon DEF LabelNo
<1>5. QED
  BY <1>2, <1>4

LEMMA EthStep == IInv /\ extractEth => IInv'
<1> SUFFICES ASSUME IInv, extractEth PROVE IInv'
  OBVIOUS
<1>1. at = "Eth" /\ at \in HeaderKinds
  BY DEF extractEth, HeaderKinds, FirstKinds
<1>2. PICK i : AtHeader(i) /\ Read(Here, "Eth") = {packet[i]}
  BY <1>1, FindHeader
<1>3. i \in DOMAIN packet /\ packet[i].kind = "Eth" /\ EthLinks(packet, i)
  BY <1>1, <1>2 DEF AtHeader, IInv, WellFormed
<1>4. packet[i].size = Eth.size
  BY <1>3 DEF EthLinks
<1>5. CASE packet[i].says = "Ip4" /\ Got("Ip4", Eth.size)
  <2>1. Followed(packet, i, "Ip4")
    BY <1>3, <1>5 DEF EthLinks, Eth
  <2>2. "Ip4" \in HeaderKinds \ {"Vlan", "Mpls"} /\ at \in BeforeChunks /\ at # "Chunk"
    BY <1>1 DEF HeaderKinds, FirstKinds, BeforeChunks
  <2>3. QED
    BY <1>2, <1>4, <1>5, <2>1, <2>2, GotHeader
<1>6. CASE /\ packet[i].says \in Eth.makes \ {"Ip4"} /\ Make(packet[i].says, Eth.size)
           /\ tags' = 1
  <2>1. PICK kind \in {"Vlan", "Mpls"} : kind = packet[i].says
    BY <1>6 DEF Eth
  <2>2. Followed(packet, i, kind)
    BY <1>3, <1>6, <2>1 DEF EthLinks
  <2>3. kind = "Mpls" => tags' = LabelNo(packet, i + 1)
    <3>1. LabelNo(packet, i + 1) = 1
      BY <1>3, FirstLabel DEF IInv, WellFormed, Whole
    <3>2. QED
      BY <1>6, <3>1
  <2>4. QED
    BY <1>1, <1>2, <1>4, <1>6, <2>1, <2>2, <2>3, MadeHeader
<1>7. CASE End("returned")
  BY <1>7, Ending
<1>8. QED
  BY <1>2, <1>5, <1>6, <1>7 DEF extractEth

LEMMA VlanStep == IInv /\ extractVlan => IInv'
<1> SUFFICES ASSUME IInv, extractVlan PROVE IInv'
  OBVIOUS
<1>1. at = "Vlan" /\ at \in HeaderKinds
  BY DEF extractVlan, HeaderKinds
<1>2. PICK i : AtHeader(i) /\ Read(Here, "Vlan") = {packet[i]}
  BY <1>1, FindHeader
<1>3. i \in DOMAIN packet /\ packet[i].kind = "Vlan" /\ VlanLinks(packet, i)
  BY <1>1, <1>2 DEF AtHeader, IInv, WellFormed
<1>4. packet[i].size = Vlan.size
  BY <1>3 DEF VlanLinks
<1>5. CASE packet[i].says = "Ip4" /\ Got("Ip4", Vlan.size)
  <2>1. Followed(packet, i, "Ip4")
    BY <1>3, <1>5 DEF VlanLinks, Vlan
  <2>2. "Ip4" \in HeaderKinds \ {"Vlan", "Mpls"} /\ at \in BeforeChunks /\ at # "Chunk"
    BY <1>1 DEF HeaderKinds, FirstKinds, BeforeChunks
  <2>3. QED
    BY <1>2, <1>4, <1>5, <2>1, <2>2, GotHeader
<1>6. CASE packet[i].says = "Mpls" /\ Make("Mpls", Vlan.size) /\ tags' = 1
  <2>1. Followed(packet, i, "Mpls")
    BY <1>3, <1>6 DEF VlanLinks, Vlan
  <2>2. tags' = LabelNo(packet, i + 1)
    <3>1. LabelNo(packet, i + 1) = 1
      BY <1>3, FirstLabel DEF IInv, WellFormed, Whole
    <3>2. QED
      BY <1>6, <3>1
  <2>3. QED
    BY <1>1, <1>2, <1>4, <1>6, <2>1, <2>2, MadeHeader
<1>7. CASE packet[i].says = "Vlan" /\ Make("Vlan", Vlan.size)
  <2>1. Followed(packet, i, "Vlan")
    BY <1>3, <1>7 DEF VlanLinks, Vlan
  <2>2. QED
    BY <1>1, <1>2, <1>4, <1>7, <2>1, MadeHeader
<1>8. CASE End("returned")
  BY <1>8, Ending
<1>9. QED
  BY <1>2, <1>5, <1>6, <1>7, <1>8 DEF extractVlan

LEMMA MplsStep == IInv /\ extractMpls => IInv'
<1> SUFFICES ASSUME IInv, extractMpls PROVE IInv'
  OBVIOUS
<1>1. at = "Mpls" /\ at \in HeaderKinds
  BY DEF extractMpls, HeaderKinds
<1>2. PICK i : AtHeader(i) /\ Read(Here, "Mpls") = {packet[i]}
  BY <1>1, FindHeader
<1>3. /\ i \in DOMAIN packet /\ packet[i].kind = "Mpls" /\ MplsLinks(packet, i)
      /\ tags = LabelNo(packet, i)
  BY <1>1, <1>2 DEF AtHeader, IInv, WellFormed
<1>4. packet[i].size = Mpls.size /\ Followed(packet, i, AfterLabel(packet, i))
  BY <1>3 DEF MplsLinks
<1>0. i \in Nat /\ i + 1 - 1 = i /\ i + 1 - 2 = i - 1
  BY <1>3, PieceTypes DEF IInv, WellFormed, Whole
<1>5. CASE packet[i].says = "Last" /\ Got("Ip4", Mpls.size)
  <2>1. Followed(packet, i, "Ip4")
    BY <1>4, <1>5 DEF AfterLabel
  <2>2. "Ip4" \in HeaderKinds \ {"Vlan", "Mpls"} /\ at \in BeforeChunks /\ at # "Chunk"
    BY <1>1 DEF HeaderKinds, FirstKinds, BeforeChunks
  <2>3. QED
    BY <1>2, <1>4, <1>5, <2>1, <2>2, GotHeader
<1>6. CASE packet[i].says # "Last" /\ tags < 3 /\ Make("Mpls", Mpls.size) /\ tags' = tags + 1
  <2>1. ~(Label(packet, i - 1) /\ Label(packet, i - 2))
    BY <1>3, <1>6 DEF LabelNo
  <2>2. Followed(packet, i, "Mpls")
    BY <1>4, <1>6, <2>1 DEF AfterLabel
  <2>3. tags' = LabelNo(packet, i + 1)
    <3>1. Label(packet, i)
      BY <1>3 DEF Label
    <3>2. QED
      BY <1>0, <1>3, <1>6, <2>1, <3>1 DEF LabelNo
  <2>4. QED
    BY <1>1, <1>2, <1>4, <1>6, <2>2, <2>3, MadeHeader
<1>7. CASE packet[i].says # "Last" /\ tags = 3 /\ Got("Eth", Mpls.size)
  <2>1. Label(packet, i - 1) /\ Label(packet, i - 2)
    BY <1>3, <1>7 DEF LabelNo
  <2>2. Followed(packet, i, "Eth")
    BY <1>4, <1>7, <2>1 DEF AfterLabel
  <2>3. "Eth" \in HeaderKinds \ {"Vlan", "Mpls"} /\ at \in BeforeChunks /\ at # "Chunk"
    BY <1>1 DEF HeaderKinds, FirstKinds, BeforeChunks
  <2>4. QED
    BY <1>2, <1>4, <1>7, <2>2, <2>3, GotHeader
<1>8. CASE End("returned")
  BY <1>8, Ending
<1>9. QED
  BY <1>2, <1>5, <1>6, <1>7, <1>8 DEF extractMpls

------------------------------------------------------------------------------
(* IP, SCTP and MTP.                                                       *)

LEMMA Ip4Step == IInv /\ extractIp4 => IInv'
<1> SUFFICES ASSUME IInv, extractIp4 PROVE IInv'
  OBVIOUS
<1>1. at = "Ip4" /\ at \in HeaderKinds
  BY DEF extractIp4, HeaderKinds, FirstKinds
<1>2. PICK i : AtHeader(i) /\ Read(Here, "Ip4") = {packet[i]}
  BY <1>1, FindHeader
<1>3. i \in DOMAIN packet /\ packet[i].kind = "Ip4" /\ Ip4Links(packet, i)
  BY <1>1, <1>2 DEF AtHeader, IInv, WellFormed
<1>4. CASE /\ packet[i].len >= packet[i].size /\ packet[i].says \in Ip4.makes
           /\ Got(packet[i].says, packet[i].size)
  <2>1. Followed(packet, i, packet[i].says)
    BY <1>3, <1>4 DEF Ip4Links
  <2>2. /\ packet[i].says \in HeaderKinds \ {"Vlan", "Mpls"} /\ at \in BeforeChunks
        /\ at # "Chunk"
    BY <1>1, <1>4 DEF Ip4, HeaderKinds, FirstKinds, BeforeChunks
  <2>3. QED
    BY <1>2, <1>4, <2>1, <2>2, GotHeader
<1>5. CASE End("returned")
  BY <1>5, Ending
<1>6. QED
  BY <1>2, <1>4, <1>5 DEF extractIp4

LEMMA SctpStep == IInv /\ gotSctp => IInv'
<1> SUFFICES ASSUME IInv, gotSctp PROVE IInv'
  OBVIOUS
<1>1. at = "Sctp" /\ at \in HeaderKinds /\ Got("Chunk", Sctp.size)
  BY DEF gotSctp, HeaderKinds, FirstKinds
<1>2. PICK i : AtHeader(i)
  BY <1>1, FindHeader
<1>3. i \in DOMAIN packet /\ packet[i].kind = "Sctp" /\ SctpLinks(packet, i)
  BY <1>1, <1>2 DEF AtHeader, IInv, WellFormed
<1>4. packet[i].size = Sctp.size /\ Followed(packet, i, "Chunk")
  BY <1>3 DEF SctpLinks
<1>5. "Chunk" \in HeaderKinds \ {"Vlan", "Mpls"} /\ at \in BeforeChunks /\ at # "Chunk"
  BY <1>1 DEF HeaderKinds, FirstKinds, BeforeChunks
<1>6. QED
  BY <1>1, <1>2, <1>4, <1>5, GotHeader

LEMMA ChunkStep == IInv /\ extractSctpChunk => IInv'
<1> SUFFICES ASSUME IInv, extractSctpChunk PROVE IInv'
  OBVIOUS
<1>1. at = "Chunk" /\ at \in HeaderKinds
  BY DEF extractSctpChunk, HeaderKinds, FirstKinds
<1>2. PICK i : AtHeader(i) /\ Read(Here, "Chunk") = {packet[i]}
  BY <1>1, FindHeader
<1>3. /\ i \in DOMAIN packet /\ packet[i].kind = "Chunk" /\ ChunkLinks(packet, i)
      /\ Here = StartIn(packet, i)
  BY <1>1, <1>2 DEF AtHeader, IInv, WellFormed, Start
<1>4. CASE /\ Total - Here >= packet[i].len /\ packet[i].says \in ChunkData.makes
           /\ Got(packet[i].says, ChunkData.size)
  <2>1. packet[i].size = ChunkData.size /\ Followed(packet, i, packet[i].says)
    BY <1>3, <1>4 DEF ChunkLinks, Complete, Total
  <2>2. packet[i].says \in HeaderKinds \ {"Vlan", "Mpls"} /\ packet[i].says \notin BeforeChunks
    BY <1>4 DEF ChunkData, HeaderKinds, FirstKinds, BeforeChunks
  <2>3. QED
    BY <1>2, <1>4, <2>1, <2>2, GotHeader
<1>5. CASE End("returned") \/ End("dropped")
  BY <1>5, Ending
<1>6. QED
  BY <1>2, <1>4, <1>5 DEF extractSctpChunk

LEMMA M2uaStep == IInv /\ gotM2ua => IInv'
<1> SUFFICES ASSUME IInv, gotM2ua PROVE IInv'
  OBVIOUS
<1>1. at = "M2ua" /\ at \in HeaderKinds /\ Got("Mtp3", M2ua.size)
  BY DEF gotM2ua, HeaderKinds, FirstKinds
<1>2. PICK i : AtHeader(i)
  BY <1>1, FindHeader
<1>3. i \in DOMAIN packet /\ packet[i].kind = "M2ua" /\ M2uaLinks(packet, i)
  BY <1>1, <1>2 DEF AtHeader, IInv, WellFormed
<1>4. packet[i].size = M2ua.size /\ Followed(packet, i, "Mtp3")
  BY <1>3 DEF M2uaLinks
<1>5. "Mtp3" \in HeaderKinds \ {"Vlan", "Mpls"} /\ "Mtp3" \notin BeforeChunks
  BY DEF HeaderKinds, FirstKinds, BeforeChunks
<1>6. QED
  BY <1>1, <1>2, <1>4, <1>5, GotHeader

LEMMA MtpStep == IInv /\ extractMtp => IInv'
<1> SUFFICES ASSUME IInv, extractMtp PROVE IInv'
  OBVIOUS
<1>1. at = "Mtp" /\ at \in HeaderKinds
  BY DEF extractMtp, HeaderKinds, FirstKinds
<1>2. PICK i : AtHeader(i) /\ Read(Here, "Mtp") = {packet[i]}
  BY <1>1, FindHeader
<1>3. i \in DOMAIN packet /\ packet[i].kind = "Mtp" /\ MtpLinks(packet, i)
  BY <1>1, <1>2 DEF AtHeader, IInv, WellFormed
<1>4. CASE packet[i].says = "Isup" /\ Got("Isup", Mtp.size)
  <2>1. packet[i].size = Mtp.size /\ Followed(packet, i, "Isup")
    BY <1>3, <1>4 DEF MtpLinks
  <2>2. "Isup" \in HeaderKinds \ {"Vlan", "Mpls"} /\ "Isup" \notin BeforeChunks
    BY DEF HeaderKinds, FirstKinds, BeforeChunks
  <2>3. QED
    BY <1>2, <1>4, <2>1, <2>2, GotHeader
<1>5. CASE End("returned")
  BY <1>5, Ending
<1>6. QED
  BY <1>2, <1>4, <1>5 DEF extractMtp

LEMMA Mtp3Step == IInv /\ extractMtp3 => IInv'
<1> SUFFICES ASSUME IInv, extractMtp3 PROVE IInv'
  OBVIOUS
<1>1. at = "Mtp3" /\ at \in HeaderKinds
  BY DEF extractMtp3, HeaderKinds, FirstKinds
<1>2. PICK i : AtHeader(i) /\ Read(Here, "Mtp3") = {packet[i]}
  BY <1>1, FindHeader
<1>3. i \in DOMAIN packet /\ packet[i].kind = "Mtp3" /\ Mtp3Links(packet, i)
  BY <1>1, <1>2 DEF AtHeader, IInv, WellFormed
<1>4. ASSUME NEW kind \in {"Isup", "Mt"}, packet[i].says = IF kind = "Isup" THEN "Isup" ELSE "Sccp",
             Got(kind, Mtp3.size)
      PROVE  IInv'
  <2>1. packet[i].size = Mtp3.size /\ Followed(packet, i, kind)
    BY <1>3, <1>4 DEF Mtp3Links, Mtp3
  <2>2. kind \in HeaderKinds \ {"Vlan", "Mpls"} /\ kind \notin BeforeChunks
    BY DEF HeaderKinds, FirstKinds, BeforeChunks
  <2>3. QED
    BY <1>2, <1>4, <2>1, <2>2, GotHeader
<1>5. CASE End("returned")
  BY <1>5, Ending
<1>6. QED
  BY <1>2, <1>4, <1>5 DEF extractMtp3

------------------------------------------------------------------------------
(* M3UA.                                                                   *)

LEMMA TakenNext ==
    ASSUME WellFormed(packet), NEW i \in Taken, i + 1 \in DOMAIN packet, packet[i + 1].kind # "Chunk"
    PROVE  i + 1 \in Taken
<1>1. packet \in Seq(Pieces) /\ i \in DOMAIN packet
  BY DEF WellFormed, Whole, Taken, TakenOf
<1>2. DOMAIN packet = 1 .. Len(packet) /\ Len(packet) \in Nat
  BY <1>1, PieceTypes
<1> SUFFICES ASSUME NEW j \in 1 .. i + 1, NEW k \in 1 .. i + 1,
                    packet[j].kind = "Chunk", packet[k].kind = "Chunk"
             PROVE  j = k
  BY DEF Taken, TakenOf
<1>3. j # i + 1 /\ k # i + 1
  OBVIOUS
<1>4. j \in 1 .. i /\ k \in 1 .. i
  BY <1>1, <1>2, <1>3
<1>5. QED
  BY <1>4 DEF Taken, TakenOf

(* What is read of the message itself, from every parameter.               *)
LEMMA ReadMessage ==
    ASSUME WellFormed(packet), NEW m \in Taken, base = Start(m), NEW kind, packet[m].kind = kind
    PROVE  Read(base, kind) = {packet[m]}
<1>1. m \in DOMAIN packet
  BY DEF Taken, TakenOf
<1>2. QED
  BY <1>1, ReadPiece

(* What is read as a parameter at the end of the message.                  *)
LEMMA ReadChunk ==
    ASSUME WellFormed(packet), NEW i \in DOMAIN packet, Here = Start(i), packet[i].kind = "Chunk"
    PROVE  Read(Here, "Param") = {[packet[i] EXCEPT !.says = "NoData"]}
<1>1. PiecesAt(Here, "Param") = {}
  BY NothingElse
<1>2. PiecesAt(Here, "Chunk") = {packet[i]}
  BY ReadPiece
<1>3. QED
  BY <1>1, <1>2 DEF Read

ParamAfter(m) ==
    \/ off' > packet[m].len
    \/ \E i \in DOMAIN packet :
         /\ m < i /\ base' + off' = Start(i)
         /\ \A j \in m + 1 .. i - 1 : NoDataParam(packet, j)
         /\ \/ off' < packet[m].len /\ packet[i].kind = "Param" /\ i \in Taken
            \/ off' = packet[m].len /\ packet[i].kind = "Chunk" /\ Complete(packet, i)

LEMMA ToParam ==
    ASSUME WellFormed(packet), Types, NEW m \in Taken, packet[m].kind = "M3ua",
           packet' = packet, at' = "Param", base' = Start(m),
           base' \in Nat, off' \in Nat, field' \in Nat, ~opt',
           ParamAfter(m)
    PROVE  IInv'
<1>1. Types'
  BY DEF Types, States
<1>2. at' \notin HeaderKinds /\ at' \notin FieldKinds
  BY DEF HeaderKinds, FirstKinds, FieldKinds, Lengthy
<1>3. OnParam'
  <2>1. CASE off' > packet[m].len
    BY <2>1 DEF OnParam, Taken, Start
  <2>2. CASE ~(off' > packet[m].len)
    <3>1. PICK i \in DOMAIN packet :
             /\ m < i /\ base' + off' = Start(i)
             /\ \A j \in m + 1 .. i - 1 : NoDataParam(packet, j)
             /\ \/ off' < packet[m].len /\ packet[i].kind = "Param" /\ i \in Taken
                \/ off' = packet[m].len /\ packet[i].kind = "Chunk" /\ Complete(packet, i)
      BY <2>2 DEF ParamAfter
    <3>2. ParamAt(m, i)'
      BY <3>1 DEF ParamAt, Here, Start, Taken
    <3>3. QED
      BY <3>2 DEF OnParam, Taken, Start
  <2>3. QED
    BY <2>1, <2>2
<1>4. OnHeader' /\ OnField' /\ OnParameter' /\ OnAssert'
  BY <1>2 DEF OnHeader, OnField, OnParameter, OnAssert
<1>5. QED
  BY <1>1, <1>3, <1>4 DEF IInv, OptUnset

LEMMA M3uaStep == IInv /\ extractM3ua => IInv'
<1> SUFFICES ASSUME IInv, extractM3ua PROVE IInv'
  OBVIOUS
<1>1. at = "M3ua" /\ at \in HeaderKinds
  BY DEF extractM3ua, HeaderKinds, FirstKinds
<1>2. PICK m : AtHeader(m) /\ Read(Here, "M3ua") = {packet[m]}
  BY <1>1, FindHeader
<1>3. /\ m \in DOMAIN packet /\ packet[m].kind = "M3ua" /\ M3uaLinks(packet, m) /\ m \in Taken
      /\ WellFormed(packet) /\ Types /\ Here = Start(m)
  BY <1>1, <1>2 DEF AtHeader, IInv, WellFormed
<1>4. off = 0 /\ base \in Nat /\ field \in Nat /\ base = Here
  BY <1>1, <1>2, <1>3 DEF AtHeader, Types, Here
<1>5. packet' = packet /\ base' = base /\ field' = field /\ ~opt'
  BY <1>2 DEF extractM3ua, AtHeader
<1>6. CASE packet[m].len > M3ua.size /\ at' = "Param" /\ off' = M3ua.size
  <2>1. packet[m].size = M3ua.size /\ m + 1 \in DOMAIN packet /\ packet[m + 1].kind = "Param"
    BY <1>3, <1>6 DEF M3uaLinks, Followed
  <2>2. m + 1 \in Taken
    BY <1>3, <2>1, TakenNext
  <2>3. base' + off' = Start(m + 1)
    BY <1>3, <1>4, <1>5, <1>6, <2>1, Moves
  <2>4. m \in Nat /\ off' \in Nat
    <3>1. m \in Nat
      BY <1>3, PieceTypes DEF WellFormed, Whole
    <3>2. QED
      BY <1>6, <3>1 DEF M3ua
  <2>5. off' < packet[m].len
    <3>1. packet[m].len \in Nat
      BY <1>3, StartInside DEF WellFormed
    <3>2. QED
      BY <1>6, <2>4, <3>1
  <2>6. ParamAfter(m)
    BY <2>1, <2>2, <2>3, <2>4, <2>5 DEF ParamAfter
  <2>7. QED
    BY <1>3, <1>4, <1>5, <1>6, <2>4, <2>6, ToParam
<1>7. CASE at' = "returned" /\ UNCHANGED off
  BY <1>3, <1>4, <1>5, <1>7, ToEnd DEF Types
<1>8. QED
  BY <1>2, <1>4, <1>6, <1>7 DEF extractM3ua

(* The message and the parameter that the code is at.                      *)
LEMMA FindParam ==
    ASSUME IInv, at = "Param", InMessage
    PROVE  \E m \in Taken, i \in DOMAIN packet :
              /\ base = Start(m) /\ packet[m].kind = "M3ua" /\ ParamAt(m, i)
              /\ packet[m].len \in Nat /\ packet[i].len \in Nat
<1>1. PICK m \in Taken :
         /\ base = Start(m) /\ packet[m].kind = "M3ua"
         /\ off > packet[m].len \/ \E i \in DOMAIN packet : ParamAt(m, i)
  BY DEF IInv, OnParam
<1>2. Read(base, "M3ua") = {packet[m]}
  BY <1>1, ReadMessage DEF IInv
<1>3. off <= packet[m].len /\ off \in Nat /\ packet[m].len \in Nat
  <2>1. m \in DOMAIN packet
    BY DEF Taken, TakenOf
  <2>2. QED
    BY <1>2, <2>1, StartInside DEF InMessage, IInv, Types, WellFormed
<1>4. PICK i \in DOMAIN packet : ParamAt(m, i)
  BY <1>1, <1>3
<1>5. packet[i].len \in Nat
  BY StartInside DEF IInv, WellFormed
<1>6. QED
  BY <1>1, <1>3, <1>4, <1>5

LEMMA DataStep == IInv /\ gotProtocolData => IInv'
<1> SUFFICES ASSUME IInv, gotProtocolData PROVE IInv'
  OBVIOUS
<1>1. at = "Param" /\ InMessage /\ WellFormed(packet) /\ Types
  BY DEF gotProtocolData, IInv
<1>2. PICK m \in Taken, i \in DOMAIN packet :
         base = Start(m) /\ packet[m].kind = "M3ua" /\ ParamAt(m, i)
  BY <1>1, FindParam
<1>3. Here = Start(i)
  BY <1>2 DEF ParamAt
<1>4. CASE packet[i].kind = "Chunk"
  <2>1. Read(Here, "Param") = {[packet[i] EXCEPT !.says = "NoData"]}
    BY <1>1, <1>3, <1>4, ReadChunk
  <2>2. packet[i] \in Pieces
    BY <1>1 DEF WellFormed, Whole
  <2>3. [packet[i] EXCEPT !.says = "NoData"].says = "NoData"
    BY <2>2 DEF Pieces
  <2>4. QED
    BY <2>1, <2>3 DEF gotProtocolData
<1>5. CASE packet[i].kind = "Param" /\ i \in Taken
  <2>1. Read(Here, "Param") = {packet[i]}
    BY <1>1, <1>3, <1>5, ReadPiece
  <2>2. ParamLinks(packet, i)
    BY <1>1 DEF WellFormed
  <2>3. CASE packet[i].says = "Sccp" /\ Rebased("Mt", ProtocolData.size)
    <3>1. packet[i].size = ProtocolData.size /\ Followed(packet, i, "Mt")
      BY <1>5, <2>2, <2>3 DEF ParamLinks
    <3>2. /\ (base + off + packet[i].size) % 65536 = Start(i + 1) /\ Start(i + 1) \in Nat
      BY <1>1, <1>3, Moves
    <3>3. /\ packet' = packet /\ at' = "Mt" /\ off' = 0 /\ base' = Start(i + 1) /\ field' = field
      BY <2>3, <3>1, <3>2 DEF gotProtocolData, Rebased
    <3>4. /\ base' \in Nat /\ off' \in Nat /\ field' \in Nat /\ base' + off' = Start(i + 1)
          /\ ~opt'
      BY <1>1, <3>2, <3>3 DEF Types, gotProtocolData, IInv, OptUnset
    <3>5. "Mt" \in HeaderKinds /\ "Mt" \notin BeforeChunks
      BY DEF HeaderKinds, FirstKinds, BeforeChunks
    <3>6. QED
      BY <1>1, <1>5, <3>1, <3>3, <3>4, <3>5, ToHeader
  <2>4. CASE at' = "dropped" /\ UNCHANGED <<base, off, tags>>
    BY <1>1, <2>4, ToEnd DEF gotProtocolData, Types
  <2>5. QED
    BY <2>1, <2>3, <2>4 DEF gotProtocolData
<1>6. QED
  BY <1>2, <1>4, <1>5 DEF ParamAt

LEMMA OtherParamStep == IInv /\ otherParameter => IInv'
<1> SUFFICES ASSUME IInv, otherParameter PROVE IInv'
  OBVIOUS
<1>1. at = "Param" /\ InMessage /\ WellFormed(packet) /\ Types
  BY DEF otherParameter, IInv
<1>2. PICK m \in Taken, i \in DOMAIN packet :
         /\ base = Start(m) /\ packet[m].kind = "M3ua" /\ ParamAt(m, i)
         /\ packet[m].len \in Nat /\ packet[i].len \in Nat
  BY <1>1, FindParam
<1>3. /\ Here = Start(i) /\ m < i /\ m \in DOMAIN packet
      /\ \A j \in m + 1 .. i - 1 : NoDataParam(packet, j)
  BY <1>2 DEF ParamAt, Taken, TakenOf
<1>4. packet' = packet /\ at' = at /\ base' = base /\ field' = field /\ ~opt'
  BY <1>1 DEF otherParameter, IInv, OptUnset
<1>5. base \in Nat /\ off \in Nat /\ field \in Nat /\ m \in Nat /\ i \in Nat
  BY <1>1, <1>3, PieceTypes DEF Types, WellFormed, Whole
<1>6. CASE packet[i].kind = "Chunk" /\ off = packet[m].len /\ Complete(packet, i)
  <2>1. Read(Here, "Param") = {[packet[i] EXCEPT !.says = "NoData"]}
    BY <1>1, <1>3, <1>6, ReadChunk
  <2>2. packet[i] \in Pieces
    BY <1>1 DEF WellFormed, Whole
  <2>3. [packet[i] EXCEPT !.says = "NoData"].len = packet[i].len
    BY <2>2 DEF Pieces
  <2>4. off' = (off + packet[i].len) % 65536
    <3>1. PICK p \in Read(Here, "Param") : off' = (off + p.len) % 65536
      BY DEF otherParameter
    <3>2. p.len = packet[i].len
      BY <2>1, <2>3, Zenon
    <3>3. QED
      BY <3>1, <3>2
  <2>5. packet[i].len >= 16
    BY <1>1, <1>6 DEF WellFormed, ChunkLinks, ChunkData
  <2>6. /\ StartIn(packet, i) = base + off /\ Bytes(packet) < 65536
        /\ Bytes(packet) - StartIn(packet, i) >= packet[i].len /\ Bytes(packet) \in Nat
    <3>1. Bytes(packet) \in Nat
      <4>1. packet \in Seq(Pieces) /\ Len(packet) + 1 \in 1 .. Len(packet) + 1
        BY <1>1, PieceTypes DEF WellFormed, Whole
      <4>2. QED
        BY <4>1, StartNext DEF Bytes
    <3>2. QED
      BY <1>1, <1>3, <1>6, <3>1 DEF WellFormed, Whole, Complete, Start, Here
  <2>7. off + packet[i].len < 65536
    BY <1>2, <1>5, <2>6
  <2>8. off' = off + packet[i].len
    BY <1>2, <1>5, <2>4, <2>7
  <2>9. ParamAfter(m)
    BY <1>2, <1>5, <1>6, <2>5, <2>8 DEF ParamAfter
  <2>10. QED
    BY <1>1, <1>2, <1>4, <1>5, <2>8, <2>9, ToParam
<1>7. CASE packet[i].kind = "Param" /\ off < packet[m].len /\ i \in Taken
  <2>1. Read(Here, "Param") = {packet[i]}
    BY <1>1, <1>3, <1>7, ReadPiece
  <2>2. packet[i].says = "NoData" /\ off' = (off + packet[i].len) % 65536
    BY <2>1 DEF otherParameter
  <2>3. packet[i].size = packet[i].len
    BY <1>1, <1>7, <2>2 DEF WellFormed, ParamLinks
  <2>4. /\ base + off + packet[i].size = Start(i + 1) /\ (off + packet[i].size) % 65536 = off + packet[i].size
        /\ Start(i + 1) \in Nat
    BY <1>1, <1>3, Moves
  <2>5. off' = off + packet[i].len /\ base' + off' = Start(i + 1) /\ off' \in Nat
    BY <1>2, <1>4, <1>5, <2>2, <2>3, <2>4
  <2>6. off' = StartIn(packet, i + 1) - StartIn(packet, m)
    BY <1>2, <1>4, <1>5, <2>4, <2>5 DEF Start
  <2>7. \A j \in m + 1 .. i : NoDataParam(packet, j)
    <3> SUFFICES ASSUME NEW j \in m + 1 .. i PROVE NoDataParam(packet, j)
      OBVIOUS
    <3>1. CASE j = i
      BY <1>7, <2>2, <3>1 DEF NoDataParam
    <3>2. CASE j # i
      <4>1. j \in m + 1 .. i - 1
        BY <1>5, <3>2
      <4>2. QED
        BY <1>3, <4>1
    <3>3. QED
      BY <3>1, <3>2
  <2>8. NextParam(packet, m, i)
    BY <1>1, <1>3 DEF WellFormed
  <2>9. /\ off' < packet[m].len => Followed(packet, i, "Param")
        /\ off' = packet[m].len => Followed(packet, i, "Chunk") /\ Complete(packet, i + 1)
    BY <1>2, <1>3, <2>6, <2>7, <2>8 DEF NextParam
  <2>10. PICK k : k = i + 1
    OBVIOUS
  <2>0. m < k /\ base' + off' = Start(k) /\ \A j \in m + 1 .. k - 1 : NoDataParam(packet, j)
    BY <1>3, <1>5, <2>5, <2>7, <2>10
  <2>11. CASE off' < packet[m].len
    <3>1. i + 1 \in DOMAIN packet /\ packet[i + 1].kind = "Param"
      BY <2>9, <2>11 DEF Followed
    <3>2. i + 1 \in Taken
      BY <1>1, <1>7, <3>1, TakenNext
    <3>3. ParamAfter(m)
      BY <2>0, <2>10, <2>11, <3>1, <3>2 DEF ParamAfter
    <3>4. QED
      BY <1>1, <1>2, <1>4, <1>5, <2>5, <3>3, ToParam
  <2>12. CASE off' = packet[m].len
    <3>1. i + 1 \in DOMAIN packet /\ packet[i + 1].kind = "Chunk" /\ Complete(packet, i + 1)
      BY <2>9, <2>12 DEF Followed
    <3>2. ParamAfter(m)
      BY <2>0, <2>10, <2>12, <3>1 DEF ParamAfter
    <3>3. QED
      BY <1>1, <1>2, <1>4, <1>5, <2>5, <3>2, ToParam
  <2>13. CASE off' > packet[m].len
    <3>1. ParamAfter(m)
      BY <2>13 DEF ParamAfter
    <3>2. QED
      BY <1>1, <1>2, <1>4, <1>5, <2>5, <3>1, ToParam
  <2>14. QED
    BY <1>2, <2>5, <2>11, <2>12, <2>13
<1>8. QED
  BY <1>2, <1>6, <1>7 DEF ParamAt

------------------------------------------------------------------------------
(* SCCP: where the fields lie.                                             *)

LEMMA LayoutTypes ==
    ASSUME NEW says \in DOMAIN Layouts, NEW parts, parts = Layouts[says].parts
    PROVE  /\ Layouts[says].fixed \in Nat \ {0}
           /\ Len(parts) \in Nat \ {0} /\ \A k \in 1 .. Len(parts) : parts[k] \in FieldKinds
           /\ \A k \in 1 .. Len(parts) : parts[k] = "Class" => k = 1
<1>1. says \in {"CR", "CC", "CREF", "RLSD", "DT1", "UDT", "UDTS", "XUDT", "XUDTS"}
  BY DEF Layouts
<1>2. CASE says = "CR"
  BY <1>2 DEF Layouts, ConnectionRequest, FieldKinds, Lengthy
<1>3. CASE says = "CC"
  BY <1>3 DEF Layouts, ConnectionConfirm, FieldKinds, Lengthy
<1>4. CASE says = "CREF"
  BY <1>4 DEF Layouts, ConnectionRefused, FieldKinds, Lengthy
<1>5. CASE says = "RLSD"
  BY <1>5 DEF Layouts, Released, FieldKinds, Lengthy
<1>6. CASE says = "DT1"
  BY <1>6 DEF Layouts, DataForm1, FieldKinds, Lengthy
<1>7. CASE says \in {"UDT", "UDTS"}
  <2>1. parts = <<"VPtr", "VPtr", "VPtr", "Called", "Calling", "Content">> /\ Layouts[says].fixed = 2
    BY <1>7 DEF Layouts, UnitData
  <2>2. Len(parts) = 6 /\ \A k \in 1 .. 6 : parts[k] \in {"VPtr", "Called", "Calling", "Content"}
    BY <2>1
  <2>3. QED
    BY <2>1, <2>2 DEF FieldKinds, Lengthy
<1>8. CASE says \in {"XUDT", "XUDTS"}
  <2>1. /\ parts = <<"VPtr", "VPtr", "VPtr", "OPtr", "Called", "Calling", "Content">>
        /\ Layouts[says].fixed = 3
    BY <1>8 DEF Layouts, ExtendedUnitData
  <2>2. Len(parts) = 7 /\ \A k \in 1 .. 7 : parts[k] \in {"VPtr", "OPtr", "Called", "Calling", "Content"}
    BY <2>1
  <2>3. QED
    BY <2>1, <2>2 DEF FieldKinds, Lengthy
<1>9. QED
  BY <1>1, <1>2, <1>3, <1>4, <1>5, <1>6, <1>7, <1>8

(* g[j] is where the field j begins, for the fields up to n.               *)
Placed(g, p, m, n) ==
    /\ g[1] = StartIn(p, m) + Layouts[p[m].says].fixed
    /\ \A j \in 2 .. n : g[j] = g[j - 1] + PartBytes(p, g[j - 1], Layouts[p[m].says].parts[j - 1])

LEMMA PlaceNext ==
    ASSUME NEW p, NEW m, HasFields(p, m),
           NEW parts, parts = Layouts[p[m].says].parts
    PROVE  /\ Place(p, m, 1) = StartIn(p, m) + Layouts[p[m].says].fixed
           /\ \A k \in 1 .. Len(parts) :
                Place(p, m, k + 1) = Place(p, m, k) + PartBytes(p, Place(p, m, k), parts[k])
<1> DEFINE n == Len(parts) + 1
           first == StartIn(p, m) + Layouts[p[m].says].fixed
           Def(h) == h = [j \in 1 .. Len(Layouts[p[m].says].parts) + 1 |->
                            IF j = 1 THEN StartIn(p, m) + Layouts[p[m].says].fixed
                            ELSE h[j - 1] + PartBytes(p, h[j - 1], Layouts[p[m].says].parts[j - 1])]
           S == {k \in Nat : k + 1 <= n => \E g : Placed(g, p, m, k + 1)}
<1>0. Len(parts) \in Nat \ {0} /\ n \in Nat
  BY LayoutTypes DEF HasFields
<1>1. 0 \in S
  <2>1. Placed([j \in {1} |-> first], p, m, 1)
    BY DEF Placed
  <2>2. QED
    BY <2>1
<1>2. ASSUME NEW k \in Nat, k \in S PROVE k + 1 \in S
  <2> SUFFICES ASSUME k + 1 + 1 <= n PROVE \E g : Placed(g, p, m, k + 1 + 1)
    OBVIOUS
  <2>1. PICK g : Placed(g, p, m, k + 1)
    BY <1>0, <1>2
  <2>2. PICK v : v = g[k + 1] + PartBytes(p, g[k + 1], parts[k + 1])
    OBVIOUS
  <2>3. PICK h : h = [j \in 1 .. k + 2 |-> IF j = k + 2 THEN v ELSE g[j]]
    OBVIOUS
  <2>4. h[k + 2] = v /\ \A j \in 1 .. k + 1 : h[j] = g[j]
    BY <2>3
  <2>5. h[1] = first
    BY <2>1, <2>4 DEF Placed
  <2>6. ASSUME NEW j \in 2 .. k + 2 PROVE h[j] = h[j - 1] + PartBytes(p, h[j - 1], parts[j - 1])
    <3>1. CASE j = k + 2
      <4>1. j - 1 = k + 1 /\ h[j - 1] = g[k + 1]
        BY <2>4, <3>1
      <4>2. QED
        BY <2>2, <2>4, <3>1, <4>1
    <3>2. CASE j # k + 2
      <4>1. j \in 2 .. k + 1 /\ h[j] = g[j] /\ h[j - 1] = g[j - 1]
        BY <2>4, <3>2
      <4>2. QED
        BY <2>1, <4>1 DEF Placed
    <3>3. QED
      BY <3>1, <3>2
  <2>7. Placed(h, p, m, k + 2) /\ k + 1 + 1 = k + 2
    BY <2>5, <2>6 DEF Placed
  <2>8. QED
    BY <2>7
<1>3. PICK g : Placed(g, p, m, n)
  <2>1. Len(parts) \in S
    <3>1. Nat \subseteq S
      <4> HIDE DEF S
      <4>1. QED
        BY <1>1, <1>2, SetInduction
    <3>2. QED
      BY <1>0, <3>1
  <2>2. Len(parts) + 1 <= n => \E g : Placed(g, p, m, Len(parts) + 1)
    BY <2>1
  <2>3. Len(parts) + 1 <= n /\ Len(parts) + 1 = n
    BY <1>0
  <2>4. QED
    BY <2>2, <2>3
<1>4. PICK h : h = [j \in 1 .. n |-> g[j]]
  OBVIOUS
<1>5. Def(h)
  <2>1. ASSUME NEW j \in 1 .. n
        PROVE  h[j] = IF j = 1 THEN first ELSE h[j - 1] + PartBytes(p, h[j - 1], parts[j - 1])
    <3>1. CASE j = 1
      BY <1>3, <1>4, <3>1 DEF Placed
    <3>2. CASE j # 1
      <4>1. j \in 2 .. n /\ j - 1 \in 1 .. n
        BY <1>0, <3>2
      <4>2. h[j] = g[j] /\ h[j - 1] = g[j - 1]
        BY <1>4, <4>1
      <4>3. g[j] = g[j - 1] + PartBytes(p, g[j - 1], parts[j - 1])
        BY <1>3, <4>1 DEF Placed
      <4>4. QED
        BY <3>2, <4>2, <4>3
    <3>3. QED
      BY <3>1, <3>2
  <2>2. h = [j \in 1 .. n |-> IF j = 1 THEN first ELSE h[j - 1] + PartBytes(p, h[j - 1], parts[j - 1])]
    <3>1. h = [j \in 1 .. n |-> h[j]]
      BY <1>4
    <3> HIDE DEF n, first
    <3>2. QED
      BY <2>1, <3>1, Zenon
  <2>3. QED
    BY <2>2
<1>6. PICK place : Def(place) /\ \A k : Place(p, m, k) = place[k]
  BY <1>5 DEF Place
<1>7. place[1] = first
  BY <1>0, <1>6
<1>8. ASSUME NEW k \in 1 .. Len(parts)
      PROVE  place[k + 1] = place[k] + PartBytes(p, place[k], parts[k])
  <2>1. PICK q : q = k + 1
    OBVIOUS
  <2>2. q \in 1 .. n /\ q # 1 /\ q - 1 = k
    BY <1>0, <2>1
  <2>3. place[q] = place[q - 1] + PartBytes(p, place[q - 1], parts[q - 1])
    BY <1>6, <2>2
  <2>4. QED
    BY <2>1, <2>2, <2>3
<1>9. QED
  BY <1>6, <1>7, <1>8

------------------------------------------------------------------------------
(* SCCP: from field to field.                                              *)

PartsOf(m) == Layouts[packet[m].says].parts

(* The message m and the piece i that is its current field.                *)
FieldAt(m, i) ==
    /\ at \in FieldKinds /\ m \in Taken /\ i \in DOMAIN packet
    /\ base = Start(m) /\ HasFields(packet, m)
    /\ field \in 1 .. Len(PartsOf(m)) /\ at = PartsOf(m)[field]
    /\ Here = Place(packet, m, field)
    /\ opt => \E k \in 1 .. field - 1 : PointsTo(packet, m, k)
    /\ Here = Start(i) /\ packet[i].kind = PartKind(at)

LEMMA FindField ==
    ASSUME IInv, at \in FieldKinds
    PROVE  \E m, i : FieldAt(m, i)
<1>1. PICK m \in Taken :
         /\ base = Start(m) /\ HasFields(packet, m)
         /\ field \in 1 .. Len(PartsOf(m)) /\ at = PartsOf(m)[field]
         /\ Here = Place(packet, m, field)
         /\ opt => \E k \in 1 .. field - 1 : PointsTo(packet, m, k)
  BY DEF IInv, OnField, PartsOf
<1>2. FieldLies(packet, m, field)
  <2>1. m \in DOMAIN packet
    BY DEF Taken, TakenOf
  <2>2. FieldLinks(packet, m)
    BY <2>1 DEF IInv, WellFormed
  <2>3. QED
    BY <1>1, <2>2 DEF FieldLinks, PartsOf
<1>3. PICK i \in DOMAIN packet : StartIn(packet, i) = Here /\ packet[i].kind = PartKind(at)
  BY <1>1, <1>2 DEF FieldLies, Lies, PartsOf
<1>4. QED
  BY <1>1, <1>3 DEF FieldAt, Start

(* What the code reads at a field, and how many bytes that is.             *)
LEMMA FieldReads ==
    ASSUME IInv, NEW m, NEW i, FieldAt(m, i)
    PROVE  /\ Read(Here, PartKind(at)) = {packet[i]}
           /\ Message = packet[m] /\ Parts = PartsOf(m)
           /\ packet[i].len \in Nat
           /\ PartBytes(packet, Here, at) = IF at \in Lengthy THEN 1 + packet[i].len ELSE 1
           /\ PartBytes(packet, Here, at) \in Nat
<1>1. /\ WellFormed(packet) /\ m \in Taken /\ i \in DOMAIN packet /\ Here = Start(i)
      /\ base = Start(m) /\ packet[m].kind = "Mt" /\ packet[i].kind = PartKind(at)
  BY DEF IInv, FieldAt, HasFields
<1>2. Read(Here, PartKind(at)) = {packet[i]}
  BY <1>1, ReadPiece
<1>3. Read(base, "Mt") = {packet[m]}
  BY <1>1, ReadMessage
<1>4. Message = packet[m] /\ Parts = PartsOf(m)
  BY <1>3 DEF Message, Parts, PartsOf
<1>5. packet[i].len \in Nat
  BY <1>1, StartInside DEF WellFormed
<1>6. PartBytes(packet, Here, at) = IF at \in Lengthy THEN 1 + packet[i].len ELSE 1
  <2>1. CASE at \in Lengthy
    <3>1. packet[i].kind = "Length" /\ StartIn(packet, i) = Here
      BY <1>1, <2>1 DEF PartKind, Start
    <3>2. \A j \in DOMAIN packet : StartIn(packet, j) = Here => j = i
      BY <1>1, <3>1, StartUnique DEF WellFormed, Whole
    <3>3. (CHOOSE j \in DOMAIN packet : StartIn(packet, j) = Here /\ packet[j].kind = "Length") = i
      BY <1>1, <3>1, <3>2
    <3>4. PartBytes(packet, Here, at) =
            1 + packet[CHOOSE j \in DOMAIN packet :
                         StartIn(packet, j) = Here /\ packet[j].kind = "Length"].len
      BY <2>1, Zenon DEF PartBytes
    <3>5. QED
      BY <2>1, <3>3, <3>4, Zenon
  <2>2. CASE at \notin Lengthy
    BY <2>2 DEF PartBytes
  <2>3. QED
    BY <2>1, <2>2
<1>7. PartBytes(packet, Here, at) \in Nat
  BY <1>5, <1>6
<1>8. QED
  BY <1>2, <1>4, <1>5, <1>6, <1>7

(* A step to the field f of the message m.                                 *)
LEMMA ToField ==
    ASSUME WellFormed(packet), Types, NEW m \in Taken, HasFields(packet, m),
           NEW f \in 1 .. Len(PartsOf(m)),
           packet' = packet, at' = PartsOf(m)[f], field' = f, base' = Start(m),
           base' \in Nat, off' \in Nat, base' + off' = Place(packet, m, f),
           opt' => \E k \in 1 .. f - 1 : PointsTo(packet, m, k)
    PROVE  IInv'
<1>1. at' \in FieldKinds /\ f \in Nat
  BY LayoutTypes DEF HasFields, PartsOf
<1>2. at' \notin HeaderKinds /\ at' \notin {"Param", "Name", "OLength", "Tcap", "asserted"}
  BY <1>1 DEF HeaderKinds, FirstKinds, FieldKinds, Lengthy
<1>3. Types'
  BY <1>1 DEF Types, States
<1>4. OnField'
  BY DEF OnField, Taken, Start, Here, PartsOf
<1>5. OnHeader' /\ OnParam' /\ OnParameter' /\ OnAssert' /\ OptUnset'
  BY <1>2 DEF OnHeader, OnParam, OnParameter, OnAssert, OptUnset
<1>6. QED
  BY <1>3, <1>4, <1>5 DEF IInv

(* A step to the optional parameters, to one of them, or to TCAP.          *)
LEMMA ToPlace ==
    ASSUME WellFormed(packet), Types, packet' = packet,
           at' \in {"Name", "OLength", "Tcap"},
           base' \in Nat, off' \in Nat, field' \in Nat,
           OnParameter'
    PROVE  IInv'
<1>1. at' \notin HeaderKinds /\ at' \notin FieldKinds /\ at' \notin {"Param", "asserted"}
  BY DEF HeaderKinds, FirstKinds, FieldKinds, Lengthy
<1>2. Types'
  BY DEF Types, States
<1>3. QED
  BY <1>1, <1>2 DEF IInv, OnHeader, OnParam, OnField, OnAssert, OptUnset

(* What lies in the packet is reached without a remainder.                 *)
LEMMA Reached ==
    ASSUME WellFormed(packet), Types, NEW n \in Nat, NEW kind, Lies(packet, Here + n, kind)
    PROVE  (off + n) % 65536 = off + n /\ off + n \in Nat /\ base + (off + n) = Here + n
<1>1. PICK i \in DOMAIN packet : StartIn(packet, i) = Here + n
  BY DEF Lies
<1>2. StartIn(packet, i) < 65536
  BY StartInside DEF WellFormed
<1>3. base \in Nat /\ off \in Nat
  BY DEF Types
<1>4. off + n < 65536 /\ off + n \in Nat /\ base + (off + n) = Here + n
  BY <1>1, <1>2, <1>3 DEF Here
<1>5. QED
  BY <1>4

(* Past the current field of the message m, of n bytes: at the next field, *)
(* or, if that was the last, at the optional parameters or out.            *)
Pointed(m, optional) == optional => \E k \in 1 .. field : PointsTo(packet, m, k)
NextField(m) == IF field < Len(PartsOf(m)) THEN at' = PartsOf(m)[field + 1]
                ELSE at' \in {"Name", "returned", "dropped"}
PastField(m, n) ==
    /\ packet' = packet /\ base' = base /\ off' = (off + n) % 65536 /\ field' = field + 1
    /\ NextField(m)
    /\ Pointed(m, at' = "Name") /\ Pointed(m, opt')

LEMMA PastStep ==
    ASSUME IInv, NEW m, NEW i, FieldAt(m, i),
           PastField(m, IF at \in Lengthy THEN 1 + packet[i].len ELSE 1)
    PROVE  IInv'
<1>0. /\ WellFormed(packet) /\ Types /\ m \in Taken /\ HasFields(packet, m) /\ base = Start(m)
      /\ field \in 1 .. Len(PartsOf(m)) /\ Here = Place(packet, m, field) /\ at = PartsOf(m)[field]
  BY DEF IInv, FieldAt
<1>1. PICK n : n = IF at \in Lengthy THEN 1 + packet[i].len ELSE 1
  OBVIOUS
<1>2. PartBytes(packet, Here, at) = n /\ n \in Nat
  BY <1>1, FieldReads
<1>3. PastField(m, n)
  BY <1>1
<1>4. /\ Len(PartsOf(m)) \in Nat /\ field \in Nat /\ base \in Nat /\ off \in Nat
  BY <1>0, LayoutTypes DEF HasFields, PartsOf, Types
<1>5. PICK f : f = field + 1
  OBVIOUS
<1>6. Place(packet, m, f) = Here + n
  BY <1>0, <1>2, <1>5, PlaceNext DEF PartsOf
<1>7. FieldLinks(packet, m)
  BY <1>0 DEF WellFormed, Taken, TakenOf
<1>8. packet' = packet /\ base' = base /\ off' = (off + n) % 65536 /\ field' = f
  BY <1>3, <1>5 DEF PastField
<1>9. CASE field < Len(PartsOf(m))
  <2>1. f \in 1 .. Len(PartsOf(m)) /\ 1 .. f - 1 = 1 .. field
    BY <1>4, <1>5, <1>9
  <2>2. PICK kind : Lies(packet, Here + n, kind)
    <3>1. FieldLies(packet, m, f)
      BY <1>0, <1>7, <2>1 DEF FieldLinks, PartsOf
    <3>2. QED
      BY <1>6, <3>1 DEF FieldLies
  <2>3. off' = off + n /\ off' \in Nat /\ base + (off + n) = Here + n
    BY <1>0, <1>2, <1>8, <2>2, Reached
  <2>4. base' + off' = Place(packet, m, f) /\ base' = Start(m) /\ base' \in Nat
    BY <1>0, <1>4, <1>6, <1>8, <2>3
  <2>5. at' = PartsOf(m)[f]
    BY <1>3, <1>5, <1>9 DEF PastField, NextField
  <2>6. opt' => \E k \in 1 .. f - 1 : PointsTo(packet, m, k)
    <3>1. opt' => \E k \in 1 .. field : PointsTo(packet, m, k)
      <4>1. Pointed(m, at' = "Name") /\ Pointed(m, opt')
        BY ONLY <1>3 DEF PastField
      <4>2. QED
        BY <4>1, Zenon DEF Pointed
    <3>2. 1 .. f - 1 = 1 .. field
      BY <2>1
    <3>3. QED
      BY <3>1, <3>2, Zenon
  <2>7. QED
    BY <1>0, <1>8, <2>1, <2>3, <2>4, <2>5, <2>6, ToField
<1>10. CASE ~(field < Len(PartsOf(m))) /\ at' = "Name"
  <2>1. field = Len(PartsOf(m)) /\ f = Len(PartsOf(m)) + 1
    BY <1>0, <1>4, <1>5, <1>10
  <2>2. \E k \in 1 .. Len(PartsOf(m)) : PointsTo(packet, m, k)
    BY <1>3, <1>10, <2>1 DEF PastField, Pointed
  <2>3. Lies(packet, Here + n, "Name")
    BY <1>0, <1>6, <1>7, <2>1, <2>2 DEF FieldLinks, PartsOf
  <2>4. off' = off + n /\ off' \in Nat /\ base + (off + n) = Here + n
    BY <1>0, <1>2, <1>8, <2>3, Reached
  <2>5. base' \in Nat /\ field' \in Nat
    BY <1>4, <1>5, <1>8
  <2>6. OnParameter'
    BY <1>8, <1>10, <2>3, <2>4 DEF OnParameter, Here
  <2>7. QED
    BY <1>0, <1>8, <1>10, <2>4, <2>5, <2>6, ToPlace
<1>11. CASE ~(field < Len(PartsOf(m))) /\ at' # "Name"
  <2>1. at' \in {"returned", "dropped"}
    BY <1>3, <1>11 DEF PastField, NextField
  <2>2. base' \in Nat /\ field' \in Nat /\ off' \in Nat
    BY <1>2, <1>4, <1>5, <1>8
  <2>3. QED
    BY <1>0, <1>8, <2>1, <2>2, ToEnd
<1>12. QED
  BY <1>9, <1>10, <1>11

(* No field is of the kind of an optional parameter's name.                *)
LEMMA PastIsPast ==
    ASSUME IInv, NEW m, NEW i, FieldAt(m, i), NEW n, NEW optional,
           Past(n, optional),
           opt' \/ optional => \E k \in 1 .. field : PointsTo(packet, m, k)
    PROVE  PastField(m, n)
<1>1. Message = packet[m] /\ Parts = PartsOf(m)
  BY FieldReads
<1>2. /\ packet' = packet /\ base' = base /\ off' = (off + n) % 65536 /\ field' = field + 1
  BY DEF Past
<1>3. field < Len(PartsOf(m)) => at' = PartsOf(m)[field + 1]
  BY <1>1 DEF Past
<1>4. ~(field < Len(PartsOf(m))) => at' \in {"Name", "returned", "dropped"} /\ (at' = "Name" => optional)
  BY <1>1 DEF Past, Outcome
<1>5. field < Len(PartsOf(m)) => at' # "Name"
  <2>1. /\ HasFields(packet, m) /\ field \in 1 .. Len(PartsOf(m)) /\ Len(PartsOf(m)) \in Nat
        /\ \A k \in 1 .. Len(PartsOf(m)) : PartsOf(m)[k] \in FieldKinds
    BY LayoutTypes DEF FieldAt, HasFields, PartsOf
  <2>2. field < Len(PartsOf(m)) => field + 1 \in 1 .. Len(PartsOf(m))
    BY <2>1
  <2>3. QED
    BY <1>3, <2>1, <2>2 DEF FieldKinds, Lengthy
<1>6. Pointed(m, at' = "Name") /\ Pointed(m, opt')
  BY <1>4, <1>5, Zenon DEF Pointed
<1>7. QED
  BY <1>2, <1>3, <1>4, <1>6 DEF PastField, NextField

LEMMA TypeStep == IInv /\ messageType => IInv'
<1> SUFFICES ASSUME IInv, messageType PROVE IInv'
  OBVIOUS
<1>1. at = "Mt" /\ at \in HeaderKinds
  BY DEF messageType, HeaderKinds, FirstKinds
<1>2. PICK m : AtHeader(m) /\ Read(Here, "Mt") = {packet[m]}
  BY <1>1, FindHeader
<1>3. /\ m \in DOMAIN packet /\ packet[m].kind = "Mt" /\ m \in Taken /\ FieldLinks(packet, m)
      /\ WellFormed(packet) /\ Types /\ Here = Start(m) /\ off = 0 /\ ~opt
  BY <1>1, <1>2 DEF AtHeader, IInv, WellFormed
<1>4. base \in Nat /\ off \in Nat /\ field \in Nat /\ base = Start(m)
  BY <1>3 DEF Types, Here
<1>5. packet' = packet /\ base' = base /\ ~opt'
  BY <1>3 DEF messageType
<1>6. CASE /\ packet[m].says \in DOMAIN Layouts
           /\ at' = PartsOf(m)[1] /\ field' = 1 /\ off' = Layouts[packet[m].says].fixed
  <2>1. HasFields(packet, m)
    BY <1>3, <1>6 DEF HasFields
  <2>2. 1 \in 1 .. Len(PartsOf(m)) /\ off' \in Nat
    BY <1>6, LayoutTypes DEF PartsOf
  <2>3. Place(packet, m, 1) = base' + off'
    BY <1>4, <1>5, <1>6, <2>1, PlaceNext DEF Start
  <2>4. base' \in Nat /\ base' = Start(m)
    BY <1>4, <1>5
  <2>5. QED
    BY <1>3, <1>5, <1>6, <2>1, <2>2, <2>3, <2>4, ToField
<1>7. CASE at' = "dropped" /\ UNCHANGED <<field, off>>
  BY <1>3, <1>4, <1>5, <1>7, ToEnd
<1>8. QED
  BY <1>2, <1>6, <1>7 DEF messageType, PartsOf

(* The class is the first field of its messages.                           *)
LEMMA ClassTaken ==
    ASSUME IInv, at = "Class", NEW m, NEW i, FieldAt(m, i)
    PROVE  i \in Taken /\ packet[i].kind = "Class"
<1>1. /\ packet \in Seq(Pieces) /\ m \in Taken /\ m \in DOMAIN packet /\ i \in DOMAIN packet
      /\ HasFields(packet, m) /\ FieldLinks(packet, m)
      /\ field \in 1 .. Len(PartsOf(m)) /\ PartsOf(m)[field] = "Class" /\ base = Start(m)
      /\ StartIn(packet, i) = Place(packet, m, field) /\ packet[i].kind = "Class"
  BY DEF IInv, WellFormed, Whole, FieldAt, Taken, TakenOf, Start, PartKind, Lengthy
<1>2. field = 1
  BY <1>1, LayoutTypes DEF HasFields, PartsOf
<1>3. DOMAIN packet = 1 .. Len(packet) /\ Len(packet) \in Nat
  BY <1>1, PieceTypes
<1>4. \A j \in DOMAIN packet : m < j /\ StartIn(packet, j) <= StartIn(packet, i) => packet[j].kind # "Chunk"
  BY <1>1, <1>2 DEF FieldLinks
<1>5. ASSUME NEW j \in 1 .. i, packet[j].kind = "Chunk" PROVE j \in 1 .. m
  <2>1. j \in DOMAIN packet /\ j \in 1 .. Len(packet) + 1 /\ i \in 1 .. Len(packet) + 1
    BY <1>1, <1>3
  <2>2. StartIn(packet, j) \in Nat /\ StartIn(packet, i) \in Nat
    BY <1>1, <2>1, StartNext
  <2>3. StartIn(packet, j) <= StartIn(packet, i)
    <3>1. CASE j = i
      BY <2>2, <3>1
    <3>2. CASE j # i
      <4>1. j < i
        BY <1>1, <1>3, <3>2
      <4>2. QED
        BY <1>1, <2>1, <2>2, <4>1, StartIncreases
    <3>3. QED
      BY <3>1, <3>2
  <2>4. ~(m < j)
    BY <1>4, <1>5, <2>1, <2>3
  <2>5. QED
    BY <1>1, <1>3, <2>4
<1>6. QED
  BY <1>1, <1>5 DEF Taken, TakenOf

LEMMA OptPast ==
    ASSUME IInv, NEW m, NEW i, FieldAt(m, i), NEW n, Past(n, opt), UNCHANGED opt
    PROVE  PastField(m, n)
<1>1. opt => \E k \in 1 .. field : PointsTo(packet, m, k)
  <2>1. field \in 1 .. Len(PartsOf(m)) /\ (opt => \E k \in 1 .. field - 1 : PointsTo(packet, m, k))
    BY DEF FieldAt
  <2>2. \A k \in 1 .. field - 1 : k \in 1 .. field
    BY <2>1
  <2>3. QED
    BY <2>1, <2>2, Zenon
<1>2. opt' \/ opt => \E k \in 1 .. field : PointsTo(packet, m, k)
  BY <1>1, Zenon
<1>3. QED
  BY <1>2, PastIsPast

LEMMA ClassStep == IInv /\ protocolClass => IInv'
<1> SUFFICES ASSUME IInv, protocolClass PROVE IInv'
  OBVIOUS
<1>1. at = "Class" /\ at \in FieldKinds /\ PartKind(at) = "Class" /\ at \notin Lengthy
  BY DEF protocolClass, FieldKinds, PartKind, Lengthy
<1>2. PICK m, i : FieldAt(m, i)
  BY <1>1, FindField
<1>3. Read(Here, "Class") = {packet[i]}
  BY <1>1, <1>2, FieldReads
<1>4. CASE Past(1, opt) /\ UNCHANGED <<opt, ssn>>
  <2>1. PastField(m, 1)
    BY <1>2, <1>4, OptPast
  <2>2. QED
    BY <1>1, <1>2, <2>1, PastStep
<1>5. CASE packet[i].len \notin {2, 3} /\ End("asserted")
  <2>1. i \in Taken /\ packet[i].kind = "Class"
    BY <1>1, <1>2, ClassTaken
  <2>2. /\ packet' = packet /\ base' = base /\ off' = off /\ field' = field /\ at' = "asserted"
    BY <1>5 DEF End
  <2>3. Types'
    BY <2>2 DEF IInv, Types, States
  <2>4. at' \notin HeaderKinds /\ at' \notin FieldKinds /\ at' \notin {"Param", "Name", "OLength", "Tcap"}
    BY <2>2 DEF HeaderKinds, FirstKinds, FieldKinds, Lengthy
  <2>5. OnAssert'
    BY <1>5, <2>1, <2>2 DEF OnAssert, Taken
  <2>6. QED
    BY <2>2, <2>3, <2>4, <2>5 DEF IInv, OnHeader, OnParam, OnField, OnParameter, OptUnset
<1>6. QED
  BY <1>3, <1>4, <1>5 DEF protocolClass

LEMMA VPtrStep == IInv /\ vParameterPtr => IInv'
<1> SUFFICES ASSUME IInv, vParameterPtr PROVE IInv'
  OBVIOUS
<1>1. at = "VPtr" /\ at \in FieldKinds /\ PartKind(at) = "Ptr" /\ at \notin Lengthy
  BY DEF vParameterPtr, FieldKinds, PartKind, Lengthy
<1>2. PICK m, i : FieldAt(m, i)
  BY <1>1, FindField
<1>3. Read(Here, "Ptr") = {packet[i]}
  BY <1>1, <1>2, FieldReads
<1>4. packet[i].len # 0
  <2>1. /\ m \in DOMAIN packet /\ i \in DOMAIN packet /\ HasFields(packet, m)
        /\ field \in 1 .. Len(PartsOf(m)) /\ PartsOf(m)[field] = "VPtr"
        /\ StartIn(packet, i) = Place(packet, m, field)
    BY <1>1, <1>2 DEF FieldAt, Taken, TakenOf, Start
  <2>2. FieldLies(packet, m, field)
    BY <2>1 DEF IInv, WellFormed, FieldLinks, PartsOf
  <2>3. QED
    BY <2>1, <2>2 DEF FieldLies, PartsOf
<1>5. Past(1, opt) /\ UNCHANGED <<opt, ssn>>
  BY <1>3, <1>4 DEF vParameterPtr
<1>6. PastField(m, 1)
  BY <1>2, <1>5, OptPast
<1>7. QED
  BY <1>1, <1>2, <1>6, PastStep

LEMMA OPtrStep == IInv /\ oParameterPtr => IInv'
<1> SUFFICES ASSUME IInv, oParameterPtr PROVE IInv'
  OBVIOUS
<1>1. at = "OPtr" /\ at \in FieldKinds /\ PartKind(at) = "Ptr" /\ at \notin Lengthy
  BY DEF oParameterPtr, FieldKinds, PartKind, Lengthy
<1>2. PICK m, i : FieldAt(m, i)
  BY <1>1, FindField
<1>3. Read(Here, "Ptr") = {packet[i]}
  BY <1>1, <1>2, FieldReads
<1>4. (opt' = (packet[i].len # 0)) /\ Past(1, packet[i].len # 0)
  BY <1>3 DEF oParameterPtr
<1>5. packet[i].len # 0 => \E k \in 1 .. field : PointsTo(packet, m, k)
  <2>1. packet[i].len # 0 => PointsTo(packet, m, field)
    BY <1>1, <1>2 DEF FieldAt, PointsTo, PartsOf, Start
  <2>2. field \in 1 .. field
    <3>1. field \in 1 .. Len(PartsOf(m))
      BY <1>2 DEF FieldAt
    <3>2. QED
      BY <3>1
  <2>3. QED
    BY <2>1, <2>2
<1>6. PastField(m, 1)
  <2>1. opt' \/ packet[i].len # 0 => \E k \in 1 .. field : PointsTo(packet, m, k)
    BY <1>4, <1>5, Zenon
  <2>2. QED
    BY <1>2, <1>4, <2>1, PastIsPast
<1>7. QED
  BY <1>1, <1>2, <1>6, PastStep

LEMMA VParameterStep == IInv /\ vParameter => IInv'
<1> SUFFICES ASSUME IInv, vParameter PROVE IInv'
  OBVIOUS
<1>1. at = "Called" /\ at \in FieldKinds /\ PartKind(at) = "Length" /\ at \in Lengthy
  BY DEF vParameter, FieldKinds, PartKind, Lengthy
<1>2. PICK m, i : FieldAt(m, i)
  BY <1>1, FindField
<1>3. Read(Here, "Length") = {packet[i]}
  BY <1>1, <1>2, FieldReads
<1>4. Past(1 + packet[i].len, opt) /\ UNCHANGED <<opt, ssn>>
  BY <1>3 DEF vParameter
<1>5. PastField(m, 1 + packet[i].len)
  BY <1>2, <1>4, OptPast
<1>6. QED
  BY <1>1, <1>2, <1>5, PastStep

LEMMA CallingStep == IInv /\ callingParty => IInv'
<1> SUFFICES ASSUME IInv, callingParty PROVE IInv'
  OBVIOUS
<1>1. at = "Calling" /\ at \in FieldKinds /\ PartKind(at) = "Length" /\ at \in Lengthy
  BY DEF callingParty, FieldKinds, PartKind, Lengthy
<1>2. PICK m, i : FieldAt(m, i)
  BY <1>1, FindField
<1>3. Read(Here, "Length") = {packet[i]}
  BY <1>1, <1>2, FieldReads
<1>4. Past(1 + packet[i].len, opt) /\ UNCHANGED opt
  BY <1>3 DEF callingParty
<1>5. PastField(m, 1 + packet[i].len)
  BY <1>2, <1>4, OptPast
<1>6. QED
  BY <1>1, <1>2, <1>5, PastStep

LEMMA ContentStep == IInv /\ content => IInv'
<1> SUFFICES ASSUME IInv, content PROVE IInv'
  OBVIOUS
<1>1. at = "Content" /\ at \in FieldKinds /\ PartKind(at) = "Length" /\ at \in Lengthy
  BY DEF content, FieldKinds, PartKind, Lengthy
<1>2. PICK m, i : FieldAt(m, i)
  BY <1>1, FindField
<1>3. Read(Here, "Length") = {packet[i]}
  BY <1>1, <1>2, FieldReads
<1>4. CASE Past(1 + packet[i].len, opt) /\ UNCHANGED <<opt, ssn>>
  <2>1. PastField(m, 1 + packet[i].len)
    BY <1>2, <1>4, OptPast
  <2>2. QED
    BY <1>1, <1>2, <2>1, PastStep
<1>5. CASE Got("Tcap", 1)
  <2>1. Lies(packet, Here + 1, "Data")
    <3>1. /\ m \in DOMAIN packet /\ HasFields(packet, m) /\ field \in 1 .. Len(PartsOf(m))
          /\ PartsOf(m)[field] = "Content" /\ Here = Place(packet, m, field)
      BY <1>1, <1>2 DEF FieldAt, Taken, TakenOf
    <3>2. FieldLies(packet, m, field)
      BY <3>1 DEF IInv, WellFormed, FieldLinks, PartsOf
    <3>3. QED
      BY <3>1, <3>2 DEF FieldLies, PartsOf
  <2>2. /\ packet' = packet /\ at' = "Tcap" /\ base' = (base + off + 1) % 65536 /\ off' = 0
        /\ field' = field
    BY <1>5 DEF Got, Rebased
  <2>3. PICK j \in DOMAIN packet : StartIn(packet, j) = Here + 1
    BY <2>1 DEF Lies
  <2>4. StartIn(packet, j) < 65536 /\ StartIn(packet, j) \in Nat
    BY StartInside DEF IInv, WellFormed
  <2>5. base \in Nat /\ off \in Nat /\ field \in Nat
    BY DEF IInv, Types
  <2>6. base' = Here + 1 /\ base' \in Nat
    BY <2>2, <2>3, <2>4, <2>5 DEF Here
  <2>7. base' + off' = Here + 1
    BY <2>2, <2>6
  <2>8. OnParameter'
    BY <2>1, <2>2, <2>7 DEF OnParameter, Here
  <2>9. off' \in Nat /\ field' \in Nat
    BY <2>2, <2>5
  <2>10. QED
    BY <2>2, <2>6, <2>8, <2>9, ToPlace DEF IInv
<1>6. QED
  BY <1>3, <1>4, <1>5 DEF content

------------------------------------------------------------------------------
(* The optional parameters.                                                *)

LEMMA NameStep == IInv /\ optionalName => IInv'
<1> SUFFICES ASSUME IInv, optionalName PROVE IInv'
  OBVIOUS
<1>1. /\ at = "Name" /\ WellFormed(packet) /\ Types /\ packet' = packet /\ base' = base
      /\ field' = field /\ base \in Nat /\ off \in Nat /\ field \in Nat
  BY DEF optionalName, IInv, Types
<1>2. PICK i \in DOMAIN packet : StartIn(packet, i) = Here /\ packet[i].kind = "Name"
  BY <1>1 DEF IInv, OnParameter, Lies
<1>3. Read(Here, "Name") = {packet[i]}
  BY <1>1, <1>2, ReadPiece DEF Start
<1>4. CASE at' = "dropped" /\ UNCHANGED <<off, walked>>
  BY <1>1, <1>4, ToEnd
<1>5. CASE packet[i].says # "END" /\ at' = "OLength" /\ off' = (off + 1) % 65536
  <2>1. /\ packet[i].size = 1 /\ i + 1 \in DOMAIN packet /\ packet[i + 1].kind = "Length"
        /\ Lies(packet, StartIn(packet, i + 1) + 1 + packet[i + 1].len, "Name")
    BY <1>1, <1>2, <1>5 DEF WellFormed, NameLinks, Followed
  <2>2. StartIn(packet, i + 1) = Here + 1
    BY <1>1, <1>2, <2>1, StartInside DEF WellFormed
  <2>3. Lies(packet, Here + 1, "Length")
    BY <2>1, <2>2 DEF Lies
  <2>4. off' = off + 1 /\ off' \in Nat /\ base + (off + 1) = Here + 1
    BY <1>1, <1>5, <2>3, Reached
  <2>5. base' + off' = StartIn(packet, i + 1)
    BY <1>1, <2>2, <2>4
  <2>6. OnParameter'
    BY <1>1, <1>5, <2>1, <2>5 DEF OnParameter, Here, Start
  <2>7. base' \in Nat /\ field' \in Nat
    BY <1>1
  <2>8. QED
    BY <1>1, <1>5, <2>4, <2>6, <2>7, ToPlace
<1>6. QED
  BY <1>3, <1>4, <1>5 DEF optionalName

LEMMA LengthStep == IInv /\ optionalLength => IInv'
<1> SUFFICES ASSUME IInv, optionalLength PROVE IInv'
  OBVIOUS
<1>1. /\ at = "OLength" /\ WellFormed(packet) /\ Types /\ packet' = packet /\ base' = base
      /\ field' = field /\ base \in Nat /\ off \in Nat /\ field \in Nat /\ at' = "Name"
  BY DEF optionalLength, IInv, Types
<1>2. PICK i \in DOMAIN packet : /\ Here = Start(i) /\ packet[i].kind = "Length"
                                 /\ Lies(packet, Here + 1 + packet[i].len, "Name")
  BY <1>1 DEF IInv, OnParameter
<1>3. Read(Here, "Length") = {packet[i]}
  BY <1>1, <1>2, ReadPiece
<1>4. off' = (off + 1 + packet[i].len) % 65536
  BY <1>3 DEF optionalLength
<1>5. PICK n \in Nat : n = 1 + packet[i].len /\ packet[i].len \in Nat
  BY <1>1, StartInside DEF WellFormed
<1>6. Here + 1 + packet[i].len = Here + n /\ off + 1 + packet[i].len = off + n
  BY <1>1, <1>5 DEF Here
<1>7. Lies(packet, Here + n, "Name")
  BY <1>2, <1>6
<1>8. off' = off + n /\ off' \in Nat /\ base + (off + n) = Here + n
  BY <1>1, <1>4, <1>6, <1>7, Reached
<1>9. base' + off' = Here + n
  BY <1>1, <1>8
<1>10. OnParameter'
  BY <1>1, <1>7, <1>9 DEF OnParameter, Here
<1>11. base' \in Nat /\ field' \in Nat
  BY <1>1
<1>12. QED
  BY <1>1, <1>8, <1>10, <1>11, ToPlace

------------------------------------------------------------------------------
(* Every step.                                                             *)

LEMMA Starting ==
    ASSUME \A p \in Packets : WellFormed(p), Init
    PROVE  IInv
<1>1. WellFormed(packet) /\ Whole(packet) /\ packet[1].kind \in FirstKinds /\ packet # << >>
  BY DEF Init, WellFormed, Whole
<1>2. packet \in Seq(Pieces) /\ 1 \in DOMAIN packet /\ DOMAIN packet = 1 .. Len(packet)
  <2>1. packet \in Seq(Pieces) /\ DOMAIN packet = 1 .. Len(packet) /\ Len(packet) \in Nat
    BY <1>1, PieceTypes DEF Whole
  <2>2. QED
    BY <1>1, <2>1
<1>3. at \in HeaderKinds /\ at \notin {"Vlan", "Mpls", "Tcp", "Udp", "Isup"}
  BY <1>1 DEF Init, HeaderKinds, FirstKinds
<1>4. /\ at \notin FieldKinds /\ at \notin {"Param", "Name", "OLength", "Tcap", "asserted"}
  BY <1>3 DEF HeaderKinds, FirstKinds, FieldKinds, Lengthy
<1>5. Here = Start(1)
  BY <1>2, StartNext DEF Init, Here, Start
<1>6. 1 \in Taken
  BY <1>2 DEF Taken, TakenOf
<1>7. OnHeader
  BY <1>3, <1>5, <1>6 DEF Init, OnHeader
<1>8. Types /\ OptUnset
  BY <1>3 DEF Init, Types, States, OptUnset
<1>9. QED
  BY <1>1, <1>4, <1>7, <1>8 DEF IInv, OnParam, OnField, OnParameter, OnAssert

LEMMA Stays == IInv /\ UNCHANGED vars => IInv'
<1> SUFFICES ASSUME IInv, UNCHANGED vars PROVE IInv'
  OBVIOUS
<1>1. /\ packet' = packet /\ at' = at /\ base' = base /\ off' = off /\ tags' = tags
      /\ field' = field /\ (opt' <=> opt)
  BY DEF vars
<1>2. Here' = Here /\ Taken' = Taken
  BY <1>1 DEF Here, Taken
<1>3. Types' /\ OptUnset' /\ OnAssert'
  BY <1>1, <1>2 DEF IInv, Types, OptUnset, OnAssert
<1>4. OnHeader'
  BY <1>1, <1>2 DEF IInv, OnHeader, Start
<1>5. OnParam'
  BY <1>1, <1>2 DEF IInv, OnParam, ParamAt, Start
<1>6. OnField'
  BY <1>1, <1>2 DEF IInv, OnField, Start
<1>7. OnParameter'
  BY <1>1, <1>2 DEF IInv, OnParameter, Start
<1>8. QED
  BY <1>1, <1>3, <1>4, <1>5, <1>6, <1>7 DEF IInv

LEMMA EveryStep == IInv /\ [Next]_vars => IInv'
<1>1. ASSUME IInv, Step PROVE IInv'
  <2>1. ASSUME extractHdlc \/ noMoreParameters PROVE IInv'
    BY <1>1, <2>1, Ending DEF extractHdlc, noMoreParameters
  <2>2. QED
    BY <1>1, <2>1, EthStep, VlanStep, MplsStep, Ip4Step, SctpStep, ChunkStep, M2uaStep, MtpStep,
       Mtp3Step, M3uaStep, DataStep, OtherParamStep, TypeStep, ClassStep, VPtrStep, OPtrStep,
       VParameterStep, CallingStep, ContentStep, NameStep, LengthStep DEF Step
<1>2. QED
  BY <1>1, Stays DEF Next, Ended

(* Every header, field and payload of a well-formed packet is read where   *)
(* it begins, whatever tags, labels, options, chunks, parameters and       *)
(* fields come before it, but for the one reading behind the end of an     *)
(* M3UA message; no assertion of the code fails but the one on the class.  *)
THEOREM OffsetsInStep ==
    ASSUME \A p \in Packets : WellFormed(p)
    PROVE  Spec => []InStep
<1>1. Init => IInv
  BY Starting
<1>2. IInv => InStep
  <2> SUFFICES ASSUME IInv PROVE InStep
    OBVIOUS
  <2>1. ASSUME at \in HeaderKinds PROVE PiecesAt(Here, KindAt) # {}
    <3>1. PICK i : AtHeader(i)
      BY <2>1, FindHeader
    <3>2. KindAt = at
      BY <2>1 DEF KindAt, Lengths, HeaderKinds, FirstKinds
    <3>3. QED
      BY <3>1, <3>2 DEF PiecesAt, AtHeader
  <2>2. ASSUME at \in FieldKinds PROVE PiecesAt(Here, KindAt) # {}
    <3>1. PICK m, i : FieldAt(m, i)
      BY <2>2, FindField
    <3>2. KindAt = PartKind(at)
      BY <2>2 DEF KindAt, Lengths, FieldKinds, Lengthy, PartKind
    <3>3. QED
      BY <3>1, <3>2 DEF PiecesAt, FieldAt
  <2>3. ASSUME at \in {"Name", "OLength", "Tcap"} PROVE PiecesAt(Here, KindAt) # {}
    <3>1. KindAt = IF at = "OLength" THEN "Length" ELSE IF at = "Tcap" THEN "Data" ELSE "Name"
      BY <2>3 DEF KindAt, Lengths
    <3>2. \E i \in DOMAIN packet : Start(i) = Here /\ packet[i].kind = KindAt
      BY <2>3, <3>1 DEF IInv, OnParameter, Lies, Start
    <3>3. QED
      BY <3>2 DEF PiecesAt
  <2>4. ASSUME at = "Param" PROVE BehindTheEnd \/ PiecesAt(Here, KindAt) # {}
    <3>1. PICK m \in Taken :
             /\ base = Start(m) /\ packet[m].kind = "M3ua"
             /\ off > packet[m].len \/ \E i \in DOMAIN packet : ParamAt(m, i)
      BY <2>4 DEF IInv, OnParam
    <3>2. Read(base, "M3ua") = {packet[m]}
      BY <3>1, ReadMessage DEF IInv
    <3>3. CASE off >= packet[m].len
      BY <2>4, <3>2, <3>3 DEF BehindTheEnd
    <3>4. CASE ~(off >= packet[m].len)
      <4>1. off \in Nat /\ packet[m].len \in Nat
        BY StartInside DEF IInv, Types, WellFormed, Taken, TakenOf
      <4>2. PICK i \in DOMAIN packet : Start(i) = Here /\ packet[i].kind = "Param"
        BY <3>1, <3>4, <4>1 DEF ParamAt
      <4>3. KindAt = "Param"
        BY <2>4 DEF KindAt, Lengths
      <4>4. QED
        BY <4>2, <4>3 DEF PiecesAt
    <3>5. QED
      BY <3>3, <3>4
  <2>5. at = "asserted" => \E i \in Taken : packet[i].kind = "Class" /\ packet[i].len \notin {2, 3}
    BY DEF IInv, OnAssert
  <2>6. at \in States
    BY DEF IInv, Types
  <2>7. QED
    BY <2>1, <2>2, <2>3, <2>4, <2>5, <2>6 DEF InStep, States
<1>3. QED
  BY <1>1, <1>2, EveryStep, PTL DEF Spec

------------------------------------------------------------------------------
(* The way to what lies open: protocol data of M3UA, or an SCCP message.   *)

Openers == {"Eth", "Ip4", "Sctp", "Chunk", "M2ua", "Mtp3", "M3ua", "Param", "Mt"}
Goal(p, j) == DataIn(p, j) \/ MessageIn(p, j)

(* What is read is a header on the way to the piece j, or that piece.      *)
OnWay(j) == \E i \in 1 .. j : Here = Start(i) /\ packet[i].kind = at /\ at \in Openers

(* Behind a header that leads on lies another one, or the goal.            *)
LEMMA OneNearer ==
    ASSUME IInv, NEW j \in DOMAIN packet, Goal(packet, j), LiesOpen(packet, j),
           NEW i \in 1 .. j, i # j, NEW kind, Followed(packet, i, kind),
           packet' = packet, at' = kind, base' + off' = Start(i + 1)
    PROVE  OnWay(j)'
<1>1. j \in Nat /\ DOMAIN packet = 1 .. Len(packet) /\ Len(packet) \in Nat
  BY PieceTypes DEF IInv, WellFormed, Whole
<1>2. PICK k : k = i + 1
  OBVIOUS
<1>3. k \in 1 .. j /\ (k = j \/ k \in 1 .. j - 1) /\ packet[k].kind = kind
  BY <1>1, <1>2 DEF Followed
<1>4. kind \in Openers
  <2>1. CASE k = j
    BY <1>3, <2>1 DEF Goal, DataIn, MessageIn, HasFields, Openers
  <2>2. CASE k \in 1 .. j - 1
    <3>1. LeadsOn(packet, k)
      BY <2>2 DEF LiesOpen
    <3>2. QED
      BY <1>3, <3>1 DEF LeadsOn, Openers
  <2>3. QED
    BY <1>3, <2>1, <2>2
<1>5. Here' = Start(k) /\ packet'[k].kind = at' /\ Start(k)' = Start(k)
  BY <1>2, <1>3 DEF Here, Start
<1>6. QED
  BY <1>3, <1>4, <1>5 DEF OnWay

(* The same by make<Header>().rebase().                                    *)
LEMMA GotNearer ==
    ASSUME IInv, NEW j \in DOMAIN packet, Goal(packet, j), LiesOpen(packet, j),
           NEW i \in 1 .. j, i # j, Here = Start(i), NEW kind, Followed(packet, i, kind),
           NEW n, n = packet[i].size, Got(kind, n)
    PROVE  OnWay(j)'
<1>1. i \in DOMAIN packet /\ WellFormed(packet) /\ Types
  BY PieceTypes DEF IInv, WellFormed, Whole
<1>2. (base + off + n) % 65536 = Start(i + 1) /\ Start(i + 1) \in Nat
  BY <1>1, Moves
<1>3. packet' = packet /\ at' = kind /\ base' + off' = Start(i + 1)
  BY <1>2 DEF Got, Rebased
<1>4. QED
  BY <1>3, OneNearer

(* A header on the way, which is not the goal itself.                      *)
LEMMA HeaderOnWay ==
    ASSUME IInv, NEW j \in DOMAIN packet, Goal(packet, j), LiesOpen(packet, j), OnWay(j),
           at \notin {"Param", "Mt"}
    PROVE  \E i \in 1 .. j : /\ i # j /\ Here = Start(i) /\ packet[i].kind = at
                             /\ i \in DOMAIN packet /\ i \in 1 .. j - 1
                             /\ LeadsOn(packet, i) /\ Read(Here, at) = {packet[i]}
<1>1. PICK i \in 1 .. j : Here = Start(i) /\ packet[i].kind = at
  BY DEF OnWay
<1>2. i # j
  BY <1>1 DEF Goal, DataIn, MessageIn, HasFields
<1>3. i \in DOMAIN packet /\ i \in 1 .. j - 1
  <2>1. j \in 1 .. Len(packet) /\ DOMAIN packet = 1 .. Len(packet) /\ Len(packet) \in Nat
    BY PieceTypes DEF IInv, WellFormed, Whole
  <2>2. QED
    BY <1>1, <1>2, <2>1
<1>4. LeadsOn(packet, i)
  BY <1>3 DEF LiesOpen
<1>5. Read(Here, at) = {packet[i]}
  BY <1>1, <1>3, ReadPiece DEF IInv
<1>6. QED
  BY <1>1, <1>2, <1>3, <1>4, <1>5

(* Neither a tag nor another protocol follows on the way.                  *)
LEMMA NotElsewhere ==
    ASSUME IInv, NEW j \in DOMAIN packet, Goal(packet, j), LiesOpen(packet, j),
           NEW i \in 1 .. j - 1, NEW kind, kind \notin Openers
    PROVE  ~Followed(packet, i, kind)
<1> SUFFICES ASSUME Followed(packet, i, kind) PROVE FALSE
  OBVIOUS
<1>1. j \in Nat
  BY PieceTypes DEF IInv, WellFormed, Whole
<1>2. PICK k : k = i + 1
  OBVIOUS
<1>3. packet[k].kind = kind /\ (k = j \/ k \in 1 .. j - 1)
  BY <1>1, <1>2 DEF Followed
<1>4. CASE k = j
  BY <1>3, <1>4 DEF Goal, DataIn, MessageIn, HasFields, Openers
<1>5. CASE k \in 1 .. j - 1
  <2>1. LeadsOn(packet, k)
    BY <1>5 DEF LiesOpen
  <2>2. QED
    BY <1>3, <2>1 DEF LeadsOn, Openers
<1>6. QED
  BY <1>3, <1>4, <1>5

OnWayTo(j) == j \in DOMAIN packet /\ Goal(packet, j) /\ LiesOpen(packet, j) /\ OnWay(j)

LEMMA EthNearer ==
    ASSUME IInv, NEW j, OnWayTo(j), extractEth
    PROVE  OnWay(j)'
<1>1. /\ at = "Eth" /\ j \in DOMAIN packet /\ Goal(packet, j) /\ LiesOpen(packet, j) /\ OnWay(j)
  BY DEF extractEth, OnWayTo
<1>2. PICK i \in 1 .. j : /\ i # j /\ Here = Start(i) /\ packet[i].kind = "Eth" /\ i \in DOMAIN packet
                          /\ i \in 1 .. j - 1 /\ LeadsOn(packet, i) /\ Read(Here, "Eth") = {packet[i]}
  BY <1>1, HeaderOnWay
<1>3. packet[i].size = Eth.size /\ packet[i].says \in Eth.makes /\ Followed(packet, i, packet[i].says)
  BY <1>2 DEF IInv, WellFormed, EthLinks, LeadsOn
<1>4. packet[i].says = "Ip4"
  <2>1. packet[i].says \in Openers
    BY <1>1, <1>2, <1>3, NotElsewhere
  <2>2. QED
    BY <1>3, <2>1 DEF Eth, Openers
<1>5. Got("Ip4", Eth.size)
  BY <1>2, <1>3, <1>4 DEF extractEth
<1>6. QED
  BY <1>1, <1>2, <1>3, <1>4, <1>5, GotNearer

LEMMA Ip4Nearer ==
    ASSUME IInv, NEW j, OnWayTo(j), extractIp4
    PROVE  OnWay(j)'
<1>1. /\ at = "Ip4" /\ j \in DOMAIN packet /\ Goal(packet, j) /\ LiesOpen(packet, j) /\ OnWay(j)
  BY DEF extractIp4, OnWayTo
<1>2. PICK i \in 1 .. j : /\ i # j /\ Here = Start(i) /\ packet[i].kind = "Ip4" /\ i \in DOMAIN packet
                          /\ i \in 1 .. j - 1 /\ LeadsOn(packet, i) /\ Read(Here, "Ip4") = {packet[i]}
  BY <1>1, HeaderOnWay
<1>3. /\ packet[i].len >= packet[i].size /\ packet[i].says \in Ip4.makes
      /\ Followed(packet, i, packet[i].says)
  BY <1>2 DEF IInv, WellFormed, Ip4Links, LeadsOn
<1>4. packet[i].len \in Nat /\ packet[i].size \in Nat
  BY <1>2, StartInside DEF IInv, WellFormed
<1>5. Got(packet[i].says, packet[i].size)
  BY <1>2, <1>3, <1>4 DEF extractIp4
<1>6. QED
  BY <1>1, <1>2, <1>3, <1>5, GotNearer

LEMMA SctpNearer ==
    ASSUME IInv, NEW j, OnWayTo(j), gotSctp
    PROVE  OnWay(j)'
<1>1. /\ at = "Sctp" /\ j \in DOMAIN packet /\ Goal(packet, j) /\ LiesOpen(packet, j) /\ OnWay(j)
      /\ Got("Chunk", Sctp.size)
  BY DEF gotSctp, OnWayTo
<1>2. PICK i \in 1 .. j : /\ i # j /\ Here = Start(i) /\ packet[i].kind = "Sctp" /\ i \in DOMAIN packet
  BY <1>1, HeaderOnWay
<1>3. packet[i].size = Sctp.size /\ Followed(packet, i, "Chunk")
  BY <1>2 DEF IInv, WellFormed, SctpLinks
<1>4. QED
  BY <1>1, <1>2, <1>3, GotNearer

LEMMA ChunkNearer ==
    ASSUME IInv, NEW j, OnWayTo(j), extractSctpChunk
    PROVE  OnWay(j)'
<1>1. /\ at = "Chunk" /\ j \in DOMAIN packet /\ Goal(packet, j) /\ LiesOpen(packet, j) /\ OnWay(j)
  BY DEF extractSctpChunk, OnWayTo
<1>2. PICK i \in 1 .. j : /\ i # j /\ Here = Start(i) /\ packet[i].kind = "Chunk" /\ i \in DOMAIN packet
                          /\ i \in 1 .. j - 1 /\ LeadsOn(packet, i) /\ Read(Here, "Chunk") = {packet[i]}
  BY <1>1, HeaderOnWay
<1>3. /\ Complete(packet, i) /\ packet[i].says \in ChunkData.makes /\ packet[i].size = ChunkData.size
      /\ Followed(packet, i, packet[i].says)
  BY <1>2 DEF IInv, WellFormed, ChunkLinks, LeadsOn
<1>4. Total - Here >= packet[i].len /\ ~(Total - Here < packet[i].len)
  <2>1. Total - Here >= packet[i].len
    BY <1>2, <1>3 DEF Complete, Total, Start
  <2>2. Total \in Nat /\ Here \in Nat /\ packet[i].len \in Nat
    <3>1. packet \in Seq(Pieces) /\ Len(packet) + 1 \in 1 .. Len(packet) + 1
      BY PieceTypes DEF IInv, WellFormed, Whole
    <3>2. Total \in Nat
      BY <3>1, StartNext DEF Total, Bytes
    <3>3. QED
      BY <1>2, <3>2, StartInside DEF IInv, WellFormed, Start
  <2>3. QED
    BY <2>1, <2>2
<1>5. Got(packet[i].says, ChunkData.size)
  BY <1>2, <1>3, <1>4 DEF extractSctpChunk, ChunkData
<1>6. QED
  BY <1>1, <1>2, <1>3, <1>5, GotNearer

LEMMA M2uaNearer ==
    ASSUME IInv, NEW j, OnWayTo(j), gotM2ua
    PROVE  OnWay(j)'
<1>1. /\ at = "M2ua" /\ j \in DOMAIN packet /\ Goal(packet, j) /\ LiesOpen(packet, j) /\ OnWay(j)
      /\ Got("Mtp3", M2ua.size)
  BY DEF gotM2ua, OnWayTo
<1>2. PICK i \in 1 .. j : /\ i # j /\ Here = Start(i) /\ packet[i].kind = "M2ua" /\ i \in DOMAIN packet
  BY <1>1, HeaderOnWay
<1>3. packet[i].size = M2ua.size /\ Followed(packet, i, "Mtp3")
  BY <1>2 DEF IInv, WellFormed, M2uaLinks
<1>4. QED
  BY <1>1, <1>2, <1>3, GotNearer

LEMMA Mtp3Nearer ==
    ASSUME IInv, NEW j, OnWayTo(j), extractMtp3
    PROVE  OnWay(j)'
<1>1. /\ at = "Mtp3" /\ j \in DOMAIN packet /\ Goal(packet, j) /\ LiesOpen(packet, j) /\ OnWay(j)
  BY DEF extractMtp3, OnWayTo
<1>2. PICK i \in 1 .. j : /\ i # j /\ Here = Start(i) /\ packet[i].kind = "Mtp3" /\ i \in DOMAIN packet
                          /\ i \in 1 .. j - 1 /\ LeadsOn(packet, i) /\ Read(Here, "Mtp3") = {packet[i]}
  BY <1>1, HeaderOnWay
<1>3. packet[i].says = "Sccp"
  BY <1>2 DEF LeadsOn
<1>4. packet[i].size = Mtp3.size /\ Followed(packet, i, "Mt")
  BY <1>2, <1>3 DEF IInv, WellFormed, Mtp3Links, Mtp3
<1>5. Got("Mt", Mtp3.size)
  BY <1>2, <1>3 DEF extractMtp3, Mtp3
<1>6. QED
  BY <1>1, <1>2, <1>4, <1>5, GotNearer

(* The length of the message that the goal lies in.                        *)
LEMMA MessageCovers ==
    ASSUME IInv, NEW j \in DOMAIN packet, LiesOpen(packet, j), NEW m \in 1 .. j - 1,
           packet[m].kind = "M3ua"
    PROVE  /\ \A k \in 1 .. j : StartIn(packet, k) - StartIn(packet, m) < packet[m].len
           /\ m \in DOMAIN packet /\ StartIn(packet, m) \in Nat /\ packet[m].len \in Nat
<1>1. /\ packet \in Seq(Pieces) /\ DOMAIN packet = 1 .. Len(packet) /\ Len(packet) \in Nat
      /\ j \in 1 .. Len(packet)
  BY PieceTypes DEF IInv, WellFormed, Whole
<1>2. StartIn(packet, j) - StartIn(packet, m) < packet[m].len
  BY DEF LiesOpen
<1>3. m \in DOMAIN packet /\ StartIn(packet, m) \in Nat /\ packet[m].len \in Nat
  BY <1>1, StartInside DEF IInv, WellFormed
<1>4. ASSUME NEW k \in 1 .. j PROVE StartIn(packet, k) - StartIn(packet, m) < packet[m].len
  <2>1. k \in 1 .. Len(packet) + 1 /\ j \in 1 .. Len(packet) + 1
    BY <1>1
  <2>2. StartIn(packet, k) \in Nat /\ StartIn(packet, j) \in Nat
    BY <1>1, <2>1, StartNext
  <2>3. StartIn(packet, k) <= StartIn(packet, j)
    <3>1. CASE k = j
      BY <2>2, <3>1
    <3>2. CASE k # j
      <4>1. k < j
        BY <1>1, <3>2
      <4>2. QED
        BY <1>1, <2>1, <2>2, <4>1, StartIncreases
    <3>3. QED
      BY <3>1, <3>2
  <2>4. QED
    BY <1>2, <1>3, <2>2, <2>3
<1>5. QED
  BY <1>3, <1>4

LEMMA M3uaNearer ==
    ASSUME IInv, NEW j, OnWayTo(j), extractM3ua
    PROVE  OnWay(j)'
<1>1. /\ at = "M3ua" /\ j \in DOMAIN packet /\ Goal(packet, j) /\ LiesOpen(packet, j) /\ OnWay(j)
      /\ WellFormed(packet) /\ Types
  BY DEF extractM3ua, OnWayTo, IInv
<1>2. PICK m \in 1 .. j : /\ m # j /\ Here = Start(m) /\ packet[m].kind = "M3ua" /\ m \in DOMAIN packet
                          /\ m \in 1 .. j - 1 /\ Read(Here, "M3ua") = {packet[m]}
  BY <1>1, HeaderOnWay
<1>3. off = 0 /\ base = Here /\ base \in Nat
  <2>1. at \in HeaderKinds
    BY <1>1 DEF HeaderKinds, FirstKinds
  <2>2. PICK i : AtHeader(i)
    BY <2>1, FindHeader
  <2>3. off = 0
    BY <1>1, <2>2 DEF AtHeader
  <2>4. QED
    BY <1>1, <2>3 DEF Types, Here
<1>4. packet[m].size = M3ua.size /\ (packet[m].len > M3ua.size => Followed(packet, m, "Param"))
  BY <1>1, <1>2 DEF WellFormed, M3uaLinks
<1>5. StartIn(packet, m + 1) = StartIn(packet, m) + M3ua.size
  BY <1>1, <1>2, <1>4, StartInside DEF WellFormed
<1>6. packet[m].len > M3ua.size /\ packet[m].len \in Nat
  <2>1. m + 1 \in 1 .. j
    BY <1>1, <1>2, PieceTypes DEF WellFormed, Whole
  <2>2. StartIn(packet, m + 1) - StartIn(packet, m) < packet[m].len
    BY <1>1, <1>2, <2>1, MessageCovers
  <2>3. StartIn(packet, m) \in Nat /\ packet[m].len \in Nat
    BY <1>1, <1>2, MessageCovers
  <2>4. QED
    BY <1>5, <2>2, <2>3 DEF M3ua
<1>7. at' = "Param" /\ off' = M3ua.size /\ base' = base /\ packet' = packet
  BY <1>2, <1>3, <1>6 DEF extractM3ua, M3ua
<1>8. base' + off' = Start(m + 1)
  BY <1>2, <1>3, <1>5, <1>7 DEF Start
<1>9. QED
  BY <1>1, <1>2, <1>4, <1>6, <1>7, <1>8, OneNearer

(* At a parameter on the way the loop goes on.                             *)
ParamOn(i) == \/ packet[i].says = "NoData" /\ Followed(packet, i, "Param")
              \/ packet[i].says = "Sccp" /\ Followed(packet, i, "Mt")

LEMMA ParamOnWay ==
    ASSUME IInv, NEW j, OnWayTo(j), at = "Param"
    PROVE  /\ InMessage
           /\ \E i \in 1 .. j : /\ i \in DOMAIN packet /\ Here = Start(i) /\ packet[i].kind = "Param"
                                /\ Read(Here, "Param") = {packet[i]} /\ i \in Taken
                                /\ i # j => ParamOn(i)
<1>1. /\ j \in DOMAIN packet /\ Goal(packet, j) /\ LiesOpen(packet, j) /\ OnWay(j)
      /\ WellFormed(packet) /\ Types
  BY DEF OnWayTo, IInv
<1>2. PICK i \in 1 .. j : Here = Start(i) /\ packet[i].kind = "Param"
  BY <1>1 DEF OnWay
<1>3. /\ packet \in Seq(Pieces) /\ DOMAIN packet = 1 .. Len(packet) /\ Len(packet) \in Nat
      /\ i \in DOMAIN packet
  BY <1>1, <1>2, PieceTypes DEF WellFormed, Whole
<1>4. Read(Here, "Param") = {packet[i]}
  BY <1>1, <1>2, <1>3, ReadPiece
<1>5. PICK m \in Taken :
         /\ base = Start(m) /\ packet[m].kind = "M3ua"
         /\ off > packet[m].len \/ \E k \in DOMAIN packet : ParamAt(m, k)
  BY DEF IInv, OnParam
<1>6. m \in DOMAIN packet /\ base \in Nat /\ off \in Nat /\ StartIn(packet, m) = base /\ base + off = StartIn(packet, i)
  BY <1>1, <1>2, <1>5 DEF Taken, TakenOf, Types, Start, Here
<1>7. m < i
  <2>1. i # m
    BY <1>2, <1>5
  <2>2. ~(i < m)
    <3>1. ASSUME i < m PROVE FALSE
      <4>1. StartIn(packet, i) < StartIn(packet, m)
        BY <1>3, <1>6, <3>1, StartIncreases
      <4>2. QED
        BY <1>6, <4>1
    <3>2. QED
      BY <3>1
  <2>3. QED
    BY <1>3, <1>6, <2>1, <2>2
<1>8. m \in 1 .. j - 1
  BY <1>1, <1>2, <1>3, <1>6, <1>7
<1>9. off < packet[m].len /\ packet[m].len \in Nat
  <2>1. StartIn(packet, i) - StartIn(packet, m) < packet[m].len /\ packet[m].len \in Nat
    BY <1>1, <1>2, <1>5, <1>8, MessageCovers
  <2>2. QED
    BY <1>6, <2>1
<1>10. InMessage
  <2>1. Read(base, "M3ua") = {packet[m]}
    BY <1>1, <1>5, ReadMessage
  <2>2. QED
    BY <1>6, <1>9, <2>1 DEF InMessage
<1>11. PICK k \in DOMAIN packet : ParamAt(m, k)
  BY <1>5, <1>6, <1>9
<1>12. k = i
  BY <1>2, <1>3, <1>11, StartUnique DEF ParamAt, Start
<1>13. i \in Taken
  BY <1>2, <1>11, <1>12 DEF ParamAt
<1>14. ASSUME i # j PROVE ParamOn(i)
  <2>1. i \in 1 .. j - 1
    BY <1>1, <1>3, <1>14
  <2>0. packet[i].says \in {"NoData", "Sccp"}
    BY <1>2, <2>1 DEF LeadsOn, LiesOpen, OnWayTo
  <2> SUFFICES ASSUME packet[i].says = "NoData" PROVE Followed(packet, i, "Param")
    BY <1>1, <1>2, <1>3, <2>0 DEF ParamOn, WellFormed, ParamLinks
  <2>2. packet[i].says = "NoData"
    OBVIOUS
  <2>3. \A l \in m + 1 .. i : NoDataParam(packet, l)
    <3> SUFFICES ASSUME NEW l \in m + 1 .. i PROVE NoDataParam(packet, l)
      OBVIOUS
    <3>1. CASE l = i
      BY <1>2, <2>2, <3>1 DEF NoDataParam
    <3>2. CASE l # i
      <4>1. l \in m + 1 .. i - 1
        BY <1>3, <1>6, <3>2
      <4>2. QED
        BY <1>11, <1>12, <4>1 DEF ParamAt
    <3>3. QED
      BY <3>1, <3>2
  <2>4. StartIn(packet, i + 1) - StartIn(packet, m) < packet[m].len
    <3>1. i + 1 \in 1 .. j
      BY <1>1, <1>3, <2>1
    <3>2. QED
      BY <1>1, <1>5, <1>8, <3>1, MessageCovers
  <2>5. NextParam(packet, m, i)
    BY <1>1, <1>3, <1>6 DEF WellFormed
  <2>6. QED
    BY <1>5, <1>7, <2>2, <2>3, <2>4, <2>5 DEF NextParam
<1>15. QED
  BY <1>2, <1>3, <1>4, <1>10, <1>13, <1>14

LEMMA OtherParamNearer ==
    ASSUME IInv, NEW j, OnWayTo(j), otherParameter
    PROVE  OnWay(j)'
<1>1. /\ at = "Param" /\ j \in DOMAIN packet /\ Goal(packet, j) /\ LiesOpen(packet, j)
      /\ WellFormed(packet) /\ Types
  BY DEF otherParameter, OnWayTo, IInv
<1>2. PICK i \in 1 .. j : /\ i \in DOMAIN packet /\ Here = Start(i) /\ packet[i].kind = "Param"
                          /\ Read(Here, "Param") = {packet[i]}
                          /\ i # j => ParamOn(i)
  BY <1>1, ParamOnWay
<1>3. /\ packet[i].says = "NoData" /\ off' = (off + packet[i].len) % 65536
      /\ packet' = packet /\ at' = at /\ base' = base
  BY <1>2 DEF otherParameter
<1>4. i # j /\ Followed(packet, i, "Param")
  <2>1. i # j
    BY <1>1, <1>2, <1>3 DEF Goal, DataIn, MessageIn, HasFields
  <2>2. QED
    BY <1>2, <1>3, <2>1 DEF ParamOn
<1>5. packet[i].size = packet[i].len
  BY <1>1, <1>2, <1>3 DEF WellFormed, ParamLinks
<1>6. /\ base + off + packet[i].size = Start(i + 1)
      /\ (off + packet[i].size) % 65536 = off + packet[i].size
  BY <1>1, <1>2, Moves
<1>7. packet[i].size \in Nat /\ base \in Nat /\ off \in Nat
  BY <1>1, <1>2, StartInside DEF WellFormed, Types
<1>8. base' + off' = Start(i + 1)
  BY <1>3, <1>5, <1>6, <1>7
<1>9. QED
  BY <1>1, <1>2, <1>3, <1>4, <1>8, OneNearer

(* Protocol data on the way to a message is what that lies in.             *)
LEMMA DataNearer ==
    ASSUME IInv, NEW j, OnWayTo(j), MessageIn(packet, j), gotProtocolData
    PROVE  OnWay(j)'
<1>1. /\ at = "Param" /\ j \in DOMAIN packet /\ Goal(packet, j) /\ LiesOpen(packet, j)
      /\ WellFormed(packet) /\ Types
  BY DEF gotProtocolData, OnWayTo, IInv
<1>2. PICK i \in 1 .. j : /\ i \in DOMAIN packet /\ Here = Start(i) /\ packet[i].kind = "Param"
                          /\ Read(Here, "Param") = {packet[i]}
                          /\ i # j => ParamOn(i)
  BY <1>1, ParamOnWay
<1>3. packet[i].says # "NoData"
  BY <1>2 DEF gotProtocolData
<1>4. i # j /\ packet[i].says = "Sccp" /\ Followed(packet, i, "Mt")
  <2>1. i # j
    BY <1>2 DEF MessageIn, HasFields
  <2>2. QED
    BY <1>2, <1>3, <2>1 DEF ParamOn
<1>5. packet[i].size = ProtocolData.size
  BY <1>1, <1>2, <1>4 DEF WellFormed, ParamLinks
<1>6. (base + off + packet[i].size) % 65536 = Start(i + 1) /\ Start(i + 1) \in Nat
  BY <1>1, <1>2, Moves
<1>7. packet' = packet /\ at' = "Mt" /\ base' = (base + off + packet[i].size) % 65536 /\ off' = 0
  BY <1>2, <1>4, <1>5 DEF gotProtocolData, Rebased
<1>8. base' + off' = Start(i + 1)
  BY <1>6, <1>7
<1>9. QED
  BY <1>1, <1>2, <1>4, <1>7, <1>8, OneNearer

(* Who is at a message's type on the way to a message is at that message.  *)
LEMMA TypeOnWay ==
    ASSUME IInv, NEW j, OnWayTo(j), at = "Mt"
    PROVE  Here = Start(j) /\ MessageIn(packet, j)
<1>1. j \in Nat /\ Goal(packet, j) /\ LiesOpen(packet, j) /\ OnWay(j)
  BY PieceTypes DEF IInv, WellFormed, Whole, OnWayTo
<1>2. PICK i \in 1 .. j : Here = Start(i) /\ packet[i].kind = "Mt"
  BY <1>1 DEF OnWay
<1>3. i = j
  <2>1. ASSUME i # j PROVE FALSE
    <3>1. i \in 1 .. j - 1
      BY <1>1, <2>1
    <3>2. LeadsOn(packet, i)
      BY <1>1, <3>1 DEF LiesOpen
    <3>3. QED
      BY <1>2, <3>2 DEF LeadsOn
  <2>2. QED
    BY <2>1
<1>4. QED
  BY <1>1, <1>2, <1>3 DEF Goal, DataIn

(* The code comes nearer to its goal, or is there: it has told where the   *)
(* point codes are, or it reads the type of the message.                   *)
LEMMA Nearer ==
    ASSUME IInv, [Next]_vars, NEW j, OnWayTo(j)
    PROVE  \/ OnWay(j)'
           \/ DataIn(packet, j) /\ opc' # None
           \/ MessageIn(packet, j) /\ Here = Start(j) /\ messageType
<1>1. at \in Openers /\ packet' = packet
  <2>1. at \in Openers
    BY DEF OnWayTo, OnWay
  <2>2. packet' = packet
    BY DEF Next, Step, Ended, vars, extractEth, extractVlan, extractMpls, extractIp4, gotSctp,
       extractSctpChunk, gotM2ua, extractHdlc, extractMtp, extractMtp3, extractM3ua, gotProtocolData,
       otherParameter, noMoreParameters, messageType, protocolClass, vParameterPtr, oParameterPtr,
       vParameter, callingParty, content, optionalName, optionalLength, Got, Make, End, Past
  <2>3. QED
    BY <2>1, <2>2
<1>2. CASE UNCHANGED vars
  <2>1. Here' = Here /\ at' = at
    BY <1>2 DEF vars, Here
  <2>2. QED
    BY <1>1, <2>1 DEF OnWayTo, OnWay, Start
<1>3. CASE gotProtocolData
  <2>1. opc' = Here + 4
    BY <1>3 DEF gotProtocolData, ProtocolData
  <2>2. Here \in Nat
    BY DEF IInv, Types, Here
  <2>3. opc' # None
    BY <2>1, <2>2 DEF None
  <2>4. CASE DataIn(packet, j)
    BY <2>3, <2>4
  <2>5. CASE MessageIn(packet, j)
    BY <1>3, <2>5, DataNearer
  <2>6. QED
    BY <2>4, <2>5 DEF OnWayTo, Goal
<1>4. CASE noMoreParameters
  <2>1. at = "Param" /\ ~InMessage
    BY <1>4 DEF noMoreParameters
  <2>2. QED
    BY <2>1, ParamOnWay
<1>5. CASE Ended
  BY <1>1, <1>5 DEF Ended, Ends, Openers
<1>6. CASE \/ extractVlan \/ extractMpls \/ extractHdlc \/ extractMtp \/ protocolClass \/ vParameterPtr \/ oParameterPtr
           \/ vParameter \/ callingParty \/ content \/ optionalName \/ optionalLength
  BY <1>1, <1>6 DEF Openers, extractVlan, extractMpls, extractHdlc, extractMtp, protocolClass, vParameterPtr, oParameterPtr, vParameter, callingParty, content,
     optionalName, optionalLength
<1>7. CASE messageType
  BY <1>7, TypeOnWay DEF messageType
<1>8. QED
  BY <1>2, <1>3, <1>4, <1>5, <1>6, <1>7, EthNearer, Ip4Nearer, SctpNearer, ChunkNearer, M2uaNearer,
     Mtp3Nearer, M3uaNearer, OtherParamNearer DEF Next, Step

------------------------------------------------------------------------------
(* The point codes.                                                        *)

(* As long as no point codes are found, what is read is on the way to them.*)
Toward == opc = None =>
             \A j \in DOMAIN packet : DataIn(packet, j) /\ LiesOpen(packet, j) => OnWay(j)
Found == opc = None \/ opc \in DataPlaces

OpcInv == IInv /\ Found /\ Toward

(* The places of protocol data stay, and what is found is one of them.     *)
LEMMA FoundStep ==
    ASSUME IInv, Found, [Next]_vars
    PROVE  Found' /\ packet' = packet /\ (opc = None \/ opc' # None)
<1>1. packet' = packet
  BY DEF Next, Step, Ended, vars, extractEth, extractVlan, extractMpls, extractIp4, gotSctp,
     extractSctpChunk, gotM2ua, extractHdlc, extractMtp, extractMtp3, extractM3ua, gotProtocolData,
     otherParameter, noMoreParameters, messageType, protocolClass, vParameterPtr, oParameterPtr,
     vParameter, callingParty, content, optionalName, optionalLength, Got, Make, End, Past
<1>2. DataPlaces' = DataPlaces
  BY <1>1 DEF DataPlaces, Taken, Start
<1>3. CASE gotProtocolData
  <2>1. opc' = Here + 4 /\ at = "Param" /\ InMessage
    BY <1>3 DEF gotProtocolData, ProtocolData
  <2>2. PICK m \in Taken, i \in DOMAIN packet :
           base = Start(m) /\ packet[m].kind = "M3ua" /\ ParamAt(m, i)
    BY <2>1, FindParam
  <2>3. Here = Start(i) /\ WellFormed(packet)
    BY <2>2 DEF ParamAt, IInv
  <2>4. packet[i].kind = "Param" /\ i \in Taken
    <3>1. ASSUME packet[i].kind = "Chunk" PROVE FALSE
      <4>1. Read(Here, "Param") = {[packet[i] EXCEPT !.says = "NoData"]}
        BY <2>3, <3>1, ReadChunk
      <4>2. packet[i] \in Pieces
        BY <2>3 DEF WellFormed, Whole
      <4>3. [packet[i] EXCEPT !.says = "NoData"].says = "NoData"
        BY <4>2 DEF Pieces
      <4>4. QED
        BY <1>3, <4>1, <4>3 DEF gotProtocolData
    <3>2. QED
      BY <2>2, <3>1 DEF ParamAt
  <2>5. Read(Here, "Param") = {packet[i]}
    BY <2>3, <2>4, ReadPiece
  <2>6. packet[i].says # "NoData"
    BY <1>3, <2>5 DEF gotProtocolData
  <2>7. opc' \in DataPlaces
    BY <2>1, <2>3, <2>4, <2>6 DEF DataPlaces
  <2>8. Here \in Nat
    BY DEF IInv, Types, Here
  <2>9. QED
    BY <1>1, <1>2, <2>1, <2>7, <2>8 DEF Found, None
<1>4. CASE ~gotProtocolData
  <2>1. opc' = opc
    BY <1>4 DEF Next, Step, Ended, vars, extractEth, extractVlan, extractMpls, extractIp4, gotSctp,
       extractSctpChunk, gotM2ua, extractHdlc, extractMtp, extractMtp3, extractM3ua,
       otherParameter, noMoreParameters, messageType, protocolClass, vParameterPtr, oParameterPtr,
       vParameter, callingParty, content, optionalName, optionalLength, Got, Make, End, Past
  <2>2. QED
    BY <1>1, <1>2, <2>1 DEF Found, None
<1>5. QED
  BY <1>3, <1>4

LEMMA OpcStep == OpcInv /\ [Next]_vars => OpcInv'
<1> SUFFICES ASSUME OpcInv, [Next]_vars PROVE OpcInv'
  OBVIOUS
<1>1. IInv /\ Found /\ Toward
  BY DEF OpcInv
<1>2. IInv' /\ Found' /\ packet' = packet /\ (opc = None \/ opc' # None)
  BY <1>1, EveryStep, FoundStep
<1>3. Toward'
  <2> SUFFICES ASSUME opc' = None, NEW j \in DOMAIN packet, DataIn(packet, j), LiesOpen(packet, j)
               PROVE  OnWay(j)'
    BY <1>2 DEF Toward
  <2>1. opc = None
    BY <1>2
  <2>2. OnWayTo(j) /\ ~MessageIn(packet, j)
    BY <1>1, <2>1 DEF Toward, OnWayTo, Goal, DataIn, MessageIn, HasFields
  <2>3. QED
    BY <1>1, <2>2, Nearer
<1>4. QED
  BY <1>2, <1>3 DEF OpcInv

(* Every way begins with the packet.                                       *)
LEMMA WayBegins ==
    ASSUME IInv, Init, NEW j \in DOMAIN packet, Goal(packet, j), LiesOpen(packet, j)
    PROVE  OnWay(j)
<1>1. packet \in Seq(Pieces) /\ j \in Nat /\ 1 <= j
  BY PieceTypes DEF IInv, WellFormed, Whole
<1>2. Here = Start(1) /\ packet[1].kind = at
  BY <1>1, StartNext DEF Init, Here, Start
<1>3. at \in Openers
  <2>1. CASE j = 1
    BY <1>2, <2>1 DEF Goal, DataIn, MessageIn, HasFields, Openers
  <2>2. CASE j # 1
    <3>1. LeadsOn(packet, 1)
      BY <1>1, <2>2 DEF LiesOpen
    <3>2. QED
      BY <1>2, <3>1 DEF LeadsOn, Openers
  <2>3. QED
    BY <2>1, <2>2
<1>4. QED
  BY <1>1, <1>2, <1>3 DEF OnWay

(* The point codes are found in every well-formed packet whose protocol    *)
(* data lies open, whatever parameters come before it, and in no other.    *)
THEOREM PointCodesFound ==
    ASSUME \A p \in Packets : WellFormed(p) /\ Open(p)
    PROVE  Spec => []OpcOfData
<1>1. Init => OpcInv /\ Open(packet)
  <2> SUFFICES ASSUME Init PROVE OpcInv /\ Open(packet)
    OBVIOUS
  <2>1. IInv /\ Open(packet)
    BY Starting DEF Init
  <2>2. Found
    BY DEF Init, Found
  <2>3. \A j \in DOMAIN packet : DataIn(packet, j) /\ LiesOpen(packet, j) => OnWay(j)
    BY <2>1, WayBegins DEF Goal
  <2>4. QED
    BY <2>1, <2>2, <2>3 DEF OpcInv, Toward
<1>2. OpcInv /\ Open(packet) /\ [Next]_vars => (OpcInv /\ Open(packet))'
  BY OpcStep, FoundStep DEF OpcInv
<1>3. OpcInv /\ Open(packet) => OpcOfData
  <2> SUFFICES ASSUME OpcInv, Open(packet), at \in Ends
               PROVE  IF DataPlaces = {} THEN opc = None ELSE opc \in DataPlaces
    BY DEF OpcOfData
  <2>1. CASE opc = None
    <3>1. ASSUME NEW j \in DOMAIN packet, DataIn(packet, j) PROVE FALSE
      <4>1. PICK k \in DOMAIN packet : DataIn(packet, k) /\ LiesOpen(packet, k)
        BY <3>1 DEF Open
      <4>2. at \in Openers
        BY <2>1, <4>1 DEF OpcInv, Toward, OnWay
      <4>3. QED
        BY <4>2 DEF Openers, Ends
    <3>2. DataPlaces = {}
      BY <3>1 DEF DataPlaces, DataIn, Taken, TakenOf
    <3>3. QED
      BY <2>1, <3>2
  <2>2. CASE opc # None
    BY <2>2 DEF OpcInv, Found
  <2>3. QED
    BY <2>1, <2>2
<1>4. QED
  BY <1>1, <1>2, <1>3, PTL DEF Spec

------------------------------------------------------------------------------
(* The names of the optional parameters.                                   *)

NameAfter(p, k, before) == IF Named(p, k) THEN Append(before, p[k].says) ELSE before

(* g[k] are the names up to the piece k, as far as n.                      *)
Listed(g, p, n) == g[0] = << >> /\ \A k \in 1 .. n : g[k] = NameAfter(p, k, g[k - 1])

LEMMA NamesNext ==
    ASSUME NEW p \in Seq(Pieces)
    PROVE  /\ NamesTo(p, 0) = << >>
           /\ \A k \in 1 .. Len(p) : NamesTo(p, k) = NameAfter(p, k, NamesTo(p, k - 1))
<1> DEFINE n == Len(p)
           Def(h) == h = [k \in 0 .. Len(p) |->
                            IF k = 0 THEN << >>
                            ELSE IF Named(p, k) THEN Append(h[k - 1], p[k].says) ELSE h[k - 1]]
           S == {k \in Nat : k <= n => \E g : Listed(g, p, k)}
<1>0. n \in Nat
  BY PieceTypes
<1>1. 0 \in S
  <2>1. Listed([j \in {0} |-> << >>], p, 0)
    BY DEF Listed
  <2>2. QED
    BY <2>1
<1>2. ASSUME NEW k \in Nat, k \in S PROVE k + 1 \in S
  <2> SUFFICES ASSUME k + 1 <= n PROVE \E g : Listed(g, p, k + 1)
    OBVIOUS
  <2>1. PICK g : Listed(g, p, k)
    BY <1>0, <1>2
  <2>2. PICK v : v = NameAfter(p, k + 1, g[k])
    OBVIOUS
  <2>3. PICK h : h = [j \in 0 .. k + 1 |-> IF j = k + 1 THEN v ELSE g[j]]
    OBVIOUS
  <2>4. h[k + 1] = v /\ \A j \in 0 .. k : h[j] = g[j]
    BY <2>3
  <2>5. h[0] = << >>
    BY <2>1, <2>4 DEF Listed
  <2>6. ASSUME NEW j \in 1 .. k + 1 PROVE h[j] = NameAfter(p, j, h[j - 1])
    <3>1. CASE j = k + 1
      <4>1. j - 1 = k /\ h[j - 1] = g[k]
        BY <2>4, <3>1
      <4>2. QED
        BY <2>2, <2>4, <3>1, <4>1
    <3>2. CASE j # k + 1
      <4>1. j \in 1 .. k /\ h[j] = g[j] /\ h[j - 1] = g[j - 1]
        BY <2>4, <3>2
      <4>2. QED
        BY <2>1, <4>1 DEF Listed
    <3>3. QED
      BY <3>1, <3>2
  <2>7. QED
    BY <2>5, <2>6 DEF Listed
<1>3. PICK g : Listed(g, p, n)
  <2>1. n \in S
    <3>1. Nat \subseteq S
      <4> HIDE DEF S
      <4>1. QED
        BY <1>1, <1>2, SetInduction
    <3>2. QED
      BY <1>0, <3>1
  <2>2. QED
    BY <1>0, <2>1
<1>4. PICK h : h = [k \in 0 .. n |-> g[k]]
  OBVIOUS
<1>5. Def(h)
  <2>1. ASSUME NEW k \in 0 .. n
        PROVE  h[k] = IF k = 0 THEN << >>
                      ELSE IF Named(p, k) THEN Append(h[k - 1], p[k].says) ELSE h[k - 1]
    <3>1. CASE k = 0
      BY <1>3, <1>4, <3>1 DEF Listed
    <3>2. CASE k # 0
      <4>1. k \in 1 .. n /\ k - 1 \in 0 .. n
        BY <1>0, <3>2
      <4>2. h[k] = g[k] /\ h[k - 1] = g[k - 1]
        BY <1>4, <4>1
      <4>3. g[k] = NameAfter(p, k, g[k - 1])
        BY <1>3, <4>1 DEF Listed
      <4>4. QED
        BY <3>2, <4>2, <4>3, Zenon DEF NameAfter
    <3>3. QED
      BY <3>1, <3>2
  <2>2. h = [k \in 0 .. n |-> IF k = 0 THEN << >>
                              ELSE IF Named(p, k) THEN Append(h[k - 1], p[k].says) ELSE h[k - 1]]
    <3>1. h = [k \in 0 .. n |-> h[k]]
      BY <1>4
    <3> HIDE DEF n
    <3>2. QED
      BY <2>1, <3>1, Zenon
  <2>3. QED
    BY <2>2
<1>6. PICK names : Def(names) /\ \A k : NamesTo(p, k) = names[k]
  BY <1>5 DEF NamesTo
<1>7. names[0] = << >>
  BY <1>0, <1>6
<1>8. ASSUME NEW k \in 1 .. Len(p) PROVE names[k] = NameAfter(p, k, names[k - 1])
  <2>1. k \in 0 .. Len(p) /\ k # 0
    BY <1>0
  <2>2. QED
    BY <1>6, <2>1 DEF NameAfter
<1>9. QED
  BY <1>6, <1>7, <1>8

(* Where no name is, the names stay what they are.                         *)
LEMMA NamesSame ==
    ASSUME NEW p \in Seq(Pieces), NEW i \in 0 .. Len(p), NEW j \in 0 .. Len(p), i <= j,
           \A k \in i + 1 .. j : ~Named(p, k)
    PROVE  NamesTo(p, j) = NamesTo(p, i)
<1> DEFINE S == {k \in Nat : i + k <= j => NamesTo(p, i + k) = NamesTo(p, i)}
<1>0. i \in Nat /\ j \in Nat /\ Len(p) \in Nat
  BY PieceTypes
<1>1. 0 \in S
  BY <1>0
<1>2. ASSUME NEW k \in Nat, k \in S PROVE k + 1 \in S
  <2> SUFFICES ASSUME i + (k + 1) <= j PROVE NamesTo(p, i + (k + 1)) = NamesTo(p, i)
    OBVIOUS
  <2>1. PICK l : l = i + (k + 1)
    OBVIOUS
  <2>2. l \in 1 .. Len(p) /\ l \in i + 1 .. j /\ l - 1 = i + k /\ i + k <= j
    BY <1>0, <2>1
  <2>3. NamesTo(p, l) = NamesTo(p, i + k)
    BY <2>2, NamesNext DEF NameAfter
  <2>4. QED
    BY <1>2, <2>1, <2>2, <2>3
<1>3. j - i \in Nat /\ i + (j - i) = j
  BY <1>0
<1>4. j - i \in S
  <2>1. Nat \subseteq S
    <3> HIDE DEF S
    <3>1. QED
      BY <1>1, <1>2, SetInduction
  <2>2. QED
    BY <1>3, <2>1
<1>5. QED
  BY <1>0, <1>3, <1>4

(* The message's layout: one pointer to optional parameters; the calling   *)
(* party is followed by the content, which is last, and no class is there. *)
LEMMA LayoutOrder ==
    ASSUME NEW says \in DOMAIN Layouts, NEW parts, parts = Layouts[says].parts
    PROVE  /\ \A k, l \in 1 .. Len(parts) : parts[k] = "OPtr" /\ parts[l] = "OPtr" => k = l
           /\ \A c \in 1 .. Len(parts) : parts[c] = "Calling" =>
                 /\ Len(parts) = c + 1 /\ parts[c + 1] = "Content"
                 /\ \A k \in 1 .. c - 1 : parts[k] \in {"VPtr", "OPtr", "Called"}
<1>1. says \in {"CR", "CC", "CREF", "RLSD", "DT1", "UDT", "UDTS", "XUDT", "XUDTS"}
  BY DEF Layouts
<1>2. CASE says = "CR"
  BY <1>2 DEF Layouts, ConnectionRequest
<1>3. CASE says = "CC"
  BY <1>3 DEF Layouts, ConnectionConfirm
<1>4. CASE says = "CREF"
  BY <1>4 DEF Layouts, ConnectionRefused
<1>5. CASE says = "RLSD"
  BY <1>5 DEF Layouts, Released
<1>6. CASE says = "DT1"
  BY <1>6 DEF Layouts, DataForm1
<1>7. CASE says \in {"UDT", "UDTS"}
  <2>1. parts = <<"VPtr", "VPtr", "VPtr", "Called", "Calling", "Content">>
    BY <1>7 DEF Layouts, UnitData
  <2>2. /\ Len(parts) = 6 /\ parts[1] = "VPtr" /\ parts[2] = "VPtr" /\ parts[3] = "VPtr"
        /\ parts[4] = "Called" /\ parts[5] = "Calling" /\ parts[6] = "Content"
    BY <2>1
  <2>3. \A k \in 1 .. 6 : parts[k] # "OPtr"
    BY <2>2
  <2>4. \A c \in 1 .. 6 : parts[c] = "Calling" => c = 5
    BY <2>2
  <2>5. \A k \in 1 .. 5 - 1 : parts[k] \in {"VPtr", "OPtr", "Called"}
    BY <2>2
  <2>6. QED
    BY <2>2, <2>3, <2>4, <2>5
<1>8. CASE says \in {"XUDT", "XUDTS"}
  <2>1. parts = <<"VPtr", "VPtr", "VPtr", "OPtr", "Called", "Calling", "Content">>
    BY <1>8 DEF Layouts, ExtendedUnitData
  <2>2. /\ Len(parts) = 7 /\ parts[1] = "VPtr" /\ parts[2] = "VPtr" /\ parts[3] = "VPtr"
        /\ parts[4] = "OPtr" /\ parts[5] = "Called" /\ parts[6] = "Calling" /\ parts[7] = "Content"
    BY <2>1
  <2>3. \A k \in 1 .. 7 : parts[k] = "OPtr" => k = 4
    BY <2>2
  <2>4. \A c \in 1 .. 7 : parts[c] = "Calling" => c = 6
    BY <2>2
  <2>5. \A k \in 1 .. 6 - 1 : parts[k] \in {"VPtr", "OPtr", "Called"}
    BY <2>2
  <2>6. QED
    BY <2>2, <2>3, <2>4, <2>5
<1>9. QED
  BY <1>1, <1>2, <1>3, <1>4, <1>5, <1>6, <1>7, <1>8

LEMMA LayoutDomain ==
    ASSUME NEW says \in DOMAIN Layouts
    PROVE  DOMAIN Layouts[says].parts = 1 .. Len(Layouts[says].parts)
<1>1. says \in {"CR", "CC", "CREF", "RLSD", "DT1", "UDT", "UDTS", "XUDT", "XUDTS"}
  BY DEF Layouts
<1>2. CASE says \in {"CR", "CC"}
  BY <1>2 DEF Layouts, ConnectionRequest, ConnectionConfirm
<1>3. CASE says \in {"CREF", "RLSD", "DT1"}
  BY <1>3 DEF Layouts, ConnectionRefused, Released, DataForm1
<1>4. CASE says \in {"UDT", "UDTS"}
  BY <1>4 DEF Layouts, UnitData
<1>5. CASE says \in {"XUDT", "XUDTS"}
  BY <1>5 DEF Layouts, ExtendedUnitData
<1>6. QED
  BY <1>1, <1>2, <1>3, <1>4, <1>5

(* No chunk begins between a piece that is taken and one behind it: that   *)
(* one is taken too.                                                       *)
LEMMA TakenBehind ==
    ASSUME IInv, NEW m \in Taken, NEW i \in DOMAIN packet,
           \A j \in DOMAIN packet : m < j /\ j <= i => packet[j].kind # "Chunk"
    PROVE  i \in Taken
<1>1. m \in DOMAIN packet /\ DOMAIN packet = 1 .. Len(packet) /\ Len(packet) \in Nat
  BY PieceTypes DEF Taken, TakenOf, IInv, WellFormed, Whole
<1>2. ASSUME NEW j \in 1 .. i, packet[j].kind = "Chunk" PROVE j \in 1 .. m
  <2>1. j \in DOMAIN packet /\ j <= i
    BY <1>1
  <2>2. ~(m < j)
    BY <1>2, <2>1
  <2>3. QED
    BY <1>1, <2>1, <2>2
<1>3. QED
  BY <1>1, <1>2 DEF Taken, TakenOf

(* Where the pieces up to one begin.                                       *)
LEMMA StartBefore ==
    ASSUME IInv, NEW i \in DOMAIN packet, NEW j \in DOMAIN packet
    PROVE  /\ j < i => StartIn(packet, j) < StartIn(packet, i)
           /\ StartIn(packet, j) < StartIn(packet, i) => j < i
           /\ i \in Nat /\ j \in Nat /\ StartIn(packet, i) \in Nat /\ StartIn(packet, j) \in Nat
<1>1. /\ packet \in Seq(Pieces) /\ DOMAIN packet = 1 .. Len(packet) /\ Len(packet) \in Nat
  BY PieceTypes DEF IInv, WellFormed, Whole
<1>2. i \in 1 .. Len(packet) + 1 /\ j \in 1 .. Len(packet) + 1
  BY <1>1
<1>3. StartIn(packet, i) \in Nat /\ StartIn(packet, j) \in Nat
  BY <1>1, <1>2, StartNext
<1>4. j < i => StartIn(packet, j) < StartIn(packet, i)
  BY <1>1, <1>2, StartIncreases
<1>5. i < j => StartIn(packet, i) < StartIn(packet, j)
  BY <1>1, <1>2, StartIncreases
<1>6. QED
  BY <1>1, <1>2, <1>3, <1>4, <1>5

------------------------------------------------------------------------------
(* The walk through the optional parameters.                               *)

Early == HeaderKinds \cup FieldKinds \cup {"Param"}

(* The names passed are those before the piece that the code is at.        *)
AtName ==
    /\ at = "Name" =>
          \E i \in Taken : /\ Here = Start(i) /\ packet[i].kind = "Name"
                           /\ walked = NamesTo(packet, i - 1)
    /\ at = "OLength" =>
          \E i \in Taken : /\ Here = Start(i + 1) /\ Named(packet, i)
                           /\ walked = NamesTo(packet, i)
    /\ at \in Early => walked = << >>

(* If there are names, the code is on the way to the message that they are *)
(* of, or in its fields and has seen the pointer to them, or has come out. *)
InFields(m) == /\ at \in FieldKinds /\ base = Start(m)
               /\ (\E k \in 1 .. field - 1 : PointsTo(packet, m, k)) => opt
HasThem(m) == MessageIn(packet, m) /\ LiesOpen(packet, m) /\ HasNames(packet, m)
Coming ==
    (\E i \in DOMAIN packet : Named(packet, i)) =>
        \E m \in DOMAIN packet : HasThem(m) /\ (OnWay(m) \/ InFields(m) \/ at \notin Early)

WalkInv == IInv /\ NamesApart(packet) /\ AtName /\ Coming /\ WalkIsParameters

(* A packet without names.                                                 *)
LEMMA NoNames ==
    ASSUME IInv, ~\E i \in DOMAIN packet : Named(packet, i), NEW n \in 0 .. Len(packet)
    PROVE  NamesTo(packet, n) = << >>
<1>1. /\ packet \in Seq(Pieces) /\ DOMAIN packet = 1 .. Len(packet) /\ Len(packet) \in Nat
  BY PieceTypes DEF IInv, WellFormed, Whole
<1>2. 0 \in 0 .. Len(packet) /\ 0 <= n /\ \A k \in 0 + 1 .. n : ~Named(packet, k)
  BY <1>1
<1>3. NamesTo(packet, n) = NamesTo(packet, 0)
  BY <1>1, <1>2, NamesSame
<1>4. QED
  BY <1>1, <1>3, NamesNext

(* The extraction ends with what has been walked until then.               *)
LEMMA NoneMissed ==
    ASSUME IInv, walked = << >>, ~\E i \in DOMAIN packet : Named(packet, i), packet' = packet,
           walked' = walked
    PROVE  WalkIsParameters'
<1>1. Len(packet) \in 0 .. Len(packet)
  BY PieceTypes DEF IInv, WellFormed, Whole
<1>2. NamesTo(packet, Len(packet)) = << >>
  BY <1>1, NoNames
<1>3. QED
  BY <1>2 DEF WalkIsParameters

(* From the headers.                                                       *)
HeaderStep == \/ extractEth \/ extractVlan \/ extractMpls \/ extractIp4 \/ gotSctp \/ extractSctpChunk
              \/ gotM2ua \/ extractHdlc \/ extractMtp \/ extractMtp3 \/ extractM3ua \/ gotProtocolData
              \/ otherParameter \/ noMoreParameters \/ messageType

LEMMA HeaderSteps ==
    ASSUME IInv, HeaderStep
    PROVE  /\ at \in HeaderKinds \cup {"Param"} /\ at \notin FieldKinds
           /\ packet' = packet /\ walked' = walked /\ ssn' = ssn
<1>1. at \in HeaderKinds \cup {"Param"}
  BY DEF HeaderStep, extractEth, extractVlan, extractMpls, extractIp4, gotSctp,
       extractSctpChunk, gotM2ua, extractHdlc, extractMtp, extractMtp3, extractM3ua, gotProtocolData,
       otherParameter, noMoreParameters, messageType, HeaderKinds, FirstKinds
<1>2. packet' = packet /\ walked' = walked /\ ssn' = ssn
  BY DEF HeaderStep, extractEth, extractVlan, extractMpls, extractIp4, gotSctp,
       extractSctpChunk, gotM2ua, extractHdlc, extractMtp, extractMtp3, extractM3ua, gotProtocolData,
       otherParameter, noMoreParameters, messageType, Got, Rebased, Make, End
<1>3. QED
  BY <1>1, <1>2 DEF HeaderKinds, FirstKinds, FieldKinds, Lengthy

(* The type of the message m, which the code is to go through.             *)
LEMMA TypeRead ==
    ASSUME IInv, NEW m, MessageIn(packet, m), Here = Start(m), messageType
    PROVE  /\ at' = PartsOf(m)[1] /\ at' \in FieldKinds /\ field' = 1 /\ base' = Start(m)
           /\ packet' = packet /\ base = Start(m) /\ 1 \in 1 .. Len(PartsOf(m))
<1>1. at = "Mt" /\ at \in HeaderKinds
  BY DEF messageType, HeaderKinds, FirstKinds
<1>2. PICK i : AtHeader(i) /\ Read(Here, "Mt") = {packet[i]}
  BY <1>1, FindHeader
<1>3. m \in DOMAIN packet /\ i \in DOMAIN packet /\ Start(i) = Start(m) /\ off = 0 /\ base \in Nat
  BY <1>1, <1>2 DEF AtHeader, MessageIn, TakenOf, IInv, Types
<1>4. i = m
  BY <1>3, StartUnique DEF Start, IInv, WellFormed, Whole
<1>5. base = Start(m)
  BY <1>3 DEF Here
<1>6. packet[m].says \in DOMAIN Layouts
  BY DEF MessageIn, HasFields
<1>7. at' = PartsOf(m)[1] /\ field' = 1 /\ packet' = packet /\ base' = base
  BY <1>2, <1>4, <1>6 DEF messageType, PartsOf
<1>8. PartsOf(m)[1] \in FieldKinds /\ 1 \in 1 .. Len(PartsOf(m))
  BY <1>6, LayoutTypes DEF PartsOf
<1>9. QED
  BY <1>5, <1>7, <1>8

LEMMA HeaderGoesOn ==
    ASSUME IInv, HeaderStep, NEW m \in DOMAIN packet, MessageIn(packet, m), LiesOpen(packet, m), OnWay(m)
    PROVE  OnWay(m)' \/ (Here = Start(m) /\ messageType)
<1>1. OnWayTo(m) /\ ~DataIn(packet, m)
  BY DEF OnWayTo, Goal, DataIn, MessageIn, HasFields
<1>2. [Next]_vars
  BY DEF HeaderStep, Next, Step
<1>3. QED
  BY <1>1, <1>2, Nearer

(* Neither at its ends nor in an SCCP message is the code on its way.      *)
LEMMA OnWayEarly ==
    ASSUME NEW m, OnWay(m)
    PROVE  at \in Early /\ at \notin FieldKinds
BY DEF OnWay, Openers, Early, HeaderKinds, FirstKinds, FieldKinds, Lengthy

LEMMA LateStates ==
    /\ \A x \in {"Name", "OLength", "Tcap", "returned", "dropped", "asserted"} : x \notin Early
    /\ FieldKinds \subseteq Early
BY DEF Early, HeaderKinds, FirstKinds, FieldKinds, Lengthy

LEMMA WalkHeaders == WalkInv /\ IInv' /\ HeaderStep => WalkInv'
<1> SUFFICES ASSUME WalkInv, IInv', HeaderStep PROVE WalkInv'
  OBVIOUS
<1>1. IInv /\ AtName /\ Coming /\ NamesApart(packet)
  BY DEF WalkInv
<1>2. /\ at \in HeaderKinds \cup {"Param"} /\ at \notin FieldKinds
      /\ packet' = packet /\ walked' = walked
  BY <1>1, HeaderSteps
<1>3. at \in Early /\ walked = << >>
  BY <1>1, <1>2 DEF Early, AtName
<1>4. at' \in Early \cup Ends
  <2>1. CASE messageType
    <3>1. PICK h \in Read(Here, "Mt") : \/ h.says \in DOMAIN Layouts /\ at' = Layouts[h.says].parts[1]
                                        \/ at' = "dropped"
      BY <2>1 DEF messageType
    <3>2. h.says \in DOMAIN Layouts => 1 \in 1 .. Len(Layouts[h.says].parts)
                                       /\ Layouts[h.says].parts[1] \in FieldKinds
      BY LayoutTypes
    <3>3. QED
      BY <3>1, <3>2 DEF Early, Ends
  <2>2. CASE ~messageType
    BY <2>2, <1>2, <1>3 DEF HeaderStep, extractEth, extractVlan, extractMpls, extractIp4, gotSctp,
       extractSctpChunk, gotM2ua, extractHdlc, extractMtp, extractMtp3, extractM3ua, gotProtocolData,
       otherParameter, noMoreParameters, Got, Rebased, Make, End, Early, Ends, HeaderKinds, FirstKinds,
       Eth, Vlan, Ip4, ChunkData
  <2>3. QED
    BY <2>1, <2>2
<1>5. AtName'
  <2>1. at' \notin {"Name", "OLength"}
    BY <1>4, LateStates DEF Ends
  <2>2. QED
    BY <1>2, <1>3, <2>1 DEF AtName
<1>6. CASE ~\E i \in DOMAIN packet : Named(packet, i)
  <2>1. WalkIsParameters'
    BY <1>1, <1>2, <1>3, <1>6, NoneMissed
  <2>2. Coming'
    BY <1>2, <1>6 DEF Coming
  <2>3. QED
    BY <1>1, <1>2, <1>5, <2>1, <2>2 DEF WalkInv
<1>7. CASE \E i \in DOMAIN packet : Named(packet, i)
  <2>1. PICK m \in DOMAIN packet : HasThem(m) /\ OnWay(m)
    BY <1>1, <1>2, <1>3, <1>7 DEF Coming, InFields
  <2>2. OnWay(m)' \/ (Here = Start(m) /\ messageType)
    BY <1>1, <2>1, HeaderGoesOn DEF HasThem
  <2>3. HasThem(m)'
    BY <1>2, <2>1 DEF HasThem
  <2>4. CASE OnWay(m)'
    <3>1. (at \in Early)'
      BY <2>4, OnWayEarly, PTL
    <3>2. WalkIsParameters'
      BY <3>1, LateStates DEF WalkIsParameters
    <3>3. Coming'
      BY <1>2, <2>3, <2>4 DEF Coming
    <3>4. QED
      BY <1>1, <1>2, <1>5, <3>2, <3>3 DEF WalkInv
  <2>5. CASE Here = Start(m) /\ messageType
    <3>1. at' \in FieldKinds /\ field' = 1 /\ base' = Start(m)
      BY <1>1, <2>1, <2>5, TypeRead DEF HasThem
    <3>2. WalkIsParameters'
      BY <3>1, LateStates DEF WalkIsParameters
    <3>3. InFields(m)'
      BY <1>2, <3>1 DEF InFields, Start
    <3>4. Coming'
      BY <1>2, <2>3, <3>3 DEF Coming
    <3>5. QED
      BY <1>1, <1>2, <1>5, <3>2, <3>4 DEF WalkInv
  <2>6. QED
    BY <2>2, <2>4, <2>5
<1>8. QED
  BY <1>6, <1>7

(* From the fields of a message.                                           *)
FieldStep == \/ protocolClass \/ vParameterPtr \/ oParameterPtr
             \/ vParameter \/ callingParty \/ content

(* The message m has a pointer to optional parameters, up to this field,   *)
(* and the code knows of those before.                                     *)
Shown(m) == InFields(m) /\ \E k \in 1 .. field : PointsTo(packet, m, k)

BytesOf(i) == IF at \in Lengthy THEN 1 + packet[i].len ELSE 1

LEMMA ShownByOpt ==
    ASSUME IInv, NEW m, NEW i, FieldAt(m, i), Shown(m), at # "OPtr"
    PROVE  opt
<1>1. PICK k \in 1 .. field : PointsTo(packet, m, k)
  BY DEF Shown
<1>2. field \in 1 .. Len(PartsOf(m)) /\ PartsOf(m)[field] = at /\ PartsOf(m)[k] = "OPtr"
  BY <1>1 DEF FieldAt, PointsTo, PartsOf
<1>3. k \in 1 .. field - 1
  <2>1. k # field
    BY <1>2
  <2>2. QED
    BY <1>1, <1>2, <2>1
<1>4. \E l \in 1 .. field - 1 : PointsTo(packet, m, l)
  BY <1>1, <1>3
<1>5. QED
  BY <1>4, Zenon DEF Shown, InFields

LEMMA ShownHere ==
    ASSUME IInv, NEW m, NEW i, FieldAt(m, i), Shown(m), at = "OPtr"
    PROVE  packet[i].len # 0
<1>1. PICK k \in 1 .. field : PointsTo(packet, m, k)
  BY DEF Shown
<1>2. /\ field \in 1 .. Len(PartsOf(m)) /\ PartsOf(m)[field] = "OPtr" /\ PartsOf(m)[k] = "OPtr"
      /\ HasFields(packet, m) /\ i \in DOMAIN packet /\ StartIn(packet, i) = Place(packet, m, field)
      /\ packet \in Seq(Pieces)
  BY <1>1 DEF FieldAt, PointsTo, PartsOf, Start, IInv, WellFormed, Whole
<1>3. Len(PartsOf(m)) \in Nat
  BY <1>2, LayoutTypes DEF HasFields, PartsOf
<1>4. k = field
  <2>1. k \in 1 .. Len(PartsOf(m))
    BY <1>1, <1>2, <1>3
  <2>2. QED
    BY <1>2, <2>1, LayoutOrder DEF HasFields, PartsOf
<1>5. PICK j \in DOMAIN packet : StartIn(packet, j) = Place(packet, m, field) /\ packet[j].len # 0
  BY <1>1, <1>4 DEF PointsTo
<1>6. j = i
  BY <1>2, <1>5, StartUnique
<1>7. QED
  BY <1>5, <1>6

(* What a step at a field comes to.                                        *)
Passed(m, i, optional) == /\ Past(BytesOf(i), optional)
                          /\ Shown(m) => optional
                          /\ Shown(m) => opt'
                          /\ Pointed(m, optional)

LEMMA OptPointed ==
    ASSUME NEW m, NEW i, FieldAt(m, i)
    PROVE  Pointed(m, opt)
<1>1. field \in 1 .. Len(PartsOf(m)) /\ (opt => \E k \in 1 .. field - 1 : PointsTo(packet, m, k))
  BY DEF FieldAt
<1>2. \A k \in 1 .. field - 1 : k \in 1 .. field
  BY <1>1
<1>3. QED
  BY <1>1, <1>2, Zenon DEF Pointed

LEMMA FieldSteps ==
    ASSUME IInv, NEW m, NEW i, FieldAt(m, i), FieldStep
    PROVE  /\ packet' = packet /\ walked' = walked
           /\ at' \in {"asserted", "Tcap"} \/ \E optional : Passed(m, i, optional)
<1>1. /\ Read(Here, PartKind(at)) = {packet[i]} /\ at \in FieldKinds
  BY FieldReads DEF FieldAt
<1>2. CASE protocolClass
  <2>1. at = "Class" /\ PartKind(at) = "Class" /\ at \notin Lengthy
    BY <1>2 DEF protocolClass, PartKind, Lengthy
  <2>2. CASE Past(1, opt) /\ UNCHANGED <<opt, ssn>>
    <3>1. Shown(m) => opt
      BY <2>1, ShownByOpt
    <3>2. Passed(m, i, opt)
      <4>1. Past(BytesOf(i), opt)
        BY <2>1, <2>2 DEF BytesOf
      <4>2. Shown(m) => opt'
        BY <2>2, <3>1
      <4>3. QED
        BY <3>1, <4>1, <4>2, OptPointed, Zenon DEF Passed
    <3>3. packet' = packet /\ walked' = walked
      BY <2>2 DEF Past
    <3>4. QED
      BY <3>2, <3>3
  <2>3. CASE End("asserted")
    BY <2>3 DEF End
  <2>4. QED
    BY <1>2, <2>2, <2>3 DEF protocolClass
<1>3. CASE vParameterPtr
  <2>1. at = "VPtr" /\ at \notin Lengthy
    BY <1>3 DEF vParameterPtr, Lengthy
  <2>2. CASE Past(1, opt) /\ UNCHANGED <<opt, ssn>>
    <3>1. Shown(m) => opt
      BY <2>1, ShownByOpt
    <3>2. Passed(m, i, opt)
      <4>1. Past(BytesOf(i), opt)
        BY <2>1, <2>2 DEF BytesOf
      <4>2. Shown(m) => opt'
        BY <2>2, <3>1
      <4>3. QED
        BY <3>1, <4>1, <4>2, OptPointed, Zenon DEF Passed
    <3>3. packet' = packet /\ walked' = walked
      BY <2>2 DEF Past
    <3>4. QED
      BY <3>2, <3>3
  <2>3. CASE End("asserted")
    BY <2>3 DEF End
  <2>4. QED
    BY <1>3, <2>2, <2>3 DEF vParameterPtr
<1>4. CASE oParameterPtr
  <2>1. at = "OPtr" /\ PartKind(at) = "Ptr" /\ at \notin Lengthy
    BY <1>4 DEF oParameterPtr, PartKind, Lengthy
  <2>2. (opt' = (packet[i].len # 0)) /\ Past(1, packet[i].len # 0)
    BY <1>1, <1>4, <2>1 DEF oParameterPtr
  <2>3. Shown(m) => packet[i].len # 0
    BY <2>1, ShownHere
  <2>4. Passed(m, i, packet[i].len # 0)
    <3>1. Past(BytesOf(i), packet[i].len # 0)
      BY <2>1, <2>2 DEF BytesOf
    <3>2. Shown(m) => opt'
      BY <2>2, <2>3
    <3>3. Pointed(m, packet[i].len # 0)
      <4>1. packet[i].len # 0 => PointsTo(packet, m, field)
        BY <2>1 DEF FieldAt, PointsTo, PartsOf, Start
      <4>2. field \in 1 .. field
        <5>1. field \in 1 .. Len(PartsOf(m))
          BY DEF FieldAt
        <5>2. QED
          BY <5>1
      <4>3. QED
        BY <4>1, <4>2, Zenon DEF Pointed
    <3>4. QED
      BY <2>3, <3>1, <3>2, <3>3, Zenon DEF Passed
  <2>5. packet' = packet /\ walked' = walked
    BY <2>2 DEF Past
  <2>6. QED
    BY <2>4, <2>5
<1>5. CASE vParameter \/ callingParty \/ content
  <2>1. at \in Lengthy /\ PartKind(at) = "Length" /\ at # "OPtr"
    BY <1>5 DEF vParameter, callingParty, content, PartKind, Lengthy
  <2>2. CASE Past(1 + packet[i].len, opt) /\ UNCHANGED opt
    <3>1. Shown(m) => opt
      BY <2>1, ShownByOpt
    <3>2. Passed(m, i, opt)
      <4>1. Past(BytesOf(i), opt)
        BY <2>1, <2>2 DEF BytesOf
      <4>2. Shown(m) => opt'
        BY <2>2, <3>1
      <4>3. QED
        BY <3>1, <4>1, <4>2, OptPointed, Zenon DEF Passed
    <3>3. packet' = packet /\ walked' = walked
      BY <2>2 DEF Past
    <3>4. QED
      BY <3>2, <3>3
  <2>3. CASE Got("Tcap", 1)
    BY <2>3 DEF Got, Rebased
  <2>4. QED
    BY <1>1, <1>5, <2>1, <2>2, <2>3 DEF vParameter, callingParty, content
<1>6. QED
  BY <1>2, <1>3, <1>4, <1>5 DEF FieldStep

(* Behind the fields of a message that has optional parameters lies the    *)
(* first of their names.                                                   *)
LEMMA FirstName ==
    ASSUME WalkInv, NEW m, NEW i, FieldAt(m, i), FieldStep, IInv', at' = "Name",
           NEW optional, Passed(m, i, optional)
    PROVE  \E j \in Taken : /\ base' + off' = Start(j) /\ packet[j].kind = "Name"
                            /\ NamesTo(packet, j - 1) = << >>
<1>0. IInv /\ NamesApart(packet) /\ WellFormed(packet) /\ Types /\ packet \in Seq(Pieces)
  BY DEF WalkInv, IInv, WellFormed, Whole
<1>1. /\ m \in Taken /\ m \in DOMAIN packet /\ HasFields(packet, m) /\ Here = Place(packet, m, field)
      /\ field \in 1 .. Len(PartsOf(m)) /\ at = PartsOf(m)[field] /\ Len(PartsOf(m)) \in Nat
      /\ \A k \in 1 .. Len(PartsOf(m)) : PartsOf(m)[k] \in FieldKinds
      /\ base \in Nat /\ off \in Nat
  BY <1>0, LayoutTypes DEF FieldAt, Taken, TakenOf, HasFields, PartsOf, Types
<1>2. PICK n \in Nat : n = BytesOf(i) /\ PartBytes(packet, Here, at) = n
  BY <1>0, FieldReads DEF BytesOf
<1>3. Past(n, optional) /\ packet' = packet /\ base' = base /\ off' = (off + n) % 65536
  BY <1>2 DEF Passed, Past
<1>4. Parts = PartsOf(m) /\ Message = packet[m]
  BY <1>0, FieldReads
<1>5. field = Len(PartsOf(m))
  <2>1. field < Len(PartsOf(m)) => at' = PartsOf(m)[field + 1] /\ field + 1 \in 1 .. Len(PartsOf(m))
    BY <1>1, <1>3, <1>4 DEF Past
  <2>2. at' \notin FieldKinds
    BY DEF FieldKinds, Lengthy
  <2>3. QED
    BY <1>1, <2>1, <2>2
<1>6. FieldsEnd(packet, m) = Here + n
  <2>1. Place(packet, m, field + 1) = Place(packet, m, field) + PartBytes(packet, Place(packet, m, field), PartsOf(m)[field])
    BY <1>1, PlaceNext DEF PartsOf
  <2>2. QED
    BY <1>1, <1>2, <1>5, <2>1 DEF FieldsEnd, PartsOf
<1>7. PICK j \in DOMAIN packet : StartIn(packet, j) = FieldsEnd(packet, m) /\ packet[j].kind = "Name"
  <2>1. optional
    BY <1>1, <1>3, <1>4, <1>5 DEF Past, Outcome
  <2>2. \E k \in 1 .. field : PointsTo(packet, m, k)
    <3>1. Pointed(m, optional)
      BY DEF Passed
    <3>2. QED
      BY <2>1, <3>1, Zenon DEF Pointed
  <2>3. FieldLinks(packet, m)
    BY <1>0, <1>1 DEF WellFormed
  <2>4. Lies(packet, FieldsEnd(packet, m), "Name")
    BY <1>1, <1>5, <2>2, <2>3 DEF FieldLinks, PartsOf, FieldsEnd
  <2>5. QED
    BY <2>4 DEF Lies
<1>8. base' + off' = Start(j)
  <2>1. Lies(packet, Here + n, "Name")
    BY <1>6, <1>7 DEF Lies
  <2>2. (off + n) % 65536 = off + n /\ base + (off + n) = Here + n
    BY <1>0, <1>2, <2>1, Reached
  <2>3. QED
    BY <1>3, <1>6, <1>7, <2>2 DEF Start
<1>9. \A k \in DOMAIN packet : StartIn(packet, k) < FieldsEnd(packet, m) =>
            packet[k].kind # "Name" /\ (m < k => packet[k].kind # "Chunk")
  BY <1>0, <1>1 DEF NamesApart, Taken
<1>10. j \in Taken
  <2>1. ASSUME NEW k \in DOMAIN packet, m < k, k <= j PROVE packet[k].kind # "Chunk"
    <3>1. CASE k = j
      BY <1>7, <3>1
    <3>2. CASE k # j
      <4>1. k < j
        BY <1>0, <2>1, <3>2, StartBefore
      <4>2. StartIn(packet, k) < FieldsEnd(packet, m)
        BY <1>0, <1>7, <4>1, StartBefore
      <4>3. QED
        BY <1>9, <2>1, <4>2
    <3>3. QED
      BY <3>1, <3>2
  <2>2. QED
    BY <1>0, <1>1, <2>1, TakenBehind
<1>11. NamesTo(packet, j - 1) = << >>
  <2>1. DOMAIN packet = 1 .. Len(packet) /\ Len(packet) \in Nat /\ j \in Nat /\ j \in 1 .. Len(packet)
    BY <1>0, PieceTypes
  <2>2. ASSUME NEW k \in 1 .. j - 1 PROVE ~Named(packet, k)
    <3>1. k \in DOMAIN packet /\ k < j
      BY <2>1
    <3>2. StartIn(packet, k) < FieldsEnd(packet, m)
      BY <1>0, <1>7, <3>1, StartBefore
    <3>3. QED
      BY <1>9, <3>1, <3>2 DEF Named
  <2>3. 0 \in 0 .. Len(packet) /\ j - 1 \in 0 .. Len(packet) /\ 0 <= j - 1 /\ 0 + 1 .. j - 1 = 1 .. j - 1
    BY <2>1
  <2>4. NamesTo(packet, j - 1) = NamesTo(packet, 0)
    BY <1>0, <2>2, <2>3, NamesSame
  <2>5. QED
    BY <1>0, <2>4, NamesNext
<1>12. QED
  BY <1>7, <1>8, <1>10, <1>11

LEMMA WalkFields == WalkInv /\ IInv' /\ FieldStep => WalkInv'
<1> SUFFICES ASSUME WalkInv, IInv', FieldStep PROVE WalkInv'
  OBVIOUS
<1>0. IInv /\ AtName /\ Coming /\ NamesApart(packet)
  BY DEF WalkInv
<1>1. at \in FieldKinds /\ at \in Early /\ walked = << >>
  <2>1. at \in FieldKinds
    BY DEF FieldStep, protocolClass, vParameterPtr, oParameterPtr, vParameter, callingParty, content,
       FieldKinds, Lengthy
  <2>2. QED
    BY <1>0, <2>1 DEF AtName, Early
<1>2. PICK m, i : FieldAt(m, i)
  BY <1>0, <1>1, FindField
<1>3. /\ packet' = packet /\ walked' = << >>
      /\ at' \in {"asserted", "Tcap"} \/ \E optional : Passed(m, i, optional)
  BY <1>0, <1>1, <1>2, FieldSteps
<1>4. /\ m \in DOMAIN packet /\ HasFields(packet, m) /\ base = Start(m)
      /\ field \in 1 .. Len(PartsOf(m)) /\ Len(PartsOf(m)) \in Nat
      /\ \A k \in 1 .. Len(PartsOf(m)) : PartsOf(m)[k] \in FieldKinds
  BY <1>2, LayoutTypes DEF FieldAt, Taken, TakenOf, HasFields, PartsOf
(* The message with the names is this one.                                 *)
<1>5. (\E k \in DOMAIN packet : Named(packet, k)) => HasThem(m) /\ InFields(m)
  <2> SUFFICES ASSUME \E k \in DOMAIN packet : Named(packet, k) PROVE HasThem(m) /\ InFields(m)
    OBVIOUS
  <2>1. PICK w \in DOMAIN packet : HasThem(w) /\ (OnWay(w) \/ InFields(w) \/ at \notin Early)
    BY <1>0 DEF Coming
  <2>2. InFields(w)
    BY <1>1, <2>1, OnWayEarly
  <2>3. w = m
    <3>1. packet \in Seq(Pieces)
      BY <1>0 DEF IInv, WellFormed, Whole
    <3>2. StartIn(packet, w) = StartIn(packet, m)
      BY <1>4, <2>2 DEF InFields, Start
    <3>3. QED
      BY <1>4, <3>1, <3>2, StartUnique
  <2>4. QED
    BY <2>1, <2>2, <2>3
<1>6. CASE at' \in {"asserted", "Tcap"}
  <2>1. at' \notin Early
    BY <1>6, LateStates
  <2>2. AtName' /\ WalkIsParameters'
    BY <1>6, <2>1 DEF AtName, WalkIsParameters
  <2>3. Coming'
    BY <1>3, <1>5, <2>1, <1>4 DEF Coming, HasThem
  <2>4. QED
    BY <1>0, <1>3, <2>2, <2>3 DEF WalkInv
<1>7. ASSUME NEW optional, Passed(m, i, optional) PROVE WalkInv'
  <2>1. /\ Past(BytesOf(i), optional) /\ Parts = PartsOf(m) /\ Message = packet[m]
    BY <1>0, <1>2, <1>7, FieldReads DEF Passed
  <2>2. CASE field < Len(PartsOf(m))
    <3>1. at' = PartsOf(m)[field + 1] /\ base' = base /\ field' = field + 1
      BY <2>1, <2>2 DEF Past
    <3>2. at' \in FieldKinds /\ at' \in Early
      <4>1. field + 1 \in 1 .. Len(PartsOf(m))
        BY <1>4, <2>2
      <4>2. QED
        BY <1>4, <3>1, <4>1 DEF Early
    <3>3. at' \notin {"Name", "OLength", "dropped", "returned"}
      BY <3>2, LateStates
    <3>4. AtName' /\ WalkIsParameters'
      BY <1>3, <3>3 DEF AtName, WalkIsParameters
    <3>5. HasThem(m) /\ InFields(m) => InFields(m)'
      <4> SUFFICES ASSUME InFields(m), \E k \in 1 .. field' - 1 : PointsTo(packet, m, k) PROVE opt'
        BY <1>3, <1>4, <3>1, <3>2 DEF InFields, Start
      <4>1. field' - 1 = field
        BY <1>4, <3>1
      <4>2. Shown(m)
        BY <4>1 DEF Shown
      <4>3. QED
        BY <1>7, <4>2 DEF Passed
    <3>6. Coming'
      BY <1>3, <1>4, <1>5, <3>5 DEF Coming, HasThem
    <3>7. QED
      BY <1>0, <1>3, <3>4, <3>6 DEF WalkInv
  <2>3. CASE ~(field < Len(PartsOf(m))) /\ at' = "Name"
    <3>1. PICK j \in Taken : /\ base' + off' = Start(j) /\ packet[j].kind = "Name"
                             /\ NamesTo(packet, j - 1) = << >>
      BY <1>2, <1>7, <2>3, FirstName
    <3>2. at' \notin Early
      BY <2>3, LateStates
    <3>3. AtName' /\ WalkIsParameters'
      BY <1>3, <2>3, <3>1, <3>2 DEF AtName, WalkIsParameters, Here, Start, Taken
    <3>4. Coming'
      BY <1>3, <1>4, <1>5, <3>2 DEF Coming, HasThem
    <3>5. QED
      BY <1>0, <1>3, <3>3, <3>4 DEF WalkInv
  <2>4. CASE ~(field < Len(PartsOf(m))) /\ at' # "Name"
    <3>1. field = Len(PartsOf(m))
      BY <1>4, <2>4
    <3>2. at' \in {"returned", "dropped"} /\ ~(optional /\ packet[m].says \in Walked)
      BY <2>1, <2>4 DEF Past, Outcome
    <3>3. ~\E k \in DOMAIN packet : Named(packet, k)
      <4> SUFFICES ASSUME \E k \in DOMAIN packet : Named(packet, k) PROVE FALSE
        OBVIOUS
      <4>1. packet[m].says \in Walked /\ \E k \in 1 .. field : PointsTo(packet, m, k)
        <5>1. DOMAIN PartsOf(m) = 1 .. Len(PartsOf(m))
          BY <1>4, LayoutDomain DEF HasFields, PartsOf
        <5>2. QED
          BY <1>5, <3>1, <5>1 DEF HasThem, HasNames, PartsOf
      <4>2. Shown(m)
        BY <1>5, <4>1 DEF Shown
      <4>3. optional
        BY <1>7, <4>2 DEF Passed
      <4>4. QED
        BY <3>2, <4>1, <4>3
    <3>4. at' \notin Early
      BY <3>2, LateStates
    <3>5. WalkIsParameters'
      BY <1>0, <1>1, <1>3, <3>3, NoneMissed
    <3>6. AtName' /\ Coming'
      BY <1>3, <3>2, <3>3, <3>4 DEF AtName, Coming
    <3>7. QED
      BY <1>0, <1>3, <3>5, <3>6 DEF WalkInv
  <2>5. QED
    BY <2>2, <2>3, <2>4
<1>8. QED
  BY <1>3, <1>6, <1>7

(* At a name.                                                              *)
LEMMA WalkName == WalkInv /\ IInv' /\ optionalName => WalkInv'
<1> SUFFICES ASSUME WalkInv, IInv', optionalName PROVE WalkInv'
  OBVIOUS
<1>0. /\ IInv /\ AtName /\ Coming /\ NamesApart(packet) /\ WellFormed(packet) /\ Types
      /\ at = "Name" /\ packet' = packet /\ base' = base
  BY DEF WalkInv, IInv, optionalName
<1>1. PICK i \in Taken : Here = Start(i) /\ packet[i].kind = "Name" /\ walked = NamesTo(packet, i - 1)
  BY <1>0 DEF AtName
<1>2. /\ i \in DOMAIN packet /\ DOMAIN packet = 1 .. Len(packet) /\ Len(packet) \in Nat /\ i \in Nat
      /\ packet \in Seq(Pieces) /\ i \in TakenOf(packet)
  BY <1>0, PieceTypes DEF Taken, TakenOf, WellFormed, Whole
<1>3. Read(Here, "Name") = {packet[i]}
  BY <1>0, <1>1, <1>2, ReadPiece
<1>4. Coming' /\ at' \in {"OLength", "dropped"}
  <2>1. at' \in {"OLength", "dropped"} /\ at \notin Early
    BY <1>0, LateStates DEF optionalName
  <2>2. at' \notin Early
    BY <2>1, LateStates
  <2>3. QED
    BY <1>0, <2>1, <2>2 DEF Coming, HasThem
<1>5. CASE packet[i].says = "END" /\ at' = "dropped" /\ walked' = walked
  <2>1. ASSUME NEW k \in i .. Len(packet) PROVE ~Named(packet, k)
    <3>1. CASE k = i
      BY <1>5, <3>1 DEF Named
    <3>2. CASE k # i
      <4>1. k \in DOMAIN packet /\ i < k
        BY <1>2, <3>2
      <4>2. QED
        BY <1>0, <1>1, <1>2, <1>5, <4>1 DEF NamesApart
    <3>3. QED
      BY <3>1, <3>2
  <2>2. i - 1 \in 0 .. Len(packet) /\ Len(packet) \in 0 .. Len(packet) /\ i - 1 <= Len(packet)
        /\ i - 1 + 1 .. Len(packet) = i .. Len(packet)
    BY <1>2
  <2>3. NamesTo(packet, Len(packet)) = NamesTo(packet, i - 1)
    BY <1>2, <2>1, <2>2, NamesSame
  <2>4. WalkIsParameters'
    BY <1>0, <1>1, <1>5, <2>3 DEF WalkIsParameters
  <2>5. AtName'
    BY <1>5, LateStates DEF AtName
  <2>6. QED
    BY <1>0, <1>4, <2>4, <2>5 DEF WalkInv
<1>6. CASE /\ packet[i].says # "END" /\ at' = "OLength" /\ off' = (off + 1) % 65536
           /\ walked' = Append(walked, packet[i].says)
  <2>1. Named(packet, i)
    BY <1>1, <1>2, <1>6 DEF Named
  <2>2. walked' = NamesTo(packet, i)
    BY <1>1, <1>2, <1>6, <2>1, NamesNext DEF NameAfter
  <2>3. packet[i].size = 1 /\ i + 1 \in DOMAIN packet
    BY <1>0, <1>1, <1>2, <1>6 DEF WellFormed, NameLinks, Followed
  <2>4. base' + off' = Start(i + 1)
    <3>1. base + off + 1 = Start(i + 1) /\ (off + 1) % 65536 = off + 1
      BY <1>0, <1>1, <1>2, <2>3, Moves
    <3>2. QED
      BY <1>0, <1>6, <3>1 DEF Types
  <2>5. AtName'
    BY <1>0, <1>6, <2>1, <2>2, <2>4, LateStates DEF AtName, Here, Start, Taken
  <2>6. WalkIsParameters'
    BY <1>6 DEF WalkIsParameters
  <2>7. QED
    BY <1>0, <1>4, <2>5, <2>6 DEF WalkInv
<1>7. QED
  BY <1>3, <1>5, <1>6 DEF optionalName

(* At a length, with which the next name is reached.                       *)
LEMMA WalkLength == WalkInv /\ IInv' /\ optionalLength => WalkInv'
<1> SUFFICES ASSUME WalkInv, IInv', optionalLength PROVE WalkInv'
  OBVIOUS
<1>0. /\ IInv /\ AtName /\ Coming /\ NamesApart(packet) /\ WellFormed(packet) /\ Types
      /\ at = "OLength" /\ at' = "Name" /\ packet' = packet /\ base' = base /\ walked' = walked
  BY DEF WalkInv, IInv, optionalLength
<1>1. PICK i \in Taken : Here = Start(i + 1) /\ Named(packet, i) /\ walked = NamesTo(packet, i)
  BY <1>0 DEF AtName
<1>2. /\ i \in DOMAIN packet /\ DOMAIN packet = 1 .. Len(packet) /\ Len(packet) \in Nat /\ i \in Nat
      /\ packet \in Seq(Pieces) /\ i \in TakenOf(packet)
  BY <1>0, PieceTypes DEF Taken, TakenOf, WellFormed, Whole
<1>3. /\ i + 1 \in DOMAIN packet /\ packet[i + 1].kind = "Length"
      /\ Lies(packet, ValueEnd(packet, i), "Name")
  BY <1>0, <1>1, <1>2 DEF WellFormed, NameLinks, Followed, Named, ValueEnd
<1>4. Read(Here, "Length") = {packet[i + 1]}
  <2>1. PICK l : l = i + 1
    OBVIOUS
  <2>2. QED
    BY <1>0, <1>1, <1>3, <2>1, ReadPiece
<1>5. PICK n \in Nat : n = 1 + packet[i + 1].len /\ packet[i + 1].len \in Nat
  BY <1>0, <1>3, StartInside DEF WellFormed
<1>6. ValueEnd(packet, i) = Here + n /\ off' = (off + n) % 65536
  <2>1. off + 1 + packet[i + 1].len = off + n /\ StartIn(packet, i + 1) + 1 + packet[i + 1].len = StartIn(packet, i + 1) + n
    BY <1>0, <1>1, <1>5 DEF Types, Here, Start
  <2>2. QED
    BY <1>1, <1>4, <2>1 DEF optionalLength, ValueEnd, Start
<1>7. PICK j \in DOMAIN packet : StartIn(packet, j) = ValueEnd(packet, i) /\ packet[j].kind = "Name"
  BY <1>3 DEF Lies
<1>8. base' + off' = Start(j)
  <2>1. (off + n) % 65536 = off + n /\ base + (off + n) = Here + n
    BY <1>0, <1>3, <1>6, Reached
  <2>2. QED
    BY <1>0, <1>6, <1>7, <2>1 DEF Start
<1>9. \A k \in DOMAIN packet : i < k /\ k < j => packet[k].kind \notin {"Name", "Chunk"}
  <2> SUFFICES ASSUME NEW k \in DOMAIN packet, i < k, k < j
               PROVE  packet[k].kind \notin {"Name", "Chunk"}
    OBVIOUS
  <2>1. StartIn(packet, k) < ValueEnd(packet, i)
    BY <1>0, <1>7, StartBefore
  <2>2. QED
    BY <1>0, <1>1, <1>2, <2>1 DEF NamesApart
<1>10. i < j
  <2>1. StartIn(packet, i) < StartIn(packet, i + 1)
    <3>1. Whole(packet)
      BY <1>0 DEF WellFormed
    <3>2. PICK s \in Nat \ {0}, a \in Nat : StartIn(packet, i) = a /\ StartIn(packet, i + 1) = a + s
      BY <1>2, <3>1, StartInside
    <3>3. QED
      BY <3>2
  <2>2. StartIn(packet, i) < StartIn(packet, j)
    <3>1. StartIn(packet, i) \in Nat /\ StartIn(packet, i + 1) \in Nat
      BY <1>0, <1>2, StartInside DEF WellFormed
    <3>2. StartIn(packet, j) = StartIn(packet, i + 1) + n
      BY <1>1, <1>6, <1>7 DEF Start
    <3>3. QED
      BY <2>1, <3>1, <3>2
  <2>3. QED
    BY <1>0, <1>2, <2>2, StartBefore
<1>11. j \in Taken
  <2>1. ASSUME NEW k \in DOMAIN packet, i < k, k <= j PROVE packet[k].kind # "Chunk"
    <3>1. CASE k = j
      BY <1>7, <3>1
    <3>2. CASE k # j
      BY <1>2, <1>9, <2>1, <3>2
    <3>3. QED
      BY <3>1, <3>2
  <2>2. QED
    BY <1>0, <2>1, TakenBehind
<1>12. walked = NamesTo(packet, j - 1)
  <2>1. j \in Nat /\ j \in 1 .. Len(packet)
    BY <1>2
  <2>2. i \in 0 .. Len(packet) /\ j - 1 \in 0 .. Len(packet) /\ i <= j - 1
    BY <1>2, <1>10, <2>1
  <2>3. \A k \in i + 1 .. j - 1 : ~Named(packet, k)
    <3> SUFFICES ASSUME NEW k \in i + 1 .. j - 1 PROVE ~Named(packet, k)
      OBVIOUS
    <3>1. k \in DOMAIN packet /\ i < k /\ k < j
      BY <1>2, <2>1
    <3>2. QED
      BY <1>9, <3>1 DEF Named
  <2>4. QED
    BY <1>1, <1>2, <2>2, <2>3, NamesSame
<1>13. at \notin Early /\ at' \notin Early
  BY <1>0, LateStates
<1>14. AtName'
  BY <1>0, <1>7, <1>8, <1>11, <1>12, <1>13 DEF AtName, Here, Start, Taken
<1>15. WalkIsParameters' /\ Coming'
  BY <1>0, <1>13 DEF WalkIsParameters, Coming, HasThem
<1>16. QED
  BY <1>0, <1>14, <1>15 DEF WalkInv

LEMMA WalkStays == WalkInv /\ IInv' /\ UNCHANGED vars => WalkInv'
<1> SUFFICES ASSUME WalkInv, IInv', UNCHANGED vars PROVE WalkInv'
  OBVIOUS
<1>1. /\ packet' = packet /\ at' = at /\ base' = base /\ off' = off /\ field' = field
      /\ walked' = walked /\ (opt' <=> opt)
  BY DEF vars
<1>2. Here' = Here /\ Taken' = Taken
  BY <1>1 DEF Here, Taken
<1>3. AtName'
  BY <1>1, <1>2 DEF WalkInv, AtName, Start
<1>4. \A m : (OnWay(m)' <=> OnWay(m)) /\ (InFields(m)' <=> InFields(m)) /\ (HasThem(m)' <=> HasThem(m))
  BY <1>1, <1>2 DEF OnWay, InFields, HasThem, Start
<1>5. Coming'
  BY <1>1, <1>4 DEF WalkInv, Coming
<1>6. WalkIsParameters' /\ NamesApart(packet)'
  BY <1>1 DEF WalkInv, WalkIsParameters
<1>7. QED
  BY <1>3, <1>5, <1>6 DEF WalkInv

LEMMA WalkStep == WalkInv /\ [Next]_vars => WalkInv'
<1> SUFFICES ASSUME WalkInv, [Next]_vars PROVE WalkInv'
  OBVIOUS
<1>1. IInv'
  BY EveryStep DEF WalkInv
<1>2. HeaderStep \/ FieldStep \/ optionalName \/ optionalLength \/ UNCHANGED vars
  BY DEF Next, Step, Ended, HeaderStep, FieldStep
<1>3. QED
  BY <1>1, <1>2, WalkHeaders, WalkFields, WalkName, WalkLength, WalkStays

(* Every optional parameter of a message that lies open is passed, in      *)
(* order, and nothing else, however many there are and however long, where *)
(* the extraction does not end with TCAP or a refused class.               *)
THEOREM ParametersWalked ==
    ASSUME \A p \in Packets : WellFormed(p) /\ NamesApart(p) /\ NamesOpen(p)
    PROVE  Spec => []WalkIsParameters
<1>1. Init => WalkInv
  <2> SUFFICES ASSUME Init PROVE WalkInv
    OBVIOUS
  <2>1. IInv /\ NamesApart(packet) /\ NamesOpen(packet)
    BY Starting DEF Init
  <2>2. at \in FirstKinds /\ walked = << >>
    BY <2>1 DEF Init, IInv, WellFormed, Whole
  <2>3. AtName /\ WalkIsParameters
    BY <2>2 DEF AtName, WalkIsParameters, FirstKinds
  <2>4. Coming
    <3> SUFFICES ASSUME \E i \in DOMAIN packet : Named(packet, i)
                 PROVE  \E m \in DOMAIN packet : HasThem(m) /\ OnWay(m)
      BY DEF Coming
    <3>1. PICK m \in DOMAIN packet : HasThem(m)
      BY <2>1 DEF NamesOpen, HasThem
    <3>2. OnWay(m)
      BY <2>1, <3>1, WayBegins DEF HasThem, Goal
    <3>3. QED
      BY <3>1, <3>2
  <2>5. QED
    BY <2>1, <2>3, <2>4 DEF WalkInv
<1>2. WalkInv => WalkIsParameters
  BY DEF WalkInv
<1>3. QED
  BY <1>1, <1>2, WalkStep, PTL DEF Spec

------------------------------------------------------------------------------
(* TCAP.                                                                   *)

(* The message m has two parties: its field c is the calling one's, which  *)
(* is b, the second of the packet's two addresses.                         *)
Calls(m, c, a, b) ==
    /\ m \in DOMAIN packet /\ MessageIn(packet, m) /\ LiesOpen(packet, m)
    /\ c \in 1 .. Len(PartsOf(m)) /\ PartsOf(m)[c] = "Calling"
    /\ a \in DOMAIN packet /\ b \in DOMAIN packet
    /\ Addresses = {a, b} /\ a < b
    /\ Start(b) = Place(packet, m, c) + 1
    /\ Numbered(packet, b)

(* The code is on the way to that message, or in its fields and has got    *)
(* the calling party's number if it is behind it, or has come out.         *)
NumberGot(m, c) == at \in FieldKinds /\ base = Start(m) /\ (field > c => (ssn <=> CallingSsn))
Handed == \/ at = "Tcap" /\ CallingSsn
          \/ at \in {"Name", "OLength", "returned", "dropped"} /\ ~CallingSsn
Calling == Cardinality(Addresses) = 2 =>
              \E m, c, a, b : Calls(m, c, a, b) /\ (OnWay(m) \/ NumberGot(m, c) \/ Handed)

CallInv == IInv /\ Calling

LEMMA CallingIsSecond ==
    ASSUME NEW m, NEW c, NEW a, NEW b, IInv, Calls(m, c, a, b)
    PROVE  /\ CallingParty = b
           /\ b \in Taken /\ packet[b].kind = "Ai"
<1>1. Addresses = {a, b} /\ a < b /\ a \in Nat /\ b \in Nat
  BY StartBefore DEF Calls
<1>2. \A i \in {a, b} : (\E j \in {a, b} : j < i) <=> i = b
  BY <1>1
<1>3. CallingParty = b
  <2>1. CallingParty = CHOOSE i \in {a, b} : \E j \in {a, b} : j < i
    BY <1>1 DEF CallingParty
  <2>2. b \in {a, b} /\ \E j \in {a, b} : j < b
    BY <1>1
  <2>3. CallingParty \in {a, b} /\ \E j \in {a, b} : j < CallingParty
    BY <2>1, <2>2
  <2>4. QED
    BY <1>2, <2>3
<1>4. b \in Addresses
  BY <1>1
<1>5. QED
  BY <1>3, <1>4 DEF Addresses, AddressesIn, Taken

(* getSsn finds the number that the calling party has.                     *)
LEMMA NumberRead ==
    ASSUME NEW m, NEW c, NEW a, NEW b, IInv, Calls(m, c, a, b), NEW o, o = Start(b), NEW v \in getSsn(o)
    PROVE  v <=> CallingSsn
<1>1. /\ CallingParty = b /\ b \in Taken /\ packet[b].kind = "Ai" /\ b \in DOMAIN packet
      /\ Numbered(packet, b) /\ WellFormed(packet)
  BY CallingIsSecond DEF Calls, IInv
<1>2. Read(o, "Ai") = {packet[b]}
  BY <1>1, ReadPiece
<1>3. v \in CASE packet[b].says = "PcSsn" -> {s.len # 0 : s \in Read(o + 3, "Ssn")}
              [] packet[b].says = "Ssn"   -> {s.len # 0 : s \in Read(o + 1, "Ssn")}
              [] OTHER                    -> {FALSE}
  BY <1>2 DEF getSsn
<1>4. CallingSsn <=> \E i \in NumbersBehind(packet, b) : packet[i].len # 0
  <2>1. \A i \in Taken : i > b <=> b < i
    <3>1. Taken \subseteq DOMAIN packet
      BY DEF Taken, TakenOf
    <3>2. QED
      BY <1>1, <3>1, StartBefore
  <2>2. QED
    BY <1>1, <2>1 DEF CallingSsn, NumbersBehind, Taken
<1>5. CASE packet[b].says \notin {"Ssn", "PcSsn"}
  <2>1. v = FALSE
    BY <1>3, <1>5
  <2>2. NumbersBehind(packet, b) = {}
    BY <1>1, <1>5 DEF Numbered
  <2>3. QED
    BY <1>4, <2>1, <2>2
<1>6. CASE packet[b].says \in {"Ssn", "PcSsn"}
  <2>1. PICK s \in NumbersBehind(packet, b) :
             Start(s) = NumberPlace(packet, b) /\ NumbersBehind(packet, b) = {s}
    BY <1>1, <1>6 DEF Numbered, Start
  <2>2. s \in DOMAIN packet /\ packet[s].kind = "Ssn"
    BY <2>1 DEF NumbersBehind, TakenOf
  <2>3. Read(NumberPlace(packet, b), "Ssn") = {packet[s]}
    BY <1>1, <2>1, <2>2, ReadPiece
  <2>4. v \in {t.len # 0 : t \in Read(NumberPlace(packet, b), "Ssn")}
    BY <1>3, <1>6 DEF NumberPlace, Start
  <2>5. v = (packet[s].len # 0)
    BY <2>3, <2>4
  <2>6. CallingSsn <=> packet[s].len # 0
    BY <1>4, <2>1
  <2>7. QED
    BY <2>5, <2>6, Zenon
<1>7. QED
  BY <1>5, <1>6

LEMMA CallsKept ==
    ASSUME packet' = packet
    PROVE  /\ CallingSsn' <=> CallingSsn
           /\ Cardinality(Addresses)' = Cardinality(Addresses)
           /\ \A m, c, a, b : Calls(m, c, a, b)' <=> Calls(m, c, a, b)
           /\ \A m : Start(m)' = Start(m)
<1>1. Taken' = Taken /\ Addresses' = Addresses /\ \A m : Start(m)' = Start(m)
  BY DEF Taken, Addresses, Start
<1>2. CallingParty' = CallingParty
  BY <1>1 DEF CallingParty
<1>3. QED
  BY <1>1, <1>2 DEF CallingSsn, Calls, PartsOf

(* Where the code is in the fields of that message.                        *)
LEMMA CallFields ==
    ASSUME NEW m, NEW c, NEW a, NEW b, IInv, Calls(m, c, a, b), at \in FieldKinds, base = Start(m)
    PROVE  \E i : /\ FieldAt(m, i)
                  /\ Len(PartsOf(m)) = c + 1 /\ PartsOf(m)[c + 1] = "Content" /\ c \in Nat
                  /\ \/ field < c /\ at \in {"VPtr", "OPtr", "Called"}
                     \/ field = c /\ at = "Calling"
                     \/ field = c + 1 /\ at = "Content"
<1>1. PICK n, i : FieldAt(n, i)
  BY FindField
<1>2. n = m
  <2>1. packet \in Seq(Pieces) /\ n \in DOMAIN packet /\ m \in DOMAIN packet /\ StartIn(packet, n) = StartIn(packet, m)
    BY <1>1 DEF FieldAt, Calls, Start, Taken, TakenOf, IInv, WellFormed, Whole
  <2>2. QED
    BY <2>1, StartUnique
<1>3. FieldAt(m, i)
  BY <1>1, <1>2
<1>4. packet[m].says \in DOMAIN Layouts /\ field \in 1 .. Len(PartsOf(m)) /\ PartsOf(m)[field] = at
  BY <1>3 DEF FieldAt, HasFields
<1>5. /\ Len(PartsOf(m)) = c + 1 /\ PartsOf(m)[c + 1] = "Content"
      /\ \A k \in 1 .. c - 1 : PartsOf(m)[k] \in {"VPtr", "OPtr", "Called"}
      /\ c \in Nat /\ PartsOf(m)[c] = "Calling"
  <2>1. c \in 1 .. Len(PartsOf(m)) /\ PartsOf(m)[c] = "Calling"
    BY DEF Calls
  <2>2. Len(PartsOf(m)) \in Nat /\ PartsOf(m) = Layouts[packet[m].says].parts
    BY <1>4, LayoutTypes DEF PartsOf
  <2>3. /\ Len(PartsOf(m)) = c + 1 /\ PartsOf(m)[c + 1] = "Content"
        /\ \A k \in 1 .. c - 1 : PartsOf(m)[k] \in {"VPtr", "OPtr", "Called"}
    BY <1>4, <2>1, <2>2, LayoutOrder
  <2>4. QED
    BY <2>1, <2>2, <2>3
<1>6. field \in 1 .. c - 1 \/ field = c \/ field = c + 1
  BY <1>4, <1>5
<1>7. field \in 1 .. c - 1 => field < c
  BY <1>5
<1>8. \/ field < c /\ at \in {"VPtr", "OPtr", "Called"}
      \/ field = c /\ at = "Calling"
      \/ field = c + 1 /\ at = "Content"
  BY <1>4, <1>5, <1>6, <1>7
<1>9. QED
  BY <1>3, <1>5, <1>8

LEMMA CallHeaders == CallInv /\ IInv' /\ HeaderStep => CallInv'
<1> SUFFICES ASSUME CallInv, IInv', HeaderStep, Cardinality(Addresses)' = 2
             PROVE  \E m, c, a, b : Calls(m, c, a, b)' /\ (OnWay(m)' \/ NumberGot(m, c)' \/ Handed')
  BY DEF CallInv, Calling
<1>1. /\ IInv /\ packet' = packet /\ at \in HeaderKinds \cup {"Param"} /\ at \notin FieldKinds
  BY HeaderSteps DEF CallInv
<1>2. Cardinality(Addresses) = 2
  BY <1>1, CallsKept
<1>3. PICK m, c, a, b : Calls(m, c, a, b) /\ (OnWay(m) \/ NumberGot(m, c) \/ Handed)
  BY <1>2 DEF CallInv, Calling
<1>4. Calls(m, c, a, b)'
  BY <1>1, <1>3, CallsKept
<1>5. OnWay(m)
  <2>1. at \in Early
    BY <1>1 DEF Early
  <2>2. ~NumberGot(m, c) /\ ~Handed
    BY <1>1, <2>1, LateStates DEF NumberGot, Handed
  <2>3. QED
    BY <1>3, <2>2
<1>6. OnWay(m)' \/ (Here = Start(m) /\ messageType)
  BY <1>1, <1>3, <1>5, HeaderGoesOn DEF Calls
<1>7. CASE Here = Start(m) /\ messageType
  <2>1. at' \in FieldKinds /\ field' = 1 /\ base' = Start(m)
    BY <1>1, <1>3, <1>7, TypeRead DEF Calls
  <2>2. ~(field' > c)
    <3>1. c \in 1 .. Len(PartsOf(m)) /\ Len(PartsOf(m)) \in Nat
      <4>1. HasFields(packet, m) /\ c \in 1 .. Len(PartsOf(m))
        BY <1>3 DEF Calls, MessageIn
      <4>2. QED
        BY <4>1, LayoutTypes DEF HasFields, PartsOf
    <3>2. QED
      BY <2>1, <3>1
  <2>3. NumberGot(m, c)'
    BY <1>1, <2>1, <2>2, CallsKept DEF NumberGot
  <2>4. QED
    BY <1>4, <2>3
<1>8. QED
  BY <1>4, <1>6, <1>7

(* Before the calling party's field the code goes on to the next one.      *)
LEMMA BeforeCalling ==
    ASSUME NEW m, NEW c, NEW a, NEW b, IInv, Calls(m, c, a, b), NEW i, FieldAt(m, i), c \in Nat,
           field < c, Len(PartsOf(m)) = c + 1, vParameterPtr \/ oParameterPtr \/ vParameter
    PROVE  at' \in FieldKinds /\ base' = base /\ ~(field' > c)
<1>1. /\ Read(Here, PartKind(at)) = {packet[i]} /\ Parts = PartsOf(m)
      /\ field \in 1 .. Len(PartsOf(m)) /\ HasFields(packet, m)
  BY FieldReads DEF FieldAt
<1>2. PICK n, optional : Past(n, optional)
  <2>1. CASE vParameterPtr
    <3>1. at = "VPtr" /\ PartKind(at) = "Ptr"
      BY <2>1 DEF vParameterPtr, PartKind, Lengthy
    <3>2. packet[i].len # 0
      <4>1. /\ m \in DOMAIN packet /\ i \in DOMAIN packet /\ PartsOf(m)[field] = "VPtr"
            /\ StartIn(packet, i) = Place(packet, m, field)
        BY <3>1 DEF FieldAt, Taken, TakenOf, Start
      <4>2. FieldLies(packet, m, field)
        BY <1>1, <4>1 DEF IInv, WellFormed, FieldLinks, PartsOf
      <4>3. QED
        BY <4>1, <4>2 DEF FieldLies, PartsOf
    <3>3. QED
      BY <1>1, <2>1, <3>1, <3>2 DEF vParameterPtr
  <2>2. CASE oParameterPtr
    BY <2>2 DEF oParameterPtr
  <2>3. CASE vParameter
    BY <2>3 DEF vParameter
  <2>4. QED
    BY <2>1, <2>2, <2>3
<1>3. PICK f \in Nat : f = field + 1 /\ f \in 1 .. Len(PartsOf(m)) /\ ~(f > c) /\ field < Len(PartsOf(m))
  BY <1>1
<1>4. at' = PartsOf(m)[f] /\ field' = f /\ base' = base
  BY <1>1, <1>2, <1>3 DEF Past
<1>5. PartsOf(m)[f] \in FieldKinds
  BY <1>1, <1>3, LayoutTypes DEF HasFields, PartsOf
<1>6. QED
  BY <1>3, <1>4, <1>5

LEMMA AtCalling ==
    ASSUME NEW m, NEW c, NEW a, NEW b, IInv, Calls(m, c, a, b), NEW i, FieldAt(m, i), c \in Nat,
           field = c, Len(PartsOf(m)) = c + 1, callingParty
    PROVE  at' \in FieldKinds /\ base' = base /\ (ssn' <=> CallingSsn)
<1>1. /\ Parts = PartsOf(m) /\ field \in 1 .. Len(PartsOf(m)) /\ HasFields(packet, m)
      /\ Here = Place(packet, m, c)
  BY FieldReads DEF FieldAt
<1>2. PICK n : Past(n, opt) /\ ssn' \in getSsn(Here + 1)
  BY DEF callingParty
<1>3. ssn' <=> CallingSsn
  <2>1. Here + 1 = Start(b)
    BY <1>1 DEF Calls
  <2>2. \A v \in getSsn(Here + 1) : v <=> CallingSsn
    BY <2>1, NumberRead
  <2>3. QED
    BY <1>2, <2>2
<1>4. PICK f \in Nat : f = field + 1 /\ f \in 1 .. Len(PartsOf(m)) /\ field < Len(PartsOf(m))
  BY <1>1
<1>5. at' = PartsOf(m)[f] /\ base' = base
  BY <1>1, <1>2, <1>4 DEF Past
<1>6. PartsOf(m)[f] \in FieldKinds
  BY <1>1, <1>4, LayoutTypes DEF HasFields, PartsOf
<1>7. QED
  BY <1>3, <1>5, <1>6

(* The content is TCAP with the number, and is passed over without.        *)
LEMMA AtContent ==
    ASSUME NEW m, NEW c, NEW i, IInv, FieldAt(m, i), c \in Nat,
           field = c + 1, Len(PartsOf(m)) = c + 1, ssn <=> CallingSsn, packet' = packet, content
    PROVE  Handed'
<1>1. Parts = PartsOf(m) /\ ~(field < Len(PartsOf(m)))
  BY FieldReads
<1>2. CallingSsn' <=> CallingSsn
  BY CallsKept
<1>3. CASE ssn /\ Got("Tcap", 1)
  BY <1>2, <1>3 DEF Got, Rebased, Handed
<1>4. CASE ~ssn /\ \E n : Past(n, opt)
  <2>1. at' \in {"Name", "returned", "dropped"}
    BY <1>1, <1>4 DEF Past, Outcome
  <2>2. QED
    BY <1>2, <1>4, <2>1 DEF Handed
<1>5. QED
  BY <1>3, <1>4 DEF content

LEMMA CallFieldStep == CallInv /\ IInv' /\ FieldStep => CallInv'
<1> SUFFICES ASSUME CallInv, IInv', FieldStep, Cardinality(Addresses)' = 2
             PROVE  \E m, c, a, b : Calls(m, c, a, b)' /\ (OnWay(m)' \/ NumberGot(m, c)' \/ Handed')
  BY DEF CallInv, Calling
<1>1. at \in FieldKinds
  BY DEF FieldStep, protocolClass, vParameterPtr, oParameterPtr, vParameter, callingParty, content,
         FieldKinds, Lengthy
<1>2. IInv /\ packet' = packet
  <2>1. PICK n, j : FieldAt(n, j)
    BY <1>1, FindField DEF CallInv
  <2>2. QED
    BY <2>1, FieldSteps DEF CallInv
<1>3. Cardinality(Addresses) = 2
  BY <1>2, CallsKept
<1>4. PICK m, c, a, b : Calls(m, c, a, b) /\ (OnWay(m) \/ NumberGot(m, c) \/ Handed)
  BY <1>3 DEF CallInv, Calling
<1>5. Calls(m, c, a, b)' /\ Start(m)' = Start(m) /\ (CallingSsn' <=> CallingSsn)
  BY <1>2, <1>4, CallsKept
<1>6. NumberGot(m, c)
  <2>1. ~OnWay(m)
    BY <1>1, OnWayEarly
  <2>2. ~Handed
    BY <1>1, LateStates DEF Handed
  <2>3. QED
    BY <1>4, <2>1, <2>2
<1>7. at \in FieldKinds /\ base = Start(m) /\ (field > c => (ssn <=> CallingSsn))
  BY <1>6 DEF NumberGot
<1>8. PICK i : /\ FieldAt(m, i)
               /\ Len(PartsOf(m)) = c + 1 /\ PartsOf(m)[c + 1] = "Content" /\ c \in Nat
               /\ \/ field < c /\ at \in {"VPtr", "OPtr", "Called"}
                  \/ field = c /\ at = "Calling"
                  \/ field = c + 1 /\ at = "Content"
  BY <1>2, <1>4, <1>7, CallFields
<1>9. CASE field < c /\ at \in {"VPtr", "OPtr", "Called"}
  <2>1. vParameterPtr \/ oParameterPtr \/ vParameter
    BY <1>9 DEF FieldStep, protocolClass, callingParty, content
  <2>2. at' \in FieldKinds /\ base' = base /\ ~(field' > c)
    BY <1>2, <1>4, <1>8, <1>9, <2>1, BeforeCalling
  <2>3. NumberGot(m, c)'
    BY <1>5, <1>7, <2>2 DEF NumberGot
  <2>4. QED
    BY <1>5, <2>3
<1>10. CASE field = c /\ at = "Calling"
  <2>1. callingParty
    BY <1>10 DEF FieldStep, protocolClass, vParameterPtr, oParameterPtr, vParameter, content
  <2>2. at' \in FieldKinds /\ base' = base /\ (ssn' <=> CallingSsn)
    BY <1>2, <1>4, <1>8, <1>10, <2>1, AtCalling
  <2>3. NumberGot(m, c)'
    BY <1>5, <1>7, <2>2, Zenon DEF NumberGot
  <2>4. QED
    BY <1>5, <2>3
<1>11. CASE field = c + 1 /\ at = "Content"
  <2>1. content
    BY <1>11 DEF FieldStep, protocolClass, vParameterPtr, oParameterPtr, vParameter, callingParty
  <2>2. ssn <=> CallingSsn
    <3>1. field > c
      BY <1>8, <1>11
    <3>2. QED
      BY <1>7, <3>1
  <2>3. Handed'
    BY <1>2, <1>8, <1>11, <2>1, <2>2, AtContent
  <2>4. QED
    BY <1>5, <2>3
<1>12. QED
  BY <1>8, <1>9, <1>10, <1>11

(* The parameters' steps, and no step, leave what has been come to.        *)
LEMMA CallRest == CallInv /\ IInv' /\ (optionalName \/ optionalLength \/ UNCHANGED vars) => CallInv'
<1> SUFFICES ASSUME CallInv, IInv', optionalName \/ optionalLength \/ UNCHANGED vars,
                    Cardinality(Addresses)' = 2
             PROVE  \E m, c, a, b : Calls(m, c, a, b)' /\ (OnWay(m)' \/ NumberGot(m, c)' \/ Handed')
  BY DEF CallInv, Calling
<1>1. packet' = packet
  BY DEF optionalName, optionalLength, vars
<1>2. Cardinality(Addresses) = 2
  BY <1>1, CallsKept
<1>3. PICK m, c, a, b : Calls(m, c, a, b) /\ (OnWay(m) \/ NumberGot(m, c) \/ Handed)
  BY <1>2 DEF CallInv, Calling
<1>4. Calls(m, c, a, b)' /\ Start(m)' = Start(m) /\ (CallingSsn' <=> CallingSsn)
  BY <1>1, <1>3, CallsKept
<1>5. CASE UNCHANGED vars
  <2>1. /\ at' = at /\ base' = base /\ off' = off /\ field' = field /\ (ssn' <=> ssn)
        /\ Here' = Here
    BY <1>5 DEF vars, Here
  <2>2. OnWay(m) => OnWay(m)'
    BY <1>1, <2>1 DEF OnWay, Start
  <2>3. NumberGot(m, c) => NumberGot(m, c)'
    BY <1>4, <2>1, Zenon DEF NumberGot
  <2>4. Handed => Handed'
    BY <1>4, <2>1 DEF Handed
  <2>5. QED
    BY <1>3, <1>4, <2>2, <2>3, <2>4
<1>6. CASE optionalName \/ optionalLength
  <2>1. at \in {"Name", "OLength"} /\ at' \in {"Name", "OLength", "dropped"}
    BY <1>6 DEF optionalName, optionalLength
  <2>2. ~OnWay(m)
    BY <2>1, OnWayEarly, LateStates
  <2>3. ~NumberGot(m, c)
    BY <2>1, LateStates DEF NumberGot
  <2>4. Handed
    BY <1>3, <2>2, <2>3
  <2>5. Handed'
    BY <1>4, <2>1, <2>4 DEF Handed
  <2>6. QED
    BY <1>4, <2>5
<1>7. QED
  BY <1>5, <1>6

LEMMA CallStep == CallInv /\ [Next]_vars => CallInv'
<1> SUFFICES ASSUME CallInv, [Next]_vars PROVE CallInv'
  OBVIOUS
<1>1. IInv'
  BY EveryStep DEF CallInv
<1>2. HeaderStep \/ FieldStep \/ optionalName \/ optionalLength \/ UNCHANGED vars
  BY DEF Next, Step, Ended, HeaderStep, FieldStep
<1>3. QED
  BY <1>1, <1>2, CallHeaders, CallFieldStep, CallRest

(* TCAP is handed on exactly when the calling party of a unitdata message  *)
(* that lies open has a subsystem number, with or without a point code,    *)
(* whatever lies below the message and however its parties are addressed.  *)
THEOREM TcapFound ==
    ASSUME \A p \in Packets : WellFormed(p) /\ PartiesOpen(p)
    PROVE  Spec => []TcapIsData
<1>1. Init => CallInv
  <2> SUFFICES ASSUME Init, Cardinality(Addresses) = 2
               PROVE  IInv /\ \E m, c, a, b : Calls(m, c, a, b) /\ OnWay(m)
    BY Starting DEF CallInv, Calling
  <2>1. IInv /\ PartiesOpen(packet)
    BY Starting DEF Init
  <2>2. PICK m \in DOMAIN packet : MessageIn(packet, m) /\ LiesOpen(packet, m) /\ Parties(packet, m)
    BY <2>1 DEF PartiesOpen, Addresses
  <2>3. OnWay(m)
    BY <2>1, <2>2, WayBegins DEF Goal
  <2>4. DOMAIN Layouts[packet[m].says].parts = 1 .. Len(PartsOf(m))
    BY <2>2, LayoutDomain DEF MessageIn, HasFields, PartsOf
  <2>5. \E c, a, b : Calls(m, c, a, b)
    BY <2>2, <2>4 DEF Parties, Calls, PartsOf, Addresses, AddressesIn, TakenOf, Start
  <2>6. QED
    BY <2>1, <2>3, <2>5
<1>2. CallInv => TcapIsData
  <2> SUFFICES ASSUME CallInv, at \in Ends, Cardinality(Addresses) = 2
               PROVE  at = "Tcap" <=> CallingSsn
    BY DEF TcapIsData
  <2>1. PICK m, c, a, b : Calls(m, c, a, b) /\ (OnWay(m) \/ NumberGot(m, c) \/ Handed)
    BY DEF CallInv, Calling
  <2>2. ~OnWay(m)
    BY DEF OnWay, Openers, Ends
  <2>3. ~NumberGot(m, c)
    BY DEF NumberGot, FieldKinds, Lengthy, Ends
  <2>4. Handed
    BY <2>1, <2>2, <2>3
  <2>5. QED
    BY <2>4 DEF Handed
<1>3. QED
  BY <1>1, <1>2, CallStep, PTL DEF Spec
==============================================================================
