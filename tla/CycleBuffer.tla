----------------------------- MODULE CycleBuffer -----------------------------
(***************************************************************************)
(* lib/libshared/CycleBuffer.h: the ring of length-prefixed messages that  *)
(* a shared-memory channel is made of.  A message of n bytes is a two-byte *)
(* header holding n, then its bytes; neither is ever split by the end of   *)
(* the segment (RingLayout says where they go).                            *)
(*                                                                         *)
(* Here every call is one step: one process uses the ring.  The module     *)
(* SharedRing takes the calls apart for a producer and its consumers.      *)
(*                                                                         *)
(* `pending' is the only variable with no counterpart in the code: for     *)
(* every message accepted and not yet read, where its record begins and    *)
(* what it was.                                                            *)
(***************************************************************************)
EXTENDS RingLayout, Sequences, SequencesExt

CONSTANTS Byte,      \* the values of a byte of a message
          Messages   \* the messages that are pushed

ASSUME MessagesAssumption ==
    \A m \in Messages : m \in Seq(Byte) /\ Len(m) <= MaxLen

VARIABLES head,     \* _desc->head: where the next record will begin
          tail,     \* _desc->tail: where the oldest record begins
          mem,      \* _buffer
          pending,  \* the records between tail and head, oldest first
          result    \* what the last call returned

vars == <<head, tail, mem, pending, result>>

------------------------------------------------------------------------------
(* Mutants of the tests below: a record may end at tail itself; or so may  *)
(* one that wraps; a record is refused wherever it would wrap over tail,   *)
(* though it does not wrap; a record without bytes is not seen.            *)
NoRoomBeforeTail(h, t, n) == \/ t <= h /\ h + 2 + n >= Size /\ t <= n + 2
                             \/ t > h /\ h + 2 + n > t
NoRoomAtStart(h, t, n) == \/ t <= h /\ h + 2 + n >= Size /\ t < n + 2
                          \/ t > h /\ h + 2 + n >= t
NoRoomEager(h, t, n) == \/ t <= h /\ (h + 2 + n >= Size \/ t <= n + 2)
                        \/ t > h /\ h + 2 + n >= t
NoRecordShort(h, t) == t <= h /\ t + 2 >= h

(* The test at the top of write1 and the one at the top of read1.          *)
NoRoom(h, t, n) == \/ t <= h /\ h + 2 + n >= Size /\ t <= n + 2
                   \/ t > h /\ h + 2 + n >= t
NoRecord(h, t) == t <= h /\ t + 2 > h

(* The segment after the record of m has been written at p.                *)
WithRecord(memory, p, m) ==
    [a \in Offsets |->
        IF a \in DataPos(p, Len(m)) .. (EndPos(p, Len(m)) - 1)
            THEN m[a - DataPos(p, Len(m)) + 1]
        ELSE IF a = HeaderPos(p) THEN HeaderByte(1, Len(m))
        ELSE IF a = HeaderPos(p) + 1 THEN HeaderByte(2, Len(m))
        ELSE memory[a]]

------------------------------------------------------------------------------
Queue == INSTANCE MessageQueue WITH
             SmallMessages <- {m \in Messages : 2 * (Len(m) + 2) < Size},
             queue <- [i \in DOMAIN pending |-> pending[i].msg]

Init == /\ head = 0
        /\ tail = 0
        /\ mem = [a \in Offsets |-> Blank]
        /\ pending = << >>
        /\ result = Queue!Cleared

Write1(m) ==
    /\ ~NoRoom(head, tail, Len(m))
    /\ mem' = WithRecord(mem, head, m)
    /\ head' = EndPos(head, Len(m))
    /\ pending' = Append(pending, [pos |-> head, msg |-> m])
    /\ result' = Queue!Accepted
    /\ UNCHANGED tail

Write1Refused(m) ==
    /\ NoRoom(head, tail, Len(m))
    /\ result' = Queue!Refused
    /\ UNCHANGED <<head, tail, mem, pending>>

Read1 ==
    /\ ~NoRecord(head, tail)
    /\ \E n \in HeaderValues(mem, HeaderPos(tail)) :
          /\ tail' = EndPos(tail, n)
          /\ result' = Queue!Got([i \in 1 .. n |-> mem[DataPos(tail, n) + i - 1]])
    /\ pending' = IF pending = << >> THEN << >> ELSE Tail(pending)
    /\ UNCHANGED <<head, mem>>

Read1Nothing ==
    /\ NoRecord(head, tail)
    /\ result' = Queue!Nothing
    /\ UNCHANGED <<head, tail, mem, pending>>

Clear ==
    /\ head' = 0
    /\ tail' = 0
    /\ pending' = << >>
    /\ result' = Queue!Cleared
    /\ UNCHANGED mem

Next == \/ \E m \in Messages : Write1(m) \/ Write1Refused(m)
        \/ Read1
        \/ Read1Nothing
        \/ Clear

Spec == Init /\ [][Next]_vars

------------------------------------------------------------------------------
(* length(): the bytes between tail and head.                              *)
Length == IF head >= tail THEN head - tail ELSE Size - tail + head

(* Where the record after the i-th pending one begins.                     *)
PosAfter(i) == IF i = Len(pending) THEN head ELSE pending[i + 1].pos

------------------------------------------------------------------------------
(* The shape of the state.                                                 *)
TypeOK == /\ head \in Offsets
          /\ tail \in Offsets
          /\ mem \in [Offsets -> Byte \cup HeaderBytes \cup {Blank}]
          /\ pending \in Seq([pos : Offsets, msg : Messages])

(* The ring is a chain: the oldest record begins at tail, each record's    *)
(* successor begins where its own length says it ends, the last one ends   *)
(* at head, and each lies wholly between tail and head, behind the next.   *)
Chain == /\ IF pending = << >> THEN tail = head ELSE pending[1].pos = tail
         /\ \A i \in DOMAIN pending :
               LET p == pending[i].pos
                   n == Len(pending[i].msg)
               IN  /\ EndPos(p, n) = PosAfter(i)
                   /\ Ahead(tail, p) < Ahead(tail, PosAfter(i))
                   /\ Footprint(p, n) \subseteq Used(head, tail)
         /\ NoRecord(head, tail) <=> pending = << >>
         /\ Length = 0 <=> pending = << >>

(* Every record accepted and not read is still in memory, header and       *)
(* bytes: writes never land on what the reader has not released.           *)
Intact == \A i \in DOMAIN pending :
             LET p == pending[i].pos
                 m == pending[i].msg
             IN  /\ HeaderIs(mem, HeaderPos(p), Len(m))
                 /\ \A k \in 1 .. Len(m) : mem[DataPos(p, Len(m)) + k - 1] = m[k]

(* A message is refused only for want of room: the bytes waiting, the      *)
(* widest of them once more (what is lost where a record wrapped) and      *)
(* twice the refused record fill the ring.  `static_cast<int>(tail) <=     *)
(* len + 2' asks for more room than the record needs, but no more.         *)
Waiting == LET bytes[i \in 0 .. Len(pending)] ==
                   IF i = 0 THEN 0 ELSE bytes[i - 1] + Len(pending[i].msg) + 2
           IN  bytes[Len(pending)]
Widest == Max({Len(pending[i].msg) : i \in DOMAIN pending} \cup {1})
RefusalMeansBacklog ==
    \A m \in Messages :
        NoRoom(head, tail, Len(m)) =>
            Waiting + Widest + 2 * (Len(m) + 2) >= Size

(* First in, first out: every call returns what a queue of messages would  *)
(* return, a refusal included.                                             *)
IsQueue == Queue!QSpec
==============================================================================
