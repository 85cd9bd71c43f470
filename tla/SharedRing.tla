----------------------------- MODULE SharedRing -----------------------------
(***************************************************************************)
(* The ring of lib/libshared/CycleBuffer.h between processes: the server   *)
(* pushes packets (SharedServer::send, SharedCircularBuffer::push), a      *)
(* client pops them and handles each in place, through the pointer pop     *)
(* returned (app/example.cpp).  There is no lock: the volatile indexes are *)
(* all the two sides share, and every test of write1 and read1 loads them  *)
(* anew.                                                                   *)
(*                                                                         *)
(* A step makes at most one access to memory the other side writes.  In    *)
(* particular the tests of write1 load tail up to four times, and read1    *)
(* loads head twice.  Stores become visible in program order.              *)
(***************************************************************************)
EXTENDS RingLayout, Sequences, FiniteSetsExt

CONSTANTS Consumers,  \* threads that pop: the client should have one
          MaxMsgs,    \* bound of the model: messages accepted in a behaviour
          Backlog,    \* bound on the producer: bytes of records outstanding
          LateAttach  \* may the server push before the client has attached? (a set
                      \* of answers, one of which holds in a behaviour)

ASSUME BacklogAssumption == Backlog \in Nat /\ MaxMsgs \in Nat
ASSUME AttachAssumption == LateAttach \subseteq BOOLEAN

VARIABLES head, tail,  \* _desc->head, _desc->tail
          mem,         \* _buffer
          late,        \* the answer of LateAttach
          client,      \* the client's SharedCircularBuffer: "away", "clearing", "attached"
          w,           \* write1 in the producer: [pc, start, pos, msg, done]
          r,           \* read1 and the handler in each consumer: [pc, pos, len, rec, got]
          sent,        \* messages accepted so far
          pending,     \* records between tail and head: [pos, msg]
          handled      \* what each consumer last handled: [rec, got]

vars == <<head, tail, mem, client, w, r, sent, pending, handled, late>>

(* A message is its number and its length; its k-th byte is like no other. *)
Msg(i, n) == [id |-> i, len |-> n]
MsgByte(m, k) == [of |-> m.id, k |-> k]
NoMsg == Msg(0, 0)
BytesOf(m) == [k \in 1 .. m.len |-> MsgByte(m, k)]

At(a) == IF a \in Offsets THEN mem[a] ELSE Blank
LengthsAt(p) == IF p + 1 \in Offsets THEN HeaderValues(mem, p) ELSE Lengths

WriterIdle == [pc |-> "idle", start |-> 0, pos |-> 0, msg |-> NoMsg, done |-> 0]
ReaderIdle == [pc |-> "idle", pos |-> 0, len |-> 0, rec |-> NoMsg, got |-> << >>]

Init == /\ head = 0
        /\ tail = 0
        /\ mem = [a \in Offsets |-> Blank]
        /\ late \in LateAttach
        /\ client = "away"
        /\ w = WriterIdle
        /\ r = [c \in Consumers |-> ReaderIdle]
        /\ sent = 0
        /\ pending = << >>
        /\ handled = [c \in Consumers |-> [rec |-> NoMsg, got |-> << >>]]

------------------------------------------------------------------------------
(* write1, in the thread that pushes.                                      *)

(* Bytes between tail and head, and those of records in a handler's hands. *)
Outstanding == (IF head >= tail THEN head - tail ELSE Size - tail + head)
               + MapThenSumSet(LAMBDA c : r[c].len + 2, {c \in Consumers : r[c].pc = "handle"})

(* push(data, n): `size_t pos = _desc->head + 2'.                          *)
Push(n) == /\ w.pc = "idle"
           /\ sent < MaxMsgs
           /\ Outstanding + n + 2 <= Backlog
           /\ late \/ client = "attached"
           /\ w' = [pc |-> "test1", start |-> head, pos |-> head + 2, msg |-> Msg(sent + 1, n), done |-> 0]
           /\ UNCHANGED <<head, tail, mem, client, r, sent, pending, handled, late>>

(* The four loads of tail in the test of write1, in evaluation order.      *)
WriterTest(pc, next) == /\ w.pc = pc
                        /\ w' = IF next = "refused" THEN WriterIdle ELSE [w EXCEPT !.pc = next]
                        /\ UNCHANGED <<head, tail, mem, client, r, sent, pending, handled, late>>

TestBehind == WriterTest("test1", IF tail <= head /\ w.pos + w.msg.len >= Size
                                  THEN "test2" ELSE "test3")
TestStart == WriterTest("test2", IF tail <= w.msg.len + 2 THEN "refused" ELSE "test3")
TestAhead == WriterTest("test3", IF tail > head THEN "test4" ELSE "header")
TestGap == WriterTest("test4", IF w.pos + w.msg.len >= tail THEN "refused" ELSE "header")

StoreHeader ==
    LET at == IF head = Size - 1 THEN 0 ELSE w.pos - 2
    IN  /\ w.pc = "header"
        /\ mem' = [mem EXCEPT ![at] = HeaderByte(1, w.msg.len),
                              ![at + 1] = HeaderByte(2, w.msg.len)]
        /\ w' = [w EXCEPT !.pc = "copy",
                          !.pos = IF head = Size - 1 THEN 2
                                  ELSE IF w.pos + w.msg.len >= Size THEN 0 ELSE w.pos]
        /\ UNCHANGED <<head, tail, client, r, sent, pending, handled, late>>

CopyByte ==
    /\ w.pc = "copy"
    /\ w.done < w.msg.len
    /\ mem' = [mem EXCEPT ![w.pos + w.done] = MsgByte(w.msg, w.done + 1)]
    /\ w' = [w EXCEPT !.done = @ + 1]
    /\ UNCHANGED <<head, tail, client, r, sent, pending, handled, late>>

PublishEarly ==    \* a mutant: head is moved before the bytes are copied
    /\ w.pc = "copy"
    /\ head' = w.pos + w.msg.len
    /\ w' = WriterIdle
    /\ sent' = sent + 1
    /\ pending' = Append(pending, [pos |-> w.start, msg |-> w.msg])
    /\ UNCHANGED <<tail, mem, client, r, handled, late>>

Publish ==
    /\ w.pc = "copy"
    /\ w.done = w.msg.len
    /\ head' = w.pos + w.msg.len
    /\ w' = WriterIdle
    /\ sent' = sent + 1
    /\ pending' = Append(pending, [pos |-> w.start, msg |-> w.msg])
    /\ UNCHANGED <<tail, mem, client, r, handled, late>>

Producer == \/ \E n \in Lengths \ {0} : Push(n)
            \/ TestBehind \/ TestStart \/ TestAhead \/ TestGap
            \/ StoreHeader \/ CopyByte \/ Publish

------------------------------------------------------------------------------
(* read1 in consumer c, and the handler that follows it.                   *)

Pop(c) == /\ client = "attached"
          /\ r[c].pc = "idle"
          /\ r' = [r EXCEPT ![c] = [ReaderIdle EXCEPT !.pc = "test1", !.pos = tail + 2]]
          /\ UNCHANGED <<head, tail, mem, client, w, sent, pending, handled, late>>

PopTestBehind(c) ==
    /\ r[c].pc = "test1"
    /\ r' = [r EXCEPT ![c].pc = IF tail <= head THEN "test2" ELSE "length"]
    /\ UNCHANGED <<head, tail, mem, client, w, sent, pending, handled, late>>

(* Two mutants: the test is off by the size of a header, either way.       *)
PopTestEmptyLate(c) ==
    /\ r[c].pc = "test2"
    /\ r' = [r EXCEPT ![c] = IF @.pos > head + 2 THEN ReaderIdle ELSE [@ EXCEPT !.pc = "length"]]
    /\ UNCHANGED <<head, tail, mem, client, w, sent, pending, handled, late>>

PopTestEmptyEarly(c) ==
    /\ r[c].pc = "test2"
    /\ r' = [r EXCEPT ![c] = IF @.pos + 2 > head THEN ReaderIdle ELSE [@ EXCEPT !.pc = "length"]]
    /\ UNCHANGED <<head, tail, mem, client, w, sent, pending, handled, late>>

(* Nothing to read: nullptr, and the thread sleeps and calls again.        *)
PopTestEmpty(c) ==
    /\ r[c].pc = "test2"
    /\ r' = [r EXCEPT ![c] = IF @.pos > head THEN ReaderIdle ELSE [@ EXCEPT !.pc = "length"]]
    /\ UNCHANGED <<head, tail, mem, client, w, sent, pending, handled, late>>

ReadLengthPastEnd(c) ==    \* a mutant: `>' for `>='
    /\ r[c].pc = "length"
    /\ IF tail = Size - 1
       THEN \E n \in LengthsAt(0) :
               r' = [r EXCEPT ![c].pc = "release", ![c].len = n, ![c].pos = 2]
       ELSE \E n \in LengthsAt(r[c].pos - 2) :
               r' = [r EXCEPT ![c].pc = "release", ![c].len = n,
                              ![c].pos = IF @ + n > Size THEN 0 ELSE @]
    /\ UNCHANGED <<head, tail, mem, client, w, sent, pending, handled, late>>

ReadLength(c) ==
    /\ r[c].pc = "length"
    /\ IF tail = Size - 1
       THEN \E n \in LengthsAt(0) :
               r' = [r EXCEPT ![c].pc = "release", ![c].len = n, ![c].pos = 2]
       ELSE \E n \in LengthsAt(r[c].pos - 2) :
               r' = [r EXCEPT ![c].pc = "release", ![c].len = n,
                              ![c].pos = IF @ + n >= Size THEN 0 ELSE @]
    /\ UNCHANGED <<head, tail, mem, client, w, sent, pending, handled, late>>

(* tail moves past the record: from here on the producer may reuse it,     *)
(* though the pointer to its bytes is only now returned to the handler.    *)
Release(c) ==
    /\ r[c].pc = "release"
    /\ tail' = r[c].pos + r[c].len
    /\ r' = [r EXCEPT ![c].pc = "handle",
                      ![c].rec = IF pending = << >> THEN NoMsg ELSE Head(pending).msg]
    /\ pending' = IF pending = << >> THEN << >> ELSE Tail(pending)
    /\ UNCHANGED <<head, mem, client, w, sent, handled, late>>

HandleByte(c) ==
    /\ r[c].pc = "handle"
    /\ Len(r[c].got) < r[c].len
    /\ r' = [r EXCEPT ![c].got = Append(@, At(r[c].pos + Len(@)))]
    /\ UNCHANGED <<head, tail, mem, client, w, sent, pending, handled, late>>

Handled(c) ==
    /\ r[c].pc = "handle"
    /\ Len(r[c].got) = r[c].len
    /\ handled' = [handled EXCEPT ![c] = [rec |-> r[c].rec, got |-> r[c].got]]
    /\ r' = [r EXCEPT ![c] = ReaderIdle]
    /\ UNCHANGED <<head, tail, mem, client, w, sent, pending, late>>

Consumer(c) == \/ Pop(c) \/ PopTestBehind(c) \/ PopTestEmpty(c)
               \/ ReadLength(c) \/ Release(c)
               \/ HandleByte(c) \/ Handled(c)

------------------------------------------------------------------------------
(* The client opens the segment (app/example.cpp:70): the constructor of   *)
(* SharedCircularBuffer clears the ring, also when it did not create it.   *)
ClearHead == /\ client = "away"
             /\ client' = "clearing"
             /\ head' = 0
             /\ UNCHANGED <<tail, mem, w, r, sent, pending, handled, late>>

ClearTail == /\ client = "clearing"
             /\ client' = "attached"
             /\ tail' = 0
             /\ pending' = << >>
             /\ UNCHANGED <<head, mem, w, r, sent, handled, late>>

Attach == ClearHead \/ ClearTail

Next == Producer \/ Attach \/ \E c \in Consumers : Consumer(c)

Spec == Init /\ [][Next]_vars

(* Both sides run in loops of their own threads.                           *)
FairSpec == Spec /\ WF_vars(Attach) /\ WF_vars(Producer) /\ \A c \in Consumers : WF_vars(Consumer(c))

------------------------------------------------------------------------------
TypeOK == /\ head \in Offsets /\ tail \in Offsets
          /\ DOMAIN mem = Offsets
          /\ client \in {"away", "clearing", "attached"}
          /\ w.pc \in {"idle", "test1", "test2", "test3", "test4", "header", "copy"}
          /\ \A c \in Consumers :
                /\ r[c].pc \in {"idle", "test1", "test2", "length", "release", "handle"}
                /\ r[c].len \in Lengths
          /\ sent \in 0 .. MaxMsgs
          /\ Len(pending) <= sent

(* A record between tail and head is complete in memory, header and bytes. *)
Complete(rec) == /\ HeaderIs(mem, HeaderPos(rec.pos), rec.msg.len)
                 /\ \A k \in 1 .. rec.msg.len :
                       mem[DataPos(rec.pos, rec.msg.len) + k - 1] = MsgByte(rec.msg, k)

(* A client may attach, and so clear the ring, while the server pushes:    *)
(* then messages may be missed, but what is handled is still a message,    *)
(* and one that was not handled before.                                    *)

(* `if len is written (seen by tail) this means data is completely written *)
(* too' (CycleBuffer.h:102): what read1 finds at tail is whole.            *)
SeenMeansComplete == ~late => \A i \in DOMAIN pending : Complete(pending[i])

(* The bytes a handler went through are those of the message that was      *)
(* popped for it: what the checksum in app/example.cpp is there to see.    *)
(* After a late attach they are the whole of some message: the checksum    *)
(* does not tell one message from another.                                 *)
HandledIntact ==
    \A c \in Consumers :
        IF late THEN \E i \in 0 .. MaxMsgs, n \in Lengths : handled[c].got = BytesOf(Msg(i, n))
        ELSE handled[c].got = BytesOf(handled[c].rec)

(* Every message is handed over once, in the order of the pushes; after a  *)
(* late attach some may be left out, none comes again.                     *)
InOrder == [][\A c \in Consumers :
                 handled'[c] # handled[c] =>
                    IF late
                    THEN handled[c].got # << >> => handled'[c].got[1].of > handled[c].got[1].of
                    ELSE handled'[c].rec.id = handled[c].rec.id + 1]_vars

(* Whatever was accepted is handled, although a pop may answer "nothing"   *)
(* while head wraps under it.                                              *)
EventuallyHandled ==
    \A i \in 1 .. MaxMsgs :
        sent >= i /\ ~late ~> \E c \in Consumers : handled[c].rec.id >= i
==============================================================================
