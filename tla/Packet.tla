-------------------------------- MODULE Packet --------------------------------
(***************************************************************************)
(* src/core/Packet.h and lib/libstack/PacketPtr.h, HeaderIf.h: packets that *)
(* count their owners and hang on each other in chains, and the handles     *)
(* that own them.  A handle is a window on the bytes of its packet: a Pkt   *)
(* ("ptr") keeps it in the packet, where all Pkts see it, a PktOffset       *)
(* ("off") keeps where it begins for itself.  Layers of headers are put on  *)
(* a handle and turned into a window behind them (push, rebase).            *)
(*                                                                         *)
(* A handle <<t, i>> belongs to thread t; the handles of a packet may be    *)
(* in several threads.  free() takes a step for each access to a packet,    *)
(* and so does whoever sets its window: the length first, then the offset.  *)
(***************************************************************************)
EXTENDS Integers, Sequences, SequencesExt, FiniteSetsExt

CONSTANTS Packets, Threads,
          HandlesOf,    \* bound: how many handles each thread has
          Bytes,        \* length of a packet
          Sizes,        \* sizes of headers
          MaxLayers,    \* bound: headers put on a handle before it is pushed
          Careful,      \* do users keep to the rules that shared windows need?
          None

Word == 65536           \* a length is a uint16_t

ASSUME PacketAssumption == /\ Bytes \in 0 .. Word - 1 /\ HandlesOf \in [Threads -> Nat]
                           /\ Sizes \subseteq Nat \ {0}
                           /\ Careful \in BOOLEAN
                           /\ IsFiniteSet(Packets) /\ IsFiniteSet(Threads)
                           /\ None \notin Packets

Handles == UNION {{t} \X (1 .. HandlesOf[t]) : t \in Threads}

VARIABLES
    mem,     \* per packet: "none", "live" or "freed"
    refcnt, next,
    length, offset,  \* Packet::length, Packet::offset (from the first byte on)
    handle,  \* per handle: [pkt, kind, offset, sizes]
    stack,   \* per thread: the calls of free and addPacket it is in
    setting  \* per thread: the packet whose length it has stored, and the
             \* offset that it is still to store there

vars == <<mem, refcnt, next, length, offset, handle, stack, setting>>

Nothing == [pkt |-> None, offset |-> 0]
Settled(p) == \A t \in Threads : setting[t].pkt # p

Empty == [pkt |-> None, kind |-> "ptr", offset |-> 0, sizes |-> << >>]
Held(p) == {h \in Handles : handle[h].pkt = p}

Init == /\ mem = [p \in Packets |-> "none"]
        /\ refcnt = [p \in Packets |-> 0]
        /\ next = [p \in Packets |-> None]
        /\ length = [p \in Packets |-> 0]
        /\ offset = [p \in Packets |-> 0]
        /\ handle = [h \in Handles |-> Empty]
        /\ stack = [t \in Threads |-> << >>]
        /\ setting = [t \in Threads |-> Nothing]

(* The thread of handle h is not inside a call, and h has a packet or not. *)
Ready(h) == stack[h[1]] = << >> /\ setting[h[1]].pkt = None
Using(h) == Ready(h) /\ handle[h].pkt # None
Unused(h) == Ready(h) /\ handle[h].pkt = None

------------------------------------------------------------------------------
(* The window of a handle, getOffset and getLength, and its headers.       *)
OffsetOf(h) == IF handle[h].kind = "ptr" THEN offset[handle[h].pkt] ELSE handle[h].offset
LengthOf(h) == IF handle[h].kind = "ptr" THEN length[handle[h].pkt]
               ELSE (length[handle[h].pkt] - (handle[h].offset - offset[handle[h].pkt])) % Word
FullSize(sizes) == LET sum[n \in 0 .. Len(sizes)] == IF n = 0 THEN 0 ELSE sum[n - 1] + sizes[n]
                   IN  sum[Len(sizes)]

(* allocPacket, and the handle the packet is given to.                     *)
Alloc(h, p) == /\ Unused(h)
               /\ mem[p] = "none"
               /\ mem' = [mem EXCEPT ![p] = "live"]
               /\ refcnt' = [refcnt EXCEPT ![p] = 1]
               /\ next' = [next EXCEPT ![p] = None]
               /\ length' = [length EXCEPT ![p] = Bytes]
               /\ offset' = [offset EXCEPT ![p] = 0]
               /\ handle' = [handle EXCEPT ![h] = [Empty EXCEPT !.pkt = p]]
               /\ UNCHANGED <<stack, setting>>

(* Pkts of one packet share its window.  Careful users set it, or put a    *)
(* header on a handle, only while nobody is setting it; they put headers   *)
(* on one Pkt at a time, and clone one only while the window is the whole. *)
MaySet(h) == ~Careful \/ handle[h].kind = "off" \/ Settled(handle[h].pkt)
MayPut(h) == \/ ~Careful
             \/ /\ Settled(handle[h].pkt)
                /\ \/ handle[h].kind = "off"
                   \/ \A g \in Held(handle[h].pkt) \ {h} : handle[g].kind = "off" \/ handle[g].sizes = << >>
MayClone(h) == ~Careful \/ (Settled(handle[h].pkt) /\ offset[handle[h].pkt] = 0)

(* makeEth, makeIp4, ...: one more header, of those the packet has room    *)
(* for.                                                                    *)
Make(h, s) == /\ Using(h)
              /\ Len(handle[h].sizes) < MaxLayers
              /\ MayPut(h)
              /\ FullSize(handle[h].sizes) + s <= LengthOf(h)
              /\ handle' = [handle EXCEPT ![h].sizes = Append(@, s)]
              /\ UNCHANGED <<mem, refcnt, next, length, offset, stack, setting>>

(* PacketPtr::PacketPtr(ptr, length, offset) stores the length ...         *)
SetLength(t, p, len, off) == /\ length' = [length EXCEPT ![p] = len]
                             /\ setting' = [setting EXCEPT ![t] = [pkt |-> p, offset |-> off]]
(* ... and then the offset.                                                *)
SetOffset(t) == /\ setting[t].pkt # None
                /\ offset' = [offset EXCEPT ![setting[t].pkt] = setting[t].offset]
                /\ setting' = [setting EXCEPT ![t] = Nothing]
                /\ UNCHANGED <<mem, refcnt, next, length, handle, stack>>

(* A mutant: a PktOffset shortens the packet as a Pkt does.                *)
BehindShortened(h, n) ==
    LET p == handle[h].pkt
    IN  /\ IF handle[h].kind = "ptr"
           THEN /\ SetLength(h[1], p, length[p] - n, offset[p] + n)
                /\ handle' = [handle EXCEPT ![h].sizes = << >>]
           ELSE /\ handle' = [handle EXCEPT ![h].sizes = << >>, ![h].offset = @ + n]
                /\ length' = [length EXCEPT ![p] = @ - n]
                /\ UNCHANGED setting
        /\ UNCHANGED offset

(* The window behind the first n bytes: the constructors of BaseType.  A   *)
(* PktOffset has where it begins for itself and leaves the length alone.   *)
Behind(h, n) ==
    LET p == handle[h].pkt
    IN  /\ IF handle[h].kind = "ptr"
           THEN /\ SetLength(h[1], p, length[p] - n, offset[p] + n)
                /\ handle' = [handle EXCEPT ![h].sizes = << >>]
           ELSE /\ handle' = [handle EXCEPT ![h].sizes = << >>, ![h].offset = @ + n]
                /\ UNCHANGED <<length, setting>>
        /\ UNCHANGED offset

Push(h) == /\ Using(h)
           /\ handle[h].sizes # << >>
           /\ MaySet(h)
           /\ Behind(h, FullSize(handle[h].sizes))
           /\ UNCHANGED <<mem, refcnt, next, stack>>

Rebase(h) == /\ Using(h)
             /\ handle[h].sizes # << >>
             /\ MaySet(h)
             /\ Behind(h, FullSize(Front(handle[h].sizes)))
             /\ UNCHANGED <<mem, refcnt, next, stack>>

(* PktOffset(Pkt&&).                                                       *)
ToOffset(h) == /\ Using(h)
               /\ handle[h].kind = "ptr"
               /\ handle' = [handle EXCEPT ![h].kind = "off", ![h].sizes = << >>,
                                           ![h].offset = offset[handle[h].pkt]]
               /\ UNCHANGED <<mem, refcnt, next, length, offset, stack, setting>>

(* A mutant: the new owner is not counted.                                 *)
CountedNot(p) == UNCHANGED refcnt
Counted(p) == refcnt' = [refcnt EXCEPT ![p] = @ + 1]

(* Pkt::clone: `Pkt(getLength(), ptr)', with the offset of a new packet.   *)
ClonePkt(h, g) == LET p == handle[h].pkt
                  IN  /\ Using(h) /\ handle[g].pkt = None
                      /\ handle[h].kind = "ptr"
                      /\ MayClone(h)
                      /\ Counted(p)
                      /\ SetLength(h[1], p, LengthOf(h), 0)
                      /\ handle' = [handle EXCEPT ![g] = [Empty EXCEPT !.pkt = p]]
                      /\ UNCHANGED <<mem, next, offset, stack>>

(* PktOffset::clone.                                                       *)
CloneOffset(h, g) == /\ Using(h) /\ handle[g].pkt = None
                     /\ handle[h].kind = "off"
                     /\ Counted(handle[h].pkt)
                     /\ handle' = [handle EXCEPT ![g] = [handle[h] EXCEPT !.sizes = << >>]]
                     /\ UNCHANGED <<mem, next, length, offset, stack, setting>>

------------------------------------------------------------------------------
(* The calls a thread is in, the innermost one last.                       *)
Frame(pc, p, q) == [pc |-> pc, pkt |-> p, add |-> q]
In(t, pc) == stack[t] # << >> /\ Last(stack[t]).pc = pc
Top(t) == Last(stack[t])
Goto(t, frame) == stack' = [stack EXCEPT ![t] = Append(Front(@), frame)]
Leave(t) == stack' = [stack EXCEPT ![t] = Front(@)]

(* The end of a handle: PacketDeleter calls free().                        *)
Drop(h) == /\ Using(h)
           /\ handle' = [handle EXCEPT ![h] = Empty]
           /\ stack' = [stack EXCEPT ![h[1]] = <<Frame("free", handle[h].pkt, None)>>]
           /\ UNCHANGED <<mem, refcnt, next, length, offset, setting>>

(* A mutant: off by one, the last but one owner frees the packet.          *)
FreeCountEarly(t) == LET p == Top(t).pkt
                     IN  /\ In(t, "free")
                         /\ refcnt' = [refcnt EXCEPT ![p] = @ - 1]
                         /\ IF refcnt[p] <= 2 THEN Goto(t, Frame("next", p, None)) ELSE Leave(t)
                         /\ UNCHANGED <<mem, next, length, offset, handle, setting>>

(* `if (--refcnt == 0)'.                                                   *)
FreeCount(t) == LET p == Top(t).pkt
                IN  /\ In(t, "free")
                    /\ refcnt' = [refcnt EXCEPT ![p] = @ - 1]
                    /\ IF refcnt[p] = 1 THEN Goto(t, Frame("next", p, None)) ELSE Leave(t)
                    /\ UNCHANGED <<mem, next, length, offset, handle, setting>>

(* A mutant: the rest of the chain is left alone.                          *)
FreeNextNot(t) == /\ In(t, "next")
                  /\ Goto(t, Frame("memory", Top(t).pkt, None))
                  /\ UNCHANGED <<mem, refcnt, next, length, offset, handle, setting>>

(* `if(next) next->free()'.                                                *)
FreeNext(t) == LET p == Top(t).pkt
               IN  /\ In(t, "next")
                   /\ stack' = [stack EXCEPT ![t] = Append(Front(@), Frame("memory", p, None)) \o
                                 (IF next[p] = None THEN << >> ELSE <<Frame("free", next[p], None)>>)]
                   /\ UNCHANGED <<mem, refcnt, next, length, offset, handle, setting>>

FreeMemory(t) == /\ In(t, "memory")
                 /\ mem' = [mem EXCEPT ![Top(t).pkt] = "freed"]
                 /\ Leave(t)
                 /\ UNCHANGED <<refcnt, next, length, offset, handle, setting>>

(* addPacket: the packet of g goes to the end of the chain of h.  Its      *)
(* callers keep to two rules: one thread at a time extends chains, and     *)
(* never one that the packet is in already.                                *)
Chain(p) == LET within[n \in Nat] == IF n = 0 THEN {p}
                                     ELSE within[n - 1] \cup ({next[q] : q \in within[n - 1]} \ {None})
            IN  within[Cardinality(Packets)]
Extending(t) == \E i \in DOMAIN stack[t] : stack[t][i].pc \in {"walk", "link"}

AddPacket(h, g) == LET p == handle[h].pkt
                       q == handle[g].pkt
                   IN  /\ Using(h) /\ Using(g) /\ h[1] = g[1] /\ h # g
                       /\ Chain(p) \cap Chain(q) = {}
                       /\ \A t \in Threads : ~Extending(t)
                       /\ handle' = [handle EXCEPT ![g] = Empty]
                       /\ stack' = [stack EXCEPT ![h[1]] = <<Frame("walk", p, q)>>]
                       /\ UNCHANGED <<mem, refcnt, next, length, offset, setting>>

(* addPacket of a handle that has none: it takes the packet over.          *)
TakeOver(h, g) == /\ Unused(h) /\ Using(g) /\ h[1] = g[1]
                  /\ handle[g].kind = "ptr"
                  /\ handle' = [handle EXCEPT ![h] = [Empty EXCEPT !.pkt = handle[g].pkt], ![g] = Empty]
                  /\ UNCHANGED <<mem, refcnt, next, length, offset, stack, setting>>

Walk(t) == LET p == Top(t).pkt
           IN  /\ In(t, "walk")
               /\ Goto(t, IF next[p] = None THEN Frame("link", p, Top(t).add)
                          ELSE Frame("walk", next[p], Top(t).add))
               /\ UNCHANGED <<mem, refcnt, next, length, offset, handle, setting>>

Link(t) == /\ In(t, "link")
           /\ next' = [next EXCEPT ![Top(t).pkt] = Top(t).add]
           /\ Leave(t)
           /\ UNCHANGED <<mem, refcnt, length, offset, handle, setting>>

Inside(t) == FreeCount(t) \/ FreeNext(t) \/ FreeMemory(t) \/ Walk(t) \/ Link(t)

Next == \/ \E h \in Handles : \/ \E p \in Packets : Alloc(h, p)
                              \/ \E s \in Sizes : Make(h, s)
                              \/ Push(h) \/ Rebase(h) \/ ToOffset(h) \/ Drop(h)
                              \/ \E g \in Handles : \/ ClonePkt(h, g) \/ CloneOffset(h, g)
                                                    \/ AddPacket(h, g) \/ TakeOver(h, g)
        \/ \E t \in Threads : SetOffset(t) \/ Inside(t)

Spec == Init /\ [][Next]_vars

------------------------------------------------------------------------------
(* The shape of the state.                                                 *)
TypeOK == /\ \A p \in Packets : /\ mem[p] \in {"none", "live", "freed"}
                                /\ refcnt[p] \in 0 .. Cardinality(Handles) + Cardinality(Packets)
                                /\ next[p] \in Packets \cup {None}
                                /\ length[p] \in 0 .. Bytes /\ offset[p] \in 0 .. Bytes
          /\ \A h \in Handles : /\ handle[h].pkt \in Packets \cup {None}
                                /\ handle[h].kind \in {"ptr", "off"}
                                /\ handle[h].offset \in 0 .. Bytes
          /\ \A t \in Threads : setting[t] \in [pkt : Packets \cup {None}, offset : 0 .. Bytes]

(* Who counts as an owner of p: handles, the links of packets that are not *)
(* being freed, calls of free that have not counted down yet and calls of  *)
(* addPacket that have not linked yet.                                     *)
Freeing(p) == \E t \in Threads : \E i \in DOMAIN stack[t] : stack[t][i].pkt = p /\ stack[t][i].pc = "memory"
Links(p) == {q \in Packets : mem[q] = "live" /\ next[q] = p /\ ~Freeing(q)}
Calls(p) == {t \in Threads : \E i \in DOMAIN stack[t] : \/ stack[t][i] = Frame("free", p, None)
                                                        \/ stack[t][i].add = p}

(* The count of a packet is the number of its owners, at every step.       *)
CountExact == \A p \in Packets :
                 mem[p] = "live" =>
                    refcnt[p] = Cardinality(Held(p)) + Cardinality(Links(p)) + Cardinality(Calls(p))

(* Nobody reaches a packet that has been freed: no handle, no link of a    *)
(* packet in use, no call that is still to look at it ...                  *)
ReachLive == /\ \A h \in Handles : handle[h].pkt # None => mem[handle[h].pkt] = "live"
             /\ \A p \in Packets : mem[p] = "live" /\ next[p] # None /\ ~Freeing(p) => mem[next[p]] = "live"
             /\ \A t \in Threads : \A i \in DOMAIN stack[t] : mem[stack[t][i].pkt] = "live"
(* ... and none that is still to store where its window begins.            *)
NotAfterFree == ReachLive /\ \A t \in Threads : setting[t].pkt # None => mem[setting[t].pkt] = "live"

(* Once no thread is inside a call, a packet without an owner is freed.    *)
NothingLeaks == (\A t \in Threads : stack[t] = << >>) =>
                   \A p \in Packets : mem[p] = "live" => Held(p) # {} \/ Links(p) # {}

(* What is to be seen through a handle: with nobody setting the window of  *)
(* its packet, every handle's ends where the packet ends, whoever moved    *)
(* the packet's own, and its headers are inside.  Between the two stores   *)
(* the window of a Pkt is short of the end, and not beyond it.  (What a    *)
(* PktOffset reads then may be anything: NeverTorn does not hold.)         *)
WindowsInside == \A h \in Handles : handle[h].pkt # None =>
                    /\ OffsetOf(h) \in 0 .. Bytes
                    /\ handle[h].kind = "ptr" => LengthOf(h) >= 0 /\ OffsetOf(h) + LengthOf(h) <= Bytes
                    /\ Settled(handle[h].pkt) => /\ OffsetOf(h) + LengthOf(h) = Bytes
                                                 /\ FullSize(handle[h].sizes) <= LengthOf(h)

NeverTorn == \A h \in Handles : handle[h].pkt # None /\ handle[h].kind = "off" =>
                                    OffsetOf(h) + LengthOf(h) = Bytes
==============================================================================
