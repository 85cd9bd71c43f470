------------------------------- MODULE Capture -------------------------------
(***************************************************************************)
(* src/drivers: threads that collect packets from several drivers           *)
(* (Capture.h), a driver that reads a capture file or a live interface      *)
(* through libpcap (DriverPcap.h, DriverPcap.cpp), and the pace at which a  *)
(* file is played (DriverOffline in Driver.h): packets leave the file with  *)
(* the gaps of their time stamps, one that is not due is held back.         *)
(*                                                                         *)
(* A packet is [id, ts, big]; `big' ones are those pcapHandler ignores.     *)
(* A thread's bulk is the array it passed to getPackets, as far as the call *)
(* in progress has written it. A call of getPackets, idle or finished has   *)
(* a driver's lock from one step to another: getPackets goes on without a   *)
(* driver it finds locked, the other two wait. What finished() answers is   *)
(* left out.                                                                *)
(***************************************************************************)
EXTENDS Integers, Sequences

CONSTANTS DriversCnt,  \* _drivers: 1 .. DriversCnt
          Offline,     \* the drivers that read a file
          File,        \* per driver: the packets of the file, or those that will arrive
          Failing,     \* the drivers whose pcap_dispatch may fail
          Threads,
          BulkLimit,   \* how many packets fit a thread's array
          MaxTime,     \* bound: the clock need not go on from there
          None

ASSUME DriversAssumption == /\ DriversCnt \in Nat \ {0}
                            /\ Offline \subseteq 1 .. DriversCnt
                            /\ Failing \subseteq 1 .. DriversCnt
                            /\ BulkLimit \in Nat
                            /\ DriversCnt <= BulkLimit

Drivers == 1 .. DriversCnt
PacketType == [id : Nat, ts : Nat, big : BOOLEAN]

ASSUME FileAssumption == \A d \in Drivers : File[d] \in Seq(PacketType)
ASSUME NoneAssumption == None \notin PacketType /\ None \notin Threads /\ MaxTime \in Nat

VARIABLES
    clock,     \* the time, in units of the time stamps
    read,      \* per driver: how many packets libpcap has handed out
    arrived,   \* per live driver: how many packets are in libpcap's buffer or beyond
    held,      \* DriverOffline::_pkt
    pktTime,   \* DriverOffline::_pkt_time
    pktSent,   \* DriverOffline::_pkt_sent
    finished,  \* DriverPcap::_finished
    lock,      \* Driver::_lock: who holds it
    curr,      \* _currBulk and _currPkts: whose array and from where on, and what is put there
    pc,        \* per thread: where it is
    at,        \* per thread: the driver it is at
    got,       \* per thread: how many packets getPackets counted
    bulk,      \* per thread: its array
    told,      \* per thread: the packets behind the count, as the drivers handed them out
    played     \* per driver: the packets put in an array, and when

fileVars == <<read, arrived, held, pktTime, pktSent, finished, played>>
threadVars == <<pc, at, got, bulk, told>>
vars == <<clock, fileVars, lock, curr, threadVars>>

------------------------------------------------------------------------------
Init == /\ clock = 1
        /\ read = [d \in Drivers |-> 0]
        /\ arrived = [d \in Drivers |-> IF d \in Offline THEN Len(File[d]) ELSE 0]
        /\ held = [d \in Drivers |-> None]
        /\ pktTime = [d \in Drivers |-> 0]
        /\ pktSent = [d \in Drivers |-> 0]
        /\ finished = [d \in Drivers |-> FALSE]
        /\ lock = [d \in Drivers |-> None]
        /\ curr = [d \in Drivers |-> [thread |-> None, base |-> 0, out |-> << >>]]
        /\ pc = [t \in Threads |-> "out"]
        /\ at = [t \in Threads |-> 1]
        /\ got = [t \in Threads |-> 0]
        /\ bulk = [t \in Threads |-> << >>]
        /\ told = [t \in Threads |-> << >>]
        /\ played = [d \in Drivers |-> << >>]

(* Time passes; after MaxTime only while a held packet waits for it.       *)
Tick == /\ clock < MaxTime \/ \E d \in Drivers : held[d] # None /\ pktSent[d] > clock
        /\ clock' = clock + 1
        /\ UNCHANGED <<fileVars, lock, curr, threadVars>>

Arrive(d) == /\ d \notin Offline
             /\ arrived[d] < Len(File[d])
             /\ arrived' = [arrived EXCEPT ![d] = @ + 1]
             /\ UNCHANGED <<clock, read, held, pktTime, pktSent, finished, played, lock, curr, threadVars>>

(* On to the next driver, or to what comes after the loop.                 *)
Advance(t, loop, after) ==
    IF at[t] = DriversCnt
    THEN pc' = [pc EXCEPT ![t] = after] /\ at' = [at EXCEPT ![t] = 1]
    ELSE pc' = [pc EXCEPT ![t] = loop] /\ at' = [at EXCEPT ![t] = @ + 1]

(* The array need not be empty, but the call does not look at it.          *)
GetPackets(t) == /\ pc[t] = "out"
                 /\ pc' = [pc EXCEPT ![t] = "get"]
                 /\ got' = [got EXCEPT ![t] = 0]
                 /\ bulk' = [bulk EXCEPT ![t] = << >>]
                 /\ told' = [told EXCEPT ![t] = << >>]
                 /\ UNCHANGED <<clock, fileVars, lock, curr, at>>

(* A mutant: nobody looks at the lock.                                     *)
FreeForAll(d) == TRUE
Free(d) == lock[d] = None

TryLock(t) == /\ pc[t] = "get"
              /\ Free(at[t])
              /\ lock' = [lock EXCEPT ![at[t]] = t]
              /\ curr' = [curr EXCEPT ![at[t]] = [thread |-> t, base |-> got[t], out |-> << >>]]
              /\ pc' = [pc EXCEPT ![t] = "driver"]
              /\ UNCHANGED <<clock, fileVars, at, got, bulk, told>>
SkipLocked(t) == /\ pc[t] = "get"
                 /\ ~Free(at[t])
                 /\ Advance(t, "get", "got")
                 /\ UNCHANGED <<clock, fileVars, lock, curr, got, bulk, told>>

(* The array once pkts are written behind its first n entries: what a      *)
(* dispatch that failed left there is written over.                        *)
Written(array, n, pkts) ==
    [i \in 1 .. IF Len(array) < n + Len(pkts) THEN n + Len(pkts) ELSE Len(array) |->
        IF n < i /\ i <= n + Len(pkts) THEN pkts[i - n] ELSE array[i]]

(* The packets go to the array that _currBulk points to.                   *)
HandOut(d, pkts) ==
    LET c == curr[d]
    IN  /\ bulk' = [bulk EXCEPT ![c.thread] = Written(@, c.base + Len(c.out), pkts)]
        /\ curr' = [curr EXCEPT ![d].out = @ \o pkts]
        /\ played' = [played EXCEPT ![d] = @ \o [i \in DOMAIN pkts |-> [pkt |-> pkts[i], at |-> clock]]]

(* A mutant: the gap is taken as it is.                                    *)
GapSigned(d, ts) == IF pktTime[d] # 0 THEN ts - pktTime[d] ELSE 0

(* The gap to the packet before; time stamps that run backwards have none. *)
Gap(d, ts) == IF pktTime[d] # 0 /\ ts > pktTime[d] THEN ts - pktTime[d] ELSE 0

(* _pkt_sent, when a packet of that time stamp is due.                     *)
SentAt(d, ts) == IF pktSent[d] + Gap(d, ts) = 0 THEN clock ELSE pktSent[d] + Gap(d, ts)

(* pcapHandler for one packet of a file: ignored, held back or handed out. *)
PlayPacket(d, p) ==
    LET due == SentAt(d, p.ts)
    IN  IF p.big THEN UNCHANGED <<held, pktTime, pktSent, bulk, curr, played>>
        ELSE /\ pktTime' = [pktTime EXCEPT ![d] = p.ts]
             /\ pktSent' = [pktSent EXCEPT ![d] = due]
             /\ IF due > clock
                THEN held' = [held EXCEPT ![d] = p] /\ UNCHANGED <<bulk, curr, played>>
                ELSE HandOut(d, <<p>>) /\ UNCHANGED held

(* Mutant of getPackets: a packet that is held back is forgotten.          *)
NothingCame(d) == curr'[d].out = << >>

(* getPackets takes a dispatch that neither hands out a packet nor holds   *)
(* one back for the end of the file.                                       *)
NothingLeft(d) == curr'[d].out = << >> /\ held'[d] = None

(* getPackets of a driver with a file: `pcap_dispatch(_handle, 1, ...)'.   *)
ReadFile(t) ==
    LET d == at[t]
    IN  /\ pc[t] = "driver" /\ d \in Offline
        /\ held[d] = None
        /\ read[d] < Len(File[d])
        /\ read' = [read EXCEPT ![d] = @ + 1]
        /\ PlayPacket(d, File[d][read[d] + 1])
        /\ finished' = [finished EXCEPT ![d] = @ \/ NothingLeft(d)]
        /\ pc' = [pc EXCEPT ![t] = "done"]
        /\ UNCHANGED <<clock, arrived, lock, at, got, told>>

(* At the end of the file pcap_dispatch handles nothing.                   *)
ReadEnd(t) ==
    LET d == at[t]
    IN  /\ pc[t] = "driver" /\ d \in Offline
        /\ held[d] = None
        /\ read[d] = Len(File[d])
        /\ finished' = [finished EXCEPT ![d] = TRUE]
        /\ pc' = [pc EXCEPT ![t] = "done"]
        /\ UNCHANGED <<clock, read, arrived, held, pktTime, pktSent, played, lock, curr, at, got, bulk, told>>

(* pcap_dispatch fails for a file: nothing is handed out.                  *)
FileError(t) == /\ pc[t] = "driver" /\ at[t] \in Failing \cap Offline
                /\ held[at[t]] = None
                /\ pc' = [pc EXCEPT ![t] = "failed"]
                /\ UNCHANGED <<clock, fileVars, lock, curr, at, got, bulk, told>>

(* A mutant: the packet stays held when it is handed out.                  *)
PlayHeldAgain(t) ==
    LET d == at[t]
    IN  /\ pc[t] = "driver" /\ d \in Offline
        /\ held[d] # None /\ pktSent[d] <= clock
        /\ HandOut(d, <<held[d]>>)
        /\ pc' = [pc EXCEPT ![t] = "done"]
        /\ UNCHANGED <<clock, read, arrived, held, pktTime, pktSent, finished, lock, at, got, told>>

(* A mutant: the packet is forgotten and not handed out.                   *)
PlayHeldLost(t) ==
    LET d == at[t]
    IN  /\ pc[t] = "driver" /\ d \in Offline
        /\ held[d] # None /\ pktSent[d] <= clock
        /\ held' = [held EXCEPT ![d] = None]
        /\ HandOut(d, << >>)
        /\ pc' = [pc EXCEPT ![t] = "done"]
        /\ UNCHANGED <<clock, read, arrived, pktTime, pktSent, finished, lock, at, got, told>>

(* offlineHandle: the packet held back is handed out once it is due.       *)
PlayHeld(t) ==
    LET d == at[t]
    IN  /\ pc[t] = "driver" /\ d \in Offline
        /\ held[d] # None /\ pktSent[d] <= clock
        /\ HandOut(d, <<held[d]>>)
        /\ held' = [held EXCEPT ![d] = None]
        /\ pc' = [pc EXCEPT ![t] = "done"]
        /\ UNCHANGED <<clock, read, arrived, pktTime, pktSent, finished, lock, at, got, told>>
NotDue(t) ==
    LET d == at[t]
    IN  /\ pc[t] = "driver" /\ d \in Offline
        /\ held[d] # None /\ pktSent[d] > clock
        /\ pc' = [pc EXCEPT ![t] = "done"]
        /\ UNCHANGED <<clock, fileVars, lock, curr, at, got, bulk, told>>

(* Capture gives every driver its share of the array.                      *)
Share == BulkLimit \div DriversCnt

(* The packets that pcapHandler does not ignore, in their order.           *)
Small(s) ==
    LET kept[i \in 0 .. Len(s)] == IF i = 0 THEN << >>
                                   ELSE IF s[i].big THEN kept[i - 1]
                                   ELSE Append(kept[i - 1], s[i])
    IN  kept[Len(s)]

(* A live driver's pcap_dispatch handles the next n that have arrived.     *)
Dispatch(d, n) == /\ read[d] + n <= arrived[d]
                  /\ read' = [read EXCEPT ![d] = @ + n]
                  /\ HandOut(d, Small(SubSeq(File[d], read[d] + 1, read[d] + n)))

(* getPackets of a live driver: as many as its share, possibly less.       *)
ReadLive(t) == /\ pc[t] = "driver" /\ at[t] \notin Offline
               /\ \E n \in 0 .. Share : Dispatch(at[t], n)
               /\ pc' = [pc EXCEPT ![t] = "done"]
               /\ UNCHANGED <<clock, arrived, held, pktTime, pktSent, finished, lock, at, got, told>>

(* pcap_dispatch fails for a live driver, after some packets of its share: *)
(* they are in the array.                                                  *)
LiveError(t) == /\ pc[t] = "driver" /\ at[t] \in Failing \ Offline
                /\ \E n \in 0 .. Share - 1 : Dispatch(at[t], n)
                /\ pc' = [pc EXCEPT ![t] = "failed"]
                /\ UNCHANGED <<clock, arrived, held, pktTime, pktSent, finished, lock, at, got, told>>

(* getPackets of the driver returns _currPkts; the lock is released.       *)
Return(t) == /\ pc[t] = "done"
             /\ got' = [got EXCEPT ![t] = @ + Len(curr[at[t]].out)]
             /\ told' = [told EXCEPT ![t] = @ \o curr[at[t]].out]
             /\ lock' = [lock EXCEPT ![at[t]] = None]
             /\ Advance(t, "get", "got")
             /\ UNCHANGED <<clock, fileVars, curr, bulk>>

(* It returns 0 when the dispatch failed, whatever is in the array.        *)
ReturnNone(t) == /\ pc[t] = "failed"
                 /\ lock' = [lock EXCEPT ![at[t]] = None]
                 /\ Advance(t, "get", "got")
                 /\ UNCHANGED <<clock, fileVars, curr, got, bulk, told>>

(* What the loop of main does with the packets, before it calls idle().    *)
PutPackets(t) == /\ pc[t] = "got"
                 /\ pc' = [pc EXCEPT ![t] = "idle"]
                 /\ got' = [got EXCEPT ![t] = 0]
                 /\ bulk' = [bulk EXCEPT ![t] = << >>]
                 /\ told' = [told EXCEPT ![t] = << >>]
                 /\ UNCHANGED <<clock, fileVars, lock, curr, at>>

(* One driver after the other: wait for its lock, have it, leave it.       *)
WaitLock(t, waiting, having) == /\ pc[t] = waiting
                                /\ Free(at[t])
                                /\ lock' = [lock EXCEPT ![at[t]] = t]
                                /\ pc' = [pc EXCEPT ![t] = having]
                                /\ UNCHANGED <<clock, fileVars, curr, at, got, bulk, told>>
LeaveLock(t, having, waiting) == /\ pc[t] = having
                                 /\ lock' = [lock EXCEPT ![at[t]] = None]
                                 /\ Advance(t, waiting, "out")
                                 /\ UNCHANGED <<clock, fileVars, curr, got, bulk, told>>

(* idle() writes the driver's statistics to a file.                        *)
IdleLock(t) == WaitLock(t, "idle", "idling")
Idle(t) == LeaveLock(t, "idling", "idle")

Finished(t) == /\ pc[t] = "out"
               /\ pc' = [pc EXCEPT ![t] = "finished"]
               /\ UNCHANGED <<clock, fileVars, lock, curr, at, got, bulk, told>>
FinishedLock(t) == WaitLock(t, "finished", "asking")
FinishedDriver(t) == LeaveLock(t, "asking", "finished")

Work(t) == \/ TryLock(t) \/ SkipLocked(t)
           \/ ReadFile(t) \/ ReadEnd(t) \/ PlayHeld(t) \/ NotDue(t) \/ ReadLive(t)
           \/ FileError(t) \/ LiveError(t)
           \/ Return(t) \/ ReturnNone(t) \/ PutPackets(t)
           \/ IdleLock(t) \/ Idle(t) \/ FinishedLock(t) \/ FinishedDriver(t)

Next == \/ Tick
        \/ \E d \in Drivers : Arrive(d)
        \/ \E t \in Threads : GetPackets(t) \/ Finished(t) \/ Work(t)

(* Time passes, the threads come back for more and get on with their calls *)
(* (the loop of main).                                                     *)
Fairness == /\ WF_vars(Tick)
            /\ \A t \in Threads : SF_vars(GetPackets(t)) /\ SF_vars(Work(t))

Spec == Init /\ [][Next]_vars /\ Fairness

------------------------------------------------------------------------------
Packets(d) == [i \in DOMAIN played[d] |-> played[d][i].pkt]
HeldPackets(d) == IF held[d] = None THEN << >> ELSE <<held[d]>>

(* The time between the first packet of a file and its i-th one, gaps that *)
(* run backwards left out.                                                 *)
Elapsed(s, i) ==
    LET sum[k \in 0 .. i] == IF k < 2 THEN 0
                             ELSE sum[k - 1] + IF s[k].ts > s[k - 1].ts THEN s[k].ts - s[k - 1].ts ELSE 0
    IN  sum[i]

(* Every packet read from a driver is put in an array once and in order,   *)
(* but for one that may be held back, however the threads take turns.      *)
InOrderOnce == \A d \in Drivers :
                  Packets(d) \o HeldPackets(d) = Small(SubSeq(File[d], 1, read[d]))

(* A thread finds in its array, first and in the same order, the packets   *)
(* whose number it is told: no driver writes to the array of another call  *)
(* or over what was counted, and what a failed dispatch left is not taken  *)
(* for packets. And the arrays are big enough, for what is lost as well.   *)
BulkMatchesCount ==
    \A t \in Threads : /\ Len(bulk[t]) <= BulkLimit
                       /\ pc[t] \in {"out", "get", "got", "idle", "finished"} =>
                             /\ got[t] = Len(told[t]) /\ got[t] <= Len(bulk[t])
                             /\ told[t] = SubSeq(bulk[t], 1, got[t])

(* A file is never played faster than it was captured.                     *)
NeverEarly == \A d \in Offline :
                 \A i \in DOMAIN played[d] :
                    played[d][i].at >= played[d][1].at + Elapsed(Packets(d), i)

(* A driver is finished when its file is.                                  *)
FinishedMeansDone == \A d \in Drivers : finished[d] => read[d] = Len(File[d]) /\ held[d] = None

(* A thread gets the driver's lock in getPackets.                          *)
Turn(d) == \E t \in Threads : at[t] = d /\ TryLock(t)

(* Its dispatch fails.                                                     *)
Fails(d) == \E t \in Threads : at[t] = d /\ FileError(t)

(* Every file is played to its end, and its driver says so, unless from    *)
(* some moment on every call of getPackets finds the driver locked, or its *)
(* dispatch never stops failing.                                           *)
PlayedOut == \A d \in Offline :
                ([]<><<Turn(d)>>_vars /\ <>[][~Fails(d)]_vars)
                    => <>(Packets(d) = Small(File[d]) /\ finished[d])
==============================================================================
