---------------------------- MODULE PacketProofs ----------------------------
(***************************************************************************)
(* What the counting of owners achieves for every number of packets,       *)
(* handles and threads: a packet's count is the number of its owners, no   *)
(* owner finds its packet freed, and a packet without one is freed.        *)
(*                                                                         *)
(* The argument: who frees a packet has counted its last owner down, and   *)
(* from then on nobody becomes an owner again, since only owners hand a    *)
(* packet on.  A thread on its way along a chain is no owner of the packet *)
(* it has come to; what it relies on is that it owns the first one and     *)
(* that each has the one before as its owner (Supported).                  *)
(*                                                                         *)
(* And what is true of the windows, with users that are careful: one of    *)
(* them sets a packet's window at a time, and what the two stores leave    *)
(* behind is for every handle a window that ends where the packet does.    *)
(***************************************************************************)
EXTENDS Packet, FiniteSetTheorems, SequenceTheorems, WellFoundedInduction, TLAPS

Frames == [pc : {"free", "next", "memory", "walk", "link"},
           pkt : Packets, add : Packets \cup {None}]
HandleFields == {"pkt", "kind", "offset", "sizes"}

Types == /\ mem \in [Packets -> {"none", "live", "freed"}]
         /\ refcnt \in [Packets -> Int]
         /\ next \in [Packets -> Packets \cup {None}]
         /\ DOMAIN handle = Handles
         /\ \A h \in Handles : DOMAIN handle[h] = HandleFields /\ handle[h].pkt \in Packets \cup {None}
         /\ stack \in [Threads -> Seq(Frames)]

(* A thread that frees a chain has counted down all but the last packet of *)
(* it that it has come to; one that extends a chain does nothing else, and *)
(* is alone.                                                               *)
Stacks ==
    /\ \A t \in Threads : \A i \in DOMAIN stack[t] :
          /\ i # Len(stack[t]) => stack[t][i].pc = "memory"
          /\ stack[t][i].pc \in {"walk", "link"} => Len(stack[t]) = 1 /\ stack[t][i].add # None
          /\ stack[t][i].pc \notin {"walk", "link"} => stack[t][i].add = None
    /\ \A t, u \in Threads : Extending(t) /\ Extending(u) => t = u

(* The packet of this call is being freed.                                 *)
Ending(f) == f.pc \in {"next", "memory"}
Dying(p) == \E t \in Threads : \E i \in DOMAIN stack[t] : stack[t][i].pkt = p /\ Ending(stack[t][i])

EndsOnce == \A t, u \in Threads : \A i \in DOMAIN stack[t], j \in DOMAIN stack[u] :
                Ending(stack[t][i]) /\ Ending(stack[u][j]) /\ stack[t][i].pkt = stack[u][j].pkt
                    => t = u /\ i = j
Once == /\ EndsOnce
        /\ \A p \in Packets : Dying(p) => refcnt[p] = 0
        /\ \A p \in Packets : mem[p] = "live" /\ refcnt[p] = 0 => Dying(p)

LiveCalls == \A t \in Threads : \A i \in DOMAIN stack[t] :
                /\ mem[stack[t][i].pkt] = "live"
                /\ stack[t][i].add # None => mem[stack[t][i].add] = "live"

(* Where a thread that extends a chain has come to: each packet on its way *)
(* is one of its own or the next of one on its way.                        *)
OnTheWay(t, S) ==
    \A q \in S : /\ mem[q] = "live" /\ ~Dying(q)
                 /\ \/ \E h \in Handles : h[1] = t /\ handle[h].pkt = q
                    \/ \E r \in S : next[r] = q
Supported ==
    \A t \in Threads : \A i \in DOMAIN stack[t] : stack[t][i].pc \in {"walk", "link"} =>
        /\ \E S \in SUBSET Packets : stack[t][i].pkt \in S /\ OnTheWay(t, S)
        /\ stack[t][i].pc = "link" => next[stack[t][i].pkt] = None

IInv == Types /\ Stacks /\ Once /\ LiveCalls /\ Supported /\ CountExact /\ ReachLive

------------------------------------------------------------------------------
(* Owners can be counted.                                                  *)
LEMMA HandlesFinite == IsFiniteSet(Handles)
<1> DEFINE Of(t) == {t} \X (1 .. HandlesOf[t])
           T == {Of(t) : t \in Threads}
           f == [t \in Threads |-> Of(t)]
<1>1. f \in Surjection(Threads, T)
  BY DEF Surjection
<1>2. IsFiniteSet(T)
  BY <1>1, PacketAssumption, FS_Surjection DEF ExistsSurjection
<1>3. ASSUME NEW t \in Threads PROVE IsFiniteSet(Of(t))
  <2>1. IsFiniteSet({t}) /\ IsFiniteSet(1 .. HandlesOf[t])
    <3>1. HandlesOf[t] \in Int /\ 1 \in Int
      BY PacketAssumption
    <3>2. QED
      BY <3>1, FS_Singleton, FS_Interval
  <2>2. QED
    BY <2>1, FS_Product
<1>4. \A x \in T : IsFiniteSet(x)
  BY <1>3
<1>5. IsFiniteSet(UNION T)
  <2> HIDE DEF T
  <2>1. QED
    BY <1>2, <1>4, FS_UNION
<1>6. QED
  BY <1>5 DEF Handles

LEMMA OwnersFinite ==
    ASSUME NEW p
    PROVE  IsFiniteSet(Held(p)) /\ IsFiniteSet(Links(p)) /\ IsFiniteSet(Calls(p))
<1>1. Held(p) \in SUBSET Handles /\ Links(p) \in SUBSET Packets /\ Calls(p) \in SUBSET Threads
  BY DEF Held, Links, Calls
<1>2. QED
  BY <1>1, HandlesFinite, PacketAssumption, FS_Subset

(* What the concatenation of two stacks holds, by its parts.               *)
LEMMA ConcatParts ==
  ASSUME NEW S, NEW s \in Seq(S), NEW c \in Seq(S), NEW n \in Nat, Len(s) = n
  PROVE  /\ s \o c \in Seq(S) /\ Len(s \o c) = n + Len(c)
         /\ \A i \in 1 .. n : (s \o c)[i] = s[i]
         /\ Len(c) = 1 => (s \o c)[n + 1] = c[1]
<1>1. /\ s \o c \in Seq(S)
      /\ Len(s \o c) = Len(s) + Len(c)
      /\ \A i \in 1 .. Len(s) + Len(c) :
            (s \o c)[i] = IF i <= Len(s) THEN s[i] ELSE c[i - Len(s)]
  BY ConcatProperties
<1>2. Len(c) \in Nat
  BY LenProperties
<1>3. ASSUME NEW i \in 1 .. n PROVE (s \o c)[i] = s[i]
  <2>1. i \in 1 .. Len(s) + Len(c) /\ i <= Len(s)
    BY <1>2
  <2>2. QED
    BY <1>1, <2>1
<1>4. ASSUME Len(c) = 1 PROVE (s \o c)[n + 1] = c[1]
  <2>1. n + 1 \in 1 .. Len(s) + Len(c) /\ ~(n + 1 <= Len(s)) /\ (n + 1) - Len(s) = 1
    BY <1>2, <1>4
  <2>2. QED
    BY <1>1, <2>1
<1>5. QED
  BY <1>1, <1>3, <1>4

(* What becomes of a stack.                                                *)
LEMMA FrontOf ==
    ASSUME NEW S, NEW s \in Seq(S), s # << >>
    PROVE  /\ Len(s) \in Nat \ {0} /\ DOMAIN s = 1 .. Len(s)
           /\ Front(s) \in Seq(S) /\ Len(Front(s)) = Len(s) - 1
           /\ \A i \in 1 .. Len(s) - 1 : Front(s)[i] = s[i]
           /\ Last(s) \in S
<1>1. Len(s) \in Nat /\ DOMAIN s = 1 .. Len(s) /\ s \in [1 .. Len(s) -> S]
  BY LenProperties
<1>2. Len(s) # 0
  BY EmptySeq
<1>3. SubSeq(s, 1, Len(s) - 1) \in Seq(S)
  BY <1>1, <1>2, SubSeqProperties
<1>4. /\ Len(SubSeq(s, 1, Len(s) - 1)) = Len(s) - 1
      /\ \A i \in 1 .. Len(s) - 1 : SubSeq(s, 1, Len(s) - 1)[i] = s[i]
  BY <1>1, <1>2, SubSeqProperties
<1>5. Last(s) \in S
  BY <1>1, <1>2 DEF Last
<1>6. QED
  BY <1>1, <1>2, <1>3, <1>4, <1>5 DEF Front

LEMMA GotoStack ==
    ASSUME Types, NEW t \in Threads, stack[t] # << >>, NEW f \in Frames, Goto(t, f)
    PROVE  /\ stack' \in [Threads -> Seq(Frames)]
           /\ \A u \in Threads \ {t} : stack'[u] = stack[u]
           /\ Len(stack[t]) \in Nat \ {0} /\ Len(stack'[t]) = Len(stack[t])
           /\ DOMAIN stack[t] = 1 .. Len(stack[t]) /\ DOMAIN stack'[t] = 1 .. Len(stack[t])
           /\ \A i \in 1 .. Len(stack[t]) - 1 : stack'[t][i] = stack[t][i]
           /\ stack'[t][Len(stack[t])] = f
<1>1. stack[t] \in Seq(Frames)
  BY DEF Types
<1>2. /\ Len(stack[t]) \in Nat \ {0} /\ DOMAIN stack[t] = 1 .. Len(stack[t])
      /\ Front(stack[t]) \in Seq(Frames) /\ Len(Front(stack[t])) = Len(stack[t]) - 1
      /\ \A i \in 1 .. Len(stack[t]) - 1 : Front(stack[t])[i] = stack[t][i]
  BY <1>1, FrontOf
<1>3. /\ stack'[t] = Append(Front(stack[t]), f)
      /\ DOMAIN stack' = Threads /\ \A u \in Threads \ {t} : stack'[u] = stack[u]
  BY DEF Goto, Types
<1>4. /\ Append(Front(stack[t]), f) \in Seq(Frames)
      /\ Len(Append(Front(stack[t]), f)) = Len(stack[t])
      /\ \A i \in 1 .. Len(stack[t]) - 1 : Append(Front(stack[t]), f)[i] = stack[t][i]
      /\ Append(Front(stack[t]), f)[Len(stack[t])] = f
  BY <1>2, AppendProperties
<1>5. stack' \in [Threads -> Seq(Frames)]
  BY <1>3, <1>4 DEF Types, Goto
<1>6. QED
  BY <1>2, <1>3, <1>4, <1>5, LenProperties

LEMMA LeaveStack ==
    ASSUME Types, NEW t \in Threads, stack[t] # << >>, Leave(t)
    PROVE  /\ stack' \in [Threads -> Seq(Frames)]
           /\ \A u \in Threads \ {t} : stack'[u] = stack[u]
           /\ Len(stack[t]) \in Nat \ {0} /\ Len(stack'[t]) = Len(stack[t]) - 1
           /\ DOMAIN stack[t] = 1 .. Len(stack[t]) /\ DOMAIN stack'[t] = 1 .. Len(stack[t]) - 1
           /\ \A i \in 1 .. Len(stack[t]) - 1 : stack'[t][i] = stack[t][i]
<1>1. stack[t] \in Seq(Frames)
  BY DEF Types
<1>2. /\ Len(stack[t]) \in Nat \ {0} /\ DOMAIN stack[t] = 1 .. Len(stack[t])
      /\ Front(stack[t]) \in Seq(Frames) /\ Len(Front(stack[t])) = Len(stack[t]) - 1
      /\ \A i \in 1 .. Len(stack[t]) - 1 : Front(stack[t])[i] = stack[t][i]
  BY <1>1, FrontOf
<1>3. /\ stack'[t] = Front(stack[t])
      /\ DOMAIN stack' = Threads /\ \A u \in Threads \ {t} : stack'[u] = stack[u]
  BY DEF Leave, Types
<1>4. stack' \in [Threads -> Seq(Frames)]
  BY <1>2, <1>3 DEF Types, Leave
<1>5. QED
  BY <1>2, <1>3, <1>4, LenProperties

(* A call begins: the stack, empty before, is one frame.                   *)
LEMMA BeginStack ==
    ASSUME Types, NEW t \in Threads, NEW f \in Frames, stack[t] = << >>,
           stack' = [stack EXCEPT ![t] = <<f>>]
    PROVE  /\ stack' \in [Threads -> Seq(Frames)]
           /\ \A u \in Threads \ {t} : stack'[u] = stack[u]
           /\ Len(stack'[t]) = 1 /\ DOMAIN stack'[t] = {1} /\ stack'[t][1] = f
           /\ DOMAIN stack[t] = {}
<1>1. <<f>> \in Seq(Frames) /\ Len(<<f>>) = 1 /\ <<f>>[1] = f /\ DOMAIN <<f>> = {1}
  OBVIOUS
<1>2. DOMAIN stack[t] = {}
  BY EmptySeq
<1>3. QED
  BY <1>1, <1>2 DEF Types

------------------------------------------------------------------------------
(* Headers and windows are nothing to do with who owns what.               *)
Windows == /\ UNCHANGED <<mem, refcnt, next, stack>>
           /\ DOMAIN handle' = Handles
           /\ \A h \in Handles : handle'[h].pkt = handle[h].pkt /\ DOMAIN handle'[h] = HandleFields

LEMMA WindowSteps ==
    ASSUME Types, NEW h \in Handles,
           Push(h) \/ Rebase(h) \/ ToOffset(h) \/ (\E s \in Sizes : Make(h, s))
    PROVE  Windows
<1>1. ASSUME NEW n, Behind(h, n) PROVE DOMAIN handle' = Handles /\
            \A g \in Handles : handle'[g].pkt = handle[g].pkt /\ DOMAIN handle'[g] = HandleFields
  <2>1. \/ handle' = [handle EXCEPT ![h].sizes = << >>]
        \/ handle' = [handle EXCEPT ![h].sizes = << >>, ![h].offset = @ + n]
    BY <1>1 DEF Behind
  <2>2. CASE handle' = [handle EXCEPT ![h].sizes = << >>]
    BY <2>2 DEF Types, HandleFields
  <2>3. CASE handle' = [handle EXCEPT ![h].sizes = << >>, ![h].offset = @ + n]
    <3>1. ASSUME NEW g \in Handles PROVE handle'[g].pkt = handle[g].pkt /\ DOMAIN handle'[g] = HandleFields
      <4>1. CASE g = h
        BY <2>3, <4>1 DEF Types, HandleFields
      <4>2. CASE g # h
        BY <2>3, <4>2 DEF Types
      <4>3. QED
        BY <4>1, <4>2
    <3>2. QED
      BY <2>3, <3>1 DEF Types
  <2>4. QED
    BY <2>1, <2>2, <2>3
<1>2. ASSUME NEW s \in Sizes, Make(h, s) PROVE Windows
  BY <1>2 DEF Make, Types, HandleFields, Windows
<1>3. CASE Push(h)
  BY <1>1, <1>3 DEF Push, Windows
<1>4. CASE Rebase(h)
  BY <1>1, <1>4 DEF Rebase, Windows
<1>5. CASE ToOffset(h)
  BY <1>5 DEF ToOffset, Types, HandleFields, Windows
<1>6. QED
  BY <1>2, <1>3, <1>4, <1>5

LEMMA WindowsKeep == IInv /\ Windows => IInv'
<1> SUFFICES ASSUME IInv, Windows PROVE IInv'
  OBVIOUS
<1>1. Types' /\ Stacks' /\ LiveCalls'
  BY DEF Windows, IInv, Types, Stacks, LiveCalls, Extending
<1>2. \A p : Dying(p)' = Dying(p) /\ Freeing(p)' = Freeing(p)
  BY DEF Windows, Dying, Freeing
<1>3. Once'
  BY <1>2 DEF Windows, IInv, Once, EndsOnce
<1>4. Supported'
  <2>1. \A t, S : OnTheWay(t, S)' = OnTheWay(t, S)
    BY <1>2 DEF OnTheWay, Windows
  <2>2. QED
    BY <2>1 DEF Supported, Windows, IInv
<1>5. CountExact'
  <2>1. ASSUME NEW p \in Packets PROVE Held(p)' = Held(p) /\ Links(p)' = Links(p) /\ Calls(p)' = Calls(p)
    BY <1>2 DEF Windows, Held, Links, Calls
  <2>2. QED
    BY <2>1 DEF CountExact, Windows, IInv
<1>6. ReachLive'
  BY <1>2 DEF Windows, IInv, ReachLive
<1>7. QED
  BY <1>1, <1>3, <1>4, <1>5, <1>6 DEF IInv

------------------------------------------------------------------------------
(* A packet with an owner is not being freed; one with two is not about to *)
(* be.                                                                     *)
LEMMA Owned ==
    ASSUME IInv, NEW p \in Packets, mem[p] = "live",
           Held(p) # {} \/ Links(p) # {} \/ Calls(p) # {}
    PROVE  refcnt[p] >= 1 /\ ~Dying(p)
<1>1. /\ Cardinality(Held(p)) \in Nat /\ Cardinality(Links(p)) \in Nat /\ Cardinality(Calls(p)) \in Nat
      /\ Cardinality(Held(p)) # 0 \/ Cardinality(Links(p)) # 0 \/ Cardinality(Calls(p)) # 0
  BY OwnersFinite, FS_CardinalityType, FS_EmptySet
<1>2. refcnt[p] >= 1
  BY <1>1 DEF IInv, CountExact
<1>3. QED
  BY <1>2 DEF IInv, Once

LEMMA OwnedTwice ==
    ASSUME IInv, NEW p \in Packets, mem[p] = "live",
           Held(p) # {} \/ Links(p) # {}, Calls(p) # {}
    PROVE  refcnt[p] >= 2
<1>1. /\ Cardinality(Held(p)) \in Nat /\ Cardinality(Links(p)) \in Nat /\ Cardinality(Calls(p)) \in Nat
      /\ Cardinality(Held(p)) # 0 \/ Cardinality(Links(p)) # 0
      /\ Cardinality(Calls(p)) # 0
  BY OwnersFinite, FS_CardinalityType, FS_EmptySet
<1>2. QED
  BY <1>1 DEF IInv, CountExact

(* Conversely a count of zero means that there is no owner.                *)
LEMMA Unowned ==
    ASSUME IInv, NEW p \in Packets, mem[p] = "live", refcnt[p] = 0
    PROVE  Held(p) = {} /\ Links(p) = {} /\ Calls(p) = {}
<1>1. /\ Cardinality(Held(p)) \in Nat /\ Cardinality(Links(p)) \in Nat /\ Cardinality(Calls(p)) \in Nat
      /\ Cardinality(Held(p)) + Cardinality(Links(p)) + Cardinality(Calls(p)) = 0
  BY OwnersFinite, FS_CardinalityType DEF IInv, CountExact
<1>2. Cardinality(Held(p)) = 0 /\ Cardinality(Links(p)) = 0 /\ Cardinality(Calls(p)) = 0
  BY <1>1
<1>3. QED
  BY <1>2, OwnersFinite, FS_EmptySet

(* A handle more for a packet that has one.                                *)
LEMMA SharedKeeps ==
    ASSUME IInv, NEW p \in Packets, Held(p) # {}, NEW g \in Handles, handle[g].pkt = None,
           Counted(p), UNCHANGED <<mem, next, stack>>,
           DOMAIN handle' = Handles, DOMAIN handle'[g] = HandleFields, handle'[g].pkt = p,
           \A x \in Handles \ {g} : handle'[x] = handle[x]
    PROVE  IInv'
<1>1. mem[p] = "live" /\ p # None /\ g \notin Held(p)
  BY PacketAssumption DEF IInv, ReachLive, Held
<1>2. refcnt[p] >= 1 /\ ~Dying(p)
  BY <1>1, Owned
<1>3. /\ refcnt' \in [Packets -> Int] /\ refcnt'[p] = refcnt[p] + 1
      /\ \A q \in Packets \ {p} : refcnt'[q] = refcnt[q]
  BY DEF Counted, IInv, Types
<1>4. Types' /\ Stacks' /\ LiveCalls'
  <2>1. Types'
    BY <1>3 DEF IInv, Types
  <2>2. Stacks'
    BY DEF IInv, Stacks, Extending
  <2>3. LiveCalls'
    BY DEF IInv, LiveCalls
  <2>4. QED
    BY <2>1, <2>2, <2>3
<1>5. \A q : Dying(q)' = Dying(q) /\ Freeing(q)' = Freeing(q)
  BY DEF Dying, Freeing
<1>6. Once'
  <2>1. \A q \in Packets : Dying(q)' => refcnt'[q] = 0
    BY <1>2, <1>3, <1>5 DEF IInv, Once
  <2>2. \A q \in Packets : mem'[q] = "live" /\ refcnt'[q] = 0 => Dying(q)'
    BY <1>2, <1>3, <1>5 DEF IInv, Once, Types
  <2>3. QED
    BY <2>1, <2>2 DEF IInv, Once, EndsOnce
<1>7. Supported'
  <2>1. ASSUME NEW t \in Threads, NEW S \in SUBSET Packets, OnTheWay(t, S) PROVE OnTheWay(t, S)'
    <3>1. \A h \in Handles : \A q \in Packets : handle[h].pkt = q => handle'[h].pkt = q
      BY PacketAssumption
    <3>2. QED
      BY <1>5, <2>1, <3>1 DEF OnTheWay
  <2>2. QED
    BY <2>1 DEF Supported, IInv
<1>8. CountExact'
  <2>1. \A q : Links(q)' = Links(q) /\ Calls(q)' = Calls(q)
    BY <1>5 DEF Links, Calls
  <2>2. Held(p)' = Held(p) \cup {g}
    BY DEF Held
  <2>3. \A q \in Packets \ {p} : Held(q)' = Held(q)
    BY PacketAssumption DEF Held
  <2>4. Cardinality(Held(p)') = Cardinality(Held(p)) + 1
    BY <1>1, <2>2, OwnersFinite, FS_AddElement
  <2>5. ASSUME NEW q \in Packets, mem'[q] = "live"
        PROVE  refcnt'[q] = Cardinality(Held(q)') + Cardinality(Links(q)') + Cardinality(Calls(q)')
    <3>1. refcnt[q] = Cardinality(Held(q)) + Cardinality(Links(q)) + Cardinality(Calls(q))
      BY <2>5 DEF IInv, CountExact
    <3>2. Cardinality(Held(q)) \in Nat /\ Cardinality(Links(q)) \in Nat /\ Cardinality(Calls(q)) \in Nat
      BY OwnersFinite, FS_CardinalityType
    <3>3. CASE q = p
      BY <1>3, <2>1, <2>4, <3>1, <3>2, <3>3
    <3>4. CASE q # p
      BY <1>3, <2>1, <2>3, <3>1, <3>4
    <3>5. QED
      BY <3>3, <3>4
  <2>6. QED
    BY <2>5 DEF CountExact
<1>9. ReachLive'
  BY <1>1, <1>5 DEF IInv, ReachLive
<1>10. QED
  BY <1>4, <1>6, <1>7, <1>8, <1>9 DEF IInv

LEMMA CloneKeeps ==
    ASSUME IInv, NEW h \in Handles, NEW g \in Handles, ClonePkt(h, g) \/ CloneOffset(h, g)
    PROVE  IInv'
<1>1. /\ handle[h].pkt \in Packets /\ Held(handle[h].pkt) # {} /\ handle[g].pkt = None
      /\ Counted(handle[h].pkt) /\ UNCHANGED <<mem, next, stack>>
  BY DEF ClonePkt, CloneOffset, Using, IInv, Types, Held
<1>2. /\ DOMAIN handle' = Handles /\ DOMAIN handle'[g] = HandleFields
      /\ handle'[g].pkt = handle[h].pkt
      /\ \A x \in Handles \ {g} : handle'[x] = handle[x]
  BY DEF ClonePkt, CloneOffset, Empty, IInv, Types, HandleFields
<1>3. QED
  BY <1>1, <1>2, SharedKeeps

(* A new packet: nobody has known it.                                      *)
LEMMA AllocKeeps ==
    ASSUME IInv, NEW h \in Handles, NEW p \in Packets, Alloc(h, p)
    PROVE  IInv'
<1>1. /\ mem[p] = "none" /\ handle[h].pkt = None /\ p # None /\ UNCHANGED stack
      /\ mem' = [mem EXCEPT ![p] = "live"] /\ refcnt' = [refcnt EXCEPT ![p] = 1]
      /\ next' = [next EXCEPT ![p] = None]
  BY PacketAssumption DEF Alloc, Unused
<1>2. /\ DOMAIN handle' = Handles /\ DOMAIN handle'[h] = HandleFields
      /\ handle'[h].pkt = p
      /\ \A x \in Handles \ {h} : handle'[x] = handle[x]
  BY DEF Alloc, Empty, IInv, Types, HandleFields
<1>3. \A q : Dying(q)' = Dying(q) /\ Freeing(q)' = Freeing(q)
  BY <1>1 DEF Dying, Freeing
<1>4. /\ \A t \in Threads : \A i \in DOMAIN stack[t] : stack[t][i].pkt # p /\ stack[t][i].add # p
      /\ \A x \in Handles : handle[x].pkt # p
      /\ ~Dying(p)
      /\ \A q \in Packets : mem[q] = "live" /\ ~Freeing(q) => next[q] # p
  BY <1>1 DEF IInv, LiveCalls, ReachLive, Dying
<1>5. Types' /\ Stacks'
  BY <1>1, <1>2 DEF IInv, Types, Stacks, Extending
<1>6. LiveCalls' /\ Once'
  BY <1>1, <1>3, <1>4 DEF IInv, LiveCalls, Once, EndsOnce, Types
<1>7. Supported'
  <2>1. ASSUME NEW t \in Threads, NEW S \in SUBSET Packets, OnTheWay(t, S) PROVE OnTheWay(t, S)'
    <3>1. p \notin S
      BY <1>1, <2>1 DEF OnTheWay
    <3>2. \A x \in Handles : \A q \in S : handle[x].pkt = q => handle'[x].pkt = q
      BY <1>1, <1>2, PacketAssumption
    <3>3. \A q \in S : mem'[q] = mem[q] /\ next'[q] = next[q]
      BY <1>1, <3>1 DEF IInv, Types
    <3>4. QED
      BY <1>3, <2>1, <3>2, <3>3 DEF OnTheWay
  <2>2. ASSUME NEW t \in Threads, NEW i \in DOMAIN stack[t], next[stack[t][i].pkt] = None
        PROVE  next'[stack[t][i].pkt] = None
    BY <1>1, <1>4, <2>2 DEF IInv, Types
  <2>3. QED
    BY <1>1, <2>1, <2>2 DEF IInv, Supported
<1>8. CountExact'
  <2>1. \A q \in Packets : Links(q)' = Links(q)
    BY <1>1, <1>3, PacketAssumption DEF Links, IInv, Types
  <2>2. \A q : Calls(q)' = Calls(q)
    BY <1>1 DEF Calls
  <2>3. Links(p) = {} /\ Calls(p) = {} /\ Held(p)' = {h}
    BY <1>2, <1>4 DEF Links, Calls, Held, Frame
  <2>4. \A q \in Packets \ {p} : Held(q)' = Held(q)
    BY <1>1, <1>2, PacketAssumption DEF Held
  <2>5. ASSUME NEW q \in Packets, mem'[q] = "live"
        PROVE  refcnt'[q] = Cardinality(Held(q)') + Cardinality(Links(q)') + Cardinality(Calls(q)')
    <3>1. CASE q = p
      <4>1. Cardinality(Held(p)') = 1 /\ Cardinality(Links(p)') = 0 /\ Cardinality(Calls(p)') = 0
        BY <2>1, <2>2, <2>3, FS_Singleton, FS_EmptySet
      <4>2. QED
        BY <1>1, <3>1, <4>1 DEF IInv, Types
    <3>2. CASE q # p
      BY <1>1, <2>1, <2>2, <2>4, <2>5, <3>2 DEF IInv, CountExact, Types
    <3>3. QED
      BY <3>1, <3>2
  <2>6. QED
    BY <2>5 DEF CountExact
<1>9. ReachLive'
  <2>1. \A x \in Packets : mem'[x] = IF x = p THEN "live" ELSE mem[x]
    BY <1>1 DEF IInv, Types
  <2>2. \A x \in Packets : next'[x] = IF x = p THEN None ELSE next[x]
    BY <1>1 DEF IInv, Types
  <2>3. \A x \in Handles : handle'[x].pkt # None => mem'[handle'[x].pkt] = "live"
    BY <1>1, <1>2, <2>1 DEF IInv, ReachLive, Types
  <2>4. \A x \in Packets : mem'[x] = "live" /\ next'[x] # None /\ ~Freeing(x)' => mem'[next'[x]] = "live"
    BY <1>1, <1>3, <1>4, <2>1, <2>2 DEF IInv, ReachLive, Types
  <2>5. \A t \in Threads : \A i \in DOMAIN stack'[t] : mem'[stack'[t][i].pkt] = "live"
    BY <1>6 DEF LiveCalls
  <2>6. QED
    BY <2>3, <2>4, <2>5 DEF ReachLive
<1>10. QED
  BY <1>5, <1>6, <1>7, <1>8, <1>9 DEF IInv

------------------------------------------------------------------------------
(* A thread that ends no packet it did not end before.                     *)
LEMMA EndsOnceKept ==
    ASSUME IInv, NEW t \in Threads, \A u \in Threads \ {t} : stack'[u] = stack[u],
           \A i \in DOMAIN stack'[t] : Ending(stack'[t][i]) =>
               i \in DOMAIN stack[t] /\ Ending(stack[t][i]) /\ stack[t][i].pkt = stack'[t][i].pkt
    PROVE  EndsOnce'
<1> SUFFICES ASSUME NEW u \in Threads, NEW v \in Threads, NEW i \in DOMAIN stack'[u], NEW j \in DOMAIN stack'[v],
                    Ending(stack'[u][i]), Ending(stack'[v][j]), stack'[u][i].pkt = stack'[v][j].pkt
             PROVE  u = v /\ i = j
  BY DEF EndsOnce, Ending
<1>1. i \in DOMAIN stack[u] /\ Ending(stack[u][i]) /\ stack[u][i].pkt = stack'[u][i].pkt
  <2>1. CASE u = t
    BY <2>1
  <2>2. CASE u # t
    <3>1. stack'[u] = stack[u]
      BY <2>2
    <3>2. QED
      BY <3>1
  <2>3. QED
    BY <2>1, <2>2
<1>2. j \in DOMAIN stack[v] /\ Ending(stack[v][j]) /\ stack[v][j].pkt = stack'[v][j].pkt
  <2>1. CASE v = t
    BY <2>1
  <2>2. CASE v # t
    <3>1. stack'[v] = stack[v]
      BY <2>2
    <3>2. QED
      BY <3>1
  <2>3. QED
    BY <2>1, <2>2
<1>3. QED
  BY <1>1, <1>2 DEF IInv, Once, EndsOnce

(* A call begins: what it makes of owners and of who is freed.             *)
LEMMA BegunCalls ==
    ASSUME Types, NEW t \in Threads, NEW f \in Frames, stack[t] = << >>,
           stack' = [stack EXCEPT ![t] = <<f>>], ~Ending(f)
    PROVE  /\ \A q : /\ t \notin Calls(q)
                     /\ Calls(q)' = IF f = Frame("free", q, None) \/ f.add = q
                                    THEN Calls(q) \cup {t} ELSE Calls(q)
           /\ \A q : Dying(q)' = Dying(q) /\ Freeing(q)' = Freeing(q)
<1>1. /\ \A u \in Threads \ {t} : stack'[u] = stack[u]
      /\ DOMAIN stack'[t] = {1} /\ stack'[t][1] = f
      /\ DOMAIN stack[t] = {}
  BY BeginStack
<1>2. \A q : /\ t \notin Calls(q)
             /\ Calls(q)' = IF f = Frame("free", q, None) \/ f.add = q
                            THEN Calls(q) \cup {t} ELSE Calls(q)
  BY <1>1 DEF Calls
<1>3. \A q : Dying(q)' = Dying(q) /\ Freeing(q)' = Freeing(q)
  BY <1>1 DEF Dying, Freeing, Ending
<1>4. QED
  BY <1>2, <1>3

LEMMA BegunStacks ==
    ASSUME IInv, NEW t \in Threads, NEW f \in Frames, stack[t] = << >>,
           stack' = [stack EXCEPT ![t] = <<f>>], ~Ending(f),
           f.pc = "free" => f.add = None,
           f.pc # "free" => f.add # None /\ \A u \in Threads : ~Extending(u)
    PROVE  Stacks'
<1>1. /\ \A u \in Threads \ {t} : stack'[u] = stack[u]
      /\ Len(stack'[t]) = 1 /\ DOMAIN stack'[t] = {1} /\ stack'[t][1] = f
  BY BeginStack DEF IInv
<1>2. f.pc \in {"free", "walk", "link"}
  BY DEF Frames, Ending
<1>3. \A u \in Threads : \A i \in DOMAIN stack'[u] :
          /\ i # Len(stack'[u]) => stack'[u][i].pc = "memory"
          /\ stack'[u][i].pc \in {"walk", "link"} => Len(stack'[u]) = 1 /\ stack'[u][i].add # None
          /\ stack'[u][i].pc \notin {"walk", "link"} => stack'[u][i].add = None
  BY <1>1, <1>2 DEF IInv, Stacks
<1>4. \A u, v \in Threads : Extending(u)' /\ Extending(v)' => u = v
  <2>1. \A u \in Threads \ {t} : Extending(u)' => Extending(u)
    BY <1>1 DEF Extending
  <2>2. Extending(t)' => f.pc # "free"
    BY <1>1 DEF Extending
  <2>3. QED
    BY <2>1, <2>2 DEF IInv, Stacks
<1>5. QED
  BY <1>3, <1>4 DEF Stacks

LEMMA DropKeeps ==
    ASSUME IInv, NEW h \in Handles, Drop(h)
    PROVE  IInv'
<1> DEFINE t == h[1]
<1>1. t \in Threads /\ stack[t] = << >>
  BY DEF Drop, Using, Ready, Handles
<1>2. PICK p \in Packets : p = handle[h].pkt
  BY DEF Drop, Using, IInv, Types
<1>3. /\ p # None /\ mem[p] = "live" /\ h \in Held(p)
  BY <1>2, PacketAssumption DEF IInv, ReachLive, Held
<1>4. PICK f \in Frames : f = Frame("free", p, None)
  BY DEF Frame, Frames
<1>5. /\ stack' = [stack EXCEPT ![t] = <<f>>] /\ UNCHANGED <<mem, refcnt, next>>
      /\ DOMAIN handle' = Handles /\ DOMAIN handle'[h] = HandleFields /\ handle'[h].pkt = None
      /\ \A x \in Handles \ {h} : handle'[x] = handle[x]
  BY <1>2, <1>4 DEF Drop, IInv, Types, Empty, HandleFields
<1>6. /\ stack' \in [Threads -> Seq(Frames)]
      /\ \A u \in Threads \ {t} : stack'[u] = stack[u]
      /\ DOMAIN stack'[t] = {1} /\ stack'[t][1] = f
  BY <1>1, <1>5, BeginStack DEF IInv
<1>7. ~Ending(f) /\ f.pc = "free" /\ f.add = None /\ f.pkt = p
  BY <1>4 DEF Ending, Frame
<1>8. /\ \A q : /\ t \notin Calls(q)
                /\ Calls(q)' = IF f = Frame("free", q, None) \/ f.add = q
                               THEN Calls(q) \cup {t} ELSE Calls(q)
      /\ \A q : Dying(q)' = Dying(q) /\ Freeing(q)' = Freeing(q)
  BY <1>1, <1>5, <1>7, BegunCalls DEF IInv
<1>9. Types' /\ Stacks'
  BY <1>1, <1>5, <1>6, <1>7, BegunStacks DEF IInv, Types
<1>10. LiveCalls'
  BY <1>3, <1>5, <1>6, <1>7 DEF IInv, LiveCalls
<1>11. Once'
  <2>1. EndsOnce'
    BY <1>1, <1>6, <1>7, EndsOnceKept
  <2>2. QED
    BY <1>5, <1>8, <2>1 DEF IInv, Once
<1>12. Supported'
  <2>1. ASSUME NEW u \in Threads \ {t}, NEW S \in SUBSET Packets, OnTheWay(u, S) PROVE OnTheWay(u, S)'
    BY <1>5, <1>8, <2>1 DEF OnTheWay
  <2>2. QED
    BY <1>5, <1>6, <1>7, <2>1 DEF IInv, Supported
<1>13. CountExact'
  <2>1. \A q : Links(q)' = Links(q)
    BY <1>5, <1>8 DEF Links
  <2>2. Held(p)' = Held(p) \ {h} /\ \A q \in Packets \ {p} : Held(q)' = Held(q)
    BY <1>2, <1>5, PacketAssumption DEF Held
  <2>3. Calls(p)' = Calls(p) \cup {t} /\ \A q \in Packets \ {p} : Calls(q)' = Calls(q)
    BY <1>4, <1>7, <1>8, PacketAssumption DEF Frame
  <2>4. /\ Cardinality(Held(p)') = Cardinality(Held(p)) - 1
        /\ Cardinality(Calls(p)') = Cardinality(Calls(p)) + 1
    <3>1. IsFiniteSet(Held(p)) /\ IsFiniteSet(Calls(p)) /\ h \in Held(p) /\ t \notin Calls(p)
      BY <1>3, <1>8, OwnersFinite
    <3>2. Cardinality(Held(p) \ {h}) = Cardinality(Held(p)) - 1
      BY <3>1, FS_RemoveElement
    <3>3. Cardinality(Calls(p) \cup {t}) = Cardinality(Calls(p)) + 1
      BY <3>1, FS_AddElement
    <3>4. QED
      BY <2>2, <2>3, <3>2, <3>3
  <2>5. ASSUME NEW q \in Packets, mem'[q] = "live"
        PROVE  refcnt'[q] = Cardinality(Held(q)') + Cardinality(Links(q)') + Cardinality(Calls(q)')
    <3>1. refcnt[q] = Cardinality(Held(q)) + Cardinality(Links(q)) + Cardinality(Calls(q))
      BY <1>5, <2>5 DEF IInv, CountExact
    <3>2. Cardinality(Held(q)) \in Nat /\ Cardinality(Links(q)) \in Nat /\ Cardinality(Calls(q)) \in Nat
      BY OwnersFinite, FS_CardinalityType
    <3>3. CASE q = p
      BY <1>5, <2>1, <2>4, <3>1, <3>2, <3>3
    <3>4. CASE q # p
      BY <1>5, <2>1, <2>2, <2>3, <3>1, <3>4
    <3>5. QED
      BY <3>3, <3>4
  <2>6. QED
    BY <2>5 DEF CountExact
<1>14. ReachLive'
  BY <1>5, <1>8, <1>10 DEF IInv, ReachLive, LiveCalls
<1>15. QED
  BY <1>9, <1>10, <1>11, <1>12, <1>13, <1>14 DEF IInv

(* A packet goes from one handle of a thread to another.                   *)
LEMMA TakeOverKeeps ==
    ASSUME IInv, NEW h \in Handles, NEW g \in Handles, TakeOver(h, g)
    PROVE  IInv'
<1>1. PICK p \in Packets : p = handle[g].pkt
  BY DEF TakeOver, Using, IInv, Types
<1>2. /\ p # None /\ h # g /\ handle[h].pkt = None /\ g \in Held(p) /\ h \notin Held(p)
      /\ mem[p] = "live" /\ h[1] = g[1] /\ stack[h[1]] = << >>
  BY <1>1, PacketAssumption DEF TakeOver, Unused, Ready, Held, IInv, ReachLive
<1>3. /\ UNCHANGED <<mem, refcnt, next, stack>>
      /\ DOMAIN handle' = Handles
      /\ DOMAIN handle'[h] = HandleFields /\ handle'[h].pkt = p
      /\ DOMAIN handle'[g] = HandleFields /\ handle'[g].pkt = None
      /\ \A x \in Handles \ {g, h} : handle'[x] = handle[x]
  BY <1>1, <1>2 DEF TakeOver, IInv, Types, Empty, HandleFields
<1>4. \A q : Dying(q)' = Dying(q) /\ Freeing(q)' = Freeing(q)
  BY <1>3 DEF Dying, Freeing
<1>5. Types' /\ Stacks' /\ LiveCalls'
  BY <1>3 DEF IInv, Types, Stacks, LiveCalls, Extending
<1>6. Once'
  BY <1>3, <1>4 DEF IInv, Once, EndsOnce
<1>7. Supported'
  <2>1. ASSUME NEW u \in Threads, u # h[1], NEW S \in SUBSET Packets, OnTheWay(u, S) PROVE OnTheWay(u, S)'
    BY <1>2, <1>3, <1>4, <2>1 DEF OnTheWay
  <2>2. DOMAIN stack[h[1]] = {}
    BY <1>2, EmptySeq
  <2>3. QED
    BY <1>3, <2>1, <2>2 DEF IInv, Supported
<1>8. CountExact'
  <2>1. \A q : Links(q)' = Links(q) /\ Calls(q)' = Calls(q)
    BY <1>3, <1>4 DEF Links, Calls
  <2>2. /\ Held(p)' = (Held(p) \ {g}) \cup {h}
        /\ \A q \in Packets \ {p} : Held(q)' = Held(q)
    BY <1>1, <1>2, <1>3, PacketAssumption DEF Held
  <2>3. Cardinality(Held(p)') = Cardinality(Held(p))
    <3>1. IsFiniteSet(Held(p) \ {g}) /\ Cardinality(Held(p) \ {g}) = Cardinality(Held(p)) - 1
      BY <1>2, OwnersFinite, FS_RemoveElement
    <3>2. Cardinality(Held(p)') = Cardinality(Held(p)) - 1 + 1
      BY <1>2, <2>2, <3>1, FS_AddElement
    <3>3. QED
      BY <3>2, OwnersFinite, FS_CardinalityType
  <2>4. QED
    BY <1>3, <2>1, <2>2, <2>3 DEF IInv, CountExact
<1>9. ReachLive'
  BY <1>2, <1>3, <1>4 DEF IInv, ReachLive
<1>10. QED
  BY <1>5, <1>6, <1>7, <1>8, <1>9 DEF IInv

(* The packet that is added belongs to the call from now on, and the call  *)
(* is on its way from a packet of its own.                                 *)
LEMMA AddPacketKeeps ==
    ASSUME IInv, NEW h \in Handles, NEW g \in Handles, AddPacket(h, g)
    PROVE  IInv'
<1> DEFINE t == h[1]
<1>1. t \in Threads /\ stack[t] = << >> /\ g[1] = t /\ h # g /\ \A u \in Threads : ~Extending(u)
  BY DEF AddPacket, Using, Ready, Handles
<1>2. PICK p \in Packets, q \in Packets : p = handle[h].pkt /\ q = handle[g].pkt
  BY DEF AddPacket, Using, IInv, Types
<1>3. /\ p # None /\ mem[p] = "live" /\ h \in Held(p)
      /\ q # None /\ mem[q] = "live" /\ g \in Held(q)
  BY <1>2, PacketAssumption DEF IInv, ReachLive, Held
<1>4. PICK f \in Frames : f = Frame("walk", p, q)
  BY DEF Frame, Frames
<1>5. /\ stack' = [stack EXCEPT ![t] = <<f>>] /\ UNCHANGED <<mem, refcnt, next>>
      /\ DOMAIN handle' = Handles /\ DOMAIN handle'[g] = HandleFields /\ handle'[g].pkt = None
      /\ \A x \in Handles \ {g} : handle'[x] = handle[x]
  BY <1>2, <1>4 DEF AddPacket, IInv, Types, Empty, HandleFields
<1>6. /\ stack' \in [Threads -> Seq(Frames)]
      /\ \A u \in Threads \ {t} : stack'[u] = stack[u]
      /\ DOMAIN stack'[t] = {1} /\ stack'[t][1] = f
  BY <1>1, <1>5, BeginStack DEF IInv
<1>7. ~Ending(f) /\ f.pc = "walk" /\ f.add = q /\ f.pkt = p
  BY <1>4 DEF Ending, Frame
<1>8. /\ \A x : /\ t \notin Calls(x)
                /\ Calls(x)' = IF f = Frame("free", x, None) \/ f.add = x
                               THEN Calls(x) \cup {t} ELSE Calls(x)
      /\ \A x : Dying(x)' = Dying(x) /\ Freeing(x)' = Freeing(x)
  BY <1>1, <1>5, <1>7, BegunCalls DEF IInv
<1>9. Types' /\ Stacks'
  BY <1>1, <1>3, <1>5, <1>6, <1>7, BegunStacks DEF IInv, Types
<1>10. LiveCalls'
  BY <1>3, <1>5, <1>6, <1>7 DEF IInv, LiveCalls
<1>11. Once'
  <2>1. EndsOnce'
    BY <1>1, <1>6, <1>7, EndsOnceKept
  <2>2. QED
    BY <1>5, <1>8, <2>1 DEF IInv, Once
<1>12. Supported'
  <2>1. ASSUME NEW u \in Threads \ {t}, NEW i \in DOMAIN stack'[u] PROVE stack'[u][i].pc \notin {"walk", "link"}
    <3>1. stack'[u] = stack[u] /\ ~Extending(u)
      BY <1>1, <1>6
    <3>2. QED
      BY <3>1 DEF Extending
  <2>2. OnTheWay(t, {p})'
    <3>1. ~Dying(p)'
      BY <1>3, <1>8, Owned
    <3>2. handle'[h].pkt = p /\ h[1] = t /\ mem'[p] = "live"
      BY <1>1, <1>2, <1>3, <1>5
    <3>3. QED
      BY <3>1, <3>2 DEF OnTheWay
  <2>3. QED
    BY <1>6, <1>7, <2>1, <2>2 DEF Supported
<1>13. CountExact'
  <2>1. \A x : Links(x)' = Links(x)
    BY <1>5, <1>8 DEF Links
  <2>2. Held(q)' = Held(q) \ {g} /\ \A x \in Packets \ {q} : Held(x)' = Held(x)
    BY <1>2, <1>5, PacketAssumption DEF Held
  <2>3. Calls(q)' = Calls(q) \cup {t} /\ \A x \in Packets \ {q} : Calls(x)' = Calls(x)
    BY <1>4, <1>7, <1>8, PacketAssumption DEF Frame
  <2>4. /\ Cardinality(Held(q)') = Cardinality(Held(q)) - 1
        /\ Cardinality(Calls(q)') = Cardinality(Calls(q)) + 1
    <3>1. IsFiniteSet(Held(q)) /\ IsFiniteSet(Calls(q)) /\ g \in Held(q) /\ t \notin Calls(q)
      BY <1>3, <1>8, OwnersFinite
    <3>2. Cardinality(Held(q) \ {g}) = Cardinality(Held(q)) - 1
      BY <3>1, FS_RemoveElement
    <3>3. Cardinality(Calls(q) \cup {t}) = Cardinality(Calls(q)) + 1
      BY <3>1, FS_AddElement
    <3>4. QED
      BY <2>2, <2>3, <3>2, <3>3
  <2>5. ASSUME NEW x \in Packets, mem'[x] = "live"
        PROVE  refcnt'[x] = Cardinality(Held(x)') + Cardinality(Links(x)') + Cardinality(Calls(x)')
    <3>1. refcnt[x] = Cardinality(Held(x)) + Cardinality(Links(x)) + Cardinality(Calls(x))
      BY <1>5, <2>5 DEF IInv, CountExact
    <3>2. Cardinality(Held(x)) \in Nat /\ Cardinality(Links(x)) \in Nat /\ Cardinality(Calls(x)) \in Nat
      BY OwnersFinite, FS_CardinalityType
    <3>3. CASE x = q
      BY <1>5, <2>1, <2>4, <3>1, <3>2, <3>3
    <3>4. CASE x # q
      BY <1>5, <2>1, <2>2, <2>3, <3>1, <3>4
    <3>5. QED
      BY <3>3, <3>4
  <2>6. QED
    BY <2>5 DEF CountExact
<1>14. ReachLive'
  BY <1>5, <1>8, <1>10 DEF IInv, ReachLive, LiveCalls
<1>15. QED
  BY <1>9, <1>10, <1>11, <1>12, <1>13, <1>14 DEF IInv

------------------------------------------------------------------------------
(* The call a thread is in.                                                *)
LEMMA Called ==
    ASSUME IInv, NEW t \in Threads, NEW pc, In(t, pc)
    PROVE  /\ stack[t] # << >> /\ Len(stack[t]) \in Nat \ {0}
           /\ DOMAIN stack[t] = 1 .. Len(stack[t]) /\ Len(stack[t]) \in DOMAIN stack[t]
           /\ Top(t) = stack[t][Len(stack[t])] /\ Top(t) \in Frames /\ Top(t).pc = pc
           /\ mem[Top(t).pkt] = "live"
           /\ Top(t).add # None => mem[Top(t).add] = "live"
           /\ pc \in {"walk", "link"} => Len(stack[t]) = 1 /\ Top(t).add \in Packets
           /\ pc \notin {"walk", "link"} => Top(t).add = None
<1>1. stack[t] \in Seq(Frames) /\ stack[t] # << >>
  BY DEF IInv, Types, In
<1>2. /\ Len(stack[t]) \in Nat \ {0} /\ DOMAIN stack[t] = 1 .. Len(stack[t])
      /\ Top(t) = stack[t][Len(stack[t])] /\ Top(t) \in Frames /\ Top(t).pc = pc
  BY <1>1, FrontOf DEF In, Top, Last
<1>3. Len(stack[t]) \in DOMAIN stack[t]
  BY <1>2
<1>4. /\ pc \in {"walk", "link"} => Len(stack[t]) = 1 /\ Top(t).add # None
      /\ pc \notin {"walk", "link"} => Top(t).add = None
  BY <1>2, <1>3 DEF IInv, Stacks
<1>5. mem[Top(t).pkt] = "live" /\ (Top(t).add # None => mem[Top(t).add] = "live")
  BY <1>2, <1>3 DEF IInv, LiveCalls
<1>6. QED
  BY <1>1, <1>2, <1>3, <1>4, <1>5 DEF Frames

LEMMA FreeingIsDying == \A p : Freeing(p) => Dying(p)
  BY DEF Freeing, Dying, Ending

LEMMA WalkKeeps ==
    ASSUME IInv, NEW t \in Threads, Walk(t)
    PROVE  IInv'
<1>1. PICK p \in Packets, q \in Packets : p = Top(t).pkt /\ q = Top(t).add
  BY Called DEF Walk, Frames
<1>2. /\ stack[t] # << >> /\ Len(stack[t]) = 1 /\ DOMAIN stack[t] = {1}
      /\ stack[t][1] = Top(t) /\ Top(t).pc = "walk" /\ p # None /\ q # None
      /\ mem[p] = "live" /\ mem[q] = "live" /\ Extending(t)
  <2>1. stack[t] # << >> /\ Len(stack[t]) = 1 /\ Top(t).pc = "walk" /\ stack[t][1] = Top(t)
        /\ DOMAIN stack[t] = 1 .. 1 /\ mem[p] = "live" /\ (q # None => mem[q] = "live")
    BY <1>1, Called DEF Walk
  <2>2. QED
    BY <2>1, PacketAssumption DEF Extending
<1>3. PICK f \in Frames : f = IF next[p] = None THEN Frame("link", p, q) ELSE Frame("walk", next[p], q)
  <2>1. next[p] = None => Frame("link", p, q) \in Frames
    BY DEF Frame, Frames
  <2>2. next[p] # None => Frame("walk", next[p], q) \in Frames
    BY DEF Frame, Frames, IInv, Types
  <2>3. QED
    BY <2>1, <2>2
<1>4. Goto(t, f) /\ UNCHANGED <<mem, refcnt, next, length, offset, handle>>
  BY <1>1, <1>3 DEF Walk
<1>5. /\ stack' \in [Threads -> Seq(Frames)]
      /\ \A u \in Threads \ {t} : stack'[u] = stack[u]
      /\ Len(stack'[t]) = 1 /\ DOMAIN stack'[t] = {1} /\ stack'[t][1] = f
  <2>1. /\ stack' \in [Threads -> Seq(Frames)]
        /\ \A u \in Threads \ {t} : stack'[u] = stack[u]
        /\ Len(stack'[t]) = Len(stack[t]) /\ DOMAIN stack'[t] = 1 .. Len(stack[t])
        /\ stack'[t][Len(stack[t])] = f
    BY <1>2, <1>4, GotoStack DEF IInv
  <2>2. QED
    BY <1>2, <2>1
<1>6. f.pc \in {"walk", "link"} /\ f.add = q /\ ~Ending(f) /\ ~Ending(Top(t))
  BY <1>2, <1>3 DEF Frame, Ending
<1>7. \A x : Dying(x)' = Dying(x) /\ Freeing(x)' = Freeing(x)
  BY <1>2, <1>5, <1>6 DEF Dying, Freeing, Ending
<1>8. Types'
  BY <1>4, <1>5 DEF IInv, Types
<1>9. Stacks'
  <2>1. \A u \in Threads : Extending(u)' => Extending(u)
    BY <1>2, <1>5 DEF Extending
  <2>2. QED
    BY <1>2, <1>5, <1>6, <2>1 DEF IInv, Stacks
<1>10. ASSUME next[p] # None
       PROVE  next[p] \in Packets /\ mem[next[p]] = "live"
  <2>1. ~Freeing(p)
    BY <1>1, <1>2, FreeingIsDying DEF IInv, Supported, OnTheWay
  <2>2. QED
    BY <1>2, <1>10, <2>1 DEF IInv, ReachLive, Types
<1>11. LiveCalls'
  <2>1. mem[f.pkt] = "live" /\ mem[f.add] = "live"
    BY <1>2, <1>3, <1>10 DEF Frame
  <2>2. QED
    BY <1>4, <1>5, <2>1 DEF IInv, LiveCalls
<1>12. Once'
  <2>1. EndsOnce'
    BY <1>5, <1>6, EndsOnceKept
  <2>2. QED
    BY <1>4, <1>7, <2>1 DEF IInv, Once
<1>13. Supported'
  <2>1. ASSUME NEW u \in Threads \ {t}, NEW i \in DOMAIN stack'[u] PROVE stack'[u][i].pc \notin {"walk", "link"}
    <3>1. stack'[u] = stack[u] /\ ~Extending(u)
      BY <1>2, <1>5 DEF IInv, Stacks
    <3>2. QED
      BY <3>1 DEF Extending
  <2>2. PICK S \in SUBSET Packets : p \in S /\ OnTheWay(t, S)
    BY <1>1, <1>2 DEF IInv, Supported
  <2>3. ASSUME NEW R \in SUBSET Packets, OnTheWay(t, R) PROVE OnTheWay(t, R)'
    BY <1>4, <1>7, <2>3 DEF OnTheWay
  <2>4. \E R \in SUBSET Packets : f.pkt \in R /\ OnTheWay(t, R)'
    <3>1. CASE next[p] = None
      BY <1>3, <2>2, <2>3, <3>1 DEF Frame
    <3>2. CASE next[p] # None
      <4>1. /\ next[p] \in Packets /\ mem[next[p]] = "live" /\ p \in Links(next[p])
        <5>1. ~Freeing(p)
          BY <2>2, FreeingIsDying DEF OnTheWay
        <5>2. QED
          BY <1>2, <1>10, <3>2, <5>1 DEF Links
      <4>2. ~Dying(next[p])
        BY <4>1, Owned
      <4>3. OnTheWay(t, S \cup {next[p]})
        BY <2>2, <4>1, <4>2 DEF OnTheWay
      <4>4. OnTheWay(t, S \cup {next[p]})'
        BY <1>4, <1>7, <4>3 DEF OnTheWay
      <4>5. PICK R \in SUBSET Packets : R = S \cup {next[p]}
        BY <4>1
      <4>6. f.pkt \in R
        BY <1>3, <3>2, <4>5 DEF Frame
      <4>7. OnTheWay(t, R)'
        BY <2>3, <4>3, <4>5
      <4>8. QED
        BY <4>6, <4>7
    <3>3. QED
      BY <3>1, <3>2
  <2>5. f.pc = "link" => next'[f.pkt] = None
    BY <1>3, <1>4 DEF Frame
  <2>6. QED
    BY <1>5, <2>1, <2>4, <2>5 DEF Supported
<1>14. CountExact'
  <2>1. \A x : Held(x)' = Held(x) /\ Links(x)' = Links(x)
    BY <1>4, <1>7 DEF Held, Links
  <2>2. \A x : Calls(x)' = Calls(x)
    <3>1. \A x : Top(t) # Frame("free", x, None) /\ f # Frame("free", x, None)
      BY <1>2, <1>6 DEF Frame
    <3>2. Top(t).add = q
      BY <1>1
    <3>3. QED
      BY <1>2, <1>5, <1>6, <3>1, <3>2 DEF Calls
  <2>3. QED
    BY <1>4, <2>1, <2>2 DEF IInv, CountExact
<1>15. ReachLive'
  BY <1>4, <1>7, <1>11 DEF IInv, ReachLive, LiveCalls
<1>16. QED
  BY <1>8, <1>9, <1>11, <1>12, <1>13, <1>14, <1>15 DEF IInv

(* The call gives its packet to the last one of the chain.                 *)
LEMMA LinkKeeps ==
    ASSUME IInv, NEW t \in Threads, Link(t)
    PROVE  IInv'
<1>1. PICK p \in Packets, q \in Packets : p = Top(t).pkt /\ q = Top(t).add
  BY Called DEF Link, Frames
<1>2. /\ stack[t] # << >> /\ Len(stack[t]) = 1 /\ DOMAIN stack[t] = {1}
      /\ stack[t][1] = Top(t) /\ Top(t).pc = "link" /\ p # None /\ q # None
      /\ mem[p] = "live" /\ mem[q] = "live" /\ Extending(t)
  <2>1. stack[t] # << >> /\ Len(stack[t]) = 1 /\ Top(t).pc = "link" /\ stack[t][1] = Top(t)
        /\ DOMAIN stack[t] = 1 .. 1 /\ mem[p] = "live" /\ (q # None => mem[q] = "live")
    BY <1>1, Called DEF Link
  <2>2. QED
    BY <2>1, PacketAssumption DEF Extending
<1>3. next[p] = None /\ ~Freeing(p)
  BY <1>1, <1>2, FreeingIsDying DEF IInv, Supported, OnTheWay
<1>4. /\ Leave(t) /\ UNCHANGED <<mem, refcnt, handle>>
      /\ next' \in [Packets -> Packets \cup {None}] /\ next'[p] = q
      /\ \A x \in Packets \ {p} : next'[x] = next[x]
  BY <1>1 DEF Link, IInv, Types
<1>5. /\ stack' \in [Threads -> Seq(Frames)]
      /\ \A u \in Threads \ {t} : stack'[u] = stack[u]
      /\ DOMAIN stack'[t] = {}
  <2>1. /\ stack' \in [Threads -> Seq(Frames)]
        /\ \A u \in Threads \ {t} : stack'[u] = stack[u]
        /\ DOMAIN stack'[t] = 1 .. Len(stack[t]) - 1
    BY <1>2, <1>4, LeaveStack DEF IInv
  <2>2. QED
    BY <1>2, <2>1
<1>6. ~Ending(Top(t)) /\ \A x : Top(t) # Frame("free", x, None)
  BY <1>2 DEF Frame, Ending
<1>7. \A x : Dying(x)' = Dying(x) /\ Freeing(x)' = Freeing(x)
  <2>1. \A i \in DOMAIN stack[t] : ~Ending(stack[t][i]) /\ stack[t][i].pc # "memory"
    BY <1>2 DEF Ending
  <2>2. \A u \in Threads \ {t} : DOMAIN stack'[u] = DOMAIN stack[u] /\ \A i \in DOMAIN stack[u] : stack'[u][i] = stack[u][i]
    BY <1>5
  <2>3. ASSUME NEW x PROVE Dying(x)' = Dying(x)
    BY <1>5, <2>1, <2>2 DEF Dying, Ending
  <2>4. ASSUME NEW x PROVE Freeing(x)' = Freeing(x)
    BY <1>5, <2>1, <2>2 DEF Freeing
  <2>5. QED
    BY <2>3, <2>4
<1>8. Types' /\ LiveCalls'
  <2>1. Types'
    BY <1>4, <1>5 DEF IInv, Types
  <2>2. \A u \in Threads : \A i \in DOMAIN stack'[u] : i \in DOMAIN stack[u] /\ stack'[u][i] = stack[u][i]
    BY <1>5
  <2>3. LiveCalls'
    BY <1>4, <2>2 DEF IInv, LiveCalls
  <2>4. QED
    BY <2>1, <2>3
<1>9. Stacks' /\ \A u \in Threads : ~Extending(u)'
  <2>1. \A u \in Threads : ~Extending(u)'
    <3>1. ~Extending(t)'
      BY <1>5 DEF Extending
    <3>2. \A u \in Threads \ {t} : ~Extending(u)
      BY <1>2 DEF IInv, Stacks
    <3>3. \A u \in Threads \ {t} : Extending(u)' = Extending(u)
      BY <1>5 DEF Extending
    <3>4. QED
      BY <3>1, <3>2, <3>3
  <2>2. QED
    BY <1>5, <2>1 DEF IInv, Stacks
<1>10. Once'
  <2>1. EndsOnce'
    BY <1>5, EndsOnceKept
  <2>2. QED
    BY <1>4, <1>7, <2>1 DEF IInv, Once
<1>11. Supported'
  BY <1>9 DEF Supported, Extending
<1>12. CountExact'
  <2>1. \A x : Held(x)' = Held(x)
    BY <1>4 DEF Held
  <2>2. /\ p \notin Links(q) /\ Links(q)' = Links(q) \cup {p}
        /\ \A x \in Packets \ {q} : Links(x)' = Links(x)
    BY <1>2, <1>3, <1>4, <1>7, PacketAssumption DEF Links
  <2>3. /\ t \in Calls(q) /\ Calls(q)' = Calls(q) \ {t}
        /\ \A x \in Packets \ {q} : Calls(x)' = Calls(x)
    BY <1>1, <1>2, <1>5, <1>6 DEF Calls
  <2>4. /\ Cardinality(Links(q)') = Cardinality(Links(q)) + 1
        /\ Cardinality(Calls(q)') = Cardinality(Calls(q)) - 1
    <3>1. IsFiniteSet(Links(q)) /\ IsFiniteSet(Calls(q))
      BY OwnersFinite
    <3>2. Cardinality(Links(q) \cup {p}) = Cardinality(Links(q)) + 1
      BY <2>2, <3>1, FS_AddElement
    <3>3. Cardinality(Calls(q) \ {t}) = Cardinality(Calls(q)) - 1
      BY <2>3, <3>1, FS_RemoveElement
    <3>4. QED
      BY <2>2, <2>3, <3>2, <3>3
  <2>5. ASSUME NEW x \in Packets, mem'[x] = "live"
        PROVE  refcnt'[x] = Cardinality(Held(x)') + Cardinality(Links(x)') + Cardinality(Calls(x)')
    <3>1. refcnt[x] = Cardinality(Held(x)) + Cardinality(Links(x)) + Cardinality(Calls(x))
      BY <1>4, <2>5 DEF IInv, CountExact
    <3>2. Cardinality(Held(x)) \in Nat /\ Cardinality(Links(x)) \in Nat /\ Cardinality(Calls(x)) \in Nat
      BY OwnersFinite, FS_CardinalityType
    <3>3. CASE x = q
      BY <1>4, <2>1, <2>4, <3>1, <3>2, <3>3
    <3>4. CASE x # q
      BY <1>4, <2>1, <2>2, <2>3, <3>1, <3>4
    <3>5. QED
      BY <3>3, <3>4
  <2>6. QED
    BY <2>5 DEF CountExact
<1>13. ReachLive'
  <2>1. \A h \in Handles : handle'[h].pkt # None => mem'[handle'[h].pkt] = "live"
    BY <1>4 DEF IInv, ReachLive
  <2>2. \A x \in Packets : mem'[x] = "live" /\ next'[x] # None /\ ~Freeing(x)' => mem'[next'[x]] = "live"
    BY <1>2, <1>4, <1>7 DEF IInv, ReachLive
  <2>3. QED
    BY <1>8, <2>1, <2>2 DEF ReachLive, LiveCalls
<1>14. QED
  BY <1>8, <1>9, <1>10, <1>11, <1>12, <1>13 DEF IInv

------------------------------------------------------------------------------
(* free(): the call is an owner no longer.                                 *)
LEMMA FreeCountKeeps ==
    ASSUME IInv, NEW t \in Threads, FreeCount(t)
    PROVE  IInv'
<1> DEFINE n == Len(stack[t])
<1>1. PICK p \in Packets : p = Top(t).pkt
  BY Called DEF FreeCount, Frames
<1>2. /\ stack[t] # << >> /\ n \in Nat \ {0} /\ DOMAIN stack[t] = 1 .. n /\ n \in DOMAIN stack[t]
      /\ stack[t][n] = Top(t) /\ Top(t).pc = "free" /\ Top(t).add = None /\ Top(t) \in Frames
      /\ mem[p] = "live" /\ p # None
  BY <1>1, Called, PacketAssumption DEF FreeCount
<1>3. Top(t) = Frame("free", p, None)
  BY <1>1, <1>2 DEF Frames, Frame
<1>4. t \in Calls(p) /\ refcnt[p] >= 1 /\ ~Dying(p) /\ refcnt[p] \in Int
  <2>1. t \in Calls(p)
    BY <1>2, <1>3 DEF Calls
  <2>2. QED
    BY <1>2, <2>1, Owned DEF IInv, Types
<1>5. /\ refcnt' \in [Packets -> Int] /\ refcnt'[p] = refcnt[p] - 1
      /\ \A x \in Packets \ {p} : refcnt'[x] = refcnt[x]
      /\ UNCHANGED <<mem, next, handle>>
  BY <1>1 DEF FreeCount, IInv, Types
<1>6. \A i \in DOMAIN stack[t] : i # n => stack[t][i].pc = "memory" /\ stack[t][i].add = None
  BY DEF IInv, Stacks
<1>7. PICK f \in Frames : f = Frame("next", p, None)
  BY DEF Frame, Frames
<1>8. /\ stack' \in [Threads -> Seq(Frames)]
      /\ \A u \in Threads \ {t} : stack'[u] = stack[u]
      /\ \A i \in 1 .. n - 1 : i \in DOMAIN stack'[t] /\ stack'[t][i] = stack[t][i]
      /\ refcnt[p] = 1 => DOMAIN stack'[t] = 1 .. n /\ Len(stack'[t]) = n /\ stack'[t][n] = f
      /\ refcnt[p] # 1 => DOMAIN stack'[t] = 1 .. n - 1 /\ Len(stack'[t]) = n - 1
  <2>1. CASE refcnt[p] = 1
    <3>1. Goto(t, f)
      BY <1>1, <1>7, <2>1 DEF FreeCount
    <3>2. /\ stack' \in [Threads -> Seq(Frames)]
          /\ \A u \in Threads \ {t} : stack'[u] = stack[u]
          /\ Len(stack'[t]) = n /\ DOMAIN stack'[t] = 1 .. n
          /\ \A i \in 1 .. n - 1 : stack'[t][i] = stack[t][i]
          /\ stack'[t][n] = f
      BY <1>2, <3>1, GotoStack DEF IInv
    <3>3. QED
      BY <1>2, <2>1, <3>2
  <2>2. CASE refcnt[p] # 1
    <3>1. Leave(t)
      BY <1>1, <2>2 DEF FreeCount
    <3>2. /\ stack' \in [Threads -> Seq(Frames)]
          /\ \A u \in Threads \ {t} : stack'[u] = stack[u]
          /\ Len(stack'[t]) = n - 1 /\ DOMAIN stack'[t] = 1 .. n - 1
          /\ \A i \in 1 .. n - 1 : stack'[t][i] = stack[t][i]
      BY <1>2, <3>1, LeaveStack DEF IInv
    <3>3. QED
      BY <2>2, <3>2
  <2>3. QED
    BY <2>1, <2>2
<1>9. f.pc = "next" /\ f.pkt = p /\ f.add = None /\ Ending(f) /\ \A x : f # Frame("free", x, None)
  BY <1>7 DEF Frame, Ending
<1>10. \A i \in DOMAIN stack'[t] : (i \in 1 .. n - 1) \/ (i = n /\ refcnt[p] = 1 /\ stack'[t][i] = f)
  BY <1>2, <1>8
<1>11. /\ \A x \in Packets \ {p} : Dying(x)' = Dying(x)
       /\ Dying(p)' <=> refcnt[p] = 1
       /\ \A x : Freeing(x)' = Freeing(x)
  <2>1. \A u \in Threads : \A i \in DOMAIN stack[u] :
           \/ u = t /\ i = n /\ ~Ending(stack[u][i])
           \/ i \in DOMAIN stack'[u] /\ stack'[u][i] = stack[u][i]
    <3>1. ~Ending(stack[t][n])
      BY <1>2 DEF Ending
    <3>2. \A i \in DOMAIN stack[t] : i \in 1 .. n - 1 \/ i = n
      BY <1>2
    <3>3. QED
      BY <1>8, <3>1, <3>2
  <2>2. \A u \in Threads : \A i \in DOMAIN stack'[u] :
           \/ stack'[u][i] = f /\ refcnt[p] = 1
           \/ i \in DOMAIN stack[u] /\ stack'[u][i] = stack[u][i]
    <3>1. \A i \in 1 .. n - 1 : i \in DOMAIN stack[t] /\ stack'[t][i] = stack[t][i]
      BY <1>2, <1>8
    <3>2. QED
      BY <1>8, <1>10, <3>1
  <2>3. ASSUME NEW x PROVE Dying(x) => Dying(x)'
    <3> SUFFICES ASSUME NEW u \in Threads, NEW i \in DOMAIN stack[u], stack[u][i].pkt = x, Ending(stack[u][i])
                 PROVE  Dying(x)'
      BY DEF Dying
    <3>1. i \in DOMAIN stack'[u] /\ stack'[u][i] = stack[u][i]
      BY <2>1
    <3>2. QED
      BY <3>1 DEF Dying, Ending
  <2>4. ASSUME NEW x, Dying(x)' PROVE Dying(x) \/ (x = p /\ refcnt[p] = 1)
    <3>1. PICK u \in Threads : \E i \in DOMAIN stack'[u] : stack'[u][i].pkt = x /\ stack'[u][i].pc \in {"next", "memory"}
      BY <2>4 DEF Dying, Ending
    <3>2. PICK i \in DOMAIN stack'[u] : stack'[u][i].pkt = x /\ Ending(stack'[u][i])
      BY <3>1 DEF Ending
    <3>3. QED
      BY <1>9, <2>2, <3>2 DEF Dying
  <2>5. refcnt[p] = 1 => Dying(p)'
    BY <1>2, <1>8, <1>9 DEF Dying, Ending
  <2>6. ASSUME NEW x PROVE Freeing(x) => Freeing(x)'
    BY <2>1 DEF Freeing, Ending
  <2>7. ASSUME NEW x PROVE Freeing(x)' => Freeing(x)
    BY <1>9, <2>2 DEF Freeing
  <2>8. ASSUME NEW x PROVE Freeing(x)' = Freeing(x)
    <3>1. Freeing(x) \in BOOLEAN /\ Freeing(x)' \in BOOLEAN
      BY DEF Freeing
    <3>2. QED
      BY <2>6, <2>7, <3>1
  <2>9. ASSUME NEW x \in Packets \ {p} PROVE Dying(x)' = Dying(x)
    <3>1. Dying(x) \in BOOLEAN /\ Dying(x)' \in BOOLEAN
      BY DEF Dying
    <3>2. QED
      BY <2>3, <2>4, <3>1
  <2>10. Dying(p)' <=> refcnt[p] = 1
    <3>1. Dying(p)' => refcnt[p] = 1
      BY <1>4, <2>4
    <3>2. QED
      BY <2>5, <3>1
  <2>11. QED
    BY <2>8, <2>9, <2>10
<1>12. Types'
  BY <1>5, <1>8 DEF IInv, Types
<1>13. Stacks'
  <2>1. ASSUME NEW i \in DOMAIN stack'[t]
        PROVE  /\ i # Len(stack'[t]) => stack'[t][i].pc = "memory"
               /\ stack'[t][i].pc \notin {"walk", "link"} /\ stack'[t][i].add = None
    BY <1>2, <1>6, <1>8, <1>9, <1>10
  <2>2. ~Extending(t)' /\ \A u \in Threads \ {t} : Extending(u)' = Extending(u)
    BY <1>8, <2>1 DEF Extending
  <2>3. \A u \in Threads \ {t} : DOMAIN stack'[u] = DOMAIN stack[u] /\ Len(stack'[u]) = Len(stack[u])
           /\ \A i \in DOMAIN stack'[u] : stack'[u][i] = stack[u][i]
    BY <1>8
  <2>4. \A u \in Threads : \A i \in DOMAIN stack'[u] :
          /\ i # Len(stack'[u]) => stack'[u][i].pc = "memory"
          /\ stack'[u][i].pc \in {"walk", "link"} => Len(stack'[u]) = 1 /\ stack'[u][i].add # None
          /\ stack'[u][i].pc \notin {"walk", "link"} => stack'[u][i].add = None
    BY <2>1, <2>3 DEF IInv, Stacks
  <2>5. \A u, v \in Threads : Extending(u)' /\ Extending(v)' => u = v
    BY <2>2 DEF IInv, Stacks
  <2>6. QED
    BY <2>4, <2>5 DEF Stacks
<1>14. LiveCalls'
  <2> SUFFICES ASSUME NEW u \in Threads, NEW i \in DOMAIN stack'[u]
               PROVE  /\ mem'[stack'[u][i].pkt] = "live"
                      /\ stack'[u][i].add # None => mem'[stack'[u][i].add] = "live"
    BY DEF LiveCalls
  <2>1. mem' = mem
    BY <1>5
  <2>2. CASE u = t /\ i = n /\ refcnt[p] = 1 /\ stack'[t][i] = f
    <3>1. mem[p] = "live"
      BY <1>2 DEF IInv, LiveCalls
    <3>2. QED
      BY <1>9, <2>1, <2>2, <3>1
  <2>3. CASE i \in DOMAIN stack[u] /\ stack'[u][i] = stack[u][i]
    BY <2>1, <2>3 DEF IInv, LiveCalls
  <2>4. QED
    <3>1. u # t => i \in DOMAIN stack[u] /\ stack'[u][i] = stack[u][i]
      BY <1>8
    <3>2. i \in 1 .. n - 1 /\ u = t => i \in DOMAIN stack[u] /\ stack'[u][i] = stack[u][i]
      BY <1>2, <1>8
    <3>3. QED
      BY <1>10, <2>2, <2>3, <3>1, <3>2
<1>15. Once'
  <2>1. EndsOnce'
    <3>1. CASE refcnt[p] # 1
      <4>1. \A i \in DOMAIN stack'[t] : i \in DOMAIN stack[t] /\ stack'[t][i] = stack[t][i]
        BY <1>2, <1>8, <1>10, <3>1
      <4>2. \A i \in DOMAIN stack'[t] : Ending(stack'[t][i]) =>
               i \in DOMAIN stack[t] /\ Ending(stack[t][i]) /\ stack[t][i].pkt = stack'[t][i].pkt
        BY <4>1
      <4>3. \A u \in Threads \ {t} : stack'[u] = stack[u]
        BY <1>8
      <4>4. QED
        BY <4>2, <4>3, EndsOnceKept
    <3>2. CASE refcnt[p] = 1
      <4> SUFFICES ASSUME NEW u \in Threads, NEW v \in Threads, NEW i \in DOMAIN stack'[u], NEW j \in DOMAIN stack'[v],
                          Ending(stack'[u][i]), Ending(stack'[v][j]), stack'[u][i].pkt = stack'[v][j].pkt
                   PROVE  u = v /\ i = j
        BY DEF EndsOnce, Ending
      <4>1. \A x \in Threads : \A k \in DOMAIN stack'[x] :
               (x = t /\ k = n /\ stack'[x][k].pkt = p) \/ (k \in DOMAIN stack[x] /\ stack'[x][k] = stack[x][k])
        <5>1. ASSUME NEW k \in DOMAIN stack'[t]
              PROVE  (k = n /\ stack'[t][k].pkt = p) \/ (k \in DOMAIN stack[t] /\ stack'[t][k] = stack[t][k])
          <6>1. CASE k \in 1 .. n - 1
            BY <1>2, <1>8, <6>1
          <6>2. CASE k = n /\ stack'[t][k] = f
            BY <1>9, <6>2
          <6>3. QED
            BY <1>10, <6>1, <6>2
        <5>2. \A x \in Threads \ {t} : \A k \in DOMAIN stack'[x] : k \in DOMAIN stack[x] /\ stack'[x][k] = stack[x][k]
          BY <1>8
        <5>3. QED
          BY <5>1, <5>2
      <4>2. \A x \in Threads : \A k \in DOMAIN stack[x] : Ending(stack[x][k]) => stack[x][k].pkt # p
        BY <1>4 DEF Dying
      <4>3. CASE u = t /\ i = n /\ stack'[u][i].pkt = p
        <5>1. ~(j \in DOMAIN stack[v] /\ stack'[v][j] = stack[v][j])
          BY <4>2, <4>3
        <5>2. QED
          BY <4>1, <4>3, <5>1
      <4>4. CASE i \in DOMAIN stack[u] /\ stack'[u][i] = stack[u][i]
        <5>1. stack'[u][i].pkt # p
          BY <4>2, <4>4
        <5>2. j \in DOMAIN stack[v] /\ stack'[v][j] = stack[v][j]
          BY <4>1, <5>1
        <5>3. QED
          BY <4>4, <5>2 DEF IInv, Once, EndsOnce
      <4>5. QED
        BY <4>1, <4>3, <4>4
    <3>3. QED
      BY <3>1, <3>2
  <2>2. \A x \in Packets : Dying(x)' => refcnt'[x] = 0
    BY <1>4, <1>5, <1>11 DEF IInv, Once
  <2>3. \A x \in Packets : mem'[x] = "live" /\ refcnt'[x] = 0 => Dying(x)'
    BY <1>4, <1>5, <1>11 DEF IInv, Once
  <2>4. QED
    BY <2>1, <2>2, <2>3 DEF Once
<1>16. Supported'
  <2>1. \A i \in DOMAIN stack'[t] : stack'[t][i].pc \notin {"walk", "link"}
    BY <1>2, <1>6, <1>8, <1>9, <1>10
  <2>2. ASSUME NEW u \in Threads, NEW S \in SUBSET Packets, OnTheWay(u, S) PROVE OnTheWay(u, S)'
    <3>1. ASSUME p \in S PROVE refcnt[p] # 1
      <4>1. Held(p) # {} \/ Links(p) # {}
        BY <2>2, <3>1, FreeingIsDying DEF OnTheWay, Held, Links
      <4>2. QED
        BY <1>2, <1>4, <4>1, OwnedTwice
    <3>2. \A x \in S : ~Dying(x)'
      BY <1>11, <2>2, <3>1 DEF OnTheWay
    <3>3. QED
      BY <1>5, <2>2, <3>2 DEF OnTheWay
  <2>3. ASSUME NEW u \in Threads, NEW i \in DOMAIN stack'[u], stack'[u][i].pc \in {"walk", "link"}
        PROVE  /\ \E S \in SUBSET Packets : stack'[u][i].pkt \in S /\ OnTheWay(u, S)'
               /\ stack'[u][i].pc = "link" => next'[stack'[u][i].pkt] = None
    <3>1. stack'[u] = stack[u]
      BY <1>8, <2>1, <2>3
    <3>2. i \in DOMAIN stack[u] /\ stack[u][i].pc \in {"walk", "link"}
      BY <2>3, <3>1
    <3>3. PICK S \in SUBSET Packets : stack[u][i].pkt \in S /\ OnTheWay(u, S)
      BY <3>2 DEF IInv, Supported
    <3>4. stack[u][i].pc = "link" => next[stack[u][i].pkt] = None
      BY <3>2 DEF IInv, Supported
    <3>5. OnTheWay(u, S)'
      BY <2>2, <3>3
    <3>6. QED
      BY <1>5, <3>1, <3>3, <3>4, <3>5
  <2>4. QED
    BY <2>3 DEF Supported
<1>17. CountExact'
  <2>1. \A x : Held(x)' = Held(x) /\ Links(x)' = Links(x)
    BY <1>5, <1>11 DEF Held, Links
  <2>2. t \notin Calls(p)'
    BY <1>2, <1>6, <1>8, <1>9, <1>10 DEF Calls, Frame
  <2>3. Calls(p)' = Calls(p) \ {t}
    BY <1>8, <2>2 DEF Calls
  <2>4. \A x \in Packets \ {p} : t \notin Calls(x) /\ t \notin Calls(x)'
    <3>1. \A x \in Packets \ {p} : t \notin Calls(x)
      BY <1>2, <1>3, <1>6, PacketAssumption DEF Calls, Frame
    <3>2. \A x \in Packets \ {p} : t \notin Calls(x)'
      <4>1. ASSUME NEW i \in DOMAIN stack'[t]
            PROVE  stack'[t][i].add = None /\ stack'[t][i].pc # "free"
        <5>1. CASE i \in 1 .. n - 1
          BY <1>2, <1>6, <1>8, <5>1
        <5>2. CASE stack'[t][i] = f
          BY <1>9, <5>2
        <5>3. QED
          BY <1>10, <5>1, <5>2
      <4>2. QED
        BY <4>1, PacketAssumption DEF Calls, Frame
    <3>3. QED
      BY <3>1, <3>2
  <2>5. \A x \in Packets \ {p} : Calls(x)' = Calls(x)
    BY <1>8, <2>4 DEF Calls
  <2>6. Cardinality(Calls(p)') = Cardinality(Calls(p)) - 1
    BY <1>4, <2>3, OwnersFinite, FS_RemoveElement
  <2>7. ASSUME NEW x \in Packets, mem'[x] = "live"
        PROVE  refcnt'[x] = Cardinality(Held(x)') + Cardinality(Links(x)') + Cardinality(Calls(x)')
    <3>1. refcnt[x] = Cardinality(Held(x)) + Cardinality(Links(x)) + Cardinality(Calls(x))
      BY <1>5, <2>7 DEF IInv, CountExact
    <3>2. Cardinality(Held(x)) \in Nat /\ Cardinality(Links(x)) \in Nat /\ Cardinality(Calls(x)) \in Nat
      BY OwnersFinite, FS_CardinalityType
    <3>3. CASE x = p
      BY <1>5, <2>1, <2>6, <3>1, <3>2, <3>3
    <3>4. CASE x # p
      BY <1>5, <2>1, <2>5, <3>1, <3>4
    <3>5. QED
      BY <3>3, <3>4
  <2>8. QED
    BY <2>7 DEF CountExact
<1>18. ReachLive'
  BY <1>5, <1>11, <1>14 DEF IInv, ReachLive, LiveCalls
<1>19. QED
  BY <1>12, <1>13, <1>14, <1>15, <1>16, <1>17, <1>18 DEF IInv

(* The memory goes: no owner was left, and no call is on the packet.       *)
LEMMA FreeMemoryKeeps ==
    ASSUME IInv, NEW t \in Threads, FreeMemory(t)
    PROVE  IInv'
<1> DEFINE n == Len(stack[t])
<1>1. PICK p \in Packets : p = Top(t).pkt
  BY Called DEF FreeMemory, Frames
<1>2. /\ stack[t] # << >> /\ n \in Nat \ {0} /\ DOMAIN stack[t] = 1 .. n /\ n \in DOMAIN stack[t]
      /\ stack[t][n] = Top(t) /\ Top(t).pc = "memory" /\ Top(t).add = None
      /\ mem[p] = "live" /\ p # None
  BY <1>1, Called, PacketAssumption DEF FreeMemory
<1>3. /\ Leave(t) /\ UNCHANGED <<refcnt, next, handle>>
      /\ mem' \in [Packets -> {"none", "live", "freed"}] /\ mem'[p] = "freed"
      /\ \A x \in Packets \ {p} : mem'[x] = mem[x]
  BY <1>1 DEF FreeMemory, IInv, Types
<1>4. /\ stack' \in [Threads -> Seq(Frames)]
      /\ \A u \in Threads \ {t} : stack'[u] = stack[u]
      /\ DOMAIN stack'[t] = 1 .. n - 1 /\ Len(stack'[t]) = n - 1
      /\ \A i \in 1 .. n - 1 : stack'[t][i] = stack[t][i]
  BY <1>2, <1>3, LeaveStack DEF IInv
<1>5. Dying(p) /\ Freeing(p) /\ refcnt[p] = 0
  <2>1. Freeing(p)
    BY <1>1, <1>2 DEF Freeing
  <2>2. QED
    BY <2>1, FreeingIsDying DEF IInv, Once
<1>6. Held(p) = {} /\ Links(p) = {} /\ Calls(p) = {}
  BY <1>2, <1>5, Unowned
<1>7. \A u \in Threads : \A i \in DOMAIN stack'[u] : i \in DOMAIN stack[u] /\ stack'[u][i] = stack[u][i]
  <2>1. \A i \in DOMAIN stack'[t] : i \in DOMAIN stack[t] /\ stack'[t][i] = stack[t][i]
    BY <1>2, <1>4
  <2>2. \A u \in Threads \ {t} : stack'[u] = stack[u]
    BY <1>4
  <2>3. QED
    BY <2>1, <2>2
<1>8. \A u \in Threads : \A i \in DOMAIN stack[u] :
         (u = t /\ i = n) \/ (i \in DOMAIN stack'[u] /\ stack'[u][i] = stack[u][i])
  <2>1. \A i \in DOMAIN stack[t] : i = n \/ i \in 1 .. n - 1
    BY <1>2
  <2>2. \A i \in DOMAIN stack[t] : i = n \/ (i \in DOMAIN stack'[t] /\ stack'[t][i] = stack[t][i])
    <3>1. \A i \in 1 .. n - 1 : i \in DOMAIN stack'[t] /\ stack'[t][i] = stack[t][i]
      BY <1>4
    <3>2. QED
      BY <2>1, <3>1
  <2>3. \A u \in Threads \ {t} : \A i \in DOMAIN stack[u] : i \in DOMAIN stack'[u] /\ stack'[u][i] = stack[u][i]
    BY <1>4
  <2>4. QED
    BY <2>2, <2>3
<1>9. ASSUME NEW u \in Threads, NEW i \in DOMAIN stack'[u]
      PROVE  stack'[u][i].pkt # p /\ stack'[u][i].add # p
  <2>1. i \in DOMAIN stack[u] /\ stack'[u][i] = stack[u][i] /\ stack[u][i] \in Frames
    <3>1. stack'[u] \in Seq(Frames)
      BY <1>4
    <3>2. QED
      BY <1>7, <3>1, ElementOfSeq, LenProperties
  <2>2. stack[u][i] # Frame("free", p, None) /\ stack[u][i].add # p
    BY <1>6, <2>1 DEF Calls
  <2>3. CASE stack[u][i].pc = "free"
    <3>1. stack[u][i].add = None
      BY <2>1, <2>3 DEF IInv, Stacks
    <3>2. QED
      BY <2>1, <2>2, <2>3, <3>1 DEF Frame, Frames
  <2>4. CASE stack[u][i].pc \in {"walk", "link"}
    <3>1. stack[u][i].pkt # p
      BY <1>5, <2>1, <2>4 DEF IInv, Supported, OnTheWay
    <3>2. QED
      BY <2>1, <2>2, <3>1
  <2>5. CASE Ending(stack[u][i])
    <3>1. ~(u = t /\ i = n)
      BY <1>2, <1>4
    <3>2. Ending(stack[t][n]) /\ stack[t][n].pkt = p
      BY <1>1, <1>2 DEF Ending
    <3>3. stack[u][i].pkt # p
      BY <1>2, <2>1, <2>5, <3>1, <3>2 DEF IInv, Once, EndsOnce
    <3>4. QED
      BY <2>1, <2>2, <3>3
  <2>6. QED
    BY <2>1, <2>3, <2>4, <2>5 DEF Frames, Ending
<1>10. \A x \in Packets \ {p} : Dying(x)' = Dying(x) /\ Freeing(x)' = Freeing(x)
  <2>1. ASSUME NEW x \in Packets \ {p} PROVE Dying(x)' <=> Dying(x)
    BY <1>1, <1>2, <1>7, <1>8 DEF Dying, Ending
  <2>2. ASSUME NEW x \in Packets \ {p} PROVE Freeing(x)' <=> Freeing(x)
    BY <1>1, <1>2, <1>7, <1>8 DEF Freeing
  <2>3. \A x : /\ Dying(x) \in BOOLEAN /\ Dying(x)' \in BOOLEAN
               /\ Freeing(x) \in BOOLEAN /\ Freeing(x)' \in BOOLEAN
    BY DEF Dying, Freeing
  <2>4. QED
    BY <2>1, <2>2, <2>3
<1>11. ~Dying(p)'
  BY <1>9 DEF Dying
<1>12. Types'
  BY <1>3, <1>4 DEF IInv, Types
<1>13. LiveCalls'
  <2>1. ASSUME NEW u \in Threads, NEW i \in DOMAIN stack'[u]
        PROVE  mem'[stack'[u][i].pkt] = "live" /\ (stack'[u][i].add # None => mem'[stack'[u][i].add] = "live")
    <3>1. i \in DOMAIN stack[u] /\ stack'[u][i] = stack[u][i]
      BY <1>7
    <3>2. stack'[u][i].pkt \in Packets /\ stack'[u][i].add \in Packets \cup {None}
      <4>1. stack'[u][i] \in Frames
        BY <1>4, ElementOfSeq, LenProperties
      <4>2. QED
        BY <4>1 DEF Frames
    <3>3. QED
      BY <1>3, <1>9, <3>1, <3>2 DEF IInv, LiveCalls
  <2>2. QED
    BY <2>1 DEF LiveCalls
<1>14. Stacks'
  <2>1. \A u \in Threads : Extending(u)' => Extending(u)
    BY <1>7 DEF Extending
  <2>2. ASSUME NEW u \in Threads, NEW i \in DOMAIN stack'[u]
        PROVE  /\ i # Len(stack'[u]) => stack'[u][i].pc = "memory"
               /\ stack'[u][i].pc \in {"walk", "link"} => Len(stack'[u]) = 1 /\ stack'[u][i].add # None
               /\ stack'[u][i].pc \notin {"walk", "link"} => stack'[u][i].add = None
    <3>1. CASE u = t
      <4>1. stack'[u][i].pc = "memory" /\ stack'[u][i].add = None
        <5>1. i \in DOMAIN stack[t] /\ i # n /\ stack'[u][i] = stack[t][i]
          BY <1>2, <1>4, <3>1
        <5>2. stack[t][i].pc = "memory"
          BY <5>1 DEF IInv, Stacks
        <5>3. QED
          BY <5>1, <5>2 DEF IInv, Stacks
      <4>2. QED
        BY <4>1
    <3>2. CASE u # t
      <4>1. stack'[u] = stack[u]
        BY <1>4, <3>2
      <4>2. QED
        BY <4>1 DEF IInv, Stacks
    <3>3. QED
      BY <3>1, <3>2
  <2>3. QED
    BY <2>1, <2>2 DEF IInv, Stacks
<1>15. Once'
  <2>1. EndsOnce'
    BY <1>4, <1>7, EndsOnceKept
  <2>2. \A x \in Packets : Dying(x)' => refcnt'[x] = 0
    BY <1>3, <1>10, <1>11 DEF IInv, Once
  <2>3. \A x \in Packets : mem'[x] = "live" /\ refcnt'[x] = 0 => Dying(x)'
    BY <1>3, <1>10 DEF IInv, Once
  <2>4. QED
    BY <2>1, <2>2, <2>3 DEF Once
<1>16. Supported'
  <2>1. ASSUME NEW u \in Threads, NEW S \in SUBSET Packets, OnTheWay(u, S) PROVE OnTheWay(u, S)'
    <3>1. p \notin S
      BY <1>5, <2>1 DEF OnTheWay
    <3>2. \A x \in S : mem'[x] = mem[x] /\ Dying(x)' = Dying(x)
      BY <1>3, <1>10, <3>1
    <3>3. QED
      BY <1>3, <2>1, <3>2 DEF OnTheWay
  <2>2. ASSUME NEW u \in Threads, NEW i \in DOMAIN stack'[u], stack'[u][i].pc \in {"walk", "link"}
        PROVE  /\ \E S \in SUBSET Packets : stack'[u][i].pkt \in S /\ OnTheWay(u, S)'
               /\ stack'[u][i].pc = "link" => next'[stack'[u][i].pkt] = None
    <3>1. i \in DOMAIN stack[u] /\ stack'[u][i] = stack[u][i]
      BY <1>7
    <3>2. PICK S \in SUBSET Packets : stack[u][i].pkt \in S /\ OnTheWay(u, S)
      BY <2>2, <3>1 DEF IInv, Supported
    <3>3. stack[u][i].pc = "link" => next[stack[u][i].pkt] = None
      BY <2>2, <3>1 DEF IInv, Supported
    <3>4. OnTheWay(u, S)'
      BY <2>1, <3>2
    <3>5. QED
      BY <1>3, <3>1, <3>2, <3>3, <3>4
  <2>3. QED
    BY <2>2 DEF Supported
<1>17. CountExact'
  <2>1. \A x : Held(x)' = Held(x)
    BY <1>3 DEF Held
  <2>2. \A x \in Packets : Links(x)' = Links(x)
    BY <1>3, <1>5, <1>10 DEF Links
  <2>3. \A x \in Packets : Calls(x)' = Calls(x)
    <3>1. \A x \in Packets : stack[t][n] # Frame("free", x, None) /\ stack[t][n].add # x
      BY <1>2, PacketAssumption DEF Frame
    <3>2. ASSUME NEW x \in Packets, NEW u \in Threads PROVE u \in Calls(x)' <=> u \in Calls(x)
      BY <1>7, <1>8, <3>1 DEF Calls
    <3>3. \A x : Calls(x) \subseteq Threads /\ Calls(x)' \subseteq Threads
      BY DEF Calls
    <3>4. QED
      BY <3>2, <3>3
  <2>4. QED
    BY <1>3, <2>1, <2>2, <2>3 DEF IInv, CountExact
<1>18. ReachLive'
  <2>1. \A h \in Handles : handle'[h].pkt # None => mem'[handle'[h].pkt] = "live"
    BY <1>3, <1>6 DEF IInv, ReachLive, Held, Types
  <2>2. ASSUME NEW x \in Packets, mem'[x] = "live", next'[x] # None, ~Freeing(x)'
        PROVE  mem'[next'[x]] = "live"
    <3>1. x # p /\ mem[x] = "live" /\ ~Freeing(x)
      BY <1>3, <1>10, <2>2
    <3>2. next[x] # p
      BY <1>6, <3>1 DEF Links
    <3>3. QED
      BY <1>3, <2>2, <3>1, <3>2 DEF IInv, ReachLive, Types
  <2>3. QED
    BY <1>13, <2>1, <2>2 DEF ReachLive, LiveCalls
<1>19. QED
  BY <1>12, <1>13, <1>14, <1>15, <1>16, <1>17, <1>18 DEF IInv

(* The packet loses its hold on the next one to a call of free.            *)
LEMMA FreeNextKeeps ==
    ASSUME IInv, NEW t \in Threads, FreeNext(t)
    PROVE  IInv'
<1> DEFINE n == Len(stack[t])
<1>1. PICK p \in Packets : p = Top(t).pkt
  BY Called DEF FreeNext, Frames
<1>2. /\ stack[t] # << >> /\ n \in Nat \ {0} /\ DOMAIN stack[t] = 1 .. n /\ n \in DOMAIN stack[t]
      /\ stack[t][n] = Top(t) /\ Top(t).pc = "next" /\ Top(t).add = None
      /\ mem[p] = "live" /\ p # None
  BY <1>1, Called, PacketAssumption DEF FreeNext
<1>3. PICK r \in Packets \cup {None} : r = next[p]
  BY DEF IInv, Types
<1>4. PICK m \in Frames : m = Frame("memory", p, None)
  BY DEF Frame, Frames
<1>5. UNCHANGED <<mem, refcnt, next, handle>>
  BY DEF FreeNext
<1>6. /\ stack' \in [Threads -> Seq(Frames)]
      /\ \A u \in Threads \ {t} : stack'[u] = stack[u]
      /\ \A i \in 1 .. n - 1 : stack'[t][i] = stack[t][i]
      /\ stack'[t][n] = m
      /\ r = None => DOMAIN stack'[t] = 1 .. n /\ Len(stack'[t]) = n
      /\ r # None => /\ DOMAIN stack'[t] = 1 .. n + 1 /\ Len(stack'[t]) = n + 1
                     /\ stack'[t][n + 1] = Frame("free", r, None)
  <2> DEFINE s == Append(Front(stack[t]), m)
             c == IF r = None THEN << >> ELSE <<Frame("free", r, None)>>
  <2>1. stack[t] \in Seq(Frames)
    BY DEF IInv, Types
  <2>2. /\ Front(stack[t]) \in Seq(Frames) /\ Len(Front(stack[t])) = n - 1
        /\ \A i \in 1 .. n - 1 : Front(stack[t])[i] = stack[t][i]
    BY <1>2, <2>1, FrontOf
  <2>3. /\ s \in Seq(Frames) /\ Len(s) = n
        /\ \A i \in 1 .. n - 1 : s[i] = stack[t][i]
        /\ s[n] = m
    BY <1>2, <2>2, AppendProperties
  <2>4. r # None => Frame("free", r, None) \in Frames
    BY DEF Frame, Frames
  <2>5. c \in Seq(Frames) /\ (r = None => Len(c) = 0) /\ (r # None => Len(c) = 1 /\ c[1] = Frame("free", r, None))
    BY <2>4, EmptySeq
  <2>6. stack' = [stack EXCEPT ![t] = s \o c]
    BY <1>1, <1>3, <1>4 DEF FreeNext
  <2> HIDE DEF s, c
  <2>7. /\ s \o c \in Seq(Frames) /\ Len(s \o c) = n + Len(c)
        /\ \A i \in 1 .. n : (s \o c)[i] = s[i]
        /\ r # None => (s \o c)[n + 1] = c[1]
    <3>1. n \in Nat
      BY <1>2
    <3>2. /\ s \o c \in Seq(Frames) /\ Len(s \o c) = n + Len(c)
          /\ \A i \in 1 .. n : (s \o c)[i] = s[i]
          /\ Len(c) = 1 => (s \o c)[n + 1] = c[1]
      <4> HIDE DEF n
      <4>1. QED
        BY <2>3, <2>5, <3>1, ConcatParts
    <3>3. QED
      BY <2>5, <3>2
  <2>8. /\ stack' \in [Threads -> Seq(Frames)] /\ stack'[t] = s \o c
        /\ \A u \in Threads \ {t} : stack'[u] = stack[u]
    BY <2>6, <2>7 DEF IInv, Types
  <2>9. /\ Len(stack'[t]) = n + Len(c) /\ DOMAIN stack'[t] = 1 .. n + Len(c)
    BY <2>7, <2>8, LenProperties
  <2>10. \A i \in 1 .. n - 1 : stack'[t][i] = stack[t][i]
    BY <1>2, <2>3, <2>7, <2>8
  <2>11. stack'[t][n] = m
    BY <1>2, <2>3, <2>7, <2>8
  <2>12. r = None => DOMAIN stack'[t] = 1 .. n /\ Len(stack'[t]) = n
    BY <1>2, <2>5, <2>9
  <2>13. r # None => /\ DOMAIN stack'[t] = 1 .. n + 1 /\ Len(stack'[t]) = n + 1
                     /\ stack'[t][n + 1] = Frame("free", r, None)
    BY <2>5, <2>7, <2>8, <2>9
  <2>14. QED
    BY <2>8, <2>10, <2>11, <2>12, <2>13
<1>7. /\ m.pc = "memory" /\ m.pkt = p /\ m.add = None /\ Ending(m) /\ Ending(stack[t][n])
      /\ stack[t][n].pkt = p
      /\ \A x : Frame("free", x, None).pc = "free" /\ Frame("free", x, None).add = None
                /\ Frame("free", x, None).pkt = x /\ ~Ending(Frame("free", x, None))
  BY <1>1, <1>2, <1>4 DEF Frame, Ending
<1>8. \A i \in DOMAIN stack[t] : i \in DOMAIN stack'[t] /\ (i = n \/ (i # n /\ stack'[t][i] = stack[t][i]))
  BY <1>2, <1>6
<1>9. ASSUME NEW i \in DOMAIN stack'[t]
      PROVE  \/ i # n /\ i \in DOMAIN stack[t] /\ stack'[t][i] = stack[t][i]
             \/ i = n /\ i \in DOMAIN stack[t]
             \/ i = n + 1 /\ r # None
  BY <1>2, <1>6
<1>10. ~Freeing(p) /\ Dying(p)
  <2>1. Dying(p)
    BY <1>2, <1>7 DEF Dying
  <2>2. ASSUME NEW u \in Threads, NEW i \in DOMAIN stack[u], stack[u][i].pkt = p, stack[u][i].pc = "memory"
        PROVE  FALSE
    <3>1. u = t /\ i = n
      BY <1>2, <1>7, <2>2 DEF IInv, Once, EndsOnce, Ending
    <3>2. QED
      BY <1>2, <2>2, <3>1
  <2>3. QED
    BY <2>1, <2>2 DEF Freeing
<1>11. r # None => r \in Packets /\ mem[r] = "live" /\ p \in Links(r)
  BY <1>2, <1>3, <1>10 DEF IInv, ReachLive, Links
<1>12. /\ \A x : Dying(x)' = Dying(x)
       /\ Freeing(p)' /\ \A x \in Packets \ {p} : Freeing(x)' = Freeing(x)
  <2>1. ASSUME NEW x PROVE Dying(x)' <=> Dying(x)
    <3>1. ASSUME NEW i \in DOMAIN stack'[t], stack'[t][i].pkt = x, Ending(stack'[t][i])
          PROVE  i \in DOMAIN stack[t] /\ stack[t][i].pkt = x /\ Ending(stack[t][i])
      BY <1>6, <1>7, <1>9, <3>1
    <3>2. ASSUME NEW i \in DOMAIN stack[t], stack[t][i].pkt = x, Ending(stack[t][i])
          PROVE  i \in DOMAIN stack'[t] /\ stack'[t][i].pkt = x /\ Ending(stack'[t][i])
      BY <1>6, <1>7, <1>8, <3>2
    <3>3. QED
      BY <1>6, <3>1, <3>2 DEF Dying, Ending
  <2>2. Freeing(p)'
    BY <1>2, <1>6, <1>7, <1>8 DEF Freeing
  <2>3. ASSUME NEW x \in Packets \ {p} PROVE Freeing(x)' <=> Freeing(x)
    <3>1. ASSUME NEW i \in DOMAIN stack'[t], stack'[t][i].pkt = x, stack'[t][i].pc = "memory"
          PROVE  i \in DOMAIN stack[t] /\ stack[t][i].pkt = x /\ stack[t][i].pc = "memory"
      BY <1>6, <1>7, <1>9, <3>1
    <3>2. ASSUME NEW i \in DOMAIN stack[t], stack[t][i].pkt = x, stack[t][i].pc = "memory"
          PROVE  i \in DOMAIN stack'[t] /\ stack'[t][i].pkt = x /\ stack'[t][i].pc = "memory"
      BY <1>7, <1>8, <3>2
    <3>3. ASSUME NEW u \in Threads \ {t}
          PROVE  (\E i \in DOMAIN stack'[u] : stack'[u][i].pkt = x /\ stack'[u][i].pc = "memory")
                   <=> \E i \in DOMAIN stack[u] : stack[u][i].pkt = x /\ stack[u][i].pc = "memory"
      BY <1>6
    <3>4. (\E i \in DOMAIN stack'[t] : stack'[t][i].pkt = x /\ stack'[t][i].pc = "memory")
            <=> \E i \in DOMAIN stack[t] : stack[t][i].pkt = x /\ stack[t][i].pc = "memory"
      BY <3>1, <3>2
    <3>5. QED
      BY <3>3, <3>4 DEF Freeing
  <2>4. \A x : /\ Dying(x) \in BOOLEAN /\ Dying(x)' \in BOOLEAN
               /\ Freeing(x) \in BOOLEAN /\ Freeing(x)' \in BOOLEAN
    BY DEF Dying, Freeing
  <2>5. QED
    BY <2>1, <2>2, <2>3, <2>4
<1>13. Types'
  BY <1>5, <1>6 DEF IInv, Types
<1>14. \A i \in DOMAIN stack'[t] :
          /\ i # Len(stack'[t]) => stack'[t][i].pc = "memory"
          /\ stack'[t][i].pc \notin {"walk", "link"} /\ stack'[t][i].add = None
          /\ mem[stack'[t][i].pkt] = "live"
  <2>1. \A i \in DOMAIN stack[t] : i # n => stack[t][i].pc = "memory" /\ stack[t][i].add = None
    BY DEF IInv, Stacks
  <2>2. \A i \in DOMAIN stack[t] : mem[stack[t][i].pkt] = "live"
    BY DEF IInv, LiveCalls
  <2>3. ASSUME NEW i \in DOMAIN stack'[t]
        PROVE  /\ i # Len(stack'[t]) => stack'[t][i].pc = "memory"
               /\ stack'[t][i].pc \notin {"walk", "link"} /\ stack'[t][i].add = None
               /\ mem[stack'[t][i].pkt] = "live"
    <3>1. CASE i # n /\ i \in DOMAIN stack[t] /\ stack'[t][i] = stack[t][i]
      BY <2>1, <2>2, <3>1
    <3>2. CASE i = n
      BY <1>2, <1>6, <1>7, <3>2
    <3>3. CASE i = n + 1 /\ r # None
      BY <1>6, <1>7, <1>11, <3>3
    <3>4. QED
      BY <1>9, <3>1, <3>2, <3>3
  <2>4. QED
    BY <2>3
<1>15. Stacks'
  <2>1. ~Extending(t)' /\ \A u \in Threads \ {t} : Extending(u)' = Extending(u)
    BY <1>6, <1>14 DEF Extending
  <2>2. \A u \in Threads \ {t} : DOMAIN stack'[u] = DOMAIN stack[u] /\ Len(stack'[u]) = Len(stack[u])
           /\ \A i \in DOMAIN stack'[u] : stack'[u][i] = stack[u][i]
    BY <1>6
  <2>3. \A u \in Threads : \A i \in DOMAIN stack'[u] :
          /\ i # Len(stack'[u]) => stack'[u][i].pc = "memory"
          /\ stack'[u][i].pc \in {"walk", "link"} => Len(stack'[u]) = 1 /\ stack'[u][i].add # None
          /\ stack'[u][i].pc \notin {"walk", "link"} => stack'[u][i].add = None
    BY <1>14, <2>2 DEF IInv, Stacks
  <2>4. \A u, v \in Threads : Extending(u)' /\ Extending(v)' => u = v
    BY <2>1 DEF IInv, Stacks
  <2>5. QED
    BY <2>3, <2>4 DEF Stacks
<1>16. LiveCalls'
  BY <1>5, <1>6, <1>14 DEF IInv, LiveCalls
<1>17. Once'
  <2>1. \A i \in DOMAIN stack'[t] : Ending(stack'[t][i]) =>
           i \in DOMAIN stack[t] /\ Ending(stack[t][i]) /\ stack[t][i].pkt = stack'[t][i].pkt
    BY <1>6, <1>7, <1>9
  <2>2. EndsOnce'
    BY <1>6, <2>1, EndsOnceKept
  <2>3. QED
    BY <1>5, <1>12, <2>2 DEF IInv, Once
<1>18. Supported'
  <2>1. ASSUME NEW u \in Threads, NEW S \in SUBSET Packets, OnTheWay(u, S) PROVE OnTheWay(u, S)'
    BY <1>5, <1>12, <2>1 DEF OnTheWay
  <2>2. ASSUME NEW u \in Threads, NEW i \in DOMAIN stack'[u], stack'[u][i].pc \in {"walk", "link"}
        PROVE  /\ \E S \in SUBSET Packets : stack'[u][i].pkt \in S /\ OnTheWay(u, S)'
               /\ stack'[u][i].pc = "link" => next'[stack'[u][i].pkt] = None
    <3>1. stack'[u] = stack[u]
      BY <1>6, <1>14, <2>2
    <3>2. PICK S \in SUBSET Packets : stack[u][i].pkt \in S /\ OnTheWay(u, S)
      BY <2>2, <3>1 DEF IInv, Supported
    <3>3. stack[u][i].pc = "link" => next[stack[u][i].pkt] = None
      BY <2>2, <3>1 DEF IInv, Supported
    <3>4. OnTheWay(u, S)'
      BY <2>1, <3>2
    <3>5. QED
      BY <1>5, <3>1, <3>2, <3>3, <3>4
  <2>3. QED
    BY <2>2 DEF Supported
<1>19. CountExact'
  <2>1. \A x : Held(x)' = Held(x)
    BY <1>5 DEF Held
  <2>2. \A x \in Packets : Links(x)' = Links(x) \ {p}
    BY <1>5, <1>12 DEF Links
  <2>3. \A x \in Packets : x # r => p \notin Links(x)
    BY <1>3 DEF Links
  <2>4. \A x \in Packets : t \notin Calls(x)
    <3>1. \A i \in DOMAIN stack[t] : stack[t][i].pc # "free" /\ stack[t][i].add = None
      BY <1>2 DEF IInv, Stacks
    <3>2. QED
      BY <3>1, PacketAssumption DEF Calls, Frame
  <2>5. \A x \in Packets : t \in Calls(x)' <=> x = r
    <3>1. ASSUME NEW x \in Packets, t \in Calls(x)' PROVE x = r
      <4>1. PICK i \in DOMAIN stack'[t] : stack'[t][i] = Frame("free", x, None) \/ stack'[t][i].add = x
        BY <3>1 DEF Calls
      <4>2. stack'[t][i].pc = "free" /\ stack'[t][i].pkt = x
        BY <1>7, <1>14, <4>1, PacketAssumption
      <4>3. ~(i # n /\ i \in DOMAIN stack[t] /\ stack'[t][i] = stack[t][i])
        BY <4>2 DEF IInv, Stacks
      <4>4. i # n
        BY <1>6, <1>7, <4>2
      <4>5. QED
        BY <1>6, <1>7, <1>9, <4>2, <4>3, <4>4
    <3>2. r # None => t \in Calls(r)'
      BY <1>2, <1>6 DEF Calls
    <3>3. QED
      BY <3>1, <3>2, PacketAssumption
  <2>6. \A x \in Packets : \A u \in Threads \ {t} : u \in Calls(x)' <=> u \in Calls(x)
    BY <1>6 DEF Calls
  <2>7. \A x \in Packets : Calls(x)' = IF x = r THEN Calls(x) \cup {t} ELSE Calls(x)
    <3>1. \A x : Calls(x) \subseteq Threads /\ Calls(x)' \subseteq Threads
      BY DEF Calls
    <3>2. ASSUME NEW x \in Packets, x = r PROVE Calls(x)' = Calls(x) \cup {t}
      <4>1. t \in Calls(x)'
        BY <2>5, <3>2
      <4>2. \A u \in Threads \ {t} : u \in Calls(x)' <=> u \in Calls(x)
        BY <2>6, <3>2
      <4>3. QED
        BY <3>1, <4>1, <4>2
    <3>3. ASSUME NEW x \in Packets, x # r PROVE Calls(x)' = Calls(x)
      <4>1. t \notin Calls(x)' /\ t \notin Calls(x)
        BY <2>4, <2>5, <3>3
      <4>2. \A u \in Threads \ {t} : u \in Calls(x)' <=> u \in Calls(x)
        BY <2>6, <3>3
      <4>3. QED
        BY <3>1, <4>1, <4>2
    <3>4. QED
      BY <3>2, <3>3
  <2>8. ASSUME NEW x \in Packets, mem'[x] = "live"
        PROVE  refcnt'[x] = Cardinality(Held(x)') + Cardinality(Links(x)') + Cardinality(Calls(x)')
    <3>1. refcnt[x] = Cardinality(Held(x)) + Cardinality(Links(x)) + Cardinality(Calls(x))
      BY <1>5, <2>8 DEF IInv, CountExact
    <3>2. Cardinality(Held(x)) \in Nat /\ Cardinality(Links(x)) \in Nat /\ Cardinality(Calls(x)) \in Nat
      BY OwnersFinite, FS_CardinalityType
    <3>3. CASE x = r
      <4>1. p \in Links(x) /\ Links(x)' = Links(x) \ {p} /\ Calls(x)' = Calls(x) \cup {t} /\ t \notin Calls(x)
        BY <1>11, <2>2, <2>4, <2>7, <3>3, PacketAssumption
      <4>2. Cardinality(Links(x) \ {p}) = Cardinality(Links(x)) - 1
        BY <4>1, OwnersFinite, FS_RemoveElement
      <4>3. Cardinality(Calls(x) \cup {t}) = Cardinality(Calls(x)) + 1
        BY <4>1, OwnersFinite, FS_AddElement
      <4>4. QED
        BY <1>5, <2>1, <3>1, <3>2, <4>1, <4>2, <4>3
    <3>4. CASE x # r
      <4>1. Links(x)' = Links(x) /\ Calls(x)' = Calls(x)
        BY <2>2, <2>3, <2>7, <3>4
      <4>2. QED
        BY <1>5, <2>1, <3>1, <4>1
    <3>5. QED
      BY <3>3, <3>4
  <2>9. QED
    BY <2>8 DEF CountExact
<1>20. ReachLive'
  <2>1. \A x \in Packets : ~Freeing(x)' => ~Freeing(x)
    BY <1>12
  <2>2. QED
    BY <1>5, <1>16, <2>1 DEF IInv, ReachLive, LiveCalls
<1>21. QED
  BY <1>13, <1>15, <1>16, <1>17, <1>18, <1>19, <1>20 DEF IInv

------------------------------------------------------------------------------
LEMMA Start == Init => IInv
<1> SUFFICES ASSUME Init PROVE IInv
  OBVIOUS
<1>1. /\ \A t \in Threads : stack[t] = << >> /\ DOMAIN stack[t] = {}
      /\ \A h \in Handles : handle[h].pkt = None /\ DOMAIN handle[h] = HandleFields
      /\ \A p \in Packets : mem[p] = "none"
  BY EmptySeq DEF Init, Empty, HandleFields
<1>2. Types
  BY <1>1, EmptySeq DEF Init, Types
<1>3. Stacks /\ LiveCalls /\ Supported
  BY <1>1 DEF Stacks, LiveCalls, Supported, Extending
<1>4. Once
  BY <1>1 DEF Once, EndsOnce, Dying
<1>5. CountExact /\ ReachLive
  BY <1>1 DEF CountExact, ReachLive
<1>6. QED
  BY <1>2, <1>3, <1>4, <1>5 DEF IInv

LEMMA Step == IInv /\ [Next]_vars => IInv'
<1> SUFFICES ASSUME IInv, [Next]_vars PROVE IInv'
  OBVIOUS
<1>1. CASE UNCHANGED vars
  <2>1. Windows
    BY <1>1 DEF vars, Windows, IInv, Types
  <2>2. QED
    BY <2>1, WindowsKeep
<1>2. ASSUME NEW h \in Handles, Push(h) \/ Rebase(h) \/ ToOffset(h) \/ (\E s \in Sizes : Make(h, s))
      PROVE  IInv'
  BY <1>2, WindowSteps, WindowsKeep DEF IInv
<1>3. ASSUME NEW h \in Handles, NEW p \in Packets, Alloc(h, p) PROVE IInv'
  BY <1>3, AllocKeeps
<1>4. ASSUME NEW h \in Handles, Drop(h) PROVE IInv'
  BY <1>4, DropKeeps
<1>5. ASSUME NEW h \in Handles, NEW g \in Handles,
             ClonePkt(h, g) \/ CloneOffset(h, g) \/ AddPacket(h, g) \/ TakeOver(h, g)
      PROVE  IInv'
  BY <1>5, CloneKeeps, AddPacketKeeps, TakeOverKeeps
<1>6. ASSUME NEW t \in Threads, Inside(t) PROVE IInv'
  BY <1>6, FreeCountKeeps, FreeNextKeeps, FreeMemoryKeeps, WalkKeeps, LinkKeeps DEF Inside
<1>7. ASSUME NEW t \in Threads, SetOffset(t) PROVE IInv'
  <2>1. Windows
    BY <1>7 DEF SetOffset, Windows, IInv, Types
  <2>2. QED
    BY <2>1, WindowsKeep
<1>8. QED
  BY <1>1, <1>2, <1>3, <1>4, <1>5, <1>6, <1>7 DEF Next

(* Owners, calls and what is being freed fit together at every step.       *)
THEOREM Invariance == Spec => []IInv
  BY Start, Step, PTL DEF Spec

(* The count of a packet is the number of its owners, at every step.       *)
THEOREM CountsOwners == Spec => []CountExact
<1>1. IInv => CountExact
  BY DEF IInv
<1>2. QED
  BY <1>1, Invariance, PTL

(* Who is between the two stores of a window has a handle on the packet.   *)
Setters == /\ DOMAIN setting = Threads
           /\ \A t \in Threads : setting[t].pkt # None =>
                  \E h \in Handles : h[1] = t /\ handle[h].pkt = setting[t].pkt

LEMMA SettersStay ==
    ASSUME Setters, UNCHANGED setting,
           \A x \in Handles : setting[x[1]].pkt # None /\ handle[x].pkt # None => handle'[x].pkt = handle[x].pkt
    PROVE  Setters'
<1>1. ASSUME NEW t \in Threads, setting[t].pkt # None
      PROVE  \E h \in Handles : h[1] = t /\ handle'[h].pkt = setting[t].pkt
  <2>1. PICK h \in Handles : h[1] = t /\ handle[h].pkt = setting[t].pkt
    BY <1>1 DEF Setters
  <2>2. handle'[h].pkt = handle[h].pkt
    BY <1>1, <2>1
  <2>3. QED
    BY <2>1, <2>2
<1>2. QED
  BY <1>1 DEF Setters

LEMMA SettersBegin ==
    ASSUME Setters, NEW h \in Handles, NEW p, handle[h].pkt = p, NEW len, NEW off, SetLength(h[1], p, len, off),
           \A x \in Handles : handle[x].pkt # None => handle'[x].pkt = handle[x].pkt
    PROVE  Setters'
<1>1. setting' = [setting EXCEPT ![h[1]] = [pkt |-> p, offset |-> off]]
  BY DEF SetLength
<1>2. ASSUME NEW t \in Threads, setting'[t].pkt # None
      PROVE  \E x \in Handles : x[1] = t /\ handle'[x].pkt = setting'[t].pkt
  <2>1. CASE t = h[1]
    <3>1. setting'[t].pkt = p
      BY <1>1, <2>1 DEF Setters
    <3>2. QED
      BY <1>2, <2>1, <3>1
  <2>2. CASE t # h[1]
    <3>1. setting'[t] = setting[t]
      BY <1>1, <2>2 DEF Setters
    <3>2. PICK x \in Handles : x[1] = t /\ handle[x].pkt = setting[t].pkt
      BY <1>2, <3>1 DEF Setters
    <3>3. QED
      BY <1>2, <3>1, <3>2
  <2>3. QED
    BY <2>1, <2>2
<1>3. DOMAIN setting' = Threads
  BY <1>1 DEF Setters
<1>4. QED
  BY <1>2, <1>3 DEF Setters

LEMMA SettersEnd ==
    ASSUME Setters, NEW t \in Threads, SetOffset(t)
    PROVE  Setters'
<1>1. setting' = [setting EXCEPT ![t] = Nothing] /\ UNCHANGED handle
  BY DEF SetOffset
<1>2. DOMAIN setting' = Threads
  BY <1>1 DEF Setters
<1>3. ASSUME NEW u \in Threads, setting'[u].pkt # None PROVE u # t /\ setting'[u] = setting[u]
  BY <1>1, <1>3 DEF Setters, Nothing
<1>4. QED
  BY <1>1, <1>2, <1>3 DEF Setters

LEMMA SettersStep == IInv /\ Setters /\ [Next]_vars => Setters'
<1> SUFFICES ASSUME IInv, Setters, [Next]_vars PROVE Setters'
  OBVIOUS
<1>1. DOMAIN handle = Handles /\ \A x \in Handles : DOMAIN handle[x] = HandleFields
  BY DEF IInv, Types
<1>2. CASE UNCHANGED vars
  BY <1>2, SettersStay DEF vars
<1>3. ASSUME NEW h \in Handles, Push(h) \/ Rebase(h) PROVE Setters'
  <2>1. PICK n : Behind(h, n)
    BY <1>3 DEF Push, Rebase
  <2>2. \A x \in Handles : handle'[x].pkt = handle[x].pkt
    BY <1>1, <2>1 DEF Behind, HandleFields
  <2>3. \/ UNCHANGED setting
        \/ \E len, off : SetLength(h[1], handle[h].pkt, len, off)
    BY <2>1 DEF Behind
  <2>4. QED
    BY <2>2, <2>3, SettersStay, SettersBegin
<1>4. ASSUME NEW h \in Handles, NEW g \in Handles, ClonePkt(h, g) PROVE Setters'
  <2>1. /\ handle[g].pkt = None /\ handle' = [handle EXCEPT ![g] = [Empty EXCEPT !.pkt = handle[h].pkt]]
        /\ SetLength(h[1], handle[h].pkt, LengthOf(h), 0)
    BY <1>4 DEF ClonePkt
  <2>2. \A x \in Handles : handle[x].pkt # None => handle'[x].pkt = handle[x].pkt
    BY <1>1, <2>1
  <2>3. QED
    BY <2>1, <2>2, SettersBegin
<1>5. ASSUME NEW h \in Handles, ToOffset(h) \/ (\E s \in Sizes : Make(h, s)) PROVE Setters'
  <2>1. UNCHANGED setting /\ \A x \in Handles : handle'[x].pkt = handle[x].pkt
    BY <1>1, <1>5 DEF ToOffset, Make, HandleFields
  <2>2. QED
    BY <2>1, SettersStay
<1>6. ASSUME NEW h \in Handles, (\E p \in Packets : Alloc(h, p)) \/ Drop(h) PROVE Setters'
  <2>1. /\ UNCHANGED setting /\ setting[h[1]].pkt = None
        /\ \A x \in Handles \ {h} : handle'[x] = handle[x]
    BY <1>1, <1>6 DEF Alloc, Drop, Unused, Using, Ready
  <2>2. QED
    BY <2>1, SettersStay
<1>7. ASSUME NEW h \in Handles, NEW g \in Handles, CloneOffset(h, g) PROVE Setters'
  <2>1. /\ UNCHANGED setting /\ handle[g].pkt = None
        /\ \A x \in Handles \ {g} : handle'[x] = handle[x]
    BY <1>1, <1>7 DEF CloneOffset
  <2>2. QED
    BY <2>1, SettersStay
<1>8. ASSUME NEW h \in Handles, NEW g \in Handles, AddPacket(h, g) \/ TakeOver(h, g) PROVE Setters'
  <2>1. /\ UNCHANGED setting /\ setting[h[1]].pkt = None /\ g[1] = h[1]
        /\ \A x \in Handles \ {g, h} : handle'[x] = handle[x]
    BY <1>1, <1>8 DEF AddPacket, TakeOver, Unused, Using, Ready
  <2>2. QED
    BY <2>1, SettersStay
<1>9. ASSUME NEW t \in Threads, Inside(t) PROVE Setters'
  <2>1. UNCHANGED <<setting, handle>>
    BY <1>9 DEF Inside, FreeCount, FreeNext, FreeMemory, Walk, Link
  <2>2. QED
    BY <2>1, SettersStay
<1>10. QED
  BY <1>2, <1>3, <1>4, <1>5, <1>6, <1>7, <1>8, <1>9, SettersEnd DEF Next

(* No handle, no packet in use, no call and no store of a window reaches a *)
(* packet that has been freed.                                             *)
THEOREM OwnersKeepAlive == Spec => []NotAfterFree
<1>1. Init => Setters
  BY DEF Init, Setters, Nothing
<1>2. IInv /\ Setters => NotAfterFree
  <2> SUFFICES ASSUME IInv, Setters, NEW t \in Threads, setting[t].pkt # None
               PROVE  mem[setting[t].pkt] = "live"
    BY DEF NotAfterFree, IInv
  <2>1. PICK h \in Handles : handle[h].pkt = setting[t].pkt
    BY DEF Setters
  <2>2. QED
    BY <2>1 DEF IInv, ReachLive
<1>3. QED
  BY <1>1, <1>2, Invariance, SettersStep, PTL DEF Spec

(* Once no thread is inside a call, a packet without an owner is freed.    *)
THEOREM UnownedIsFreed == Spec => []NothingLeaks
<1>1. IInv => NothingLeaks
  <2> SUFFICES ASSUME IInv, \A t \in Threads : stack[t] = << >>, NEW p \in Packets, mem[p] = "live"
               PROVE  Held(p) # {} \/ Links(p) # {}
    BY DEF NothingLeaks
  <2>1. \A t \in Threads : DOMAIN stack[t] = {}
    BY EmptySeq
  <2>2. ~Dying(p) /\ Calls(p) = {}
    BY <2>1 DEF Dying, Calls
  <2>3. refcnt[p] # 0
    BY <2>2 DEF IInv, Once
  <2>4. Held(p) = {} /\ Links(p) = {} => refcnt[p] = 0
    <3>1. Cardinality({}) = 0
      BY FS_EmptySet
    <3>2. refcnt[p] = Cardinality(Held(p)) + Cardinality(Links(p)) + Cardinality(Calls(p))
      BY DEF IInv, CountExact
    <3>3. QED
      BY <2>2, <3>1, <3>2
  <2>5. QED
    BY <2>3, <2>4
<1>2. QED
  BY <1>1, Invariance, PTL
------------------------------------------------------------------------------
(* The sizes of the headers of a handle and their sum.                     *)
LEMMA LeastNumber ==
    ASSUME NEW T, T \subseteq Nat, T # {}
    PROVE  \E n \in T : \A m \in T : n <= m
<1>1. PICK n \in T : \A m \in T : ~ (<<m, n>> \in OpToRel(<, Nat))
  BY NatLessThanWellFounded, WFMin, Zenon
<1>2. \A m \in T : m < n => <<m, n>> \in OpToRel(<, Nat)
  BY DEF OpToRel
<1>3. \A m \in T : ~ (m < n)
  BY <1>1, <1>2, Zenon
<1>4. QED
  BY <1>3

LEMMA SetInduction ==
    ASSUME NEW S, 0 \in S, \A n \in Nat : n \in S => n + 1 \in S
    PROVE  Nat \subseteq S
<1> DEFINE T == Nat \ S
<1>1. CASE T # {}
  <2>1. PICK n \in T : \A m \in T : n <= m
    BY <1>1, LeastNumber
  <2>2. n # 0 /\ n \in Nat /\ n - 1 \in Nat
    BY <2>1
  <2>3. n - 1 \in S
    BY <2>1, <2>2
  <2>4. n - 1 + 1 \in S
    BY <2>2, <2>3
  <2>5. n - 1 + 1 = n
    BY <2>2
  <2>6. QED
    BY <2>1, <2>4, <2>5
<1>2. QED
  BY <1>1

(* g[i] is s[1] + ... + s[i].                                              *)
Adds(g, s, n) == g[0] = 0 /\ \A i \in 1 .. n : g[i] = g[i - 1] + s[i]

(* r begins with the n numbers that s begins with.                         *)
Begin(s, r, n) == \A i \in 1 .. n : s[i] \in Nat /\ r[i] = s[i]

(* Sums of natural numbers are natural numbers, and there is one only.     *)
LEMMA SumsAgree ==
    ASSUME NEW n \in Nat, NEW s, NEW r, Begin(s, r, n),
           NEW g, NEW h, Adds(g, s, n), Adds(h, r, n)
    PROVE  g[n] \in Nat /\ h[n] = g[n]
<1> DEFINE S == {k \in Nat : k <= n => g[k] \in Nat /\ h[k] = g[k]}
<1>1. 0 \in S
  BY DEF Adds
<1>2. ASSUME NEW k \in Nat, k \in S PROVE k + 1 \in S
  <2> SUFFICES ASSUME k + 1 <= n PROVE g[k + 1] \in Nat /\ h[k + 1] = g[k + 1]
    OBVIOUS
  <2>1. g[k] \in Nat /\ h[k] = g[k]
    BY <1>2
  <2>2. k + 1 \in 1 .. n /\ k + 1 - 1 = k
    OBVIOUS
  <2>3. g[k + 1] = g[k] + s[k + 1] /\ h[k + 1] = h[k] + r[k + 1]
    BY <2>2 DEF Adds
  <2>4. s[k + 1] \in Nat /\ r[k + 1] = s[k + 1]
    BY <2>2 DEF Begin
  <2>5. QED
    BY <2>1, <2>3, <2>4
<1>3. n \in S
  <2> HIDE DEF S
  <2>1. QED
    BY <1>1, <1>2, SetInduction
<1>4. n <= n
  OBVIOUS
<1>5. QED
  BY <1>3, <1>4

LEMMA SumAdds ==
    ASSUME NEW s \in Seq(Nat)
    PROVE  \E g : Adds(g, s, Len(s)) /\ FullSize(s) = g[Len(s)]
<1> DEFINE n == Len(s)
           Def(h) == h = [k \in 0 .. n |-> IF k = 0 THEN 0 ELSE h[k - 1] + s[k]]
           S == {k \in Nat : k <= n => \E g \in [0 .. n -> Nat] : Adds(g, s, k)}
<1>0. n \in Nat /\ \A i \in 1 .. n : s[i] \in Nat
  OBVIOUS
<1>1. 0 \in S
  <2>1. [i \in 0 .. n |-> 0] \in [0 .. n -> Nat] /\ Adds([i \in 0 .. n |-> 0], s, 0)
    BY <1>0 DEF Adds
  <2>2. QED
    BY <2>1
<1>2. ASSUME NEW k \in Nat, k \in S PROVE k + 1 \in S
  <2> SUFFICES ASSUME k + 1 <= n PROVE \E g \in [0 .. n -> Nat] : Adds(g, s, k + 1)
    OBVIOUS
  <2> HIDE DEF n
  <2>1. PICK g \in [0 .. n -> Nat] : Adds(g, s, k)
    BY <1>0, <1>2
  <2>2. PICK h : h = [g EXCEPT ![k + 1] = g[k] + s[k + 1]]
    OBVIOUS
  <2>3. k \in 0 .. n /\ k + 1 \in 1 .. n /\ g[k] + s[k + 1] \in Nat
    <3>1. k \in 0 .. n /\ k + 1 \in 1 .. n
      BY <1>0
    <3>2. g[k] \in Nat /\ s[k + 1] \in Nat
      BY <1>0, <3>1
    <3>3. QED
      BY <3>1, <3>2
  <2>4. h \in [0 .. n -> Nat] /\ h[k + 1] = g[k] + s[k + 1] /\ \A i \in 0 .. k : h[i] = g[i]
    BY <1>0, <2>2, <2>3
  <2>5. ASSUME NEW i \in 1 .. k + 1 PROVE h[i] = h[i - 1] + s[i]
    <3>1. CASE i = k + 1
      BY <2>4, <3>1
    <3>2. CASE i # k + 1
      <4>1. i \in 1 .. k /\ i \in 0 .. k /\ i - 1 \in 0 .. k
        BY <3>2
      <4>2. QED
        BY <2>1, <2>4, <4>1 DEF Adds
    <3>3. QED
      BY <3>1, <3>2
  <2>6. Adds(h, s, k + 1)
    BY <2>1, <2>4, <2>5 DEF Adds
  <2>7. QED
    BY <2>4, <2>6
<1>3. PICK g \in [0 .. n -> Nat] : Adds(g, s, n)
  <2>1. n \in S
    <3> HIDE DEF S, n
    <3>1. QED
      BY <1>0, <1>1, <1>2, SetInduction
  <2>2. n <= n
    BY <1>0
  <2>3. QED
    BY <2>1, <2>2
<1>4. Def(g)
  <2>1. ASSUME NEW i \in 0 .. n PROVE g[i] = IF i = 0 THEN 0 ELSE g[i - 1] + s[i]
    BY <1>0, <1>3 DEF Adds
  <2>2. QED
    BY <2>1
<1>5. PICK sum : Def(sum) /\ FullSize(s) = sum[n]
  BY <1>4 DEF FullSize
<1>6. Adds(sum, s, n)
  <2>1. sum[0] = 0
    BY <1>0, <1>5
  <2>2. ASSUME NEW i \in 1 .. n PROVE sum[i] = sum[i - 1] + s[i]
    <3>1. i \in 0 .. n /\ i # 0
      BY <1>0
    <3>2. QED
      BY <1>5, <3>1
  <2>3. QED
    BY <2>1, <2>2 DEF Adds
<1>7. QED
  BY <1>5, <1>6

(* What one header more or less makes of the size of all of them.          *)
LEMMA FullSizes ==
    ASSUME NEW s \in Seq(Nat)
    PROVE  /\ FullSize(s) \in Nat
           /\ s = << >> => FullSize(s) = 0
           /\ \A x \in Nat : FullSize(Append(s, x)) = FullSize(s) + x
           /\ s # << >> => FullSize(Front(s)) \in Nat /\ FullSize(Front(s)) <= FullSize(s)
<1>1. PICK g : Adds(g, s, Len(s)) /\ FullSize(s) = g[Len(s)]
  BY SumAdds
<1>2. Len(s) \in Nat /\ \A i \in 1 .. Len(s) : s[i] \in Nat
  OBVIOUS
<1>3. FullSize(s) \in Nat
  <2>1. Begin(s, s, Len(s))
    BY <1>2 DEF Begin
  <2>2. QED
    BY <1>1, <1>2, <2>1, SumsAgree
<1>4. s = << >> => FullSize(s) = 0
  BY <1>1, EmptySeq DEF Adds
<1>5. ASSUME NEW x \in Nat PROVE FullSize(Append(s, x)) = FullSize(s) + x
  <2>1. /\ Append(s, x) \in Seq(Nat) /\ Len(Append(s, x)) = Len(s) + 1
        /\ \A i \in 1 .. Len(s) : Append(s, x)[i] = s[i]
        /\ Append(s, x)[Len(s) + 1] = x
    BY AppendProperties
  <2>2. PICK h : Adds(h, Append(s, x), Len(s) + 1) /\ FullSize(Append(s, x)) = h[Len(s) + 1]
    BY <2>1, SumAdds
  <2>3. Adds(h, Append(s, x), Len(s))
    BY <1>2, <2>2 DEF Adds
  <2>4. h[Len(s)] = g[Len(s)]
    <3>1. Begin(s, Append(s, x), Len(s))
      BY <1>2, <2>1 DEF Begin
    <3>2. Len(s) \in Nat
      OBVIOUS
    <3>3. QED
      BY <1>1, <2>3, <3>1, <3>2, SumsAgree
  <2>5. h[Len(s) + 1] = h[Len(s)] + x
    <3>1. Len(s) + 1 \in 1 .. Len(s) + 1 /\ Len(s) + 1 - 1 = Len(s)
      BY <1>2
    <3>2. QED
      BY <2>1, <2>2, <3>1 DEF Adds
  <2>6. QED
    BY <1>1, <2>2, <2>4, <2>5
<1>6. ASSUME s # << >> PROVE FullSize(Front(s)) \in Nat /\ FullSize(Front(s)) <= FullSize(s)
  <2> DEFINE n == Len(s) - 1
  <2>1. /\ n \in Nat /\ Front(s) \in Seq(Nat) /\ Len(Front(s)) = n
        /\ \A i \in 1 .. n : Front(s)[i] = s[i]
    BY <1>6, FrontOf
  <2>2. PICK h : Adds(h, Front(s), n) /\ FullSize(Front(s)) = h[n]
    BY <2>1, SumAdds
  <2>3. Adds(g, s, n)
    BY <1>1, <1>2, <2>1 DEF Adds
  <2>4. g[n] \in Nat /\ h[n] = g[n]
    <3>1. Begin(s, Front(s), n)
      BY <1>2, <2>1 DEF Begin
    <3>2. n \in Nat
      BY <2>1
    <3> HIDE DEF n
    <3>3. QED
      BY <2>2, <2>3, <3>1, <3>2, SumsAgree
  <2>5. g[Len(s)] = g[n] + s[Len(s)] /\ s[Len(s)] \in Nat
    <3>1. Len(s) \in 1 .. Len(s)
      BY <1>2, <2>1
    <3>2. QED
      BY <1>1, <1>2, <3>1 DEF Adds
  <2>6. QED
    BY <1>1, <2>2, <2>4, <2>5
<1>7. QED
  BY <1>3, <1>4, <1>5, <1>6

------------------------------------------------------------------------------
(* Every packet ends where it always did, or will once who sets its window *)
(* is done, and so do the windows on it.  What careful users keep to makes *)
(* this so: one of them at a time sets it, headers stand on one of the     *)
(* Pkts of a packet at most, so that none is pushed out of the window by   *)
(* another one's, and a clone does not move the window back.               *)
WHandles == \A h \in Handles : /\ handle[h].kind \in {"ptr", "off"} /\ handle[h].offset \in Nat
                               /\ handle[h].sizes \in Seq(Nat)
WNumbers == /\ length \in [Packets -> Int] /\ offset \in [Packets -> Nat]
            /\ \A t \in Threads : setting[t].pkt \in Packets \cup {None} /\ setting[t].offset \in Nat
Ends == \A p \in Packets : mem[p] = "live" /\ Settled(p) => length[p] + offset[p] = Bytes
Laden(h, p) == handle[h].pkt = p /\ handle[h].kind = "ptr" /\ handle[h].sizes # << >>
Alone == \A p \in Packets : \A g, h \in Handles : Laden(g, p) /\ Laden(h, p) => g = h
Fits == \A h \in Handles : handle[h].pkt # None =>
            OffsetOf(h) + FullSize(handle[h].sizes) <= Bytes

(* Who sets a window does so alone, moves its beginning on if at all, and  *)
(* leaves the headers on other handles inside.                             *)
Setting(t, p, o) == /\ length[p] + o = Bytes /\ offset[p] <= o /\ o <= Bytes
                    /\ \A u \in Threads : setting[u].pkt = p => u = t
                    /\ \A h \in Handles : handle[h].pkt = p /\ handle[h].kind = "ptr" =>
                                             o + FullSize(handle[h].sizes) <= Bytes
Begun == \A t \in Threads : setting[t].pkt # None => Setting(t, setting[t].pkt, setting[t].offset)

WParts == WHandles /\ WNumbers /\ Ends /\ Alone /\ Fits /\ Begun
WInv == IInv /\ Setters /\ WParts

LEMMA BareSize == ASSUME NEW s, s = << >> PROVE FullSize(s) = 0
  BY EmptySeq, FullSizes

(* Headers go where windows stay; a handle that is new looks at bytes of   *)
(* the packet.                                                             *)
Bare(x) == /\ handle'[x].kind \in {"ptr", "off"} /\ handle'[x].offset \in Nat
           /\ handle'[x].sizes = << >>
           /\ handle'[x].pkt # None => OffsetOf(x)' <= Bytes

LEMMA FewerHandles ==
    ASSUME WInv, IInv', UNCHANGED offset,
           \A x \in Handles : handle'[x] = handle[x] \/ Bare(x)
    PROVE  WHandles' /\ Alone' /\ Fits'
<1>1. WHandles'
  BY EmptySeq DEF WInv, WParts, WHandles, Bare
<1>2. Alone'
  BY DEF WInv, WParts, Alone, Laden, Bare
<1>3. ASSUME NEW x \in Handles, handle'[x].pkt # None
      PROVE  OffsetOf(x)' + FullSize(handle'[x].sizes) <= Bytes
  <2>1. CASE handle'[x] = handle[x]
    <3>1. OffsetOf(x)' = OffsetOf(x)
      BY <2>1 DEF OffsetOf
    <3>2. OffsetOf(x) + FullSize(handle[x].sizes) <= Bytes
      BY <1>3, <2>1 DEF WInv, WParts, Fits
    <3>3. QED
      BY <2>1, <3>1, <3>2
  <2>2. CASE handle'[x].sizes = << >> /\ OffsetOf(x)' <= Bytes
    <3>1. FullSize(handle'[x].sizes) = 0
      BY <2>2, BareSize
    <3>2. OffsetOf(x)' \in Nat
      <4>1. offset' \in [Packets -> Nat] /\ handle'[x].pkt \in Packets /\ handle'[x].offset \in Nat
        BY <1>1, <1>3 DEF IInv, Types, WHandles, WInv, WParts, WNumbers
      <4>2. QED
        BY <4>1 DEF OffsetOf
    <3>3. QED
      BY <2>2, <3>1, <3>2, PacketAssumption
  <2>3. QED
    BY <1>3, <2>1, <2>2 DEF Bare
<1>4. QED
  BY <1>1, <1>2, <1>3 DEF Fits

(* The numbers of a packet that nobody sets, or that t has begun to set.   *)
LEMMA Reads ==
    ASSUME WInv, NEW h \in Handles, handle[h].pkt # None
    PROVE  /\ handle[h].pkt \in Packets /\ mem[handle[h].pkt] = "live"
           /\ length[handle[h].pkt] \in Int /\ offset[handle[h].pkt] \in Nat
           /\ handle[h].offset \in Nat /\ handle[h].kind \in {"ptr", "off"}
           /\ OffsetOf(h) \in Nat /\ OffsetOf(h) <= Bytes
           /\ FullSize(handle[h].sizes) \in Nat
           /\ OffsetOf(h) + FullSize(handle[h].sizes) <= Bytes
<1>1. handle[h].pkt \in Packets /\ mem[handle[h].pkt] = "live"
  BY DEF WInv, IInv, Types, ReachLive
<1>2. /\ length[handle[h].pkt] \in Int /\ offset[handle[h].pkt] \in Nat
      /\ handle[h].offset \in Nat /\ handle[h].kind \in {"ptr", "off"}
  BY <1>1 DEF WInv, WParts, WNumbers, WHandles
<1>3. OffsetOf(h) \in Nat
  BY <1>2 DEF OffsetOf
<1>4. FullSize(handle[h].sizes) \in Nat
  BY FullSizes DEF WInv, WParts, WHandles
<1>5. OffsetOf(h) + FullSize(handle[h].sizes) <= Bytes
  BY DEF WInv, WParts, Fits
<1>6. OffsetOf(h) <= Bytes
  BY <1>3, <1>4, <1>5, PacketAssumption
<1>7. QED
  BY <1>1, <1>2, <1>3, <1>4, <1>5, <1>6

LEMMA Remainder == ASSUME NEW d \in Nat, NEW w \in Nat \ {0}, d < w PROVE d % w = d
  BY SMT

LEMMA SmallLength == \A d \in 0 .. Bytes : d % Word = d
<1>1. Word \in Nat \ {0} /\ Bytes \in Nat /\ Bytes < Word
  BY PacketAssumption DEF Word
<1>2. ASSUME NEW d \in 0 .. Bytes PROVE d % Word = d
  <2>1. d \in Nat /\ d < Word
    BY <1>1
  <2>2. QED
    BY <1>1, <2>1, Remainder
<1>3. QED
  BY <1>2

LEMMA SettledEnds ==
    ASSUME WInv, NEW h \in Handles, handle[h].pkt # None, Settled(handle[h].pkt)
    PROVE  /\ length[handle[h].pkt] + offset[handle[h].pkt] = Bytes
           /\ LengthOf(h) \in Int /\ OffsetOf(h) + LengthOf(h) = Bytes
<1>1. PICK p \in Packets : p = handle[h].pkt
  BY Reads
<1>2. /\ length[p] \in Int /\ offset[p] \in Nat /\ handle[h].offset \in Nat
      /\ OffsetOf(h) \in Nat /\ OffsetOf(h) <= Bytes
  BY <1>1, Reads
<1>3. length[p] + offset[p] = Bytes
  BY <1>1, Reads DEF WInv, WParts, Ends
<1>4. CASE handle[h].kind = "ptr"
  BY <1>1, <1>2, <1>3, <1>4 DEF OffsetOf, LengthOf
<1>5. CASE handle[h].kind # "ptr"
  <2>1. OffsetOf(h) = handle[h].offset /\ LengthOf(h) = (length[p] - (handle[h].offset - offset[p])) % Word
    BY <1>1, <1>5 DEF OffsetOf, LengthOf
  <2>2. PICK d \in 0 .. Bytes : d = Bytes - handle[h].offset
    BY <1>2, <2>1, PacketAssumption
  <2>3. length[p] - (handle[h].offset - offset[p]) = d
    BY <1>2, <1>3, <2>2, PacketAssumption
  <2>4. d % Word = d
    BY <2>2, SmallLength
  <2>5. LengthOf(h) = d
    BY <2>1, <2>3, <2>4
  <2>6. QED
    BY <1>1, <1>2, <1>3, <2>1, <2>2, <2>5, PacketAssumption
<1>6. QED
  BY <1>4, <1>5

(* Nobody begins or ends to set a window.                                  *)
LEMMA FewerHeaders ==
    ASSUME WInv, IInv', Setters', UNCHANGED <<length, offset, setting>>,
           \A p \in Packets : mem'[p] = "live" => mem[p] = "live",
           \A x \in Handles : handle'[x] = handle[x] \/ Bare(x)
    PROVE  WParts'
<1>1. WHandles' /\ Alone' /\ Fits'
  BY FewerHandles
<1>2. WNumbers'
  BY DEF WInv, WParts, WNumbers
<1>3. Ends'
  BY DEF WInv, WParts, Ends, Settled
<1>4. ASSUME NEW t \in Threads, setting[t].pkt # None, NEW x \in Handles,
             handle'[x].pkt = setting[t].pkt, handle'[x].kind = "ptr"
      PROVE  setting[t].offset + FullSize(handle'[x].sizes) <= Bytes
  <2>1. Setting(t, setting[t].pkt, setting[t].offset) /\ setting[t].offset \in Nat
    BY <1>4 DEF WInv, WParts, Begun, WNumbers
  <2>2. CASE handle'[x] = handle[x]
    BY <1>4, <2>1, <2>2 DEF Setting
  <2>3. CASE handle'[x].sizes = << >>
    <3>1. FullSize(handle'[x].sizes) = 0
      BY <2>3, BareSize
    <3>2. setting[t].offset <= Bytes
      BY <2>1 DEF Setting
    <3>3. QED
      BY <2>1, <3>1, <3>2, PacketAssumption
  <2>4. QED
    BY <2>2, <2>3 DEF Bare
<1>5. Begun'
  <2>1. ASSUME NEW t \in Threads, setting[t].pkt # None
        PROVE  Setting(t, setting[t].pkt, setting[t].offset)'
    <3>1. Setting(t, setting[t].pkt, setting[t].offset)
      BY <2>1 DEF WInv, WParts, Begun
    <3>2. QED
      BY <1>4, <2>1, <3>1 DEF Setting
  <2>2. QED
    BY <2>1 DEF Begun
<1>6. QED
  BY <1>1, <1>2, <1>3, <1>5 DEF WParts

LEMMA StayKeep ==
    ASSUME WInv, IInv', Setters', UNCHANGED <<length, offset, handle, setting>>,
           \A p \in Packets : mem'[p] = "live" => mem[p] = "live"
    PROVE  WParts'
  BY FewerHeaders

LEMMA InsideStays ==
    ASSUME WInv, IInv', Setters', NEW t \in Threads, Inside(t)
    PROVE  WParts'
<1>1. UNCHANGED <<length, offset, handle, setting>>
  BY DEF Inside, FreeCount, FreeNext, FreeMemory, Walk, Link
<1>2. \A p \in Packets : mem'[p] = "live" => mem[p] = "live"
  BY DEF Inside, FreeCount, FreeNext, FreeMemory, Walk, Link, WInv, IInv, Types
<1>3. QED
  BY <1>1, <1>2, StayKeep

LEMMA ClearedKeep ==
    ASSUME WInv, IInv', Setters', NEW g \in Handles, UNCHANGED <<mem, length, offset, setting>>,
           handle' = [handle EXCEPT ![g] = Empty]
    PROVE  WParts'
<1>1. ASSUME NEW x \in Handles, x # g PROVE handle'[x] = handle[x]
  BY <1>1
<1>2. handle'[g] = Empty
  BY DEF WInv, IInv, Types
<1>3. Bare(g)
  BY <1>2 DEF Empty, Bare
<1>4. QED
  BY <1>1, <1>3, FewerHeaders

LEMMA TakeOverFits ==
    ASSUME WInv, IInv', Setters', NEW h \in Handles, NEW g \in Handles, TakeOver(h, g)
    PROVE  WParts'
<1> DEFINE q == handle[g].pkt
<1>1. /\ h # g /\ q # None /\ handle[g].kind = "ptr" /\ UNCHANGED <<mem, length, offset, setting>>
      /\ handle' = [handle EXCEPT ![h] = [Empty EXCEPT !.pkt = q], ![g] = Empty]
  BY DEF TakeOver, Unused, Using
<1>2. ASSUME NEW x \in Handles, x # g, x # h PROVE handle'[x] = handle[x]
  BY <1>1, <1>2 DEF WInv, IInv, Types
<1>3. handle'[g] = Empty /\ handle'[h] = [Empty EXCEPT !.pkt = q]
  BY <1>1 DEF WInv, IInv, Types
<1>4. offset[q] <= Bytes
  BY <1>1, Reads DEF OffsetOf
<1>5. /\ handle'[h].pkt = q /\ handle'[h].kind = "ptr" /\ handle'[h].offset = 0
      /\ handle'[h].sizes = << >>
  BY <1>3 DEF Empty
<1>6. OffsetOf(h)' <= Bytes
  BY <1>1, <1>4, <1>5 DEF OffsetOf
<1>7. Bare(h)
  BY <1>5, <1>6 DEF Bare
<1>8. Bare(g)
  BY <1>3 DEF Empty, Bare
<1>9. \A x \in Handles : handle'[x] = handle[x] \/ Bare(x)
  BY <1>2, <1>7, <1>8
<1>10. QED
  BY <1>1, <1>9, FewerHeaders

LEMMA ToOffsetFits ==
    ASSUME WInv, IInv', Setters', NEW h \in Handles, ToOffset(h)
    PROVE  WParts'
<1> DEFINE p == handle[h].pkt
<1>1. /\ p # None /\ handle[h].kind = "ptr" /\ UNCHANGED <<mem, length, offset, setting>>
      /\ handle' = [handle EXCEPT ![h].kind = "off", ![h].sizes = << >>, ![h].offset = offset[p]]
  BY DEF ToOffset, Using
<1>2. ASSUME NEW x \in Handles, x # h PROVE handle'[x] = handle[x]
  BY <1>1, <1>2 DEF WInv, IInv, Types
<1>3. handle'[h].kind = "off" /\ handle'[h].sizes = << >> /\ handle'[h].offset = offset[p]
  BY <1>1 DEF WInv, IInv, Types, HandleFields
<1>4. offset[p] \in Nat /\ offset[p] <= Bytes
  BY <1>1, Reads DEF OffsetOf
<1>5. OffsetOf(h)' <= Bytes
  BY <1>3, <1>4 DEF OffsetOf
<1>6. Bare(h)
  BY <1>3, <1>4, <1>5 DEF Bare
<1>7. QED
  BY <1>1, <1>2, <1>6, FewerHeaders

LEMMA CloneOffsetFits ==
    ASSUME WInv, IInv', Setters', NEW h \in Handles, NEW g \in Handles, CloneOffset(h, g)
    PROVE  WParts'
<1>1. /\ handle[h].pkt # None /\ handle[h].kind = "off" /\ UNCHANGED <<mem, length, offset, setting>>
      /\ handle' = [handle EXCEPT ![g] = [handle[h] EXCEPT !.sizes = << >>]]
  BY DEF CloneOffset, Using
<1>2. ASSUME NEW x \in Handles, x # g PROVE handle'[x] = handle[x]
  BY <1>1, <1>2
<1>3. handle'[g] = [handle[h] EXCEPT !.sizes = << >>]
  BY <1>1 DEF WInv, IInv, Types
<1>4. /\ handle'[g].kind = "off" /\ handle'[g].sizes = << >>
      /\ handle'[g].offset = handle[h].offset
  BY <1>1, <1>3 DEF WInv, IInv, Types, HandleFields
<1>5. handle[h].offset \in Nat /\ handle[h].offset <= Bytes
  BY <1>1, Reads DEF OffsetOf
<1>6. OffsetOf(g)' <= Bytes
  BY <1>4, <1>5 DEF OffsetOf
<1>7. Bare(g)
  BY <1>4, <1>5, <1>6 DEF Bare
<1>8. QED
  BY <1>1, <1>2, <1>7, FewerHeaders

(* A packet that is settled is begun to be set by one thread.              *)
LEMMA BeginKeeps ==
    ASSUME WInv, IInv', Setters', NEW t \in Threads, NEW p \in Packets, Settled(p),
           UNCHANGED <<mem, offset>>, NEW len \in Int, NEW off \in Nat, SetLength(t, p, len, off),
           setting[t].pkt = None, len + off = Bytes, offset[p] <= off, off <= Bytes,
           \A x \in Handles : handle'[x] = handle[x] \/ Bare(x),
           \A x \in Handles : handle'[x].pkt = p /\ handle'[x].kind = "ptr" =>
                                 off + FullSize(handle'[x].sizes) <= Bytes
    PROVE  WParts'
<1>1. WHandles' /\ Alone' /\ Fits'
  BY FewerHandles
<1>2. /\ length' = [length EXCEPT ![p] = len] /\ p # None
      /\ setting' = [setting EXCEPT ![t] = [pkt |-> p, offset |-> off]]
  BY PacketAssumption DEF SetLength
<1>3. /\ length' \in [Packets -> Int] /\ length'[p] = len
      /\ \A q \in Packets \ {p} : length'[q] = length[q]
  BY <1>2 DEF WInv, WParts, WNumbers
<1>4. /\ setting'[t].pkt = p /\ setting'[t].offset = off
      /\ \A u \in Threads \ {t} : setting'[u] = setting[u]
  BY <1>2 DEF WInv, Setters
<1>5. WNumbers'
  BY <1>3, <1>4 DEF WInv, WParts, WNumbers
<1>6. Ends'
  <2>1. ASSUME NEW q \in Packets, mem[q] = "live", Settled(q)' PROVE length'[q] + offset[q] = Bytes
    <3>1. q # p
      BY <1>4, <2>1 DEF Settled
    <3>2. Settled(q)
      BY <1>2, <1>4, <2>1, PacketAssumption DEF Settled
    <3>3. QED
      BY <1>3, <2>1, <3>1, <3>2 DEF WInv, WParts, Ends
  <2>2. QED
    BY <2>1 DEF Ends
<1>7. ASSUME NEW u \in Threads, setting'[u].pkt # None
      PROVE  Setting(u, setting[u].pkt, setting[u].offset)'
  <2>1. CASE u = t
    <3>1. \A v \in Threads : setting'[v].pkt = p => v = t
      BY <1>4 DEF Settled
    <3>2. QED
      BY <1>3, <1>4, <2>1, <3>1 DEF Setting
  <2>2. CASE u # t
    <3>1. PICK q \in Packets : q = setting[u].pkt
      BY <1>4, <1>7, <2>2 DEF WInv, WParts, WNumbers
    <3>2. PICK o \in Nat : o = setting[u].offset
      BY DEF WInv, WParts, WNumbers
    <3>3. /\ setting'[u].pkt = q /\ setting'[u].offset = o /\ q # p
      BY <1>4, <2>2, <3>1, <3>2 DEF Settled
    <3>4. Setting(u, q, o)
      BY <1>7, <3>1, <3>2, <3>3 DEF WInv, WParts, Begun
    <3>5. length'[q] + o = Bytes /\ offset'[q] <= o /\ o <= Bytes
      BY <1>3, <3>3, <3>4 DEF Setting
    <3>6. \A v \in Threads : setting'[v].pkt = q => v = u
      BY <1>4, <3>3, <3>4 DEF Setting
    <3>7. ASSUME NEW x \in Handles, handle'[x].pkt = q, handle'[x].kind = "ptr"
          PROVE  o + FullSize(handle'[x].sizes) <= Bytes
      <4>1. CASE handle'[x] = handle[x]
        BY <3>4, <3>7, <4>1 DEF Setting
      <4>2. CASE handle'[x].sizes = << >>
        BY <3>5, <4>2, BareSize, PacketAssumption
      <4>3. QED
        BY <4>1, <4>2 DEF Bare
    <3>8. QED
      BY <3>3, <3>5, <3>6, <3>7 DEF Setting
  <2>3. QED
    BY <2>1, <2>2
<1>8. Begun'
  BY <1>7 DEF Begun
<1>9. QED
  BY <1>1, <1>5, <1>6, <1>8 DEF WParts

LEMMA ClonePktFits ==
    ASSUME Careful, WInv, IInv', Setters', NEW h \in Handles, NEW g \in Handles, ClonePkt(h, g)
    PROVE  WParts'
<1>1. PICK p \in Packets : p = handle[h].pkt
  BY DEF ClonePkt, Using, WInv, IInv, Types
<1>2. /\ p # None /\ handle[h].kind = "ptr" /\ UNCHANGED <<mem, offset>>
      /\ offset[p] = 0 /\ Settled(p) /\ setting[h[1]].pkt = None
      /\ SetLength(h[1], p, LengthOf(h), 0)
      /\ handle' = [handle EXCEPT ![g] = [Empty EXCEPT !.pkt = p]]
  BY <1>1 DEF ClonePkt, Using, Ready, MayClone
<1>3. ASSUME NEW x \in Handles, x # g PROVE handle'[x] = handle[x]
  BY <1>2, <1>3
<1>4. handle'[g] = [Empty EXCEPT !.pkt = p]
  BY <1>2 DEF WInv, IInv, Types
<1>5. /\ handle'[g].pkt = p /\ handle'[g].kind = "ptr" /\ handle'[g].offset = 0
      /\ handle'[g].sizes = << >>
  BY <1>4 DEF Empty
<1>6. OffsetOf(g)' <= Bytes
  BY <1>2, <1>5, PacketAssumption DEF OffsetOf
<1>7. Bare(g)
  BY <1>5, <1>6 DEF Bare
<1>8. LengthOf(h) \in Int /\ LengthOf(h) + 0 = Bytes
  <2>1. OffsetOf(h) = 0
    BY <1>1, <1>2 DEF OffsetOf
  <2>2. LengthOf(h) \in Int /\ OffsetOf(h) + LengthOf(h) = Bytes
    BY <1>1, <1>2, SettledEnds
  <2>3. QED
    BY <2>1, <2>2
<1>9. ASSUME NEW x \in Handles, handle'[x].pkt = p, handle'[x].kind = "ptr"
      PROVE  0 + FullSize(handle'[x].sizes) <= Bytes
  <2>1. CASE x = g
    BY <1>5, <2>1, BareSize, PacketAssumption
  <2>2. CASE x # g
    <3>1. handle'[x] = handle[x]
      BY <1>3, <2>2
    <3>2. OffsetOf(x) = 0 /\ OffsetOf(x) + FullSize(handle[x].sizes) <= Bytes
      BY <1>2, <1>9, <3>1, Reads DEF OffsetOf
    <3>3. QED
      BY <3>1, <3>2
  <2>3. QED
    BY <2>1, <2>2
<1>10. h[1] \in Threads
  BY DEF Handles
<1>11. \A x \in Handles : handle'[x] = handle[x] \/ Bare(x)
  BY <1>3, <1>7
<1>12. 0 \in Nat /\ offset[p] <= 0 /\ 0 <= Bytes
  BY <1>2, PacketAssumption
<1>13. QED
  BY <1>2, <1>8, <1>9, <1>10, <1>11, <1>12, BeginKeeps

(* Headers become the beginning of what is not looked at any more.         *)
LEMMA BehindFits ==
    ASSUME Careful, WInv, IInv', Setters', NEW h \in Handles, handle[h].pkt # None, handle[h].sizes # << >>,
           setting[h[1]].pkt = None, MaySet(h),
           NEW n \in Nat, n <= FullSize(handle[h].sizes), Behind(h, n), UNCHANGED mem
    PROVE  WParts'
<1>0. PICK p \in Packets : p = handle[h].pkt
  BY Reads
<1>1. /\ length[p] \in Int /\ offset[p] \in Nat /\ handle[h].offset \in Nat /\ handle[h].kind \in {"ptr", "off"}
      /\ OffsetOf(h) \in Nat /\ OffsetOf(h) + n <= Bytes
  <2>1. /\ length[p] \in Int /\ offset[p] \in Nat /\ handle[h].offset \in Nat /\ handle[h].kind \in {"ptr", "off"}
        /\ OffsetOf(h) \in Nat /\ OffsetOf(h) + FullSize(handle[h].sizes) <= Bytes
        /\ FullSize(handle[h].sizes) \in Nat
    BY <1>0, Reads
  <2>2. QED
    BY <2>1, PacketAssumption
<1>2. CASE handle[h].kind = "off"
  <2>1. /\ UNCHANGED <<length, offset, setting>>
        /\ handle' = [handle EXCEPT ![h].sizes = << >>, ![h].offset = @ + n]
    BY <1>2 DEF Behind
  <2>2. ASSUME NEW x \in Handles, x # h PROVE handle'[x] = handle[x]
    BY <2>1, <2>2 DEF WInv, IInv, Types
  <2>3. handle'[h].kind = "off" /\ handle'[h].sizes = << >> /\ handle'[h].offset = handle[h].offset + n
    BY <1>2, <2>1 DEF WInv, IInv, Types, HandleFields
  <2>4. handle'[h].offset \in Nat
    BY <1>1, <2>3
  <2>5. OffsetOf(h)' <= Bytes
    <3>1. OffsetOf(h) = handle[h].offset
      BY <1>2 DEF OffsetOf
    <3>2. OffsetOf(h)' = handle[h].offset + n
      BY <2>3 DEF OffsetOf
    <3>3. QED
      BY <1>1, <3>1, <3>2
  <2>6. Bare(h)
    BY <2>3, <2>4, <2>5 DEF Bare
  <2>7. QED
    BY <2>1, <2>2, <2>6, FewerHeaders
<1>3. CASE handle[h].kind = "ptr"
  <2>1. /\ SetLength(h[1], p, length[p] - n, offset[p] + n) /\ UNCHANGED offset
        /\ handle' = [handle EXCEPT ![h].sizes = << >>]
    BY <1>0, <1>3 DEF Behind
  <2>2. Settled(p) /\ p # None
    BY <1>0, <1>3 DEF MaySet
  <2>3. length[p] + offset[p] = Bytes /\ OffsetOf(h) = offset[p]
    BY <1>0, <1>3, <2>2, SettledEnds DEF OffsetOf
  <2>4. /\ length[p] - n \in Int /\ offset[p] + n \in Nat
        /\ (length[p] - n) + (offset[p] + n) = Bytes
        /\ offset[p] <= offset[p] + n /\ offset[p] + n <= Bytes
    BY <1>1, <2>3, PacketAssumption
  <2>5. \A x \in Handles \ {h} : handle'[x] = handle[x]
    BY <2>1
  <2>6. /\ handle'[h].pkt = p /\ handle'[h].kind = "ptr" /\ handle'[h].offset = handle[h].offset
        /\ handle'[h].sizes = << >>
    BY <1>0, <1>3, <2>1 DEF WInv, IInv, Types, HandleFields
  <2>7. Bare(h)
    <3>1. OffsetOf(h)' = offset[p] /\ offset[p] <= Bytes
      BY <1>1, <2>1, <2>4, <2>6, PacketAssumption DEF OffsetOf
    <3>2. QED
      BY <1>1, <2>6, <3>1 DEF Bare
  <2>8. ASSUME NEW x \in Handles, handle'[x].pkt = p, handle'[x].kind = "ptr"
        PROVE  (offset[p] + n) + FullSize(handle'[x].sizes) <= Bytes
    <3>1. handle'[x].sizes = << >>
      <4>1. CASE x = h
        BY <2>6, <4>1
      <4>2. CASE x # h
        <5>1. Laden(h, p) /\ (handle[x].sizes # << >> => Laden(x, p))
          BY <1>0, <1>3, <2>5, <2>8, <4>2 DEF Laden
        <5>2. QED
          BY <2>5, <4>2, <5>1 DEF WInv, WParts, Alone
      <4>3. QED
        BY <4>1, <4>2
    <3>2. FullSize(handle'[x].sizes) = 0
      BY <3>1, BareSize
    <3>3. QED
      BY <2>4, <3>2, PacketAssumption
  <2>9. h[1] \in Threads /\ \A x \in Handles : handle'[x] = handle[x] \/ Bare(x)
    BY <2>5, <2>7 DEF Handles
  <2>10. PICK len \in Int, off \in Nat : len = length[p] - n /\ off = offset[p] + n
    BY <2>4
  <2>11. QED
    BY <2>1, <2>2, <2>4, <2>8, <2>9, <2>10, BeginKeeps
<1>4. QED
  BY <1>1, <1>2, <1>3

(* The second store: the packet is settled again.                          *)
LEMMA SetOffsetFits ==
    ASSUME WInv, IInv', Setters', NEW t \in Threads, SetOffset(t)
    PROVE  WParts'
<1>1. PICK p \in Packets : p = setting[t].pkt /\ p # None
  BY PacketAssumption DEF SetOffset, WInv, WParts, WNumbers
<1>2. PICK o \in Nat : o = setting[t].offset
  BY DEF WInv, WParts, WNumbers
<1>3. /\ UNCHANGED <<mem, length, handle>> /\ offset' = [offset EXCEPT ![p] = o]
      /\ setting' = [setting EXCEPT ![t] = Nothing]
  BY <1>1, <1>2 DEF SetOffset
<1>4. /\ offset' \in [Packets -> Nat] /\ offset'[p] = o
      /\ \A q \in Packets \ {p} : offset'[q] = offset[q]
  BY <1>3 DEF WInv, WParts, WNumbers
<1>5. /\ setting'[t].pkt = None /\ setting'[t].offset = 0
      /\ \A u \in Threads \ {t} : setting'[u] = setting[u]
  BY <1>3 DEF WInv, Setters, Nothing
<1>6. Setting(t, p, o)
  BY <1>1, <1>2 DEF WInv, WParts, Begun
<1>7. WHandles' /\ Alone'
  BY <1>3 DEF WInv, WParts, WHandles, Alone, Laden
<1>8. WNumbers'
  BY <1>3, <1>4, <1>5 DEF WInv, WParts, WNumbers
<1>9. Ends'
  <2>1. ASSUME NEW q \in Packets, mem[q] = "live", Settled(q)' PROVE length[q] + offset'[q] = Bytes
    <3>1. CASE q = p
      BY <1>4, <1>6, <3>1 DEF Setting
    <3>2. CASE q # p
      <4>1. Settled(q)
        BY <1>1, <1>5, <2>1, <3>2 DEF Settled
      <4>2. QED
        BY <1>4, <2>1, <3>2, <4>1 DEF WInv, WParts, Ends
    <3>3. QED
      BY <3>1, <3>2
  <2>2. QED
    BY <1>3, <2>1 DEF Ends
<1>10. Fits'
  <2>1. ASSUME NEW x \in Handles, handle[x].pkt # None
        PROVE  OffsetOf(x)' + FullSize(handle[x].sizes) <= Bytes
    <3>1. CASE handle[x].pkt = p /\ handle[x].kind = "ptr"
      <4>1. OffsetOf(x)' = o
        BY <1>3, <1>4, <3>1 DEF OffsetOf
      <4>2. QED
        BY <1>6, <3>1, <4>1 DEF Setting
    <3>2. CASE ~(handle[x].pkt = p /\ handle[x].kind = "ptr")
      <4>1. handle[x].pkt \in Packets
        BY <2>1, Reads
      <4>2. OffsetOf(x)' = OffsetOf(x)
        BY <1>3, <1>4, <3>2, <4>1 DEF OffsetOf
      <4>3. QED
        BY <2>1, <4>2, Reads
    <3>3. QED
      BY <3>1, <3>2
  <2>2. QED
    BY <1>3, <2>1 DEF Fits
<1>11. Begun'
  <2>1. ASSUME NEW u \in Threads, setting'[u].pkt # None
        PROVE  Setting(u, setting[u].pkt, setting[u].offset)'
    <3>1. u # t /\ setting'[u] = setting[u]
      BY <1>5, <2>1
    <3>2. PICK q \in Packets : q = setting[u].pkt
      BY <2>1, <3>1 DEF WInv, WParts, WNumbers
    <3>3. q # p
      BY <1>6, <3>1, <3>2 DEF Setting
    <3>4. Setting(u, q, setting[u].offset)
      BY <2>1, <3>1, <3>2 DEF WInv, WParts, Begun
    <3>5. \A v \in Threads : setting'[v].pkt = q => v = u
      BY <1>5, <3>2, <3>4, PacketAssumption DEF Setting
    <3>6. QED
      BY <1>3, <1>4, <3>1, <3>2, <3>3, <3>4, <3>5 DEF Setting
  <2>2. QED
    BY <2>1 DEF Begun
<1>12. QED
  BY <1>7, <1>8, <1>9, <1>10, <1>11 DEF WParts

LEMMA AllocFits ==
    ASSUME WInv, IInv', Setters', NEW h \in Handles, NEW p \in Packets, Alloc(h, p)
    PROVE  WParts'
<1>1. /\ mem[p] = "none" /\ mem' = [mem EXCEPT ![p] = "live"]
      /\ length' = [length EXCEPT ![p] = Bytes] /\ offset' = [offset EXCEPT ![p] = 0]
      /\ handle' = [handle EXCEPT ![h] = [Empty EXCEPT !.pkt = p]] /\ UNCHANGED setting
  BY DEF Alloc
<1>2. /\ length' \in [Packets -> Int] /\ offset' \in [Packets -> Nat]
      /\ length'[p] = Bytes /\ offset'[p] = 0
      /\ \A q \in Packets \ {p} : length'[q] = length[q] /\ offset'[q] = offset[q]
  BY <1>1, PacketAssumption DEF WInv, WParts, WNumbers
<1>3. \A x \in Handles \ {h} : handle'[x] = handle[x]
  BY <1>1
<1>4. handle'[h] = [Empty EXCEPT !.pkt = p]
  BY <1>1 DEF WInv, IInv, Types
<1>5. /\ handle'[h].pkt = p /\ handle'[h].kind = "ptr" /\ handle'[h].offset = 0
      /\ handle'[h].sizes = << >>
  BY <1>4 DEF Empty
<1>6. \A x \in Handles : handle[x].pkt # p
  BY <1>1, PacketAssumption DEF WInv, IInv, ReachLive
<1>7. Settled(p)
  BY <1>6, PacketAssumption DEF Settled, WInv, Setters
<1>8. WHandles'
  <2>1. << >> \in Seq(Nat) /\ 0 \in Nat
    BY EmptySeq
  <2>2. QED
    BY <1>3, <1>5, <2>1 DEF WInv, WParts, WHandles
<1>9. WNumbers'
  BY <1>1, <1>2 DEF WInv, WParts, WNumbers
<1>10. Ends'
  <2>1. ASSUME NEW q \in Packets, mem'[q] = "live", Settled(q)' PROVE length'[q] + offset'[q] = Bytes
    <3>1. CASE q = p
      BY <1>2, <3>1, PacketAssumption
    <3>2. CASE q # p
      <4>1. mem[q] = "live" /\ Settled(q)
        BY <1>1, <2>1, <3>2 DEF Settled
      <4>2. length[q] + offset[q] = Bytes
        BY <4>1 DEF WInv, WParts, Ends
      <4>3. QED
        BY <1>2, <3>2, <4>2
    <3>3. QED
      BY <3>1, <3>2
  <2>2. QED
    BY <2>1 DEF Ends
<1>11. Alone'
  <2>1. ASSUME NEW x \in Handles, handle'[x].sizes # << >> PROVE handle'[x] = handle[x]
    BY <1>3, <1>5, <2>1
  <2>2. QED
    BY <2>1 DEF WInv, WParts, Alone, Laden
<1>12. Fits'
  <2>1. ASSUME NEW x \in Handles, handle'[x].pkt # None
        PROVE  OffsetOf(x)' + FullSize(handle'[x].sizes) <= Bytes
    <3>1. CASE x = h
      <4>1. FullSize(handle'[x].sizes) = 0
        BY <1>5, <3>1, BareSize
      <4>2. OffsetOf(x)' = 0
        BY <1>2, <1>5, <3>1 DEF OffsetOf
      <4>3. QED
        BY <4>1, <4>2, PacketAssumption
    <3>2. CASE x # h
      <4>1. handle'[x] = handle[x] /\ handle[x].pkt # p /\ handle[x].pkt \in Packets
        BY <1>3, <1>6, <2>1, <3>2 DEF WInv, IInv, Types
      <4>2. OffsetOf(x)' = OffsetOf(x)
        BY <1>2, <4>1 DEF OffsetOf
      <4>3. OffsetOf(x) + FullSize(handle[x].sizes) <= Bytes
        BY <2>1, <4>1 DEF WInv, WParts, Fits
      <4>4. QED
        BY <4>1, <4>2, <4>3
    <3>3. QED
      BY <3>1, <3>2
  <2>2. QED
    BY <2>1 DEF Fits
<1>13. Begun'
  <2>1. ASSUME NEW t \in Threads, setting[t].pkt # None
        PROVE  Setting(t, setting[t].pkt, setting[t].offset)'
    <3>1. PICK q \in Packets : q = setting[t].pkt
      BY <2>1 DEF WInv, WParts, WNumbers
    <3>2. q # p
      BY <1>7, <3>1 DEF Settled
    <3>3. Setting(t, q, setting[t].offset)
      BY <2>1, <3>1 DEF WInv, WParts, Begun
    <3>4. \A x \in Handles : handle'[x].pkt = q => handle'[x] = handle[x]
      BY <1>3, <1>5, <3>2
    <3>5. QED
      BY <1>1, <1>2, <3>1, <3>2, <3>3, <3>4 DEF Setting
  <2>2. QED
    BY <1>1, <2>1 DEF Begun
<1>14. QED
  BY <1>8, <1>9, <1>10, <1>11, <1>12, <1>13 DEF WParts

LEMMA MakeFits ==
    ASSUME Careful, WInv, IInv', Setters', NEW h \in Handles, NEW s \in Sizes, Make(h, s)
    PROVE  WParts'
<1> DEFINE z == handle[h].sizes
<1>0. PICK p \in Packets : p = handle[h].pkt
  BY DEF Make, Using, WInv, IInv, Types
<1>1. /\ p # None /\ UNCHANGED <<mem, length, offset, setting>>
      /\ FullSize(z) + s <= LengthOf(h) /\ MayPut(h) /\ Settled(p)
      /\ handle' = [handle EXCEPT ![h].sizes = Append(z, s)]
  BY <1>0 DEF Make, Using, MayPut
<1>2. s \in Nat /\ z \in Seq(Nat)
  BY PacketAssumption DEF WInv, WParts, WHandles
<1>3. \A x \in Handles \ {h} : handle'[x] = handle[x]
  BY <1>1
<1>4. /\ handle'[h].pkt = p /\ handle'[h].kind = handle[h].kind
      /\ handle'[h].offset = handle[h].offset /\ handle'[h].sizes = Append(z, s)
  BY <1>0, <1>1 DEF WInv, IInv, Types, HandleFields
<1>5. WHandles'
  <2>1. Append(z, s) \in Seq(Nat)
    BY <1>2, AppendProperties
  <2>2. QED
    BY <1>3, <1>4, <2>1 DEF WInv, WParts, WHandles
<1>6. WNumbers' /\ Ends'
  BY <1>1 DEF WInv, WParts, WNumbers, Ends, Settled
<1>7. Alone'
  <2>1. ASSUME handle[h].kind = "ptr", NEW x \in Handles \ {h} PROVE ~Laden(x, p)'
    <3>1. handle[x].pkt = p => handle[x].kind = "off" \/ handle[x].sizes = << >>
      BY <1>0, <1>1, <2>1 DEF MayPut, Held
    <3>2. handle'[x] = handle[x]
      BY <1>3
    <3>3. QED
      BY <3>1, <3>2 DEF Laden
  <2>2. ASSUME NEW q \in Packets, NEW x \in Handles, NEW y \in Handles, Laden(x, q)', Laden(y, q)'
        PROVE  x = y
    <3>1. CASE x # h /\ y # h
      BY <1>3, <2>2, <3>1 DEF WInv, WParts, Alone, Laden
    <3>2. CASE x = h
      <4>1. q = p /\ handle[h].kind = "ptr" /\ (x # y => y \in Handles \ {h})
        BY <1>4, <2>2, <3>2 DEF Laden
      <4>2. QED
        BY <2>1, <2>2, <3>2, <4>1
    <3>3. CASE y = h
      <4>1. q = p /\ handle[h].kind = "ptr" /\ (x # y => x \in Handles \ {h})
        BY <1>4, <2>2, <3>3 DEF Laden
      <4>2. QED
        BY <2>1, <2>2, <3>3, <4>1
    <3>4. QED
      BY <3>1, <3>2, <3>3
  <2>3. QED
    BY <2>2 DEF Alone
<1>8. \A x \in Handles : OffsetOf(x)' = OffsetOf(x)
  BY <1>1, <1>3, <1>4 DEF OffsetOf
<1>9. Fits'
  <2>1. OffsetOf(h) + FullSize(Append(z, s)) <= Bytes
    <3>1. FullSize(Append(z, s)) = FullSize(z) + s /\ FullSize(z) \in Nat
      BY <1>2, FullSizes
    <3>2. OffsetOf(h) \in Nat /\ LengthOf(h) \in Int /\ OffsetOf(h) + LengthOf(h) = Bytes
      BY <1>0, <1>1, Reads, SettledEnds
    <3>3. QED
      BY <1>1, <1>2, <3>1, <3>2, PacketAssumption
  <2>2. QED
    BY <1>3, <1>4, <1>8, <2>1 DEF WInv, WParts, Fits
<1>10. Begun'
  <2>1. ASSUME NEW t \in Threads, setting[t].pkt # None
        PROVE  Setting(t, setting[t].pkt, setting[t].offset)'
    <3>1. setting[t].pkt # p
      BY <1>1 DEF Settled
    <3>2. Setting(t, setting[t].pkt, setting[t].offset)
      BY <2>1 DEF WInv, WParts, Begun
    <3>3. \A x \in Handles : handle'[x].pkt = setting[t].pkt => handle'[x] = handle[x]
      BY <1>3, <1>4, <3>1
    <3>4. QED
      BY <1>1, <3>2, <3>3 DEF Setting
  <2>2. QED
    BY <1>1, <2>1 DEF Begun
<1>11. QED
  BY <1>5, <1>6, <1>7, <1>9, <1>10 DEF WParts

LEMMA WStart == Init => WInv
<1> SUFFICES ASSUME Init PROVE WInv
  OBVIOUS
<1>1. /\ \A h \in Handles : /\ handle[h].pkt = None /\ handle[h].kind = "ptr"
                            /\ handle[h].offset = 0 /\ handle[h].sizes = << >>
      /\ \A p \in Packets : mem[p] = "none"
      /\ \A t \in Threads : setting[t].pkt = None /\ setting[t].offset = 0
      /\ DOMAIN setting = Threads
  BY DEF Init, Empty, Nothing
<1>2. WNumbers /\ Setters
  BY <1>1 DEF Init, WNumbers, Setters
<1>3. WHandles
  <2>1. << >> \in Seq(Nat) /\ 0 \in Nat
    BY EmptySeq
  <2>2. QED
    BY <1>1, <2>1 DEF WHandles
<1>4. Ends /\ Alone /\ Fits /\ Begun
  BY <1>1 DEF Ends, Alone, Laden, Fits, Begun
<1>5. QED
  BY <1>2, <1>3, <1>4, Start DEF WInv, WParts

LEMMA WStep == Careful /\ WInv /\ [Next]_vars => WInv'
<1> SUFFICES ASSUME Careful, WInv, [Next]_vars PROVE WInv'
  OBVIOUS
<1>1. IInv' /\ Setters'
  BY Step, SettersStep DEF WInv
<1>2. ASSUME UNCHANGED vars PROVE WParts'
  <2>1. UNCHANGED <<length, offset, handle, setting>> /\ \A p \in Packets : mem'[p] = "live" => mem[p] = "live"
    BY <1>2 DEF vars
  <2>2. QED
    BY <1>1, <2>1, StayKeep
<1>3. ASSUME NEW h \in Handles, NEW p \in Packets, Alloc(h, p) PROVE WParts'
  BY <1>1, <1>3, AllocFits
<1>4. ASSUME NEW h \in Handles, NEW s \in Sizes, Make(h, s) PROVE WParts'
  BY <1>1, <1>4, MakeFits
<1>5. ASSUME NEW h \in Handles, Push(h) PROVE WParts'
  <2>1. handle[h].pkt # None /\ handle[h].sizes # << >> /\ UNCHANGED mem /\ MaySet(h) /\ setting[h[1]].pkt = None
    BY <1>5 DEF Push, Using, Ready
  <2>2. PICK n : n = FullSize(handle[h].sizes) /\ Behind(h, n)
    BY <1>5 DEF Push
  <2>3. n \in Nat /\ n <= FullSize(handle[h].sizes)
    BY <2>1, <2>2, Reads
  <2>4. QED
    BY <1>1, <2>1, <2>2, <2>3, BehindFits
<1>6. ASSUME NEW h \in Handles, Rebase(h) PROVE WParts'
  <2>1. handle[h].pkt # None /\ handle[h].sizes # << >> /\ UNCHANGED mem /\ MaySet(h) /\ setting[h[1]].pkt = None
    BY <1>6 DEF Rebase, Using, Ready
  <2>2. PICK n : n = FullSize(Front(handle[h].sizes)) /\ Behind(h, n)
    BY <1>6 DEF Rebase
  <2>3. n \in Nat /\ n <= FullSize(handle[h].sizes)
    BY <2>1, <2>2, FullSizes DEF WInv, WParts, WHandles
  <2>4. QED
    BY <1>1, <2>1, <2>2, <2>3, BehindFits
<1>7. ASSUME NEW h \in Handles, ToOffset(h) PROVE WParts'
  BY <1>1, <1>7, ToOffsetFits
<1>8. ASSUME NEW h \in Handles, Drop(h) PROVE WParts'
  BY <1>1, <1>8, ClearedKeep DEF Drop
<1>9. ASSUME NEW h \in Handles, NEW g \in Handles, ClonePkt(h, g) \/ CloneOffset(h, g) \/ TakeOver(h, g)
      PROVE  WParts'
  BY <1>1, <1>9, ClonePktFits, CloneOffsetFits, TakeOverFits
<1>10. ASSUME NEW h \in Handles, NEW g \in Handles, AddPacket(h, g) PROVE WParts'
  BY <1>1, <1>10, ClearedKeep DEF AddPacket
<1>11. ASSUME NEW t \in Threads, SetOffset(t) \/ Inside(t) PROVE WParts'
  BY <1>1, <1>11, SetOffsetFits, InsideStays
<1>12. WParts'
  <2>1. CASE \E h \in Handles : \/ \E p \in Packets : Alloc(h, p)
                                \/ \E s \in Sizes : Make(h, s)
    BY <1>3, <1>4, <2>1
  <2>2. CASE \E h \in Handles : Push(h) \/ Rebase(h) \/ ToOffset(h) \/ Drop(h)
    BY <1>5, <1>6, <1>7, <1>8, <2>2
  <2>3. CASE \E h \in Handles : \E g \in Handles : \/ ClonePkt(h, g) \/ CloneOffset(h, g)
                                                 \/ AddPacket(h, g) \/ TakeOver(h, g)
    BY <1>9, <1>10, <2>3
  <2>4. CASE \E t \in Threads : SetOffset(t) \/ Inside(t)
    BY <1>11, <2>4
  <2>5. QED
    BY <1>2, <2>1, <2>2, <2>3, <2>4 DEF Next
<1>13. QED
  BY <1>1, <1>12 DEF WInv

(* With careful users every window begins inside its packet and, unless    *)
(* somebody is between the two stores of the packet's window, ends where   *)
(* the packet ends, with the headers on it inside; between them the window *)
(* of a Pkt is short of the end and never beyond it.                       *)
THEOREM WindowsStayInside ==
    ASSUME Careful
    PROVE  Spec => []WindowsInside
<1>1. WInv /\ [Next]_vars => WInv'
  BY WStep
<1>2. WInv => WindowsInside
  <2> SUFFICES ASSUME WInv, NEW h \in Handles, handle[h].pkt # None
               PROVE  /\ OffsetOf(h) \in 0 .. Bytes
                      /\ handle[h].kind = "ptr" => LengthOf(h) >= 0 /\ OffsetOf(h) + LengthOf(h) <= Bytes
                      /\ Settled(handle[h].pkt) => /\ OffsetOf(h) + LengthOf(h) = Bytes
                                                   /\ FullSize(handle[h].sizes) <= LengthOf(h)
    BY DEF WindowsInside
  <2>1. PICK p \in Packets : p = handle[h].pkt
    BY Reads
  <2>2. /\ OffsetOf(h) \in Nat /\ OffsetOf(h) <= Bytes
        /\ FullSize(handle[h].sizes) \in Nat /\ OffsetOf(h) + FullSize(handle[h].sizes) <= Bytes
        /\ length[p] \in Int /\ offset[p] \in Nat
    BY <2>1, Reads
  <2>3. Settled(p) => /\ OffsetOf(h) + LengthOf(h) = Bytes
                      /\ FullSize(handle[h].sizes) <= LengthOf(h)
    BY <2>1, <2>2, SettledEnds, PacketAssumption
  <2>4. ASSUME handle[h].kind = "ptr" PROVE LengthOf(h) >= 0 /\ OffsetOf(h) + LengthOf(h) <= Bytes
    <3>1. LengthOf(h) = length[p] /\ OffsetOf(h) = offset[p]
      BY <2>1, <2>4 DEF LengthOf, OffsetOf
    <3>2. CASE Settled(p)
      BY <2>1, <2>2, <3>1, <3>2, SettledEnds, PacketAssumption
    <3>3. CASE ~Settled(p)
      <4>1. PICK t \in Threads : setting[t].pkt = p
        BY <3>3 DEF Settled
      <4>2. PICK o \in Nat : o = setting[t].offset
        BY DEF WInv, WParts, WNumbers
      <4>3. length[p] + o = Bytes /\ offset[p] <= o /\ o <= Bytes
        BY <2>1, <4>1, <4>2 DEF WInv, WParts, Begun, Setting
      <4>4. QED
        BY <2>2, <3>1, <4>2, <4>3, PacketAssumption
    <3>4. QED
      BY <3>2, <3>3
  <2>5. QED
    BY <2>1, <2>2, <2>3, <2>4, PacketAssumption
<1>3. QED
  BY <1>1, <1>2, WStart, PTL DEF Spec
==============================================================================
