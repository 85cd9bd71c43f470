---------------------------- MODULE CaptureProofs ----------------------------
(***************************************************************************)
(* What Capture and its drivers keep right for every number of drivers and *)
(* threads, every file and every clock; and at the end what the clock      *)
(* itself, TickClock, keeps right for the threads that read it.            *)
(*                                                                         *)
(* The argument: a thread at a driver holds the driver's lock and is the   *)
(* one whose array the driver fills (Locked), from the place on up to      *)
(* which packets were counted, so that those counted stay in their places  *)
(* (Counted); a share for each driver passed is enough (Room).  The        *)
(* packets of a file are handed out in order because the one that is held  *)
(* back is the last one read; they are never early because _pkt_sent is    *)
(* the time of the first one plus the gaps since (Paced), whether the last *)
(* one read has been handed out or is held back.                           *)
(***************************************************************************)
EXTENDS Capture, TickClock, SequenceTheorems, WellFoundedInduction, TLAPS

AtDriver == {"driver", "done", "failed"}
Having == AtDriver \cup {"idling", "asking"}
Labels == {"out", "get", "got", "idle", "finished"} \cup Having
Serving == [thread : Threads \cup {None}, base : Nat, out : Seq(PacketType)]
Playing == [pkt : PacketType, at : Nat]

ThreadTypes ==
    /\ pc \in [Threads -> Labels]
    /\ at \in [Threads -> Drivers]
    /\ got \in [Threads -> Nat]
    /\ bulk \in [Threads -> Seq(PacketType)]
    /\ told \in [Threads -> Seq(PacketType)]

DriverTypes ==
    /\ clock \in Nat \ {0}
    /\ read \in [Drivers -> Nat] /\ arrived \in [Drivers -> Nat]
    /\ held \in [Drivers -> PacketType \cup {None}]
    /\ pktTime \in [Drivers -> Nat] /\ pktSent \in [Drivers -> Nat]
    /\ finished \in [Drivers -> BOOLEAN]
    /\ lock \in [Drivers -> Threads \cup {None}]
    /\ curr \in [Drivers -> Serving]
    /\ played \in [Drivers -> Seq(Playing)]

Types == ThreadTypes /\ DriverTypes

(* No driver hands out more than there is.                                 *)
Supply == \A d \in Drivers : /\ read[d] <= arrived[d] /\ arrived[d] <= Len(File[d])
                             /\ d \in Offline => arrived[d] = Len(File[d])
                             /\ d \notin Offline => held[d] = None /\ ~finished[d]

(* A thread that is at a driver has its lock, and the driver the thread's  *)
(* array, from the packets counted on.                                     *)
Locked == \A t \in Threads :
             /\ pc[t] \in Having => lock[at[t]] = t
             /\ pc[t] \in AtDriver => curr[at[t]].thread = t /\ curr[at[t]].base = got[t]

(* The packets of s are the first ones of an array.                        *)
Begins(array, s) == Len(s) <= Len(array) /\ \A i \in 1 .. Len(s) : array[i] = s[i]

(* What a thread has counted, and what it is about to, are in its array.   *)
Counted == \A t \in Threads :
              /\ got[t] = Len(told[t]) /\ Begins(bulk[t], told[t])
              /\ pc[t] = "driver" => curr[at[t]].out = << >>
              /\ pc[t] = "done" => Begins(bulk[t], told[t] \o curr[at[t]].out)

(* Every driver so far has written its share at most.                      *)
Room == \A t \in Threads :
           /\ pc[t] \in {"get", "driver"} => Len(bulk[t]) <= Share * (at[t] - 1)
           /\ pc[t] \in {"done", "failed"} => Len(bulk[t]) <= Share * at[t]
           /\ Len(bulk[t]) <= Share * DriversCnt
           /\ pc[t] = "out" => at[t] = 1

IInv == Types /\ Supply /\ Locked /\ Counted /\ Room

(* The packets of a driver that are through, those held back included.     *)
Through(d) == Packets(d) \o HeldPackets(d)

------------------------------------------------------------------------------
(* Induction.  The theorems of the library take a property; these take the *)
(* set of what has it, which the provers can instantiate.                  *)

LEMMA LeastNumber ==
    ASSUME NEW T, T \subseteq Nat, T # {}
    PROVE  \E n \in T : \A m \in T : n <= m
<1>1. PICK n \in T : \A m \in T : ~ (<<m, n>> \in OpToRel(<, Nat))
  BY NatLessThanWellFounded, WFMin, Zenon
<1>2. \A m \in T : m < n => <<m, n>> \in OpToRel(<, Nat)
  BY DEF OpToRel
<1>3. \A m \in T : ~ (m < n)
  BY <1>1, <1>2, Zenon
<1>4. QED
  BY <1>3

LEMMA SetInduction ==
    ASSUME NEW S, 0 \in S, \A n \in Nat : n \in S => n + 1 \in S
    PROVE  Nat \subseteq S
<1> DEFINE T == Nat \ S
<1>1. CASE T # {}
  <2>1. PICK n \in T : \A m \in T : n <= m
    BY <1>1, LeastNumber
  <2>2. n # 0 /\ n \in Nat /\ n - 1 \in Nat
    BY <2>1
  <2>3. n - 1 \in S
    BY <2>1, <2>2
  <2>4. n - 1 + 1 \in S
    BY <2>2, <2>3
  <2>5. n - 1 + 1 = n
    BY <2>2
  <2>6. QED
    BY <2>1, <2>4, <2>5
<1>2. QED
  BY <1>1

(* What is defined step by step from a beginning exists, and is one.       *)
Steps(step, n, X) == \A i \in 1 .. n : \A y \in X : step[i][y] \in X
Stepwise(g, x, step, n) == g[0] = x /\ \A i \in 1 .. n : g[i] = step[i][g[i - 1]]

LEMMA StepwiseExists ==
    ASSUME NEW n \in Nat, NEW X, NEW x \in X, NEW step, Steps(step, n, X)
    PROVE  \E g \in [0 .. n -> X] : Stepwise(g, x, step, n)
<1> DEFINE S == {k \in Nat : k <= n => \E g \in [0 .. n -> X] : Stepwise(g, x, step, k)}
<1>1. 0 \in S
  <2>1. Stepwise([i \in 0 .. n |-> x], x, step, 0)
    BY DEF Stepwise
  <2>2. [i \in 0 .. n |-> x] \in [0 .. n -> X]
    OBVIOUS
  <2>3. QED
    BY <2>1, <2>2
<1>2. ASSUME NEW k \in Nat, k \in S PROVE k + 1 \in S
  <2> SUFFICES ASSUME k + 1 <= n PROVE \E g \in [0 .. n -> X] : Stepwise(g, x, step, k + 1)
    OBVIOUS
  <2>1. PICK g \in [0 .. n -> X] : Stepwise(g, x, step, k)
    BY <1>2
  <2>2. PICK h : h = [g EXCEPT ![k + 1] = step[k + 1][g[k]]]
    OBVIOUS
  <2>3. h \in [0 .. n -> X] /\ h[k + 1] = step[k + 1][g[k]]
    BY <2>2 DEF Steps
  <2>4. \A i \in 0 .. k : h[i] = g[i]
    BY <2>2
  <2>5. ASSUME NEW i \in 1 .. k + 1 PROVE h[i] = step[i][h[i - 1]]
    <3>1. CASE i = k + 1
      BY <2>3, <2>4, <3>1
    <3>2. CASE i # k + 1
      <4>1. i \in 1 .. k /\ i \in 0 .. k /\ i - 1 \in 0 .. k
        BY <3>2
      <4>2. QED
        BY <2>1, <2>4, <4>1 DEF Stepwise
    <3>3. QED
      BY <3>1, <3>2
  <2>6. h[0] = x
    BY <2>1, <2>4 DEF Stepwise
  <2>7. Stepwise(h, x, step, k + 1)
    BY <2>5, <2>6 DEF Stepwise
  <2>8. QED
    BY <2>3, <2>7
<1>3. n \in S
  BY <1>1, <1>2, SetInduction
<1>4. QED
  BY <1>3

SameSteps(g, h, n) == g[0] = h[0] /\ \A i \in 1 .. n : g[i - 1] = h[i - 1] => g[i] = h[i]

LEMMA StepwiseUnique ==
    ASSUME NEW n \in Nat, NEW g, NEW h, SameSteps(g, h, n)
    PROVE  g[n] = h[n]
<1> DEFINE S == {k \in Nat : k <= n => g[k] = h[k]}
<1>1. 0 \in S
  BY DEF SameSteps
<1>2. ASSUME NEW k \in Nat, k \in S PROVE k + 1 \in S
  <2> SUFFICES ASSUME k + 1 <= n PROVE g[k + 1] = h[k + 1]
    OBVIOUS
  <2>1. k + 1 \in 1 .. n /\ (k + 1) - 1 = k
    OBVIOUS
  <2>2. g[k] = h[k]
    BY <1>2
  <2>3. QED
    BY <2>1, <2>2 DEF SameSteps
<1>3. Nat \subseteq S
  BY <1>1, <1>2, SetInduction
<1>4. QED
  BY <1>3

(* Induction over sequences: from the empty one, by one more at the end.   *)
LEMMA SeqInduction ==
    ASSUME NEW P, NEW T, << >> \in T,
           \A s \in Seq(P) : \A e \in P : s \in T => Append(s, e) \in T
    PROVE  Seq(P) \subseteq T
<1> DEFINE S == {k \in Nat : \A s \in Seq(P) : Len(s) = k => s \in T}
<1>1. 0 \in S
  <2>1. \A s \in Seq(P) : Len(s) = 0 => s = << >>
    BY EmptySeq
  <2>2. QED
    BY <2>1
<1>2. ASSUME NEW k \in Nat, k \in S PROVE k + 1 \in S
  <2> SUFFICES ASSUME NEW s \in Seq(P), Len(s) = k + 1 PROVE s \in T
    OBVIOUS
  <2>1. s # << >>
    BY EmptySeq
  <2>2. PICK r \in Seq(P), e \in P : s = Append(r, e)
    BY <2>1, SequenceEmptyOrAppend
  <2>3. Len(r) \in Nat /\ Len(s) = Len(r) + 1
    BY <2>2, AppendProperties, LenProperties
  <2>4. r \in T
    BY <1>2, <2>3
  <2>5. QED
    BY <2>2, <2>4
<1>3. Nat \subseteq S
  BY <1>1, <1>2, SetInduction
<1>4. QED
  BY <1>3, LenProperties

------------------------------------------------------------------------------
(* What pcapHandler keeps of what is read.                                 *)

Kept(y, p) == IF p.big THEN y ELSE Append(y, p)

LEMMA KeptType ==
    ASSUME NEW y \in Seq(PacketType), NEW p \in PacketType
    PROVE  Kept(y, p) \in Seq(PacketType) /\ Len(Kept(y, p)) <= Len(y) + 1
  BY AppendProperties DEF Kept

LEMMA AppendIntoConcat ==
    ASSUME NEW P, NEW s \in Seq(P), NEW r \in Seq(P), NEW e \in P
    PROVE  s \o Append(r, e) = Append(s \o r, e)
<1>1. << e >> \in Seq(P) /\ s \o r \in Seq(P)
  BY ConcatProperties
<1>2. Append(r, e) = r \o << e >> /\ Append(s \o r, e) = (s \o r) \o << e >>
  BY <1>1, AppendIsConcat
<1>3. QED
  BY <1>1, <1>2, ConcatAssociative

LEMMA SmallIs ==
    ASSUME NEW s \in Seq(PacketType)
    PROVE  \E g \in [0 .. Len(s) -> Seq(PacketType)] :
              /\ g[0] = << >> /\ \A i \in 1 .. Len(s) : g[i] = Kept(g[i - 1], s[i])
              /\ Small(s) = g[Len(s)]
<1>1. PICK n \in Nat : n = Len(s) /\ \A i \in 1 .. n : s[i] \in PacketType
  BY LenProperties, ElementOfSeq
<1>2. PICK step : step = [i \in 1 .. n |-> [y \in Seq(PacketType) |-> Kept(y, s[i])]]
  OBVIOUS
<1>3. \A i \in 1 .. n : \A y \in Seq(PacketType) : step[i][y] = Kept(y, s[i]) /\ step[i][y] \in Seq(PacketType)
  BY <1>1, <1>2, KeptType
<1>4. PICK g \in [0 .. n -> Seq(PacketType)] : g[0] = << >> /\ \A i \in 1 .. n : g[i] = step[i][g[i - 1]]
  <2>1. << >> \in Seq(PacketType)
    BY EmptySeq
  <2>2. Steps(step, n, Seq(PacketType))
    BY <1>3 DEF Steps
  <2>3. PICK g \in [0 .. n -> Seq(PacketType)] : Stepwise(g, << >>, step, n)
    BY <2>1, <2>2, StepwiseExists
  <2>4. QED
    BY <2>3 DEF Stepwise
<1>5. ASSUME NEW i \in 1 .. n PROVE g[i] = Kept(g[i - 1], s[i])
  <2>1. i - 1 \in 0 .. n
    OBVIOUS
  <2>2. g[i - 1] \in Seq(PacketType)
    BY <2>1
  <2>3. QED
    BY <1>3, <1>4, <2>2
<1> DEFINE Def(h) == h = [i \in 0 .. Len(s) |-> IF i = 0 THEN << >>
                                                ELSE IF s[i].big THEN h[i - 1] ELSE Append(h[i - 1], s[i])]
<1>6. Def(g)
  <2>1. ASSUME NEW i \in 0 .. n
        PROVE  g[i] = IF i = 0 THEN << >> ELSE IF s[i].big THEN g[i - 1] ELSE Append(g[i - 1], s[i])
    <3>1. CASE i = 0
      BY <1>4, <3>1
    <3>2. CASE i # 0
      <4>1. i \in 1 .. n
        BY <3>2
      <4>2. QED
        BY <1>5, <3>2, <4>1 DEF Kept
    <3>3. QED
      BY <3>1, <3>2
  <2>2. QED
    BY <1>1, <2>1
<1>7. PICK kept : Def(kept) /\ Small(s) = kept[n]
  BY <1>1, <1>6 DEF Small
<1>8. kept[0] = << >>
  BY <1>1, <1>7
<1>9. ASSUME NEW i \in 1 .. n PROVE kept[i] = Kept(kept[i - 1], s[i])
  <2>1. i \in 0 .. n /\ i # 0
    OBVIOUS
  <2>2. kept[i] = IF s[i].big THEN kept[i - 1] ELSE Append(kept[i - 1], s[i])
    BY <1>1, <1>7, <2>1
  <2>3. QED
    BY <2>2 DEF Kept
<1>10. kept[n] = g[n]
  <2>1. SameSteps(kept, g, n)
    BY <1>4, <1>5, <1>8, <1>9 DEF SameSteps
  <2>2. QED
    BY <2>1, StepwiseUnique
<1>11. QED
  BY <1>1, <1>4, <1>5, <1>7, <1>10

LEMMA SmallEmpty == Small(<< >>) = << >>
<1>1. << >> \in Seq(PacketType) /\ Len(<< >>) = 0
  BY EmptySeq
<1>2. QED
  BY <1>1, SmallIs

LEMMA SmallAppend ==
    ASSUME NEW s \in Seq(PacketType), NEW p \in PacketType
    PROVE  Small(Append(s, p)) = Kept(Small(s), p)
<1> DEFINE n == Len(s)
           t == Append(s, p)
<1>1. n \in Nat /\ t \in Seq(PacketType) /\ Len(t) = n + 1 /\ t[n + 1] = p /\ \A i \in 1 .. n : t[i] = s[i]
  BY AppendProperties, LenProperties
<1>2. PICK g \in [0 .. n -> Seq(PacketType)] :
         g[0] = << >> /\ (\A i \in 1 .. n : g[i] = Kept(g[i - 1], s[i])) /\ Small(s) = g[n]
  BY SmallIs
<1>3. PICK h \in [0 .. n + 1 -> Seq(PacketType)] :
         h[0] = << >> /\ (\A i \in 1 .. n + 1 : h[i] = Kept(h[i - 1], t[i])) /\ Small(t) = h[n + 1]
  BY <1>1, SmallIs
<1>4. g[n] = h[n]
  <2>1. ASSUME NEW i \in 1 .. n, g[i - 1] = h[i - 1] PROVE g[i] = h[i]
    <3>1. i \in 1 .. n + 1 /\ t[i] = s[i]
      BY <1>1
    <3>2. QED
      BY <1>2, <1>3, <2>1, <3>1
  <2>2. SameSteps(g, h, n)
    BY <1>2, <1>3, <2>1 DEF SameSteps
  <2>3. QED
    BY <1>1, <2>2, StepwiseUnique
<1>5. h[n + 1] = Kept(h[n], p)
  <2>1. PICK q : q = n + 1
    OBVIOUS
  <2>2. q \in 1 .. n + 1 /\ q - 1 = n /\ t[q] = p
    BY <1>1, <2>1
  <2>3. h[q] = Kept(h[q - 1], t[q])
    BY <1>3, <2>2
  <2>4. QED
    BY <2>1, <2>2, <2>3
<1>6. QED
  BY <1>2, <1>3, <1>4, <1>5

LEMMA SmallType ==
    ASSUME NEW s \in Seq(PacketType)
    PROVE  Small(s) \in Seq(PacketType) /\ Len(Small(s)) <= Len(s)
<1> DEFINE T == {r \in Seq(PacketType) : Small(r) \in Seq(PacketType) /\ Len(Small(r)) <= Len(r)}
<1>1. << >> \in T
  <2>1. << >> \in Seq(PacketType) /\ Len(<< >>) = 0
    BY EmptySeq
  <2>2. Small(<< >>) \in Seq(PacketType) /\ Len(Small(<< >>)) = 0
    BY <2>1, SmallEmpty, Zenon
  <2>3. Len(Small(<< >>)) <= Len(<< >>)
    BY <2>1, <2>2
  <2>4. QED
    BY <2>1, <2>2, <2>3
<1>2. ASSUME NEW r \in Seq(PacketType), NEW p \in PacketType, r \in T PROVE Append(r, p) \in T
  <2>1. Small(r) \in Seq(PacketType) /\ Len(Small(r)) <= Len(r)
    BY <1>2
  <2>2. Small(Append(r, p)) = Kept(Small(r), p)
    BY SmallAppend
  <2>3. Kept(Small(r), p) \in Seq(PacketType) /\ Len(Kept(Small(r), p)) <= Len(Small(r)) + 1
    BY <2>1, KeptType
  <2>4. Append(r, p) \in Seq(PacketType) /\ Len(Append(r, p)) = Len(r) + 1
    BY AppendProperties
  <2>5. Len(r) \in Nat /\ Len(Small(r)) \in Nat /\ Len(Kept(Small(r), p)) \in Nat
    BY <2>1, <2>3, LenProperties
  <2>6. QED
    BY <2>1, <2>2, <2>3, <2>4, <2>5
<1>3. Seq(PacketType) \subseteq T
  BY <1>1, <1>2, SeqInduction
<1>4. QED
  BY <1>3

LEMMA SmallConcat ==
    ASSUME NEW s \in Seq(PacketType), NEW r \in Seq(PacketType)
    PROVE  Small(s \o r) = Small(s) \o Small(r)
<1> DEFINE T == {q \in Seq(PacketType) : Small(s \o q) = Small(s) \o Small(q)}
<1>1. << >> \in T
  BY SmallEmpty, SmallType, EmptySeq, ConcatEmptySeq
<1>2. ASSUME NEW q \in Seq(PacketType), NEW p \in PacketType, q \in T PROVE Append(q, p) \in T
  <2>1. s \o q \in Seq(PacketType) /\ Append(q, p) \in Seq(PacketType)
    BY ConcatProperties, AppendProperties
  <2>2. s \o Append(q, p) = Append(s \o q, p)
    BY AppendIntoConcat
  <2>3. Small(s \o Append(q, p)) = Kept(Small(s) \o Small(q), p)
    BY <1>2, <2>1, <2>2, SmallAppend
  <2>4. Small(s) \in Seq(PacketType) /\ Small(q) \in Seq(PacketType)
    BY SmallType
  <2>5. Kept(Small(s) \o Small(q), p) = Small(s) \o Kept(Small(q), p)
    <3>1. \A a, b \in Seq(PacketType) : a \o Append(b, p) = Append(a \o b, p)
      BY AppendIntoConcat
    <3>2. QED
      BY <2>4, <3>1 DEF Kept
  <2>6. QED
    BY <2>1, <2>3, <2>5, SmallAppend
<1>3. Seq(PacketType) \subseteq T
  BY <1>1, <1>2, SeqInduction
<1>4. QED
  BY <1>3

------------------------------------------------------------------------------
(* The time between two packets of a file.                                 *)

StampGap(s, k) == IF s[k].ts > s[k - 1].ts THEN s[k].ts - s[k - 1].ts ELSE 0
Sum(s, y, k) == IF k < 2 THEN 0 ELSE y + StampGap(s, k)

LEMMA StampGapIsNat ==
    ASSUME NEW s \in Seq(PacketType), NEW k \in 2 .. Len(s)
    PROVE  StampGap(s, k) \in Nat
<1>1. k \in 1 .. Len(s) /\ k - 1 \in 1 .. Len(s)
  BY LenProperties
<1>2. s[k].ts \in Nat /\ s[k - 1].ts \in Nat
  <2>1. s[k] \in PacketType /\ s[k - 1] \in PacketType
    BY <1>1, ElementOfSeq
  <2>2. QED
    BY <2>1 DEF PacketType
<1>3. QED
  BY <1>2 DEF StampGap

LEMMA ElapsedIs ==
    ASSUME NEW s \in Seq(PacketType), NEW i \in 1 .. Len(s)
    PROVE  \E g \in [0 .. i -> Nat] :
              /\ g[0] = 0 /\ \A k \in 1 .. i : g[k] = Sum(s, g[k - 1], k)
              /\ Elapsed(s, i) = g[i]
<1>0. i \in Nat /\ Len(s) \in Nat
  BY LenProperties
<1>1. PICK step : step = [k \in 1 .. i |-> [y \in Nat |-> Sum(s, y, k)]]
  OBVIOUS
<1>2. \A k \in 1 .. i : \A y \in Nat : step[k][y] = Sum(s, y, k) /\ step[k][y] \in Nat
  <2> SUFFICES ASSUME NEW k \in 1 .. i, NEW y \in Nat PROVE step[k][y] = Sum(s, y, k) /\ Sum(s, y, k) \in Nat
    OBVIOUS
  <2>1. step[k][y] = Sum(s, y, k)
    BY <1>1
  <2>2. k >= 2 => k \in 2 .. Len(s)
    BY <1>0
  <2>3. Sum(s, y, k) \in Nat
    BY <2>2, StampGapIsNat DEF Sum
  <2>4. QED
    BY <2>1, <2>3
<1>3. PICK g \in [0 .. i -> Nat] : Stepwise(g, 0, step, i)
  <2>1. Steps(step, i, Nat)
    BY <1>2 DEF Steps
  <2>2. QED
    BY <1>0, <2>1, StepwiseExists
<1>4. ASSUME NEW k \in 1 .. i PROVE g[k] = Sum(s, g[k - 1], k)
  <2>1. k - 1 \in 0 .. i
    BY <1>0
  <2>2. g[k - 1] \in Nat
    BY <2>1
  <2>3. QED
    BY <1>2, <1>3, <2>2 DEF Stepwise
<1> DEFINE Def(h) == h = [k \in 0 .. i |-> IF k < 2 THEN 0
                                           ELSE h[k - 1] + IF s[k].ts > s[k - 1].ts THEN s[k].ts - s[k - 1].ts ELSE 0]
<1>5. Def(g)
  <2>1. ASSUME NEW k \in 0 .. i
        PROVE  g[k] = IF k < 2 THEN 0
                      ELSE g[k - 1] + IF s[k].ts > s[k - 1].ts THEN s[k].ts - s[k - 1].ts ELSE 0
    <3>1. CASE k = 0
      BY <1>3, <3>1 DEF Stepwise
    <3>2. CASE k # 0
      <4>1. k \in 1 .. i
        BY <3>2
      <4>2. QED
        BY <1>4, <4>1 DEF Sum, StampGap
    <3>3. QED
      BY <3>1, <3>2
  <2>2. QED
    BY <2>1
<1>6. PICK sum : Def(sum) /\ Elapsed(s, i) = sum[i]
  BY <1>5 DEF Elapsed
<1>7. ASSUME NEW k \in 1 .. i PROVE sum[k] = Sum(s, sum[k - 1], k)
  <2>1. k \in 0 .. i
    OBVIOUS
  <2>2. QED
    BY <1>6, <2>1 DEF Sum, StampGap
<1>8. sum[i] = g[i]
  <2>1. sum[0] = 0 /\ g[0] = 0
    BY <1>0, <1>3, <1>6 DEF Stepwise
  <2>2. SameSteps(sum, g, i)
    BY <1>4, <1>7, <2>1 DEF SameSteps
  <2>3. QED
    BY <1>0, <2>2, StepwiseUnique
<1>9. g[0] = 0
  BY <1>3 DEF Stepwise
<1>10. QED
  BY <1>4, <1>6, <1>8, <1>9

(* It depends on the packets up to there only.                             *)
LEMMA ElapsedAgrees ==
    ASSUME NEW s \in Seq(PacketType), NEW r \in Seq(PacketType), NEW i \in 1 .. Len(s),
           i <= Len(r), \A k \in 1 .. i : r[k] = s[k]
    PROVE  Elapsed(r, i) = Elapsed(s, i)
<1>0. i \in Nat /\ i \in 1 .. Len(r)
  BY LenProperties
<1>1. PICK g \in [0 .. i -> Nat] :
         g[0] = 0 /\ (\A k \in 1 .. i : g[k] = Sum(s, g[k - 1], k)) /\ Elapsed(s, i) = g[i]
  BY ElapsedIs
<1>2. PICK h \in [0 .. i -> Nat] :
         h[0] = 0 /\ (\A k \in 1 .. i : h[k] = Sum(r, h[k - 1], k)) /\ Elapsed(r, i) = h[i]
  BY <1>0, ElapsedIs
<1>3. ASSUME NEW k \in 1 .. i, g[k - 1] = h[k - 1] PROVE g[k] = h[k]
  <2>1. g[k] = Sum(s, g[k - 1], k) /\ h[k] = Sum(r, h[k - 1], k)
    BY <1>1, <1>2
  <2>2. CASE k < 2
    BY <2>1, <2>2 DEF Sum
  <2>3. CASE k >= 2
    <3>1. r[k] = s[k] /\ r[k - 1] = s[k - 1]
      BY <1>0, <2>3
    <3>2. QED
      BY <1>3, <2>1, <2>3, <3>1 DEF Sum, StampGap
  <2>4. QED
    BY <2>2, <2>3
<1>4. SameSteps(g, h, i)
  BY <1>1, <1>2, <1>3 DEF SameSteps
<1>5. QED
  BY <1>0, <1>1, <1>2, <1>4, StepwiseUnique

LEMMA ElapsedSteps ==
    ASSUME NEW s \in Seq(PacketType), NEW i \in 1 .. Len(s)
    PROVE  /\ Elapsed(s, i) \in Nat
           /\ i = 1 => Elapsed(s, i) = 0
           /\ i # 1 => Elapsed(s, i) = Elapsed(s, i - 1) + StampGap(s, i)
<1>0. i \in Nat /\ Len(s) \in Nat
  BY LenProperties
<1>1. PICK g \in [0 .. i -> Nat] :
         g[0] = 0 /\ (\A k \in 1 .. i : g[k] = Sum(s, g[k - 1], k)) /\ Elapsed(s, i) = g[i]
  BY ElapsedIs
<1>2. Elapsed(s, i) \in Nat /\ g[i] = Sum(s, g[i - 1], i)
  BY <1>0, <1>1
<1>3. CASE i = 1
  BY <1>1, <1>2, <1>3 DEF Sum
<1>4. CASE i # 1
  <2>1. i - 1 \in 1 .. Len(s) /\ i - 1 \in Nat
    BY <1>0, <1>4
  <2>2. PICK h \in [0 .. i - 1 -> Nat] :
           h[0] = 0 /\ (\A k \in 1 .. i - 1 : h[k] = Sum(s, h[k - 1], k)) /\ Elapsed(s, i - 1) = h[i - 1]
    BY <2>1, ElapsedIs
  <2>3. ASSUME NEW k \in 1 .. i - 1, g[k - 1] = h[k - 1] PROVE g[k] = h[k]
    BY <1>0, <1>1, <2>2, <2>3
  <2>4. SameSteps(g, h, i - 1)
    BY <1>1, <2>2, <2>3 DEF SameSteps
  <2>5. g[i - 1] = h[i - 1]
    BY <2>1, <2>4, StepwiseUnique
  <2>6. QED
    BY <1>0, <1>1, <1>2, <1>4, <2>2, <2>5 DEF Sum
<1>5. QED
  BY <1>2, <1>3, <1>4

------------------------------------------------------------------------------
(* One step of the machine.                                                *)

LEMMA ShareFits ==
    /\ Share \in Nat \ {0}
    /\ \A k \in Drivers : Share * (k - 1) + Share = Share * k /\ Share * k <= Share * DriversCnt
    /\ Share * DriversCnt <= BulkLimit
<1>1. Share \in Nat \ {0} /\ Share * DriversCnt <= BulkLimit
  BY DriversAssumption DEF Share
<1>2. ASSUME NEW k \in Drivers
      PROVE  Share * (k - 1) + Share = Share * k /\ Share * k <= Share * DriversCnt
  BY <1>1, DriversAssumption DEF Drivers
<1>3. QED
  BY <1>1, <1>2

(* The thread that has a driver's lock is the only one there.              *)
LEMMA OneAtDriver ==
    ASSUME IInv, NEW t \in Threads, pc[t] \in Having
    PROVE  /\ at[t] \in Drivers /\ lock[at[t]] = t
           /\ \A u \in Threads \ {t} : pc[u] \in Having => at[u] # at[t]
  BY DEF IInv, Locked, Types, ThreadTypes, DriverTypes

LEMMA FunctionIsSeq ==
    ASSUME NEW S, NEW n \in Nat, NEW f \in [1 .. n -> S]
    PROVE  f \in Seq(S)
  BY SeqDef

(* What was in an array before the n-th place stays, and pkts come next.   *)
LEMMA WrittenIs ==
    ASSUME NEW array \in Seq(PacketType), NEW s \in Seq(PacketType), Begins(array, s),
           NEW pkts \in Seq(PacketType)
    PROVE  LET w == Written(array, Len(s), pkts)
           IN  /\ w \in Seq(PacketType) /\ Begins(w, s \o pkts)
               /\ Len(w) = IF Len(array) < Len(s) + Len(pkts) THEN Len(s) + Len(pkts) ELSE Len(array)
<1>1. PICK a \in Nat : a = Len(array)
  BY LenProperties
<1>2. PICK n \in Nat : n = Len(s)
  BY LenProperties
<1>3. PICK k \in Nat : k = Len(pkts)
  BY LenProperties
<1>4. PICK m \in Nat : m = IF a < n + k THEN n + k ELSE a
  OBVIOUS
<1>5. n <= a /\ n + k <= m /\ (m = n + k \/ m = a)
  BY <1>1, <1>2, <1>4 DEF Begins
<1>6. PICK w : w = [i \in 1 .. m |-> IF n < i /\ i <= n + k THEN pkts[i - n] ELSE array[i]]
  OBVIOUS
<1>7. Written(array, Len(s), pkts) = w
  BY <1>1, <1>2, <1>3, <1>4, <1>6 DEF Written
<1>8. ASSUME NEW i \in 1 .. m
      PROVE  (IF n < i /\ i <= n + k THEN pkts[i - n] ELSE array[i]) \in PacketType
  <2>1. CASE n < i /\ i <= n + k
    <3>1. i - n \in 1 .. Len(pkts)
      BY <1>3, <2>1
    <3>2. QED
      BY <2>1, <3>1, ElementOfSeq
  <2>2. CASE ~ (n < i /\ i <= n + k)
    <3>1. i \in 1 .. Len(array)
      BY <1>1, <1>5, <2>2
    <3>2. QED
      BY <2>2, <3>1, ElementOfSeq
  <2>3. QED
    BY <2>1, <2>2
<1>9. w \in [1 .. m -> PacketType]
  BY <1>6, <1>8
<1>10. w \in Seq(PacketType) /\ Len(w) = m
  <2>1. w \in Seq(PacketType)
    BY <1>9, FunctionIsSeq
  <2>2. DOMAIN w = 1 .. m
    BY <1>6
  <2>3. QED
    BY <2>1, <2>2, LenProperties
<1>11. /\ s \o pkts \in Seq(PacketType) /\ Len(s \o pkts) = n + k
       /\ \A i \in 1 .. n + k : (s \o pkts)[i] = IF i <= n THEN s[i] ELSE pkts[i - n]
  BY <1>2, <1>3, ConcatProperties
<1>12. ASSUME NEW i \in 1 .. n + k
       PROVE  w[i] = (s \o pkts)[i]
  <2>1. i \in 1 .. m /\ w[i] = IF n < i /\ i <= n + k THEN pkts[i - n] ELSE array[i]
    BY <1>5, <1>6
  <2>2. (s \o pkts)[i] = IF i <= n THEN s[i] ELSE pkts[i - n]
    BY <1>11
  <2>3. i <= n => array[i] = s[i]
    BY <1>2 DEF Begins
  <2>4. CASE i <= n
    BY <2>1, <2>2, <2>3, <2>4
  <2>5. CASE ~ i <= n
    <3>1. n < i /\ i <= n + k
      BY <2>5
    <3>2. QED
      BY <2>1, <2>2, <2>5, <3>1
  <2>6. QED
    BY <2>4, <2>5
<1>13. Begins(w, s \o pkts)
  BY <1>5, <1>10, <1>11, <1>12 DEF Begins
<1>14. QED
  BY <1>1, <1>2, <1>3, <1>4, <1>7, <1>10, <1>13

LEMMA HandsOut ==
    ASSUME IInv, NEW t \in Threads, pc[t] = "driver", NEW pkts \in Seq(PacketType), HandOut(at[t], pkts)
    PROVE  /\ bulk' \in [Threads -> Seq(PacketType)] /\ Begins(bulk'[t], told[t] \o pkts)
           /\ Len(bulk'[t]) = Len(bulk[t]) \/ Len(bulk'[t]) = got[t] + Len(pkts)
           /\ \A u \in Threads \ {t} : bulk'[u] = bulk[u]
           /\ curr' \in [Drivers -> Serving]
           /\ curr'[at[t]].thread = t /\ curr'[at[t]].base = got[t] /\ curr'[at[t]].out = pkts
           /\ \A d \in Drivers \ {at[t]} : curr'[d] = curr[d]
           /\ played' \in [Drivers -> Seq(Playing)]
<1>1. /\ at[t] \in Drivers /\ curr[at[t]].thread = t /\ curr[at[t]].out = << >>
      /\ curr[at[t]].base = got[t] /\ got[t] = Len(told[t]) /\ got[t] \in Nat
      /\ bulk \in [Threads -> Seq(PacketType)] /\ clock \in Nat
      /\ told[t] \in Seq(PacketType) /\ bulk[t] \in Seq(PacketType) /\ Begins(bulk[t], told[t])
      /\ curr \in [Drivers -> Serving]
      /\ played \in [Drivers -> Seq(Playing)]
  BY DEF IInv, Types, ThreadTypes, DriverTypes, Locked, Counted, AtDriver
<1>2. bulk' = [bulk EXCEPT ![t] = Written(bulk[t], Len(told[t]), pkts)]
  <2>1. Len(<< >>) = 0 /\ got[t] + 0 = Len(told[t])
    BY <1>1
  <2>2. QED
    BY <1>1, <2>1 DEF HandOut
<1>3. PICK w : w = Written(bulk[t], Len(told[t]), pkts)
  OBVIOUS
<1>4. /\ w \in Seq(PacketType) /\ Begins(w, told[t] \o pkts)
      /\ Len(w) = Len(bulk[t]) \/ Len(w) = got[t] + Len(pkts)
  BY <1>1, <1>3, WrittenIs
<1>5. played' = [played EXCEPT ![at[t]] = @ \o [i \in DOMAIN pkts |-> [pkt |-> pkts[i], at |-> clock]]]
  BY DEF HandOut
<1>6. [i \in DOMAIN pkts |-> [pkt |-> pkts[i], at |-> clock]] \in Seq(Playing)
  <2>1. Len(pkts) \in Nat /\ DOMAIN pkts = 1 .. Len(pkts) /\ \A i \in 1 .. Len(pkts) : pkts[i] \in PacketType
    BY LenProperties, ElementOfSeq
  <2>2. [i \in DOMAIN pkts |-> [pkt |-> pkts[i], at |-> clock]] \in [1 .. Len(pkts) -> Playing]
    BY <1>1, <2>1 DEF Playing
  <2>3. PICK n \in Nat : n = Len(pkts)
    BY <2>1
  <2>4. QED
    BY <2>2, <2>3, FunctionIsSeq
<1>7. played[at[t]] \o [i \in DOMAIN pkts |-> [pkt |-> pkts[i], at |-> clock]] \in Seq(Playing)
  BY <1>1, <1>6, ConcatProperties
<1>8. /\ bulk' \in [Threads -> Seq(PacketType)] /\ bulk'[t] = w
      /\ \A u \in Threads \ {t} : bulk'[u] = bulk[u]
  BY <1>1, <1>2, <1>3, <1>4
<1>9. /\ curr' \in [Drivers -> Serving]
      /\ curr'[at[t]].thread = t /\ curr'[at[t]].base = got[t] /\ curr'[at[t]].out = pkts
      /\ \A d \in Drivers \ {at[t]} : curr'[d] = curr[d]
  <2>1. PICK b \in Serving : b = curr[at[t]]
    BY <1>1
  <2>2. << >> \o pkts = pkts
    BY ConcatEmptySeq
  <2>3. PICK c : c = [b EXCEPT !.out = pkts]
    OBVIOUS
  <2>4. c \in Serving /\ c.thread = t /\ c.base = got[t] /\ c.out = pkts
    BY <1>1, <2>1, <2>3 DEF Serving
  <2>5. curr' = [curr EXCEPT ![at[t]] = c]
    <3>1. curr' = [curr EXCEPT ![at[t]].out = @ \o pkts]
      BY DEF HandOut
    <3>2. QED
      BY <1>1, <2>1, <2>2, <2>3, <3>1
  <2>6. QED
    BY <1>1, <2>4, <2>5
<1>10. played' \in [Drivers -> Seq(Playing)]
  BY <1>1, <1>5, <1>7
<1>11. QED
  BY <1>4, <1>8, <1>9, <1>10

LEMMA Advances ==
    ASSUME Types, NEW t \in Threads, NEW loop, NEW after, Advance(t, loop, after),
           {loop, after} \subseteq Labels
    PROVE  /\ pc' \in [Threads -> Labels]
           /\ at' \in [Threads -> Drivers]
           /\ \A u \in Threads \ {t} : pc'[u] = pc[u] /\ at'[u] = at[u]
           /\ \/ pc'[t] = loop /\ at'[t] = at[t] + 1
              \/ pc'[t] = after /\ at'[t] = 1 /\ at[t] = DriversCnt
<1>1. pc \in [Threads -> Labels] /\ at \in [Threads -> Drivers] /\ at[t] \in Drivers
  BY DEF Types, ThreadTypes
<1>2. CASE at[t] = DriversCnt
  <2>1. 1 \in Drivers
    BY DriversAssumption DEF Drivers
  <2>2. QED
    BY <1>1, <1>2, <2>1 DEF Advance
<1>3. CASE at[t] # DriversCnt
  <2>1. at[t] + 1 \in Drivers
    BY <1>1, <1>3, DriversAssumption DEF Drivers
  <2>2. QED
    BY <1>1, <1>3, <2>1 DEF Advance
<1>4. QED
  BY <1>2, <1>3

(* What a packet of a file does: it is handed out, held back or ignored.   *)
LEMMA Plays ==
    ASSUME IInv, NEW t \in Threads, pc[t] = "driver", NEW p \in PacketType, PlayPacket(at[t], p)
    PROVE  LET d == at[t]
           IN  /\ held' \in [Drivers -> PacketType \cup {None}]
               /\ pktTime' \in [Drivers -> Nat] /\ pktSent' \in [Drivers -> Nat]
               /\ \A e \in Drivers \ {d} : held'[e] = held[e]
               /\ \/ HandOut(d, <<p>>) /\ UNCHANGED held
                  \/ UNCHANGED <<bulk, curr, played>>
<1>1. /\ at[t] \in Drivers /\ clock \in Nat /\ p.ts \in Nat
      /\ held \in [Drivers -> PacketType \cup {None}]
      /\ pktTime \in [Drivers -> Nat] /\ pktSent \in [Drivers -> Nat]
  BY DEF IInv, Types, ThreadTypes, DriverTypes, PacketType
<1>2. Gap(at[t], p.ts) \in Nat
  BY <1>1 DEF Gap
<1>3. SentAt(at[t], p.ts) \in Nat
  BY <1>1, <1>2 DEF SentAt
<1>4. CASE p.big
  BY <1>1, <1>4 DEF PlayPacket
<1>5. CASE ~p.big
  <2>1. pktTime' = [pktTime EXCEPT ![at[t]] = p.ts] /\ pktSent' = [pktSent EXCEPT ![at[t]] = SentAt(at[t], p.ts)]
    BY <1>5 DEF PlayPacket
  <2>2. \/ held' = [held EXCEPT ![at[t]] = p] /\ UNCHANGED <<bulk, curr, played>>
        \/ HandOut(at[t], <<p>>) /\ UNCHANGED held
    BY <1>5 DEF PlayPacket
  <2>3. QED
    BY <1>1, <1>3, <2>1, <2>2
<1>6. QED
  BY <1>4, <1>5

------------------------------------------------------------------------------
(* getPackets of a driver, whatever it finds.                              *)
DriverStep(t) == \/ ReadFile(t) \/ ReadEnd(t) \/ PlayHeld(t) \/ NotDue(t)
                 \/ ReadLive(t) \/ FileError(t) \/ LiveError(t)

(* What it leaves alone.                                                   *)
LEMMA DriverKeeps ==
    ASSUME IInv, NEW t \in Threads, DriverStep(t)
    PROVE  /\ pc[t] = "driver"
           /\ pc' = [pc EXCEPT ![t] = "done"] \/ pc' = [pc EXCEPT ![t] = "failed"]
           /\ UNCHANGED <<clock, arrived, lock, at, got, told>>
  BY DEF DriverStep, ReadFile, ReadEnd, PlayHeld, NotDue, ReadLive, FileError, LiveError, fileVars

(* A live dispatch, whether it fails or not.                               *)
LEMMA LiveDispatches ==
    ASSUME NEW t \in Threads, ReadLive(t) \/ LiveError(t)
    PROVE  /\ \E n \in 0 .. Share : Dispatch(at[t], n)
           /\ at[t] \notin Offline /\ pc[t] = "driver"
           /\ UNCHANGED <<held, pktTime, pktSent, finished>>
<1>1. CASE ReadLive(t)
  BY <1>1 DEF ReadLive
<1>2. CASE LiveError(t)
  <2>1. PICK n \in 0 .. Share - 1 : Dispatch(at[t], n)
    BY <1>2 DEF LiveError
  <2>2. n \in 0 .. Share
    BY ShareFits
  <2>3. QED
    BY <1>2, <2>1, <2>2 DEF LiveError
<1>3. QED
  BY <1>1, <1>2

(* What it hands out.                                                      *)
Hands(t, pkts) == \/ HandOut(at[t], pkts)
                  \/ pkts = << >> /\ UNCHANGED <<bulk, curr, played>>

LEMMA DriverHands ==
    ASSUME IInv, NEW t \in Threads, DriverStep(t)
    PROVE  \E pkts \in Seq(PacketType) : Hands(t, pkts) /\ Len(pkts) <= Share
<1>0. /\ at[t] \in Drivers /\ Share \in Nat \ {0} /\ File[at[t]] \in Seq(PacketType)
      /\ read[at[t]] \in Nat /\ read[at[t]] <= Len(File[at[t]]) /\ Len(File[at[t]]) \in Nat
      /\ arrived[at[t]] \in Nat /\ arrived[at[t]] <= Len(File[at[t]])
      /\ held[at[t]] \in PacketType \cup {None}
      /\ << >> \in Seq(PacketType) /\ Len(<< >>) = 0
  <2>1. at[t] \in Drivers /\ Share \in Nat \ {0} /\ File[at[t]] \in Seq(PacketType)
    BY ShareFits, FileAssumption DEF IInv, Types, ThreadTypes
  <2>2. read[at[t]] \in Nat /\ arrived[at[t]] \in Nat /\ held[at[t]] \in PacketType \cup {None}
    BY <2>1 DEF IInv, Types, DriverTypes
  <2>3. Len(File[at[t]]) \in Nat
    BY <2>1, LenProperties
  <2>4. QED
    BY <2>1, <2>2, <2>3, EmptySeq DEF IInv, Supply
<1>1. ASSUME NEW p \in PacketType, Hands(t, <<p>>)
      PROVE  \E pkts \in Seq(PacketType) : Hands(t, pkts) /\ Len(pkts) <= Share
  <2>1. PICK s : s = <<p>>
    OBVIOUS
  <2>2. s \in Seq(PacketType) /\ Len(s) = 1
    BY <2>1
  <2>3. Len(s) <= Share
    BY <1>0, <2>2
  <2>4. QED
    BY <1>1, <2>1, <2>2, <2>3, Zenon
<1>2. ASSUME UNCHANGED <<bulk, curr, played>>
      PROVE  \E pkts \in Seq(PacketType) : Hands(t, pkts) /\ Len(pkts) <= Share
  <2>1. PICK s : s = << >>
    OBVIOUS
  <2>2. s \in Seq(PacketType) /\ Len(s) <= Share
    BY <1>0, <2>1
  <2>3. Hands(t, s)
    BY <1>2, <2>1 DEF Hands
  <2>4. QED
    BY <2>2, <2>3
<1>3. CASE ReadFile(t)
  <2>1. PICK p \in PacketType : PlayPacket(at[t], p)
    <3>1. File[at[t]][read[at[t]] + 1] \in PacketType
      BY <1>0, <1>3, ElementOfSeq DEF ReadFile
    <3>2. QED
      BY <1>3, <3>1 DEF ReadFile
  <2>2. HandOut(at[t], <<p>>) \/ UNCHANGED <<bulk, curr, played>>
    BY <1>3, <2>1, Plays DEF ReadFile
  <2>3. QED
    BY <1>1, <1>2, <2>2 DEF Hands
<1>4. CASE PlayHeld(t)
  <2>1. held[at[t]] \in PacketType /\ HandOut(at[t], <<held[at[t]]>>)
    BY <1>0, <1>4 DEF PlayHeld
  <2>2. QED
    BY <1>1, <2>1 DEF Hands
<1>5. CASE ReadLive(t) \/ LiveError(t)
  <2>1. PICK n \in 0 .. Share :
           /\ read[at[t]] + n <= arrived[at[t]]
           /\ HandOut(at[t], Small(SubSeq(File[at[t]], read[at[t]] + 1, read[at[t]] + n)))
    BY <1>5, LiveDispatches DEF Dispatch
  <2>2. PICK s : s = SubSeq(File[at[t]], read[at[t]] + 1, read[at[t]] + n)
    OBVIOUS
  <2>3. n \in Nat /\ n <= Share
    BY <1>0, <2>1
  <2>4. s \in Seq(PacketType) /\ Len(s) = n
    <3>1. \A i \in read[at[t]] + 1 .. read[at[t]] + n : File[at[t]][i] \in PacketType
      <4>1. \A i \in read[at[t]] + 1 .. read[at[t]] + n : i \in 1 .. Len(File[at[t]])
        BY <1>0, <2>1, <2>3
      <4>2. QED
        BY <1>0, <4>1, ElementOfSeq
    <3>2. read[at[t]] + 1 \in Int /\ read[at[t]] + n \in Int
      BY <1>0, <2>3
    <3>3. /\ s \in Seq(PacketType)
          /\ Len(s) = IF read[at[t]] + 1 <= read[at[t]] + n THEN (read[at[t]] + n) - (read[at[t]] + 1) + 1 ELSE 0
      BY <2>2, <3>1, <3>2, SubSeqProperties
    <3>4. QED
      BY <1>0, <2>3, <3>3
  <2>5. Small(s) \in Seq(PacketType) /\ Len(Small(s)) <= n /\ Len(Small(s)) \in Nat
    BY <2>4, SmallType, LenProperties
  <2>6. Len(Small(s)) <= Share
    BY <1>0, <2>3, <2>5
  <2>7. QED
    BY <2>1, <2>2, <2>5, <2>6 DEF Hands
<1>6. CASE ReadEnd(t) \/ NotDue(t) \/ FileError(t)
  BY <1>2, <1>6 DEF ReadEnd, NotDue, FileError, fileVars
<1>7. QED
  BY <1>3, <1>4, <1>5, <1>6 DEF DriverStep

LEMMA DriverFills ==
    ASSUME IInv, NEW t \in Threads, DriverStep(t)
    PROVE  /\ bulk' \in [Threads -> Seq(PacketType)] /\ curr' \in [Drivers -> Serving]
           /\ played' \in [Drivers -> Seq(Playing)]
           /\ Begins(bulk'[t], told[t] \o curr'[at[t]].out) /\ Begins(bulk'[t], told[t])
           /\ Len(bulk'[t]) <= Len(bulk[t]) + Share
           /\ curr'[at[t]].thread = t /\ curr'[at[t]].base = got[t]
           /\ \A u \in Threads \ {t} : bulk'[u] = bulk[u]
           /\ \A d \in Drivers \ {at[t]} : curr'[d] = curr[d]
<1>1. pc[t] = "driver"
  BY DriverKeeps
<1>2. PICK pkts \in Seq(PacketType) : Hands(t, pkts) /\ Len(pkts) <= Share
  BY DriverHands
<1>3. /\ curr[at[t]].thread = t /\ curr[at[t]].base = got[t] /\ curr[at[t]].out = << >>
      /\ Len(bulk[t]) \in Nat /\ Share \in Nat /\ Len(pkts) \in Nat
      /\ got[t] = Len(told[t]) /\ Begins(bulk[t], told[t]) /\ told[t] \in Seq(PacketType)
      /\ got[t] <= Len(bulk[t]) /\ got[t] \in Nat
  <2>1. told[t] \in Seq(PacketType) /\ bulk[t] \in Seq(PacketType) /\ got[t] \in Nat
    BY DEF IInv, Types, ThreadTypes
  <2>2. QED
    BY <1>1, <2>1, ShareFits, LenProperties DEF IInv, Locked, Counted, AtDriver, Begins
<1>4. CASE HandOut(at[t], pkts)
  <2>1. /\ bulk' \in [Threads -> Seq(PacketType)] /\ Begins(bulk'[t], told[t] \o pkts)
        /\ Len(bulk'[t]) = Len(bulk[t]) \/ Len(bulk'[t]) = got[t] + Len(pkts)
        /\ \A u \in Threads \ {t} : bulk'[u] = bulk[u]
        /\ curr' \in [Drivers -> Serving]
        /\ curr'[at[t]].thread = t /\ curr'[at[t]].base = got[t] /\ curr'[at[t]].out = pkts
        /\ \A d \in Drivers \ {at[t]} : curr'[d] = curr[d]
        /\ played' \in [Drivers -> Seq(Playing)]
    BY <1>1, <1>4, HandsOut
  <2>2. PICK w : w = bulk'[t]
    OBVIOUS
  <2>3. Begins(w, told[t])
    <3>1. PICK n \in Nat : n = Len(told[t])
      BY <1>3
    <3>2. PICK k \in Nat : k = Len(pkts)
      BY <1>3
    <3>3. Len(told[t] \o pkts) = n + k /\ \A i \in 1 .. n : (told[t] \o pkts)[i] = told[t][i]
      BY <1>3, <3>1, <3>2, ConcatProperties
    <3>4. n + k <= Len(w) /\ \A i \in 1 .. n + k : w[i] = (told[t] \o pkts)[i]
      BY <2>1, <2>2, <3>3 DEF Begins
    <3>5. Len(w) \in Nat
      BY <2>1, <2>2, LenProperties
    <3>6. QED
      BY <3>1, <3>3, <3>4, <3>5 DEF Begins
  <2>4. Len(bulk'[t]) <= Len(bulk[t]) + Share
    BY <1>2, <1>3, <2>1
  <2>5. QED
    BY <2>1, <2>2, <2>3, <2>4
<1>5. CASE UNCHANGED <<bulk, curr, played>>
  <2>1. told[t] \o << >> = told[t]
    BY <1>3, ConcatEmptySeq
  <2>2. bulk' = bulk /\ curr' = curr /\ played' = played
    BY <1>5
  <2>3. /\ bulk \in [Threads -> Seq(PacketType)] /\ curr \in [Drivers -> Serving]
        /\ played \in [Drivers -> Seq(Playing)]
    BY DEF IInv, Types, ThreadTypes, DriverTypes
  <2>4. Begins(bulk'[t], told[t] \o curr'[at[t]].out) /\ Begins(bulk'[t], told[t])
    BY <1>3, <2>1, <2>2
  <2>5. Len(bulk'[t]) <= Len(bulk[t]) + Share
    BY <1>3, <2>2
  <2>6. QED
    BY <1>3, <2>2, <2>3, <2>4, <2>5
<1>6. QED
  BY <1>2, <1>4, <1>5 DEF Hands

(* What it remembers.                                                      *)
LEMMA DriverRemembers ==
    ASSUME IInv, NEW t \in Threads, DriverStep(t)
    PROVE  /\ read' \in [Drivers -> Nat] /\ held' \in [Drivers -> PacketType \cup {None}]
           /\ pktTime' \in [Drivers -> Nat] /\ pktSent' \in [Drivers -> Nat]
           /\ finished' \in [Drivers -> BOOLEAN]
           /\ \A d \in Drivers : /\ read'[d] <= arrived[d]
                                 /\ finished[d] => finished'[d]
                                 /\ d \notin Offline => held'[d] = held[d] /\ finished'[d] = finished[d]
<1>0. /\ at[t] \in Drivers
      /\ read \in [Drivers -> Nat] /\ held \in [Drivers -> PacketType \cup {None}]
      /\ pktTime \in [Drivers -> Nat] /\ pktSent \in [Drivers -> Nat]
      /\ finished \in [Drivers -> BOOLEAN] /\ arrived \in [Drivers -> Nat]
  BY DEF IInv, Types, ThreadTypes, DriverTypes
<1>1. \A d \in Drivers : read[d] <= arrived[d] /\ (d \in Offline => arrived[d] = Len(File[d]))
  BY DEF IInv, Supply
<1>2. CASE ReadFile(t)
  <2>1. at[t] \in Offline /\ read[at[t]] < arrived[at[t]] /\ pc[t] = "driver"
    BY <1>0, <1>1, <1>2 DEF ReadFile
  <2>2. read' = [read EXCEPT ![at[t]] = @ + 1] /\ finished' = [finished EXCEPT ![at[t]] = @ \/ NothingLeft(at[t])]
    BY <1>2 DEF ReadFile
  <2>3. /\ held' \in [Drivers -> PacketType \cup {None}]
        /\ pktTime' \in [Drivers -> Nat] /\ pktSent' \in [Drivers -> Nat]
        /\ \A e \in Drivers \ {at[t]} : held'[e] = held[e]
    <3>1. File[at[t]] \in Seq(PacketType) /\ read[at[t]] + 1 \in 1 .. Len(File[at[t]])
      BY <1>0, <1>2, FileAssumption, LenProperties DEF ReadFile
    <3>2. File[at[t]][read[at[t]] + 1] \in PacketType /\ PlayPacket(at[t], File[at[t]][read[at[t]] + 1])
      BY <1>2, <3>1, ElementOfSeq DEF ReadFile
    <3>3. QED
      BY <2>1, <3>2, Plays
  <2>4. read' \in [Drivers -> Nat] /\ \A d \in Drivers : read'[d] <= arrived[d]
    BY <1>0, <1>1, <2>1, <2>2
  <2>5. finished' \in [Drivers -> BOOLEAN] /\ \A d \in Drivers : finished[d] => finished'[d]
    BY <1>0, <2>2 DEF NothingLeft
  <2>6. \A d \in Drivers : d \notin Offline => held'[d] = held[d] /\ finished'[d] = finished[d]
    BY <1>0, <2>1, <2>2, <2>3
  <2>7. QED
    BY <2>3, <2>4, <2>5, <2>6
<1>3. CASE ReadEnd(t)
  BY <1>0, <1>1, <1>3 DEF ReadEnd
<1>4. CASE PlayHeld(t)
  BY <1>0, <1>1, <1>4 DEF PlayHeld
<1>5. CASE ReadLive(t) \/ LiveError(t)
  <2>0. PICK n \in 0 .. Share : read[at[t]] + n <= arrived[at[t]] /\ read' = [read EXCEPT ![at[t]] = @ + n]
    BY <1>5, LiveDispatches DEF Dispatch
  <2>1. n \in Nat
    BY <2>0, ShareFits
  <2>2. UNCHANGED <<held, pktTime, pktSent, finished>>
    BY <1>5, LiveDispatches
  <2>3. QED
    BY <1>0, <1>1, <2>0, <2>1, <2>2
<1>6. CASE NotDue(t) \/ FileError(t)
  <2>1. UNCHANGED <<read, held, pktTime, pktSent, finished>>
    BY <1>6 DEF NotDue, FileError, fileVars
  <2>2. QED
    BY <1>0, <1>1, <2>1
<1>7. QED
  BY <1>2, <1>3, <1>4, <1>5, <1>6 DEF DriverStep


------------------------------------------------------------------------------
(* The inductive invariant, step by step.                                  *)

LEMMA DriverStepKeeps ==
    ASSUME IInv, NEW t \in Threads, DriverStep(t)
    PROVE  IInv'
<1>1. /\ pc[t] = "driver" /\ (pc' = [pc EXCEPT ![t] = "done"] \/ pc' = [pc EXCEPT ![t] = "failed"])
      /\ UNCHANGED <<clock, arrived, lock, at, got, told>>
  BY DriverKeeps
<1>2. /\ pc' \in [Threads -> Labels] /\ pc'[t] \in {"done", "failed"}
      /\ \A u \in Threads \ {t} : pc'[u] = pc[u]
      /\ at \in [Threads -> Drivers]
  BY <1>1 DEF IInv, Types, ThreadTypes, Labels, Having, AtDriver
<1>3. /\ bulk' \in [Threads -> Seq(PacketType)] /\ curr' \in [Drivers -> Serving]
      /\ played' \in [Drivers -> Seq(Playing)]
      /\ Begins(bulk'[t], told[t] \o curr'[at[t]].out) /\ Begins(bulk'[t], told[t])
      /\ Len(bulk'[t]) <= Len(bulk[t]) + Share
      /\ curr'[at[t]].thread = t /\ curr'[at[t]].base = got[t]
      /\ \A u \in Threads \ {t} : bulk'[u] = bulk[u]
      /\ \A d \in Drivers \ {at[t]} : curr'[d] = curr[d]
  BY DriverFills
<1>4. /\ read' \in [Drivers -> Nat] /\ held' \in [Drivers -> PacketType \cup {None}]
      /\ pktTime' \in [Drivers -> Nat] /\ pktSent' \in [Drivers -> Nat]
      /\ finished' \in [Drivers -> BOOLEAN]
  BY DriverRemembers
<1>5. \A d \in Drivers : /\ read'[d] <= arrived[d]
                         /\ d \notin Offline => held'[d] = held[d] /\ finished'[d] = finished[d]
  BY DriverRemembers
<1>6. /\ lock[at[t]] = t
      /\ \A u \in Threads \ {t} : pc[u] \in Having => at[u] # at[t]
  BY <1>1, OneAtDriver DEF Having, AtDriver
<1>7. Types'
  <2>1. ThreadTypes'
    BY <1>1, <1>2, <1>3 DEF IInv, Types, ThreadTypes
  <2>2. DriverTypes'
    BY <1>1, <1>3, <1>4 DEF IInv, Types, DriverTypes
  <2>3. QED
    BY <2>1, <2>2 DEF Types
<1>8. Supply'
  BY <1>1, <1>5 DEF IInv, Supply
<1>9. Locked'
  <2>1. ASSUME NEW u \in Threads \ {t}
        PROVE  /\ pc'[u] \in Having => lock[at[u]] = u
               /\ pc'[u] \in AtDriver => curr'[at[u]].thread = u /\ curr'[at[u]].base = got[u]
    <3>1. pc[u] \in AtDriver => curr'[at[u]] = curr[at[u]]
      BY <1>2, <1>3, <1>6 DEF Having
    <3>2. QED
      BY <1>2, <3>1 DEF IInv, Locked
  <2>2. QED
    BY <1>1, <1>3, <1>6, <2>1 DEF Locked
<1>10. Counted'
  <2>1. ASSUME NEW u \in Threads \ {t}
        PROVE  /\ got[u] = Len(told[u]) /\ Begins(bulk'[u], told[u])
               /\ pc'[u] = "driver" => curr'[at[u]].out = << >>
               /\ pc'[u] = "done" => Begins(bulk'[u], told[u] \o curr'[at[u]].out)
    <3>1. pc'[u] = pc[u] /\ bulk'[u] = bulk[u]
      BY <1>2, <1>3
    <3>2. pc[u] \in {"driver", "done"} => curr'[at[u]] = curr[at[u]]
      BY <1>2, <1>3, <1>6 DEF Having, AtDriver
    <3>3. QED
      BY <3>1, <3>2 DEF IInv, Counted
  <2>2. got[t] = Len(told[t])
    BY DEF IInv, Counted
  <2>3. ASSUME NEW u \in Threads
        PROVE  /\ got[u] = Len(told[u]) /\ Begins(bulk'[u], told[u])
               /\ pc'[u] = "driver" => curr'[at[u]].out = << >>
               /\ pc'[u] = "done" => Begins(bulk'[u], told[u] \o curr'[at[u]].out)
    <3>1. CASE u = t
      BY <1>2, <1>3, <2>2, <3>1
    <3>2. CASE u # t
      BY <2>1, <3>2
    <3>3. QED
      BY <3>1, <3>2
  <2>4. QED
    BY <1>1, <2>3 DEF Counted
<1>11. Room'
  <2>1. PICK k \in Drivers : k = at[t]
    BY <1>2
  <2>2. /\ Share * (k - 1) + Share = Share * k /\ Share * k <= Share * DriversCnt
        /\ Share \in Nat /\ k \in Nat /\ DriversCnt \in Nat
    BY ShareFits, DriversAssumption DEF Drivers
  <2>3. PICK a \in Int : a = Share * (k - 1)
    BY <2>2
  <2>4. PICK b \in Int : b = Share * k
    BY <2>2
  <2>5. PICK c \in Int : c = Share * DriversCnt
    BY <2>2
  <2>6. PICK l \in Nat : l = Len(bulk[t])
    BY LenProperties DEF IInv, Types, ThreadTypes
  <2>7. PICK m \in Nat : m = Len(bulk'[t])
    BY <1>3, LenProperties
  <2>8. l <= a
    BY <1>1, <2>1, <2>3, <2>6 DEF IInv, Room
  <2>9. m <= l + Share
    BY <1>3, <2>6, <2>7
  <2>10. m <= b /\ b <= c
    <3>1. a + Share = b /\ b <= c /\ Share \in Nat
      BY <2>2, <2>3, <2>4, <2>5
    <3>2. QED
      BY <2>8, <2>9, <3>1
  <2>11. Len(bulk'[t]) <= Share * at[t] /\ Len(bulk'[t]) <= Share * DriversCnt
    BY <2>1, <2>4, <2>5, <2>7, <2>10
  <2>12. QED
    BY <1>1, <1>2, <1>3, <2>11 DEF IInv, Room
<1>12. QED
  BY <1>7, <1>8, <1>9, <1>10, <1>11 DEF IInv

(* Time and packets that arrive.                                           *)
LEMMA TickKeeps == IInv /\ Tick => IInv'
<1> SUFFICES ASSUME IInv, Tick
             PROVE  IInv'
  OBVIOUS
<1>1. UNCHANGED <<fileVars, lock, curr, threadVars>> /\ clock' = clock + 1
  BY DEF Tick
<1>2. Types'
  BY <1>1 DEF IInv, Types, ThreadTypes, DriverTypes, fileVars, threadVars
<1>3. Supply' /\ Locked' /\ Counted' /\ Room'
  BY <1>1 DEF IInv, Supply, Locked, Counted, Room, fileVars, threadVars
<1>4. QED
  BY <1>2, <1>3 DEF IInv

LEMMA ArriveKeeps ==
    ASSUME IInv, NEW d \in Drivers, Arrive(d)
    PROVE  IInv'
<1>1. UNCHANGED <<clock, read, held, pktTime, pktSent, finished, played, lock, curr, threadVars>>
  BY DEF Arrive
<1>2. /\ d \notin Offline /\ arrived[d] < Len(File[d])
      /\ arrived' = [arrived EXCEPT ![d] = @ + 1]
  BY DEF Arrive
<1>3. /\ arrived \in [Drivers -> Nat] /\ read \in [Drivers -> Nat] /\ Len(File[d]) \in Nat
  BY FileAssumption, LenProperties DEF IInv, Types, DriverTypes
<1>4. arrived' \in [Drivers -> Nat]
  BY <1>2, <1>3
<1>5. Types'
  BY <1>1, <1>4 DEF IInv, Types, ThreadTypes, DriverTypes, threadVars
<1>6. Supply'
  BY <1>1, <1>2, <1>3 DEF IInv, Supply
<1>7. Locked' /\ Counted' /\ Room'
  BY <1>1 DEF IInv, Locked, Counted, Room, threadVars
<1>8. QED
  BY <1>5, <1>6, <1>7 DEF IInv

(* A call begins, or the packets of one are taken.                         *)
LEMMA CallKeeps ==
    ASSUME IInv, NEW t \in Threads, GetPackets(t) \/ Finished(t) \/ PutPackets(t)
    PROVE  IInv'
<1>1. /\ UNCHANGED <<clock, fileVars, lock, curr, at>>
      /\ pc \in [Threads -> Labels] /\ got \in [Threads -> Nat] /\ told \in [Threads -> Seq(PacketType)]
      /\ bulk \in [Threads -> Seq(PacketType)] /\ at \in [Threads -> Drivers]
      /\ pc[t] \in {"out", "got"} /\ (GetPackets(t) => pc[t] = "out")
  BY DEF GetPackets, Finished, PutPackets, IInv, Types, ThreadTypes
<1>2. /\ pc[t] = "out" => at[t] = 1
      /\ got[t] = Len(told[t]) /\ Begins(bulk[t], told[t])
      /\ Len(bulk[t]) <= Share * DriversCnt
  BY <1>1 DEF IInv, Room, Counted
<1>3. Share * (1 - 1) = 0 /\ 0 <= Share * DriversCnt
  <2>1. Share \in Nat /\ DriversCnt \in Nat
    BY ShareFits, DriversAssumption
  <2>2. Share * DriversCnt \in Nat
    BY <2>1
  <2>3. QED
    BY <2>1, <2>2
<1>4. /\ got' \in [Threads -> Nat] /\ bulk' \in [Threads -> Seq(PacketType)]
      /\ told' \in [Threads -> Seq(PacketType)]
      /\ pc' \in [Threads -> Labels] /\ pc'[t] \in {"get", "idle", "finished"}
      /\ got'[t] = Len(told'[t]) /\ Begins(bulk'[t], told'[t])
      /\ Len(bulk'[t]) <= Share * DriversCnt
      /\ pc'[t] = "get" => at[t] = 1 /\ Len(bulk'[t]) <= Share * (1 - 1)
      /\ \A u \in Threads \ {t} : /\ got'[u] = got[u] /\ bulk'[u] = bulk[u]
                                  /\ pc'[u] = pc[u] /\ told'[u] = told[u]
  <2>1. CASE GetPackets(t) \/ PutPackets(t)
    <3>1. PICK s : s = << >>
      OBVIOUS
    <3>2. s \in Seq(PacketType) /\ Len(s) = 0 /\ Begins(s, s)
      BY <3>1 DEF Begins
    <3>3. /\ \/ pc' = [pc EXCEPT ![t] = "get"] /\ at[t] = 1
             \/ pc' = [pc EXCEPT ![t] = "idle"]
          /\ got' = [got EXCEPT ![t] = 0]
          /\ bulk' = [bulk EXCEPT ![t] = s] /\ told' = [told EXCEPT ![t] = s]
      BY <1>1, <1>2, <2>1, <3>1 DEF GetPackets, PutPackets
    <3>4. pc'[t] \in {"get", "idle"} /\ (pc'[t] = "get" => at[t] = 1) /\ pc' \in [Threads -> Labels] /\ \A u \in Threads \ {t} : pc'[u] = pc[u]
      BY <1>1, <3>3 DEF Labels
    <3>5. bulk'[t] = s /\ told'[t] = s /\ got'[t] = 0
      BY <1>1, <3>3
    <3>6. Len(bulk'[t]) <= Share * DriversCnt /\ Len(bulk'[t]) <= Share * (1 - 1)
      BY <1>3, <3>2, <3>5
    <3>7. QED
      BY <1>1, <3>2, <3>3, <3>4, <3>5, <3>6
  <2>2. CASE Finished(t)
    <3>1. pc' = [pc EXCEPT ![t] = "finished"] /\ UNCHANGED <<got, bulk, told>>
      BY <2>2 DEF Finished
    <3>2. QED
      BY <1>1, <1>2, <3>1 DEF Labels
  <2>3. QED
    BY <2>1, <2>2
<1>5. Types'
  BY <1>1, <1>4 DEF IInv, Types, ThreadTypes, DriverTypes, fileVars
<1>6. Supply'
  BY <1>1 DEF IInv, Supply, fileVars
<1>7. Locked'
  BY <1>1, <1>4 DEF IInv, Locked, Having, AtDriver
<1>8. Counted'
  BY <1>1, <1>4 DEF IInv, Counted
<1>9. Room'
  BY <1>1, <1>2, <1>4 DEF IInv, Room
<1>10. QED
  BY <1>5, <1>6, <1>7, <1>8, <1>9 DEF IInv

(* A lock is taken, by getPackets or by a call that waits for it.          *)
Takers == {"driver", "idling", "asking"}

LEMMA LockKeeps ==
    ASSUME IInv, NEW t \in Threads, TryLock(t) \/ IdleLock(t) \/ FinishedLock(t)
    PROVE  IInv'
<1>1. /\ pc[t] \in {"get", "idle", "finished"} /\ lock[at[t]] = None
      /\ UNCHANGED <<clock, fileVars, at, got, bulk, told>>
      /\ lock' = [lock EXCEPT ![at[t]] = t]
      /\ \E h \in Takers : pc' = [pc EXCEPT ![t] = h]
      /\ \/ curr' = [curr EXCEPT ![at[t]] = [thread |-> t, base |-> got[t], out |-> << >>]]
         \/ curr' = curr /\ pc' # [pc EXCEPT ![t] = "driver"]
  <2>1. pc \in [Threads -> Labels]
    BY DEF IInv, Types, ThreadTypes
  <2>2. CASE TryLock(t)
    BY <2>2 DEF TryLock, Free, Takers
  <2>3. CASE IdleLock(t)
    <3>1. pc' = [pc EXCEPT ![t] = "idling"] /\ pc' # [pc EXCEPT ![t] = "driver"]
      BY <2>1, <2>3 DEF IdleLock, WaitLock
    <3>2. QED
      BY <2>3, <3>1 DEF IdleLock, WaitLock, Free, Takers
  <2>4. CASE FinishedLock(t)
    <3>1. pc' = [pc EXCEPT ![t] = "asking"] /\ pc' # [pc EXCEPT ![t] = "driver"]
      BY <2>1, <2>4 DEF FinishedLock, WaitLock
    <3>2. QED
      BY <2>4, <3>1 DEF FinishedLock, WaitLock, Free, Takers
  <2>5. QED
    BY <2>2, <2>3, <2>4
<1>2. /\ pc \in [Threads -> Labels] /\ at \in [Threads -> Drivers] /\ got \in [Threads -> Nat]
      /\ lock \in [Drivers -> Threads \cup {None}] /\ curr \in [Drivers -> Serving]
  BY DEF IInv, Types, ThreadTypes, DriverTypes
<1>3. /\ pc' \in [Threads -> Labels] /\ lock' \in [Drivers -> Threads \cup {None}]
      /\ lock'[at[t]] = t /\ pc'[t] \in Takers
      /\ pc'[t] = "driver" => pc' = [pc EXCEPT ![t] = "driver"]
      /\ \A u \in Threads \ {t} : pc'[u] = pc[u]
      /\ \A d \in Drivers \ {at[t]} : lock'[d] = lock[d] /\ curr'[d] = curr[d]
  BY <1>1, <1>2 DEF Labels, Takers, Having, AtDriver
<1>4. /\ curr' \in [Drivers -> Serving]
      /\ pc'[t] = "driver" => curr'[at[t]].thread = t /\ curr'[at[t]].base = got[t] /\ curr'[at[t]].out = << >>
  <2>1. [thread |-> t, base |-> got[t], out |-> << >>] \in Serving
    BY <1>2, EmptySeq DEF Serving
  <2>2. QED
    BY <1>1, <1>2, <1>3, <2>1
<1>5. \A u \in Threads \ {t} : pc[u] \in Having => at[u] \in Drivers \ {at[t]}
  BY <1>1, <1>2, NoneAssumption DEF IInv, Locked
<1>6. Types'
  BY <1>1, <1>3, <1>4 DEF IInv, Types, ThreadTypes, DriverTypes, fileVars
<1>7. Supply'
  BY <1>1 DEF IInv, Supply, fileVars
<1>8. \A u \in Threads \ {t} : pc[u] \in Having => curr'[at[u]] = curr[at[u]] /\ lock'[at[u]] = lock[at[u]]
  BY <1>3, <1>5
<1>9. pc'[t] \in AtDriver => pc'[t] = "driver"
  BY <1>3 DEF Takers, AtDriver
<1>10. Locked'
  BY <1>1, <1>3, <1>4, <1>8, <1>9 DEF IInv, Locked, Having
<1>11. Counted'
  BY <1>1, <1>3, <1>4, <1>8 DEF IInv, Counted, Having, AtDriver, Takers
<1>12. Room'
  <2>1. pc'[t] = "driver" => pc[t] = "get"
    BY <1>1, <1>3 DEF TryLock, IdleLock, FinishedLock, WaitLock
  <2>2. QED
    BY <1>1, <1>3, <2>1 DEF IInv, Room, Takers
<1>13. QED
  BY <1>6, <1>7, <1>10, <1>11, <1>12 DEF IInv

(* A thread leaves a driver behind: it is locked, has been served by it,   *)
(* was not because the dispatch failed, or is through with its lock.       *)
Pass(t) == SkipLocked(t) \/ Return(t) \/ ReturnNone(t) \/ Idle(t) \/ FinishedDriver(t)

LEMMA PassKeeps ==
    ASSUME IInv, NEW t \in Threads, Pass(t)
    PROVE  IInv'
<1>1. /\ UNCHANGED <<clock, fileVars, curr, bulk>>
      /\ pc[t] \in {"get", "done", "failed", "idling", "asking"}
      /\ lock \in [Drivers -> Threads \cup {None}] /\ got \in [Threads -> Nat]
      /\ told \in [Threads -> Seq(PacketType)] /\ bulk \in [Threads -> Seq(PacketType)]
      /\ curr \in [Drivers -> Serving] /\ at \in [Threads -> Drivers]
  BY DEF Pass, SkipLocked, Return, ReturnNone, Idle, FinishedDriver, LeaveLock, IInv, Types, ThreadTypes, DriverTypes
<1>2. /\ pc' \in [Threads -> Labels] /\ at' \in [Threads -> Drivers]
      /\ \A u \in Threads \ {t} : pc'[u] = pc[u] /\ at'[u] = at[u]
      /\ pc'[t] \in {"get", "got", "idle", "finished", "out"}
      /\ pc'[t] = "get" => at'[t] = at[t] + 1 /\ pc[t] \in {"get", "done", "failed"}
      /\ pc'[t] = "out" => at'[t] = 1
  <2>1. CASE SkipLocked(t) \/ Return(t) \/ ReturnNone(t)
    <3>1. Advance(t, "get", "got") /\ pc[t] \in {"get", "done", "failed"}
      BY <2>1 DEF SkipLocked, Return, ReturnNone
    <3>2. QED
      BY <3>1, Advances DEF IInv, Labels
  <2>2. CASE Idle(t)
    <3>1. Advance(t, "idle", "out")
      BY <2>2 DEF Idle, LeaveLock
    <3>2. QED
      BY <3>1, Advances DEF IInv, Labels
  <2>3. CASE FinishedDriver(t)
    <3>1. Advance(t, "finished", "out")
      BY <2>3 DEF FinishedDriver, LeaveLock
    <3>2. QED
      BY <3>1, Advances DEF IInv, Labels
  <2>4. QED
    BY <2>1, <2>2, <2>3 DEF Pass
<1>3. /\ lock' \in [Drivers -> Threads \cup {None}]
      /\ \A d \in Drivers \ {at[t]} : lock'[d] = lock[d]
      /\ pc[t] = "get" => lock' = lock
  BY <1>1 DEF Pass, SkipLocked, Return, ReturnNone, Idle, FinishedDriver, LeaveLock
<1>4. /\ got' \in [Threads -> Nat] /\ told' \in [Threads -> Seq(PacketType)]
      /\ \A u \in Threads \ {t} : got'[u] = got[u] /\ told'[u] = told[u]
      /\ got'[t] = Len(told'[t]) /\ Begins(bulk[t], told'[t])
  <2>1. PICK o \in Seq(PacketType) : o = curr[at[t]].out
    BY <1>1 DEF Serving
  <2>2. got[t] = Len(told[t]) /\ Begins(bulk[t], told[t])
    BY DEF IInv, Counted
  <2>3. CASE Return(t)
    <3>1. Begins(bulk[t], told[t] \o o)
      BY <2>1, <2>3 DEF Return, IInv, Counted
    <3>2. got' = [got EXCEPT ![t] = @ + Len(o)] /\ told' = [told EXCEPT ![t] = @ \o o]
      BY <2>1, <2>3 DEF Return
    <3>3. /\ told[t] \o o \in Seq(PacketType) /\ Len(told[t] \o o) = got[t] + Len(o)
          /\ Len(o) \in Nat
      BY <1>1, <2>2, ConcatProperties, LenProperties
    <3>4. QED
      BY <1>1, <3>1, <3>2, <3>3
  <2>4. CASE ~ Return(t)
    <3>1. UNCHANGED <<got, told>>
      BY <2>4 DEF Pass, SkipLocked, ReturnNone, Idle, FinishedDriver, LeaveLock
    <3>2. QED
      BY <1>1, <2>2, <3>1
  <2>5. QED
    BY <2>3, <2>4
<1>5. Types'
  BY <1>1, <1>2, <1>3, <1>4 DEF IInv, Types, ThreadTypes, DriverTypes, fileVars
<1>6. Supply'
  BY <1>1 DEF IInv, Supply, fileVars
<1>7. Locked'
  <2>1. ASSUME NEW u \in Threads \ {t}, pc[u] \in Having
        PROVE  lock'[at[u]] = u
    <3>1. lock[at[u]] = u /\ at[u] \in Drivers
      BY <1>1, <2>1 DEF IInv, Locked
    <3>2. CASE pc[t] \in Having
      BY <1>1, <1>3, <2>1, <3>1, <3>2, OneAtDriver
    <3>3. CASE pc[t] = "get"
      BY <1>3, <3>1, <3>3
    <3>4. QED
      BY <1>1, <3>2, <3>3 DEF Having, AtDriver
  <2>2. pc'[t] \notin Having
    BY <1>2 DEF Having, AtDriver
  <2>3. ASSUME NEW u \in Threads
        PROVE  /\ pc'[u] \in Having => lock'[at'[u]] = u
               /\ pc'[u] \in AtDriver => curr[at'[u]].thread = u /\ curr[at'[u]].base = got'[u]
    <3>1. CASE u = t
      BY <2>2, <3>1 DEF Having
    <3>2. CASE u # t
      <4>1. pc'[u] = pc[u] /\ at'[u] = at[u] /\ got'[u] = got[u]
        BY <1>2, <1>4, <3>2
      <4>2. pc[u] \in Having => lock'[at[u]] = u
        BY <2>1, <3>2
      <4>3. pc[u] \in AtDriver => curr[at[u]].thread = u /\ curr[at[u]].base = got[u]
        BY DEF IInv, Locked
      <4>4. QED
        BY <4>1, <4>2, <4>3
    <3>3. QED
      BY <3>1, <3>2
  <2>4. QED
    BY <1>1, <2>3 DEF Locked
<1>8. Counted'
  <2>1. ASSUME NEW u \in Threads
        PROVE  /\ got'[u] = Len(told'[u]) /\ Begins(bulk[u], told'[u])
               /\ pc'[u] = "driver" => curr[at'[u]].out = << >>
               /\ pc'[u] = "done" => Begins(bulk[u], told'[u] \o curr[at'[u]].out)
    <3>1. CASE u = t
      BY <1>2, <1>4, <3>1
    <3>2. CASE u # t
      BY <1>2, <1>4, <3>2 DEF IInv, Counted
    <3>3. QED
      BY <3>1, <3>2
  <2>2. QED
    BY <1>1, <2>1 DEF Counted
<1>9. Room'
  <2>1. ASSUME pc[t] \in {"get", "done", "failed"}
        PROVE  Len(bulk[t]) <= Share * at[t]
    <3>1. PICK k \in Drivers : k = at[t]
      BY <1>1
    <3>2. PICK n \in Nat : n = Len(bulk[t])
      BY <1>1, LenProperties
    <3>3. pc[t] = "get" => n <= Share * (k - 1)
      BY <3>1, <3>2 DEF IInv, Room
    <3>4. pc[t] # "get" => n <= Share * k
      BY <2>1, <3>1, <3>2 DEF IInv, Room
    <3>5. Share \in Nat /\ k \in Nat /\ Share * (k - 1) + Share = Share * k
      BY ShareFits DEF Drivers
    <3>6. PICK a \in Int : a = Share * (k - 1)
      BY <3>5
    <3>7. PICK b \in Int : b = Share * k
      BY <3>5
    <3>8. n <= b
      BY <3>3, <3>4, <3>5, <3>6, <3>7
    <3>9. QED
      BY <3>1, <3>2, <3>7, <3>8
  <2>2. at[t] \in Int /\ (at[t] + 1) - 1 = at[t]
    BY <1>1 DEF Drivers
  <2>3. pc'[t] = "get" => Len(bulk[t]) <= Share * (at'[t] - 1)
    BY <1>2, <2>1, <2>2
  <2>4. ASSUME NEW u \in Threads
        PROVE  /\ pc'[u] \in {"get", "driver"} => Len(bulk[u]) <= Share * (at'[u] - 1)
               /\ pc'[u] \in {"done", "failed"} => Len(bulk[u]) <= Share * at'[u]
               /\ Len(bulk[u]) <= Share * DriversCnt
               /\ pc'[u] = "out" => at'[u] = 1
    <3>1. CASE u = t
      BY <1>2, <2>3, <3>1 DEF IInv, Room
    <3>2. CASE u # t
      BY <1>2, <3>2 DEF IInv, Room
    <3>3. QED
      BY <3>1, <3>2
  <2>5. QED
    BY <1>1, <2>4 DEF Room
<1>10. QED
  BY <1>5, <1>6, <1>7, <1>8, <1>9 DEF IInv

LEMMA InitIInv == Init => IInv
<1> SUFFICES ASSUME Init
             PROVE  IInv
  OBVIOUS
<1>1. 1 \in Drivers /\ Share \in Nat /\ Share * DriversCnt \in Nat
  BY ShareFits, DriversAssumption DEF Drivers
<1>2. \A d \in Drivers : Len(File[d]) \in Nat
  BY FileAssumption, LenProperties
<1>3. ThreadTypes
  BY <1>1, EmptySeq DEF Init, ThreadTypes, Labels
<1>4. DriverTypes
  <2>1. [thread |-> None, base |-> 0, out |-> << >>] \in Serving
    BY EmptySeq DEF Serving
  <2>2. curr \in [Drivers -> Serving] /\ played \in [Drivers -> Seq(Playing)]
    BY <2>1, EmptySeq DEF Init
  <2>3. arrived \in [Drivers -> Nat]
    BY <1>2 DEF Init
  <2>4. QED
    BY <2>2, <2>3 DEF Init, DriverTypes
<1>5. Supply
  BY <1>2 DEF Init, Supply
<1>6. Locked
  BY DEF Init, Locked, Having, AtDriver
<1>7. Counted
  <2>1. Len(<< >>) = 0
    OBVIOUS
  <2>2. QED
    BY <2>1 DEF Init, Counted, Begins
<1>8. Room
  <2>1. Len(<< >>) = 0 /\ 0 <= Share * DriversCnt
    BY <1>1
  <2>2. QED
    BY <2>1 DEF Init, Room
<1>9. QED
  BY <1>3, <1>4, <1>5, <1>6, <1>7, <1>8 DEF IInv, Types

LEMMA NextIInv == IInv /\ [Next]_vars => IInv'
<1> SUFFICES ASSUME IInv, [Next]_vars
             PROVE  IInv'
  OBVIOUS
<1>1. CASE Tick
  BY <1>1, TickKeeps
<1>2. CASE \E d \in Drivers : Arrive(d)
  BY <1>2, ArriveKeeps
<1>3. CASE \E t \in Threads : GetPackets(t) \/ Finished(t) \/ Work(t)
  <2>1. PICK t \in Threads : GetPackets(t) \/ Finished(t) \/ Work(t)
    BY <1>3
  <2>2. CASE GetPackets(t) \/ Finished(t) \/ PutPackets(t)
    BY <2>2, CallKeeps
  <2>3. CASE Work(t)
    BY <2>3, CallKeeps, LockKeeps, PassKeeps, DriverStepKeeps DEF Work, DriverStep, Pass
  <2>4. QED
    BY <2>1, <2>2, <2>3
<1>4. CASE UNCHANGED vars
  <2>1. Types'
    BY <1>4 DEF IInv, Types, ThreadTypes, DriverTypes, vars, fileVars, threadVars
  <2>2. Supply' /\ Locked' /\ Counted' /\ Room'
    BY <1>4 DEF IInv, Supply, Locked, Counted, Room, vars, fileVars, threadVars
  <2>3. QED
    BY <2>1, <2>2 DEF IInv
<1>5. QED
  BY <1>1, <1>2, <1>3, <1>4 DEF Next

(* No driver hands out more than has come; a thread at a driver is the one *)
(* that has its lock and gets its packets, in getPackets, idle or          *)
(* finished; and what a thread was told is at the front of its array, with *)
(* what a failed dispatch left behind it.                                  *)
THEOREM Invariance == Spec => []IInv
  BY InitIInv, NextIInv, PTL DEF Spec

------------------------------------------------------------------------------
(* A thread that comes back from a driver finds in its array the packets   *)
(* it was told of, and the array is big enough for them and for those of   *)
(* dispatches that failed, whatever number of threads share the drivers.   *)
THEOREM BulkCounted == Spec => []BulkMatchesCount
<1>1. IInv => BulkMatchesCount
  <2> SUFFICES ASSUME IInv, NEW t \in Threads
               PROVE  /\ Len(bulk[t]) <= BulkLimit
                      /\ got[t] = Len(told[t]) /\ got[t] <= Len(bulk[t])
                      /\ told[t] = SubSeq(bulk[t], 1, got[t])
    BY DEF BulkMatchesCount
  <2>1. PICK b \in Seq(PacketType) : b = bulk[t]
    BY DEF IInv, Types, ThreadTypes
  <2>2. PICK s \in Seq(PacketType) : s = told[t]
    BY DEF IInv, Types, ThreadTypes
  <2>3. PICK n \in Nat : n = Len(s)
    BY LenProperties
  <2>4. got[t] = n /\ n <= Len(b) /\ \A i \in 1 .. n : b[i] = s[i]
    BY <2>1, <2>2, <2>3 DEF IInv, Counted, Begins
  <2>5. PICK f : f = SubSeq(b, 1, n)
    OBVIOUS
  <2>6. f \in Seq(PacketType) /\ Len(f) = n /\ \A i \in 1 .. n : f[i] = b[i]
    <3>1. Len(b) \in Nat
      BY LenProperties
    <3>2. \A i \in 1 .. n : b[i] \in PacketType
      <4>1. \A i \in 1 .. n : i \in 1 .. Len(b)
        BY <2>4, <3>1
      <4>2. QED
        BY <4>1, ElementOfSeq
    <3>3. /\ f \in Seq(PacketType) /\ Len(f) = IF 1 <= n THEN n - 1 + 1 ELSE 0
          /\ \A i \in 1 .. n - 1 + 1 : f[i] = b[1 + i - 1]
      BY <2>5, <3>2, SubSeqProperties
    <3>4. n - 1 + 1 = n /\ \A i \in 1 .. n : 1 + i - 1 = i
      OBVIOUS
    <3>5. QED
      BY <3>3, <3>4
  <2>7. s = f
    BY <2>3, <2>4, <2>6, SeqEqual
  <2>8. Len(b) <= BulkLimit
    <3>1. Len(b) <= Share * DriversCnt /\ Len(b) \in Nat
      BY <2>1, LenProperties DEF IInv, Room
    <3>2. PICK c \in Nat : c = Share * DriversCnt /\ c <= BulkLimit
      BY ShareFits, DriversAssumption
    <3>3. QED
      BY <3>1, <3>2, DriversAssumption
  <2>9. QED
    BY <2>1, <2>2, <2>3, <2>4, <2>5, <2>7, <2>8
<1>2. QED
  BY <1>1, Invariance, PTL

------------------------------------------------------------------------------
(* A step, seen from one driver.                                           *)

Shown(s) == [i \in DOMAIN s |-> s[i].pkt]
Stamped(pkts, when) == [i \in DOMAIN pkts |-> [pkt |-> pkts[i], at |-> when]]

Rests(d) == /\ read'[d] = read[d] /\ held'[d] = held[d] /\ played'[d] = played[d]
            /\ pktTime'[d] = pktTime[d] /\ pktSent'[d] = pktSent[d]
            /\ finished'[d] => finished[d] \/ (read[d] = Len(File[d]) /\ held[d] = None)

(* The next packet of the file is ignored, held back or handed out.        *)
Ignores(d) == /\ held'[d] = None /\ played'[d] = played[d]
              /\ pktTime'[d] = pktTime[d] /\ pktSent'[d] = pktSent[d]
Takes(d, p) == /\ pktTime'[d] = p.ts /\ pktSent'[d] = SentAt(d, p.ts)
               /\ finished'[d] = finished[d]
               /\ \/ /\ held'[d] = p /\ played'[d] = played[d]
                     /\ SentAt(d, p.ts) > clock
                  \/ /\ held'[d] = None /\ played'[d] = played[d] \o Stamped(<<p>>, clock)
                     /\ SentAt(d, p.ts) <= clock
Reads(d, p) == /\ d \in Offline /\ held[d] = None /\ read[d] < Len(File[d])
               /\ read'[d] = read[d] + 1
               /\ IF p.big THEN Ignores(d) ELSE Takes(d, p)

(* The packet that was held back is handed out.                            *)
Releases(d, p) == /\ d \in Offline /\ held[d] = p /\ held'[d] = None /\ pktSent[d] <= clock
                  /\ read'[d] = read[d] /\ finished'[d] = finished[d]
                  /\ pktTime'[d] = pktTime[d] /\ pktSent'[d] = pktSent[d]
                  /\ played'[d] = played[d] \o Stamped(<<p>>, clock)

(* Packets that have arrived are handed out.                               *)
Collects(d, n) == /\ d \notin Offline /\ held'[d] = held[d] /\ finished'[d] = finished[d]
                  /\ read[d] + n <= Len(File[d]) /\ read'[d] = read[d] + n
                  /\ played'[d] = played[d] \o Stamped(Small(SubSeq(File[d], read[d] + 1, read[d] + n)), clock)

Moves(d) == \/ Rests(d)
            \/ read[d] + 1 \in 1 .. Len(File[d]) /\ Reads(d, File[d][read[d] + 1])
            \/ held[d] \in PacketType /\ Releases(d, held[d])
            \/ \E n \in Nat : Collects(d, n)

LEMMA OthersRest ==
    ASSUME IInv, NEW t \in Threads, DriverStep(t), NEW d \in Drivers \ {at[t]}
    PROVE  Rests(d)
<1>1. /\ at[t] \in Drivers
      /\ read \in [Drivers -> Nat] /\ held \in [Drivers -> PacketType \cup {None}]
      /\ pktTime \in [Drivers -> Nat] /\ pktSent \in [Drivers -> Nat]
      /\ finished \in [Drivers -> BOOLEAN] /\ played \in [Drivers -> Seq(Playing)]
  BY DEF IInv, Types, ThreadTypes, DriverTypes
<1>2. played' = played \/ \E pkts \in Seq(PacketType) : HandOut(at[t], pkts)
  BY DriverHands DEF Hands
<1>3. played'[d] = played[d]
  BY <1>1, <1>2 DEF HandOut
<1>4. CASE ReadFile(t)
  <2>1. PICK e, p : e = at[t] /\ PlayPacket(e, p)
    BY <1>4 DEF ReadFile
  <2>2. held'[d] = held[d] /\ pktTime'[d] = pktTime[d] /\ pktSent'[d] = pktSent[d]
    <3>1. CASE p.big
      BY <2>1, <3>1 DEF PlayPacket
    <3>2. CASE ~p.big
      <4>1. /\ pktTime' = [pktTime EXCEPT ![e] = p.ts]
            /\ pktSent' = [pktSent EXCEPT ![e] = SentAt(e, p.ts)]
            /\ held' = held \/ held' = [held EXCEPT ![e] = p]
        BY <2>1, <3>2 DEF PlayPacket
      <4>2. QED
        BY <1>1, <2>1, <4>1
    <3>3. QED
      BY <3>1, <3>2
  <2>3. read'[d] = read[d] /\ finished'[d] = finished[d]
    BY <1>1, <1>4 DEF ReadFile
  <2>4. QED
    BY <1>3, <2>2, <2>3 DEF Rests
<1>5. CASE ReadEnd(t) \/ PlayHeld(t) \/ ReadLive(t) \/ LiveError(t)
  <2>1. pktTime' = pktTime /\ pktSent' = pktSent
    BY <1>5 DEF ReadEnd, PlayHeld, ReadLive, LiveError
  <2>2. held'[d] = held[d] /\ read'[d] = read[d] /\ finished'[d] = finished[d]
    BY <1>1, <1>5 DEF ReadEnd, PlayHeld, ReadLive, LiveError, Dispatch
  <2>3. QED
    BY <1>3, <2>1, <2>2 DEF Rests
<1>6. CASE NotDue(t) \/ FileError(t)
  BY <1>6 DEF NotDue, FileError, fileVars, Rests
<1>7. QED
  BY <1>4, <1>5, <1>6 DEF DriverStep

LEMMA HandsStamped ==
    ASSUME IInv, NEW t \in Threads, NEW d \in Drivers, d = at[t], pc[t] = "driver",
           NEW pkts \in Seq(PacketType), HandOut(at[t], pkts)
    PROVE  played'[d] = played[d] \o Stamped(pkts, clock) /\ curr'[d].out = pkts
<1>1. played \in [Drivers -> Seq(Playing)]
  BY DEF IInv, Types, DriverTypes
<1>2. played' = [played EXCEPT ![d] = @ \o Stamped(pkts, clock)]
  BY DEF HandOut, Stamped
<1>3. QED
  BY <1>1, <1>2, HandsOut

(* A packet of a file, and whether it ends it: only one that is ignored    *)
(* leaves the driver with nothing.                                         *)
LEMMA ReaderReads ==
    ASSUME IInv, NEW t \in Threads, NEW d \in Drivers, d = at[t], ReadFile(t)
    PROVE  read[d] + 1 \in 1 .. Len(File[d]) /\ Reads(d, File[d][read[d] + 1])
<1>1. /\ read \in [Drivers -> Nat] /\ held \in [Drivers -> PacketType \cup {None}]
      /\ pktTime \in [Drivers -> Nat] /\ pktSent \in [Drivers -> Nat]
      /\ finished \in [Drivers -> BOOLEAN] /\ clock \in Nat
  BY DEF IInv, Types, DriverTypes
<1>2. /\ d \in Offline /\ held[d] = None /\ read[d] < Len(File[d]) /\ pc[t] = "driver"
      /\ read' = [read EXCEPT ![d] = @ + 1]
      /\ finished' = [finished EXCEPT ![d] = @ \/ NothingLeft(d)]
      /\ PlayPacket(d, File[d][read[d] + 1])
  BY DEF ReadFile
<1>3. File[d] \in Seq(PacketType) /\ read[d] + 1 \in 1 .. Len(File[d]) /\ File[d][read[d] + 1] \in PacketType
  <2>1. File[d] \in Seq(PacketType) /\ Len(File[d]) \in Nat
    BY FileAssumption, LenProperties
  <2>2. QED
    BY <1>1, <1>2, <2>1, ElementOfSeq
<1>4. PICK p \in PacketType : p = File[d][read[d] + 1] /\ PlayPacket(d, p)
  BY <1>2, <1>3
<1>5. finished'[d] = (finished[d] \/ NothingLeft(d)) /\ read'[d] = read[d] + 1
  BY <1>1, <1>2
<1>6. p # None
  BY NoneAssumption
<1>7. CASE p.big
  BY <1>1, <1>2, <1>3, <1>4, <1>5, <1>7 DEF PlayPacket, Reads, Ignores
<1>8. CASE ~p.big
  <2>1. pktTime'[d] = p.ts /\ pktSent'[d] = SentAt(d, p.ts)
    BY <1>1, <1>4, <1>8 DEF PlayPacket
  <2>2. CASE SentAt(d, p.ts) > clock
    <3>1. held'[d] = p /\ played' = played
      BY <1>1, <1>4, <1>8, <2>2 DEF PlayPacket
    <3>2. finished'[d] = finished[d]
      BY <1>1, <1>5, <1>6, <3>1 DEF NothingLeft
    <3>3. QED
      BY <1>2, <1>3, <1>4, <1>5, <1>8, <2>1, <2>2, <3>1, <3>2 DEF Reads, Takes
  <2>3. CASE ~ SentAt(d, p.ts) > clock
    <3>1. HandOut(at[t], <<p>>) /\ held' = held
      BY <1>4, <1>8, <2>3 DEF PlayPacket
    <3>2. PICK s : s = <<p>>
      OBVIOUS
    <3>3. s \in Seq(PacketType) /\ Len(s) = 1
      BY <3>2
    <3>4. HandOut(at[t], s)
      BY <3>1, <3>2
    <3>5. played'[d] = played[d] \o Stamped(s, clock) /\ curr'[d].out = s
      BY <1>2, <3>3, <3>4, HandsStamped
    <3>6. finished'[d] = finished[d]
      BY <1>1, <1>5, <3>2, <3>3, <3>5 DEF NothingLeft
    <3>7. p.ts \in Nat /\ SentAt(d, p.ts) \in Nat
      <4>1. p.ts \in Nat
        BY DEF PacketType
      <4>2. Gap(d, p.ts) \in Nat
        BY <1>1, <4>1 DEF Gap
      <4>3. QED
        BY <1>1, <4>1, <4>2 DEF SentAt
    <3>8. Takes(d, p)
      BY <1>1, <1>2, <2>1, <2>3, <3>1, <3>2, <3>5, <3>6, <3>7 DEF Takes
    <3>9. QED
      BY <1>2, <1>3, <1>4, <1>5, <1>8, <3>8 DEF Reads
  <2>4. QED
    BY <2>2, <2>3
<1>9. QED
  BY <1>7, <1>8

LEMMA DriverMoves ==
    ASSUME IInv, NEW t \in Threads, NEW d \in Drivers, d = at[t], DriverStep(t)
    PROVE  Moves(d)
<1>1. /\ read \in [Drivers -> Nat] /\ held \in [Drivers -> PacketType \cup {None}]
      /\ finished \in [Drivers -> BOOLEAN]
      /\ File[d] \in Seq(PacketType) /\ Len(File[d]) \in Nat
      /\ arrived[d] \in Nat /\ arrived[d] <= Len(File[d]) /\ Share \in Nat
  BY ShareFits, FileAssumption, LenProperties DEF IInv, Types, DriverTypes, Supply
<1>2. CASE ReadFile(t)
  BY <1>2, ReaderReads DEF Moves
<1>3. CASE ReadEnd(t)
  BY <1>1, <1>3 DEF ReadEnd, Rests, Moves
<1>4. CASE PlayHeld(t)
  <2>1. /\ held[d] \in PacketType /\ HandOut(at[t], <<held[d]>>) /\ pc[t] = "driver"
        /\ d \in Offline /\ pktSent[d] <= clock /\ held' = [held EXCEPT ![d] = None]
        /\ UNCHANGED <<read, pktTime, pktSent, finished>>
    BY <1>1, <1>4 DEF PlayHeld
  <2>2. PICK s : s = <<held[d]>>
    OBVIOUS
  <2>3. s \in Seq(PacketType) /\ HandOut(at[t], s)
    BY <2>1, <2>2
  <2>4. played'[d] = played[d] \o Stamped(s, clock)
    BY <2>1, <2>3, HandsStamped
  <2>5. Releases(d, held[d])
    BY <1>1, <2>1, <2>2, <2>4 DEF Releases
  <2>6. QED
    BY <2>1, <2>5 DEF Moves
<1>5. CASE ReadLive(t) \/ LiveError(t)
  <2>1. PICK n \in 0 .. Share :
           /\ read[d] + n <= arrived[d] /\ read' = [read EXCEPT ![d] = @ + n]
           /\ HandOut(at[t], Small(SubSeq(File[d], read[d] + 1, read[d] + n)))
    BY <1>5, LiveDispatches DEF Dispatch
  <2>2. n \in Nat /\ read[d] \in Nat /\ read[d] + n <= Len(File[d])
    BY <1>1, <2>1
  <2>3. PICK s : s = SubSeq(File[d], read[d] + 1, read[d] + n)
    OBVIOUS
  <2>4. s \in Seq(PacketType)
    <3>1. \A i \in read[d] + 1 .. read[d] + n : File[d][i] \in PacketType
      <4>1. \A i \in read[d] + 1 .. read[d] + n : i \in 1 .. Len(File[d])
        BY <1>1, <2>2
      <4>2. QED
        BY <1>1, <4>1, ElementOfSeq
    <3>2. read[d] + 1 \in Int /\ read[d] + n \in Int
      BY <2>2
    <3>3. QED
      BY <2>3, <3>1, <3>2, SubSeqProperties
  <2>5. Small(s) \in Seq(PacketType) /\ HandOut(at[t], Small(s))
    BY <2>1, <2>3, <2>4, SmallType
  <2>6. d \notin Offline /\ pc[t] = "driver" /\ UNCHANGED <<held, finished>>
    BY <1>5, LiveDispatches
  <2>7. played'[d] = played[d] \o Stamped(Small(s), clock)
    BY <2>5, <2>6, HandsStamped
  <2>8. Collects(d, n)
    BY <1>1, <2>1, <2>2, <2>3, <2>6, <2>7 DEF Collects
  <2>9. QED
    BY <2>2, <2>8 DEF Moves
<1>6. CASE NotDue(t) \/ FileError(t)
  BY <1>6 DEF NotDue, FileError, fileVars, Rests, Moves
<1>7. QED
  BY <1>2, <1>3, <1>4, <1>5, <1>6 DEF DriverStep

LEMMA EveryMove ==
    ASSUME IInv, [Next]_vars, NEW d \in Drivers
    PROVE  Moves(d)
<1>1. CASE \E t \in Threads : DriverStep(t)
  <2>1. PICK t \in Threads : DriverStep(t)
    BY <1>1
  <2>2. CASE d = at[t]
    BY <2>1, <2>2, DriverMoves
  <2>3. CASE d # at[t]
    BY <2>1, <2>3, OthersRest DEF Moves
  <2>4. QED
    BY <2>2, <2>3
<1>2. CASE ~ \E t \in Threads : DriverStep(t)
  <2>1. UNCHANGED <<read, held, played, pktTime, pktSent, finished>>
    BY <1>2 DEF Next, Work, DriverStep, Tick, Arrive, GetPackets, Finished, TryLock, SkipLocked,
                Return, ReturnNone, PutPackets, IdleLock, Idle, FinishedLock, FinishedDriver,
                WaitLock, LeaveLock, vars, fileVars
  <2>2. QED
    BY <2>1 DEF Rests, Moves
<1>3. QED
  BY <1>1, <1>2

------------------------------------------------------------------------------
(* The order of the packets.                                               *)

LEMMA ShownStamped ==
    ASSUME NEW s \in Seq(Playing), NEW pkts \in Seq(PacketType), NEW when \in Nat
    PROVE  /\ Shown(s) \in Seq(PacketType) /\ Len(Shown(s)) = Len(s)
           /\ Stamped(pkts, when) \in Seq(Playing) /\ Len(Stamped(pkts, when)) = Len(pkts)
           /\ Shown(s \o Stamped(pkts, when)) = Shown(s) \o pkts
<1>1. /\ Len(s) \in Nat /\ DOMAIN s = 1 .. Len(s) /\ \A i \in 1 .. Len(s) : s[i] \in Playing
      /\ Len(pkts) \in Nat /\ DOMAIN pkts = 1 .. Len(pkts) /\ \A i \in 1 .. Len(pkts) : pkts[i] \in PacketType
  BY LenProperties, ElementOfSeq
<1>2. \A q : q \in Playing => q.pkt \in PacketType
  BY DEF Playing
<1>3. Shown(s) \in Seq(PacketType) /\ Len(Shown(s)) = Len(s)
  <2>1. Shown(s) \in [1 .. Len(s) -> PacketType]
    BY <1>1, <1>2 DEF Shown
  <2>2. QED
    BY <1>1, <2>1, SeqDef
<1>4. Stamped(pkts, when) \in Seq(Playing) /\ Len(Stamped(pkts, when)) = Len(pkts)
  <2>1. Stamped(pkts, when) \in [1 .. Len(pkts) -> Playing]
    BY <1>1 DEF Stamped, Playing
  <2>2. QED
    BY <1>1, <2>1, SeqDef
<1>5. PICK h \in Seq(PacketType), z \in Seq(Playing) :
         h = Shown(s) /\ Len(h) = Len(s) /\ z = Stamped(pkts, when) /\ Len(z) = Len(pkts)
  BY <1>3, <1>4
<1>6. PICK r : r = s \o z
  OBVIOUS
<1>7. /\ r \in Seq(Playing) /\ Len(r) = Len(s) + Len(z) /\ DOMAIN r = 1 .. Len(r)
      /\ \A i \in 1 .. Len(s) + Len(z) : r[i] = IF i <= Len(s) THEN s[i] ELSE z[i - Len(s)]
  <2>1. r \in Seq(Playing) /\ Len(r) = Len(s) + Len(z)
    BY <1>6, ConcatProperties
  <2>2. \A i \in 1 .. Len(s) + Len(z) : (s \o z)[i] = IF i <= Len(s) THEN s[i] ELSE z[i - Len(s)]
    BY ConcatProperties
  <2>3. DOMAIN r = 1 .. Len(r)
    BY <2>1, LenProperties
  <2>4. QED
    BY <1>6, <2>1, <2>2, <2>3
<1>8. Shown(r) \in Seq(PacketType) /\ Len(Shown(r)) = Len(r) /\ \A i \in 1 .. Len(r) : Shown(r)[i] = r[i].pkt
  <2>1. DOMAIN r = 1 .. Len(r) /\ Len(r) \in Nat /\ \A i \in 1 .. Len(r) : r[i] \in Playing
    BY <1>7, LenProperties, ElementOfSeq
  <2>2. Shown(r) \in [1 .. Len(r) -> PacketType]
    BY <1>2, <2>1 DEF Shown
  <2>3. QED
    BY <2>1, <2>2, SeqDef DEF Shown
<1>9. PICK y : y = h \o pkts
  OBVIOUS
<1>10. /\ y \in Seq(PacketType) /\ Len(y) = Len(h) + Len(pkts)
      /\ \A i \in 1 .. Len(h) + Len(pkts) : y[i] = IF i <= Len(h) THEN h[i] ELSE pkts[i - Len(h)]
  <2>1. y \in Seq(PacketType) /\ Len(y) = Len(h) + Len(pkts)
    BY <1>9, ConcatProperties
  <2>2. \A i \in 1 .. Len(h) + Len(pkts) : (h \o pkts)[i] = IF i <= Len(h) THEN h[i] ELSE pkts[i - Len(h)]
    BY ConcatProperties
  <2>3. QED
    BY <1>9, <2>1, <2>2
<1>11. ASSUME NEW i \in 1 .. Len(r)
      PROVE  Shown(r)[i] = y[i]
  <2>1. i \in 1 .. Len(s) + Len(pkts)
    BY <1>5, <1>7
  <2>2. /\ r[i] = IF i <= Len(s) THEN s[i] ELSE z[i - Len(s)]
        /\ y[i] = IF i <= Len(s) THEN h[i] ELSE pkts[i - Len(s)]
    BY <1>5, <1>7, <1>10, <2>1
  <2>3. CASE i <= Len(s)
    <3>1. i \in DOMAIN s
      BY <1>1, <2>1, <2>3
    <3>2. h[i] = s[i].pkt
      BY <1>5, <3>1 DEF Shown
    <3>3. QED
      BY <1>8, <2>2, <2>3, <3>2
  <2>4. CASE ~ i <= Len(s)
    <3>1. i - Len(s) \in DOMAIN pkts
      BY <1>1, <2>1, <2>4
    <3>2. z[i - Len(s)].pkt = pkts[i - Len(s)]
      BY <1>5, <3>1 DEF Stamped
    <3>3. QED
      BY <1>8, <2>2, <2>4, <3>2
  <2>5. QED
    BY <2>3, <2>4
<1>12. Shown(r) = y
  BY <1>5, <1>7, <1>8, <1>10, <1>11, SeqEqual
<1>13. QED
  BY <1>3, <1>4, <1>5, <1>6, <1>9, <1>12

(* How far a driver is in its file.                                        *)
Reached(d) == SubSeq(File[d], 1, read[d])

LEMMA ReachedMore ==
    ASSUME NEW s \in Seq(PacketType), NEW k \in Nat, NEW n \in Nat, k + n <= Len(s)
    PROVE  /\ SubSeq(s, 1, k) \in Seq(PacketType)
           /\ SubSeq(s, k + 1, k + n) \in Seq(PacketType)
           /\ SubSeq(s, 1, k + n) = SubSeq(s, 1, k) \o SubSeq(s, k + 1, k + n)
           /\ n = 1 => SubSeq(s, 1, k + n) = Append(SubSeq(s, 1, k), s[k + 1])
<1>1. Len(s) \in Nat /\ \A i \in 1 .. Len(s) : s[i] \in PacketType
  BY LenProperties, ElementOfSeq
<1>2. SubSeq(s, 1, k) \in Seq(PacketType) /\ SubSeq(s, k + 1, k + n) \in Seq(PacketType)
  <2>1. /\ \A i \in 1 .. k : s[i] \in PacketType
        /\ \A i \in k + 1 .. k + n : s[i] \in PacketType
    BY <1>1
  <2>2. k + 1 \in Int /\ k + n \in Int /\ k \in Int
    OBVIOUS
  <2>3. QED
    BY <2>1, <2>2, SubSeqProperties
<1>3. SubSeq(s, 1, k + n) = SubSeq(s, 1, k) \o SubSeq(s, k + 1, k + n)
  <2>1. 1 \in 1 .. Len(s) + 1 /\ k \in 1 - 1 .. Len(s) /\ k + n \in k .. Len(s)
    BY <1>1
  <2>2. QED
    BY <2>1, ConcatAdjacentSubSeq
<1>4. ASSUME n = 1
      PROVE  SubSeq(s, 1, k + n) = Append(SubSeq(s, 1, k), s[k + 1])
  <2>1. 1 \in 1 .. Len(s) /\ k + 1 \in 1 .. Len(s) /\ (k + 1) - 1 = k
    BY <1>1, <1>4
  <2>2. SubSeq(s, 1, k + 1) = SubSeq(s, 1, k) \o << s[k + 1] >>
    <3>1. SubSeq(s, 1, k + 1) = SubSeq(s, 1, (k + 1) - 1) \o << s[k + 1] >>
      BY <2>1, SubSeqRecursiveSecond
    <3>2. QED
      BY <2>1, <3>1
  <2>3. s[k + 1] \in PacketType
    BY <1>1, <2>1
  <2>4. Append(SubSeq(s, 1, k), s[k + 1]) = SubSeq(s, 1, k) \o << s[k + 1] >>
    BY <1>2, <2>3, AppendIsConcat
  <2>5. QED
    BY <1>4, <2>2, <2>4
<1>5. QED
  BY <1>2, <1>3, <1>4

(* What is through after a move.                                           *)
Behind(h) == IF h = None THEN << >> ELSE << h >>

LEMMA ThroughIs ==
    ASSUME NEW d \in Drivers
    PROVE  /\ Through(d) = Shown(played[d]) \o Behind(held[d])
           /\ Through(d)' = Shown(played'[d]) \o Behind(held'[d])
  BY DEF Through, Packets, HeldPackets, Shown, Behind

LEMMA MovesThrough ==
    ASSUME IInv, NEW d \in Drivers, Moves(d)
    PROVE  /\ Through(d) \in Seq(PacketType)
           /\ \/ Through(d)' = Through(d) /\ read'[d] = read[d]
              \/ /\ read[d] + 1 \in 1 .. Len(File[d]) /\ File[d][read[d] + 1] \in PacketType
                 /\ Reads(d, File[d][read[d] + 1])
                 /\ Through(d)' = Kept(Through(d), File[d][read[d] + 1])
              \/ \E n \in Nat :
                    /\ d \notin Offline /\ read[d] + n <= Len(File[d]) /\ read'[d] = read[d] + n
                    /\ Through(d)' = Through(d) \o Small(SubSeq(File[d], read[d] + 1, read[d] + n))
<1>0. PICK y \in Seq(PacketType) : y = Shown(played[d]) /\ Len(y) = Len(played[d])
  <2>1. << >> \in Seq(PacketType) /\ clock \in Nat /\ played[d] \in Seq(Playing)
    BY EmptySeq DEF IInv, Types, DriverTypes
  <2>2. QED
    BY <2>1, ShownStamped
<1>1. /\ clock \in Nat /\ played[d] \in Seq(Playing) /\ File[d] \in Seq(PacketType)
      /\ held[d] \in PacketType \cup {None} /\ read[d] \in Nat
  BY FileAssumption DEF IInv, Types, DriverTypes
<1>2. Through(d) = y \o Behind(held[d]) /\ Through(d)' = Shown(played'[d]) \o Behind(held'[d])
  BY <1>0, ThroughIs
<1>3. y \o << >> = y /\ Behind(None) = << >>
  BY ConcatEmptySeq DEF Behind
<1>4. ASSUME NEW p \in PacketType
      PROVE  Behind(p) = <<p>> /\ y \o <<p>> = Append(y, p) /\ Append(y, p) \in Seq(PacketType)
  BY <1>4, NoneAssumption, AppendIsConcat, AppendProperties DEF Behind
<1>5. ASSUME NEW pkts \in Seq(PacketType), played'[d] = played[d] \o Stamped(pkts, clock)
      PROVE  Shown(played'[d]) = y \o pkts /\ y \o pkts \in Seq(PacketType)
  <2>1. Shown(played[d] \o Stamped(pkts, clock)) = Shown(played[d]) \o pkts
    BY <1>1, ShownStamped
  <2>2. y \o pkts \in Seq(PacketType)
    BY ConcatProperties
  <2>3. QED
    BY <1>0, <1>5, <2>1, <2>2, Zenon
<1>6. Through(d) \in Seq(PacketType)
  BY <1>1, <1>2, <1>3, <1>4
<1>7. CASE Rests(d)
  BY <1>0, <1>2, <1>6, <1>7 DEF Rests
<1>8. CASE held[d] \in PacketType /\ Releases(d, held[d])
  <2>1. PICK s : s = <<held[d]>>
    OBVIOUS
  <2>2. s \in Seq(PacketType)
    BY <1>8, <2>1
  <2>3. played'[d] = played[d] \o Stamped(s, clock) /\ held'[d] = None /\ read'[d] = read[d]
    BY <1>8, <2>1 DEF Releases
  <2>4. Shown(played'[d]) = y \o s /\ y \o s \in Seq(PacketType)
    BY <1>5, <2>2, <2>3
  <2>5. Through(d)' = (y \o s) \o << >>
    BY <1>2, <1>3, <2>3, <2>4
  <2>6. Through(d)' = y \o s
    BY <2>4, <2>5, ConcatEmptySeq
  <2>7. Through(d) = y \o s
    BY <1>2, <1>4, <1>8, <2>1
  <2>8. QED
    BY <1>6, <2>3, <2>6, <2>7
<1>9. CASE read[d] + 1 \in 1 .. Len(File[d]) /\ Reads(d, File[d][read[d] + 1])
  <2>1. PICK p \in PacketType : p = File[d][read[d] + 1] /\ Reads(d, p)
    BY <1>1, <1>9, ElementOfSeq
  <2>2. Through(d) = y
    BY <1>2, <1>3, <2>1 DEF Reads
  <2>3. Through(d)' = Kept(y, p)
    <3>1. CASE p.big
      <4>1. held'[d] = None /\ played'[d] = played[d]
        BY <2>1, <3>1 DEF Reads, Ignores
      <4>2. QED
        BY <1>0, <1>2, <1>3, <3>1, <4>1 DEF Kept
    <3>2. CASE ~p.big /\ held'[d] = p /\ played'[d] = played[d]
      BY <1>0, <1>2, <1>4, <3>2 DEF Kept
    <3>3. CASE ~p.big /\ held'[d] = None /\ played'[d] = played[d] \o Stamped(<<p>>, clock)
      <4>1. PICK s : s = <<p>>
        OBVIOUS
      <4>2. s \in Seq(PacketType)
        BY <4>1
      <4>3. Shown(played'[d]) = y \o s /\ y \o s \in Seq(PacketType)
        BY <1>5, <3>3, <4>1, <4>2
      <4>4. Through(d)' = (y \o s) \o << >>
        BY <1>2, <1>3, <3>3, <4>3
      <4>5. Through(d)' = y \o s
        BY <4>3, <4>4, ConcatEmptySeq
      <4>6. QED
        BY <1>4, <3>3, <4>1, <4>5 DEF Kept
    <3>4. QED
      BY <2>1, <3>1, <3>2, <3>3 DEF Reads, Takes
  <2>4. QED
    BY <1>6, <1>9, <2>1, <2>2, <2>3
<1>10. CASE \E n \in Nat : Collects(d, n)
  <2>1. PICK n \in Nat : Collects(d, n)
    BY <1>10
  <2>2. /\ d \notin Offline /\ read[d] + n <= Len(File[d]) /\ read'[d] = read[d] + n
        /\ held'[d] = held[d]
        /\ played'[d] = played[d] \o Stamped(Small(SubSeq(File[d], read[d] + 1, read[d] + n)), clock)
    BY <2>1 DEF Collects
  <2>3. held[d] = None
    BY <2>2 DEF IInv, Supply
  <2>4. PICK s \in Seq(PacketType) : s = Small(SubSeq(File[d], read[d] + 1, read[d] + n))
    BY <1>1, <2>2, ReachedMore, SmallType
  <2>5. Shown(played'[d]) = y \o s /\ y \o s \in Seq(PacketType)
    BY <1>5, <2>2, <2>4
  <2>6. Through(d)' = (y \o s) \o << >> /\ Through(d) = y
    BY <1>2, <1>3, <2>2, <2>3, <2>5
  <2>7. Through(d)' = Through(d) \o s
    BY <2>5, <2>6, ConcatEmptySeq
  <2>8. QED
    BY <1>6, <2>2, <2>4, <2>7
<1>11. QED
  BY <1>7, <1>8, <1>9, <1>10 DEF Moves

(* Every packet that was read has been handed out or is held back, in the  *)
(* order of the file: the order of InOrderOnce is inductive.               *)
LEMMA InitInOrder == Init => InOrderOnce
<1> SUFFICES ASSUME Init, NEW d \in Drivers
             PROVE  Packets(d) \o HeldPackets(d) = Small(SubSeq(File[d], 1, read[d]))
  BY DEF InOrderOnce
<1>1. read[d] = 0 /\ held[d] = None /\ played[d] = << >>
  BY DEF Init
<1>2. SubSeq(File[d], 1, read[d]) = << >>
  BY <1>1, SubSeqEmpty
<1>3. PICK s : s = << >>
  OBVIOUS
<1>4. s \in Seq(Playing) /\ s \in Seq(PacketType) /\ 0 \in Nat /\ Len(s) = 0
  BY <1>3
<1>5. Shown(s) \in Seq(PacketType) /\ Len(Shown(s)) = 0
  BY <1>4, ShownStamped
<1>6. Shown(s) = s
  BY <1>3, <1>5, EmptySeq
<1>7. Packets(d) = s /\ HeldPackets(d) = s
  BY <1>1, <1>3, <1>6 DEF Packets, HeldPackets, Shown
<1>8. s \o s = s
  BY <1>3, <1>4, ConcatEmptySeq
<1>9. QED
  BY <1>2, <1>3, <1>7, <1>8, SmallEmpty

LEMMA NextInOrder == IInv /\ InOrderOnce /\ [Next]_vars => InOrderOnce'
<1> SUFFICES ASSUME IInv, InOrderOnce, [Next]_vars, NEW d \in Drivers
             PROVE  Through(d)' = Small(SubSeq(File[d], 1, read'[d]))
  BY DEF InOrderOnce, Through
<1>1. Moves(d)
  BY EveryMove
<1>2. Through(d) = Small(SubSeq(File[d], 1, read[d]))
  BY DEF InOrderOnce, Through
<1>3. read[d] \in Nat /\ File[d] \in Seq(PacketType) /\ Len(File[d]) \in Nat /\ read[d] <= Len(File[d])
  BY FileAssumption, LenProperties DEF IInv, Types, DriverTypes, Supply
<1>4. CASE Through(d)' = Through(d) /\ read'[d] = read[d]
  BY <1>2, <1>4
<1>5. ASSUME read[d] + 1 \in 1 .. Len(File[d]), File[d][read[d] + 1] \in PacketType, read'[d] = read[d] + 1,
             Through(d)' = Kept(Through(d), File[d][read[d] + 1])
      PROVE  Through(d)' = Small(SubSeq(File[d], 1, read'[d]))
  <2>1. /\ SubSeq(File[d], 1, read[d]) \in Seq(PacketType)
        /\ SubSeq(File[d], 1, read[d] + 1) = Append(SubSeq(File[d], 1, read[d]), File[d][read[d] + 1])
    <3>1. PICK s \in Seq(PacketType), k \in Nat : s = File[d] /\ k = read[d]
      BY <1>3
    <3>2. k + 1 <= Len(s)
      BY <1>3, <1>5, <3>1
    <3>3. /\ SubSeq(s, 1, k) \in Seq(PacketType)
          /\ SubSeq(s, 1, k + 1) = Append(SubSeq(s, 1, k), s[k + 1])
      BY <3>2, ReachedMore
    <3>4. QED
      BY <3>1, <3>3
  <2>2. Small(SubSeq(File[d], 1, read[d] + 1)) = Kept(Small(SubSeq(File[d], 1, read[d])), File[d][read[d] + 1])
    BY <1>5, <2>1, SmallAppend
  <2>3. QED
    BY <1>2, <1>5, <2>2
<1>6. ASSUME NEW n \in Nat, read[d] + n <= Len(File[d]), read'[d] = read[d] + n,
             Through(d)' = Through(d) \o Small(SubSeq(File[d], read[d] + 1, read[d] + n))
      PROVE  Through(d)' = Small(SubSeq(File[d], 1, read'[d]))
  <2>1. /\ SubSeq(File[d], 1, read[d]) \in Seq(PacketType)
        /\ SubSeq(File[d], read[d] + 1, read[d] + n) \in Seq(PacketType)
        /\ SubSeq(File[d], 1, read[d] + n)
              = SubSeq(File[d], 1, read[d]) \o SubSeq(File[d], read[d] + 1, read[d] + n)
    BY <1>3, <1>6, ReachedMore
  <2>2. Small(SubSeq(File[d], 1, read[d] + n))
           = Small(SubSeq(File[d], 1, read[d])) \o Small(SubSeq(File[d], read[d] + 1, read[d] + n))
    BY <2>1, SmallConcat
  <2>3. QED
    BY <1>2, <1>6, <2>2
<1>7. QED
  BY <1>1, <1>4, <1>5, <1>6, MovesThrough DEF Reads

(* Whatever the threads do, the packets of a driver are handed out once,   *)
(* in the order of its file, and none is lost but one that waits.          *)
THEOREM PlayedInOrder == Spec => []InOrderOnce
<1>1. IInv /\ InOrderOnce /\ [Next]_vars => InOrderOnce'
  BY NextInOrder
<1>2. QED
  BY InitInOrder, <1>1, Invariance, PTL DEF Spec

------------------------------------------------------------------------------
(* The end of the file.  pcapHandler ignores packets that are too big, and *)
(* getPackets takes one of those for the end (the run CaptureBig), so that *)
(* a driver that says it is finished is, when its file has none.           *)
NoneIgnored == \A d \in Offline : \A i \in DOMAIN File[d] : ~File[d][i].big

LEMMA NextFinishedMeansDone ==
    ASSUME NoneIgnored
    PROVE  IInv /\ FinishedMeansDone /\ [Next]_vars => FinishedMeansDone'
<1> SUFFICES ASSUME IInv, FinishedMeansDone, [Next]_vars, NEW d \in Drivers, finished'[d]
             PROVE  read'[d] = Len(File[d]) /\ held'[d] = None
  BY DEF FinishedMeansDone
<1>1. finished[d] => read[d] = Len(File[d]) /\ held[d] = None
  BY DEF FinishedMeansDone
<1>2. d \notin Offline => ~finished[d]
  BY DEF IInv, Supply
<1>3. Moves(d)
  BY EveryMove
<1>4. CASE Rests(d)
  BY <1>1, <1>4 DEF Rests
<1>5. CASE read[d] + 1 \in 1 .. Len(File[d]) /\ Reads(d, File[d][read[d] + 1])
  <2>1. d \in Offline /\ read[d] < Len(File[d]) /\ read[d] \in Nat /\ read[d] + 1 \in DOMAIN File[d]
    <3>1. File[d] \in Seq(PacketType) /\ read[d] \in Nat
      BY FileAssumption DEF IInv, Types, DriverTypes
    <3>2. DOMAIN File[d] = 1 .. Len(File[d])
      BY <3>1, LenProperties
    <3>3. QED
      BY <1>5, <3>1, <3>2 DEF Reads
  <2>2. ~File[d][read[d] + 1].big
    BY <2>1 DEF NoneIgnored
  <2>3. finished'[d] = finished[d]
    BY <1>5, <2>2 DEF Reads, Takes
  <2>4. QED
    BY <1>1, <2>1, <2>3
<1>6. CASE held[d] \in PacketType /\ Releases(d, held[d])
  BY <1>1, <1>6, NoneAssumption DEF Releases
<1>7. CASE \E n \in Nat : Collects(d, n)
  BY <1>2, <1>7 DEF Collects
<1>8. QED
  BY <1>3, <1>4, <1>5, <1>6, <1>7 DEF Moves

(* A driver that is finished has read its file and holds nothing back.     *)
THEOREM FinishedIsDone ==
    ASSUME NoneIgnored
    PROVE  Spec => []FinishedMeansDone
<1>1. Init => FinishedMeansDone
  BY DEF Init, FinishedMeansDone
<1>2. IInv /\ FinishedMeansDone /\ [Next]_vars => FinishedMeansDone'
  BY NextFinishedMeansDone
<1>3. QED
  BY <1>1, <1>2, Invariance, PTL DEF Spec

------------------------------------------------------------------------------
(* The pace.  A time stamp of 0 stands for no packet in _pkt_time, so that *)
(* the gap after such a packet is left out; time stamps count from 1970.   *)
StampedFiles == \A d \in Offline : \A i \in DOMAIN File[d] : File[d][i].ts # 0

OnTime(s) == \A i \in DOMAIN s : s[i].at >= s[1].at + Elapsed(Shown(s), i)

(* Where a driver is in its file: what its last packet was, and when it is *)
(* or was due.                                                             *)
Pace(s, y, when, sent) ==
    /\ y = << >> => s = << >> /\ when = 0 /\ sent = 0
    /\ y # << >> => /\ s # << >> /\ s[1].at # 0
                    /\ when # 0 /\ when = y[Len(y)].ts
                    /\ sent = s[1].at + Elapsed(y, Len(y))
Paced == \A d \in Offline : Pace(played[d], Through(d), pktTime[d], pktSent[d])

LEMMA ElapsedAppend ==
    ASSUME NEW y \in Seq(PacketType), NEW p \in PacketType
    PROVE  /\ y = << >> => Elapsed(Append(y, p), Len(y) + 1) = 0
           /\ y # << >> => Elapsed(Append(y, p), Len(y) + 1)
                              = Elapsed(y, Len(y))
                                + IF p.ts > y[Len(y)].ts THEN p.ts - y[Len(y)].ts ELSE 0
           /\ \A i \in 1 .. Len(y) : Elapsed(Append(y, p), i) = Elapsed(y, i) /\ Elapsed(y, i) \in Nat
<1>1. PICK r : r = Append(y, p)
  OBVIOUS
<1>2. /\ r \in Seq(PacketType) /\ Len(r) = Len(y) + 1 /\ r[Len(y) + 1] = p
      /\ \A i \in 1 .. Len(y) : r[i] = y[i]
  BY <1>1, AppendProperties
<1>3. Len(y) \in Nat /\ (y = << >> <=> Len(y) = 0)
  BY LenProperties, EmptySeq
<1>4. ASSUME NEW i \in 1 .. Len(y)
      PROVE  Elapsed(r, i) = Elapsed(y, i) /\ Elapsed(y, i) \in Nat
  <2>1. i <= Len(r) /\ \A k \in 1 .. i : r[k] = y[k]
    BY <1>2, <1>3
  <2>2. QED
    BY <1>2, <2>1, ElapsedAgrees, ElapsedSteps
<1>5. Len(y) + 1 \in 1 .. Len(r)
  BY <1>2, <1>3
<1>6. CASE y = << >>
  <2>1. Elapsed(r, Len(y) + 1) = 0
    BY <1>2, <1>3, <1>5, <1>6, ElapsedSteps
  <2>2. QED
    BY <1>1, <1>4, <1>6, <2>1
<1>7. CASE y # << >>
  <2>1. Len(y) \in 1 .. Len(y) /\ Len(y) + 1 # 1 /\ (Len(y) + 1) - 1 = Len(y)
    BY <1>3, <1>7
  <2>2. Elapsed(r, Len(y) + 1) = Elapsed(r, (Len(y) + 1) - 1) + StampGap(r, Len(y) + 1)
    BY <1>2, <1>5, <2>1, ElapsedSteps
  <2>3. Elapsed(r, (Len(y) + 1) - 1) = Elapsed(y, Len(y))
    BY <1>4, <2>1
  <2>4. StampGap(r, Len(y) + 1) = IF p.ts > y[Len(y)].ts THEN p.ts - y[Len(y)].ts ELSE 0
    BY <1>2, <2>1 DEF StampGap
  <2>5. QED
    BY <1>1, <1>4, <1>7, <2>2, <2>3, <2>4
<1>8. QED
  BY <1>6, <1>7

(* A packet more that is handed out.                                       *)
More(s, p, c) == s \o Stamped(<<p>>, c)
Due(s, p, c) == s # << >> => c >= s[1].at + Elapsed(Append(Shown(s), p), Len(s) + 1)

LEMMA OnTimeMore ==
    ASSUME NEW s \in Seq(Playing), OnTime(s), NEW p \in PacketType, NEW c \in Nat, Due(s, p, c)
    PROVE  /\ More(s, p, c) \in Seq(Playing) /\ More(s, p, c) # << >> /\ OnTime(More(s, p, c))
           /\ More(s, p, c)[1].at = IF s = << >> THEN c ELSE s[1].at
<1>0. PICK r : r = More(s, p, c)
  OBVIOUS
<1>1. PICK w \in Seq(PacketType) : w = <<p>> /\ Len(w) = 1 /\ w[1] = p
  <2>1. PICK w : w = <<p>>
    OBVIOUS
  <2>2. w \in Seq(PacketType) /\ Len(w) = 1 /\ w[1] = p
    BY <2>1
  <2>3. QED
    BY <2>1, <2>2
<1>2. PICK z \in Seq(Playing) : z = Stamped(w, c) /\ Len(z) = 1
  BY <1>1, ShownStamped
<1>3. z[1].at = c
  <2>1. 1 \in DOMAIN w
    BY <1>1
  <2>2. QED
    BY <1>2, <2>1 DEF Stamped
<1>4. r = s \o z
  BY <1>0, <1>1, <1>2 DEF More
<1>5. /\ r \in Seq(Playing) /\ Len(r) = Len(s) + 1
      /\ \A i \in 1 .. Len(s) + 1 : r[i] = IF i <= Len(s) THEN s[i] ELSE z[i - Len(s)]
  <2>1. s \o z \in Seq(Playing) /\ Len(s \o z) = Len(s) + Len(z)
    BY ConcatProperties
  <2>2. \A i \in 1 .. Len(s) + Len(z) : (s \o z)[i] = IF i <= Len(s) THEN s[i] ELSE z[i - Len(s)]
    BY ConcatProperties
  <2>3. QED
    BY <1>2, <1>4, <2>1, <2>2
<1>6. PICK n \in Nat : n = Len(s) /\ (s = << >> <=> n = 0) /\ DOMAIN s = 1 .. n /\ DOMAIN r = 1 .. n + 1
  BY <1>5, LenProperties, EmptySeq
<1>7. (\A i \in 1 .. n : r[i] = s[i]) /\ r[n + 1].at = c /\ r # << >>
  <2>1. \A i \in 1 .. n : i \in 1 .. n + 1 /\ i <= n
    OBVIOUS
  <2>2. n + 1 \in 1 .. n + 1 /\ ~ n + 1 <= n /\ (n + 1) - n = 1
    OBVIOUS
  <2>3. QED
    BY <1>3, <1>5, <1>6, <2>1, <2>2, EmptySeq
<1>8. PICK y \in Seq(PacketType) : y = Shown(s) /\ Len(y) = n
  BY <1>1, <1>6, ShownStamped
<1>9. Shown(r) = Append(y, p)
  <2>1. Shown(r) = y \o w
    <3>1. Shown(s \o Stamped(w, c)) = Shown(s) \o w
      BY ShownStamped
    <3>2. QED
      BY <1>2, <1>4, <1>8, <3>1, Zenon
  <2>2. QED
    BY <1>1, <2>1, AppendIsConcat
<1>10. ASSUME NEW i \in 1 .. n
       PROVE  r[i].at >= r[1].at + Elapsed(Append(y, p), i)
  <2>1. 1 \in 1 .. n /\ i \in DOMAIN s
    BY <1>6
  <2>2. s[i].at >= s[1].at + Elapsed(y, i)
    BY <1>8, <2>1 DEF OnTime
  <2>3. Elapsed(Append(y, p), i) = Elapsed(y, i)
    BY <1>8, ElapsedAppend
  <2>4. QED
    BY <1>7, <2>1, <2>2, <2>3
<1>11. r[n + 1].at >= r[1].at + Elapsed(Append(y, p), n + 1)
  <2>1. CASE s = << >>
    <3>1. n = 0 /\ y = << >>
      BY <1>6, <1>8, <2>1, EmptySeq
    <3>2. Elapsed(Append(y, p), n + 1) = 0
      BY <1>8, <3>1, ElapsedAppend
    <3>3. r[n + 1].at = c /\ r[1].at = c
      BY <1>7, <3>1
    <3>4. c >= c + 0
      OBVIOUS
    <3>5. QED
      BY <3>2, <3>3, <3>4
  <2>2. CASE s # << >>
    <3>1. 1 \in 1 .. n
      BY <1>6, <2>2
    <3>2. c >= s[1].at + Elapsed(Append(y, p), n + 1)
      BY <1>6, <1>8, <2>2 DEF Due
    <3>3. QED
      BY <1>7, <3>1, <3>2
  <2>3. QED
    BY <2>1, <2>2
<1>12. OnTime(r)
  <2>1. \A i \in DOMAIN r : i \in 1 .. n \/ i = n + 1
    BY <1>6
  <2>2. QED
    BY <1>9, <1>10, <1>11, <2>1 DEF OnTime
<1>13. r[1].at = IF s = << >> THEN c ELSE s[1].at
  <2>1. n # 0 => 1 \in 1 .. n
    OBVIOUS
  <2>2. QED
    BY <1>6, <1>7, <2>1
<1>14. QED
  BY <1>0, <1>5, <1>7, <1>12, <1>13

LEMMA MovePaced ==
    ASSUME StampedFiles, IInv, NEW d \in Offline, Moves(d),
           Pace(played[d], Through(d), pktTime[d], pktSent[d]), OnTime(played[d])
    PROVE  Pace(played'[d], Through(d)', pktTime'[d], pktSent'[d]) /\ OnTime(played'[d])
<1>1. /\ d \in Drivers /\ clock \in Nat \ {0} /\ played[d] \in Seq(Playing) /\ File[d] \in Seq(PacketType)
      /\ pktTime[d] \in Nat /\ pktSent[d] \in Nat
  <2>1. d \in Drivers
    BY DriversAssumption DEF Drivers
  <2>2. QED
    BY <2>1, FileAssumption DEF IInv, Types, DriverTypes
<1>2. PICK s \in Seq(Playing) : s = played[d]
  BY <1>1
<1>3. PICK y \in Seq(PacketType) : y = Shown(s) /\ Len(y) = Len(s)
  BY <1>1, EmptySeq, ShownStamped
<1>4. held[d] = None => Through(d) = y
  BY <1>1, <1>2, <1>3, ThroughIs, ConcatEmptySeq DEF Behind
<1>5. y = << >> <=> s = << >>
  BY <1>3, EmptySeq
<1>6. \A q \in Playing : q.at \in Nat
  BY DEF Playing
<1>7. s # << >> => s[1].at \in Nat
  <2>1. s # << >> => 1 \in 1 .. Len(s)
    BY EmptySeq, LenProperties
  <2>2. QED
    BY <1>6, <2>1, ElementOfSeq
<1>8. CASE Through(d)' = Through(d) /\ played'[d] = played[d] /\ pktTime'[d] = pktTime[d] /\ pktSent'[d] = pktSent[d]
  BY <1>8
<1>9. CASE held[d] \in PacketType /\ Releases(d, held[d])
  <2>1. PICK p \in PacketType : p = held[d]
    BY <1>9
  <2>2. /\ held'[d] = None /\ pktSent[d] <= clock
        /\ pktTime'[d] = pktTime[d] /\ pktSent'[d] = pktSent[d]
        /\ played'[d] = s \o Stamped(<<p>>, clock)
    BY <1>2, <1>9, <2>1 DEF Releases
  <2>3. Through(d) = Append(y, p) /\ Append(y, p) # << >> /\ Len(Append(y, p)) = Len(s) + 1
    <3>1. Behind(held[d]) = <<p>>
      BY <2>1, NoneAssumption DEF Behind
    <3>2. Through(d) = y \o <<p>>
      BY <1>1, <1>2, <1>3, <3>1, ThroughIs
    <3>3. QED
      BY <1>3, <3>2, AppendIsConcat, AppendProperties
  <2>4. s # << >> /\ pktSent[d] = s[1].at + Elapsed(Append(y, p), Len(s) + 1)
    BY <1>2, <2>3 DEF Pace
  <2>5. /\ OnTime(played'[d]) /\ played'[d] # << >> /\ played'[d][1].at = s[1].at
    <3>1. clock >= s[1].at + Elapsed(Append(y, p), Len(s) + 1) /\ clock \in Nat
      BY <1>1, <2>2, <2>4
    <3>2. Due(s, p, clock)
      BY <1>3, <3>1 DEF Due
    <3>3. played'[d] = More(s, p, clock) /\ OnTime(s)
      BY <1>2, <2>2 DEF More
    <3>4. QED
      BY <2>4, <3>1, <3>2, <3>3, OnTimeMore
  <2>6. Through(d)' = Through(d)
    <3>1. ~ Reads(d, File[d][read[d] + 1])
      BY <1>9, NoneAssumption DEF Reads
    <3>2. QED
      BY <1>1, <3>1, MovesThrough
  <2>7. QED
    BY <1>2, <2>2, <2>3, <2>4, <2>5, <2>6 DEF Pace
<1>10. CASE read[d] + 1 \in 1 .. Len(File[d]) /\ Reads(d, File[d][read[d] + 1])
  <2>1. PICK p \in PacketType : p = File[d][read[d] + 1] /\ Reads(d, p)
    BY <1>1, <1>10, ElementOfSeq
  <2>2. held[d] = None /\ Through(d) = y
    BY <1>4, <2>1 DEF Reads
  <2>3. p.ts \in Nat /\ p.ts # 0
    <3>1. read[d] + 1 \in DOMAIN File[d]
      BY <1>1, <1>10, LenProperties
    <3>2. QED
      BY <2>1, <3>1 DEF StampedFiles, PacketType
  <2>4. Through(d)' = Kept(y, p)
    <3>1. ~ Through(d)' = Through(d) \/ read'[d] # read[d]
      <4>1. read[d] \in Nat
        BY <1>1 DEF IInv, Types, DriverTypes
      <4>2. read'[d] # read[d]
        BY <2>1, <4>1 DEF Reads
      <4>3. QED
        BY <4>2
    <3>2. QED
      BY <1>1, <2>1, <2>2, <3>1, MovesThrough
  <2>5. CASE p.big
    BY <1>8, <2>1, <2>2, <2>4, <2>5 DEF Reads, Ignores, Kept
  <2>6. CASE ~p.big
    <3>1. /\ pktTime'[d] = p.ts /\ pktSent'[d] = SentAt(d, p.ts)
          /\ \/ played'[d] = s /\ SentAt(d, p.ts) > clock
             \/ played'[d] = s \o Stamped(<<p>>, clock) /\ SentAt(d, p.ts) <= clock
      BY <1>2, <2>1, <2>6 DEF Reads, Takes
    <3>r. PICK r : r = Append(y, p)
      OBVIOUS
    <3>2. /\ r \in Seq(PacketType) /\ r = Through(d)' /\ r # << >>
          /\ Len(r) = Len(s) + 1 /\ r[Len(s) + 1] = p
      <4>1. r \in Seq(PacketType) /\ r # << >> /\ Len(r) = Len(y) + 1 /\ r[Len(y) + 1] = p
        BY <3>r, AppendProperties
      <4>2. r = Through(d)'
        BY <2>4, <2>6, <3>r DEF Kept
      <4>3. QED
        BY <1>3, <4>1, <4>2
    <3>3. CASE s = << >>
      <4>1. pktTime[d] = 0 /\ pktSent[d] = 0 /\ y = << >>
        BY <1>2, <1>5, <2>2, <3>3 DEF Pace
      <4>2. SentAt(d, p.ts) = clock
        BY <4>1 DEF SentAt, Gap
      <4>3. played'[d] = s \o Stamped(<<p>>, clock)
        <5>1. ~ SentAt(d, p.ts) > clock
          BY <1>1, <4>2
        <5>2. QED
          BY <3>1, <5>1
      <4>4. OnTime(played'[d]) /\ played'[d] # << >> /\ played'[d][1].at = clock
        <5>1. played'[d] = More(s, p, clock) /\ OnTime(s) /\ clock \in Nat
          BY <1>1, <1>2, <4>3 DEF More
        <5>2. Due(s, p, clock)
          BY <3>3 DEF Due
        <5>3. /\ OnTime(More(s, p, clock)) /\ More(s, p, clock) # << >>
              /\ More(s, p, clock)[1].at = IF s = << >> THEN clock ELSE s[1].at
          BY <5>1, <5>2, OnTimeMore
        <5>4. QED
          BY <3>3, <5>1, <5>3
      <4>5. Elapsed(r, Len(r)) = 0
        BY <1>3, <3>r, <3>2, <4>1, ElapsedAppend
      <4>6. clock = clock + 0
        BY <1>1
      <4>7. QED
        BY <1>1, <2>3, <3>1, <3>2, <4>2, <4>4, <4>5, <4>6 DEF Pace
    <3>4. CASE s # << >>
      <4>1. /\ y # << >> /\ pktTime[d] # 0 /\ pktTime[d] = y[Len(y)].ts /\ s[1].at # 0
            /\ pktSent[d] = s[1].at + Elapsed(y, Len(y))
        BY <1>2, <1>5, <2>2, <3>4 DEF Pace
      <4>2. Gap(d, p.ts) = IF p.ts > y[Len(y)].ts THEN p.ts - y[Len(y)].ts ELSE 0
        BY <4>1 DEF Gap
      <4>3. Gap(d, p.ts) \in Nat
        BY <1>1, <2>3 DEF Gap
      <4>4. Len(y) \in 1 .. Len(y)
        BY <4>1, EmptySeq, LenProperties
      <4>5. /\ Elapsed(r, Len(r)) = Elapsed(y, Len(y)) + Gap(d, p.ts)
            /\ Elapsed(y, Len(y)) \in Nat
        <5>1. Elapsed(Append(y, p), Len(y) + 1)
                 = Elapsed(y, Len(y)) + IF p.ts > y[Len(y)].ts THEN p.ts - y[Len(y)].ts ELSE 0
          BY <4>1, ElapsedAppend
        <5>2. Elapsed(y, Len(y)) \in Nat
          BY <4>4, ElapsedAppend
        <5>3. Len(r) = Len(y) + 1
          BY <1>3, <3>2
        <5>4. QED
          BY <3>r, <4>2, <5>1, <5>2, <5>3
      <4>6. SentAt(d, p.ts) = s[1].at + Elapsed(r, Len(r)) /\ Elapsed(r, Len(r)) \in Nat
        <5>1. PICK a \in Nat : a = s[1].at /\ a # 0
          BY <1>7, <3>4, <4>1
        <5>2. PICK e \in Nat : e = Elapsed(y, Len(y))
          BY <4>5
        <5>3. PICK g \in Nat : g = Gap(d, p.ts)
          BY <4>3
        <5>4. pktSent[d] + Gap(d, p.ts) = a + (e + g) /\ a + (e + g) # 0
          BY <4>1, <5>1, <5>2, <5>3
        <5>5. SentAt(d, p.ts) = a + (e + g)
          BY <5>4 DEF SentAt
        <5>6. PICK f \in Nat : f = Elapsed(r, Len(r)) /\ f = e + g
          BY <4>5, <5>2, <5>3
        <5>7. QED
          BY <5>1, <5>5, <5>6
      <4>7. CASE played'[d] = s
        BY <1>2, <2>3, <3>1, <3>2, <3>4, <4>1, <4>6, <4>7 DEF Pace
      <4>8. CASE played'[d] = s \o Stamped(<<p>>, clock) /\ SentAt(d, p.ts) <= clock
        <5>1. PICK z : z = More(s, p, clock)
          OBVIOUS
        <5>2. z = played'[d] /\ OnTime(s) /\ clock \in Nat
          BY <1>1, <1>2, <4>8, <5>1 DEF More
        <5>3. clock >= s[1].at + Elapsed(Append(Shown(s), p), Len(s) + 1)
          <6>1. clock >= s[1].at + Elapsed(r, Len(r))
            <7>1. SentAt(d, p.ts) \in Nat
              BY <1>7, <3>4, <4>6
            <7>2. QED
              BY <1>1, <4>6, <4>8, <7>1
          <6>2. QED
            BY <1>3, <3>r, <3>2, <6>1
        <5>4. OnTime(z) /\ z # << >> /\ z[1].at = IF s = << >> THEN clock ELSE s[1].at
          <6>1. Due(s, p, clock)
            BY <5>3 DEF Due
          <6>2. /\ OnTime(More(s, p, clock)) /\ More(s, p, clock) # << >>
                /\ More(s, p, clock)[1].at = IF s = << >> THEN clock ELSE s[1].at
            BY <5>2, <6>1, OnTimeMore
          <6>3. QED
            BY <5>1, <6>2
        <5>5. z[1].at = s[1].at
          BY <3>4, <5>4
        <5>6. QED
          BY <2>3, <3>1, <3>2, <4>1, <4>6, <5>2, <5>4, <5>5 DEF Pace
      <4>9. QED
        BY <3>1, <4>7, <4>8
    <3>5. QED
      BY <3>3, <3>4
  <2>7. QED
    BY <2>5, <2>6
<1>11. CASE Rests(d)
  <2>1. Through(d)' = Through(d)
    BY <1>1, <1>11, ThroughIs DEF Rests
  <2>2. QED
    BY <1>8, <1>11, <2>1 DEF Rests
<1>12. QED
  BY <1>9, <1>10, <1>11 DEF Moves, Collects

(* A packet is handed out no earlier after the first one of its file than  *)
(* it was captured after it, whatever the clock and the threads do.        *)
THEOREM PlayedAtPace ==
    ASSUME StampedFiles
    PROVE  Spec => []NeverEarly
<1> DEFINE Timely == \A d \in Offline : OnTime(played[d])
<1>1. Timely => NeverEarly
  BY DEF OnTime, NeverEarly, Packets, Shown
<1>2. Init => Paced /\ Timely
  <2> SUFFICES ASSUME Init, NEW d \in Offline
               PROVE  Pace(played[d], Through(d), pktTime[d], pktSent[d]) /\ OnTime(played[d])
    BY DEF Paced
  <2>1. d \in Drivers
    BY DriversAssumption DEF Drivers
  <2>2. played[d] = << >> /\ pktTime[d] = 0 /\ pktSent[d] = 0 /\ held[d] = None
    BY <2>1 DEF Init
  <2>3. PICK s : s = << >>
    OBVIOUS
  <2>4. Shown(s) = s /\ s \o s = s /\ DOMAIN s = {}
    <3>1. s \in Seq(Playing) /\ s \in Seq(PacketType) /\ 0 \in Nat /\ Len(s) = 0
      BY <2>3
    <3>2. Shown(s) \in Seq(PacketType) /\ Len(Shown(s)) = 0
      BY <3>1, ShownStamped
    <3>3. QED
      BY <2>3, <3>1, <3>2, EmptySeq, ConcatEmptySeq, LenProperties
  <2>5. Through(d) = << >>
    BY <2>1, <2>2, <2>3, <2>4, ThroughIs DEF Behind
  <2>6. OnTime(played[d])
    BY <2>2, <2>3, <2>4 DEF OnTime
  <2>7. QED
    BY <2>2, <2>5, <2>6 DEF Pace
<1>3. IInv /\ Paced /\ Timely /\ [Next]_vars => Paced' /\ Timely'
  <2> SUFFICES ASSUME IInv, Paced, Timely, [Next]_vars, NEW d \in Offline
               PROVE  Pace(played'[d], Through(d)', pktTime'[d], pktSent'[d]) /\ OnTime(played'[d])
    BY DEF Paced
  <2>1. Moves(d)
    BY EveryMove, DriversAssumption DEF Drivers
  <2>2. Pace(played[d], Through(d), pktTime[d], pktSent[d]) /\ OnTime(played[d])
    BY DEF Paced
  <2>3. QED
    BY <2>1, <2>2, MovePaced
<1>4. QED
  BY <1>1, <1>2, <1>3, Invariance, PTL DEF Spec
------------------------------------------------------------------------------
(* The clock that Capture's files are played by.  A reader of it copies    *)
(* whole points, for every size of the ring of points, every number of     *)
(* readers and whatever the counter's rate is, as long as the ring is not  *)
(* written round once while a reader copies.                               *)
(*                                                                         *)
(* The argument: while a reader copies, the writer is exactly stall + 1    *)
(* places ahead of the reader's place, and the writer has not come so far  *)
(* that this is the whole ring; so the place it stores to is another one.  *)

Places == 0 .. Size - 1

(* The number of steps that lead from one place round to another.          *)
Distance(i, j) == IF j >= i THEN j - i ELSE j - i + Size

IsPoint(p) == p = [f \in Fields |-> p[f]]

ClockTypes == /\ index \in Places
              /\ next = [index |-> next.index, point |-> next.point] /\ next.index \in Places
              /\ upd \in Fields \cup {"idle", "before", "day", "after", "index", "prev"}
              /\ doing \in [Readers -> Fields \cup {"idle", "index", "copied"}]
              /\ place \in [Readers -> Places]
              /\ stall \in [Readers -> Nat]

Points == /\ DOMAIN timedatas = Places /\ \A i \in Places : IsPoint(timedatas[i])
          /\ DOMAIN copy = Readers /\ \A r \in Readers : IsPoint(copy[r])
          /\ DOMAIN meant = Readers /\ \A r \in Readers : IsPoint(meant[r])
          /\ IsPoint(published) /\ IsPoint(next.point)

Storing == upd \in Fields \cup {"before", "day", "after", "index"}

(* How much of the new point is in its place.                              *)
Stored == Storing => /\ next.index = NextIndex
                     /\ upd \in {"ticks", "freq", "index"} => timedatas[next.index].usecs = next.point.usecs
                     /\ upd \in {"freq", "index"} => timedatas[next.index].ticks = next.point.ticks
                     /\ upd = "index" => timedatas[next.index].freq = next.point.freq

Current == timedatas[index] = published

(* How far the writer has come since the reader loaded the index.          *)
Ahead == \A r \in Readers : doing[r] \in Fields =>
            /\ Distance(place[r], index) = stall[r] /\ stall[r] < Size
            /\ Storing => stall[r] + 1 < Size

(* How much of the point the reader has.                                   *)
Copied == \A r \in Readers :
            /\ doing[r] \in Fields => timedatas[place[r]] = meant[r]
            /\ doing[r] \in {"ticks", "freq", "copied"} => copy[r].usecs = meant[r].usecs
            /\ doing[r] \in {"freq", "copied"} => copy[r].ticks = meant[r].ticks
            /\ doing[r] = "copied" => copy[r].freq = meant[r].freq

ClockInv == ClockTypes /\ Points /\ Stored /\ Current /\ Ahead /\ Copied

------------------------------------------------------------------------------
(* The next place is in the ring, and is not this one.                     *)
LEMMA NextPlace ==
    ASSUME index \in Places
    PROVE  NextIndex \in Places /\ NextIndex # index
  BY SizeAssumption DEF Places, NextIndex

(* A step of the writer takes it one further from a place that is not the  *)
(* one it steps on.                                                        *)
LEMMA OneFurther ==
    ASSUME index \in Places, NEW i \in Places, Distance(i, index) + 1 < Size
    PROVE  NextIndex # i /\ Distance(i, NextIndex) = Distance(i, index) + 1
  BY SizeAssumption DEF Places, NextIndex, Distance

(* Two points with the same fields are the same.                           *)
LEMMA SameFields ==
    ASSUME NEW p, NEW q, IsPoint(p), IsPoint(q),
           p.usecs = q.usecs, p.ticks = q.ticks, p.freq = q.freq
    PROVE  p = q
  BY DEF IsPoint, Fields

(* A point with one field replaced.                                        *)
LEMMA OneField ==
    ASSUME NEW p, IsPoint(p), NEW f \in Fields, NEW v, NEW q, q = [p EXCEPT ![f] = v]
    PROVE  IsPoint(q) /\ q[f] = v /\ \A g \in Fields \ {f} : q[g] = p[g]
  BY DEF IsPoint, Fields

LEMMA RecordIsPoint ==
    ASSUME NEW a, NEW b, NEW c
    PROVE  IsPoint([usecs |-> a, ticks |-> b, freq |-> c])
  BY DEF IsPoint, Fields

LEMMA ClockStarts == ClockInit => ClockInv
  <1> SUFFICES ASSUME ClockInit PROVE ClockInv
    OBVIOUS
  <1>1. 0 \in Places
    BY SizeAssumption DEF Places
  <1>2. ClockTypes
    BY <1>1 DEF ClockInit, ClockTypes
  <1>3. (\A g, t : IsPoint(FirstPoint(g, t))) /\ IsPoint(Unset)
    BY RecordIsPoint DEF FirstPoint, Unset
  <1>4. PICK t, g : /\ timedatas = [i \in 0 .. Size - 1 |-> IF i = 0 THEN FirstPoint(g, t) ELSE Unset]
                    /\ published = FirstPoint(g, t) /\ meant = [r \in Readers |-> FirstPoint(g, t)]
                    /\ next.point = Unset /\ copy = [r \in Readers |-> Unset]
                    /\ index = 0 /\ upd = "idle" /\ doing = [r \in Readers |-> "idle"]
    BY DEF ClockInit
  <1>5. Points
    BY <1>3, <1>4 DEF Points, Places
  <1>6. QED
    BY <1>1, <1>2, <1>4, <1>5 DEF ClockInv, Stored, Storing, Current, Ahead, Copied, Fields, Places

LEMMA ClockSteps == ASSUME MaxStall < Size, ClockInv, [ClockNext]_clockVars PROVE ClockInv'
<1> USE SizeAssumption DEF ClockInv
<1>1. CASE CounterTick
  BY <1>1 DEF CounterTick, updater, readers, ClockTypes, Points, Stored, Storing, Current, Ahead, Copied, NextIndex
<1>2. CASE UpdateFirst
  BY <1>2 DEF UpdateFirst, readers, ClockTypes, Points, Stored, Storing, Current, Ahead, Copied, NextIndex
<1>3. CASE UpdateBegin
  <2>1. ClockTypes' /\ next'.index = NextIndex
    BY <1>3, NextPlace DEF UpdateBegin, readers, ClockTypes, Fields
  <2>2. IsPoint(next'.point)
    BY <1>3, RecordIsPoint DEF UpdateBegin, Unset
  <2>3. Points' /\ Current' /\ Copied'
    BY <1>3, <2>2 DEF UpdateBegin, readers, Points, Current, Copied
  <2>4. Stored'
    BY <1>3, <2>1 DEF UpdateBegin, Stored, Storing, Fields, NextIndex
  <2>5. Ahead'
    <3> SUFFICES ASSUME NEW r \in Readers, doing[r] \in Fields
                 PROVE  /\ Distance(place[r], index) = stall[r] /\ stall[r] < Size
                        /\ stall[r] + 1 < Size
      BY <1>3 DEF UpdateBegin, readers, Ahead, Storing, Distance
    <3>1. stall[r] < MaxStall /\ stall[r] \in Nat
      BY <1>3 DEF UpdateBegin, ClockTypes
    <3>2. QED
      BY <3>1, SizeAssumption DEF Ahead
  <2>6. QED
    BY <2>1, <2>3, <2>4, <2>5
<1>4. CASE UpdateStore
  <2>0. /\ upd \in Fields /\ next.index = NextIndex /\ next.index \in Places
        /\ next.index # index
    BY <1>4, NextPlace DEF UpdateStore, ClockTypes, Stored, Storing
  <2>1. ClockTypes' /\ Ahead'
    BY <1>4, <2>0 DEF UpdateStore, readers, ClockTypes, Ahead, Storing, Fields, After, Distance
  <2>2. /\ DOMAIN timedatas' = Places
        /\ timedatas'[next.index] = [timedatas[next.index] EXCEPT ![upd] = next.point[upd]]
        /\ \A i \in Places \ {next.index} : timedatas'[i] = timedatas[i]
    BY <1>4, <2>0 DEF UpdateStore, Points
  <2>3. /\ IsPoint(timedatas'[next.index]) /\ timedatas'[next.index][upd] = next.point[upd]
        /\ \A g \in Fields \ {upd} : timedatas'[next.index][g] = timedatas[next.index][g]
    <3> HIDE DEF ClockInv
    <3>1. IsPoint(timedatas[next.index])
      BY <2>0 DEF Points, ClockInv
    <3>2. QED
      BY <2>0, <2>2, <3>1, OneField
  <2>4. Points'
    BY <1>4, <2>2, <2>3 DEF UpdateStore, readers, Points
  <2>5. Stored'
    BY <1>4, <2>0, <2>3 DEF UpdateStore, Stored, Storing, Fields, After, NextIndex
  <2>6. Current'
    BY <1>4, <2>0, <2>2 DEF UpdateStore, Current, ClockTypes
  <2>7. Copied'
    <3>1. \A r \in Readers : doing[r] \in Fields => place[r] \in Places \ {next.index}
      BY <2>0, OneFurther DEF ClockTypes, Ahead, Storing
    <3>2. QED
      BY <1>4, <2>2, <3>1 DEF UpdateStore, readers, Copied
  <2>8. QED
    BY <2>1, <2>4, <2>5, <2>6, <2>7
<1>5. CASE UpdatePublish
  <2>1. ClockTypes' /\ Points' /\ Stored' /\ Copied'
    BY <1>5 DEF UpdatePublish, readers, ClockTypes, Points, Stored, Storing, Copied, Fields
  <2>2. timedatas[next.index] = next.point
    <3>1. IsPoint(timedatas[next.index]) /\ IsPoint(next.point)
      BY DEF ClockTypes, Points
    <3>2. QED
      BY <1>5, <3>1, SameFields DEF UpdatePublish, Stored, Storing
  <2>3. Current'
    BY <1>5, <2>2 DEF UpdatePublish, Current
  <2>4. Ahead'
    <3> SUFFICES ASSUME NEW r \in Readers, doing[r] \in Fields
                 PROVE  Distance(place[r], next.index) = stall[r] + 1 /\ stall[r] + 1 < Size
      BY <1>5 DEF UpdatePublish, readers, Ahead, Storing, Fields, Distance
    <3>1. Distance(place[r], index) = stall[r] /\ stall[r] + 1 < Size /\ next.index = NextIndex
      BY <1>5 DEF UpdatePublish, Ahead, Storing, Stored
    <3>2. QED
      BY <3>1, OneFurther DEF ClockTypes
  <2>5. QED
    BY <2>1, <2>3, <2>4
<1>6. CASE UpdateEnd
  BY <1>6 DEF UpdateEnd, readers, ClockTypes, Points, Stored, Storing, Current, Ahead, Copied, NextIndex, Fields
<1>7. ASSUME NEW r \in Readers, ReadTicks(r) PROVE ClockInv'
  BY <1>7 DEF ReadTicks, updater, ClockTypes, Points, Stored, Storing, Current, Ahead, Copied, Fields, NextIndex
<1>8. ASSUME NEW r \in Readers, LoadIndex(r) PROVE ClockInv'
  <2>1. ClockTypes' /\ Points' /\ Stored' /\ Current'
    BY <1>8 DEF LoadIndex, updater, ClockTypes, Points, Stored, Storing, Current, Fields, NextIndex
  <2>2. doing' = [doing EXCEPT ![r] = "usecs"] /\ place' = [place EXCEPT ![r] = index]
    BY <1>8 DEF LoadIndex
  <2>3. Ahead'
    <3>1. Distance(index, index) = 0
      BY DEF Distance, ClockTypes, Places
    <3>2. QED
      BY <1>8, <2>2, <3>1 DEF LoadIndex, updater, ClockTypes, Ahead, Storing, Distance
  <2>4. Copied'
    BY <1>8, <2>2 DEF LoadIndex, ClockTypes, Points, Current, Copied
  <2>5. QED
    BY <2>1, <2>3, <2>4
<1>9. ASSUME NEW r \in Readers, CopyField(r) PROVE ClockInv'
  <2>1. /\ doing' = [doing EXCEPT ![r] = After(doing[r], "copied")] /\ doing[r] \in Fields
        /\ timedatas[place[r]] = meant[r]
    BY <1>9 DEF CopyField, Copied
  <2>2. ClockTypes' /\ Stored' /\ Current' /\ Ahead'
    BY <1>9, <2>1 DEF CopyField, updater, ClockTypes, Stored, Storing, Current, Ahead, Fields, After, NextIndex
  <2>3. /\ DOMAIN copy' = Readers
        /\ copy'[r] = [copy[r] EXCEPT ![doing[r]] = meant[r][doing[r]]]
        /\ \A q \in Readers \ {r} : copy'[q] = copy[q]
    BY <1>9, <2>1 DEF CopyField, Points
  <2>4. /\ IsPoint(copy'[r]) /\ copy'[r][doing[r]] = meant[r][doing[r]]
        /\ \A g \in Fields \ {doing[r]} : copy'[r][g] = copy[r][g]
    <3> HIDE DEF ClockInv
    <3>1. IsPoint(copy[r])
      BY DEF Points, ClockInv
    <3>2. copy'[r] = [copy[r] EXCEPT ![doing[r]] = meant[r][doing[r]]]
      BY <2>3
    <3>3. doing[r] \in Fields
      BY <2>1
    <3>4. QED
      BY ONLY <3>1, <3>2, <3>3, OneField
  <2>5. Points'
    BY <1>9, <2>3, <2>4 DEF CopyField, updater, Points
  <2>6. Copied'
    <3> SUFFICES ASSUME NEW q \in Readers
                 PROVE  /\ doing'[q] \in Fields => timedatas[place[q]] = meant[q]
                        /\ doing'[q] \in {"ticks", "freq", "copied"} => copy'[q].usecs = meant[q].usecs
                        /\ doing'[q] \in {"freq", "copied"} => copy'[q].ticks = meant[q].ticks
                        /\ doing'[q] = "copied" => copy'[q].freq = meant[q].freq
      BY <1>9 DEF CopyField, updater, Copied
    <3>1. CASE q = r
      BY <2>1, <2>4, <3>1 DEF ClockTypes, Copied, Fields, After
    <3>2. CASE q # r
      BY <2>1, <2>3, <3>2 DEF ClockTypes, Copied
    <3>3. QED
      BY <3>1, <3>2
  <2>7. QED
    BY <2>2, <2>5, <2>6
<1>10. ASSUME NEW r \in Readers, Extrapolate(r) PROVE ClockInv'
  <2>1. /\ doing' = [doing EXCEPT ![r] = "idle"] /\ place' = [place EXCEPT ![r] = 0]
        /\ copy' = [copy EXCEPT ![r] = Unset]
        /\ UNCHANGED <<timedatas, index, updater, published, meant, stall>>
    BY <1>10 DEF Extrapolate
  <2>2. 0 \in Places /\ IsPoint(Unset)
    BY RecordIsPoint DEF Places, Unset
  <2>3. ClockTypes' /\ Points'
    BY <2>1, <2>2 DEF updater, ClockTypes, Points
  <2>4. Stored' /\ Current'
    BY <2>1 DEF updater, Stored, Storing, Current, NextIndex
  <2>5. ASSUME NEW q \in Readers, doing'[q] \in Fields \cup {"copied"}
        PROVE  doing'[q] = doing[q] /\ place'[q] = place[q] /\ copy'[q] = copy[q]
    BY <2>1, <2>5 DEF ClockTypes, Points, Fields
  <2>6. Ahead' /\ Copied'
    BY <2>1, <2>5 DEF updater, Ahead, Copied, Storing, Distance, Fields
  <2>7. QED
    BY <2>3, <2>4, <2>6
<1>11. CASE UpdateBefore \/ UpdateDay \/ UpdateAfter
  <2>1. /\ upd \in {"before", "day", "after"} /\ upd' \in {"day", "after", "usecs"}
        /\ UNCHANGED <<now, timedatas, index, prev, readers, published, meant, stall>>
    BY <1>11 DEF UpdateBefore, UpdateDay, UpdateAfter
  <2>2. /\ next' = [index |-> next'.index, point |-> next'.point] /\ next'.index = next.index
        /\ IsPoint(next'.point)
    <3>1. next = [index |-> next.index, point |-> next.point] /\ IsPoint(next.point)
      BY DEF ClockTypes, Points
    <3>2. PICK p : next' = [next EXCEPT !.point = p] /\ IsPoint(p)
      <4>1. CASE UpdateBefore
        <5>1. next' = [next EXCEPT !.point = [@ EXCEPT !["ticks"] = now]]
          BY <3>1, <4>1 DEF UpdateBefore
        <5>2. QED
          BY <3>1, <5>1, OneField DEF Fields
      <4>2. CASE UpdateDay
        <5>1. next' = [next EXCEPT !.point = [@ EXCEPT !["usecs"] = TimeOfDay(now)]]
          BY <3>1, <4>2 DEF UpdateDay
        <5>2. QED
          BY <3>1, <5>1, OneField DEF Fields
      <4>3. CASE UpdateAfter
        BY <4>3, RecordIsPoint DEF UpdateAfter, NewPoint
      <4>4. QED
        BY <1>11, <4>1, <4>2, <4>3
    <3>3. QED
      BY <3>1, <3>2
  <2>3. ClockTypes'
    BY <2>1, <2>2 DEF readers, ClockTypes, Fields
  <2>4. Points' /\ Current' /\ Copied'
    BY <2>1, <2>2 DEF readers, Points, Current, Copied
  <2>5. Stored' /\ Ahead'
    BY <2>1, <2>2 DEF readers, Stored, Ahead, Storing, Fields, NextIndex, Distance
  <2>6. QED
    BY <2>3, <2>4, <2>5
<1>12. CASE UNCHANGED clockVars
  BY <1>12 DEF clockVars, updater, readers, ClockTypes, Points, Stored, Storing, Current, Ahead, Copied, NextIndex
<1>13. QED
  BY <1>1, <1>2, <1>3, <1>4, <1>5, <1>6, <1>7, <1>8, <1>9, <1>10, <1>11, <1>12 DEF ClockNext, Update, Read

------------------------------------------------------------------------------
(* A reader computes with the point that was current when it loaded the    *)
(* index, whole, if fewer points than the ring has places are completed    *)
(* while it copies.                                                        *)
THEOREM PointsAreWhole == MaxStall < Size => (ClockSpec => []WholePoint)
<1>1. ClockInv => WholePoint
  <2> SUFFICES ASSUME ClockInv, NEW r \in Readers, doing[r] = "copied" PROVE copy[r] = meant[r]
    BY DEF WholePoint
  <2>1. QED
    BY SameFields DEF ClockInv, Points, Copied
<1>2. ASSUME MaxStall < Size PROVE ClockSpec => []WholePoint
  <2>1. ClockInv /\ [ClockNext]_clockVars => ClockInv'
    BY <1>2, ClockSteps
  <2>2. QED
    BY <1>1, <2>1, ClockStarts, PTL DEF ClockSpec
<1>3. QED
  BY <1>2
==============================================================================
