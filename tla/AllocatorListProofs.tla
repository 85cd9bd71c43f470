------------------------- MODULE AllocatorListProofs -------------------------
(***************************************************************************)
(* Proofs about the free list of AllocatorList for every number of entries *)
(* and whatever the users write over the links of the entries they hold.   *)
(*                                                                         *)
(* The argument: the links that matter are those of the free entries, and  *)
(* they spell `order' (Chain); a user can only reach the links of entries  *)
(* outside it, and put appends an entry from outside it at its end.        *)
(***************************************************************************)
EXTENDS AllocatorList, FiniteSetTheorems, SequenceTheorems, TLAPS

IInv == TypeOK /\ Chain /\ CountExact

------------------------------------------------------------------------------
LEMMA MoreThanOne ==
    ASSUME NEW n \in Nat, 1 <= n, n # 1
    PROVE  2 <= n /\ 1 \in 1 .. n - 1 /\ {1, 2} \subseteq 1 .. n
  OBVIOUS

(* What Chain says of a free entry.                                        *)
LEMMA FreeEntries ==
    ASSUME TypeOK, Chain
    PROVE  /\ Len(order) \in Nat /\ 1 <= Len(order)
           /\ begin \in Entries \ held
           /\ end \in Entries \ held
           /\ \A i \in 1 .. Len(order) : order[i] \in Entries \ held
           /\ \A e \in Entries \ held : \E i \in 1 .. Len(order) : order[i] = e
           /\ LastEntry(begin) <=> Len(order) = 1
<1>1. Len(order) \in Nat /\ 1 <= Len(order)
  BY EmptySeq, LenProperties DEF TypeOK, Chain
<1>2. \A i \in 1 .. Len(order) : order[i] \in Entries \ held
  BY DEF Chain
<1>3. \A e \in Entries \ held : \E i \in 1 .. Len(order) : order[i] = e
  BY DEF Chain
<1>4. begin \in Entries \ held /\ end \in Entries \ held
  BY <1>1, <1>2 DEF Chain
<1>5. Len(order) = 1 => LastEntry(begin)
  BY DEF Chain, LastEntry
<1>6. Len(order) # 1 => ~LastEntry(begin)
  <2> SUFFICES ASSUME Len(order) # 1 PROVE ~LastEntry(begin)
    OBVIOUS
  <2>1. 1 \in 1 .. Len(order) - 1 /\ 2 \in 1 .. Len(order)
    BY <1>1, MoreThanOne
  <2>2. next[begin] = order[2]
    BY <2>1 DEF Chain
  <2>3. order[2] # Null
    BY <1>2, <2>1, OverallAssumption DEF Entries, Null
  <2>4. QED
    BY <2>2, <2>3 DEF LastEntry
<1>7. QED
  BY <1>1, <1>2, <1>3, <1>4, <1>5, <1>6

LEMMA FreeIsFinite ==
    ASSUME NEW H \in SUBSET Entries
    PROVE  IsFiniteSet(Entries \ H) /\ Cardinality(Entries \ H) \in 0 .. Overall
<1>1. IsFiniteSet(Entries) /\ Cardinality(Entries) = Overall
  BY FS_Interval, OverallAssumption DEF Entries
<1>2. IsFiniteSet(Entries \ H) /\ Cardinality(Entries \ H) <= Overall
  BY <1>1, FS_Subset
<1>3. Cardinality(Entries \ H) \in Nat
  BY <1>2, FS_CardinalityType
<1>4. QED
  BY <1>2, <1>3, OverallAssumption

------------------------------------------------------------------------------
LEMMA InitEstablishes == Init => IInv
<1> SUFFICES ASSUME Init PROVE IInv
  OBVIOUS
<1> USE OverallAssumption
<1>1. /\ order \in Seq(Entries) /\ Len(order) = Overall
      /\ \A i \in 1 .. Overall : order[i] = i
  <2>1. \A i \in 1 .. Overall : i \in Entries
    BY DEF Entries
  <2>2. QED
    BY <2>1 DEF Init
<1>2. TypeOK
  BY <1>1 DEF Init, TypeOK, Entries, Links, Null
<1>3. Chain
  <2>1. order # << >>
    BY <1>1
  <2>2. begin = order[1] /\ end = order[Len(order)] /\ next[end] = Null
    BY <1>1 DEF Init, Entries
  <2>3. \A i \in 1 .. Len(order) - 1 : next[order[i]] = order[i + 1]
    BY <1>1 DEF Init, Entries
  <2>4. {order[i] : i \in 1 .. Len(order)} = Entries \ held
    BY <1>1 DEF Init, Entries
  <2>5. \A i, j \in 1 .. Len(order) : order[i] = order[j] => i = j
    BY <1>1
  <2>6. QED
    BY <2>1, <2>2, <2>3, <2>4, <2>5 DEF Chain
<1>4. CountExact
  <2>1. Entries \ held = Entries
    BY DEF Init
  <2>2. QED
    BY <2>1, FS_Interval DEF Init, CountExact, Entries
<1>5. QED
  BY <1>2, <1>3, <1>4 DEF IInv

(* An allocation takes the first entry off the chain.                      *)
LEMMA GetKeeps ==
    ASSUME IInv, GetEntry
    PROVE  IInv'
<1> DEFINE L == Len(order)
<1>0. TypeOK /\ Chain /\ CountExact
  BY DEF IInv
<1>1. /\ L \in Nat /\ 2 <= L
      /\ begin \in Entries \ held
      /\ \A i \in 1 .. L : order[i] \in Entries \ held
  BY <1>0, FreeEntries, MoreThanOne DEF GetEntry
<1>2. /\ order' \in Seq(Entries) /\ Len(order') = L - 1
      /\ \A i \in 1 .. L - 1 : order'[i] = order[i + 1]
  BY <1>0, <1>1, HeadTailProperties DEF GetEntry, TypeOK
<1>3. begin' = order[2]
  <2>1. 1 \in 1 .. L - 1
    BY <1>1
  <2>2. next[order[1]] = order[2]
    BY <1>0, <2>1 DEF Chain
  <2>3. QED
    BY <1>0, <2>2 DEF GetEntry, Chain
<1>4. held' \in SUBSET Entries
  BY <1>0, <1>1 DEF GetEntry, TypeOK
<1>5. count' = Cardinality((Entries \ held)')
  <2>1. (Entries \ held)' = (Entries \ held) \ {begin}
    BY DEF GetEntry, Entries
  <2>2. Cardinality((Entries \ held) \ {begin}) = Cardinality(Entries \ held) - 1
    BY <1>0, <1>1, FreeIsFinite, FS_RemoveElement DEF TypeOK
  <2>3. QED
    BY <1>0, <2>1, <2>2 DEF GetEntry, CountExact
<1>6. TypeOK'
  <2>1. begin' \in Entries
    <3>1. 2 \in 1 .. L
      BY <1>1
    <3>2. QED
      BY <1>1, <1>3, <3>1
  <2>2. got' \in Links
    BY <1>1 DEF GetEntry, Links
  <2>3. end' \in Entries /\ next' \in [Entries -> Links]
    BY <1>0 DEF GetEntry, TypeOK
  <2>4. count' \in 0 .. Overall
    BY <1>4, <1>5, FreeIsFinite DEF Entries
  <2>5. QED
    BY <1>2, <1>4, <2>1, <2>2, <2>3, <2>4 DEF TypeOK, Entries, Links
<1>7. Chain'
  <2>1. order' # << >> /\ begin' = order'[1]
    BY <1>1, <1>2, <1>3
  <2>2. end' = order'[Len(order')] /\ next'[end'] = Null
    BY <1>0, <1>1, <1>2 DEF GetEntry, Chain
  <2>3. ASSUME NEW i \in 1 .. Len(order') - 1
        PROVE  next'[order'[i]] = order'[i + 1]
    <3>1. i + 1 \in 1 .. L - 1 /\ i \in 1 .. L - 1
      BY <1>1, <1>2
    <3>2. QED
      BY <1>0, <1>2, <3>1 DEF GetEntry, Chain
  <2>4. ASSUME NEW i \in 1 .. Len(order'), NEW j \in 1 .. Len(order'), order'[i] = order'[j]
        PROVE  i = j
    <3>1. i + 1 \in 1 .. L /\ j + 1 \in 1 .. L
      BY <1>1, <1>2
    <3>2. order[i + 1] = order[j + 1]
      BY <1>1, <1>2, <2>4
    <3>3. i + 1 = j + 1
      BY <1>0, <3>1, <3>2 DEF Chain
    <3>4. QED
      BY <1>1, <1>2, <3>3
  <2>5. {order'[i] : i \in 1 .. Len(order')} = (Entries \ held)'
    <3>1. ASSUME NEW i \in 1 .. Len(order')
          PROVE  order'[i] \in (Entries \ held)'
      <4>1. i + 1 \in 1 .. L /\ 1 \in 1 .. L /\ i + 1 # 1
        BY <1>1, <1>2
      <4>2. order[i + 1] # order[1]
        BY <1>0, <4>1 DEF Chain
      <4>3. QED
        BY <1>0, <1>1, <1>2, <4>1, <4>2 DEF GetEntry, Chain, Entries
    <3>2. ASSUME NEW e \in (Entries \ held)'
          PROVE  \E i \in 1 .. Len(order') : order'[i] = e
      <4>1. e \in Entries \ held /\ e # begin
        BY <3>2 DEF GetEntry, Entries
      <4>2. PICK i \in 1 .. L : order[i] = e
        BY <1>0, <4>1, FreeEntries
      <4>3. i # 1
        BY <1>0, <4>1, <4>2 DEF Chain
      <4>4. i - 1 \in 1 .. L - 1 /\ order'[i - 1] = e
        BY <1>1, <1>2, <4>2, <4>3
      <4>5. QED
        BY <1>2, <4>4
    <3>3. QED
      BY <3>1, <3>2
  <2>6. QED
    BY <2>1, <2>2, <2>3, <2>4, <2>5 DEF Chain
<1>8. QED
  BY <1>5, <1>6, <1>7 DEF IInv, CountExact

(* A release puts an entry from outside the chain at its end.              *)
LEMMA PutKeeps ==
    ASSUME IInv, NEW e \in Entries, Put(e)
    PROVE  IInv'
<1> DEFINE L == Len(order)
<1>0. TypeOK /\ Chain /\ CountExact /\ e \in held
  BY DEF IInv, Put
<1>1. /\ L \in Nat /\ 1 <= L
      /\ begin \in Entries \ held
      /\ end \in Entries \ held /\ end # e
      /\ \A i \in 1 .. L : order[i] \in Entries \ held
  BY <1>0, FreeEntries
<1>2. /\ order' \in Seq(Entries) /\ Len(order') = L + 1
      /\ \A i \in 1 .. L : order'[i] = order[i]
      /\ order'[L + 1] = e
  BY <1>0, AppendProperties DEF Put, TypeOK
<1>3. /\ next' \in [Entries -> Links]
      /\ next'[e] = Null /\ next'[end] = e
      /\ \A x \in Entries \ {e, end} : next'[x] = next[x]
  BY <1>0, <1>1 DEF Put, Linked, TypeOK, Links
<1>4. held' \in SUBSET Entries
  BY <1>0 DEF Put, TypeOK
<1>5. count' = Cardinality((Entries \ held)')
  <2>1. (Entries \ held)' = (Entries \ held) \cup {e}
    BY <1>0 DEF Put, Entries, TypeOK
  <2>2. Cardinality((Entries \ held) \cup {e}) = Cardinality(Entries \ held) + 1
    BY <1>0, FreeIsFinite, FS_AddElement DEF TypeOK
  <2>3. QED
    BY <1>0, <2>1, <2>2 DEF Put, CountExact
<1>6. TypeOK'
  <2>1. begin' \in Entries /\ end' \in Entries /\ got' \in Links
    BY <1>0 DEF Put, TypeOK
  <2>2. count' \in 0 .. Overall
    BY <1>4, <1>5, FreeIsFinite DEF Entries
  <2>3. QED
    BY <1>2, <1>3, <1>4, <2>1, <2>2 DEF TypeOK, Entries, Links
<1>7. Chain'
  <2>1. order' # << >> /\ begin' = order'[1]
    BY <1>0, <1>1, <1>2 DEF Put, Chain
  <2>2. end' = order'[Len(order')] /\ next'[end'] = Null
    BY <1>2, <1>3 DEF Put
  <2>3. ASSUME NEW i \in 1 .. Len(order') - 1
        PROVE  next'[order'[i]] = order'[i + 1]
    <3>1. CASE i = L
      BY <1>0, <1>1, <1>2, <1>3, <3>1 DEF Chain
    <3>2. CASE i # L
      <4>1. i \in 1 .. L - 1 /\ i \in 1 .. L /\ i + 1 \in 1 .. L /\ L \in 1 .. L
        BY <1>1, <1>2, <3>2
      <4>2. order[i] # end /\ order[i] # e /\ order[i] \in Entries
        BY <1>0, <1>1, <3>2, <4>1 DEF Chain
      <4>3. next[order[i]] = order[i + 1]
        BY <1>0, <4>1 DEF Chain
      <4>4. QED
        BY <1>2, <1>3, <4>1, <4>2, <4>3
    <3>3. QED
      BY <3>1, <3>2
  <2>4. ASSUME NEW i \in 1 .. Len(order'), NEW j \in 1 .. Len(order'), order'[i] = order'[j]
        PROVE  i = j
    <3>1. CASE i \in 1 .. L /\ j \in 1 .. L
      BY <1>0, <1>2, <2>4, <3>1 DEF Chain
    <3>2. CASE i = L + 1 \/ j = L + 1
      BY <1>0, <1>1, <1>2, <2>4, <3>2
    <3>3. QED
      BY <1>1, <1>2, <3>1, <3>2
  <2>5. {order'[i] : i \in 1 .. Len(order')} = (Entries \ held)'
    <3>1. (Entries \ held)' = (Entries \ held) \cup {e}
      BY <1>0 DEF Put, Entries, TypeOK
    <3>2. ASSUME NEW i \in 1 .. Len(order')
          PROVE  order'[i] \in (Entries \ held) \cup {e}
      BY <1>1, <1>2
    <3>3. ASSUME NEW x \in (Entries \ held) \cup {e}
          PROVE  \E i \in 1 .. Len(order') : order'[i] = x
      <4>1. CASE x = e
        BY <1>1, <1>2, <4>1
      <4>2. CASE x \in Entries \ held
        <5>1. PICK i \in 1 .. L : order[i] = x
          BY <1>0, <4>2, FreeEntries
        <5>2. QED
          BY <1>1, <1>2, <5>1
      <4>3. QED
        BY <4>1, <4>2
    <3>4. QED
      BY <3>1, <3>2, <3>3
  <2>6. QED
    BY <2>1, <2>2, <2>3, <2>4, <2>5 DEF Chain
<1>8. QED
  BY <1>5, <1>6, <1>7 DEF IInv, CountExact

(* What a holder writes over a link is outside the chain.                  *)
LEMMA WriteKeeps ==
    ASSUME IInv, NEW e \in Entries, NEW v \in Links, Write(e, v)
    PROVE  IInv'
<1>0. TypeOK /\ Chain /\ CountExact /\ e \in held
  BY DEF IInv, Write
<1>1. /\ \A i \in 1 .. Len(order) : order[i] \in Entries \ held
      /\ end \in Entries \ held
  BY <1>0, FreeEntries
<1>2. /\ next' \in [Entries -> Links]
      /\ \A x \in Entries \ held : next'[x] = next[x]
  BY <1>0 DEF Write, TypeOK
<1>3. TypeOK'
  BY <1>0, <1>2 DEF Write, TypeOK, Entries, Links
<1>4. Chain'
  <2>1. \A i \in 1 .. Len(order) - 1 : next'[order[i]] = order[i + 1]
    <3>1. TAKE i \in 1 .. Len(order) - 1
    <3>2. i \in 1 .. Len(order)
      BY <1>0, LenProperties DEF TypeOK
    <3>3. QED
      BY <1>0, <1>1, <1>2, <3>2 DEF Chain
  <2>2. next'[end] = Null
    BY <1>0, <1>1, <1>2 DEF Chain
  <2>3. QED
    BY <1>0, <2>1, <2>2 DEF Write, Chain, Entries
<1>5. CountExact'
  BY <1>0 DEF Write, CountExact, Entries
<1>6. QED
  BY <1>3, <1>4, <1>5 DEF IInv

------------------------------------------------------------------------------
(* In every reachable state of an allocator of any size the free list is   *)
(* intact and _count is exact.                                             *)
THEOREM Invariance == Spec => []IInv
<1>1. IInv /\ [Next]_vars => IInv'
  <2> SUFFICES ASSUME IInv, [Next]_vars PROVE IInv'
    OBVIOUS
  <2>1. CASE GetEntry
    BY <2>1, GetKeeps
  <2>2. CASE GetNothing
    BY <2>2 DEF GetNothing, IInv, TypeOK, Chain, CountExact, Entries, Links, Null
  <2>3. ASSUME NEW e \in Entries, Put(e) PROVE IInv'
    BY <2>3, PutKeeps
  <2>4. ASSUME NEW e \in Entries, NEW v \in Links, Write(e, v) PROVE IInv'
    BY <2>4, WriteKeeps
  <2>5. CASE UNCHANGED vars
    BY <2>5 DEF vars, IInv, TypeOK, Chain, CountExact, Entries, Links
  <2>6. QED
    BY <2>1, <2>2, <2>3, <2>4, <2>5 DEF Next
<1>2. QED
  BY <1>1, InitEstablishes, PTL DEF Spec

(* The links of the free entries are never touched by those who hold the   *)
(* others: the list keeps every free entry, once.                          *)
THEOREM FreeListIntact == Spec => [](Chain /\ CountExact)
<1>1. IInv => Chain /\ CountExact
  BY DEF IInv
<1>2. QED
  BY <1>1, Invariance, PTL

(* AllocatorList hands no entry out twice and fails only on its last one.  *)
THEOREM Implementation == Spec => IsPool
<1>1. Init => Pool!PInit
  BY DEF Init, Pool!PInit
<1>2. IInv /\ [Next]_vars => [Pool!PNext]_(Pool!pvars)
  <2> SUFFICES ASSUME IInv, [Next]_vars PROVE [Pool!PNext]_(Pool!pvars)
    OBVIOUS
  <2>0. /\ Len(order) \in Nat /\ 1 <= Len(order)
        /\ begin \in Pool!Free
        /\ \A e \in Pool!Free : \E i \in 1 .. Len(order) : order[i] = e
        /\ LastEntry(begin) <=> Len(order) = 1
    BY FreeEntries DEF IInv, Pool!Free
  <2>1. CASE GetEntry
    <3>1. 2 \in 1 .. Len(order) /\ 1 \in 1 .. Len(order)
      BY <2>0, <2>1, MoreThanOne DEF GetEntry
    <3>2. order[2] \in Pool!Free /\ order[2] # begin
      BY <3>1 DEF IInv, Chain, Pool!Free
    <3>3. QED
      BY <2>0, <2>1, <3>2 DEF GetEntry, Pool!Allocate, Pool!PNext
  <2>2. CASE GetNothing
    <3>1. begin = order[1] /\ Len(order) = 1
      BY <2>0, <2>2 DEF GetNothing, IInv, Chain
    <3>2. \A e \in Pool!Free : e = begin
      BY <2>0, <3>1
    <3>3. Pool!Free = {begin}
      BY <2>0, <3>2
    <3>4. QED
      BY <2>0, <2>2, <3>3 DEF GetNothing, Pool!Fail, Pool!PNext
  <2>3. ASSUME NEW e \in Entries, Put(e) PROVE Pool!Release
    BY <2>3 DEF Put, Pool!Release
  <2>4. ASSUME NEW e \in Entries, NEW v \in Links, Write(e, v) PROVE UNCHANGED Pool!pvars
    BY <2>4 DEF Write, Pool!pvars
  <2>5. CASE UNCHANGED vars
    BY <2>5 DEF vars, Pool!pvars
  <2>6. QED
    BY <2>1, <2>2, <2>3, <2>4, <2>5 DEF Next, Pool!PNext
<1>3. QED
  BY <1>1, <1>2, Invariance, PTL DEF Spec, IsPool, Pool!PSpec
==============================================================================
