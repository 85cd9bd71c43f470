---------------------------- MODULE AllocatorList ----------------------------
(***************************************************************************)
(* lib/libshared/AllocatorList.h: an array of equal entries handed out and *)
(* taken back through a list that is threaded through the entries that are *)
(* free.  The link of an entry is the tail of the user's own data, so      *)
(* whoever holds an entry overwrites it at will.                           *)
(*                                                                         *)
(* One call is one step: nothing in the code guards the list, so those who *)
(* share it must take turns.                                               *)
(*                                                                         *)
(* `held' and `order' are not in the code: which entries are handed out,   *)
(* and the free ones in the order in which they came free.                 *)
(***************************************************************************)
EXTENDS Integers, Sequences, FiniteSets

CONSTANT Overall   \* _overall: how many entries the array has
ASSUME OverallAssumption == Overall \in Nat \ {0}

Entries == 1 .. Overall
Null == 0
Links == Entries \cup {Null}

VARIABLES begin,    \* _begin: the entry that is handed out next
          end,      \* _end: the entry that was given back last
          next,     \* Entry::next of every entry
          count,    \* _count
          got,      \* what the last get returned
          held,
          order

vars == <<begin, end, next, count, got, held, order>>

------------------------------------------------------------------------------
Init == /\ begin = 1
        /\ end = Overall
        /\ next = [e \in Entries |-> IF e = Overall THEN Null ELSE e + 1]
        /\ count = Overall
        /\ got = Null
        /\ held = {}
        /\ order = [i \in 1 .. Overall |-> i]

(* Mutant of the test in get: the last entry may be handed out too.        *)
LastEntryGoesOut(e) == e = Null

(* `if (!entry->next) return nullptr'                                      *)
LastEntry(e) == next[e] = Null

GetEntry ==
    /\ ~LastEntry(begin)
    /\ begin' = next[begin]
    /\ count' = count - 1
    /\ got' = begin
    /\ held' = held \cup {begin}
    /\ order' = Tail(order)
    /\ UNCHANGED <<end, next>>

GetNothing ==
    /\ LastEntry(begin)
    /\ got' = Null
    /\ UNCHANGED <<begin, end, next, count, held, order>>

(* Mutant of put: the link of the entry is not reset.                      *)
LinkedUnreset(e) == [next EXCEPT ![end] = e]

(* `entry->next = nullptr; _end->next = entry'                             *)
Linked(e) == [next EXCEPT ![e] = Null, ![end] = e]

(* A user gives back what it holds; that it holds it is its own business,  *)
(* the assertion of put only wants an entry of the array.                  *)
Put(e) ==
    /\ e \in held
    /\ next' = Linked(e)
    /\ end' = e
    /\ count' = count + 1
    /\ held' = held \ {e}
    /\ order' = Append(order, e)
    /\ UNCHANGED <<begin, got>>

(* A user writes to an entry that it holds, over its link too.             *)
Write(e, v) ==
    /\ e \in held
    /\ next' = [next EXCEPT ![e] = v]
    /\ UNCHANGED <<begin, end, count, got, held, order>>

Next == \/ GetEntry
        \/ GetNothing
        \/ \E e \in Entries : Put(e)
        \/ \E e \in Entries, v \in Links : Write(e, v)

Spec == Init /\ [][Next]_vars

------------------------------------------------------------------------------
(* The shape of the state.                                                 *)
TypeOK == /\ begin \in Entries
          /\ end \in Entries
          /\ next \in [Entries -> Links]
          /\ count \in 0 .. Overall
          /\ got \in Links
          /\ held \subseteq Entries
          /\ order \in Seq(Entries)

(* Whatever the holders write, following the links from _begin visits      *)
(* every free entry once, in the order in which they came free, and ends   *)
(* at _end, the only free entry whose link is null: the list of            *)
(* AllocatorList.h never runs into memory that a user owns.                *)
Chain == /\ order # << >>
         /\ begin = order[1]
         /\ end = order[Len(order)]
         /\ \A i \in 1 .. Len(order) - 1 : next[order[i]] = order[i + 1]
         /\ next[end] = Null
         /\ \A i, j \in 1 .. Len(order) : order[i] = order[j] => i = j
         /\ {order[i] : i \in 1 .. Len(order)} = Entries \ held

(* _count is the number of entries that get may still return, plus one.    *)
CountExact == count = Cardinality(Entries \ held)

(* No entry is handed out twice, whoever writes over what, and get fails   *)
(* exactly when one entry is left.                                         *)
Pool == INSTANCE EntryPool WITH Pool <- Entries, None <- Null
IsPool == Pool!PSpec
==============================================================================
