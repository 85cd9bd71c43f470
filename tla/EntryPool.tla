------------------------------ MODULE EntryPool ------------------------------
(***************************************************************************)
(* What a fixed-size allocator promises those who allocate from it, with   *)
(* no list in it: an entry handed out is not handed out again before it is *)
(* given back, and an allocation fails only when one entry is left.        *)
(*                                                                         *)
(* AllocatorList is shown to implement this module.                        *)
(***************************************************************************)
CONSTANTS Pool,   \* the entries
          None    \* what an allocation that fails returns

VARIABLES held,   \* the entries handed out and not given back
          got     \* what the last allocation returned

pvars == <<held, got>>

Free == Pool \ held

PInit == held = {} /\ got = None

Allocate == \E e \in Free : /\ Free # {e}
                            /\ got' = e
                            /\ held' = held \cup {e}

Fail == /\ \E e \in Free : Free = {e}
        /\ got' = None
        /\ UNCHANGED held

Release == \E e \in held : held' = held \ {e} /\ UNCHANGED got

PNext == Allocate \/ Fail \/ Release

PSpec == PInit /\ [][PNext]_pvars
==============================================================================
