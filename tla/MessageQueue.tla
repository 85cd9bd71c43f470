---------------------------- MODULE MessageQueue ----------------------------
(***************************************************************************)
(* What a shared circular buffer promises the process that pushes packets  *)
(* and the process that pops them, with no byte, index or segment in it: a *)
(* first-in first-out queue of messages which may refuse a message, but    *)
(* not a small one when nothing is queued.                                 *)
(*                                                                         *)
(* CycleBuffer is shown to implement this module.                          *)
(***************************************************************************)
EXTENDS Integers, Sequences

CONSTANTS Messages,     \* the messages that may be pushed
          SmallMessages \* those that an empty queue must take

VARIABLES queue,    \* the messages pushed and not yet popped, oldest first
          result    \* what the last call returned

qvars == <<queue, result>>

Refused  == [call |-> "write", ok |-> FALSE]
Accepted == [call |-> "write", ok |-> TRUE]
Nothing  == [call |-> "read", ok |-> FALSE]
Got(m)   == [call |-> "read", ok |-> TRUE, data |-> m]
Cleared  == [call |-> "clear", ok |-> TRUE]

QInit == /\ queue = << >>
         /\ result = Cleared

Put(m) == /\ queue' = Append(queue, m)
          /\ result' = Accepted

Refuse(m) == /\ queue # << >> \/ m \notin SmallMessages
             /\ result' = Refused
             /\ UNCHANGED queue

Get == /\ queue # << >>
       /\ queue' = Tail(queue)
       /\ result' = Got(Head(queue))

GetNothing == /\ queue = << >>
              /\ result' = Nothing
              /\ UNCHANGED queue

Discard == /\ queue' = << >>
           /\ result' = Cleared

QNext == \/ \E m \in Messages : Put(m) \/ Refuse(m)
         \/ Get
         \/ GetNothing
         \/ Discard

QSpec == QInit /\ [][QNext]_qvars
=============================================================================
