---------------------------- MODULE BoundedFifo ----------------------------
(***************************************************************************)
(* What the message queue of src/utils/src/MBT_queue.c promises: a bounded *)
(* first-in first-out buffer.  A message is put at the back while there is *)
(* room, a receiver gets the message at the front, and a dump discards the *)
(* front message.  No message is duplicated, reordered or invented.        *)
(***************************************************************************)
EXTENDS Naturals, Sequences

CONSTANTS Msg,         \* the messages
          Receivers,   \* the receiving threads
          Capacity     \* the most messages the buffer ever holds

VARIABLES queue,       \* the buffered messages, oldest first
          got          \* got[r]: the message receiver r was handed last

fifoVars == <<queue, got>>

Init == /\ queue = <<>>
        /\ got \in [Receivers -> Msg \cup {0}]

Put(m) == /\ Len(queue) < Capacity
          /\ queue' = Append(queue, m)
          /\ UNCHANGED got

Get(r) == /\ queue # <<>>
          /\ got' = [got EXCEPT ![r] = Head(queue)]
          /\ queue' = Tail(queue)

Drop == /\ queue # <<>>
        /\ queue' = Tail(queue)
        /\ UNCHANGED got

Next == \/ \E m \in Msg : Put(m)
        \/ \E r \in Receivers : Get(r)
        \/ Drop

Spec == Init /\ [][Next]_fifoVars
=============================================================================
