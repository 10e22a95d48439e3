----------------------------- MODULE MsgQueue ------------------------------
(***************************************************************************)
(* The pthread message queue src/utils/src/MBT_queue.c and the threads of  *)
(* the Linux build that use it: senders run the telemetry part of mdc_loop *)
(* (push, and when the queue is full dump and push again), receivers run   *)
(* mqtt_send_thread (receive, publish, free, for ever).                    *)
(*                                                                         *)
(* A step is what one thread does between two points where another thread  *)
(* can interfere: taking the mutex, one critical section, the signal sent  *)
(* after the mutex was released, one iteration of the dump loop.           *)
(* A qitem_t is named by the order of its allocation (the code never frees *)
(* one), a message by the order in which telemetry was produced.  0 is the *)
(* NULL pointer.                                                           *)
(***************************************************************************)
EXTENDS Naturals, Sequences, FiniteSets

CONSTANTS Senders,     \* threads calling MBT_mqSend and MBT_mqDumpLimit
          Receivers,   \* threads calling MBT_mqRecv
          ItemMax,     \* itemMax, REALTIME_OUT_CACHE_MAX in the program
          MsgMax,      \* bound: messages the senders produce
          TimedRecv,   \* TRUE: receivers pass timeout > 0 to MBT_mqRecv
          Spurious,    \* TRUE: pthread_cond_wait may return unsignalled
          Free         \* the owner of an unlocked mutex

ASSUME QueueAssumption ==
    /\ ItemMax \in Nat \ {0}
    /\ MsgMax \in Nat
    /\ IsFiniteSet(Senders)
    /\ Receivers # {}
    /\ Senders \cap Receivers = {}
    /\ Free \notin Senders \cup Receivers
    /\ TimedRecv \in BOOLEAN
    /\ Spurious \in BOOLEAN

NULL == 0
Items == 1..MsgMax
Threads == Senders \cup Receivers

VARIABLES
    head, tail,   \* queue_t: first and last qitem_t
    next, body,   \* qitem_t: next pointer and msg, by item
    alloc,        \* number of qitem_t allocated so far
    itemNum,      \* queue_t: itemNum
    lock,         \* the thread that owns queue_t.lock, or Free
    pc,           \* where each thread is
    tt,           \* tt[s]: the telemetry sender s is pushing
    again,        \* again[s]: s is past the dump, at its second push
    raw,          \* raw[r]: the message MBT_mqRecv gave receiver r last
    made,         \* messages produced so far
    fault         \* "none", or what ended the process: "null", "assert"

list == <<head, tail, next, body, alloc, itemNum>>
vars == <<head, tail, next, body, alloc, itemNum, lock, pc, tt, again, raw,
          made, fault>>

Goto(t, where) == pc' = [pc EXCEPT ![t] = where]
Lock(t) == lock = Free /\ lock' = t
Unlock == lock' = Free

Init == /\ head = NULL /\ tail = NULL
        /\ next = [i \in Items |-> NULL]
        /\ body = [i \in Items |-> 0]
        /\ alloc = 0 /\ itemNum = 0
        /\ lock = Free
        /\ pc = [t \in Threads |-> "idle"]
        /\ tt = [s \in Senders |-> 0]
        /\ again = [s \in Senders |-> FALSE]
        /\ raw = [r \in Receivers |-> 0]
        /\ made = 0
        /\ fault = "none"

----------------------------------------------------------------------------
(* Senders: mdc_loop, mqtt_push_data, MBT_mqSend                           *)

\* mdc_loop has built a telemetry_t and calls push_data.
Push(s) == /\ pc[s] = "idle"
           /\ made < MsgMax
           /\ made' = made + 1
           /\ tt' = [tt EXCEPT ![s] = made + 1]
           /\ Goto(s, "send_lock")
           /\ UNCHANGED <<list, lock, again, raw, fault>>

SendLock(s) == /\ pc[s] = "send_lock"
               /\ Lock(s)
               /\ Goto(s, "send_body")
               /\ UNCHANGED <<list, tt, again, raw, made, fault>>

\* Variant: the boundary taken one item too late.
FullLate == itemNum > ItemMax

Full == itemNum + 1 > ItemMax

\* Variant: the early return forgets the mutex.
SendFullKeepsLock(s) ==
    /\ pc[s] = "send_body"
    /\ Full
    /\ Goto(s, IF again[s] THEN "idle" ELSE "dump_lock")
    /\ again' = [again EXCEPT ![s] = FALSE]
    /\ UNCHANGED <<list, lock, tt, raw, made, fault>>

\* -MBT_QERROR_FULL: the first push goes on to the dump, the second gives up.
SendFull(s) == /\ pc[s] = "send_body"
               /\ Full
               /\ Unlock
               /\ Goto(s, IF again[s] THEN "idle" ELSE "dump_lock")
               /\ again' = [again EXCEPT ![s] = FALSE]
               /\ UNCHANGED <<list, tt, raw, made, fault>>

\* A fresh item becomes the tail, and the head too if there was no tail.
Enqueue(m) ==
    LET item == alloc + 1
        fresh == [next EXCEPT ![item] = NULL]
    IN
    /\ alloc' = item
    /\ body' = [body EXCEPT ![item] = m]
    /\ next' = IF tail # NULL THEN [fresh EXCEPT ![tail] = item] ELSE fresh
    /\ head' = IF tail # NULL THEN head ELSE item
    /\ tail' = item
    /\ itemNum' = itemNum + 1

SendEnqueue(s) ==
    /\ pc[s] = "send_body"
    /\ ~Full
    /\ Enqueue(tt[s])
    /\ Unlock
    /\ Goto(s, "signal")
    /\ UNCHANGED <<tt, again, raw, made, fault>>

\* The signal is sent after the mutex was released: it wakes one waiting
\* receiver, or nobody.
Waiting == {r \in Receivers : pc[r] = "wait"}

\* Variant: signal only when the queue looks to have been empty before.
SendSignalIfFirst(s) ==
    /\ pc[s] = "signal"
    /\ \/ (Waiting = {} \/ itemNum > 1) /\ Goto(s, "idle")
       \/ \E r \in Waiting :
             /\ itemNum <= 1
             /\ pc' = [pc EXCEPT ![s] = "idle", ![r] = "relock"]
    /\ again' = [again EXCEPT ![s] = FALSE]
    /\ UNCHANGED <<list, lock, tt, raw, made, fault>>

SendSignal(s) ==
    /\ pc[s] = "signal"
    /\ \/ Waiting = {} /\ Goto(s, "idle")
       \/ \E r \in Waiting :
             pc' = [pc EXCEPT ![s] = "idle", ![r] = "relock"]
    /\ again' = [again EXCEPT ![s] = FALSE]
    /\ UNCHANGED <<list, lock, tt, raw, made, fault>>

----------------------------------------------------------------------------
(* Senders: dump_cached_data, MBT_mqDumpLimit                              *)

DumpLock(s) == /\ pc[s] = "dump_lock"
               /\ Lock(s)
               /\ Goto(s, "dump_body")
               /\ UNCHANGED <<list, tt, again, raw, made, fault>>

\* do_dump accepted the front message (it was copied and freed).
DumpItem(s) == /\ pc[s] = "dump_body"
               /\ itemNum > 0
               /\ head' = next[head]
               /\ itemNum' = itemNum - 1
               /\ UNCHANGED <<tail, next, body, alloc, lock, pc, tt, again,
                              raw, made, fault>>

\* Both returns of MBT_mqDumpLimit leave the mutex locked; the sender then
\* pushes its message again.
DumpReturn(s) == /\ Goto(s, "send_lock")
                 /\ again' = [again EXCEPT ![s] = TRUE]
                 /\ UNCHANGED <<head, next, body, alloc, itemNum, lock, tt,
                                raw, made>>

\* do_dump refused the front message: it does not fit in what is left.
DumpStop(s) == /\ pc[s] = "dump_body"
               /\ itemNum > 0
               /\ DumpReturn(s)
               /\ UNCHANGED <<tail, fault>>

\* The loop drained the queue: assert(q->head == NULL), then tail = NULL.
DumpEnd(s) == /\ pc[s] = "dump_body"
              /\ itemNum = 0
              /\ DumpReturn(s)
              /\ fault' = IF head = NULL THEN fault ELSE "assert"
              /\ tail' = NULL

----------------------------------------------------------------------------
(* Receivers: mqtt_send_thread, MBT_mqRecv                                 *)

RecvLock(r) == /\ pc[r] = "idle"
               /\ Lock(r)
               /\ Goto(r, "recv_body")
               /\ UNCHANGED <<list, tt, again, raw, made, fault>>

\* itemNum < 1: wait on the condition variable, which releases the mutex.
RecvWait(r) == /\ pc[r] = "recv_body"
               /\ itemNum < 1
               /\ Unlock
               /\ Goto(r, "wait")
               /\ UNCHANGED <<list, tt, again, raw, made, fault>>

\* The wait returns without a signal: POSIX allows it, and a timed wait ends
\* with a positive ETIMEDOUT that "rc < 0" does not recognise.
RecvUnsignalled(r) == /\ pc[r] = "wait"
                      /\ Spurious \/ TimedRecv
                      /\ Goto(r, "relock")
                      /\ UNCHANGED <<list, lock, tt, again, raw, made, fault>>

\* The wait reacquires the mutex; itemNum is not looked at again.
RecvRelock(r) == /\ pc[r] = "relock"
                 /\ Lock(r)
                 /\ Goto(r, "take")
                 /\ UNCHANGED <<list, tt, again, raw, made, fault>>

AtTake(r) == \/ pc[r] = "take"
             \/ pc[r] = "recv_body" /\ itemNum >= 1

\* Variants: the tail, or the counter, is forgotten.
DequeueForgetsTail == /\ head' = next[head]
                      /\ itemNum' = itemNum - 1
                      /\ UNCHANGED <<tail, next, body, alloc>>

DequeueForgetsCount == /\ tail' = IF tail = head THEN NULL ELSE tail
                       /\ head' = next[head]
                       /\ UNCHANGED <<next, body, alloc, itemNum>>

Dequeue == /\ tail' = IF tail = head THEN NULL ELSE tail
           /\ head' = next[head]
           /\ itemNum' = itemNum - 1
           /\ UNCHANGED <<next, body, alloc>>

RecvTake(r) == /\ AtTake(r)
               /\ head # NULL
               /\ raw' = [raw EXCEPT ![r] = body[head]]
               /\ fault' = IF tail = head /\ itemNum # 1 THEN "assert" ELSE fault
               /\ Dequeue
               /\ Unlock
               /\ Goto(r, "publish")
               /\ UNCHANGED <<tt, again, made>>

\* "*msg = q->head->msg" with head = NULL ends the process.
RecvNull(r) == /\ AtTake(r)
               /\ head = NULL
               /\ fault' = "null"
               /\ UNCHANGED <<list, lock, pc, tt, again, raw, made>>

\* mqtt_publish returned and the message was freed; receive the next one.
Publish(r) == /\ pc[r] = "publish"
              /\ Goto(r, "idle")
              /\ UNCHANGED <<list, lock, tt, again, raw, made, fault>>

----------------------------------------------------------------------------
SenderStep(s) == \/ SendLock(s) \/ SendFull(s) \/ SendEnqueue(s)
                 \/ SendSignal(s)
                 \/ DumpLock(s) \/ DumpItem(s) \/ DumpStop(s) \/ DumpEnd(s)

ReceiverStep(r) == \/ RecvLock(r) \/ RecvWait(r) \/ RecvRelock(r)
                   \/ RecvTake(r) \/ RecvNull(r) \/ Publish(r)

Next == /\ fault = "none"
        /\ \/ \E s \in Senders : Push(s) \/ SenderStep(s)
           \/ \E r \in Receivers : ReceiverStep(r) \/ RecvUnsignalled(r)

Spec == Init /\ [][Next]_vars

\* The scheduler runs every thread that can run.  Nothing is assumed of the
\* environment: telemetry, spurious wakeups and timeouts need not occur.
Fairness ==
    /\ \A s \in Senders : WF_vars(fault = "none" /\ SenderStep(s))
    /\ \A r \in Receivers : WF_vars(fault = "none" /\ ReceiverStep(r))

FairSpec == Spec /\ Fairness

----------------------------------------------------------------------------
(* Properties                                                              *)

SenderPc == {"idle", "send_lock", "send_body", "signal", "dump_lock",
             "dump_body"}
ReceiverPc == {"idle", "recv_body", "wait", "relock", "take", "publish"}

ListType == /\ head \in 0..MsgMax /\ tail \in 0..MsgMax
            /\ next \in [Items -> 0..MsgMax]
            /\ body \in [Items -> 0..MsgMax]
            /\ alloc \in 0..MsgMax
            /\ itemNum \in 0..ItemMax

ThreadType == /\ lock \in Threads \cup {Free}
              /\ pc \in [Threads -> SenderPc \cup ReceiverPc]
              /\ \A s \in Senders : pc[s] \in SenderPc
              /\ \A r \in Receivers : pc[r] \in ReceiverPc
              /\ tt \in [Senders -> 0..MsgMax]
              /\ again \in [Senders -> BOOLEAN]
              /\ raw \in [Receivers -> 0..MsgMax]
              /\ made \in 0..MsgMax
              /\ fault \in {"none", "null", "assert"}

\* The types of the queue's fields and of the threads' state: itemNum never
\* passes itemMax, and no pointer leaves the allocated items.
TypeOK == ListType /\ ThreadType

Critical(t) == pc[t] \in {"send_body", "dump_body", "recv_body", "take"}

\* A sender that came back from MBT_mqDumpLimit with the mutex still locked.
Kept(s) == lock = s /\ pc[s] = "send_lock" /\ again[s]

Dumping == \E s \in Senders : pc[s] = "dump_body"

\* The linked list, its two end pointers and the counter describe one queue:
\* the items from head to tail are chained in allocation order, there are
\* itemNum of them and the last one ends the chain.  An empty queue has no
\* head, and no tail outside a dump.  (MBT_mqSend, MBT_mqRecv and
\* MBT_mqDumpLimit each update these fields one by one.)
ListShape ==
    /\ itemNum = 0 => head = NULL /\ (tail = NULL \/ Dumping)
    /\ itemNum > 0 => /\ head \in 1..alloc
                      /\ tail = alloc
                      /\ itemNum = (alloc - head) + 1
    /\ tail # NULL => tail = alloc /\ next[tail] = NULL
    /\ \A i \in Items : head # NULL /\ head <= i /\ i < alloc => next[i] = i + 1

\* The mutex is owned by the one thread that is inside a critical section, or
\* by a sender that left a dump without unlocking it.
LockOwner ==
    /\ \A t \in Threads : Critical(t) => lock = t
    /\ lock # Free => Critical(lock) \/ (lock \in Senders /\ Kept(lock))

\* The senders that hold a message they have not queued yet.
Pending == {s \in Senders : pc[s] \in {"send_lock", "send_body", "dump_lock",
                                      "dump_body"}}

\* An item is allocated for a message that was produced: the items and the
\* pending messages together never outnumber the messages.
Accounted ==
    /\ alloc + Cardinality(Pending) <= made
    /\ \A s \in Pending : tt[s] \in 1..MsgMax
    /\ \A i \in 1..alloc : body[i] \in 1..MsgMax

\* Neither assert of MBT_queue.c ever fails: a receiver that takes the item
\* which is both head and tail finds itemNum = 1, and a drained queue has no
\* head.
AssertsHold == fault # "assert"

\* A message never sits in the queue while every receiver sleeps, unless a
\* sender is still on its way to the signal: between the unlock and the
\* signal of MBT_mqSend no wakeup gets lost.
NoLostWakeup ==
    itemNum > 0 /\ Waiting = Receivers => \E s \in Senders : pc[s] = "signal"

\* The inductive invariant of MsgQueueProofs: ListShape needs the exclusion
\* LockOwner states, and Accounted is why an item is there to allocate.
IInv == TypeOK /\ LockOwner /\ Accounted /\ ListShape /\ AssertsHold

\* The linked list implements the bounded first-in first-out queue.
Contents == [k \in 1..itemNum |-> body[head + k - 1]]

Fifo == INSTANCE BoundedFifo
           WITH Msg <- 1..MsgMax, Capacity <- ItemMax,
                queue <- Contents, got <- raw

ImplementsFifo == Fifo!Spec

\* Item i has left the queue.
Gone(i) == i <= alloc /\ (itemNum = 0 \/ i < head)

\* Every message that was queued is received or dumped, unless the process
\* died or a dump left the queue locked.
Delivered ==
    \A i \in Items : i <= alloc ~> \/ Gone(i)
                                  \/ fault # "none"
                                  \/ \E s \in Senders : Kept(s)

\* What assert(q->itemNum == 1), MBT_queue.c:130, takes for granted of every
\* receiver that reaches the removal with head and tail equal.
AssertedSize ==
    \A r \in Receivers : AtTake(r) /\ head = tail => itemNum = 1

\* "try again", MBT_core.c:312: the push that follows a dump comes back.
TryAgainReturns ==
    \A s \in Senders : again[s] ~> pc[s] = "idle" \/ fault # "none"
=============================================================================
