--------------------------- MODULE MsgQueueProofs ---------------------------
(***************************************************************************)
(* What MsgQueue guarantees for any number of threads, any capacity and    *)
(* any number of messages.  The induction is on IInv: the list's shape can *)
(* only be kept because one thread at a time is inside a critical section, *)
(* and an item can only be allocated because its message was produced.     *)
(***************************************************************************)
EXTENDS MsgQueue, FiniteSetTheorems, SequenceTheorems, TLAPS

----------------------------------------------------------------------------
(* The pending senders are finitely many.                                  *)

\* Pending messages are counted by a natural number; a sender that starts to
\* push adds one, a sender that queues its message or gives up removes one.
LEMMA PendingCount ==
    /\ IsFiniteSet(Pending)
    /\ Cardinality(Pending) \in Nat
    /\ \A s \in Pending : Cardinality(Pending) > 0
<1>1. IsFiniteSet(Senders)
  BY QueueAssumption
<1>2. IsFiniteSet(Pending)
  <2>1. Pending \in SUBSET Senders
    BY DEF Pending
  <2> QED
    BY <1>1, <2>1, FS_Subset
<1>3. Cardinality(Pending) \in Nat
  BY <1>2, FS_CardinalityType
<1>4. Cardinality(Pending) = 0 <=> Pending = {}
  BY <1>2, FS_EmptySet
<1> QED
  BY <1>2, <1>3, <1>4

\* The initial states satisfy the inductive invariant.
LEMMA InitInv == Init => IInv
<1> SUFFICES ASSUME Init PROVE IInv
  OBVIOUS
<1> USE QueueAssumption
<1>1. TypeOK
  BY DEF Init, TypeOK, ListType, ThreadType, Items, NULL, Threads, SenderPc,
         ReceiverPc
<1>2. LockOwner
  BY DEF Init, LockOwner, Critical, Threads
<1>3. Accounted
  <2>1. Pending = {}
    BY DEF Init, Pending, Threads
  <2>2. Cardinality(Pending) = 0
    BY <2>1, FS_EmptySet
  <2> QED
    BY <2>1, <2>2 DEF Init, Accounted
<1>4. ListShape
  BY DEF Init, ListShape, NULL, Items
<1>5. AssertsHold
  BY DEF Init, AssertsHold
<1> QED
  BY <1>1, <1>2, <1>3, <1>4, <1>5 DEF IInv

\* An item can be allocated for every pending message.
LEMMA Room ==
    ASSUME IInv, NEW s \in Senders, s \in Pending
    PROVE  alloc + 1 \in Items /\ tt[s] \in 1..MsgMax
<1>1. Cardinality(Pending) \in Nat /\ Cardinality(Pending) > 0
  BY PendingCount
<1>2. alloc \in Nat /\ made \in 0..MsgMax /\ MsgMax \in Nat
  BY QueueAssumption DEF IInv, TypeOK, ListType, ThreadType
<1>3. alloc + Cardinality(Pending) <= made
  BY DEF IInv, Accounted
<1> QED
  BY <1>1, <1>2, <1>3 DEF Items, IInv, Accounted

----------------------------------------------------------------------------
(* One lemma per part of the invariant, one step per action.               *)

\* Every action keeps the threads' state within its types.
LEMMA ThreadTypeStep == IInv /\ [Next]_vars => ThreadType'
<1> SUFFICES ASSUME IInv, [Next]_vars PROVE ThreadType'
  OBVIOUS
<1> USE QueueAssumption DEF Threads, SenderPc, ReceiverPc
<1>0. ThreadType /\ ListType /\ ListShape
  BY DEF IInv, TypeOK
<1>1. ASSUME NEW s \in Senders, Push(s) PROVE ThreadType'
  BY <1>0, <1>1 DEF ThreadType, Push, Goto
<1>2. ASSUME NEW s \in Senders, SendLock(s) PROVE ThreadType'
  BY <1>0, <1>2 DEF ThreadType, SendLock, Lock, Goto
<1>3. ASSUME NEW s \in Senders, SendFull(s) PROVE ThreadType'
  BY <1>0, <1>3 DEF ThreadType, SendFull, Unlock, Goto
<1>4. ASSUME NEW s \in Senders, SendEnqueue(s) PROVE ThreadType'
  BY <1>0, <1>4 DEF ThreadType, SendEnqueue, Unlock, Goto
<1>5. ASSUME NEW s \in Senders, SendSignal(s) PROVE ThreadType'
  <2>1. CASE Goto(s, "idle")
    BY <1>0, <1>5, <2>1 DEF ThreadType, SendSignal, Goto
  <2>2. ASSUME NEW r \in Waiting,
               pc' = [pc EXCEPT ![s] = "idle", ![r] = "relock"]
        PROVE  ThreadType'
    BY <1>0, <1>5, <2>2 DEF ThreadType, SendSignal, Waiting
  <2> QED
    BY <1>5, <2>1, <2>2 DEF SendSignal
<1>6. ASSUME NEW s \in Senders, DumpLock(s) PROVE ThreadType'
  BY <1>0, <1>6 DEF ThreadType, DumpLock, Lock, Goto
<1>7. ASSUME NEW s \in Senders, DumpItem(s) PROVE ThreadType'
  BY <1>0, <1>7 DEF ThreadType, DumpItem
<1>8. ASSUME NEW s \in Senders, DumpStop(s) PROVE ThreadType'
  BY <1>0, <1>8 DEF ThreadType, DumpStop, DumpReturn, Goto
<1>9. ASSUME NEW s \in Senders, DumpEnd(s) PROVE ThreadType'
  BY <1>0, <1>9 DEF ThreadType, DumpEnd, DumpReturn, Goto
<1>10. ASSUME NEW r \in Receivers, RecvLock(r) PROVE ThreadType'
  BY <1>0, <1>10 DEF ThreadType, RecvLock, Lock, Goto
<1>11. ASSUME NEW r \in Receivers, RecvWait(r) PROVE ThreadType'
  BY <1>0, <1>11 DEF ThreadType, RecvWait, Unlock, Goto
<1>12. ASSUME NEW r \in Receivers, RecvRelock(r) PROVE ThreadType'
  BY <1>0, <1>12 DEF ThreadType, RecvRelock, Lock, Goto
<1>13. ASSUME NEW r \in Receivers, RecvTake(r) PROVE ThreadType'
  <2>1. body[head] \in 0..MsgMax
    BY <1>0, <1>13 DEF RecvTake, ListType, Items, NULL
  <2> QED
    BY <1>0, <1>13, <2>1 DEF ThreadType, RecvTake, Unlock, Goto
<1>14. ASSUME NEW r \in Receivers, RecvNull(r) PROVE ThreadType'
  BY <1>0, <1>14 DEF ThreadType, RecvNull
<1>15. ASSUME NEW r \in Receivers, Publish(r) PROVE ThreadType'
  BY <1>0, <1>15 DEF ThreadType, Publish, Goto
<1>16. ASSUME NEW r \in Receivers, RecvUnsignalled(r) PROVE ThreadType'
  BY <1>0, <1>16 DEF ThreadType, RecvUnsignalled, Goto
<1>17. CASE UNCHANGED vars
  BY <1>0, <1>17 DEF ThreadType, vars
<1> QED
  BY <1>1, <1>2, <1>3, <1>4, <1>5, <1>6, <1>7, <1>8, <1>9, <1>10, <1>11,
     <1>12, <1>13, <1>14, <1>15, <1>16, <1>17
     DEF Next, SenderStep, ReceiverStep

\* Only four actions write the list's fields.
LEMMA ListSteps ==
    [Next]_vars =>
        \/ \E s \in Senders : SendEnqueue(s) \/ DumpItem(s) \/ DumpEnd(s)
        \/ \E r \in Receivers : RecvTake(r)
        \/ UNCHANGED list
BY DEF Next, SenderStep, ReceiverStep, Push, SendLock, SendFull, SendSignal,
       DumpLock, DumpStop, DumpReturn, RecvLock, RecvWait, RecvRelock, RecvNull,
       Publish, RecvUnsignalled, list, vars

\* Writing one entry keeps a function within its type.
LEMMA Update ==
    ASSUME NEW A, NEW B, NEW f \in [A -> B], NEW a, NEW b \in B
    PROVE  [f EXCEPT ![a] = b] \in [A -> B]
OBVIOUS

\* What queueing a message does to the list, field by field.
LEMMA EnqueueEffect ==
    ASSUME IInv, NEW s \in Senders, SendEnqueue(s)
    PROVE  /\ alloc + 1 \in Items /\ tt[s] \in 1..MsgMax
           /\ itemNum' = itemNum + 1 /\ itemNum + 1 <= ItemMax
           /\ alloc' = alloc + 1 /\ tail' = alloc + 1
           /\ head' = IF tail # NULL THEN head ELSE alloc + 1
           /\ body' = [body EXCEPT ![alloc + 1] = tt[s]]
           /\ next' \in [Items -> 0..MsgMax]
           /\ \A i \in Items : next'[i] = IF i = tail THEN alloc + 1
                                        ELSE IF i = alloc + 1 THEN NULL
                                        ELSE next[i]
<1> USE QueueAssumption
<1>1. ListType /\ ListShape
  BY DEF IInv, TypeOK
<1>2. alloc + 1 \in Items /\ tt[s] \in 1..MsgMax
  BY Room DEF SendEnqueue, Pending
<1>3. itemNum' = itemNum + 1 /\ itemNum + 1 <= ItemMax
  BY <1>1 DEF ListType, SendEnqueue, Enqueue, Full
<1>4. /\ alloc' = alloc + 1 /\ tail' = alloc + 1
      /\ head' = IF tail # NULL THEN head ELSE alloc + 1
      /\ body' = [body EXCEPT ![alloc + 1] = tt[s]]
  BY DEF SendEnqueue, Enqueue
<1> DEFINE fresh == [next EXCEPT ![alloc + 1] = NULL]
<1> NULL \in 0..MsgMax /\ alloc + 1 \in 0..MsgMax
  BY <1>2 DEF NULL, Items
<1>5. fresh \in [Items -> 0..MsgMax]
  BY <1>1, Update DEF ListType
<1>6. \A i \in Items : fresh[i] = IF i = alloc + 1 THEN NULL ELSE next[i]
  BY <1>1 DEF ListType
<1>7. next' = IF tail # NULL THEN [fresh EXCEPT ![tail] = alloc + 1] ELSE fresh
  BY DEF SendEnqueue, Enqueue
<1> HIDE DEF fresh
<1>8. CASE tail = NULL
  <2>1. next' = fresh /\ \A i \in Items : i # tail
    BY <1>7, <1>8 DEF NULL, Items
  <2> QED
    BY <1>2, <1>3, <1>4, <1>5, <1>6, <2>1
<1>9. CASE tail # NULL
  <2>1. next' = [fresh EXCEPT ![tail] = alloc + 1]
    BY <1>7, <1>9
  <2>2. next' \in [Items -> 0..MsgMax]
    BY <1>5, <2>1, Update
  <2>3. \A i \in Items : next'[i] = IF i = tail THEN alloc + 1 ELSE fresh[i]
    BY <1>5, <2>1
  <2> QED
    BY <1>2, <1>3, <1>4, <1>6, <2>2, <2>3
<1> QED
  BY <1>8, <1>9

\* Every action keeps the list's fields within their types.
LEMMA ListTypeStep == IInv /\ [Next]_vars => ListType'
<1> SUFFICES ASSUME IInv, [Next]_vars PROVE ListType'
  OBVIOUS
<1> USE QueueAssumption DEF NULL, Items
<1>0. ListType /\ ListShape
  BY DEF IInv, TypeOK
<1>1. ASSUME NEW s \in Senders, SendEnqueue(s) PROVE ListType'
  <2>1. /\ head' \in 0..MsgMax /\ tail' \in 0..MsgMax
        /\ alloc' \in 0..MsgMax /\ itemNum' \in 0..ItemMax
    BY <1>0, <1>1, EnqueueEffect DEF ListType
  <2>2. tt[s] \in 0..MsgMax
    BY <1>1, EnqueueEffect
  <2>3. body' = [body EXCEPT ![alloc + 1] = tt[s]]
    BY <1>1, EnqueueEffect
  <2>4. body \in [Items -> 0..MsgMax]
    BY <1>0 DEF ListType
  <2> HIDE DEF Items
  <2>5. body' \in [Items -> 0..MsgMax]
    BY <2>2, <2>3, <2>4, Update
  <2> QED
    BY <1>1, <2>1, <2>5, EnqueueEffect DEF ListType
<1>2. ASSUME NEW s \in Senders, DumpItem(s) PROVE ListType'
  BY <1>0, <1>2 DEF ListType, ListShape, DumpItem
<1>3. ASSUME NEW s \in Senders, DumpEnd(s) PROVE ListType'
  BY <1>0, <1>3 DEF ListType, DumpEnd, DumpReturn
<1>4. ASSUME NEW r \in Receivers, RecvTake(r) PROVE ListType'
  <2>1. itemNum > 0
    BY <1>0, <1>4 DEF ListType, ListShape, RecvTake
  <2> QED
    BY <1>0, <1>4, <2>1 DEF ListType, RecvTake, Dequeue
<1>5. CASE UNCHANGED list
  BY <1>0, <1>5 DEF ListType, list
<1> QED
  BY <1>1, <1>2, <1>3, <1>4, <1>5, ListSteps

\* The mutex stays with the thread in the critical section.
LEMMA LockStep == IInv /\ [Next]_vars => LockOwner'
<1> SUFFICES ASSUME IInv, [Next]_vars PROVE LockOwner'
  OBVIOUS
<1> USE QueueAssumption DEF Threads, Critical, Kept, LockOwner, Goto, Lock, Unlock
<1>0. /\ LockOwner
      /\ lock \in Threads \cup {Free}
      /\ pc \in [Threads -> SenderPc \cup ReceiverPc]
      /\ again \in [Senders -> BOOLEAN]
      /\ \A s \in Senders : pc[s] \in SenderPc
      /\ \A r \in Receivers : pc[r] \in ReceiverPc
  BY DEF IInv, TypeOK, ThreadType
<1>1. ASSUME NEW s \in Senders, Push(s) PROVE LockOwner'
  BY <1>0, <1>1 DEF Push
<1>2. ASSUME NEW s \in Senders, SendLock(s) PROVE LockOwner'
  BY <1>0, <1>2 DEF SendLock
<1>3. ASSUME NEW s \in Senders, SendFull(s) PROVE LockOwner'
  BY <1>0, <1>3 DEF SendFull
<1>4. ASSUME NEW s \in Senders, SendEnqueue(s) PROVE LockOwner'
  BY <1>0, <1>4 DEF SendEnqueue
<1>5. ASSUME NEW s \in Senders, SendSignal(s) PROVE LockOwner'
  <2>1. CASE Goto(s, "idle")
    BY <1>0, <1>5, <2>1 DEF SendSignal
  <2>2. ASSUME NEW r \in Waiting,
               pc' = [pc EXCEPT ![s] = "idle", ![r] = "relock"]
        PROVE  LockOwner'
    <3>1. r \in Receivers /\ pc[r] = "wait" /\ pc[s] = "signal"
      BY <1>5, <2>2 DEF SendSignal, Waiting
    <3>2. \A t \in Threads :
             pc'[t] = IF t = r THEN "relock" ELSE IF t = s THEN "idle" ELSE pc[t]
      BY <1>0, <2>2, <3>1
    <3>3. lock' = lock /\ \A t \in Senders : t # s => again'[t] = again[t]
      BY <1>0, <1>5 DEF SendSignal
    <3>4. \A t \in Threads : Critical(t)' => lock' = t
      BY <1>0, <3>1, <3>2, <3>3
    <3>5. (lock # s /\ lock # r) \/ lock = Free
      BY <1>0, <3>1
    <3>6. ASSUME lock # Free
          PROVE  Critical(lock)' \/ (lock \in Senders /\ Kept(lock)')
      BY <1>0, <3>1, <3>2, <3>3, <3>5, <3>6
    <3> QED
      BY <3>3, <3>4, <3>6
  <2> QED
    BY <1>5, <2>1, <2>2 DEF SendSignal
<1>6. ASSUME NEW s \in Senders, DumpLock(s) PROVE LockOwner'
  BY <1>0, <1>6 DEF DumpLock
<1>7. ASSUME NEW s \in Senders, DumpItem(s) PROVE LockOwner'
  BY <1>0, <1>7 DEF DumpItem
<1>8. ASSUME NEW s \in Senders, DumpStop(s) PROVE LockOwner'
  BY <1>0, <1>8 DEF DumpStop, DumpReturn
<1>9. ASSUME NEW s \in Senders, DumpEnd(s) PROVE LockOwner'
  BY <1>0, <1>9 DEF DumpEnd, DumpReturn
<1>10. ASSUME NEW r \in Receivers, RecvLock(r) PROVE LockOwner'
  BY <1>0, <1>10 DEF RecvLock
<1>11. ASSUME NEW r \in Receivers, RecvWait(r) PROVE LockOwner'
  BY <1>0, <1>11 DEF RecvWait
<1>12. ASSUME NEW r \in Receivers, RecvRelock(r) PROVE LockOwner'
  BY <1>0, <1>12 DEF RecvRelock
<1>13. ASSUME NEW r \in Receivers, RecvTake(r) PROVE LockOwner'
  BY <1>0, <1>13 DEF RecvTake, AtTake
<1>14. ASSUME NEW r \in Receivers, RecvNull(r) PROVE LockOwner'
  BY <1>0, <1>14 DEF RecvNull
<1>15. ASSUME NEW r \in Receivers, Publish(r) PROVE LockOwner'
  BY <1>0, <1>15 DEF Publish
<1>16. ASSUME NEW r \in Receivers, RecvUnsignalled(r) PROVE LockOwner'
  BY <1>0, <1>16 DEF RecvUnsignalled
<1>17. CASE UNCHANGED vars
  BY <1>0, <1>17 DEF vars
<1> QED
  BY <1>1, <1>2, <1>3, <1>4, <1>5, <1>6, <1>7, <1>8, <1>9, <1>10, <1>11,
     <1>12, <1>13, <1>14, <1>15, <1>16, <1>17
     DEF Next, SenderStep, ReceiverStep

\* A message becomes pending in Push and stops being pending when it is
\* queued or given up; no other step touches what Accounted speaks of.
LEMMA PendingStep ==
    IInv /\ [Next]_vars =>
        \/ \E s \in Senders : Push(s) \/ SendEnqueue(s)
        \/ UNCHANGED <<alloc, body, tt, made>> /\ Pending' \subseteq Pending
<1> SUFFICES ASSUME IInv, [Next]_vars,
                    ~ \E s \in Senders : Push(s) \/ SendEnqueue(s)
             PROVE  UNCHANGED <<alloc, body, tt, made>> /\ Pending' \subseteq Pending
  OBVIOUS
<1> DEFINE Rest == UNCHANGED <<alloc, body, tt, made>>
<1> USE QueueAssumption DEF Pending, Threads, Goto
<1>0. pc \in [Threads -> SenderPc \cup ReceiverPc]
  BY DEF IInv, TypeOK, ThreadType
<1>1. ASSUME NEW s \in Senders, SendLock(s) PROVE Rest /\ Pending' \subseteq Pending
  BY <1>0, <1>1 DEF SendLock, list
<1>2. ASSUME NEW s \in Senders, SendFull(s) PROVE Rest /\ Pending' \subseteq Pending
  BY <1>0, <1>2 DEF SendFull, list
<1>3. ASSUME NEW s \in Senders, SendSignal(s)
      PROVE  Rest /\ Pending' \subseteq Pending
  <2>1. CASE Goto(s, "idle")
    BY <1>0, <1>3, <2>1 DEF SendSignal, list
  <2>2. ASSUME NEW r \in Waiting,
               pc' = [pc EXCEPT ![s] = "idle", ![r] = "relock"]
        PROVE  Rest /\ Pending' \subseteq Pending
    <3>1. \A t \in Senders : pc'[t] = IF t = s THEN "idle" ELSE pc[t]
      BY <1>0, <2>2 DEF Waiting
    <3> QED
      BY <1>3, <3>1 DEF SendSignal, list
  <2> QED
    BY <1>3, <2>1, <2>2 DEF SendSignal
<1>4. ASSUME NEW s \in Senders, DumpLock(s) PROVE Rest /\ Pending' \subseteq Pending
  BY <1>0, <1>4 DEF DumpLock, list
<1>5. ASSUME NEW s \in Senders, DumpItem(s) PROVE Rest /\ Pending' \subseteq Pending
  BY <1>0, <1>5 DEF DumpItem
<1>6. ASSUME NEW s \in Senders, DumpStop(s) PROVE Rest /\ Pending' \subseteq Pending
  BY <1>0, <1>6 DEF DumpStop, DumpReturn
<1>7. ASSUME NEW s \in Senders, DumpEnd(s) PROVE Rest /\ Pending' \subseteq Pending
  BY <1>0, <1>7 DEF DumpEnd, DumpReturn
<1>8. ASSUME NEW r \in Receivers, RecvLock(r) PROVE Rest /\ Pending' \subseteq Pending
  BY <1>0, <1>8 DEF RecvLock, list
<1>9. ASSUME NEW r \in Receivers, RecvWait(r) PROVE Rest /\ Pending' \subseteq Pending
  BY <1>0, <1>9 DEF RecvWait, list
<1>10. ASSUME NEW r \in Receivers, RecvRelock(r) PROVE Rest /\ Pending' \subseteq Pending
  BY <1>0, <1>10 DEF RecvRelock, list
<1>11. ASSUME NEW r \in Receivers, RecvTake(r) PROVE Rest /\ Pending' \subseteq Pending
  BY <1>0, <1>11 DEF RecvTake, Dequeue
<1>12. ASSUME NEW r \in Receivers, RecvNull(r) PROVE Rest /\ Pending' \subseteq Pending
  BY <1>0, <1>12 DEF RecvNull, list
<1>13. ASSUME NEW r \in Receivers, Publish(r) PROVE Rest /\ Pending' \subseteq Pending
  BY <1>0, <1>13 DEF Publish, list
<1>14. ASSUME NEW r \in Receivers, RecvUnsignalled(r) PROVE Rest /\ Pending' \subseteq Pending
  BY <1>0, <1>14 DEF RecvUnsignalled, list
<1>15. ASSUME UNCHANGED vars PROVE Rest /\ Pending' \subseteq Pending
  BY <1>15 DEF vars
<1> HIDE DEF Rest, Pending, Goto
<1>16. Rest /\ Pending' \subseteq Pending
  BY <1>1, <1>2, <1>3, <1>4, <1>5, <1>6, <1>7, <1>8, <1>9, <1>10, <1>11,
     <1>12, <1>13, <1>14, <1>15
     DEF Next, SenderStep, ReceiverStep
<1> QED
  BY <1>16 DEF Rest

\* Items and pending messages stay within the messages produced.
LEMMA AccountStep == IInv /\ [Next]_vars => Accounted'
<1> SUFFICES ASSUME IInv, [Next]_vars PROVE Accounted'
  OBVIOUS
<1> USE QueueAssumption
<1>0. Accounted /\ ListType /\ ThreadType
  BY DEF IInv, TypeOK
<1>1. IsFiniteSet(Pending) /\ Cardinality(Pending) \in Nat
  BY PendingCount
<1>2. /\ alloc \in Nat /\ made \in Nat /\ MsgMax \in Nat /\ made <= MsgMax
      /\ pc \in [Threads -> SenderPc \cup ReceiverPc]
      /\ tt \in [Senders -> 0..MsgMax] /\ body \in [Items -> 0..MsgMax]
  BY <1>0 DEF ListType, ThreadType
<1>3. ASSUME NEW s \in Senders, Push(s) PROVE Accounted'
  <2>1. Pending' = Pending \cup {s} /\ s \notin Pending
    BY <1>2, <1>3 DEF Push, Goto, Pending, Threads
  <2>2. Cardinality(Pending') = Cardinality(Pending) + 1
    BY <1>1, <2>1, FS_AddElement
  <2>3. alloc' = alloc /\ body' = body /\ made' = made + 1 /\ made < MsgMax
    BY <1>3 DEF Push, list
  <2>4. alloc' + Cardinality(Pending') <= made'
    BY <1>0, <1>1, <1>2, <2>2, <2>3 DEF Accounted
  <2>5. \A t \in Pending' : tt'[t] \in 1..MsgMax
    <3> SUFFICES ASSUME NEW t \in Pending' PROVE tt'[t] \in 1..MsgMax
      OBVIOUS
    <3>1. CASE t = s
      BY <1>2, <1>3, <2>3, <3>1 DEF Push
    <3>2. CASE t # s
      BY <1>0, <1>2, <1>3, <2>1, <3>2 DEF Push, Accounted, Pending
    <3> QED
      BY <3>1, <3>2
  <2> QED
    BY <1>0, <2>3, <2>4, <2>5 DEF Accounted
<1>4. ASSUME NEW s \in Senders, SendEnqueue(s) PROVE Accounted'
  <2>1. Pending' = Pending \ {s} /\ s \in Pending
    BY <1>2, <1>4 DEF SendEnqueue, Goto, Pending, Threads
  <2>2. Cardinality(Pending') = Cardinality(Pending) - 1
    BY <1>1, <2>1, FS_RemoveElement
  <2>3. /\ alloc' = alloc + 1 /\ made' = made /\ tt' = tt
        /\ body' = [body EXCEPT ![alloc + 1] = tt[s]]
        /\ alloc + 1 \in Items /\ tt[s] \in 1..MsgMax
    BY <1>4, EnqueueEffect DEF SendEnqueue
  <2>4. alloc' + Cardinality(Pending') <= made'
    BY <1>0, <1>1, <1>2, <2>2, <2>3 DEF Accounted
  <2>5. \A i \in 1..alloc' : body'[i] \in 1..MsgMax
    <3> SUFFICES ASSUME NEW i \in 1..alloc' PROVE body'[i] \in 1..MsgMax
      OBVIOUS
    <3>1. CASE i = alloc + 1
      BY <1>2, <2>3, <3>1
    <3>2. CASE i # alloc + 1
      BY <1>0, <1>2, <2>3, <3>2 DEF Accounted, Items
    <3> QED
      BY <3>1, <3>2
  <2> QED
    BY <1>0, <2>1, <2>3, <2>4, <2>5 DEF Accounted
<1>5. CASE UNCHANGED <<alloc, body, tt, made>> /\ Pending' \subseteq Pending
  <2>1. Cardinality(Pending') \in Nat /\ Cardinality(Pending') <= Cardinality(Pending)
    BY <1>1, <1>5, FS_Subset, FS_CardinalityType
  <2> QED
    BY <1>0, <1>1, <1>2, <1>5, <2>1 DEF Accounted
<1> QED
  BY <1>3, <1>4, <1>5, PendingStep

\* A dump goes on until it meets a message it cannot take or an empty queue.
LEMMA DumpingStep ==
    ASSUME IInv, [Next]_vars, Dumping
    PROVE  \/ Dumping'
           \/ \E s \in Senders : DumpStop(s) \/ DumpEnd(s)
<1>0. pc \in [Threads -> SenderPc \cup ReceiverPc]
  BY DEF IInv, TypeOK, ThreadType
<1>1. PICK s \in Senders : pc[s] = "dump_body"
  BY DEF Dumping
<1>2. s \in Threads /\ s \notin Receivers
  BY QueueAssumption DEF Threads
<1>3. \/ pc'[s] = "dump_body"
      \/ \E t \in Senders : DumpStop(t) \/ DumpEnd(t)
  BY <1>0, <1>1, <1>2
     DEF Next, SenderStep, ReceiverStep, Push, SendLock, SendFull, SendEnqueue,
         SendSignal, Waiting, DumpLock, DumpItem, RecvLock, RecvWait, RecvRelock,
         RecvTake, AtTake, RecvNull, Publish, RecvUnsignalled, Goto, vars
<1> QED
  BY <1>3 DEF Dumping

\* The list keeps its shape.
LEMMA ShapeStep == IInv /\ [Next]_vars => ListShape'
<1> SUFFICES ASSUME IInv, [Next]_vars PROVE ListShape'
  OBVIOUS
<1> USE QueueAssumption DEF NULL
<1>0. ListShape /\ ListType /\ LockOwner
  BY DEF IInv, TypeOK
<1>1. /\ head \in Nat /\ tail \in Nat /\ alloc \in Nat /\ itemNum \in Nat
      /\ MsgMax \in Nat /\ alloc <= MsgMax
      /\ next \in [Items -> 0..MsgMax]
  BY <1>0 DEF ListType
<1>2. ASSUME NEW s \in Senders, SendEnqueue(s) PROVE ListShape'
  <2>1. ~ Dumping
    BY <1>0, <1>2 DEF LockOwner, Critical, Dumping, SendEnqueue, Threads
  <2>2. tail = NULL <=> itemNum = 0
    BY <1>0, <1>1, <2>1 DEF ListShape
  <2>3. /\ itemNum' = itemNum + 1 /\ alloc' = alloc + 1 /\ tail' = alloc + 1
        /\ head' = IF tail # NULL THEN head ELSE alloc + 1
        /\ alloc + 1 \in Items
        /\ \A i \in Items : next'[i] = IF i = tail THEN alloc + 1
                                     ELSE IF i = alloc + 1 THEN NULL
                                     ELSE next[i]
    BY <1>2, EnqueueEffect
  <2>4. CASE tail = NULL
    BY <1>1, <2>2, <2>3, <2>4 DEF ListShape, Items
  <2>5. CASE tail # NULL
    <3>1. itemNum > 0 /\ tail = alloc /\ head \in 1..alloc
          /\ itemNum = (alloc - head) + 1
      BY <1>0, <1>1, <2>2, <2>5 DEF ListShape
    <3>2. \A i \in Items : head <= i /\ i < alloc => next[i] = i + 1
      BY <1>0, <3>1 DEF ListShape
    <3> QED
      BY <1>1, <2>3, <3>1, <3>2 DEF ListShape, Items
  <2> QED
    BY <2>4, <2>5
<1>3. ASSUME NEW s \in Senders, DumpItem(s) PROVE ListShape'
  <2>1. Dumping'
    BY <1>3 DEF DumpItem, Dumping
  <2> QED
    BY <1>0, <1>1, <1>3, <2>1 DEF DumpItem, ListShape, Items
<1>4. ASSUME NEW s \in Senders, DumpEnd(s) PROVE ListShape'
  BY <1>0, <1>1, <1>4 DEF DumpEnd, DumpReturn, ListShape, Items
<1>5. ASSUME NEW r \in Receivers, RecvTake(r) PROVE ListShape'
  BY <1>0, <1>1, <1>5 DEF RecvTake, Dequeue, ListShape, Items
<1>6. CASE UNCHANGED list
  <2>1. itemNum = 0 /\ Dumping /\ tail # NULL => Dumping'
    <3> SUFFICES ASSUME itemNum = 0, Dumping, tail # NULL PROVE Dumping'
      OBVIOUS
    <3>1. \A s \in Senders : ~ DumpStop(s)
      BY <1>1 DEF DumpStop
    <3>2. \A s \in Senders : ~ DumpEnd(s)
      BY <1>6 DEF DumpEnd, list
    <3> QED
      BY <3>1, <3>2, DumpingStep
  <2> QED
    BY <1>0, <1>6, <2>1 DEF ListShape, list
<1> QED
  BY <1>2, <1>3, <1>4, <1>5, <1>6, ListSteps

\* Neither assert is reached with its condition false.
LEMMA AssertStep == IInv /\ [Next]_vars => AssertsHold'
<1> SUFFICES ASSUME IInv, [Next]_vars PROVE AssertsHold'
  OBVIOUS
<1> USE QueueAssumption DEF NULL
<1>0. ListShape /\ ListType /\ AssertsHold
  BY DEF IInv, TypeOK
<1>1. ASSUME NEW s \in Senders, DumpEnd(s) PROVE fault' = fault
  BY <1>0, <1>1 DEF DumpEnd, ListShape
<1>2. ASSUME NEW r \in Receivers, RecvTake(r) PROVE fault' = fault
  BY <1>0, <1>2 DEF RecvTake, ListShape, ListType
<1>3. fault' \in {fault, "null"}
  BY <1>1, <1>2
     DEF Next, SenderStep, ReceiverStep, Push, SendLock, SendFull, SendEnqueue,
         SendSignal, DumpLock, DumpItem, DumpStop, RecvLock, RecvWait,
         RecvRelock, RecvNull, Publish, RecvUnsignalled, vars
<1> QED
  BY <1>0, <1>3 DEF AssertsHold

----------------------------------------------------------------------------
(* The theorems.                                                           *)

\* IInv is an inductive invariant of the queue and its threads.
THEOREM Invariance == Spec => []IInv
<1>1. Init => IInv
  BY InitInv
<1>2. IInv /\ [Next]_vars => IInv'
  BY ThreadTypeStep, ListTypeStep, LockStep, AccountStep, ShapeStep, AssertStep
     DEF IInv, TypeOK
<1> QED
  BY <1>1, <1>2, PTL DEF Spec

\* Fields and threads keep their types: the queue never holds more than
\* itemMax messages (MBT_mqSend).
THEOREM TypeCorrect == Spec => []TypeOK
<1>1. IInv => TypeOK
  BY DEF IInv
<1> QED
  BY <1>1, Invariance, PTL

\* The linked list always describes one queue, whatever the interleaving of
\* MBT_mqSend, MBT_mqRecv and MBT_mqDumpLimit.
THEOREM ShapeCorrect == Spec => []ListShape
<1>1. IInv => ListShape
  BY DEF IInv
<1> QED
  BY <1>1, Invariance, PTL

\* The asserts of MBT_mqRecv and MBT_mqDumpLimit never fail.
THEOREM AssertsCorrect == Spec => []AssertsHold
<1>1. IInv => AssertsHold
  BY DEF IInv
<1> QED
  BY <1>1, Invariance, PTL

----------------------------------------------------------------------------
(* Wakeups.                                                                *)

\* A step that leaves all receivers asleep is a step of a sender.
LEMMA WakeStep == IInv /\ NoLostWakeup /\ [Next]_vars => NoLostWakeup'
<1> SUFFICES ASSUME IInv, NoLostWakeup, [Next]_vars,
                    itemNum' > 0, Waiting' = Receivers
             PROVE  \E s \in Senders : pc'[s] = "signal"
  BY DEF NoLostWakeup
<1>0. /\ pc \in [Threads -> SenderPc \cup ReceiverPc]
      /\ itemNum \in Nat
  BY QueueAssumption DEF IInv, TypeOK, ThreadType, ListType
<1>1. /\ \A r \in Receivers : pc'[r] = "wait"
      /\ Receivers # {} /\ Senders \cap Receivers = {}
  BY QueueAssumption DEF Waiting
<1>2. ASSUME NEW s \in Senders, SendEnqueue(s)
      PROVE  \E t \in Senders : pc'[t] = "signal"
  BY <1>0, <1>2 DEF SendEnqueue, Goto, Threads
<1>3. ASSUME NEW s \in Senders, SendSignal(s) PROVE FALSE
  <2>1. CASE Waiting = {} /\ Goto(s, "idle")
    <3>1. \A r \in Receivers : pc'[r] = pc[r]
      BY <1>0, <1>1, <2>1 DEF Goto, Threads
    <3> QED
      BY <1>1, <2>1, <3>1 DEF Waiting
  <2>2. ASSUME NEW r \in Waiting,
               pc' = [pc EXCEPT ![s] = "idle", ![r] = "relock"]
        PROVE  FALSE
    BY <1>0, <1>1, <2>2 DEF Waiting, Threads
  <2> QED
    BY <1>3, <2>1, <2>2 DEF SendSignal
<1>4. ASSUME NEW r \in Receivers, ReceiverStep(r) \/ RecvUnsignalled(r)
      PROVE  FALSE
  BY <1>0, <1>1, <1>4
     DEF ReceiverStep, RecvLock, RecvWait, RecvRelock, RecvTake, RecvNull,
         AtTake, Publish, RecvUnsignalled, Goto, Threads, list
<1>5. ASSUME NEW s \in Senders,
             \/ Push(s) \/ SendLock(s) \/ SendFull(s) \/ DumpLock(s)
             \/ DumpItem(s) \/ DumpStop(s) \/ DumpEnd(s)
      PROVE  \E t \in Senders : pc'[t] = "signal"
  <2>1. /\ \A t \in Threads : t # s => pc'[t] = pc[t]
        /\ pc[s] # "signal" /\ itemNum > 0
    BY <1>0, <1>5
       DEF Push, SendLock, SendFull, DumpLock, DumpItem, DumpStop, DumpEnd,
           DumpReturn, Goto, list
  <2>2. Waiting = Receivers
    BY <1>1, <2>1 DEF Waiting, Threads
  <2>3. PICK t \in Senders : pc[t] = "signal"
    BY <2>1, <2>2 DEF NoLostWakeup
  <2> QED
    BY <2>1, <2>3 DEF Threads
<1>6. CASE UNCHANGED vars
  BY <1>6 DEF NoLostWakeup, Waiting, vars
<1> QED
  BY <1>2, <1>3, <1>4, <1>5, <1>6 DEF Next, SenderStep

\* The signal sent after the unlock loses no wakeup: messages never wait for
\* sleeping receivers while no sender is about to signal (MBT_mqSend).
THEOREM NoWakeupLost == Spec => []NoLostWakeup
<1>1. Init => NoLostWakeup
  BY DEF Init, NoLostWakeup
<1>2. IInv /\ NoLostWakeup /\ [Next]_vars => NoLostWakeup'
  BY WakeStep
<1> QED
  BY <1>1, <1>2, Invariance, PTL DEF Spec

----------------------------------------------------------------------------
(* The linked list implements the bounded FIFO.                            *)

\* Contents read as a sequence, for the lemmas below.
ContentsOK ==
    /\ Contents \in Seq(1..MsgMax) /\ Len(Contents) = itemNum
    /\ \A k \in 1..itemNum : Contents[k] = body[head + k - 1]

\* The queue's contents are a sequence of messages, as long as itemNum says.
LEMMA ContentsSeq == IInv => ContentsOK
<1> SUFFICES ASSUME IInv PROVE ContentsOK
  OBVIOUS
<1>1. /\ itemNum \in Nat
      /\ \A k \in 1..itemNum : body[head + k - 1] \in 1..MsgMax
  BY QueueAssumption DEF IInv, TypeOK, ListType, ListShape, Accounted
<1>2. Contents \in [1..itemNum -> 1..MsgMax]
  BY <1>1 DEF Contents
<1> QED
  BY <1>1, <1>2 DEF Contents, ContentsOK

\* Queueing a message puts it at the back.
LEMMA EnqueuePuts ==
    ASSUME IInv, IInv', NEW s \in Senders, SendEnqueue(s)
    PROVE  Fifo!Put(tt[s]) /\ tt[s] \in 1..MsgMax
<1>0. /\ ListType /\ ListShape /\ head \in Nat /\ alloc \in Nat /\ itemNum \in Nat
      /\ ListShape' /\ body \in [Items -> 0..MsgMax]
  BY QueueAssumption DEF IInv, TypeOK, ListType
<1>1. /\ itemNum' = itemNum + 1 /\ itemNum + 1 <= ItemMax /\ alloc' = alloc + 1
      /\ body' = [body EXCEPT ![alloc + 1] = tt[s]]
      /\ alloc + 1 \in Items /\ tt[s] \in 1..MsgMax
      /\ head' = IF tail # NULL THEN head ELSE alloc + 1
  BY EnqueueEffect
<1>nat. /\ head \in Nat /\ alloc \in Nat /\ itemNum \in Nat
      /\ MsgMax \in Nat /\ alloc + 1 <= MsgMax
  BY <1>0, <1>1, QueueAssumption DEF Items
<1>2. itemNum = 0 => head' = alloc + 1
  BY <1>0, <1>1 DEF ListShape
<1>3. itemNum > 0 => head' = head /\ head >= 1 /\ head + itemNum = alloc + 1
  BY <1>0, <1>1 DEF ListShape, NULL
<1>4. /\ Contents \in Seq(1..MsgMax) /\ Len(Contents) = itemNum
      /\ \A k \in 1..itemNum : Contents[k] = body[head + k - 1]
  BY ContentsSeq DEF ContentsOK
<1>next. ContentsOK'
  BY ContentsSeq, PTL
<1>5. /\ Contents' \in Seq(1..MsgMax) /\ Len(Contents') = itemNum'
      /\ \A k \in 1..itemNum' : Contents'[k] = body'[head' + k - 1]
  BY <1>next DEF ContentsOK
<1>6. /\ Append(Contents, tt[s]) \in Seq(1..MsgMax)
      /\ Len(Append(Contents, tt[s])) = itemNum + 1
      /\ \A k \in 1..(itemNum + 1) :
            Append(Contents, tt[s])[k] = IF k <= itemNum THEN Contents[k] ELSE tt[s]
  BY <1>0, <1>1, <1>4
<1>7. \A k \in 1..(itemNum + 1) : Contents'[k] = Append(Contents, tt[s])[k]
  <2> SUFFICES ASSUME NEW k \in 1..(itemNum + 1)
               PROVE  Contents'[k] = Append(Contents, tt[s])[k]
    OBVIOUS
  <2>1. CASE k <= itemNum
    <3>1. head' = head /\ head >= 1 /\ head + itemNum = alloc + 1
      BY <1>nat, <1>3, <2>1
    <3>2. head + k - 1 \in Items /\ head + k - 1 # alloc + 1
      BY <1>nat, <2>1, <3>1 DEF Items
    <3>3. Contents'[k] = body'[head + k - 1]
      BY <1>nat, <1>1, <1>5, <3>1
    <3>4. Contents[k] = body[head + k - 1]
      BY <1>nat, <1>4, <2>1
    <3>5. Append(Contents, tt[s])[k] = Contents[k]
      BY <1>6, <2>1
    <3> QED
      BY <1>0, <1>1, <3>2, <3>3, <3>4, <3>5
  <2>2. CASE k = itemNum + 1
    <3>1. Contents'[k] = body'[alloc + 1]
      <4>1. CASE itemNum = 0
        BY <1>nat, <1>1, <1>2, <1>5, <2>2, <4>1
      <4>2. CASE itemNum > 0
        <5>1. head + k - 1 = alloc + 1
          BY <1>nat, <1>3, <2>2, <4>2
        <5> QED
          BY <1>1, <1>3, <1>5, <4>2, <5>1
      <4> QED
        BY <1>nat, <4>1, <4>2
    <3>2. Append(Contents, tt[s])[k] = tt[s]
      BY <1>nat, <1>6, <2>2
    <3> QED
      BY <1>0, <1>1, <3>1, <3>2
  <2>3. k <= itemNum \/ k = itemNum + 1
    BY <1>nat
  <2> QED
    BY <2>1, <2>2, <2>3
<1>8. Contents' = Append(Contents, tt[s])
  BY <1>0, <1>1, <1>5, <1>6, <1>7, SeqEqual
<1>9. raw' = raw
  BY DEF SendEnqueue
<1> QED
  BY <1>0, <1>1, <1>4, <1>8, <1>9, QueueAssumption DEF Fifo!Put

\* Removing the front item leaves the rest of the contents.
LEMMA RemoveTail ==
    ASSUME IInv, IInv', itemNum > 0, head' = next[head],
           itemNum' = itemNum - 1, UNCHANGED body
    PROVE  Contents # <<>> /\ Contents' = Tail(Contents)
           /\ Head(Contents) = body[head]
<1>0. /\ ListShape /\ head \in 1..alloc /\ alloc \in Nat /\ itemNum \in Nat
      /\ alloc <= MsgMax /\ MsgMax \in Nat
  BY QueueAssumption DEF IInv, TypeOK, ListType, ListShape
<1>1. itemNum > 1 => head' = head + 1
  BY <1>0 DEF ListShape, Items, NULL
<1>2. /\ Contents \in Seq(1..MsgMax) /\ Len(Contents) = itemNum
      /\ \A k \in 1..itemNum : Contents[k] = body[head + k - 1]
  BY ContentsSeq DEF ContentsOK
<1>next. ContentsOK'
  BY ContentsSeq, PTL
<1>3. /\ Contents' \in Seq(1..MsgMax) /\ Len(Contents') = itemNum'
      /\ \A k \in 1..itemNum' : Contents'[k] = body'[head' + k - 1]
  BY <1>next DEF ContentsOK
<1>4. Contents # <<>> /\ Head(Contents) = Contents[1]
  BY <1>0, <1>2
<1>5. /\ Tail(Contents) \in Seq(1..MsgMax) /\ Len(Tail(Contents)) = itemNum - 1
      /\ \A k \in 1..(itemNum - 1) : Tail(Contents)[k] = Contents[k + 1]
  BY <1>0, <1>2, <1>4, HeadTailProperties
<1>6. \A k \in 1..(itemNum - 1) : Contents'[k] = Tail(Contents)[k]
  <2> SUFFICES ASSUME NEW k \in 1..(itemNum - 1)
               PROVE  Contents'[k] = Tail(Contents)[k]
    OBVIOUS
  <2>1. head' = head + 1 /\ k + 1 \in 1..itemNum /\ k \in 1..itemNum'
    BY <1>0, <1>1
  <2>2. head' + k - 1 = head + (k + 1) - 1
    BY <1>0, <2>1
  <2> QED
    BY <1>2, <1>3, <1>5, <2>1, <2>2
<1>7. Contents' = Tail(Contents)
  BY <1>3, <1>5, <1>6, SeqEqual
<1>8. Contents[1] = body[head]
  BY <1>0, <1>2
<1> QED
  BY <1>4, <1>7, <1>8

\* Steps that are not about the list's contents are stutters.
LEMMA OtherSteps ==
    [Next]_vars =>
        \/ \E s \in Senders : SendEnqueue(s) \/ DumpItem(s)
        \/ \E r \in Receivers : RecvTake(r)
        \/ UNCHANGED <<head, body, itemNum, raw>>
BY DEF Next, SenderStep, ReceiverStep, Push, SendLock, SendFull, SendSignal,
       DumpLock, DumpStop, DumpEnd, DumpReturn, RecvLock, RecvWait, RecvRelock,
       RecvNull, Publish, RecvUnsignalled, list, vars

\* The linked list of MBT_queue.c, used by any number of threads, implements
\* the bounded first-in first-out buffer.
THEOREM Refinement == Spec => ImplementsFifo
<1>1. Init => Fifo!Init
  <2> SUFFICES ASSUME Init PROVE Contents = <<>> /\ raw \in [Receivers -> (1..MsgMax) \cup {0}]
    BY DEF Fifo!Init
  <2>1. itemNum = 0
    BY DEF Init
  <2>2. Len(Contents) = 0 /\ Contents \in Seq(1..MsgMax)
    BY <2>1, InitInv, ContentsSeq DEF ContentsOK
  <2>3. Contents = <<>>
    BY <2>2, EmptySeq
  <2> QED
    BY <2>3 DEF Init
<1>2. IInv /\ IInv' /\ [Next]_vars => [Fifo!Next]_(Fifo!fifoVars)
  <2> SUFFICES ASSUME IInv, IInv', [Next]_vars
               PROVE  [Fifo!Next]_(Fifo!fifoVars)
    OBVIOUS
  <2>1. ASSUME NEW s \in Senders, SendEnqueue(s) PROVE Fifo!Next
    BY <2>1, EnqueuePuts DEF Fifo!Next
  <2>2. ASSUME NEW s \in Senders, DumpItem(s) PROVE Fifo!Next
    <3>1. Contents # <<>> /\ Contents' = Tail(Contents)
      BY <2>2, RemoveTail DEF DumpItem
    <3>2. raw' = raw
      BY <2>2 DEF DumpItem
    <3> QED
      BY <3>1, <3>2 DEF Fifo!Next, Fifo!Drop
  <2>3. ASSUME NEW r \in Receivers, RecvTake(r) PROVE Fifo!Next
    <3>1. itemNum > 0
      BY <2>3, QueueAssumption DEF RecvTake, IInv, TypeOK, ListType, ListShape
    <3>2. /\ Contents # <<>> /\ Contents' = Tail(Contents)
          /\ Head(Contents) = body[head]
      BY <2>3, <3>1, RemoveTail DEF RecvTake, Dequeue
    <3>3. raw' = [raw EXCEPT ![r] = Head(Contents)]
      BY <2>3, <3>2 DEF RecvTake
    <3> QED
      BY <3>2, <3>3 DEF Fifo!Next, Fifo!Get
  <2>4. CASE UNCHANGED <<head, body, itemNum, raw>>
    BY <2>4 DEF Contents, Fifo!fifoVars
  <2> QED
    BY <2>1, <2>2, <2>3, <2>4, OtherSteps
<1> QED
  BY <1>1, <1>2, Invariance, PTL DEF Spec, ImplementsFifo, Fifo!Spec

=============================================================================
