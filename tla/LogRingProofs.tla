--------------------------- MODULE LogRingProofs ---------------------------
(***************************************************************************)
(* Proofs about LogRing: for any number of printing threads, any buffer    *)
(* and any line lengths, the log thread needs no mutex.                    *)
(***************************************************************************)
EXTENDS LogRing, SequenceTheorems, TLAPS

----------------------------------------------------------------------------
(* Arithmetic in the ring                                                  *)

LEMMA WrapCell ==
    ASSUME NEW a \in Cells, NEW n \in Nat, n <= BufSize
    PROVE  Wrap(a + n) \in Cells
BY LogAssumption DEF Wrap, Cells

LEMMA WrapApart ==
    ASSUME NEW a \in Cells, NEW m \in Nat, NEW n \in Nat,
           m < BufSize, n < BufSize, m # n
    PROVE  Wrap(a + m) # Wrap(a + n)
BY LogAssumption DEF Wrap, Cells

LEMMA WrapTwice ==
    ASSUME NEW a \in Cells, NEW m \in Nat, NEW n \in Nat, m + n < BufSize
    PROVE  Wrap(Wrap(a + m) + n) = Wrap(a + (m + n))
BY LogAssumption DEF Wrap, Cells

LEMMA RemainFacts ==
    ASSUME NEW s \in Cells, NEW e \in Cells
    PROVE  /\ RemainSize(s, e) \in Nat /\ RemainSize(s, e) < BufSize
           /\ Wrap(s + RemainSize(s, e)) = e
           /\ RemainSize(s, e) = 0 <=> s = e
BY LogAssumption DEF Wrap, Cells, RemainSize

LEMMA RemainGrows ==
    ASSUME NEW s \in Cells, NEW e \in Cells, NEW n \in Nat,
           RemainSize(s, e) + n < BufSize
    PROVE  RemainSize(s, Wrap(e + n)) = RemainSize(s, e) + n
BY LogAssumption DEF Wrap, Cells, RemainSize

LEMMA RemainShrinks ==
    ASSUME NEW s \in Cells, NEW e \in Cells, NEW n \in Nat,
           n <= RemainSize(s, e)
    PROVE  RemainSize(Wrap(s + n), e) = RemainSize(s, e) - n
BY LogAssumption DEF Wrap, Cells, RemainSize

\* The two pieces copyLogBuffer and doWriteLog work in are one run of cells
\* around the end of the buffer.
LEMMA DestIsNext ==
    ASSUME NEW p, buffEnd \in Cells, from \in Cells, copied \in Nat, CopyLen(p) \in Nat,
           copied < CopyLen(p), CopyLen(p) < BufSize,
           from > buffEnd => buffEnd + CopyLen(p) < from
    PROVE  Dest(p) = Wrap(buffEnd + copied)
BY LogAssumption DEF Dest, Wrap, Cells

LEMMA SourceIsNext ==
    ASSUME start \in Cells, end \in Cells, start # end, wrote \in Nat
    PROVE  /\ ChunkLen = RemainSize(start, end)
           /\ wrote < ChunkLen => Source = Wrap(start + wrote)
BY LogAssumption DEF ChunkLen, Source, RemainSize, Wrap, Cells

----------------------------------------------------------------------------
(* The invariant                                                           *)

LEMMA InitInv == Init => IInv
<1> SUFFICES ASSUME Init PROVE IInv
  OBVIOUS
<1> USE LogAssumption
<1>1. RingType
  BY DEF Init, RingType, Cells
<1>2. PrinterType
  BY DEF Init, PrinterType, Cells
<1>3. LogThreadType
  <2>1. /\ stop = FALSE /\ rpc = "poll" /\ wrote = 0 /\ waited = 0
        /\ file = <<>>
    BY DEF Init
  <2>2. file \in Seq(Nat)
    BY <2>1
  <2>3. waited \in 0..(WaitMax - 1)
    BY <2>1
  <2> QED
    BY <2>1, <2>2, <2>3 DEF LogThreadType
<1>4. OneInside /\ RoomLeft
  BY DEF Init, OneInside, RoomLeft, Inside, Copying
<1>5. Filled = 0
  BY DEF Init, Filled, RemainSize
<1>6. Contents
  BY <1>5 DEF Init, Contents, Copying
<1>7. ChunkInFront /\ FileInOrder
  BY <1>5 DEF Init, ChunkInFront, FileInOrder
<1> QED
  BY <1>1, <1>2, <1>3, <1>4, <1>6, <1>7 DEF Init, IInv, TypeOK, LossesReported

\* What a printer that is copying can rely on.
LEMMA CopyFacts ==
    ASSUME IInv, NEW p \in Printers, Copying(p)
    PROVE  /\ Inside(p) /\ mutex = p
           /\ CopyLen(p) \in Nat /\ copied \in Nat /\ copied <= CopyLen(p)
           /\ Filled \in Nat /\ Filled + CopyLen(p) < BufSize
           /\ copied < CopyLen(p) => Dest(p) = Wrap(buffEnd + copied)
           /\ copied < CopyLen(p) => Dest(p) \in Cells
<1> USE LogAssumption
<1>1. /\ Inside(p) /\ mutex = p
      /\ CopyLen(p) \in Nat /\ copied \in Nat
      /\ buffStart \in Cells /\ buffEnd \in Cells /\ from \in Cells
      /\ msgLen[p] \in Nat
  BY DEF IInv, TypeOK, RingType, PrinterType, OneInside, Inside, Copying, CopyLen
<1>2. Filled \in Nat
  BY <1>1, RemainFacts DEF Filled
<1>3. CopyLen(p) <= ToCome(p) /\ ToCome(p) \in Nat
  BY <1>1 DEF CopyLen, ToCome
<1>4. /\ Filled + ToCome(p) < BufSize
      /\ copied <= CopyLen(p)
      /\ from > buffEnd => buffEnd + CopyLen(p) < from
  BY <1>1 DEF IInv, RoomLeft
<1>5. Filled + CopyLen(p) < BufSize /\ CopyLen(p) < BufSize
  BY <1>1, <1>2, <1>3, <1>4
<1>6. copied < CopyLen(p) => Dest(p) = Wrap(buffEnd + copied)
  BY <1>1, <1>4, <1>5, DestIsNext
<1>7. copied < CopyLen(p) => Wrap(buffEnd + copied) \in Cells
  BY <1>1, <1>5, WrapCell
<1> QED
  BY <1>1, <1>2, <1>4, <1>5, <1>6, <1>7

\* The actions that touch neither the ring, nor what names its bytes, nor the
\* file.
Aside == \/ \E p \in Printers : \/ \E n \in Lengths : PrintLine(p, n)
                                \/ Drop(p) \/ Accept(p) \/ Fetch(p)
         \/ PollEmpty \/ PollWait \/ PollWrite \/ RecheckMore \/ RecheckRest
         \/ Rest \/ Stop

LEMMA AsideKeeps == Aside => UNCHANGED <<buf, buffStart, buffEnd, bytes, file>>
BY DEF Aside, PrintLine, Drop, Accept, Fetch, PollEmpty, PollWait, PollWrite, Chunk,
       RecheckMore, RecheckRest, Rest, Stop, ring, printing, reading

LEMMA Steps ==
    Next => \/ Aside
            \/ \E p \in Printers : CopyByte(p) \/ PublishReport(p) \/ PublishLine(p)
            \/ WriteByte \/ Advance
BY DEF Next, PrinterStep, LogStep, Aside

LEMMA TypeStep == IInv /\ [Next]_vars => TypeOK'
<1> SUFFICES ASSUME IInv, [Next]_vars PROVE TypeOK'
  OBVIOUS
<1> USE LogAssumption DEF ring, printing, reading, Goto
<1>0. /\ RingType /\ PrinterType /\ LogThreadType
  BY DEF IInv, TypeOK
<1>1. ASSUME Aside PROVE TypeOK'
  <2>1. RingType'
    BY <1>0, <1>1, AsideKeeps
       DEF Aside, PrintLine, Drop, Accept, Fetch, PollEmpty, PollWait, PollWrite,
           Chunk, RecheckMore, RecheckRest, Rest, Stop, RingType
  <2>2. PrinterType'
    <3>1. ASSUME NEW p \in Printers, NEW n \in Lengths, PrintLine(p, n) PROVE PrinterType'
      BY <1>0, <3>1 DEF PrintLine, PrinterType
    <3>2. ASSUME NEW p \in Printers, Drop(p) PROVE PrinterType'
      BY <1>0, <3>2 DEF Drop, PrinterType
    <3>3. ASSUME NEW p \in Printers, Accept(p) \/ Fetch(p) PROVE PrinterType'
      BY <1>0, <3>3 DEF Accept, Fetch, PrinterType, RingType
    <3>4. CASE UNCHANGED printing
      BY <1>0, <3>4 DEF PrinterType
    <3> QED
      BY <1>1, <3>1, <3>2, <3>3, <3>4
         DEF Aside, PollEmpty, PollWait, PollWrite, RecheckMore, RecheckRest,
             Rest, Stop
  <2>3. LogThreadType'
    <3>1. CASE PollWait
      <4>1. /\ waited' = waited + 1 /\ ~(waited + 1 >= WaitMax)
            /\ rpc' = "rest"
            /\ UNCHANGED <<stop, wrote, file>>
        BY <3>1 DEF PollWait, Ripe, Waited
      <4>2. waited' \in 0..(WaitMax - 1)
        BY <1>0, <4>1 DEF LogThreadType
      <4> QED
        BY <1>0, <4>1, <4>2 DEF LogThreadType
    <3>2. CASE PollEmpty \/ PollWrite \/ RecheckMore \/ RecheckRest \/ Rest \/ Stop
      <4>1. /\ waited' \in {waited, 0} /\ wrote' \in {wrote, 0}
            /\ rpc' \in {"write", "rest", "done", "poll", rpc}
            /\ stop' \in {stop, TRUE}
            /\ file' = file
        BY <3>2 DEF PollEmpty, PollWrite, Chunk, RecheckMore, RecheckRest, Rest,
                    Stop
      <4>2. waited' \in 0..(WaitMax - 1) /\ wrote' \in Nat
        BY <1>0, <4>1 DEF LogThreadType
      <4> QED
        BY <1>0, <4>1, <4>2 DEF LogThreadType
    <3>3. CASE UNCHANGED <<stop, reading>>
      BY <1>0, <3>3 DEF LogThreadType
    <3> QED
      BY <1>1, <3>1, <3>2, <3>3 DEF Aside, PrintLine, Drop, Accept, Fetch
  <2> QED
    BY <2>1, <2>2, <2>3 DEF TypeOK
<1>2. ASSUME NEW p \in Printers, CopyByte(p) PROVE TypeOK'
  <2>1. Copying(p) /\ copied < CopyLen(p)
    BY <1>2 DEF CopyByte
  <2>2. Dest(p) \in Cells
    BY <2>1, CopyFacts
  <2>3. RingType'
    BY <1>0, <1>2, <2>2 DEF CopyByte, RingType, PrinterType
  <2> QED
    BY <1>0, <1>2, <2>3 DEF CopyByte, TypeOK, PrinterType, LogThreadType
<1>3. ASSUME NEW p \in Printers, PublishReport(p) \/ PublishLine(p) PROVE TypeOK'
  <2>1. Copying(p) /\ copied = CopyLen(p) /\ buffEnd' = Wrap(buffEnd + copied)
    BY <1>3 DEF PublishReport, PublishLine, Publish, Copying
  <2>2. copied \in Nat /\ copied <= BufSize
    <3>1. Filled \in Nat /\ Filled + CopyLen(p) < BufSize /\ CopyLen(p) \in Nat
      BY <2>1, CopyFacts
    <3> QED
      BY <2>1, <3>1
  <2>3. buffEnd' \in Cells
    BY <1>0, <2>1, <2>2, WrapCell DEF RingType
  <2>4. RingType'
    BY <1>0, <1>3, <2>3 DEF PublishReport, PublishLine, Publish, RingType
  <2>5. PrinterType'
    BY <1>0, <1>3 DEF PublishReport, PublishLine, Publish, CountAfterReport,
                      PrinterType
  <2>6. LogThreadType'
    BY <1>0, <1>3 DEF PublishReport, PublishLine, Publish, LogThreadType
  <2> QED
    BY <2>4, <2>5, <2>6 DEF TypeOK
<1>4. ASSUME WriteByte PROVE TypeOK'
  <2>1. buf[Source] \in Nat
    <3>1. rpc = "write" /\ wrote < ChunkLen
      BY <1>4 DEF WriteByte
    <3>2. /\ start \in Cells /\ end \in Cells /\ start # end /\ wrote \in Nat
      BY <1>0, <3>1 DEF IInv, ChunkInFront, RingType, LogThreadType
    <3>3. /\ wrote < BufSize
          /\ Source = Wrap(start + wrote)
      BY <3>1, <3>2, SourceIsNext, RemainFacts
    <3>4. Source \in Cells
      BY <3>2, <3>3, WrapCell
    <3> QED
      BY <1>0, <3>4 DEF RingType
  <2>2. LogThreadType'
    BY <1>0, <1>4, <2>1 DEF WriteByte, LogThreadType
  <2> QED
    BY <1>0, <1>4, <2>2 DEF WriteByte, TypeOK, RingType, PrinterType
<1>5. ASSUME Advance PROVE TypeOK'
  <2>1. NewStart \in Cells
    BY <1>0, RemainFacts, WrapCell DEF NewStart, RingType
  <2> QED
    BY <1>0, <1>5, <2>1 DEF Advance, TypeOK, RingType, PrinterType, LogThreadType
<1>6. CASE UNCHANGED vars
  BY <1>0, <1>6 DEF vars, TypeOK, RingType, PrinterType, LogThreadType
<1> QED
  BY <1>1, <1>2, <1>3, <1>4, <1>5, <1>6, Steps


LEMMA OneInsideStep == IInv /\ [Next]_vars => OneInside'
<1> SUFFICES ASSUME IInv, [Next]_vars PROVE OneInside'
  OBVIOUS
<1> USE DEF ring, printing, reading, Goto
<1>0. /\ OneInside /\ mutex \in Printers \cup {Free}
      /\ pc \in [Printers -> {"idle", "lock", "report", "fetch", "line"}]
      /\ Free \notin Printers
  BY LogAssumption DEF IInv, TypeOK, PrinterType
<1>1. ASSUME NEW p \in Printers, PrinterStep(p) \/ \E n \in Lengths : PrintLine(p, n)
      PROVE  OneInside'
  <2>1. \A q \in Printers : q # p => pc'[q] = pc[q]
    BY <1>0, <1>1 DEF PrinterStep, PrintLine, Drop, Accept, Fetch, CopyByte,
                      PublishReport, PublishLine
  <2>2. CASE \/ Drop(p) \/ \E n \in Lengths : PrintLine(p, n)
    <3>1. /\ ~Inside(p) /\ pc'[p] \in {"idle", "lock"} /\ mutex' = mutex
      BY <1>0, <2>2 DEF Drop, PrintLine, Lock, Inside
    <3> QED
      BY <1>0, <2>1, <3>1 DEF OneInside, Inside
  <2>3. CASE Accept(p)
    BY <1>0, <2>1, <2>3 DEF Accept, Lock, OneInside, Inside
  <2>4. CASE Fetch(p) \/ CopyByte(p) \/ PublishReport(p)
    BY <1>0, <2>1, <2>4 DEF Fetch, CopyByte, PublishReport, OneInside, Inside,
                            Copying
  <2>5. CASE PublishLine(p)
    BY <1>0, <2>1, <2>5 DEF PublishLine, OneInside, Inside
  <2> QED
    BY <1>1, <2>2, <2>3, <2>4, <2>5 DEF PrinterStep
<1>2. CASE LogStep \/ Stop \/ UNCHANGED vars
  <2>1. UNCHANGED <<pc, mutex>>
    BY <1>2 DEF LogStep, PollEmpty, PollWait, PollWrite, WriteByte, Advance,
                RecheckMore, RecheckRest, Rest, Stop, vars
  <2> QED
    BY <1>0, <2>1 DEF OneInside, Inside
<1> QED
  BY <1>1, <1>2 DEF Next

LEMMA LossesStep == IInv /\ [Next]_vars => LossesReported'
<1> SUFFICES ASSUME IInv, [Next]_vars PROVE LossesReported'
  OBVIOUS
<1> USE DEF ring, printing, reading
<1>0. /\ dropped = reported + lostLine
      /\ dropped \in Nat /\ reported \in Nat /\ lostLine \in Nat
  BY DEF IInv, TypeOK, PrinterType, LossesReported
<1>1. ASSUME NEW p \in Printers, Drop(p) PROVE LossesReported'
  BY <1>0, <1>1 DEF Drop, LossesReported
<1>2. ASSUME NEW p \in Printers, PublishReport(p) PROVE LossesReported'
  BY <1>0, <1>2 DEF PublishReport, Publish, CountAfterReport, LossesReported
<1>3. CASE UNCHANGED <<dropped, reported, lostLine>>
  BY <1>0, <1>3 DEF LossesReported
<1> QED
  BY <1>1, <1>2, <1>3
     DEF Next, PrinterStep, LogStep, PrintLine, Accept, Fetch, CopyByte, PublishLine,
         Publish, PollEmpty, PollWait, PollWrite, WriteByte, Advance, RecheckMore,
         RecheckRest, Rest, Stop, vars

\* The room pushLogBuffer computes, and what it means for a line of n bytes.
LEMMA RoomMeaning ==
    ASSUME IInv
    PROVE  /\ Filled \in Nat /\ Filled < BufSize
           /\ remainSize = BufSize - 1 - Filled
           /\ \A n \in Nat : Filled + n < BufSize /\ buffStart > buffEnd
                                => buffEnd + n < buffStart
<1>1. buffStart \in Cells /\ buffEnd \in Cells
  BY DEF IInv, TypeOK, RingType
<1>2. Filled \in Nat /\ Filled < BufSize
  BY <1>1, RemainFacts DEF Filled
<1> QED
  BY <1>1, <1>2, LogAssumption DEF Filled, RemainSize, remainSize, Cells

\* Publishing n bytes and giving back a chunk, as changes of Filled.
LEMMA PublishFills ==
    ASSUME IInv, NEW p \in Printers, PublishReport(p) \/ PublishLine(p)
    PROVE  /\ Copying(p) /\ copied = CopyLen(p)
           /\ UNCHANGED <<buf, buffStart, copied, msgLen, from, reading>>
           /\ copied \in Nat /\ Filled \in Nat /\ Filled + copied < BufSize
           /\ Filled' = Filled + copied
           /\ bytes \in Nat /\ bytes' = bytes + copied
<1>1. /\ Copying(p) /\ copied = CopyLen(p) /\ buffEnd' = Wrap(buffEnd + copied)
      /\ UNCHANGED <<buf, buffStart, copied, msgLen, from, reading>>
      /\ bytes' = bytes + copied
  BY DEF PublishReport, PublishLine, Publish, Copying, reading
<1>2. copied \in Nat /\ Filled \in Nat /\ Filled + copied < BufSize
  BY <1>1, CopyFacts
<1>3. buffStart \in Cells /\ buffEnd \in Cells /\ bytes \in Nat
  BY DEF IInv, TypeOK, RingType, PrinterType
<1>4. RemainSize(buffStart, Wrap(buffEnd + copied)) = Filled + copied
  BY <1>2, <1>3, RemainGrows DEF Filled
<1>5. Filled' = RemainSize(buffStart, Wrap(buffEnd + copied))
  BY <1>1 DEF Filled, RemainSize
<1> QED
  BY <1>1, <1>2, <1>3, <1>4, <1>5

LEMMA AdvanceFrees ==
    ASSUME IInv, Advance
    PROVE  /\ ChunkLen \in Nat /\ wrote = ChunkLen /\ wrote' = 0
           /\ ChunkLen <= Filled /\ Filled \in Nat /\ Filled < BufSize
           /\ Filled' = Filled - ChunkLen
           /\ buffStart' = Wrap(buffStart + ChunkLen)
           /\ rpc' = "recheck"
           /\ UNCHANGED <<buf, buffEnd, file, printing>>
<1>1. /\ rpc = "write" /\ wrote = ChunkLen /\ wrote' = 0 /\ rpc' = "recheck"
      /\ buffStart' = Wrap(buffStart + RemainSize(start, end))
      /\ UNCHANGED <<buf, buffEnd, file, printing>>
  BY DEF Advance, NewStart
<1>2. /\ start \in Cells /\ end \in Cells /\ wrote \in Nat
      /\ buffStart \in Cells /\ buffEnd \in Cells
      /\ start # end /\ RemainSize(start, end) <= Filled
  BY <1>1 DEF IInv, TypeOK, RingType, LogThreadType, ChunkInFront
<1>3. ChunkLen = RemainSize(start, end) /\ ChunkLen \in Nat
  BY <1>2, SourceIsNext, RemainFacts
<1>4. RemainSize(Wrap(buffStart + ChunkLen), buffEnd) = Filled - ChunkLen
  BY <1>2, <1>3, RemainShrinks DEF Filled
<1>5. Filled' = RemainSize(Wrap(buffStart + ChunkLen), buffEnd)
  BY <1>1, <1>3 DEF Filled, RemainSize
<1> QED
  BY <1>1, <1>2, <1>3, <1>4, <1>5, RoomMeaning


LEMMA RoomStep == IInv /\ [Next]_vars => RoomLeft'
<1> SUFFICES ASSUME IInv, [Next]_vars PROVE RoomLeft'
  OBVIOUS
<1> USE DEF Goto
<1>0. /\ RoomLeft /\ OneInside
      /\ pc \in [Printers -> {"idle", "lock", "report", "fetch", "line"}]
      /\ msgLen \in [Printers -> Nat] /\ copied \in Nat
      /\ lostLine \in Nat /\ LostLen \in Nat
      /\ BufSize \in Int
  BY LogAssumption DEF IInv, TypeOK, PrinterType
<1>f. Free \notin Printers
  BY LogAssumption
<1>1. ASSUME NEW p \in Printers, NEW n \in Lengths, PrintLine(p, n) PROVE RoomLeft'
  <2>1. /\ UNCHANGED <<buffStart, buffEnd, from, copied>>
        /\ ~Inside(p)'
        /\ \A q \in Printers : q # p => pc'[q] = pc[q] /\ msgLen'[q] = msgLen[q]
    BY <1>0, <1>1 DEF PrintLine, ring, Inside
  <2> QED
    BY <1>0, <2>1 DEF RoomLeft, Inside, Copying, CopyLen, ToCome, Filled, RemainSize
<1>2. ASSUME NEW p \in Printers, Drop(p) PROVE RoomLeft'
  <2>1. /\ UNCHANGED <<buffStart, buffEnd, from, copied, msgLen>>
        /\ ~Inside(p)'
        /\ \A q \in Printers : q # p => pc'[q] = pc[q]
    BY <1>0, <1>2 DEF Drop, ring, Inside
  <2> QED
    BY <1>0, <2>1 DEF RoomLeft, Inside, Copying, CopyLen, ToCome, Filled, RemainSize
<1>3. ASSUME NEW p \in Printers, Accept(p) \/ Fetch(p) PROVE RoomLeft'
  <2>1. /\ UNCHANGED <<buffStart, buffEnd, msgLen>>
        /\ from' = buffStart /\ copied' = 0
        /\ Inside(p)'
        /\ \A q \in Printers : q # p => pc'[q] = pc[q]
    BY <1>0, <1>3 DEF Accept, Fetch, ring, Inside
  <2>2. Filled' = Filled /\ Filled \in Nat
    BY <2>1, RoomMeaning DEF Filled, RemainSize
  <2>3. ToCome(p)' \in Nat /\ Filled + ToCome(p)' < BufSize
    <3>1. CASE Accept(p)
      <4>1. /\ remainSize > msgLen[p]
            /\ lostLine > 0 => remainSize > msgLen[p] + LostLen
            /\ pc'[p] = IF lostLine > 0 THEN "report" ELSE "fetch"
        BY <1>0, <3>1 DEF Accept, Fits
      <4>2. ToCome(p)' = IF lostLine > 0 THEN LostLen + msgLen[p] ELSE 0 + msgLen[p]
        BY <2>1, <4>1 DEF ToCome
      <4>3. remainSize = BufSize - 1 - Filled
        BY RoomMeaning
      <4> QED
        BY <1>0, <2>2, <4>1, <4>2, <4>3
    <3>2. CASE Fetch(p)
      <4>1. pc[p] = "fetch" /\ pc'[p] = "line"
        BY <1>0, <3>2 DEF Fetch
      <4>2. ToCome(p)' = 0 + msgLen[p] /\ ToCome(p) = 0 + msgLen[p]
        BY <2>1, <4>1 DEF ToCome
      <4> QED
        BY <1>0, <4>1, <4>2 DEF RoomLeft, Inside
    <3> QED
      BY <1>3, <3>1, <3>2
  <2>4. Copying(p)' => /\ CopyLen(p)' \in Nat /\ CopyLen(p)' <= ToCome(p)'
    BY <1>0, <2>1 DEF Copying, CopyLen, ToCome
  <2>5. /\ Filled' + ToCome(p)' < BufSize
        /\ Copying(p)' => /\ copied' <= CopyLen(p)'
                          /\ from' > buffEnd' => buffEnd' + CopyLen(p)' < from'
    <3>1. ASSUME Copying(p)' PROVE Filled + CopyLen(p)' < BufSize
      BY <1>0, <2>2, <2>3, <2>4, <3>1
    <3>2. ASSUME Copying(p)', buffStart > buffEnd
          PROVE  buffEnd + CopyLen(p)' < buffStart
      BY <2>4, <3>1, <3>2, RoomMeaning
    <3> QED
      BY <2>1, <2>2, <2>3, <2>4, <3>2
  <2>6. \A q \in Printers : q # p => ~Inside(q)'
    <3>1. \A q \in Printers : q # p => ~Inside(q)
      BY <1>0, <1>f, <1>3 DEF Accept, Fetch, Lock, OneInside, Inside
    <3> QED
      BY <2>1, <3>1 DEF Inside
  <2> QED
    BY <2>5, <2>6 DEF RoomLeft, Inside, Copying
<1>4. ASSUME NEW p \in Printers, CopyByte(p) PROVE RoomLeft'
  <2>1. /\ UNCHANGED <<buffStart, buffEnd, pc, msgLen, from>>
        /\ Copying(p) /\ copied < CopyLen(p) /\ copied' = copied + 1
    BY <1>4 DEF CopyByte
  <2>2. CopyLen(p) \in Nat /\ Inside(p)
    BY <2>1, CopyFacts
  <2>3. \A q \in Printers : q # p => ~Inside(q)
    BY <1>0, <2>2 DEF OneInside
  <2>4. copied' <= CopyLen(p)
    BY <1>0, <2>1, <2>2
  <2>5. CopyLen(p)' = CopyLen(p) /\ ToCome(p)' = ToCome(p) /\ Filled' = Filled
    BY <2>1 DEF CopyLen, ToCome, Filled, RemainSize
  <2> QED
    BY <1>0, <2>1, <2>2, <2>3, <2>4, <2>5 DEF RoomLeft, Inside, Copying
<1>5. ASSUME NEW p \in Printers, PublishReport(p) PROVE RoomLeft'
  <2>1. pc[p] = "report" /\ pc' = [pc EXCEPT ![p] = "fetch"]
    BY <1>5 DEF PublishReport
  <2>2. /\ Inside(p) /\ CopyLen(p) = LostLen /\ ToCome(p) = LostLen + msgLen[p]
    BY <2>1 DEF Inside, CopyLen, ToCome
  <2>3. Filled' = Filled + LostLen /\ msgLen' = msgLen /\ Filled \in Nat
    BY <1>5, <2>2, PublishFills
  <2>4. ToCome(p)' = 0 + msgLen[p]
    BY <1>0, <2>1, <2>3 DEF ToCome
  <2>5. Filled' + ToCome(p)' < BufSize
    BY <1>0, <2>2, <2>3, <2>4 DEF RoomLeft
  <2>6. \A q \in Printers : q # p => ~Inside(q)'
    BY <1>0, <2>1, <2>2 DEF OneInside, Inside
  <2>7. ~Copying(p)'
    BY <1>0, <2>1 DEF Copying
  <2> QED
    BY <2>5, <2>6, <2>7 DEF RoomLeft, Inside, Copying
<1>6. ASSUME NEW p \in Printers, PublishLine(p) PROVE RoomLeft'
  <2>1. \A q \in Printers : ~Inside(q)'
    BY <1>0, <1>6 DEF PublishLine, OneInside, Inside
  <2> QED
    BY <2>1 DEF RoomLeft, Inside, Copying
<1>7. ASSUME Advance PROVE RoomLeft'
  <2>1. /\ ChunkLen \in Nat /\ Filled \in Nat
        /\ ChunkLen <= Filled /\ Filled' = Filled - ChunkLen
        /\ UNCHANGED <<buffEnd, pc, msgLen, from, copied>>
    BY <1>7, AdvanceFrees DEF printing
  <2>2. \A q \in Printers : /\ CopyLen(q)' = CopyLen(q) /\ ToCome(q)' = ToCome(q)
                            /\ ToCome(q) \in Nat
    BY <1>0, <2>1 DEF CopyLen, ToCome
  <2>3. Filled' <= Filled /\ Filled' \in Nat
    BY <2>1
  <2>4. ASSUME NEW q \in Printers, Inside(q) PROVE Filled' + ToCome(q) < BufSize
    BY <1>0, <2>1, <2>2, <2>3, <2>4 DEF RoomLeft
  <2> QED
    BY <1>0, <2>1, <2>2, <2>4 DEF RoomLeft, Inside, Copying
<1>8. CASE \/ PollEmpty \/ PollWait \/ PollWrite \/ WriteByte \/ RecheckMore
           \/ RecheckRest \/ Rest \/ Stop \/ UNCHANGED vars
  <2>1. UNCHANGED <<buffStart, buffEnd, pc, msgLen, from, copied>>
    BY <1>8 DEF PollEmpty, PollWait, PollWrite, WriteByte, RecheckMore,
                RecheckRest, Rest, Stop, vars, ring, printing
  <2> QED
    BY <1>0, <2>1 DEF RoomLeft, Inside, Copying, CopyLen, ToCome, Filled, RemainSize
<1> QED
  BY <1>1, <1>2, <1>3, <1>4, <1>5, <1>6, <1>7, <1>8
     DEF Next, PrinterStep, LogStep


\* The bytes already in the ring, and the bytes of the copy at hand.
Held == \A k \in 0..(Filled - 1) :
            buf[Wrap(buffStart + k)] = (bytes - Filled) + k + 1
Started(p) == \A k \in 0..(copied - 1) : buf[Wrap(buffEnd + k)] = bytes + k + 1

LEMMA ContentsParts ==
    Contents <=> Held /\ \A p \in Printers : Copying(p) => Started(p)
BY DEF Contents, Held, Started

\* A copied byte goes behind the ring's contents and behind the bytes copied
\* before it.
LEMMA CopyKeeps ==
    ASSUME IInv, NEW p \in Printers, CopyByte(p)
    PROVE  Held' /\ Started(p)'
<1>1. /\ Copying(p) /\ copied < CopyLen(p) /\ copied' = copied + 1
      /\ buf' = [buf EXCEPT ![Dest(p)] = bytes + copied + 1]
      /\ UNCHANGED <<buffStart, buffEnd, bytes>>
  BY DEF CopyByte
<1>2. /\ CopyLen(p) \in Nat /\ copied \in Nat
      /\ Filled \in Nat /\ Filled + CopyLen(p) < BufSize
      /\ Dest(p) = Wrap(buffEnd + copied) /\ Dest(p) \in Cells
  BY <1>1, CopyFacts
<1>3. /\ buf \in [Cells -> Nat] /\ buffStart \in Cells /\ buffEnd \in Cells
      /\ bytes \in Nat /\ BufSize \in Int
  BY LogAssumption DEF IInv, TypeOK, RingType, PrinterType
<1>4. Held /\ Started(p)
  BY <1>1, ContentsParts DEF IInv
<1>5. Filled' = Filled
  BY <1>1 DEF Filled, RemainSize
<1>6. Wrap(buffStart + Filled) = buffEnd
  BY <1>3, RemainFacts DEF Filled
<1>7. Dest(p) = Wrap(buffStart + (Filled + copied))
  <2>1. Filled + copied < BufSize
    BY <1>1, <1>2, <1>3
  <2> QED
    BY <1>2, <1>3, <1>6, <2>1, WrapTwice
<1>8. Held'
  <2> SUFFICES ASSUME NEW k \in 0..(Filled - 1)
               PROVE  buf'[Wrap(buffStart + k)] = (bytes - Filled) + k + 1
    BY <1>1, <1>5 DEF Held, Wrap
  <2>1. /\ k \in Nat /\ k < BufSize /\ k # Filled + copied
        /\ Filled + copied \in Nat /\ Filled + copied < BufSize
    BY <1>1, <1>2, <1>3
  <2>2. Wrap(buffStart + k) # Dest(p)
    BY <1>3, <1>7, <2>1, WrapApart
  <2>3. Wrap(buffStart + k) \in Cells
    BY <1>3, <2>1, WrapCell
  <2> QED
    BY <1>1, <1>3, <1>4, <2>2, <2>3 DEF Held
<1>9. Started(p)'
  <2> SUFFICES ASSUME NEW k \in 0..copied
               PROVE  buf'[Wrap(buffEnd + k)] = bytes + k + 1
    BY <1>1, <1>2 DEF Started, Wrap
  <2>0. k \in Nat /\ k < BufSize /\ copied < BufSize
    BY <1>1, <1>2, <1>3
  <2>1. CASE k = copied
    BY <1>1, <1>2, <1>3, <2>1
  <2>2. CASE k # copied
    <3>1. Wrap(buffEnd + k) # Dest(p)
      BY <1>2, <1>3, <2>0, <2>2, WrapApart
    <3>2. Wrap(buffEnd + k) \in Cells
      BY <1>3, <2>0, WrapCell
    <3>3. k \in 0..(copied - 1)
      BY <1>2, <2>2
    <3> QED
      BY <1>1, <1>3, <1>4, <3>1, <3>2, <3>3 DEF Started
  <2> QED
    BY <2>1, <2>2
<1> QED
  BY <1>8, <1>9

\* Publishing makes the copied bytes part of the contents.
LEMMA PublishKeeps ==
    ASSUME IInv, NEW p \in Printers, PublishReport(p) \/ PublishLine(p)
    PROVE  Held'
<1>1. /\ Copying(p) /\ buf' = buf /\ buffStart' = buffStart
      /\ copied \in Nat /\ Filled \in Nat /\ Filled + copied < BufSize
      /\ Filled' = Filled + copied
      /\ bytes \in Nat /\ bytes' = bytes + copied
  BY PublishFills
<1>2. /\ buffStart \in Cells /\ buffEnd \in Cells /\ BufSize \in Int
  BY LogAssumption DEF IInv, TypeOK, RingType
<1>3. Held /\ Started(p)
  BY <1>1, ContentsParts DEF IInv
<1>4. Wrap(buffStart + Filled) = buffEnd
  BY <1>2, RemainFacts DEF Filled
<1>5. bytes' - Filled' = bytes - Filled
  BY <1>1
<1> SUFFICES ASSUME NEW k \in 0..(Filled + copied - 1)
             PROVE  buf[Wrap(buffStart + k)] = (bytes - Filled) + k + 1
  BY <1>1, <1>5 DEF Held, Wrap
<1>6. CASE k < Filled
  <2>1. k \in 0..(Filled - 1)
    BY <1>1, <1>6
  <2> QED
    BY <1>3, <2>1 DEF Held
<1>7. CASE k >= Filled
  <2>1. PICK j \in 0..(copied - 1) : k = Filled + j
    <3>1. k - Filled \in 0..(copied - 1) /\ k = Filled + (k - Filled)
      BY <1>1, <1>7
    <3> QED
      BY <3>1
  <2>2. Wrap(buffEnd + j) = Wrap(buffStart + k)
    <3>1. j \in Nat /\ Filled + j < BufSize
      BY <1>1, <1>2, <2>1
    <3> QED
      BY <1>1, <1>2, <1>4, <2>1, <3>1, WrapTwice
  <2>3. buf[Wrap(buffEnd + j)] = bytes + j + 1
    BY <1>3, <2>1 DEF Started
  <2>4. bytes + j + 1 = (bytes - Filled) + k + 1
    BY <1>1, <2>1
  <2> QED
    BY <2>2, <2>3, <2>4
<1> QED
  BY <1>1, <1>6, <1>7

\* Giving back a chunk leaves the rest of the contents.
LEMMA AdvanceKeeps ==
    ASSUME IInv, Advance
    PROVE  Held'
<1>1. /\ ChunkLen \in Nat /\ Filled \in Nat /\ Filled < BufSize
      /\ ChunkLen <= Filled /\ Filled' = Filled - ChunkLen
      /\ buffStart' = Wrap(buffStart + ChunkLen)
      /\ buf' = buf /\ bytes' = bytes
  BY AdvanceFrees DEF printing
<1>2. buffStart \in Cells /\ bytes \in Nat /\ BufSize \in Int
  BY LogAssumption DEF IInv, TypeOK, RingType, PrinterType
<1>3. Held
  BY ContentsParts DEF IInv
<1> SUFFICES ASSUME NEW k \in 0..(Filled - ChunkLen - 1)
             PROVE  buf[Wrap(Wrap(buffStart + ChunkLen) + k)]
                      = (bytes - (Filled - ChunkLen)) + k + 1
  BY <1>1 DEF Held, Wrap
<1>4. k \in Nat /\ ChunkLen + k \in 0..(Filled - 1) /\ ChunkLen + k < BufSize
  BY <1>1, <1>2
<1>5. Wrap(Wrap(buffStart + ChunkLen) + k) = Wrap(buffStart + (ChunkLen + k))
  BY <1>1, <1>2, <1>4, WrapTwice
<1>6. buf[Wrap(buffStart + (ChunkLen + k))] = (bytes - Filled) + (ChunkLen + k) + 1
  BY <1>3, <1>4 DEF Held
<1> QED
  BY <1>1, <1>2, <1>4, <1>5, <1>6

LEMMA ContentsStep == IInv /\ [Next]_vars => Contents'
<1> SUFFICES ASSUME IInv, [Next]_vars PROVE Contents'
  OBVIOUS
<1> USE DEF Goto
<1>0. /\ Held /\ \A p \in Printers : Copying(p) => Started(p)
      /\ OneInside /\ copied \in Nat
      /\ pc \in [Printers -> {"idle", "lock", "report", "fetch", "line"}]
  BY ContentsParts DEF IInv, TypeOK, PrinterType
<1>p. Contents' <=> Held' /\ \A p \in Printers : Copying(p)' => Started(p)'
  BY DEF Contents, Held, Started
<1>1. ASSUME UNCHANGED <<buf, buffStart, buffEnd, bytes>>,
             \A p \in Printers :
                Copying(p)' => copied' = 0 \/ (Copying(p) /\ copied' = copied)
      PROVE  Contents'
  <2>1. Held'
    BY <1>0, <1>1 DEF Held, Filled, RemainSize, Wrap
  <2>2. ASSUME NEW p \in Printers, Copying(p)' PROVE Started(p)'
    <3>1. CASE copied' = 0
      BY <3>1 DEF Started
    <3>2. CASE Copying(p) /\ copied' = copied
      BY <1>0, <1>1, <3>2 DEF Started, Wrap
    <3> QED
      BY <1>1, <2>2, <3>1, <3>2
  <2> QED
    BY <1>p, <2>1, <2>2
<1>2. ASSUME Aside PROVE Contents'
  <2>1. UNCHANGED <<buf, buffStart, buffEnd, bytes>>
    BY <1>2, AsideKeeps
  <2>2. ASSUME NEW p \in Printers, Copying(p)'
        PROVE  copied' = 0 \/ (Copying(p) /\ copied' = copied)
    <3>1. CASE UNCHANGED <<pc, copied>>
      BY <2>2, <3>1 DEF Copying
    <3>2. ASSUME NEW q \in Printers, Drop(q) \/ \E n \in Lengths : PrintLine(q, n)
          PROVE  Copying(p) /\ copied' = copied
      BY <1>0, <2>2, <3>2 DEF Drop, PrintLine, Copying
    <3>3. ASSUME NEW q \in Printers, Accept(q) \/ Fetch(q) PROVE copied' = 0
      BY <3>3 DEF Accept, Fetch
    <3> QED
      BY <1>2, <3>1, <3>2, <3>3
         DEF Aside, PollEmpty, PollWait, PollWrite, RecheckMore, RecheckRest,
             Rest, Stop, printing
  <2> QED
    BY <1>1, <2>1, <2>2
<1>3. ASSUME NEW p \in Printers, CopyByte(p) PROVE Contents'
  <2>1. pc' = pc /\ Copying(p)
    BY <1>3 DEF CopyByte
  <2>2. \A q \in Printers : Copying(q)' => q = p
    BY <1>0, <2>1 DEF OneInside, Inside, Copying
  <2> QED
    BY <1>3, <1>p, <2>2, CopyKeeps
<1>4. ASSUME NEW p \in Printers, PublishReport(p) \/ PublishLine(p) PROVE Contents'
  <2>1. \A q \in Printers : ~Copying(q)'
    BY <1>0, <1>4 DEF PublishReport, PublishLine, OneInside, Inside, Copying
  <2> QED
    BY <1>4, <1>p, <2>1, PublishKeeps
<1>5. ASSUME Advance PROVE Contents'
  <2>1. UNCHANGED <<buf, buffEnd, printing>>
    BY <1>5 DEF Advance
  <2>2. \A q \in Printers : Copying(q)' => Started(q)'
    BY <1>0, <2>1 DEF Copying, Started, Wrap, printing
  <2> QED
    BY <1>5, <1>p, <2>2, AdvanceKeeps
<1>6. CASE WriteByte \/ UNCHANGED vars
  BY <1>1, <1>6 DEF WriteByte, vars, ring, printing, Copying
<1> QED
  BY <1>2, <1>3, <1>4, <1>5, <1>6, Steps

LEMMA ChunkStep == IInv /\ [Next]_vars => ChunkInFront'
<1> SUFFICES ASSUME IInv, [Next]_vars PROVE ChunkInFront'
  OBVIOUS
<1>0. /\ Len(file) = (bytes - Filled) + wrote
      /\ rpc # "write" => wrote = 0
      /\ rpc = "write" => /\ start = buffStart /\ start # end
                          /\ RemainSize(start, end) <= Filled
                          /\ wrote <= ChunkLen
      /\ buffStart \in Cells /\ buffEnd \in Cells
      /\ start \in Cells /\ end \in Cells
      /\ wrote \in Nat /\ bytes \in Nat /\ Filled \in Nat /\ file \in Seq(Nat)
  BY RoomMeaning
     DEF IInv, TypeOK, RingType, LogThreadType, PrinterType, ChunkInFront
<1>1. CASE PollWrite \/ RecheckMore
  <2>1. /\ start' = buffStart /\ end' = buffEnd /\ wrote' = 0 /\ rpc' = "write"
        /\ rpc # "write"
        /\ UNCHANGED <<buf, buffStart, buffEnd, bytes, file>>
    BY <1>1 DEF PollWrite, RecheckMore, Chunk, ring, printing
  <2>2. buffStart # buffEnd
    <3>1. CASE PollWrite
      BY <3>1 DEF PollWrite
    <3>2. CASE RecheckMore
      <4>1. RemainSize(buffStart, buffEnd) >= minBuffSize
        BY <3>2 DEF RecheckMore
      <4>2. minBuffSize \in Nat /\ minBuffSize >= 1
        BY LogAssumption DEF minBuffSize
      <4>3. RemainSize(buffStart, buffEnd) # 0
        BY <1>0, <4>1, <4>2, RemainFacts
      <4> QED
        BY <1>0, <4>3, RemainFacts
    <3> QED
      BY <1>1, <3>1, <3>2
  <2>3. Filled' = Filled /\ RemainSize(start, end)' = Filled
    BY <2>1 DEF Filled, RemainSize
  <2>4. ChunkLen' \in Nat
    <3>1. ChunkLen' = IF buffStart < buffEnd THEN RemainSize(buffStart, buffEnd)
                                             ELSE (BufSize - buffStart) + buffEnd
      BY <2>1 DEF ChunkLen, RemainSize
    <3>2. RemainSize(buffStart, buffEnd) \in Nat
      BY <1>0, RemainFacts
    <3>3. BufSize \in Nat /\ buffStart \in 0..(BufSize - 1) /\ buffEnd \in 0..(BufSize - 1)
      BY <1>0, LogAssumption DEF Cells
    <3>4. (BufSize - buffStart) + buffEnd \in Nat
      BY <3>3
    <3> QED
      BY <3>1, <3>2, <3>4
  <2> QED
    BY <1>0, <2>1, <2>2, <2>3, <2>4 DEF ChunkInFront
<1>2. ASSUME UNCHANGED <<buffStart, buffEnd, bytes, file, start, end, wrote, rpc>>
      PROVE  ChunkInFront'
  BY <1>0, <1>2 DEF ChunkInFront, Filled, RemainSize, ChunkLen
<1>3. CASE PollEmpty \/ PollWait \/ RecheckRest \/ Rest
  <2>1. /\ rpc # "write" /\ rpc' # "write"
        /\ UNCHANGED <<buffStart, buffEnd, bytes, file, start, end, wrote>>
    BY <1>3 DEF PollEmpty, PollWait, RecheckRest, Rest, ring, printing
  <2> QED
    BY <1>0, <2>1 DEF ChunkInFront, Filled, RemainSize
<1>4. ASSUME NEW p \in Printers, PublishReport(p) \/ PublishLine(p)
      PROVE  ChunkInFront'
  <2>1. /\ copied \in Nat /\ Filled' = Filled + copied /\ bytes' = bytes + copied
        /\ UNCHANGED <<buffStart, rpc, start, end, wrote, file>>
    BY <1>4, PublishFills DEF reading
  <2>2. RemainSize(start, end)' = RemainSize(start, end) /\ ChunkLen' = ChunkLen
    BY <2>1 DEF RemainSize, ChunkLen
  <2>3. bytes' - Filled' = bytes - Filled
    BY <1>0, <2>1
  <2>4. RemainSize(start, end) \in Nat
    BY <1>0, RemainFacts
  <2> QED
    BY <1>0, <2>1, <2>2, <2>3, <2>4 DEF ChunkInFront
<1>5. CASE WriteByte
  <2>1. /\ rpc = "write" /\ wrote < ChunkLen /\ wrote' = wrote + 1
        /\ file' = Append(file, buf[Source])
        /\ UNCHANGED <<rpc, buffStart, buffEnd, bytes, start, end>>
    BY <1>5 DEF WriteByte, ring, printing
  <2>2. Len(file') = Len(file) + 1
    BY <1>0, <2>1
  <2>3. ChunkLen \in Nat /\ wrote' <= ChunkLen
    BY <1>0, <2>1, SourceIsNext, RemainFacts
  <2>4. /\ RemainSize(start, end)' = RemainSize(start, end) /\ ChunkLen' = ChunkLen
        /\ Filled' = Filled
    BY <2>1 DEF RemainSize, ChunkLen, Filled
  <2> QED
    BY <1>0, <2>1, <2>2, <2>3, <2>4 DEF ChunkInFront
<1>6. CASE Advance
  <2>1. /\ ChunkLen \in Nat /\ wrote = ChunkLen /\ wrote' = 0
        /\ Filled' = Filled - ChunkLen
        /\ rpc' = "recheck" /\ file' = file /\ bytes' = bytes
    BY <1>6, AdvanceFrees DEF printing
  <2>2. Len(file') = (bytes' - Filled') + wrote'
    BY <1>0, <2>1
  <2> QED
    BY <2>1, <2>2 DEF ChunkInFront
<1>7. CASE \/ \E p \in Printers : \/ \E n \in Lengths : PrintLine(p, n)
                                  \/ Drop(p) \/ Accept(p) \/ Fetch(p) \/ CopyByte(p)
           \/ Stop \/ UNCHANGED vars
  BY <1>2, <1>7 DEF PrintLine, Drop, Accept, Fetch, CopyByte, Stop, vars, ring,
                    printing, reading
<1> QED
  BY <1>1, <1>3, <1>4, <1>5, <1>6, <1>7, Steps DEF Aside

LEMMA FileStep == IInv /\ [Next]_vars => FileInOrder'
<1> SUFFICES ASSUME IInv, [Next]_vars PROVE FileInOrder'
  OBVIOUS
<1>0. FileInOrder /\ file \in Seq(Nat)
  BY DEF IInv, TypeOK, LogThreadType
<1>1. CASE WriteByte
  <2>1. rpc = "write" /\ wrote < ChunkLen /\ file' = Append(file, buf[Source])
    BY <1>1 DEF WriteByte
  <2>2. /\ start = buffStart /\ start # end /\ start \in Cells /\ end \in Cells
        /\ RemainSize(start, end) <= Filled /\ wrote \in Nat
        /\ Len(file) = (bytes - Filled) + wrote
        /\ bytes \in Nat
    BY <2>1 DEF IInv, TypeOK, RingType, LogThreadType, PrinterType, ChunkInFront
  <2>3. /\ ChunkLen = RemainSize(start, end) /\ Source = Wrap(start + wrote)
        /\ ChunkLen \in Nat
    BY <2>1, <2>2, SourceIsNext, RemainFacts
  <2>4. wrote \in 0..(Filled - 1) /\ Filled \in Nat
    BY <2>1, <2>2, <2>3, RoomMeaning
  <2>5. buf[Source] = (bytes - Filled) + wrote + 1
    BY <2>2, <2>3, <2>4 DEF IInv, Contents
  <2>6. buf[Source] = Len(file) + 1
    BY <2>2, <2>4, <2>5
  <2> QED
    BY <1>0, <2>1, <2>6 DEF FileInOrder
<1>2. CASE file' = file
  BY <1>0, <1>2 DEF FileInOrder
<1> QED
  BY <1>1, <1>2, Steps, AsideKeeps
     DEF CopyByte, PublishReport, PublishLine, Publish, Advance, vars, reading

LEMMA StepInv == IInv /\ [Next]_vars => IInv'
BY TypeStep, OneInsideStep, RoomStep, ContentsStep, ChunkStep, FileStep, LossesStep
   DEF IInv

\* The inductive invariant of the ring holds in every reachable state.
THEOREM LogInvariance == Spec => []IInv
BY InitInv, StepInv, PTL DEF Spec

\* Types: buffStart and buffEnd (MBT_log.c:350, MBT_log.c:221) stay inside the buffer.
THEOREM LogTypeCorrect == Spec => []TypeOK
<1>1. IInv => TypeOK
  BY DEF IInv
<1> QED
  BY LogInvariance, <1>1, PTL

\* The log thread reads the ring without the mutex (MBT_log.c:176), and still the
\* file is the stream of accepted bytes, in order and complete.
THEOREM FileCorrect == Spec => []FileInOrder
<1>1. IInv => FileInOrder
  BY DEF IInv
<1> QED
  BY LogInvariance, <1>1, PTL

\* Every byte copied by copyLogBuffer (MBT_log.c:339) lands inside the buffer,
\* although buffStart may have moved since the room was checked.
THEOREM CopiesInside == Spec => []InsideBuffer
<1>1. IInv => InsideBuffer
  BY CopyFacts DEF InsideBuffer
<1> QED
  BY LogInvariance, <1>1, PTL

\* Lines dropped by pushLogBuffer (MBT_log.c:375) are reported in the log or
\* still counted in lostLine.
THEOREM LossesCounted == Spec => []LossesReported
<1>1. IInv => LossesReported
  BY DEF IInv
<1> QED
  BY LogInvariance, <1>1, PTL
=============================================================================
