------------------------------ MODULE LogRing ------------------------------
(***************************************************************************)
(* The ring buffer of src/utils/src/MBT_log.c.  Printing threads copy      *)
(* whole lines into it under buffMutex (pushLogBuffer); the log thread     *)
(* writes what it finds between buffStart and buffEnd to the log file      *)
(* (doWriteLog) and takes no mutex at all.                                 *)
(*                                                                         *)
(* A step is one access to memory the two sides share: the check of the    *)
(* room, one byte copied in or out, the update of an index.  A byte is     *)
(* named by its position in the stream of all bytes the ring accepted, so  *)
(* a file is right when it reads 1, 2, 3, ...  Threads see each other's    *)
(* writes in program order, as on the x86 machines the Linux build runs on *)
(* (memcpy is a call the compiler keeps in front of the store to buffEnd). *)
(***************************************************************************)
EXTENDS Integers, Sequences

CONSTANTS
    Printers,    \* threads in MBT_printLog
    BufSize,     \* buffSize, MBT_DEFAULT_LOG_BUF_SIZE in the program
    Lengths,     \* lengths of printed lines
    LostLen,     \* length of "...Lost n lines here..."
    WaitMax,     \* polls in LOG_MAX_WAIT_MSEC
    LineMax,     \* bound: lines printed
    Free         \* the owner of an unlocked mutex

ASSUME LogAssumption ==
    /\ BufSize \in Nat
    /\ BufSize >= 10    \* or minBuffSize is 0, and an empty ring a chunk
    /\ Lengths \subseteq Nat \ {0}
    /\ LostLen \in Nat \ {0}
    /\ WaitMax \in Nat \ {0}
    /\ LineMax \in Nat
    /\ Free \notin Printers

minBuffSize == BufSize \div 10

VARIABLES
    buf,         \* the buffer, byte by byte
    buffStart, buffEnd,
    lostLine,    \* lines dropped since the last report
    stop,        \* MBT_closeLog was called
    mutex,       \* the printer that owns buffMutex, or Free
    pc,          \* where each printer is
    msgLen,      \* msgLen[p]: length of the line p prints
    from,        \* the owner's view of buffStart when it copies
    copied,      \* bytes of the current copy done
    rpc,         \* where the log thread is
    start, end,  \* doWriteLog's local indexes
    wrote,       \* bytes of the current chunk written
    waited,      \* lastDuration, in polls
    file,        \* what was written to the log file
    bytes,       \* bytes accepted, for naming them
    lines, dropped, reported   \* lines printed, dropped, reported as lost

ring == <<buf, buffStart, buffEnd>>
printing == <<lostLine, mutex, pc, msgLen, from, copied, bytes, lines, dropped,
              reported>>
reading == <<rpc, start, end, wrote, waited, file>>
vars == <<ring, stop, printing, reading>>

Cells == 0..(BufSize - 1)

\* Variant: the modulo is forgotten.
WrapNever(x) == x

\* x % BufSize, for the indexes that occur: x < 2 * BufSize.
Wrap(x) == IF x < BufSize THEN x ELSE x - BufSize

Init == /\ buf = [i \in Cells |-> 0]
        /\ buffStart = 0 /\ buffEnd = 0
        /\ lostLine = 0
        /\ stop = FALSE
        /\ mutex = Free
        /\ pc = [p \in Printers |-> "idle"]
        /\ msgLen = [p \in Printers |-> 0]
        /\ from = 0 /\ copied = 0
        /\ rpc = "poll"
        /\ start = 0 /\ end = 0
        /\ wrote = 0 /\ waited = 0
        /\ file = <<>>
        /\ bytes = 0
        /\ lines = 0 /\ dropped = 0 /\ reported = 0

----------------------------------------------------------------------------
(* MBT_printLog, pushLogBuffer, copyLogBuffer                              *)

Goto(p, where) == pc' = [pc EXCEPT ![p] = where]

\* A line is printed unless the log is being closed.
PrintLine(p, n) ==
    /\ pc[p] = "idle"
    /\ ~stop
    /\ lines < LineMax
    /\ lines' = lines + 1
    /\ msgLen' = [msgLen EXCEPT ![p] = n]
    /\ Goto(p, "lock")
    /\ UNCHANGED <<ring, stop, lostLine, mutex, from, copied, bytes, dropped,
                   reported, reading>>

remainSize == IF buffStart > buffEnd THEN buffStart - buffEnd - 1
                                     ELSE buffStart + BufSize - buffEnd - 1

\* Variant: room for the line only, not for the report in front of it.
FitsWithoutReport(p) == remainSize > msgLen[p]

Fits(p) == /\ remainSize > msgLen[p]
           /\ lostLine > 0 => remainSize > msgLen[p] + LostLen

Lock(p) == pc[p] = "lock" /\ mutex = Free

\* The line does not fit: it is counted as lost.
Drop(p) ==
    /\ Lock(p)
    /\ ~Fits(p)
    /\ lostLine' = lostLine + 1
    /\ dropped' = dropped + 1
    /\ Goto(p, "idle")
    /\ UNCHANGED <<ring, stop, mutex, msgLen, from, copied, bytes, lines,
                   reported, reading>>

\* It fits: the report of lost lines goes first, if there is one.
Accept(p) ==
    /\ Lock(p)
    /\ Fits(p)
    /\ mutex' = p
    /\ from' = buffStart
    /\ copied' = 0
    /\ Goto(p, IF lostLine > 0 THEN "report" ELSE "fetch")
    /\ UNCHANGED <<ring, stop, lostLine, msgLen, bytes, lines, dropped,
                   reported, reading>>

\* The second call of copyLogBuffer looks at buffStart again.
Fetch(p) ==
    /\ pc[p] = "fetch"
    /\ from' = buffStart
    /\ copied' = 0
    /\ Goto(p, "line")
    /\ UNCHANGED <<ring, stop, lostLine, mutex, msgLen, bytes, lines, dropped,
                   reported, reading>>

\* What is being copied: the report or the line.
CopyLen(p) == IF pc[p] = "report" THEN LostLen ELSE msgLen[p]

\* Variant: the copy never wraps.
Straight(p) == buffEnd + copied

\* The cell of the next byte: straight on below buffStart, or when the line
\* fits before the buffer's end; otherwise in two pieces.
Dest(p) ==
    IF /\ from <= buffEnd
       /\ BufSize - buffEnd < CopyLen(p)
       /\ copied >= BufSize - buffEnd
    THEN copied - (BufSize - buffEnd)
    ELSE buffEnd + copied

Copying(p) == pc[p] \in {"report", "line"}

CopyByte(p) ==
    /\ Copying(p)
    /\ copied < CopyLen(p)
    /\ buf' = [buf EXCEPT ![Dest(p)] = bytes + copied + 1]
    /\ copied' = copied + 1
    /\ UNCHANGED <<buffStart, buffEnd, stop, lostLine, mutex, pc, msgLen, from,
                   bytes, lines, dropped, reported, reading>>

Publish(p) ==
    /\ copied = CopyLen(p)
    /\ buffEnd' = Wrap(buffEnd + copied)
    /\ bytes' = bytes + copied
    /\ UNCHANGED <<buf, buffStart, stop, msgLen, from, copied, lines, dropped,
                   reading>>

\* Variant: the report does not reset the count.
CountKept == lostLine

CountAfterReport == 0

PublishReport(p) ==
    /\ pc[p] = "report"
    /\ Publish(p)
    /\ reported' = reported + lostLine
    /\ lostLine' = CountAfterReport
    /\ Goto(p, "fetch")
    /\ UNCHANGED mutex

\* The line is in the ring and the mutex is released.
PublishLine(p) ==
    /\ pc[p] = "line"
    /\ Publish(p)
    /\ mutex' = Free
    /\ Goto(p, "idle")
    /\ UNCHANGED <<lostLine, reported>>

----------------------------------------------------------------------------
(* asyncOutputLog, doWriteLog                                              *)

\* getLogRemainSize
RemainSize(s, e) == IF e >= s THEN e - s ELSE BufSize + (e - s)

\* Variant: the time waited is forgotten when nothing is written.
WaitForgotten(n) == 0

Waited(n) == n

Ripe == RemainSize(buffStart, buffEnd) >= minBuffSize \/ waited + 1 >= WaitMax

\* Nothing to write.
PollEmpty ==
    /\ rpc = "poll"
    /\ buffStart = buffEnd
    /\ rpc' = "rest"
    /\ UNCHANGED <<ring, stop, printing, start, end, wrote, waited, file>>

\* Too little to write, and not for long enough.
PollWait ==
    /\ rpc = "poll"
    /\ buffStart # buffEnd
    /\ ~Ripe
    /\ waited' = Waited(waited + 1)
    /\ rpc' = "rest"
    /\ UNCHANGED <<ring, stop, printing, start, end, wrote, file>>

Chunk == /\ start' = buffStart /\ end' = buffEnd
         /\ wrote' = 0
         /\ rpc' = "write"

PollWrite ==
    /\ rpc = "poll"
    /\ buffStart # buffEnd
    /\ Ripe
    /\ waited' = 0
    /\ Chunk
    /\ UNCHANGED <<ring, stop, printing, file>>

\* m_write is called once, or twice when the chunk wraps.
ChunkLen == IF start < end THEN RemainSize(start, end)
                           ELSE (BufSize - start) + end
Source == IF start < end \/ wrote < BufSize - start
          THEN start + wrote ELSE wrote - (BufSize - start)

WriteByte ==
    /\ rpc = "write"
    /\ wrote < ChunkLen
    /\ file' = Append(file, buf[Source])
    /\ wrote' = wrote + 1
    /\ UNCHANGED <<ring, stop, printing, rpc, start, end, waited>>

\* Variant: everything up to the present end is given up.
SkipToEnd == buffEnd

NewStart == Wrap(buffStart + RemainSize(start, end))

\* The chunk's room is given back to the printers.
Advance ==
    /\ rpc = "write"
    /\ wrote = ChunkLen
    /\ buffStart' = NewStart
    /\ wrote' = 0
    /\ rpc' = "recheck"
    /\ UNCHANGED <<buf, buffEnd, stop, printing, start, end, waited, file>>

\* Enough has come in meanwhile: write it at once.
RecheckMore ==
    /\ rpc = "recheck"
    /\ RemainSize(buffStart, buffEnd) >= minBuffSize
    /\ Chunk
    /\ UNCHANGED <<ring, stop, printing, waited, file>>

RecheckRest ==
    /\ rpc = "recheck"
    /\ RemainSize(buffStart, buffEnd) < minBuffSize
    /\ rpc' = "rest"
    /\ UNCHANGED <<ring, stop, printing, start, end, wrote, waited, file>>

\* The thread sleeps and polls again, or ends when the log is closed.
Rest ==
    /\ rpc = "rest"
    /\ rpc' = IF stop THEN "done" ELSE "poll"
    /\ UNCHANGED <<ring, stop, printing, start, end, wrote, waited, file>>

\* MBT_closeLog
Stop == /\ ~stop
        /\ stop' = TRUE
        /\ UNCHANGED <<ring, printing, reading>>

----------------------------------------------------------------------------
PrinterStep(p) == \/ Drop(p) \/ Accept(p) \/ Fetch(p) \/ CopyByte(p)
                  \/ PublishReport(p) \/ PublishLine(p)

LogStep == \/ PollEmpty \/ PollWait \/ PollWrite \/ WriteByte \/ Advance
           \/ RecheckMore \/ RecheckRest \/ Rest

Next == \/ \E p \in Printers : PrinterStep(p) \/ \E n \in Lengths : PrintLine(p, n)
        \/ LogStep
        \/ Stop

Spec == Init /\ [][Next]_vars

\* Every thread that can run is run; lines need not be printed.
FairSpec == /\ Spec
            /\ WF_vars(LogStep)
            /\ \A p \in Printers : WF_vars(PrinterStep(p))

----------------------------------------------------------------------------
(* Properties                                                              *)

RingType == /\ buf \in [Cells -> Nat]
            /\ buffStart \in Cells /\ buffEnd \in Cells
            /\ start \in Cells /\ end \in Cells

PrinterType == /\ lostLine \in Nat
               /\ mutex \in Printers \cup {Free}
               /\ pc \in [Printers -> {"idle", "lock", "report", "fetch", "line"}]
               /\ msgLen \in [Printers -> Nat]
               /\ from \in Cells
               /\ copied \in Nat
               /\ bytes \in Nat
               /\ lines \in 0..LineMax
               /\ dropped \in Nat /\ reported \in Nat

LogThreadType == /\ stop \in BOOLEAN
                 /\ rpc \in {"poll", "write", "recheck", "rest", "done"}
                 /\ wrote \in Nat
                 /\ waited \in 0..(WaitMax - 1)
                 /\ file \in Seq(Nat)

\* Types: the indexes stay inside the buffer.
TypeOK == RingType /\ PrinterType /\ LogThreadType

\* The log thread reads the ring without the mutex, yet the file is the stream
\* of accepted bytes in order: none is missing, repeated, overwritten before
\* it was read or read before it was written.
FileInOrder == \A k \in 1..Len(file) : file[k] = k

Inside(p) == pc[p] \in {"report", "fetch", "line"}

\* One printer at a time is past the check of the room.
OneInside == /\ \A p \in Printers : Inside(p) => mutex = p
             /\ mutex # Free => Inside(mutex)

Filled == RemainSize(buffStart, buffEnd)

\* What the printer inside still has to copy fits in front of buffStart, and
\* without wrapping if its view of buffStart says so.
ToCome(p) == (IF pc[p] = "report" THEN LostLen ELSE 0) + msgLen[p]

RoomLeft ==
    \A p \in Printers :
        /\ Inside(p) => Filled + ToCome(p) < BufSize
        /\ Copying(p) => /\ copied <= CopyLen(p)
                         /\ from > buffEnd => buffEnd + CopyLen(p) < from

\* Between buffStart and buffEnd, and as far as the copy at hand has come
\* behind it, the ring holds the stream.
Contents ==
    /\ \A k \in 0..(Filled - 1) :
          buf[Wrap(buffStart + k)] = (bytes - Filled) + k + 1
    /\ \A p \in Printers : Copying(p) =>
          \A k \in 0..(copied - 1) : buf[Wrap(buffEnd + k)] = bytes + k + 1

\* The log thread's chunk is the front of what the ring holds.
ChunkInFront ==
    /\ Len(file) = (bytes - Filled) + wrote
    /\ rpc # "write" => wrote = 0
    /\ rpc = "write" => /\ start = buffStart /\ start # end
                        /\ RemainSize(start, end) <= Filled
                        /\ wrote <= ChunkLen

\* No copy leaves the buffer, though the room was checked against a buffStart
\* that has moved since.
InsideBuffer ==
    \A p \in Printers : Copying(p) /\ copied < CopyLen(p) => Dest(p) \in Cells

\* "...Lost n lines here...": the reports add up to the lines that were
\* dropped before them.
LossesReported == dropped = reported + lostLine

\* The inductive invariant of LogRingProofs.
IInv == /\ TypeOK /\ OneInside /\ RoomLeft /\ Contents /\ ChunkInFront
        /\ FileInOrder /\ LossesReported

\* The log thread catches up when printing pauses (and here LineMax makes it),
\* unless the log is closed: neither the minimum chunk nor the waiting holds
\* accepted bytes back for ever.
AllWritten == Len(file) < bytes ~> Len(file) = bytes \/ stop
=============================================================================
