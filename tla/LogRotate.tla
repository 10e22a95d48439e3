----------------------------- MODULE LogRotate -----------------------------
(***************************************************************************)
(* How src/utils/src/MBT_log.c changes from one log file to the other:     *)
(* printing threads count lines and ask for a new file (openNewLogFile),   *)
(* a detached thread opens it, swaps the descriptor in the handle, closes  *)
(* the old one and archives the old file (threadToOpenNewFile), and        *)
(* MBT_resetLog and MBT_closeLog may come at any time.  Beside them the    *)
(* kernel: names, files (inodes) and the process's table of descriptors,   *)
(* of which the rest of the program takes its share.  What is written is   *)
(* module LogRing.                                                         *)
(***************************************************************************)
EXTENDS Integers, FiniteSets, FiniteSetsExt

CONSTANTS Printers,    \* threads in MBT_printLog
          Openers,     \* bound: threads in threadToOpenNewFile at a time
          MaxLines,    \* maxLines, the lines of a file
          KeepDays,    \* the values of msLogKeepDays
          FdMax,       \* bound: descriptors of the process
          PrintMax     \* bound: lines printed

ASSUME RotateAssumption == /\ MaxLines \in Nat \ {0}
                           /\ KeepDays \subseteq Int
                           /\ FdMax \in Nat \ {0} /\ PrintMax \in Nat

Fds == 1..FdMax
Names == {0, 1}        \* logName.0 and logName.1
Foreign == -1          \* the file of a descriptor that is not the log's
NoFd == 0              \* and NoFile: a descriptor, a name without a file
NoFile == 0

VARIABLES
    lines, openInProgress, flag,   \* msLogObj
    fd,         \* msLogObj.logHandle->fd
    closed,     \* logHandle was freed and is NULL
    keepDays,   \* msLogKeepDays
    name,       \* the file each name stands for
    desc,       \* the file each descriptor stands for
    files,      \* files created so far
    archive,    \* the files renamed to logName.<time>
    printer,    \* where each printing thread is
    opener,     \* where each opening thread is, and its locals
    reset,      \* MBT_resetLog: where it is, and lastName
    printed,    \* lines printed so far
    upset,      \* what has happened that the rotation does not survive
    fault       \* the process died on a NULL handle

object == <<lines, openInProgress, flag>>
kernel == <<name, desc, files, archive>>
vars == <<object, fd, closed, keepDays, kernel, printer, opener, reset, printed,
          upset, fault>>

NoOpener == [at |-> "none", to |-> 0, keep |-> 0, new |-> NoFd, old |-> NoFd]

FreeFds == {d \in Fds : desc[d] = NoFile}

\* open(..., O_CREAT): the lowest free descriptor, on the file of that name or
\* on a new one.
Open(n) == /\ FreeFds # {}
           /\ LET f == IF name[n] = NoFile THEN files + 1 ELSE name[n]
              IN /\ name' = [name EXCEPT ![n] = f]
                 /\ desc' = [desc EXCEPT ![Min(FreeFds)] = f]
                 /\ files' = IF name[n] = NoFile THEN files + 1 ELSE files
           /\ UNCHANGED archive

\* MBT_initLog, openLogFile: any of the two names may have a file; if both do,
\* the one that changed last is opened.
Init == \E f \in Names, both \in BOOLEAN :
    /\ name = [n \in Names |-> IF n = f \/ both THEN n + 1 ELSE NoFile]
    /\ desc = [d \in Fds |-> IF d = 1 THEN f + 1 ELSE NoFile]
    /\ flag = f /\ fd = 1 /\ files = 2
    /\ lines \in {0, MaxLines}
    /\ openInProgress = FALSE /\ closed = FALSE
    /\ keepDays \in KeepDays
    /\ archive = {}
    /\ printer = [p \in Printers |-> "idle"]
    /\ opener = [o \in Openers |-> NoOpener]
    /\ reset = [at |-> "idle", last |-> 0]
    /\ printed = 0 /\ upset = {} /\ fault = FALSE

----------------------------------------------------------------------------
(* openNewLogFile                                                          *)

\* Variant: openInProgress is not tested again under logMutex.
WantedUnchecked == lines > MaxLines

Wanted == lines > MaxLines /\ ~openInProgress

Idle == {o \in Openers : opener[o].at = "none"}
Archiving == keepDays # 0 /\ \E o \in Openers : opener[o].at \in {"close", "keep"}
Resetting == reset.at \in {"lines", "ask", "remove"}

\* What the rotation does not survive: an open that fails, a rotation that
\* overlaps the archiving of the one before, and one that overlaps MBT_resetLog
\* without being its own.
Note(what) == upset' = upset \cup what

\* The critical section of logMutex: start a thread, or leave it.
OpenNewLogFile ==
    IF Wanted
      THEN /\ Idle # {}
           /\ opener' = [opener EXCEPT ![CHOOSE o \in Idle : TRUE].at = "flip"]
           /\ openInProgress' = TRUE
      ELSE UNCHANGED <<opener, openInProgress>>

\* MBT_printLog: the line goes to the ring and is counted; past maxLines the
\* thread asks for a new file.
PrintLine(p) == /\ printer[p] = "idle"
                /\ printed < PrintMax
                /\ ~closed /\ fd # NoFd
                /\ printed' = printed + 1
                /\ lines' = lines + 1
                /\ printer' = [printer EXCEPT ![p] =
                      IF lines + 1 > MaxLines /\ ~openInProgress THEN "ask" ELSE "idle"]
                /\ UNCHANGED <<openInProgress, flag, fd, closed, keepDays, kernel, opener,
                               reset, upset, fault>>

PrintAsk(p) == /\ printer[p] = "ask"
               /\ OpenNewLogFile
               /\ Note({u \in {"overlap", "reset"} :
                          Wanted /\ IF u = "overlap" THEN Archiving ELSE Resetting})
               /\ printer' = [printer EXCEPT ![p] = "idle"]
               /\ UNCHANGED <<lines, flag, fd, closed, keepDays, kernel, reset, printed,
                              fault>>

----------------------------------------------------------------------------
(* threadToOpenNewFile, keepOldLog                                         *)

\* Variant: the flag stays.
OpenerKeepFlag(o) ==
    /\ opener[o].at = "flip"
    /\ opener' = [opener EXCEPT ![o].at = "open", ![o].keep = flag, ![o].to = flag]
    /\ lines' = 0
    /\ UNCHANGED <<openInProgress, flag, fd, closed, keepDays, kernel, printer, reset,
                   printed, upset, fault>>

\* Variant: the flag counts on.
OpenerCountFlag(o) ==
    /\ opener[o].at = "flip"
    /\ opener' = [opener EXCEPT ![o].at = "open", ![o].keep = flag, ![o].to = flag + 1]
    /\ flag' = flag + 1
    /\ lines' = 0
    /\ UNCHANGED <<openInProgress, fd, closed, keepDays, kernel, printer, reset, printed,
                   upset, fault>>

OpenerFlip(o) ==
    /\ opener[o].at = "flip"
    /\ opener' = [opener EXCEPT ![o].at = "open", ![o].keep = flag, ![o].to = 1 - flag]
    /\ flag' = 1 - flag
    /\ lines' = 0
    /\ UNCHANGED <<openInProgress, fd, closed, keepDays, kernel, printer, reset, printed,
                   upset, fault>>

\* The other file is created, or truncated.
OpenerOpen(o) ==
    /\ opener[o].at = "open"
    /\ Open(opener[o].to)
    /\ opener' = [opener EXCEPT ![o].at = "swap", ![o].new = Min(FreeFds)]
    /\ UNCHANGED <<object, fd, closed, keepDays, printer, reset, printed, upset, fault>>

\* Variant: the early return leaves openInProgress set.
OpenerFailKeeps(o) ==
    /\ opener[o].at = "open"
    /\ opener' = [opener EXCEPT ![o] = NoOpener]
    /\ lines' = MaxLines - 1000
    /\ Note({"open"})
    /\ UNCHANGED <<openInProgress, flag, fd, closed, keepDays, kernel, printer, reset,
                   printed, fault>>

\* It cannot be opened: the flag stays flipped, the old file stays in use.
OpenerFail(o) ==
    /\ opener[o].at = "open"
    /\ opener' = [opener EXCEPT ![o] = NoOpener]
    /\ openInProgress' = FALSE
    /\ lines' = MaxLines - 1000
    /\ Note({"open"})
    /\ UNCHANGED <<flag, fd, closed, keepDays, kernel, printer, reset, printed, fault>>

\* The handle gets the new descriptor; the next rotation may start.
OpenerSwap(o) ==
    /\ opener[o].at = "swap"
    /\ ~closed
    /\ opener' = [opener EXCEPT ![o].at = "close", ![o].old = fd, ![o].new = NoFd]
    /\ fd' = opener[o].new
    /\ lines' = 0
    /\ openInProgress' = FALSE
    /\ UNCHANGED <<flag, closed, keepDays, kernel, printer, reset, printed, upset, fault>>

\* MBT_closeLog has set logHandle to NULL.
OpenerNull(o) ==
    /\ opener[o].at = "swap"
    /\ closed
    /\ fault' = TRUE
    /\ UNCHANGED <<object, fd, closed, keepDays, kernel, printer, opener, reset, printed,
                   upset>>

\* Variant: the old descriptor is forgotten.
OpenerNoClose(o) ==
    /\ opener[o].at = "close"
    /\ opener' = [opener EXCEPT ![o].at = "keep", ![o].old = NoFd]
    /\ UNCHANGED <<object, fd, closed, keepDays, kernel, printer, reset, printed, upset,
                   fault>>

OpenerClose(o) ==
    /\ opener[o].at = "close"
    /\ desc' = [desc EXCEPT ![opener[o].old] = NoFile]
    /\ opener' = [opener EXCEPT ![o].at = "keep", ![o].old = NoFd]
    /\ UNCHANGED <<object, fd, closed, keepDays, name, files, archive, printer, reset,
                   printed, upset, fault>>

\* What m_removeOldLogFiles may delete: files whose name ends in a time, never
\* those that end in .0 or .1.  Which of them are old enough is left open.
\* (m_compressFile, for a negative msLogKeepDays, replaces an archived file by
\* its .gz, which is the same file here.)
Remaining(kept) == SUBSET kept

\* Variant: the name of the current file is taken.
OpenerKeepCurrent(o) ==
    /\ opener[o].at = "keep"
    /\ opener' = [opener EXCEPT ![o] = NoOpener]
    /\ IF keepDays = 0
         THEN UNCHANGED <<name, archive>>
         ELSE LET kept == archive \cup ({name[flag]} \ {NoFile})
              IN /\ name' = [name EXCEPT ![flag] = NoFile]
                 /\ archive' \in Remaining(kept)
    /\ UNCHANGED <<object, fd, closed, keepDays, desc, files, printer, reset, printed,
                   upset, fault>>

\* keepOldLog: with msLogKeepDays = 0, as the program has it, nothing.
OpenerKeep(o) ==
    /\ opener[o].at = "keep"
    /\ opener' = [opener EXCEPT ![o] = NoOpener]
    /\ IF keepDays = 0
         THEN UNCHANGED <<name, archive>>
         ELSE LET kept == archive \cup ({name[opener[o].keep]} \ {NoFile})
              IN /\ name' = [name EXCEPT ![opener[o].keep] = NoFile]
                 /\ archive' \in Remaining(kept)
    /\ UNCHANGED <<object, fd, closed, keepDays, desc, files, printer, reset, printed,
                   upset, fault>>

OpenerStep(o) == \/ OpenerFlip(o) \/ OpenerOpen(o) \/ OpenerFail(o) \/ OpenerSwap(o)
                 \/ OpenerNull(o) \/ OpenerClose(o) \/ OpenerKeep(o)

----------------------------------------------------------------------------
(* MBT_resetLog, MBT_closeLog, and the rest of the process                 *)

ResetGoto(where) == reset' = [reset EXCEPT !.at = where]

ResetName == /\ reset.at = "idle"
             /\ reset' = [at |-> "lines", last |-> flag]
             /\ Note(IF openInProgress THEN {"reset"} ELSE {})
             /\ UNCHANGED <<object, fd, closed, keepDays, kernel, printer, opener, printed,
                            fault>>

ResetLines == /\ reset.at = "lines"
              /\ lines' = MaxLines + 10
              /\ ResetGoto("ask")
              /\ UNCHANGED <<openInProgress, flag, fd, closed, keepDays, kernel, printer,
                             opener, printed, upset, fault>>

ResetAsk == /\ reset.at = "ask"
            /\ OpenNewLogFile
            /\ Note({u \in {"overlap", "reset"} :
                       IF u = "overlap" THEN Wanted /\ Archiving ELSE ~Wanted})
            /\ ResetGoto("remove")
            /\ UNCHANGED <<lines, flag, fd, closed, keepDays, kernel, printer, printed,
                           fault>>

ResetRemove == /\ reset.at = "remove"
               /\ name' = [name EXCEPT ![reset.last] = NoFile]
               /\ ResetGoto("done")
               /\ UNCHANGED <<object, fd, closed, keepDays, desc, files, archive, printer,
                              opener, printed, upset, fault>>

\* The handle is freed; its descriptor stays open.
CloseLog == /\ ~closed
            /\ closed' = TRUE
            /\ UNCHANGED <<object, fd, keepDays, kernel, printer, opener, reset, printed,
                           upset, fault>>

\* Sockets, bulk files and the like take the lowest free descriptor, and give
\* back their own; one at a time is enough to take a number that was closed.
ForeignFd == /\ \/ /\ FreeFds # {}
                   /\ \A d \in Fds : desc[d] # Foreign
                   /\ desc' = [desc EXCEPT ![Min(FreeFds)] = Foreign]
                \/ \E d \in Fds : desc[d] = Foreign /\ desc' = [desc EXCEPT ![d] = NoFile]
             /\ UNCHANGED <<object, fd, closed, keepDays, name, files, archive, printer,
                            opener, reset, printed, upset, fault>>

Next == /\ ~fault
        /\ \/ \E p \in Printers : PrintLine(p) \/ PrintAsk(p)
           \/ \E o \in Openers : OpenerStep(o)
           \/ ResetName \/ ResetLines \/ ResetAsk \/ ResetRemove
           \/ CloseLog \/ ForeignFd

Spec == Init /\ [][Next]_vars

\* The threads that open files are scheduled and their calls return.
FairSpec == Spec /\ \A o \in Openers : WF_vars(~fault /\ OpenerStep(o))

----------------------------------------------------------------------------
(* Properties                                                              *)

Held == {fd} \cup {opener[o].new : o \in Openers} \cup {opener[o].old : o \in Openers}

TypeOK == /\ lines \in Int /\ openInProgress \in BOOLEAN /\ flag \in Names
          /\ fd \in Fds /\ closed \in BOOLEAN /\ keepDays \in KeepDays
          /\ files \in Nat /\ name \in [Names -> 0..files]
          /\ desc \in [Fds -> -1..files]
          /\ archive \subseteq 1..files
          /\ printer \in [Printers -> {"idle", "ask"}]
          /\ opener \in [Openers ->
                [at : {"none", "flip", "open", "swap", "close", "keep"}, to : Names,
                 keep : Names, new : Fds \cup {NoFd}, old : Fds \cup {NoFd}]]
          /\ reset \in [at : {"idle", "lines", "ask", "remove", "done"}, last : Names]
          /\ printed \in 0..PrintMax
          /\ upset \subseteq {"open", "overlap", "reset"} /\ fault \in BOOLEAN

\* openInProgress stands for one thread between its start and the swap: two
\* printing threads that both saw it clear start one thread, not two.
OneOpener ==
    Cardinality({o \in Openers : opener[o].at \in {"flip", "open", "swap"}})
        = IF openInProgress THEN 1 ELSE 0

\* The descriptors of log files are those in the handle and in the hands of
\* opening threads, no one twice: a rotation neither leaks a descriptor nor
\* closes one that the rest of the process has been given since.
FdsAccounted ==
    /\ {d \in Fds : desc[d] \notin {NoFile, Foreign}} = Held \ {NoFd}
    /\ \A o \in Openers : fd \notin {opener[o].new, opener[o].old}
    /\ \A o, u \in Openers : o # u /\ opener[o].old # NoFd
                             => opener[o].old \notin {opener[u].old, opener[u].new}

\* Between rotations the handle writes the file that logName.flag names, so
\* the next rotation leaves it whole: as long as no open failed, no rotation
\* overlapped the archiving of the one before, and MBT_resetLog did not come
\* while a rotation was under way.
CurrentNamed ==
    upset = {} /\ ~openInProgress => name[flag] = desc[fd]

\* Under the same conditions the file a rotation truncates is not the one that
\* is being written.
TruncatesOther ==
    \A o \in Openers :
        opener[o].at = "open" /\ upset = {} => name[opener[o].to] # desc[fd]

\* A rotation always ends, even one that could not open its file: logging does
\* not get stuck with a file that grows for ever.
RotationEnds == []<>(~openInProgress \/ fault)
=============================================================================
