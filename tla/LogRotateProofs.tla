-------------------------- MODULE LogRotateProofs --------------------------
(***************************************************************************)
(* Proofs about LogRotate, for any number of threads, descriptors, lines   *)
(* and values of msLogKeepDays: one rotation at a time, every descriptor   *)
(* accounted for, and no rotation truncates the file being written.        *)
(***************************************************************************)
EXTENDS LogRotate, FiniteSetTheorems, WellFoundedInduction, TLAPS

(***************************************************************************)
(* The inductive invariant                                                 *)
(***************************************************************************)
Rotating(o) == opener[o].at \in {"flip", "open", "swap"}

\* openInProgress is set as long as one thread rotates.
OneAtATime == /\ \A o \in Openers : Rotating(o) => openInProgress
              /\ \A o, u \in Openers : Rotating(o) /\ Rotating(u) => o = u
              /\ openInProgress => \E o \in Openers : Rotating(o)

\* An opening thread has a descriptor in hand exactly where it needs one.
Hands == \A o \in Openers : /\ opener[o].at = "swap" <=> opener[o].new # NoFd
                            /\ opener[o].at = "close" <=> opener[o].old # NoFd

\* A descriptor is open on a file of the log exactly if the handle or an
\* opening thread has it, and only one of them has.
InHand(d) == d = fd \/ \E o \in Openers : d \in {opener[o].new, opener[o].old}
Accounted == /\ \A d \in Fds : desc[d] \notin {NoFile, Foreign} <=> InHand(d)
             /\ \A o \in Openers : fd \notin {opener[o].new, opener[o].old}
             /\ \A o, u \in Openers : o # u /\ opener[o].old # NoFd
                                      => opener[o].old \notin {opener[u].old, opener[u].new}

\* Once the flag is flipped, the thread opens the name it stands for.
Turn == \A o \in Openers : opener[o].at \in {"open", "swap"} =>
           opener[o].to = flag /\ opener[o].keep = 1 - flag

\* No file has two names.
NamesApart == name[0] # NoFile => name[0] # name[1]

\* As long as nothing has upset the rotation: what the handle writes has the
\* name of the flag, but for the rotation that is under way, which is about to
\* open the other name; an archiving thread takes the name that is not in use;
\* and MBT_resetLog removes the name its own rotation has left.
Calm == upset = {} =>
    /\ ~openInProgress => name[flag] = desc[fd]
    /\ \A o \in Openers :
          /\ opener[o].at = "flip" => name[1 - flag] # desc[fd]
          /\ opener[o].at = "open" => name[flag] # desc[fd]
          /\ opener[o].at = "swap" => name[flag] = desc[opener[o].new]
          /\ keepDays # 0 /\ opener[o].at \in {"close", "keep"} =>
                ~openInProgress /\ opener[o].keep # flag
    /\ reset.at \in {"lines", "ask"} => reset.last = flag /\ ~openInProgress
    /\ reset.at = "remove" =>
          IF \E o \in Openers : opener[o].at = "flip" THEN reset.last = flag
                                                      ELSE reset.last # flag

RInv == TypeOK /\ OneAtATime /\ Hands /\ Accounted /\ Turn /\ NamesApart /\ Calm

(***************************************************************************)
(* The kernel gives out a free descriptor                                  *)
(***************************************************************************)
LEMMA LowestFree ==
    ASSUME FreeFds # {}
    PROVE  Min(FreeFds) \in FreeFds
<1>1. FreeFds \subseteq Nat
  BY RotateAssumption DEF FreeFds, Fds
<1>2. IsWellFoundedOn(OpToRel(<, Nat), Nat)
  BY NatLessThanWellFounded
<1>3. PICK x \in FreeFds : \A y \in FreeFds : ~ (<<y, x>> \in OpToRel(<, Nat))
  <2> DEFINE R == OpToRel(<, Nat)
  <2>1. IsWellFoundedOn(R, Nat)
    BY <1>2
  <2> HIDE DEF R
  <2>2. \E x \in FreeFds : \A y \in FreeFds : ~ (<<y, x>> \in R)
    BY <1>1, <2>1, WFMin
  <2> QED
    BY <2>2 DEF R
<1>4. \A y \in FreeFds : x <= y
  <2> SUFFICES ASSUME NEW y \in FreeFds PROVE x <= y
    OBVIOUS
  <2>1. y < x => <<y, x>> \in OpToRel(<, Nat)
    BY <1>1 DEF OpToRel
  <2>2. ~(y < x) /\ x \in Nat /\ y \in Nat
    <3>1. ~ (<<y, x>> \in OpToRel(<, Nat))
      BY <1>3
    <3> QED
      BY <1>1, <2>1, <3>1
  <2> QED
    BY <2>2
<1> QED
  BY <1>4 DEF Min

(***************************************************************************)
(* Preliminaries                                                           *)
(***************************************************************************)
USE DEF NoFd, NoFile, Foreign, Names, object, kernel

Slots == [at : {"none", "flip", "open", "swap", "close", "keep"}, to : Names,
          keep : Names, new : Fds \cup {NoFd}, old : Fds \cup {NoFd}]

\* The types, as the steps need them.
LEMMA RTypes ==
    ASSUME TypeOK
    PROVE  /\ opener \in [Openers -> Slots]
           /\ flag \in {0, 1} /\ fd \in Fds /\ files \in Nat
           /\ name \in [{0, 1} -> 0..files] /\ name[0] \in Int /\ name[1] \in Int
           /\ desc \in [Fds -> -1..files] /\ MaxLines \in Int
           /\ 0 \notin Fds
  BY RotateAssumption DEF TypeOK, Slots, Fds

LEMMA RInitInv == Init => RInv
<1> SUFFICES ASSUME Init PROVE RInv
  OBVIOUS
<1>1. PICK f \in {0, 1}, both \in BOOLEAN :
         /\ name = [n \in {0, 1} |-> IF n = f \/ both THEN n + 1 ELSE 0]
         /\ desc = [d \in Fds |-> IF d = 1 THEN f + 1 ELSE 0]
         /\ flag = f /\ fd = 1 /\ files = 2
         /\ lines \in {0, MaxLines}
         /\ openInProgress = FALSE /\ closed = FALSE /\ keepDays \in KeepDays
         /\ archive = {}
         /\ printer = [p \in Printers |-> "idle"]
         /\ opener = [o \in Openers |-> NoOpener]
         /\ reset = [at |-> "idle", last |-> 0]
         /\ printed = 0 /\ upset = {} /\ fault = FALSE
  BY Zenon DEF Init
<1>2. 1 \in Fds /\ 0 \notin Fds /\ f + 1 \in {1, 2}
  BY RotateAssumption DEF Fds
<1>3. \A o \in Openers : /\ opener[o].at = "none" /\ opener[o].new = 0 /\ opener[o].old = 0
                         /\ opener[o] \in Slots
  BY <1>1 DEF NoOpener, Slots
<1>4. TypeOK
  <2>1. lines \in Int /\ printed \in 0..PrintMax
    BY <1>1, RotateAssumption
  <2>2. name \in [{0, 1} -> 0..files] /\ desc \in [Fds -> -1..files]
    BY <1>1, <1>2
  <2>3. opener \in [Openers -> Slots]
    BY <1>1, <1>3
  <2> QED
    BY <1>1, <1>2, <2>1, <2>2, <2>3 DEF TypeOK, Slots
<1>5. OneAtATime /\ Hands /\ Turn
  BY <1>1, <1>3 DEF OneAtATime, Hands, Turn, Rotating
<1>6. Accounted
  <2>1. \A d \in Fds : desc[d] \notin {0, -1} <=> d = 1
    BY <1>1, <1>2
  <2> QED
    BY <1>1, <1>2, <1>3, <2>1 DEF Accounted, InHand
<1>7. NamesApart
  BY <1>1 DEF NamesApart
<1>8. Calm
  <2>1. name[flag] = desc[fd]
    BY <1>1, <1>2
  <2> QED
    BY <1>1, <1>3, <2>1 DEF Calm
<1> QED
  BY <1>4, <1>5, <1>6, <1>7, <1>8 DEF RInv

\* What does not touch the opening threads, the handle or the kernel keeps
\* what is said of them.
LEMMA RFrame ==
    ASSUME RInv, UNCHANGED <<openInProgress, flag, fd, kernel, opener>>
    PROVE  OneAtATime' /\ Hands' /\ Accounted' /\ Turn' /\ NamesApart'
<1>1. OneAtATime /\ Hands /\ Accounted /\ Turn /\ NamesApart
  BY DEF RInv
<1> QED
  BY <1>1 DEF OneAtATime, Rotating, Hands, Accounted, InHand, Turn, NamesApart

\* What is the log's is neither free nor foreign.
LEMMA InUse ==
    ASSUME RInv
    PROVE  /\ desc[fd] \notin {NoFile, Foreign} /\ fd \in Fds
           /\ \A o \in Openers : opener[o].at = "swap" =>
                 opener[o].new \in Fds /\ desc[opener[o].new] \notin {NoFile, Foreign}
           /\ \A o \in Openers : opener[o].at = "close" =>
                 opener[o].old \in Fds /\ desc[opener[o].old] \notin {NoFile, Foreign}
<1>1. opener \in [Openers -> Slots] /\ fd \in Fds
  BY RTypes DEF RInv
<1>2. \A o \in Openers : opener[o].new \in Fds \cup {0} /\ opener[o].old \in Fds \cup {0}
  BY <1>1 DEF Slots
<1> QED
  BY <1>1, <1>2 DEF RInv, Hands, Accounted, InHand

(***************************************************************************)
(* A rotation begins                                                       *)
(***************************************************************************)
LEMMA Begun ==
    ASSUME RInv, OpenNewLogFile, Wanted, UNCHANGED <<flag, fd, kernel>>
    PROVE  /\ opener' \in [Openers -> Slots] /\ openInProgress' = TRUE
           /\ OneAtATime' /\ Hands' /\ Accounted' /\ Turn' /\ NamesApart'
           /\ \E o \in Openers : opener'[o].at = "flip"
           /\ \A o \in Openers : opener'[o].at = "flip" \/ opener'[o] = opener[o]
           /\ \A o \in Openers : ~Rotating(o)
<1>1. PICK o \in Openers : /\ opener[o].at = "none"
                           /\ opener' = [opener EXCEPT ![o].at = "flip"]
  <2>1. (CHOOSE o \in Idle : TRUE) \in Idle
    BY DEF OpenNewLogFile
  <2> QED
    BY <2>1 DEF OpenNewLogFile, Idle
<1>2. openInProgress' = TRUE /\ ~openInProgress
  BY DEF OpenNewLogFile, Wanted
<1>3. opener \in [Openers -> Slots]
  BY RTypes DEF RInv
<1>4. /\ opener'[o].at = "flip" /\ opener'[o].new = opener[o].new
      /\ opener'[o].old = opener[o].old /\ opener'[o] \in Slots
      /\ \A u \in Openers : u # o => opener'[u] = opener[u]
      /\ opener' \in [Openers -> Slots]
  BY <1>1, <1>3 DEF Slots
<1>5. \A u \in Openers : ~Rotating(u)
  BY <1>2 DEF RInv, OneAtATime
<1>6. OneAtATime'
  BY <1>2, <1>4, <1>5 DEF OneAtATime, Rotating
<1>7. Hands' /\ Turn' /\ NamesApart'
  BY <1>1, <1>4 DEF RInv, Hands, Turn, NamesApart
<1>8. \A u \in Openers : opener'[u].new = opener[u].new /\ opener'[u].old = opener[u].old
  BY <1>4
<1>9. Accounted'
  <2>1. \A d \in Fds : InHand(d)' <=> InHand(d)
    BY <1>8 DEF InHand
  <2> QED
    BY <1>8, <2>1 DEF RInv, Accounted
<1> QED
  BY <1>2, <1>4, <1>5, <1>6, <1>7, <1>9

(***************************************************************************)
(* The steps of the printing threads                                       *)
(***************************************************************************)
LEMMA PrintLineRInv == ASSUME RInv, NEW p \in Printers, PrintLine(p) PROVE RInv'
<1>1. UNCHANGED <<openInProgress, flag, fd, closed, keepDays, kernel, opener, reset, upset, fault>>
  BY DEF PrintLine
<1>2. lines' \in Int /\ printed' \in 0..PrintMax /\ printer' \in [Printers -> {"idle", "ask"}]
  BY RotateAssumption DEF PrintLine, RInv, TypeOK
<1>3. TypeOK'
  BY <1>1, <1>2 DEF RInv, TypeOK
<1>4. Calm'
  BY <1>1 DEF RInv, Calm
<1> QED
  BY <1>1, <1>3, <1>4, RFrame DEF RInv

\* A rotation that begins upsets nothing if none is being archived, and if
\* MBT_resetLog is not under way, or begins it itself.
LEMMA BegunCalm ==
    ASSUME RInv, OpenNewLogFile, Wanted, UNCHANGED <<flag, fd, kernel, keepDays>>,
           upset' = {} => /\ upset = {} /\ ~Archiving
                          /\ \/ reset' = reset /\ ~Resetting
                             \/ /\ reset.at = "ask" /\ reset'.at = "remove"
                                /\ reset'.last = reset.last
    PROVE  Calm'
<1> SUFFICES ASSUME upset' = {} PROVE Calm'
  BY DEF Calm
<1>1. Calm /\ upset = {} /\ ~openInProgress
  BY DEF RInv, Wanted
<1>2. /\ openInProgress' = TRUE /\ \E o \in Openers : opener'[o].at = "flip"
      /\ \A o \in Openers : opener'[o].at = "flip" \/ opener'[o] = opener[o]
      /\ \A o \in Openers : ~Rotating(o)
  BY Begun
<1>3. name[1 - flag] # desc[fd]
  BY <1>1, InUse, RTypes DEF RInv, NamesApart, Calm
<1>4. \A o \in Openers : keepDays # 0 => opener'[o].at \notin {"close", "keep"}
  BY <1>2 DEF Archiving
<1>5. \A o \in Openers : opener'[o].at \notin {"open", "swap"}
  BY <1>2 DEF Rotating
<1>6. reset'.at \notin {"lines", "ask"} /\ (reset'.at = "remove" => reset'.last = flag)
  BY <1>1 DEF Calm, Resetting
<1> QED
  BY <1>2, <1>3, <1>4, <1>5, <1>6 DEF Calm

LEMMA PrintAskRInv == ASSUME RInv, NEW p \in Printers, PrintAsk(p) PROVE RInv'
<1>1. /\ UNCHANGED <<lines, flag, fd, closed, keepDays, kernel, reset, printed, fault>>
      /\ OpenNewLogFile /\ printer' = [printer EXCEPT ![p] = "idle"]
      /\ upset' = upset \cup {u \in {"overlap", "reset"} :
                                Wanted /\ IF u = "overlap" THEN Archiving ELSE Resetting}
  BY DEF PrintAsk, Note
<1>2. upset' \subseteq {"open", "overlap", "reset"} /\ printer' \in [Printers -> {"idle", "ask"}]
  BY <1>1 DEF RInv, TypeOK
<1>3. CASE Wanted
  <2>1. /\ opener' \in [Openers -> Slots] /\ openInProgress' = TRUE
        /\ OneAtATime' /\ Hands' /\ Accounted' /\ Turn' /\ NamesApart'
    BY <1>1, <1>3, Begun
  <2>2. TypeOK'
    BY <1>1, <1>2, <2>1 DEF RInv, TypeOK, Slots
  <2>3. upset' = {} => upset = {} /\ ~Archiving /\ ~Resetting
    <3>1. Archiving => "overlap" \in upset'
      BY <1>1, <1>3
    <3>2. Resetting => "reset" \in upset'
      BY <1>1, <1>3
    <3> QED
      BY <1>1, <3>1, <3>2
  <2>4. Calm'
    BY <1>1, <1>3, <2>3, BegunCalm
  <2> QED
    BY <2>1, <2>2, <2>4 DEF RInv
<1>4. CASE ~Wanted
  <2>1. UNCHANGED <<opener, openInProgress>> /\ upset' = upset
    BY <1>1, <1>4 DEF OpenNewLogFile
  <2>2. TypeOK'
    BY <1>1, <1>2, <2>1 DEF RInv, TypeOK
  <2>3. Calm'
    BY <1>1, <2>1 DEF RInv, Calm
  <2> QED
    BY <1>1, <2>1, <2>2, <2>3, RFrame DEF RInv
<1> QED
  BY <1>3, <1>4

(***************************************************************************)
(* The steps of the opening threads                                        *)
(***************************************************************************)
LEMMA FlipRInv == ASSUME RInv, NEW o \in Openers, OpenerFlip(o) PROVE RInv'
<1>1. /\ opener[o].at = "flip" /\ flag' = 1 - flag /\ lines' = 0
      /\ opener' = [opener EXCEPT ![o].at = "open", ![o].keep = flag, ![o].to = 1 - flag]
      /\ UNCHANGED <<openInProgress, fd, closed, keepDays, kernel, printer, reset, printed,
                     upset, fault>>
  BY DEF OpenerFlip
<1>2. opener \in [Openers -> Slots] /\ flag \in {0, 1} /\ flag' \in {0, 1} /\ 1 - flag' = flag
  BY <1>1, RTypes DEF RInv
<1>3. /\ opener'[o].at = "open" /\ opener'[o].keep = flag /\ opener'[o].to = 1 - flag
      /\ opener'[o].new = opener[o].new /\ opener'[o].old = opener[o].old
      /\ \A u \in Openers : u # o => opener'[u] = opener[u]
      /\ opener' \in [Openers -> Slots]
  <2> DEFINE new == [at |-> "open", to |-> 1 - flag, keep |-> flag,
                     new |-> opener[o].new, old |-> opener[o].old]
  <2>1. opener[o] = [at |-> opener[o].at, to |-> opener[o].to, keep |-> opener[o].keep,
                     new |-> opener[o].new, old |-> opener[o].old]
        /\ opener[o].new \in Fds \cup {0} /\ opener[o].old \in Fds \cup {0}
    BY <1>2 DEF Slots
  <2>2. new \in Slots
    BY <1>1, <1>2, <2>1 DEF Slots
  <2>3. opener'[o] = new
    BY <1>1, <1>2, <2>1
  <2>4. DOMAIN opener' = Openers /\ \A u \in Openers : u # o => opener'[u] = opener[u]
    BY <1>1, <1>2
  <2>5. opener' = [u \in Openers |-> opener'[u]]
    BY <1>1, <1>2
  <2> QED
    BY <1>2, <2>2, <2>3, <2>4, <2>5
<1>4. openInProgress /\ \A u \in Openers : Rotating(u) => u = o
  BY <1>1 DEF RInv, OneAtATime, Rotating
<1>5. TypeOK'
  BY <1>1, <1>2, <1>3 DEF RInv, TypeOK, Slots
<1>6. OneAtATime'
  BY <1>1, <1>3, <1>4 DEF OneAtATime, Rotating
<1>7. Hands' /\ NamesApart'
  BY <1>1, <1>3 DEF RInv, Hands, NamesApart
<1>8. Accounted'
  <2>1. \A u \in Openers : opener'[u].new = opener[u].new /\ opener'[u].old = opener[u].old
    BY <1>3
  <2>2. \A d \in Fds : InHand(d)' <=> InHand(d)
    BY <1>1, <2>1 DEF InHand
  <2> QED
    BY <1>1, <2>1, <2>2 DEF RInv, Accounted
<1>9. Turn'
  BY <1>1, <1>2, <1>3, <1>4 DEF Turn, Rotating
<1>10. Calm'
  <2> SUFFICES ASSUME upset' = {} PROVE Calm'
    BY DEF Calm
  <2>1. Calm /\ upset = {}
    BY <1>1 DEF RInv
  <2>2. name'[flag'] # desc'[fd']
    BY <1>1, <2>1 DEF Calm
  <2>3. \A u \in Openers : opener'[u].at \notin {"flip", "swap"}
    BY <1>1, <1>3, <1>4 DEF Rotating
  <2>4. \A u \in Openers : keepDays # 0 => opener'[u].at \notin {"close", "keep"}
    BY <1>3, <1>4, <2>1 DEF Calm
  <2>5. reset'.at \notin {"lines", "ask"} /\ (reset'.at = "remove" => reset'.last # flag')
    BY <1>1, <1>2, <1>4, <2>1 DEF Calm
  <2> QED
    BY <1>1, <1>4, <2>2, <2>3, <2>4, <2>5 DEF Calm
<1> QED
  BY <1>5, <1>6, <1>7, <1>8, <1>9, <1>10 DEF RInv

\* open(2) on the name n.
LEMMA Opened ==
    ASSUME RInv, NEW n \in {0, 1}, Open(n)
    PROVE  LET k == Min(FreeFds)
           IN /\ k \in Fds /\ desc[k] = 0 /\ k # 0 /\ ~InHand(k)
              /\ name' \in [{0, 1} -> 0..files'] /\ desc' \in [Fds -> -1..files']
              /\ files' \in Nat /\ files <= files' /\ archive' = archive
              /\ desc'[k] = name'[n] /\ desc'[k] \notin {0, -1}
              /\ \A d \in Fds : d # k => desc'[d] = desc[d]
              /\ name'[1 - n] = name[1 - n]
              /\ name[n] # 0 => name'[n] = name[n]
              /\ name[n] = 0 => name'[n] = files + 1
              /\ NamesApart'
<1> DEFINE k == Min(FreeFds)
           f == IF name[n] = 0 THEN files + 1 ELSE name[n]
<1>1. k \in Fds /\ desc[k] = 0
  BY LowestFree DEF Open, FreeFds
<1>2. /\ name' = [name EXCEPT ![n] = f] /\ desc' = [desc EXCEPT ![k] = f]
      /\ files' = IF name[n] = 0 THEN files + 1 ELSE files
      /\ archive' = archive
  BY DEF Open
<1> HIDE DEF k
<1>3. /\ 0 \notin Fds /\ files \in Nat
      /\ name \in [{0, 1} -> 0..files] /\ desc \in [Fds -> -1..files]
      /\ 1 - n \in {0, 1} /\ 1 - n # n
  BY RTypes DEF RInv
<1>4. f \in 1..files' /\ files' \in Nat /\ files <= files'
  BY <1>2, <1>3
<1>5. k # 0 /\ ~InHand(k)
  BY <1>1, <1>3 DEF RInv, Accounted
<1>6. /\ name' \in [{0, 1} -> 0..files'] /\ name'[n] = f /\ name'[1 - n] = name[1 - n]
  BY <1>2, <1>3, <1>4
<1>7. /\ desc' \in [Fds -> -1..files'] /\ desc'[k] = f
      /\ \A d \in Fds : d # k => desc'[d] = desc[d]
  BY <1>1, <1>2, <1>3, <1>4
<1>8. NamesApart'
  BY <1>3, <1>6 DEF RInv, NamesApart
<1> QED
  BY <1>1, <1>2, <1>4, <1>5, <1>6, <1>7, <1>8 DEF k

LEMMA OpenRInv == ASSUME RInv, NEW o \in Openers, OpenerOpen(o) PROVE RInv'
<1> DEFINE k == Min(FreeFds)
<1>1. /\ opener[o].at = "open" /\ Open(opener[o].to)
      /\ opener' = [opener EXCEPT ![o].at = "swap", ![o].new = k]
      /\ UNCHANGED <<lines, openInProgress, flag, fd, closed, keepDays, printer, reset,
                     printed, upset, fault>>
  BY DEF OpenerOpen
<1>2. /\ opener \in [Openers -> Slots] /\ flag \in {0, 1} /\ fd \in Fds /\ opener[o].to = flag
      /\ 0 \notin Fds
  BY <1>1, RTypes DEF RInv, Turn
<1>3. /\ k \in Fds /\ desc[k] = 0 /\ k # 0 /\ ~InHand(k)
      /\ name' \in [{0, 1} -> 0..files'] /\ desc' \in [Fds -> -1..files']
      /\ files' \in Nat /\ files <= files' /\ archive' = archive
      /\ desc'[k] = name'[flag] /\ desc'[k] \notin {0, -1}
      /\ \A d \in Fds : d # k => desc'[d] = desc[d]
      /\ NamesApart'
  BY <1>1, <1>2, Opened
<1> HIDE DEF k
<1>4. /\ opener'[o].at = "swap" /\ opener'[o].new = k /\ opener'[o].old = opener[o].old
      /\ opener'[o].to = opener[o].to /\ opener'[o].keep = opener[o].keep
      /\ \A u \in Openers : u # o => opener'[u] = opener[u]
      /\ opener' \in [Openers -> Slots]
  <2> DEFINE new == [at |-> "swap", to |-> opener[o].to, keep |-> opener[o].keep,
                     new |-> k, old |-> opener[o].old]
  <2>1. opener[o] = [at |-> opener[o].at, to |-> opener[o].to, keep |-> opener[o].keep,
                     new |-> opener[o].new, old |-> opener[o].old]
        /\ opener[o].old \in Fds \cup {0}
        /\ opener[o].to \in {0, 1} /\ opener[o].keep \in {0, 1}
    BY <1>2 DEF Slots
  <2>2. new \in Slots
    BY <1>3, <2>1 DEF Slots
  <2>3. opener'[o] = new
    BY <1>1, <1>2, <2>1
  <2>4. DOMAIN opener' = Openers /\ \A u \in Openers : u # o => opener'[u] = opener[u]
    BY <1>1, <1>2
  <2>5. opener' = [u \in Openers |-> opener'[u]]
    BY <1>1, <1>2
  <2> QED
    BY <1>2, <2>2, <2>3, <2>4, <2>5
<1>5. openInProgress /\ \A u \in Openers : Rotating(u) => u = o
  BY <1>1 DEF RInv, OneAtATime, Rotating
<1>6. TypeOK'
  <2>1. archive' \subseteq 1..files'
    BY <1>3, RTypes DEF RInv, TypeOK
  <2> QED
    BY <1>1, <1>3, <1>4, <2>1 DEF RInv, TypeOK, Slots
<1>7. OneAtATime'
  BY <1>1, <1>4, <1>5 DEF OneAtATime, Rotating
<1>8. Hands'
  BY <1>1, <1>3, <1>4 DEF RInv, Hands
<1>9. opener[o].new = 0 /\ opener[o].old = 0
  BY <1>1, <1>2 DEF RInv, Hands, Slots
<1>10. Accounted'
  <2>1. \A d \in Fds : InHand(d)' <=> d = k \/ InHand(d)
    <3> SUFFICES ASSUME NEW d \in Fds PROVE InHand(d)' <=> d = k \/ InHand(d)
      OBVIOUS
    <3>1. \A u \in Openers : d \in {opener'[u].new, opener'[u].old}
                              <=> (u = o /\ d = k) \/ d \in {opener[u].new, opener[u].old}
      BY <1>2, <1>4, <1>9
    <3> QED
      BY <1>1, <3>1 DEF InHand
  <2>2. \A d \in Fds : desc'[d] \notin {0, -1} <=> InHand(d)'
    BY <1>3, <2>1 DEF RInv, Accounted
  <2>3. \A u \in Openers : fd \notin {opener'[u].new, opener'[u].old}
    BY <1>2, <1>3, <1>4 DEF RInv, Accounted, InHand
  <2>4. \A u, v \in Openers : u # v /\ opener'[u].old # 0 =>
           opener'[u].old \notin {opener'[v].old, opener'[v].new}
    BY <1>3, <1>4, <1>9 DEF RInv, Accounted, InHand
  <2> QED
    BY <1>1, <2>2, <2>3, <2>4 DEF Accounted
<1>11. Turn'
  BY <1>1, <1>4 DEF RInv, Turn
<1>12. Calm'
  <2> SUFFICES ASSUME upset' = {} PROVE Calm'
    BY DEF Calm
  <2>1. Calm /\ upset = {}
    BY <1>1 DEF RInv
  <2>2. \A u \in Openers : opener'[u].at \notin {"flip", "open"} /\ (opener'[u].at = "swap" => u = o)
    BY <1>1, <1>4, <1>5 DEF Rotating
  <2>3. \A u \in Openers : opener[u].at # "flip"
    BY <1>1, <1>5 DEF Rotating
  <2>4. \A u \in Openers : keepDays # 0 => opener'[u].at \notin {"close", "keep"}
    BY <1>4, <1>5, <2>1 DEF Calm
  <2>5. reset'.at \notin {"lines", "ask"} /\ (reset'.at = "remove" => reset'.last # flag')
    BY <1>1, <1>5, <2>1, <2>3 DEF Calm
  <2> QED
    BY <1>1, <1>3, <1>4, <1>5, <2>2, <2>4, <2>5 DEF Calm
<1> QED
  BY <1>3, <1>6, <1>7, <1>8, <1>10, <1>11, <1>12 DEF RInv

LEMMA FailRInv == ASSUME RInv, NEW o \in Openers, OpenerFail(o) PROVE RInv'
<1>1. /\ opener[o].at = "open" /\ opener' = [opener EXCEPT ![o] = NoOpener]
      /\ openInProgress' = FALSE /\ lines' = MaxLines - 1000
      /\ upset' = upset \cup {"open"}
      /\ UNCHANGED <<flag, fd, closed, keepDays, kernel, printer, reset, printed, fault>>
  BY DEF OpenerFail, Note
<1>2. opener \in [Openers -> Slots] /\ MaxLines \in Int /\ 0 \notin Fds
  BY RTypes DEF RInv
<1>3. /\ opener'[o].at = "none" /\ opener'[o].new = 0 /\ opener'[o].old = 0
      /\ \A u \in Openers : u # o => opener'[u] = opener[u]
      /\ opener' \in [Openers -> Slots]
  BY <1>1, <1>2 DEF Slots, NoOpener
<1>4. \A u \in Openers : Rotating(u) => u = o
  BY <1>1 DEF RInv, OneAtATime, Rotating
<1>5. TypeOK'
  <2>1. lines' \in Int /\ upset' \subseteq {"open", "overlap", "reset"}
    BY <1>1, <1>2 DEF RInv, TypeOK
  <2> QED
    BY <1>1, <1>3, <2>1 DEF RInv, TypeOK, Slots
<1>6. OneAtATime' /\ Hands' /\ Turn' /\ NamesApart'
  BY <1>1, <1>3, <1>4 DEF RInv, OneAtATime, Rotating, Hands, Turn, NamesApart
<1>7. opener[o].new = 0 /\ opener[o].old = 0
  BY <1>1, <1>2 DEF RInv, Hands, Slots
<1>8. Accounted'
  <2>1. \A u \in Openers : opener'[u].new = opener[u].new /\ opener'[u].old = opener[u].old
    BY <1>3, <1>7
  <2>2. \A d \in Fds : InHand(d)' <=> InHand(d)
    BY <1>1, <2>1 DEF InHand
  <2> QED
    BY <1>1, <2>1, <2>2 DEF RInv, Accounted
<1>9. Calm'
  BY <1>1 DEF Calm
<1> QED
  BY <1>5, <1>6, <1>8, <1>9 DEF RInv

LEMMA SwapRInv == ASSUME RInv, NEW o \in Openers, OpenerSwap(o) PROVE RInv'
<1>1. /\ opener[o].at = "swap" /\ fd' = opener[o].new /\ lines' = 0
      /\ opener' = [opener EXCEPT ![o].at = "close", ![o].old = fd, ![o].new = 0]
      /\ openInProgress' = FALSE
      /\ UNCHANGED <<flag, closed, keepDays, kernel, printer, reset, printed, upset, fault>>
  BY DEF OpenerSwap
<1>2. /\ opener \in [Openers -> Slots] /\ flag \in {0, 1} /\ fd \in Fds /\ 0 \notin Fds
      /\ opener[o].new \in Fds
  BY <1>1, RTypes, InUse DEF RInv
<1>3. /\ opener'[o].at = "close" /\ opener'[o].new = 0 /\ opener'[o].old = fd
      /\ opener'[o].to = opener[o].to /\ opener'[o].keep = opener[o].keep
      /\ \A u \in Openers : u # o => opener'[u] = opener[u]
      /\ opener' \in [Openers -> Slots]
  BY <1>1, <1>2 DEF Slots
<1>4. openInProgress /\ \A u \in Openers : Rotating(u) => u = o
  BY <1>1 DEF RInv, OneAtATime, Rotating
<1>5. TypeOK'
  BY <1>1, <1>2, <1>3 DEF RInv, TypeOK, Slots
<1>6. OneAtATime' /\ NamesApart'
  BY <1>1, <1>3, <1>4 DEF RInv, OneAtATime, Rotating, NamesApart
<1>7. Hands' /\ opener[o].old = 0
  BY <1>1, <1>2, <1>3 DEF RInv, Hands, Slots
<1>8. Turn'
  BY <1>1, <1>3, <1>4 DEF Turn, Rotating
<1>9. \A u \in Openers : u # o => opener[u].new = 0
  BY <1>2, <1>4 DEF RInv, Hands, Rotating, Slots
<1>10. Accounted'
  <2>1. \A d \in Fds : InHand(d)' <=> InHand(d)
    <3> SUFFICES ASSUME NEW d \in Fds PROVE InHand(d)' <=> InHand(d)
      OBVIOUS
    <3>1. \A u \in Openers : u # o => (d \in {opener'[u].new, opener'[u].old}
                                        <=> d \in {opener[u].new, opener[u].old})
      BY <1>3
    <3>2. d \in {opener'[o].new, opener'[o].old} <=> d = fd
      BY <1>2, <1>3
    <3>3. d \in {opener[o].new, opener[o].old} <=> d = fd'
      BY <1>1, <1>2, <1>7
    <3> QED
      BY <3>1, <3>2, <3>3 DEF InHand
  <2>2. \A u \in Openers : fd' \notin {opener'[u].new, opener'[u].old}
    <3>1. \A u \in Openers : u # o => fd' # opener[u].new /\ fd' # opener[u].old
      BY <1>1, <1>2, <1>9 DEF RInv, Accounted
    <3>2. fd' # fd /\ fd' # 0
      BY <1>1, <1>2 DEF RInv, Accounted
    <3> QED
      BY <1>3, <3>1, <3>2
  <2>3. \A u, v \in Openers : u # v /\ opener'[u].old # 0 =>
           opener'[u].old \notin {opener'[v].old, opener'[v].new}
    BY <1>2, <1>3, <1>9 DEF RInv, Accounted
  <2> QED
    BY <1>1, <2>1, <2>2, <2>3 DEF RInv, Accounted
<1>11. Calm'
  <2> SUFFICES ASSUME upset' = {} PROVE Calm'
    BY DEF Calm
  <2>1. Calm /\ upset = {}
    BY <1>1 DEF RInv
  <2>2. name'[flag'] = desc'[fd']
    BY <1>1, <2>1 DEF Calm
  <2>3. \A u \in Openers : opener'[u].at \notin {"flip", "open", "swap"}
    BY <1>3, <1>4 DEF Rotating
  <2>4. \A u \in Openers : keepDays # 0 /\ opener'[u].at \in {"close", "keep"} => u = o
    BY <1>3, <1>4, <2>1 DEF Calm
  <2>5. opener'[o].keep # flag
    BY <1>1, <1>2, <1>3 DEF RInv, Turn
  <2>6. \A u \in Openers : opener[u].at # "flip"
    BY <1>1, <1>4 DEF Rotating
  <2>7. reset'.at \notin {"lines", "ask"} /\ (reset'.at = "remove" => reset'.last # flag')
    BY <1>1, <1>4, <2>1, <2>6 DEF Calm
  <2> QED
    BY <1>1, <2>2, <2>3, <2>4, <2>5, <2>7 DEF Calm
<1> QED
  BY <1>5, <1>6, <1>7, <1>8, <1>10, <1>11 DEF RInv

LEMMA NullRInv == ASSUME RInv, NEW o \in Openers, OpenerNull(o) PROVE RInv'
<1>1. /\ UNCHANGED <<object, fd, closed, keepDays, kernel, printer, opener, reset, printed,
                     upset>>
      /\ fault' \in BOOLEAN
  BY DEF OpenerNull
<1>2. TypeOK' /\ Calm'
  BY <1>1 DEF RInv, TypeOK, Calm
<1> QED
  BY <1>1, <1>2, RFrame DEF RInv

LEMMA CloseRInv == ASSUME RInv, NEW o \in Openers, OpenerClose(o) PROVE RInv'
<1> DEFINE old == opener[o].old
<1>1. /\ opener[o].at = "close" /\ desc' = [desc EXCEPT ![old] = 0]
      /\ opener' = [opener EXCEPT ![o].at = "keep", ![o].old = 0]
      /\ UNCHANGED <<object, fd, closed, keepDays, name, files, archive, printer, reset,
                     printed, upset, fault>>
  BY DEF OpenerClose
<1>2. /\ opener \in [Openers -> Slots] /\ fd \in Fds /\ old \in Fds /\ 0 \notin Fds
      /\ opener[o].new = 0 /\ files \in Nat /\ desc \in [Fds -> -1..files]
  BY <1>1, RTypes, InUse DEF RInv, Hands, Slots
<1>3. /\ opener'[o].at = "keep" /\ opener'[o].new = 0 /\ opener'[o].old = 0
      /\ opener'[o].keep = opener[o].keep
      /\ \A u \in Openers : u # o => opener'[u] = opener[u]
      /\ opener' \in [Openers -> Slots]
  BY <1>1, <1>2 DEF Slots
<1>4. fd # old /\ \A u \in Openers : u # o => old # opener[u].new /\ old # opener[u].old
  BY <1>2 DEF RInv, Accounted
<1>5. /\ desc' \in [Fds -> -1..files] /\ desc'[old] = 0
      /\ \A d \in Fds : d # old => desc'[d] = desc[d]
  BY <1>1, <1>2
<1>6. TypeOK'
  BY <1>1, <1>3, <1>5 DEF RInv, TypeOK, Slots
<1>7. OneAtATime' /\ Hands' /\ Turn' /\ NamesApart'
  BY <1>1, <1>3 DEF RInv, OneAtATime, Rotating, Hands, Turn, NamesApart
<1> HIDE DEF old
<1>8. Accounted'
  <2>1. \A d \in Fds : InHand(d)' <=> InHand(d) /\ d # old
    <3> SUFFICES ASSUME NEW d \in Fds PROVE InHand(d)' <=> InHand(d) /\ d # old
      OBVIOUS
    <3>1. d \notin {opener'[o].new, opener'[o].old}
      BY <1>2, <1>3
    <3>2. d \in {opener[o].new, opener[o].old} <=> d = old
      BY <1>2 DEF old
    <3>3. \A u \in Openers : u # o => (d \in {opener'[u].new, opener'[u].old}
                                        <=> d \in {opener[u].new, opener[u].old})
      BY <1>3
    <3> QED
      BY <1>1, <1>4, <3>1, <3>2, <3>3 DEF InHand
  <2>2. \A d \in Fds : desc'[d] \notin {0, -1} <=> InHand(d)'
    BY <1>5, <2>1 DEF RInv, Accounted
  <2>3. \A u \in Openers : fd' \notin {opener'[u].new, opener'[u].old}
    BY <1>1, <1>2, <1>3 DEF RInv, Accounted
  <2>4. \A u, v \in Openers : u # v /\ opener'[u].old # 0 =>
           opener'[u].old \notin {opener'[v].old, opener'[v].new}
    BY <1>3 DEF RInv, Accounted
  <2> QED
    BY <2>2, <2>3, <2>4 DEF Accounted
<1>9. Calm'
  <2> SUFFICES ASSUME upset' = {} PROVE Calm'
    BY DEF Calm
  <2>1. Calm /\ upset = {}
    BY <1>1 DEF RInv
  <2>2. desc'[fd'] = desc[fd]
    BY <1>1, <1>2, <1>4, <1>5
  <2>3. \A u \in Openers : opener'[u].at \in {"flip", "open", "swap"} => u # o /\ opener'[u] = opener[u]
    BY <1>3
  <2>4. \A u \in Openers : opener[u].at = "swap" => desc'[opener[u].new] = desc[opener[u].new]
    BY <1>1, <1>4, <1>5, InUse
  <2>5. \A u \in Openers : opener'[u].at \in {"close", "keep"} =>
           opener[u].at \in {"close", "keep"} /\ opener'[u].keep = opener[u].keep
    BY <1>1, <1>3
  <2>6. \A u \in Openers : opener'[u].at = "flip" <=> opener[u].at = "flip"
    BY <1>1, <1>3
  <2>7. ~openInProgress' => name'[flag'] = desc'[fd']
    BY <1>1, <2>1, <2>2 DEF Calm
  <2>8. \A u \in Openers : /\ opener'[u].at = "flip" => name'[1 - flag'] # desc'[fd']
                           /\ opener'[u].at = "open" => name'[flag'] # desc'[fd']
    BY <1>1, <2>1, <2>2, <2>3 DEF Calm
  <2>9. \A u \in Openers : opener'[u].at = "swap" => name'[flag'] = desc'[opener'[u].new]
    BY <1>1, <2>1, <2>3, <2>4 DEF Calm
  <2>10. \A u \in Openers : keepDays' # 0 /\ opener'[u].at \in {"close", "keep"} =>
            ~openInProgress' /\ opener'[u].keep # flag'
    BY <1>1, <2>1, <2>5 DEF Calm
  <2>11. /\ reset'.at \in {"lines", "ask"} => reset'.last = flag' /\ ~openInProgress'
         /\ reset'.at = "remove" =>
              IF \E u \in Openers : opener'[u].at = "flip" THEN reset'.last = flag'
                                                           ELSE reset'.last # flag'
    BY <1>1, <2>1, <2>6 DEF Calm
  <2> QED
    BY <2>7, <2>8, <2>9, <2>10, <2>11 DEF Calm
<1> QED
  BY <1>6, <1>7, <1>8, <1>9 DEF RInv

LEMMA KeepRInv == ASSUME RInv, NEW o \in Openers, OpenerKeep(o) PROVE RInv'
<1>1. /\ opener[o].at = "keep" /\ opener' = [opener EXCEPT ![o] = NoOpener]
      /\ UNCHANGED <<object, fd, closed, keepDays, desc, files, printer, reset, printed,
                     upset, fault>>
  BY DEF OpenerKeep
<1>2. /\ opener \in [Openers -> Slots] /\ fd \in Fds /\ 0 \notin Fds
      /\ files \in Nat /\ name \in [{0, 1} -> 0..files]
      /\ opener[o].keep \in {0, 1} /\ opener[o].new = 0 /\ opener[o].old = 0
      /\ flag \in {0, 1}
  BY <1>1, RTypes DEF RInv, Hands, Slots
<1>3. /\ opener'[o].at = "none" /\ opener'[o].new = 0 /\ opener'[o].old = 0
      /\ \A u \in Openers : u # o => opener'[u] = opener[u]
      /\ opener' \in [Openers -> Slots]
  BY <1>1, <1>2 DEF Slots, NoOpener
<1>4. \/ name' = name /\ archive' = archive
      \/ /\ keepDays # 0 /\ name' = [name EXCEPT ![opener[o].keep] = 0]
         /\ archive' \subseteq archive \cup ({name[opener[o].keep]} \ {0})
  BY DEF OpenerKeep, Remaining
<1>5. /\ name' \in [{0, 1} -> 0..files] /\ archive' \subseteq 1..files
  <2>1. name' \in [{0, 1} -> 0..files]
    BY <1>2, <1>4
  <2>2. archive \subseteq 1..files /\ name[opener[o].keep] \in 0..files
    BY <1>2 DEF RInv, TypeOK
  <2>3. {name[opener[o].keep]} \ {0} \subseteq 1..files
    BY <1>2, <2>2
  <2> QED
    BY <1>4, <2>1, <2>2, <2>3
<1>6. \A n \in {0, 1} : \/ name'[n] = name[n]
                        \/ keepDays # 0 /\ n = opener[o].keep /\ name'[n] = 0
  BY <1>2, <1>4
<1>7. TypeOK'
  BY <1>1, <1>3, <1>5 DEF RInv, TypeOK, Slots
<1>8. OneAtATime' /\ Hands' /\ Turn'
  BY <1>1, <1>3 DEF RInv, OneAtATime, Rotating, Hands, Turn
<1>9. NamesApart'
  BY <1>6 DEF RInv, NamesApart
<1>10. Accounted'
  <2>1. \A u \in Openers : opener'[u].new = opener[u].new /\ opener'[u].old = opener[u].old
    BY <1>2, <1>3
  <2>2. \A d \in Fds : InHand(d)' <=> InHand(d)
    BY <1>1, <2>1 DEF InHand
  <2> QED
    BY <1>1, <2>1, <2>2 DEF RInv, Accounted
<1>11. Calm'
  <2> SUFFICES ASSUME upset' = {} PROVE Calm'
    BY DEF Calm
  <2>1. Calm /\ upset = {}
    BY <1>1 DEF RInv
  <2>2. keepDays # 0 => ~openInProgress /\ opener[o].keep # flag
    BY <1>1, <2>1 DEF Calm
  <2>3. keepDays # 0 => \A u \in Openers : ~Rotating(u)
    BY <2>2 DEF RInv, OneAtATime
  <2>4. \A u \in Openers : opener'[u].at # "none" => opener'[u] = opener[u]
    BY <1>3
  <2>5. \A u \in Openers : opener'[u].at = "flip" <=> opener[u].at = "flip"
    BY <1>1, <1>3
  <2>6. ~openInProgress' => name'[flag'] = desc'[fd']
    BY <1>1, <1>2, <1>6, <2>1, <2>2 DEF Calm
  <2>7. \A u \in Openers : Rotating(u)' => name' = name /\ opener'[u] = opener[u]
    BY <1>4, <2>3, <2>4 DEF Rotating
  <2>8. \A u \in Openers :
           /\ opener'[u].at = "flip" => name'[1 - flag'] # desc'[fd']
           /\ opener'[u].at = "open" => name'[flag'] # desc'[fd']
           /\ opener'[u].at = "swap" => name'[flag'] = desc'[opener'[u].new]
    BY <1>1, <2>1, <2>7 DEF Calm, Rotating
  <2>9. \A u \in Openers : keepDays' # 0 /\ opener'[u].at \in {"close", "keep"} =>
           ~openInProgress' /\ opener'[u].keep # flag'
    BY <1>1, <2>1, <2>4 DEF Calm
  <2>10. /\ reset'.at \in {"lines", "ask"} => reset'.last = flag' /\ ~openInProgress'
         /\ reset'.at = "remove" =>
              IF \E u \in Openers : opener'[u].at = "flip" THEN reset'.last = flag'
                                                           ELSE reset'.last # flag'
    BY <1>1, <2>1, <2>5 DEF Calm
  <2> QED
    BY <2>6, <2>8, <2>9, <2>10 DEF Calm
<1> QED
  BY <1>7, <1>8, <1>9, <1>10, <1>11 DEF RInv

(***************************************************************************)
(* MBT_resetLog, MBT_closeLog, and the rest of the process                 *)
(***************************************************************************)
LEMMA ResetNameRInv == RInv /\ ResetName => RInv'
<1> SUFFICES ASSUME RInv, ResetName PROVE RInv'
  OBVIOUS
<1>1. /\ reset' = [at |-> "lines", last |-> flag]
      /\ upset' = upset \cup (IF openInProgress THEN {"reset"} ELSE {})
      /\ UNCHANGED <<object, fd, closed, keepDays, kernel, printer, opener, printed, fault>>
  BY DEF ResetName, Note
<1>2. TypeOK'
  BY <1>1 DEF RInv, TypeOK
<1>3. Calm'
  <2>1. reset'.at = "lines" /\ reset'.last = flag
    BY <1>1
  <2>2. upset' = {} => upset = {} /\ ~openInProgress
    BY <1>1
  <2> QED
    BY <1>1, <2>1, <2>2 DEF RInv, Calm
<1> QED
  BY <1>1, <1>2, <1>3, RFrame DEF RInv

LEMMA ResetLinesRInv == RInv /\ ResetLines => RInv'
<1> SUFFICES ASSUME RInv, ResetLines PROVE RInv'
  OBVIOUS
<1>1. /\ reset.at = "lines" /\ lines' = MaxLines + 10
      /\ reset' = [reset EXCEPT !.at = "ask"]
      /\ UNCHANGED <<openInProgress, flag, fd, closed, keepDays, kernel, printer, opener,
                     printed, upset, fault>>
  BY DEF ResetLines, ResetGoto
<1>2. lines' \in Int /\ reset' = [at |-> "ask", last |-> reset.last]
  BY <1>1, RTypes DEF RInv, TypeOK
<1>3. TypeOK'
  BY <1>1, <1>2 DEF RInv, TypeOK
<1>4. Calm'
  BY <1>1, <1>2 DEF RInv, Calm
<1> QED
  BY <1>1, <1>3, <1>4, RFrame DEF RInv

LEMMA ResetAskRInv == RInv /\ ResetAsk => RInv'
<1> SUFFICES ASSUME RInv, ResetAsk PROVE RInv'
  OBVIOUS
<1>1. /\ reset.at = "ask" /\ OpenNewLogFile
      /\ upset' = upset \cup {u \in {"overlap", "reset"} :
                                IF u = "overlap" THEN Wanted /\ Archiving ELSE ~Wanted}
      /\ reset' = [reset EXCEPT !.at = "remove"]
      /\ UNCHANGED <<lines, flag, fd, closed, keepDays, kernel, printer, printed, fault>>
  BY DEF ResetAsk, Note, ResetGoto
<1>2. /\ reset' = [at |-> "remove", last |-> reset.last]
      /\ reset' \in [at : {"idle", "lines", "ask", "remove", "done"}, last : {0, 1}]
      /\ reset'.at = "remove" /\ reset'.last = reset.last
      /\ upset' \subseteq {"open", "overlap", "reset"}
  BY <1>1 DEF RInv, TypeOK
<1>3. CASE Wanted
  <2>1. /\ opener' \in [Openers -> Slots] /\ openInProgress' = TRUE
        /\ OneAtATime' /\ Hands' /\ Accounted' /\ Turn' /\ NamesApart'
    BY <1>1, <1>3, Begun
  <2>2. TypeOK'
    BY <1>1, <1>2, <2>1 DEF RInv, TypeOK, Slots
  <2>3. upset' = {} => upset = {} /\ ~Archiving
    <3>1. Archiving => "overlap" \in upset'
      BY <1>1, <1>3
    <3> QED
      BY <1>1, <3>1
  <2>4. Calm'
    BY <1>1, <1>2, <1>3, <2>3, BegunCalm
  <2> QED
    BY <2>1, <2>2, <2>4 DEF RInv
<1>4. CASE ~Wanted
  <2>1. UNCHANGED <<opener, openInProgress>> /\ "reset" \in upset'
    BY <1>1, <1>4 DEF OpenNewLogFile
  <2>2. TypeOK'
    BY <1>1, <1>2, <2>1 DEF RInv, TypeOK
  <2>3. Calm'
    BY <2>1 DEF Calm
  <2> QED
    BY <1>1, <2>1, <2>2, <2>3, RFrame DEF RInv
<1> QED
  BY <1>3, <1>4

LEMMA ResetRemoveRInv == RInv /\ ResetRemove => RInv'
<1> SUFFICES ASSUME RInv, ResetRemove PROVE RInv'
  OBVIOUS
<1>1. /\ reset.at = "remove" /\ name' = [name EXCEPT ![reset.last] = 0]
      /\ reset' = [reset EXCEPT !.at = "done"]
      /\ UNCHANGED <<object, fd, closed, keepDays, desc, files, archive, printer, opener,
                     printed, upset, fault>>
  BY DEF ResetRemove, ResetGoto
<1>2. /\ reset' = [at |-> "done", last |-> reset.last] /\ reset.last \in {0, 1}
      /\ flag \in {0, 1} /\ fd \in Fds
      /\ files \in Nat /\ name \in [{0, 1} -> 0..files] /\ name' \in [{0, 1} -> 0..files]
  BY <1>1, RTypes DEF RInv, TypeOK
<1>3. \A n \in {0, 1} : name'[n] = IF n = reset.last THEN 0 ELSE name[n]
  BY <1>1, <1>2
<1>4. TypeOK'
  BY <1>1, <1>2 DEF RInv, TypeOK
<1>5. OneAtATime' /\ Hands' /\ Accounted' /\ Turn'
  BY <1>1 DEF RInv, OneAtATime, Rotating, Hands, Accounted, InHand, Turn
<1>6. NamesApart'
  BY <1>3 DEF RInv, NamesApart
<1>7. Calm'
  <2> SUFFICES ASSUME upset' = {} PROVE Calm'
    BY DEF Calm
  <2>1. Calm /\ upset = {} /\ desc[fd] # 0
    BY <1>1, InUse DEF RInv
  <2>2. 1 - flag \in {0, 1} /\ 1 - flag # flag
    BY <1>2
  <2>3. ~openInProgress => reset.last # flag
    BY <1>1, <2>1 DEF Calm, RInv, OneAtATime, Rotating
  <2>4. \A u \in Openers : opener[u].at = "swap" => reset.last # flag
    BY <1>1, <2>1 DEF Calm, RInv, OneAtATime, Rotating
  <2>5. ~openInProgress => name'[flag] = desc[fd]
    BY <1>2, <1>3, <2>1, <2>3 DEF Calm
  <2>6. \A u \in Openers :
           /\ opener[u].at = "flip" => name'[1 - flag] # desc[fd]
           /\ opener[u].at = "open" => name'[flag] # desc[fd]
           /\ opener[u].at = "swap" => name'[flag] = desc[opener[u].new]
    BY <1>2, <1>3, <2>1, <2>2, <2>4 DEF Calm
  <2> QED
    BY <1>1, <1>2, <2>1, <2>5, <2>6 DEF Calm
<1> QED
  BY <1>4, <1>5, <1>6, <1>7 DEF RInv

LEMMA CloseLogRInv == RInv /\ CloseLog => RInv'
<1> SUFFICES ASSUME RInv, CloseLog PROVE RInv'
  OBVIOUS
<1>1. /\ UNCHANGED <<object, fd, keepDays, kernel, printer, opener, reset, printed, upset,
                     fault>>
      /\ closed' \in BOOLEAN
  BY DEF CloseLog
<1>2. TypeOK' /\ Calm'
  BY <1>1 DEF RInv, TypeOK, Calm
<1> QED
  BY <1>1, <1>2, RFrame DEF RInv

LEMMA ForeignRInv == RInv /\ ForeignFd => RInv'
<1> SUFFICES ASSUME RInv, ForeignFd PROVE RInv'
  OBVIOUS
<1>1. UNCHANGED <<object, fd, closed, keepDays, name, files, archive, printer, opener, reset,
                  printed, upset, fault>>
  BY DEF ForeignFd
<1>2. PICK k \in Fds : /\ desc[k] \in {0, -1} /\ \E f \in {0, -1} : desc' = [desc EXCEPT ![k] = f]
  BY LowestFree DEF ForeignFd, FreeFds
<1>3. /\ desc \in [Fds -> -1..files] /\ files \in Nat
      /\ desc' \in [Fds -> -1..files] /\ desc'[k] \in {0, -1}
      /\ \A d \in Fds : d # k => desc'[d] = desc[d]
  BY <1>2, RTypes DEF RInv
<1>4. \A d \in Fds : /\ desc'[d] \in {0, -1} <=> desc[d] \in {0, -1}
                     /\ desc[d] \notin {0, -1} => desc'[d] = desc[d]
  BY <1>2, <1>3
<1>5. TypeOK'
  BY <1>1, <1>3 DEF RInv, TypeOK
<1>6. OneAtATime' /\ Hands' /\ Turn' /\ NamesApart'
  BY <1>1 DEF RInv, OneAtATime, Rotating, Hands, Turn, NamesApart
<1>7. Accounted'
  <2>1. \A d \in Fds : InHand(d)' <=> InHand(d)
    BY <1>1 DEF InHand
  <2> QED
    BY <1>1, <1>4, <2>1 DEF RInv, Accounted
<1>8. Calm'
  <2>1. desc'[fd] = desc[fd]
    BY <1>4, InUse
  <2>2. \A u \in Openers : opener[u].at = "swap" => desc'[opener[u].new] = desc[opener[u].new]
    BY <1>4, InUse
  <2> QED
    BY <1>1, <2>1, <2>2 DEF RInv, Calm
<1> QED
  BY <1>5, <1>6, <1>7, <1>8 DEF RInv

(***************************************************************************)
(* The theorems                                                            *)
(***************************************************************************)
LEMMA StepRInv == RInv /\ [Next]_vars => RInv'
<1> SUFFICES ASSUME RInv, [Next]_vars PROVE RInv'
  OBVIOUS
<1>1. CASE Next
  BY <1>1, PrintLineRInv, PrintAskRInv, FlipRInv, OpenRInv, FailRInv, SwapRInv, NullRInv,
     CloseRInv, KeepRInv, ResetNameRInv, ResetLinesRInv, ResetAskRInv, ResetRemoveRInv,
     CloseLogRInv, ForeignRInv DEF Next, OpenerStep
<1>2. CASE UNCHANGED vars
  <2>1. TypeOK' /\ Calm'
    BY <1>2 DEF RInv, TypeOK, Calm, vars
  <2> QED
    BY <1>2, <2>1, RFrame DEF RInv, vars
<1> QED
  BY <1>1, <1>2

\* The inductive invariant holds in every reachable state.
THEOREM RotateInvariance == Spec => []RInv
  BY RInitInv, StepRInv, PTL DEF Spec

THEOREM RotateTypeCorrect == Spec => []TypeOK
<1>1. RInv => TypeOK
  BY DEF RInv
<1> QED
  BY <1>1, RotateInvariance, PTL

\* openNewLogFile starts no second thread while one is between its start and
\* the exchange of the descriptor, whoever asks for it.
THEOREM OneRotation == Spec => []OneOpener
<1> DEFINE busy == {o \in Openers : opener[o].at \in {"flip", "open", "swap"}}
<1>1. ASSUME OneAtATime PROVE OneOpener
  <2>1. CASE openInProgress
    <3>1. PICK o \in Openers : busy = {o}
      BY <1>1, <2>1 DEF OneAtATime, Rotating
    <3>2. Cardinality(busy) = 1
      BY <3>1, FS_Singleton
    <3> QED
      BY <2>1, <3>2 DEF OneOpener
  <2>2. CASE ~openInProgress
    <3>1. busy = {}
      BY <1>1, <2>2 DEF OneAtATime, Rotating
    <3>2. Cardinality(busy) = 0
      BY <3>1, FS_EmptySet
    <3> QED
      BY <2>2, <3>2 DEF OneOpener
  <2> QED
    BY <2>1, <2>2
<1>2. RInv => OneOpener
  BY <1>1 DEF RInv
<1> QED
  BY <1>2, RotateInvariance, PTL

\* No descriptor of a log file is lost, and threadToOpenNewFile never closes
\* one that the handle, another thread or the rest of the process uses.
THEOREM DescriptorsAccounted == Spec => []FdsAccounted
<1>1. ASSUME RInv PROVE FdsAccounted
  <2>1. opener \in [Openers -> Slots] /\ fd \in Fds /\ 0 \notin Fds
    BY <1>1, RTypes DEF RInv
  <2>2. \A o \in Openers : opener[o].new \in Fds \cup {0} /\ opener[o].old \in Fds \cup {0}
    <3> SUFFICES ASSUME NEW o \in Openers
                 PROVE  opener[o].new \in Fds \cup {0} /\ opener[o].old \in Fds \cup {0}
      OBVIOUS
    <3>1. opener[o] \in Slots
      BY <2>1
    <3> QED
      BY <3>1 DEF Slots
  <2>3. \A d : d \in Held \ {0} <=> d # 0 /\ InHand(d)
    BY DEF Held, InHand
  <2>4. \A d : d # 0 /\ InHand(d) => d \in Fds
    BY <2>1, <2>2 DEF InHand
  <2>5. \A d : d \in {e \in Fds : desc[e] \notin {0, -1}} <=> d \in Held \ {0}
    BY <1>1, <2>1, <2>3, <2>4 DEF RInv, Accounted
  <2> HIDE DEF NoFd, NoFile, Foreign
  <2>6. NoFd = 0 /\ NoFile = 0 /\ Foreign = -1
    BY DEF NoFd, NoFile, Foreign
  <2>7. {e \in Fds : desc[e] \notin {0, -1}} = Held \ {0}
    BY <2>5
  <2>8. {d \in Fds : desc[d] \notin {NoFile, Foreign}} = Held \ {NoFd}
    BY <2>6, <2>7
  <2> QED
    BY <1>1, <2>6, <2>8 DEF FdsAccounted, RInv, Accounted
<1>2. RInv => FdsAccounted
  BY <1>1
<1> QED
  BY <1>2, RotateInvariance, PTL

\* Between two rotations the handle writes the file that the flag names,
\* unless one of the three things the rotation does not survive has happened.
THEOREM CurrentKeepsName == Spec => []CurrentNamed
<1>1. RInv => CurrentNamed
  BY DEF RInv, Calm, CurrentNamed
<1> QED
  BY <1>1, RotateInvariance, PTL

\* Under the same condition a rotation truncates only the file not in use.
THEOREM TruncatesOnlyOther == Spec => []TruncatesOther
<1>1. RInv => TruncatesOther
  BY DEF RInv, Calm, Turn, TruncatesOther
<1> QED
  BY <1>1, RotateInvariance, PTL
=============================================================================
