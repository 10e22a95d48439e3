-------------------------- MODULE BulkStoreProofs --------------------------
(***************************************************************************)
(* Proofs about BulkStore, for any cache size, any number of units and     *)
(* files and any set of faults that the theorem allows.                    *)
(***************************************************************************)
EXTENDS BulkStore, FiniteSetTheorems, TLAPS

\* Where the core thread is tells what it can rely on: a file is being saved
\* only below the bound, the file at hand exists as an index, and the tail
\* path renames and advances only at an index that had a file.
Control ==
    /\ pc \in {"open", "write", "tail", "index"} => next_index < IndexMax
    /\ pc \in {"post", "rename"} /\ reason = "full" => next_index > 0
    /\ pc \in {"post", "rename", "advance"} /\ reason = "scan" => db_tail # None
    /\ pc \in {"rename", "advance"} /\ reason = "scan" => db_tail < IndexMax
    /\ pc = "advance" => reason = "scan"

\* Files exist only at indexes a save could have used.
Placed == \A i \in Index : dat[i] # None \/ bk[i] # None => i < IndexMax

\* The index in the database never runs ahead of the one in memory.
IndexBehind == Indexed <= next_index

\* The cache holds dumped units only, so a dump adds new ones.
CacheOld == cache \subseteq 1..fed

BulkInv == TypeOK /\ Control /\ Placed /\ IndexBehind /\ CacheOld

\* The initial state satisfies it.
LEMMA BulkInit == Init => BulkInv
<1> SUFFICES ASSUME Init PROVE BulkInv
  OBVIOUS
<1> USE BulkAssumption DEF Init
<1>1. TypeOK
  <2>1. Cardinality({}) = 0
    BY FS_EmptySet
  <2>2. dat \in [Index -> File] /\ bk \in [Index -> File]
    BY DEF File
  <2>3. db_index \in Attribute /\ db_tail \in Attribute
    BY DEF Attribute
  <2>4. next_index \in 0..(IndexMax + 1) /\ fed \in 0..UnitMax
    BY DEF Index
  <2>5. cache \subseteq Units /\ Cardinality(cache) <= CacheMax
    BY <2>1
  <2> QED
    BY <2>2, <2>3, <2>4, <2>5 DEF TypeOK
<1> QED
  BY <1>1 DEF BulkInv, Control, Placed, IndexBehind, Indexed, CacheOld

\* A dump of n units into a cache with room for them makes it n units larger.
LEMMA DumpFits ==
    ASSUME TypeOK, CacheOld, NEW n \in Nat, n <= Room
    PROVE  /\ IsFiniteSet(cache)
           /\ Cardinality(cache \cup ((fed + 1)..(fed + n))) <= CacheMax
<1> USE BulkAssumption
<1>1. IsFiniteSet(1..fed) /\ fed \in Nat
  BY FS_Interval DEF TypeOK
<1>2. IsFiniteSet(cache) /\ Cardinality(cache) \in Nat
  BY <1>1, FS_Subset, FS_CardinalityType DEF CacheOld
<1> DEFINE new == (fed + 1)..(fed + n)
<1>3. IsFiniteSet(new) /\ Cardinality(new) = n
  <2>1. fed + 1 \in Int /\ fed + n \in Int
    BY <1>1
  <2>2. Cardinality(new) = IF fed + 1 > fed + n THEN 0 ELSE (fed + n) - (fed + 1) + 1
    BY <2>1, FS_Interval
  <2>3. IsFiniteSet(new)
    BY <2>1, FS_Interval
  <2> QED
    BY <1>1, <2>2, <2>3
<1>4. cache \cap new = {}
  BY <1>1 DEF CacheOld
<1>5. Cardinality(cache \cup new)
        = Cardinality(cache) + Cardinality(new) - Cardinality(cache \cap new)
  BY <1>2, <1>3, FS_Union
<1>6. Cardinality(cache \cap new) = 0
  BY <1>4, FS_EmptySet
<1> QED
  BY <1>2, <1>3, <1>5, <1>6 DEF Room


\* Dumping and the way to the head path or the save.
LEMMA DumpStep == BulkInv /\ (\E n \in 0..CacheMax : Dump(n)) => BulkInv'
<1> SUFFICES ASSUME BulkInv, NEW n \in 0..CacheMax, Dump(n) PROVE BulkInv'
  OBVIOUS
<1> USE BulkAssumption DEF Dump, Goto, disk, outside
<1>1. n \in Nat /\ fed \in Nat /\ n <= Room /\ fed + n <= UnitMax
  BY DEF BulkInv, TypeOK
<1>2. cache' \subseteq Units /\ Cardinality(cache') <= CacheMax
  BY <1>1, DumpFits DEF BulkInv, TypeOK, CacheOld, Units
<1>3. TypeOK'
  BY <1>1, <1>2 DEF BulkInv, TypeOK, Attribute, File
<1>4. Control' /\ Placed' /\ IndexBehind'
  BY DEF BulkInv, Control, Placed, IndexBehind, Indexed
<1>5. CacheOld'
  <2>1. cache' = cache \cup ((fed + 1)..(fed + n)) /\ fed' = fed + n
    OBVIOUS
  <2>2. cache \subseteq 1..fed
    BY DEF BulkInv, CacheOld
  <2> HIDE DEF Dump
  <2>3. cache \cup ((fed + 1)..(fed + n)) \subseteq 1..(fed + n)
    BY <1>1, <2>2
  <2> QED
    BY <2>1, <2>3 DEF CacheOld
<1> QED
  BY <1>3, <1>4, <1>5 DEF BulkInv

\* The steps of save_bulk_data.
LEMMA SaveStep ==
    BulkInv /\ (\/ SaveOpen \/ SaveOpenFail \/ SaveWrite \/ SaveWriteFail
                \/ SaveTail \/ SaveIndex) => BulkInv'
<1> SUFFICES ASSUME BulkInv,
                    \/ SaveOpen \/ SaveOpenFail \/ SaveWrite \/ SaveWriteFail
                    \/ SaveTail \/ SaveIndex
             PROVE  BulkInv'
  OBVIOUS
<1> USE BulkAssumption DEF Goto, disk, outside
<1>0. /\ TypeOK /\ Control /\ Placed /\ IndexBehind /\ CacheOld
      /\ next_index \in Int
      /\ pc \in {"open", "write", "tail", "index"} => next_index \in Index
  BY DEF BulkInv, TypeOK, Control, Index
<1>1. CASE SaveOpen
  <2>1. TypeOK'
    BY <1>0, <1>1 DEF SaveOpen, TypeOK, Attribute, File
  <2>2. Control' /\ Placed' /\ IndexBehind' /\ CacheOld'
    BY <1>0, <1>1 DEF SaveOpen, TypeOK, Control, Placed, IndexBehind, Indexed, CacheOld
  <2> QED
    BY <2>1, <2>2 DEF BulkInv
<1>2. CASE SaveOpenFail
  BY <1>0, <1>2 DEF SaveOpenFail, BulkInv, TypeOK, Control, Placed, IndexBehind,
                    Indexed, CacheOld
<1>3. CASE SaveWrite
  <2>1. TypeOK'
    BY <1>0, <1>3 DEF SaveWrite, TypeOK, Attribute, File
  <2>2. Control' /\ Placed' /\ IndexBehind' /\ CacheOld'
    BY <1>0, <1>3 DEF SaveWrite, TypeOK, Control, Placed, IndexBehind, Indexed, CacheOld
  <2> QED
    BY <2>1, <2>2 DEF BulkInv
<1>4. CASE SaveWriteFail
  <2>0. PICK last \in cache :
           dat' = [dat EXCEPT ![next_index] = {u \in cache : u < last}]
    BY <1>4 DEF SaveWriteFail
  <2>1. TypeOK'
    BY <1>0, <1>4, <2>0 DEF SaveWriteFail, TypeOK, Attribute, File
  <2>2. Control' /\ Placed' /\ IndexBehind' /\ CacheOld'
    BY <1>0, <1>4, <2>0 DEF SaveWriteFail, TypeOK, Control, Placed, IndexBehind,
                            Indexed, CacheOld
  <2> QED
    BY <2>1, <2>2 DEF BulkInv
<1>5. CASE SaveTail
  <2>1. db_tail' = db_tail \/ db_tail' = next_index
    BY <1>5 DEF SaveTail, Save
  <2>2. TypeOK'
    BY <1>0, <1>5, <2>1 DEF SaveTail, TypeOK, Attribute
  <2>3. Control' /\ Placed' /\ IndexBehind' /\ CacheOld'
    BY <1>0, <1>5 DEF SaveTail, TypeOK, Control, Placed, IndexBehind, Indexed, CacheOld
  <2> QED
    BY <2>2, <2>3 DEF BulkInv
<1>6. CASE SaveIndex
  <2>1. /\ db_index' = db_index \/ db_index' = next_index + 1
        /\ next_index' \in {next_index + 1, next_index + 2}
        /\ cache' \in {cache, {}}
    BY <1>6 DEF SaveIndex, Save, Advanced, CacheLeft
  <2>2. next_index + 1 \in Index /\ next_index' \in 0..(IndexMax + 1)
    BY <1>0, <1>6, <2>1 DEF SaveIndex, Control, Index
  <2>3. cache' \subseteq Units /\ Cardinality(cache') <= CacheMax /\ CacheOld'
    <3>1. Cardinality({}) = 0
      BY FS_EmptySet
    <3>2. fed' = fed
      BY <1>6 DEF SaveIndex
    <3>3. CASE cache' = cache
      BY <1>0, <3>2, <3>3 DEF TypeOK, CacheOld
    <3>4. CASE cache' = {}
      BY <3>1, <3>4 DEF CacheOld
    <3> QED
      BY <2>1, <3>3, <3>4
  <2>4. TypeOK'
    BY <1>0, <1>6, <2>1, <2>2, <2>3 DEF SaveIndex, TypeOK, Attribute
  <2>5. Control' /\ Placed'
    BY <1>0, <1>6 DEF SaveIndex, Control, Placed
  <2>6. IndexBehind'
    BY <1>0, <1>6, <2>1 DEF TypeOK, Attribute, Index, IndexBehind, Indexed
  <2> QED
    BY <2>3, <2>4, <2>5, <2>6 DEF BulkInv
<1> QED
  BY <1>1, <1>2, <1>3, <1>4, <1>5, <1>6

\* The index of the file at hand is within the bound while it is in use.
LEMMA TargetIndex ==
    BulkInv /\ pc \in {"post", "rename"} => Target \in Index
BY BulkAssumption DEF BulkInv, TypeOK, Attribute, Control, Target, Index

\* Choosing the path and posting a file.
LEMMA PostStep ==
    BulkInv /\ (\/ HeadPost \/ HeadSkip \/ TailPost
                \/ PostMissing \/ PostOk \/ PostFail \/ PostLost \/ PostReject
                \/ PostNoMem) => BulkInv'
<1> SUFFICES ASSUME BulkInv,
                    \/ HeadPost \/ HeadSkip \/ TailPost
                    \/ PostMissing \/ PostOk \/ PostFail \/ PostLost
                    \/ PostReject \/ PostNoMem
             PROVE  BulkInv'
  OBVIOUS
<1> USE BulkAssumption DEF Goto, disk, outside
<1>0. TypeOK /\ Control /\ Placed /\ IndexBehind /\ CacheOld
  BY DEF BulkInv
<1>1. UNCHANGED <<db_index, db_tail, dat, bk, next_index, cache, saved, fed>>
  BY DEF HeadPost, HeadSkip, TailPost, PostMissing, PostOk, PostFail, PostLost,
         PostReject, PostNoMem, Settle
<1>2. Placed' /\ IndexBehind' /\ CacheOld'
  BY <1>0, <1>1 DEF Placed, IndexBehind, Indexed, CacheOld
<1>3. sent' \subseteq Units /\ twice' \subseteq Units
  <2>1. CASE PostOk \/ PostLost
    <3>1. Target \in Index /\ dat[Target] # None
      BY <2>1, TargetIndex DEF PostOk, PostLost, Posting
    <3>2. dat[Target] \subseteq Units
      BY <1>0, <3>1 DEF TypeOK, File
    <3> QED
      BY <1>0, <2>1, <3>2 DEF PostOk, PostLost, Deliver, TypeOK
  <2>2. CASE ~(PostOk \/ PostLost)
    BY <1>0, <2>2 DEF HeadPost, HeadSkip, TailPost, PostMissing, PostFail,
                      PostReject, PostNoMem, TypeOK
  <2> QED
    BY <2>1, <2>2
<1>4. CASE HeadPost \/ HeadSkip \/ TailPost
  <2>1. TypeOK'
    BY <1>0, <1>1, <1>3, <1>4 DEF HeadPost, HeadSkip, TailPost, TypeOK
  <2>2. Control'
    BY <1>0, <1>1, <1>4 DEF HeadPost, HeadSkip, TailPost, Control
  <2> QED
    BY <1>2, <2>1, <2>2 DEF BulkInv
<1>5. CASE ~(HeadPost \/ HeadSkip \/ TailPost)
  <2>1. /\ pc = "post" /\ reason' = reason
        /\ pc' \in {"rename", "loop"}
        /\ pc' = "rename" => dat[Target] # None \/ bk[Target] # None
    BY <1>5 DEF PostMissing, PostOk, PostFail, PostLost, PostReject, PostNoMem,
                Posting, Settle, Done
  <2>f. faults' = faults
    BY <1>5 DEF PostMissing, PostOk, PostFail, PostLost, PostReject, PostNoMem,
                Deliver
  <2>2. TypeOK'
    BY <1>0, <1>1, <1>3, <2>1, <2>f DEF TypeOK
  <2>3. pc' = "rename" => Target < IndexMax
    BY <1>0, <2>1, TargetIndex DEF Placed
  <2>4. Control'
    BY <1>0, <1>1, <2>1, <2>3 DEF Control, Target
  <2> QED
    BY <1>2, <2>2, <2>4 DEF BulkInv
<1> QED
  BY <1>4, <1>5

\* Renaming the posted file and advancing the tail.
LEMMA RenameStep ==
    BulkInv /\ (Rename \/ RenameFail \/ AdvanceTail) => BulkInv'
<1> SUFFICES ASSUME BulkInv, Rename \/ RenameFail \/ AdvanceTail PROVE BulkInv'
  OBVIOUS
<1> USE BulkAssumption DEF Goto, disk, outside
<1>0. TypeOK /\ Control /\ Placed /\ IndexBehind /\ CacheOld
  BY DEF BulkInv
<1>1. CASE Rename \/ RenameFail
  <2>0. Target \in Index
    BY <1>1, TargetIndex DEF Rename, RenameFail
  <2>1. /\ UNCHANGED <<db_index, db_tail, next_index, cache, saved, reason, fed,
                       sent, twice>>
        /\ pc = "rename"
        /\ pc' = IF reason = "scan" THEN "advance" ELSE "loop"
    BY <1>1 DEF Rename, RenameFail, AfterRename
  <2>f. faults' = faults
    BY <1>1 DEF Rename, RenameFail
  <2>2. /\ dat' \in [Index -> File] /\ bk' \in [Index -> File]
        /\ \A i \in Index : /\ dat'[i] \in {dat[i], None}
                            /\ bk'[i] # bk[i] => dat[i] # None
    BY <1>0, <1>1, <2>0 DEF Rename, RenameFail, NoSuchFile, TypeOK, File
  <2>3. TypeOK'
    BY <1>0, <2>1, <2>2, <2>f DEF TypeOK
  <2>4. Control'
    BY <1>0, <2>1 DEF Control
  <2>5. Placed' /\ IndexBehind' /\ CacheOld'
    BY <1>0, <2>1, <2>2 DEF Placed, IndexBehind, Indexed, CacheOld
  <2> QED
    BY <2>3, <2>4, <2>5 DEF BulkInv
<1>2. CASE AdvanceTail
  <2>1. /\ db_tail' \in {db_tail, db_tail + 1}
        /\ db_tail \in Index /\ db_tail < IndexMax
    BY <1>0, <1>2 DEF AdvanceTail, Save, Control, TypeOK, Attribute
  <2>2. db_tail' \in Attribute
    BY <2>1 DEF Attribute, Index
  <2> QED
    BY <1>0, <1>2, <2>2 DEF AdvanceTail, BulkInv, TypeOK, Control, Placed,
                            IndexBehind, Indexed, CacheOld
<1> QED
  BY <1>1, <1>2

\* A power cycle.
LEMMA RestartStep == BulkInv /\ Restart => BulkInv'
<1> SUFFICES ASSUME BulkInv, Restart PROVE BulkInv'
  OBVIOUS
<1> USE BulkAssumption DEF Goto, disk, outside
<1>0. TypeOK /\ Control /\ Placed /\ IndexBehind /\ CacheOld
  BY DEF BulkInv
<1>1. /\ UNCHANGED <<faults, db_index, db_tail, dat, bk, fed, sent, twice>>
      /\ cache' = {} /\ saved' = FALSE /\ reason' = "scan" /\ pc' = "loop"
      /\ next_index' = Indexed
  BY DEF Restart, Indexed
<1>2. Indexed \in 0..(IndexMax + 1)
  BY <1>0 DEF TypeOK, Attribute, Index, Indexed
<1>3. Cardinality(cache') <= CacheMax
  <2>1. Cardinality({}) = 0
    BY FS_EmptySet
  <2> QED
    BY <1>1, <2>1
<1>4. TypeOK'
  BY <1>0, <1>1, <1>2, <1>3 DEF TypeOK
<1>5. Control' /\ Placed' /\ IndexBehind' /\ CacheOld'
  BY <1>0, <1>1, <1>2 DEF Control, Placed, IndexBehind, Indexed, CacheOld
<1> QED
  BY <1>4, <1>5 DEF BulkInv

LEMMA BulkStepInv == BulkInv /\ [Next]_vars => BulkInv'
<1>1. BulkInv /\ UNCHANGED vars => BulkInv'
  BY DEF vars, BulkInv, TypeOK, Control, Placed, IndexBehind, Indexed, CacheOld
<1> QED
  BY <1>1, DumpStep, SaveStep, PostStep, RenameStep, RestartStep
     DEF Next, CoreStep

\* BulkInv holds in every reachable state.
THEOREM BulkInvariance == Spec => []BulkInv
<1> QED
  BY BulkInit, BulkStepInv, PTL DEF Spec

\* Type correctness of the bulk service (MBT_bulk.c, MBT_realtime.c): indexes stay in
\* their bounds and the cache never takes more than BULK_FILE_MAX_BYTES.
THEOREM BulkTypeCorrect == Spec => []TypeOK
<1>1. BulkInv => TypeOK
  BY DEF BulkInv
<1> QED
  BY BulkInvariance, <1>1, PTL

----------------------------------------------------------------------------
(* Files that the index accounts for are kept                              *)

KeptStep ==
    \A i \in Index : i < Indexed /\ dat[i] # None =>
        dat'[i] = dat[i] \/ (dat'[i] = None /\ bk'[i] = dat[i])

\* A save opens and writes at next_index, which the database's index has not
\* passed; everything else leaves a file alone or renames it.
LEMMA KeptLemma == BulkInv /\ [Next]_vars => KeptStep
<1> SUFFICES ASSUME BulkInv, [Next]_vars PROVE KeptStep
  OBVIOUS
<1> USE DEF disk, outside
<1>0. /\ dat \in [Index -> File] /\ bk \in [Index -> File]
      /\ Indexed \in Int /\ next_index \in Int /\ Indexed <= next_index
  BY BulkAssumption
     DEF BulkInv, TypeOK, IndexBehind, Indexed, Attribute, Index
<1>1. CASE SaveOpen \/ SaveWrite \/ SaveWriteFail
  <2>1. \A i \in Index : i # next_index => dat'[i] = dat[i]
    BY <1>0, <1>1 DEF SaveOpen, SaveWrite, SaveWriteFail
  <2> QED
    BY <1>0, <2>1 DEF KeptStep, Index
<1>2. CASE Rename
  BY <1>0, <1>2 DEF Rename, NoSuchFile, KeptStep
<1>3. CASE ~(SaveOpen \/ SaveWrite \/ SaveWriteFail \/ Rename)
  <2>1. dat' = dat
    BY <1>3 DEF Next, CoreStep, vars, Dump, TailPost, SaveOpenFail, SaveTail,
                SaveIndex, HeadPost, HeadSkip, PostMissing, PostOk, PostFail,
                PostLost, PostReject, PostNoMem, Settle, RenameFail,
                AdvanceTail, Restart
  <2> QED
    BY <2>1 DEF KeptStep
<1> QED
  BY <1>1, <1>2, <1>3

\* Whatever fails and wherever power is lost, a file whose index is in the database
\* (update_index, MBT_bulk.c:58) is never truncated or rewritten.
THEOREM FilesKept == Spec => IndexedFilesKept
<1>1. BulkInv /\ [Next]_vars => [KeptStep]_vars
  BY KeptLemma
<1>2. IndexedFilesKept <=> [][KeptStep]_vars
  BY PTL DEF IndexedFilesKept, KeptStep
<1> QED
  BY BulkInvariance, <1>1, <1>2, PTL DEF Spec

----------------------------------------------------------------------------
(* Nothing is lost                                                         *)

\* From next_index on there is no file, but the one being saved.
Ahead ==
    \A i \in Index :
        /\ i > next_index => dat[i] = None
        /\ i = next_index /\ dat[i] # None => pc \in {"write", "tail", "index"}

\* The opened file is empty, a complete save put the whole cache into it, and a
\* file about to be renamed is at the server.
Opened == pc = "write" => dat[next_index] = {}
SavedAll == saved /\ pc \in {"tail", "index"} => dat[next_index] = cache
PostedFirst == pc = "rename" => dat[Target] = None \/ dat[Target] \subseteq sent

LossInv == Ahead /\ Opened /\ SavedAll /\ PostedFirst /\ AllStored

LEMMA LossInit == Init => LossInv
BY DEF Init, LossInv, Ahead, Opened, SavedAll, PostedFirst, AllStored

\* Nothing is lost by a step that keeps every file, what the server has and
\* the cache, or moves the cache into a file.
LEMMA StoredUnits ==
    \A u : u \in Stored <=> \E i \in Index : dat[i] # None /\ u \in dat[i]
BY DEF Stored

LEMMA StoredGrows ==
    ASSUME \A i \in Index : dat[i] # None => dat'[i] # None /\ dat[i] \subseteq dat'[i]
    PROVE  Stored \subseteq Stored'
<1>1. \A u : u \in Stored' <=> \E i \in Index : dat'[i] # None /\ u \in dat'[i]
  BY DEF Stored
<1> QED
  BY <1>1, StoredUnits

LEMMA SaveLoses ==
    BulkInv /\ LossInv /\ (\/ SaveOpen \/ SaveOpenFail \/ SaveWrite
                           \/ SaveWriteFail \/ SaveTail \/ SaveIndex) => LossInv'
<1> SUFFICES ASSUME BulkInv, LossInv,
                    \/ SaveOpen \/ SaveOpenFail \/ SaveWrite \/ SaveWriteFail
                    \/ SaveTail \/ SaveIndex
             PROVE  LossInv'
  OBVIOUS
<1> USE DEF Goto, disk, outside
<1>0. /\ Ahead /\ Opened /\ SavedAll /\ PostedFirst /\ AllStored
      /\ dat \in [Index -> File] /\ next_index \in Int
      /\ pc \in {"open", "write", "tail", "index"} => next_index \in Index
  BY BulkAssumption DEF BulkInv, LossInv, TypeOK, Control, Index
<1>n. None # {} /\ \A c \in SUBSET Units : c # None
  BY BulkAssumption DEF Units
<1>1. CASE SaveOpen
  <2>1. dat[next_index] = None /\ next_index \in Index /\ pc = "open"
    BY <1>0, <1>1 DEF SaveOpen, Ahead
  <2>2. dat' = [dat EXCEPT ![next_index] = {}] /\ pc' = "write"
        /\ UNCHANGED <<next_index, cache, fed, sent, saved>>
    BY <1>1 DEF SaveOpen
  <2>3. Stored \subseteq Stored'
    BY <1>0, <2>1, <2>2, StoredGrows
  <2>4. AllStored'
    BY <1>0, <2>2, <2>3 DEF AllStored
  <2>5. Ahead' /\ Opened' /\ SavedAll' /\ PostedFirst'
    BY <1>0, <2>1, <2>2 DEF Ahead, Opened, SavedAll, PostedFirst
  <2> QED
    BY <2>4, <2>5 DEF LossInv
<1>2. CASE SaveOpenFail
  BY <1>0, <1>2 DEF SaveOpenFail, LossInv, Ahead, Opened, SavedAll, PostedFirst,
                    AllStored, Stored
<1>3. CASE SaveWrite \/ SaveWriteFail
  <2>1. dat[next_index] = {} /\ next_index \in Index /\ pc = "write"
    BY <1>0, <1>3 DEF SaveWrite, SaveWriteFail, Opened
  <2>2. /\ \E c \in SUBSET Units : /\ dat' = [dat EXCEPT ![next_index] = c]
                                   /\ saved' => c = cache
        /\ pc' = "tail"
        /\ UNCHANGED <<next_index, cache, fed, sent>>
    <3>1. cache \subseteq Units
      BY DEF BulkInv, TypeOK
    <3>2. CASE SaveWrite
      BY <3>1, <3>2 DEF SaveWrite
    <3>3. CASE SaveWriteFail
      BY <3>1, <3>3 DEF SaveWriteFail
    <3> QED
      BY <1>3, <3>2, <3>3
  <2>3. Stored \subseteq Stored'
    BY <1>0, <1>n, <2>1, <2>2, StoredGrows
  <2>4. AllStored'
    BY <1>0, <2>2, <2>3 DEF AllStored
  <2>5. Ahead' /\ Opened' /\ SavedAll' /\ PostedFirst'
    BY <1>0, <2>1, <2>2 DEF Ahead, Opened, SavedAll, PostedFirst
  <2> QED
    BY <2>4, <2>5 DEF LossInv
<1>4. CASE SaveTail
  BY <1>0, <1>4 DEF SaveTail, LossInv, Ahead, Opened, SavedAll, PostedFirst,
                    AllStored, Stored
<1>5. CASE SaveIndex
  <2>1. /\ pc = "index" /\ pc' = "head"
        /\ UNCHANGED <<dat, saved, fed, sent>>
        /\ next_index' \in {next_index + 1, next_index + 2}
        /\ cache' = IF saved THEN {} ELSE cache
    BY <1>5 DEF SaveIndex, Advanced, CacheLeft
  <2>2. saved => cache \subseteq Stored
    <3>1. cache # None
      BY <1>n DEF BulkInv, TypeOK
    <3> QED
      BY <1>0, <2>1, <3>1, StoredUnits DEF SavedAll
  <2>3. Stored' = Stored
    BY <2>1 DEF Stored
  <2>4. AllStored'
    BY <1>0, <2>1, <2>2, <2>3 DEF AllStored
  <2>5. Ahead'
    BY <1>0, <2>1 DEF Ahead, Index
  <2> QED
    BY <2>1, <2>4, <2>5 DEF LossInv, Opened, SavedAll, PostedFirst
<1> QED
  BY <1>1, <1>2, <1>3, <1>4, <1>5

\* What may go wrong in a behaviour is settled at its start.
LEMMA FaultsFixed == [Next]_vars => faults' = faults
<1> USE DEF outside
<1>1. ASSUME NEW n \in 0..CacheMax, Dump(n) PROVE faults' = faults
  BY <1>1 DEF Dump
<1>2. CASE TailPost \/ Restart
  BY <1>2 DEF TailPost, Restart
<1>3. CASE CoreStep
  BY <1>3 DEF CoreStep, SaveOpen, SaveOpenFail, SaveWrite, SaveWriteFail,
              SaveTail, SaveIndex, HeadPost, HeadSkip, PostMissing, PostOk,
              PostFail, PostLost, PostReject, PostNoMem, Deliver, Rename,
              RenameFail, AdvanceTail
<1>4. CASE UNCHANGED vars
  BY <1>4 DEF vars
<1> QED
  BY <1>1, <1>2, <1>3, <1>4 DEF Next

LEMMA LossStep ==
    ASSUME faults \cap Destructive = {}
    PROVE  BulkInv /\ LossInv /\ [Next]_vars => LossInv'
<1> SUFFICES ASSUME BulkInv, LossInv, [Next]_vars PROVE LossInv'
  OBVIOUS
<1> USE DEF Goto, disk, outside
<1>0. /\ Ahead /\ Opened /\ SavedAll /\ PostedFirst /\ AllStored
      /\ dat \in [Index -> File] /\ next_index \in Int /\ fed \in Nat
  BY BulkAssumption DEF BulkInv, LossInv, TypeOK, Index
<1>1. ASSUME NEW n \in 0..CacheMax, Dump(n) PROVE LossInv'
  <2>1. /\ pc = "loop" /\ pc' \in {"open", "head"}
        /\ UNCHANGED <<dat, next_index, sent>>
        /\ fed' = fed + n /\ cache' = cache \cup ((fed + 1)..(fed + n))
    BY <1>1 DEF Dump
  <2>2. Stored' = Stored
    BY <2>1 DEF Stored
  <2>3. AllStored'
    <3>1. \A u \in 1..(fed + n) : u \in 1..fed \/ u \in (fed + 1)..(fed + n)
      BY <1>0
    <3> QED
      BY <1>0, <2>1, <2>2, <3>1 DEF AllStored
  <2> QED
    BY <1>0, <2>1, <2>3 DEF LossInv, Ahead, Opened, SavedAll, PostedFirst
<1>2. CASE \/ SaveOpen \/ SaveOpenFail \/ SaveWrite \/ SaveWriteFail
           \/ SaveTail \/ SaveIndex
  BY <1>2, SaveLoses
<1>3. CASE HeadPost \/ HeadSkip \/ TailPost
  BY <1>0, <1>3 DEF HeadPost, HeadSkip, TailPost, LossInv, Ahead, Opened,
                    SavedAll, PostedFirst, AllStored, Stored
<1>4. CASE \/ PostMissing \/ PostOk \/ PostFail \/ PostLost \/ PostReject
           \/ PostNoMem
  <2>1. ~PostReject /\ ~PostNoMem
    BY DEF PostReject, PostNoMem, Fault, Destructive
  <2>2. /\ pc = "post" /\ pc' \in {"rename", "loop"}
        /\ UNCHANGED <<db_tail, dat, next_index, cache, saved, reason, fed>>
        /\ sent \subseteq sent'
        /\ pc' = "rename" => dat[Target] = None \/ dat[Target] \subseteq sent'
    BY <1>4, <2>1 DEF PostMissing, PostOk, PostFail, PostLost, Posting, Settle,
                      Deliver, Done
  <2>3. Stored' = Stored /\ Target' = Target
    BY <2>2 DEF Stored, Target
  <2>4. PostedFirst'
    BY <2>2, <2>3 DEF PostedFirst
  <2> QED
    BY <1>0, <2>2, <2>3, <2>4 DEF LossInv, Ahead, Opened, SavedAll, AllStored
<1>5. CASE Rename
  <2>0. Target \in Index /\ pc = "rename"
    BY <1>5, TargetIndex DEF Rename
  <2>1. /\ UNCHANGED <<next_index, cache, saved, fed, sent>>
        /\ pc' \in {"advance", "loop"}
        /\ \A i \in Index : dat'[i] = IF i = Target THEN None ELSE dat[i]
    BY <1>0, <1>5, <2>0 DEF Rename, NoSuchFile, AfterRename
  <2>2. \A u : u \in Stored' <=> \E i \in Index : dat'[i] # None /\ u \in dat'[i]
    BY DEF Stored
  <2>3. Stored \subseteq Stored' \cup sent
    BY <1>0, <2>0, <2>1, <2>2, StoredUnits DEF PostedFirst
  <2>4. AllStored'
    BY <1>0, <2>1, <2>3 DEF AllStored
  <2> QED
    BY <1>0, <2>0, <2>1, <2>4 DEF LossInv, Ahead, Opened, SavedAll, PostedFirst
<1>6. CASE RenameFail \/ AdvanceTail
  BY <1>0, <1>6 DEF RenameFail, AfterRename, AdvanceTail, LossInv, Ahead, Opened,
                    SavedAll, PostedFirst, AllStored, Stored
<1>7. ~Restart
  BY DEF Restart, Fault, Destructive
<1>8. CASE UNCHANGED vars
  BY <1>0, <1>8 DEF vars, LossInv, Ahead, Opened, SavedAll, PostedFirst, Target,
                    AllStored, Stored
<1> QED
  BY <1>1, <1>2, <1>3, <1>4, <1>5, <1>6, <1>7, <1>8 DEF Next, CoreStep

\* Short writes, failing opens and renames, a database that refuses values and answers
\* that are lost do not make dumped telemetry disappear (MBT_realtime.c:38, MBT_core.c:139).
THEOREM NoneLost == Spec => []NothingLost
<1> DEFINE Inv == faults \cap Destructive = {} => LossInv
<1>1. Inv => NothingLost
  BY DEF LossInv, NothingLost
<1>2. BulkInv /\ Inv /\ [Next]_vars => Inv'
  BY LossStep, FaultsFixed
<1>3. Init => Inv
  BY LossInit
<1> HIDE DEF Inv
<1> QED
  BY BulkInvariance, <1>1, <1>2, <1>3, PTL DEF Spec

----------------------------------------------------------------------------
(* The tail stays behind unsent files                                      *)

\* Every file has an index below the one in the database, except the one that
\* is being saved.
Counted ==
    \A i \in Index : dat[i] # None \/ bk[i] # None =>
        i < Indexed \/ (i = next_index /\ pc \in {"write", "tail", "index"})

\* So has the tail, which during a save may be the file being saved.
TailCounted ==
    db_tail # None => \/ db_tail <= Indexed
                      \/ pc = "index" /\ db_tail = next_index

\* The tail path is about to step over a file, and the server has it.
Stepping ==
    /\ pc \in {"rename", "advance"} /\ reason = "scan" => db_tail < Indexed
    /\ pc = "advance" => dat[db_tail] = None \/ dat[db_tail] \subseteq sent

\* Before the first save is done there is no file but the one being saved.
NoTailNoFile == db_tail = None => \A i \in Index : dat[i] = None \/ BeingSaved(i)

TailInv == /\ Counted /\ TailCounted /\ Stepping /\ NoTailNoFile /\ PostedFirst
           /\ TailNotPast

LEMMA TailInit == Init => TailInv
BY DEF Init, TailInv, Counted, TailCounted, Stepping, NoTailNoFile, PostedFirst,
       TailNotPast, Unsent

LEMMA TailSave ==
    ASSUME faults \subseteq Orderly
    PROVE  BulkInv /\ TailInv /\ (\/ SaveOpen \/ SaveOpenFail \/ SaveWrite
                                  \/ SaveWriteFail \/ SaveTail \/ SaveIndex)
             => TailInv'
<1> SUFFICES ASSUME BulkInv, TailInv,
                    \/ SaveOpen \/ SaveOpenFail \/ SaveWrite \/ SaveWriteFail
                    \/ SaveTail \/ SaveIndex
             PROVE  TailInv'
  OBVIOUS
<1> USE DEF Goto, disk, outside
<1>0. /\ Counted /\ TailCounted /\ Stepping /\ NoTailNoFile /\ PostedFirst
      /\ TailNotPast
      /\ dat \in [Index -> File] /\ Index \subseteq Int
      /\ next_index \in Int /\ Indexed \in Int /\ Indexed <= next_index
      /\ db_tail # None => db_tail \in Int
      /\ None \notin Int
      /\ pc \in {"open", "write", "tail", "index"} => next_index \in Index
  BY BulkAssumption DEF BulkInv, TailInv, TypeOK, Control, IndexBehind, Indexed,
                        Attribute, Index
<1>d. ~Fault("db")
  BY DEF Fault, Orderly
<1>1. CASE SaveOpen \/ SaveWrite \/ SaveWriteFail
  <2>1. /\ UNCHANGED <<db_index, db_tail, bk, next_index, sent>>
        /\ pc \in {"open", "write"} /\ pc' \in {"write", "tail"}
        /\ \A i \in Index : i # next_index => dat'[i] = dat[i]
    BY <1>0, <1>1 DEF SaveOpen, SaveWrite, SaveWriteFail
  <2>2. Indexed' = Indexed
    BY <2>1 DEF Indexed
  <2>3. \A i \in Index : BeingSaved(i)' <=> i = next_index
    BY <2>1 DEF BeingSaved
  <2>4. Counted' /\ TailCounted' /\ Stepping' /\ PostedFirst'
    BY <1>0, <2>1, <2>2 DEF Counted, TailCounted, Stepping, PostedFirst
  <2>5. NoTailNoFile' /\ TailNotPast'
    BY <1>0, <2>1, <2>3 DEF NoTailNoFile, TailNotPast, BeingSaved, Unsent
  <2> QED
    BY <2>4, <2>5 DEF TailInv
<1>2. CASE SaveOpenFail
  BY <1>0, <1>2 DEF SaveOpenFail, TailInv, Counted, TailCounted, Stepping,
                    NoTailNoFile, PostedFirst, TailNotPast, BeingSaved,
                    Unsent, Indexed
<1>3. CASE SaveTail
  <2>1. /\ UNCHANGED <<db_index, dat, bk, next_index, sent>>
        /\ pc = "tail" /\ pc' = "index"
        /\ db_tail' = IF db_tail = None THEN next_index ELSE db_tail
    BY <1>3, <1>d DEF SaveTail, FirstFile, Save
  <2>2. Indexed' = Indexed
    BY <2>1 DEF Indexed
  <2>3. Counted' /\ TailCounted' /\ Stepping' /\ PostedFirst' /\ NoTailNoFile'
    BY <1>0, <2>1, <2>2 DEF Counted, TailCounted, Stepping, PostedFirst, NoTailNoFile
  <2>4. TailNotPast'
    <3> SUFFICES ASSUME NEW i \in Index, Unsent(i) PROVE db_tail' <= i
      BY <1>0, <2>1 DEF TailNotPast, Unsent
    <3>1. CASE i = next_index
      BY <1>0, <2>1, <3>1 DEF TailCounted
    <3>2. CASE i # next_index
      BY <1>0, <2>1, <3>2 DEF TailNotPast, BeingSaved
    <3> QED
      BY <3>1, <3>2
  <2> QED
    BY <2>3, <2>4 DEF TailInv
<1>4. CASE SaveIndex
  <2>1. /\ UNCHANGED <<db_tail, dat, bk, sent>>
        /\ pc = "index" /\ pc' = "head"
        /\ db_index' = next_index + 1
    BY <1>4, <1>d DEF SaveIndex, Save
  <2>2. Indexed' = next_index + 1
    BY <1>0, <2>1 DEF Indexed
  <2>3. Counted' /\ TailCounted' /\ Stepping' /\ PostedFirst'
    BY <1>0, <2>1, <2>2 DEF Counted, TailCounted, Stepping, PostedFirst
  <2>4. NoTailNoFile' /\ TailNotPast'
    BY <1>0, <2>1 DEF NoTailNoFile, TailNotPast, BeingSaved, Unsent
  <2> QED
    BY <2>3, <2>4 DEF TailInv
<1> QED
  BY <1>1, <1>2, <1>3, <1>4

LEMMA TailStep ==
    ASSUME faults \subseteq Orderly
    PROVE  BulkInv /\ TailInv /\ [Next]_vars => TailInv'
<1> SUFFICES ASSUME BulkInv, TailInv, [Next]_vars PROVE TailInv'
  OBVIOUS
<1> USE DEF Goto, disk, outside
<1>0. /\ Counted /\ TailCounted /\ Stepping /\ NoTailNoFile /\ PostedFirst
      /\ TailNotPast
      /\ dat \in [Index -> File] /\ bk \in [Index -> File] /\ Index \subseteq Int
      /\ next_index \in Int /\ Indexed \in Int /\ Indexed <= next_index
      /\ db_tail # None => db_tail \in Index
      /\ None \notin Int
  BY BulkAssumption DEF BulkInv, TailInv, TypeOK, IndexBehind, Indexed,
                        Attribute, Index
<1>f. ~Fault("db") /\ ~Fault("reject") /\ ~Fault("nomem") /\ ~Fault("crash")
  BY DEF Fault, Orderly
<1>1. CASE (\E n \in 0..CacheMax : Dump(n)) \/ HeadPost \/ HeadSkip \/ TailPost
  <2>1. /\ UNCHANGED <<db_index, db_tail, dat, bk, next_index, sent>>
        /\ pc \in {"loop", "head"} /\ pc' \in {"open", "head", "post", "loop"}
    BY <1>1 DEF Dump, HeadPost, HeadSkip, TailPost
  <2> QED
    BY <1>0, <2>1 DEF TailInv, Counted, TailCounted, Stepping, NoTailNoFile,
                      PostedFirst, TailNotPast, BeingSaved, Unsent, Indexed
<1>2. CASE \/ SaveOpen \/ SaveOpenFail \/ SaveWrite \/ SaveWriteFail
           \/ SaveTail \/ SaveIndex
  BY <1>2, TailSave
<1>3. CASE \/ PostMissing \/ PostOk \/ PostFail \/ PostLost \/ PostReject
           \/ PostNoMem
  <2>1. ~PostReject /\ ~PostNoMem
    BY <1>f DEF PostReject, PostNoMem
  <2>2. /\ pc = "post" /\ pc' \in {"rename", "loop"}
        /\ UNCHANGED <<db_index, db_tail, dat, bk, next_index, reason>>
        /\ sent \subseteq sent'
        /\ pc' = "rename" => /\ dat[Target] = None \/ dat[Target] \subseteq sent'
                             /\ dat[Target] # None \/ bk[Target] # None
    BY <1>3, <2>1 DEF PostMissing, PostOk, PostFail, PostLost, Posting, Settle,
                      Deliver, Done
  <2>3. Target' = Target /\ Indexed' = Indexed /\ Target \in Index
    BY <2>2, TargetIndex DEF Target, Indexed
  <2>4. pc' = "rename" => Target < Indexed
    BY <1>0, <2>2, <2>3 DEF Counted
  <2>5. PostedFirst' /\ Stepping'
    BY <2>2, <2>3, <2>4 DEF PostedFirst, Stepping, Target
  <2>6. Counted' /\ TailCounted' /\ NoTailNoFile' /\ TailNotPast'
    BY <1>0, <2>2, <2>3 DEF Counted, TailCounted, NoTailNoFile, TailNotPast,
                            BeingSaved, Unsent
  <2> QED
    BY <2>5, <2>6 DEF TailInv
<1>4. CASE Rename \/ RenameFail
  <2>0. Target \in Index /\ pc = "rename"
    BY <1>4, TargetIndex DEF Rename, RenameFail
  <2>1. /\ UNCHANGED <<db_index, db_tail, next_index, reason, sent>>
        /\ pc' = IF reason = "scan" THEN "advance" ELSE "loop"
    BY <1>4 DEF Rename, RenameFail, AfterRename
  <2>2. \A i \in Index : /\ dat'[i] = dat[i] \/ (i = Target /\ dat'[i] = None)
                         /\ bk'[i] = bk[i] \/ dat[i] # None
    BY <1>0, <1>4, <2>0 DEF Rename, RenameFail, NoSuchFile
  <2>3. Indexed' = Indexed
    BY <2>1 DEF Indexed
  <2>4. Counted' /\ TailCounted' /\ NoTailNoFile' /\ TailNotPast'
    BY <1>0, <2>0, <2>1, <2>2, <2>3
       DEF Counted, TailCounted, NoTailNoFile, TailNotPast, BeingSaved, Unsent
  <2>5. PostedFirst'
    BY <2>1 DEF PostedFirst
  <2>6. Stepping'
    <3>1. reason = "scan" => Target = db_tail
      BY DEF Target
    <3> QED
      BY <1>0, <2>0, <2>1, <2>2, <2>3, <3>1 DEF Stepping, PostedFirst
  <2> QED
    BY <2>4, <2>5, <2>6 DEF TailInv
<1>5. CASE AdvanceTail
  <2>1. /\ UNCHANGED <<db_index, dat, bk, next_index, sent>>
        /\ pc = "advance" /\ pc' = "loop" /\ reason = "scan"
        /\ db_tail' = db_tail + 1 /\ db_tail # None
    BY <1>5, <1>f DEF AdvanceTail, Save, BulkInv, Control
  <2>2. Indexed' = Indexed /\ db_tail < Indexed
    BY <1>0, <2>1 DEF Indexed, Stepping
  <2>0. db_tail \in Int /\ db_tail' \in Int /\ db_tail' # None
    <3>1. db_tail \in Index
      BY <1>0, <2>1
    <3>2. db_tail \in Int
      BY <1>0, <3>1
    <3>3. db_tail + 1 \in Int
      BY <3>2
    <3> QED
      BY <1>0, <2>1, <3>2, <3>3
  <2>3. Counted' /\ TailCounted' /\ NoTailNoFile' /\ PostedFirst' /\ Stepping'
    BY <1>0, <2>0, <2>1, <2>2
       DEF Counted, TailCounted, NoTailNoFile, PostedFirst, Stepping
  <2>4. ~Unsent(db_tail)
    BY <1>0, <2>1 DEF Stepping, Unsent
  <2>5. TailNotPast'
    <3> SUFFICES ASSUME NEW i \in Index, Unsent(i) PROVE db_tail' <= i
      BY <2>0, <2>1 DEF TailNotPast, Unsent
    <3>1. db_tail <= i /\ i # db_tail
      BY <1>0, <2>1, <2>4 DEF TailNotPast, BeingSaved
    <3> QED
      BY <1>0, <2>0, <2>1, <3>1
  <2> QED
    BY <2>3, <2>5 DEF TailInv
<1>6. CASE Restart
  <2>1. /\ UNCHANGED <<db_index, db_tail, dat, bk, sent>>
        /\ pc = "loop" /\ pc' = "loop"
    BY <1>6, <1>f DEF Restart
  <2> QED
    BY <1>0, <2>1 DEF TailInv, Counted, TailCounted, Stepping, NoTailNoFile,
                      PostedFirst, TailNotPast, BeingSaved, Unsent, Indexed
<1>7. CASE UNCHANGED vars
  BY <1>0, <1>7 DEF vars, TailInv, Counted, TailCounted, Stepping, NoTailNoFile,
                    PostedFirst, TailNotPast, BeingSaved, Unsent, Indexed,
                    Target
<1> QED
  BY <1>1, <1>2, <1>3, <1>4, <1>5, <1>6, <1>7 DEF Next, CoreStep

\* With failing files, lost answers and orderly restarts the tail index
\* (update_tail_index, MBT_bulk.c:122) never passes a file the server lacks.
THEOREM TailBehind == Spec => []TailBehindUnsent
<1> DEFINE Inv == faults \subseteq Orderly => TailInv
<1>1. Inv => TailBehindUnsent
  BY DEF TailInv, TailBehindUnsent
<1>2. BulkInv /\ Inv /\ [Next]_vars => Inv'
  BY TailStep, FaultsFixed
<1>3. Init => Inv
  BY TailInit
<1> HIDE DEF Inv
<1> QED
  BY BulkInvariance, <1>1, <1>2, <1>3, PTL DEF Spec

----------------------------------------------------------------------------
(* No unit is posted twice                                                 *)

Holds(i, u) == dat[i] # None /\ u \in dat[i]

\* A unit is in one place only: in one file, in the cache or at the server.
\* While a save is not finished its file and the cache have the same units, and
\* a file that was just posted has those of the server.
OnePlace ==
    /\ \A i, j \in Index, u \in Units : Holds(i, u) /\ Holds(j, u) => i = j
    /\ \A i \in Index, u \in Units : Holds(i, u) /\ u \in cache =>
          pc \in {"tail", "index"} /\ i = next_index
    /\ \A i \in Index, u \in Units : Holds(i, u) /\ u \in sent =>
          pc = "rename" /\ i = Target
    /\ cache \cap sent = {}

\* Only dumped units are anywhere, so a dump brings new ones.
OldEverywhere == /\ \A i \in Index, u \in Units : Holds(i, u) => u <= fed
                 /\ \A u \in sent : u <= fed

OnceInv == /\ OnePlace /\ OldEverywhere
           /\ pc \in {"tail", "index"} => saved
           /\ twice = {}

OnceOnly == faults \cap Repeating = {} => OnceInv

LEMMA OnceInit == Init => OnceInv
BY DEF Init, OnceInv, OnePlace, OldEverywhere, Holds

LEMMA OnceStep ==
    ASSUME faults \cap Repeating = {}
    PROVE  BulkInv /\ OnceInv /\ [Next]_vars => OnceInv'
<1> SUFFICES ASSUME BulkInv, OnceInv, [Next]_vars PROVE OnceInv'
  OBVIOUS
<1> USE DEF Goto, disk, outside
<1>0. /\ OnePlace /\ OldEverywhere /\ twice = {}
      /\ pc \in {"tail", "index"} => saved
      /\ dat \in [Index -> File] /\ next_index \in Int /\ fed \in Nat
      /\ sent \subseteq Units /\ cache \subseteq Units /\ Units \subseteq Int
      /\ \A u \in cache : u <= fed
  BY BulkAssumption DEF BulkInv, OnceInv, TypeOK, Index, Units, CacheOld
<1>1. ASSUME NEW n \in 0..CacheMax, Dump(n) PROVE OnceInv'
  <2>1. /\ pc = "loop" /\ pc' \in {"open", "head"}
        /\ UNCHANGED <<dat, next_index, saved, sent, twice>>
        /\ fed' = fed + n /\ cache' = cache \cup ((fed + 1)..(fed + n))
    BY <1>1 DEF Dump
  <2>2. fed <= fed + n /\ \A u \in (fed + 1)..(fed + n) : u \in Int /\ ~(u <= fed)
    BY <1>0
  <2>3. \A i \in Index, u \in Units : Holds(i, u)' <=> Holds(i, u)
    BY <2>1 DEF Holds
  <2>4. OnePlace'
    BY <1>0, <2>1, <2>2, <2>3 DEF OnePlace, OldEverywhere
  <2>5. OldEverywhere'
    BY <1>0, <2>1, <2>2, <2>3 DEF OldEverywhere
  <2> QED
    BY <1>0, <2>1, <2>4, <2>5 DEF OnceInv
<1>2. CASE SaveOpen \/ SaveOpenFail \/ SaveWrite \/ SaveTail \/ SaveIndex
  <2>1. CASE SaveOpen \/ SaveOpenFail
    <3>1. /\ pc = "open" /\ pc' \in {"write", "head"}
          /\ UNCHANGED <<next_index, cache, saved, fed, sent, twice>>
          /\ \A i \in Index : dat'[i] = dat[i] \/ dat'[i] = {}
      BY <1>0, <2>1 DEF SaveOpen, SaveOpenFail
    <3>2. \A i \in Index, u \in Units : Holds(i, u)' => Holds(i, u)
      BY <3>1 DEF Holds
    <3> QED
      BY <1>0, <3>1, <3>2 DEF OnceInv, OnePlace, OldEverywhere
  <2>2. CASE SaveWrite
    <3>1. /\ pc = "write" /\ pc' = "tail" /\ saved'
          /\ UNCHANGED <<next_index, cache, fed, sent, twice>>
          /\ \A i \in Index : dat'[i] = IF i = next_index THEN cache ELSE dat[i]
      BY <1>0, <2>2 DEF SaveWrite
    <3>2. \A i \in Index, u \in Units :
             Holds(i, u)' => IF i = next_index THEN u \in cache ELSE Holds(i, u)
      BY <3>1 DEF Holds
    <3>3. OnePlace'
      BY <1>0, <3>1, <3>2 DEF OnePlace
    <3> QED
      BY <1>0, <3>1, <3>2, <3>3 DEF OnceInv, OldEverywhere
  <2>3. CASE SaveTail
    <3>1. /\ pc = "tail" /\ pc' = "index"
          /\ UNCHANGED <<dat, next_index, cache, saved, fed, sent, twice>>
      BY <2>3 DEF SaveTail
    <3>2. \A i \in Index, u \in Units : Holds(i, u)' <=> Holds(i, u)
      BY <3>1 DEF Holds
    <3> QED
      BY <1>0, <3>1, <3>2 DEF OnceInv, OnePlace, OldEverywhere
  <2>4. CASE SaveIndex
    <3>1. /\ pc = "index" /\ pc' = "head" /\ cache' = {}
          /\ UNCHANGED <<dat, saved, fed, sent, twice>>
      BY <1>0, <2>4 DEF SaveIndex, CacheLeft
    <3>2. \A i \in Index, u \in Units : Holds(i, u)' <=> Holds(i, u)
      BY <3>1 DEF Holds
    <3> QED
      BY <1>0, <3>1, <3>2 DEF OnceInv, OnePlace, OldEverywhere
  <2> QED
    BY <1>2, <2>1, <2>2, <2>3, <2>4
<1>3. ~SaveWriteFail /\ ~PostLost /\ ~RenameFail
  BY DEF SaveWriteFail, PostLost, RenameFail, Fault, Repeating
<1>4. CASE HeadPost \/ HeadSkip \/ TailPost
  <2>1. /\ pc \in {"head", "loop"} /\ pc' \in {"post", "loop"}
        /\ UNCHANGED <<dat, next_index, cache, saved, fed, sent, twice>>
    BY <1>4 DEF HeadPost, HeadSkip, TailPost
  <2>2. \A i \in Index, u \in Units : Holds(i, u)' <=> Holds(i, u)
    BY <2>1 DEF Holds
  <2> QED
    BY <1>0, <2>1, <2>2 DEF OnceInv, OnePlace, OldEverywhere
<1>5. CASE PostMissing \/ PostFail \/ PostReject \/ PostNoMem
  <2>1. /\ pc = "post" /\ pc' \in {"rename", "loop"}
        /\ UNCHANGED <<dat, next_index, cache, saved, fed, sent, twice>>
    BY <1>5 DEF PostMissing, PostFail, PostReject, PostNoMem, Posting, Settle
  <2>2. \A i \in Index, u \in Units : Holds(i, u)' <=> Holds(i, u)
    BY <2>1 DEF Holds
  <2> QED
    BY <1>0, <2>1, <2>2 DEF OnceInv, OnePlace, OldEverywhere
<1>6. CASE PostOk
  <2>1. /\ pc = "post" /\ pc' = "rename" /\ dat[Target] # None
        /\ UNCHANGED <<dat, db_tail, next_index, cache, saved, reason, fed>>
        /\ sent' = sent \cup dat[Target] /\ twice' = twice \cup (sent \cap dat[Target])
    BY <1>6 DEF PostOk, Posting, Deliver, Settle, Done
  <2>2. Target \in Index /\ Target' = Target
    BY <2>1, TargetIndex DEF Target
  <2>3. \A u \in Units : u \in dat[Target] <=> Holds(Target, u)
    BY <2>1 DEF Holds
  <2>4. \A i \in Index, u \in Units : Holds(i, u)' <=> Holds(i, u)
    BY <2>1 DEF Holds
  <2>5. dat[Target] \subseteq Units
    BY <1>0, <2>1, <2>2 DEF File
  <2>6. sent \cap dat[Target] = {} /\ cache \cap dat[Target] = {}
    BY <1>0, <2>1, <2>2, <2>3 DEF OnePlace
  <2>7. OnePlace'
    BY <1>0, <2>1, <2>2, <2>3, <2>4, <2>6 DEF OnePlace
  <2>8. OldEverywhere'
    BY <1>0, <2>1, <2>2, <2>3, <2>4, <2>5 DEF OldEverywhere
  <2> QED
    BY <1>0, <2>1, <2>6, <2>7, <2>8 DEF OnceInv
<1>7. CASE Rename
  <2>0. Target \in Index /\ pc = "rename"
    BY <1>7, TargetIndex DEF Rename
  <2>1. /\ UNCHANGED <<next_index, cache, saved, fed, sent, twice>>
        /\ pc' \in {"advance", "loop"}
        /\ \A i \in Index : dat'[i] = IF i = Target THEN None ELSE dat[i]
    BY <1>0, <1>7, <2>0 DEF Rename, NoSuchFile, AfterRename
  <2>2. \A i \in Index, u \in Units : Holds(i, u)' => Holds(i, u) /\ i # Target
    BY <2>1 DEF Holds
  <2> QED
    BY <1>0, <2>0, <2>1, <2>2 DEF OnceInv, OnePlace, OldEverywhere
<1>8. CASE AdvanceTail \/ Restart
  <2>1. /\ pc \in {"advance", "loop"} /\ pc' = "loop" /\ cache' \subseteq cache
        /\ UNCHANGED <<dat, fed, sent, twice>>
    BY <1>8 DEF AdvanceTail, Restart, Fault, Repeating
  <2>2. \A i \in Index, u \in Units : Holds(i, u)' <=> Holds(i, u)
    BY <2>1 DEF Holds
  <2> QED
    BY <1>0, <2>1, <2>2 DEF OnceInv, OnePlace, OldEverywhere
<1>9. CASE UNCHANGED vars
  BY <1>0, <1>9 DEF vars, OnceInv, OnePlace, OldEverywhere, Holds, Target
<1> QED
  BY <1>1, <1>2, <1>3, <1>4, <1>5, <1>6, <1>7, <1>8, <1>9 DEF Next, CoreStep

\* As long as files are written and renamed and no answer is lost, neither path
\* posts what the server has (update_head_index and update_tail_index,
\* MBT_bulk.c:122-180), even if posts are refused and the database takes nothing.
THEOREM PostedOnce == Spec => []NoRepeatUpload
<1>1. OnceOnly => NoRepeatUpload
  BY DEF OnceOnly, OnceInv, NoRepeatUpload
<1>2. BulkInv /\ OnceOnly /\ [Next]_vars => OnceOnly'
  BY OnceStep, FaultsFixed DEF OnceOnly
<1>3. Init => OnceOnly
  BY OnceInit DEF OnceOnly
<1> QED
  BY BulkInvariance, <1>1, <1>2, <1>3, PTL DEF Spec

----------------------------------------------------------------------------
(* The outbox                                                              *)

\* What the device holds, whether the server has it or not.
Held == cache \cup Stored

\* Only what was dumped is held or sent.
Within == Held \subseteq 1..fed /\ sent \subseteq 1..fed

\* A step of the outbox: units are dumped, a file is given to the server, or
\* the device holds what it held, or less.
Dumped == \E n \in Nat :
    /\ fed' = fed + n /\ Held' = Held \cup ((fed + 1)..(fed + n))
    /\ UNCHANGED <<sent, twice>>

GaveFile == \E units \in SUBSET Stored :
    /\ Held' = Held /\ fed' = fed
    /\ sent' = sent \cup units /\ twice' = twice \cup (sent \cap units)

HeldOn == Held' \subseteq Held /\ UNCHANGED <<fed, sent, twice>>

\* What is held after a step that only moves the cache into files, or shortens
\* files or cache.
LEMMA HeldShrinks ==
    ASSUME cache' \subseteq cache,
           \A i \in Index : dat'[i] # None =>
              \/ dat[i] # None /\ dat'[i] \subseteq dat[i]
              \/ dat'[i] \subseteq cache
    PROVE  Held' \subseteq Held
<1>1. \A u : u \in Stored' <=> \E i \in Index : dat'[i] # None /\ u \in dat'[i]
  BY DEF Stored
<1> QED
  BY <1>1, StoredUnits DEF Held

\* Every step is one of the three.
LEMMA HeldStep == BulkInv /\ [Next]_vars => Dumped \/ GaveFile \/ HeldOn
<1> SUFFICES ASSUME BulkInv, [Next]_vars PROVE Dumped \/ GaveFile \/ HeldOn
  OBVIOUS
<1> USE DEF disk, outside
<1>0. dat \in [Index -> File] /\ Stored' = UNION {dat'[i] : i \in {j \in Index : dat'[j] # None}}
  BY DEF BulkInv, TypeOK, Stored
<1>1. ASSUME UNCHANGED <<dat, fed, sent, twice>>, cache' \subseteq cache PROVE HeldOn
  BY <1>1, HeldShrinks DEF HeldOn
<1>2. ASSUME NEW n \in 0..CacheMax, Dump(n) PROVE Dumped
  <2>1. n \in Nat
    OBVIOUS
  <2>2. /\ fed' = fed + n /\ cache' = cache \cup ((fed + 1)..(fed + n))
        /\ UNCHANGED <<dat, sent, twice>>
    BY <1>2 DEF Dump
  <2>3. Stored' = Stored
    BY <2>2 DEF Stored
  <2>4. Held' = Held \cup ((fed + 1)..(fed + n))
    BY <2>2, <2>3 DEF Held
  <2> QED
    BY <2>1, <2>2, <2>4 DEF Dumped
<1>3. CASE SaveOpen \/ SaveWrite \/ SaveWriteFail
  <2>1. UNCHANGED <<cache, fed, sent, twice>>
    BY <1>3 DEF SaveOpen, SaveWrite, SaveWriteFail
  <2>2. \E c \in SUBSET cache : dat' = [dat EXCEPT ![next_index] = c]
    BY <1>3 DEF SaveOpen, SaveWrite, SaveWriteFail
  <2>3. Held' \subseteq Held
    BY <1>0, <2>1, <2>2, HeldShrinks
  <2> QED
    BY <2>1, <2>3 DEF HeldOn
<1>4. CASE SaveIndex
  BY <1>1, <1>4 DEF SaveIndex, CacheLeft
<1>5. CASE PostOk \/ PostLost
  <2>1. /\ pc = "post" /\ dat[Target] # None
        /\ UNCHANGED <<dat, cache, fed>>
        /\ sent' = sent \cup dat[Target] /\ twice' = twice \cup (sent \cap dat[Target])
    BY <1>5 DEF PostOk, PostLost, Posting, Deliver, Settle
  <2>2. dat[Target] \subseteq Stored
    BY <2>1, TargetIndex, StoredUnits
  <2>3. Held' = Held
    BY <2>1 DEF Held, Stored
  <2> QED
    BY <2>1, <2>2, <2>3 DEF GaveFile
<1>6. CASE Rename
  <2>1. UNCHANGED <<cache, fed, sent, twice>>
    BY <1>6 DEF Rename
  <2>2. \A i \in Index : dat'[i] = dat[i] \/ dat'[i] = None
    BY <1>0, <1>6 DEF Rename
  <2>3. Held' \subseteq Held
    BY <2>1, <2>2, HeldShrinks
  <2> QED
    BY <2>1, <2>3 DEF HeldOn
<1>7. CASE SaveOpenFail \/ SaveTail \/ HeadPost \/ HeadSkip \/ TailPost
  BY <1>1, <1>7 DEF SaveOpenFail, SaveTail, HeadPost, HeadSkip, TailPost
<1>8. CASE PostMissing \/ PostFail \/ PostReject \/ PostNoMem
  BY <1>1, <1>8 DEF PostMissing, PostFail, PostReject, PostNoMem, Settle
<1>9. CASE RenameFail \/ AdvanceTail \/ Restart \/ UNCHANGED vars
  BY <1>1, <1>9 DEF RenameFail, AdvanceTail, Restart, vars
<1> QED
  BY <1>2, <1>3, <1>4, <1>5, <1>6, <1>7, <1>8, <1>9 DEF Next, CoreStep

LEMMA WithinInit == Init => Within
BY DEF Init, Within, Held, Stored

LEMMA WithinStep == BulkInv /\ Within /\ [Next]_vars => Within'
<1> SUFFICES ASSUME BulkInv, Within, [Next]_vars PROVE Within'
  OBVIOUS
<1>1. fed \in Nat
  BY BulkAssumption DEF BulkInv, TypeOK
<1>2. CASE Dumped
  <2>1. PICK n \in Nat : /\ fed' = fed + n
                         /\ Held' = Held \cup ((fed + 1)..(fed + n)) /\ sent' = sent
    BY <1>2 DEF Dumped
  <2>2. 1..fed \subseteq 1..(fed + n) /\ (fed + 1)..(fed + n) \subseteq 1..(fed + n)
    BY <1>1
  <2> QED
    BY <2>1, <2>2 DEF Within
<1>3. CASE GaveFile
  BY <1>3 DEF GaveFile, Within, Held
<1>4. CASE HeldOn
  BY <1>4 DEF HeldOn, Within
<1> QED
  BY <1>2, <1>3, <1>4, HeldStep

OutboxInv == /\ BulkInv /\ Within /\ OnceOnly
             /\ faults \cap Destructive = {} => LossInv

\* What is dumped is accepted; what is posted was waiting, or had been sent if
\* posts may repeat; nothing else changes what waits, unless it may be lost.
LEMMA OutboxStep ==
    ASSUME OutboxInv, OutboxInv', [Next]_vars
    PROVE  [Promised!Next]_(Promised!outboxVars)
<1>1. /\ fed \in Nat /\ fed \in 0..UnitMax /\ fed' \in 0..UnitMax /\ UnitMax \in Nat
      /\ Held \subseteq 1..fed /\ sent \subseteq 1..fed
      /\ Held' \subseteq 1..fed' /\ sent' \subseteq 1..fed'
      /\ faults' = faults
  BY BulkAssumption, FaultsFixed DEF OutboxInv, BulkInv, TypeOK, Within
<1>2. 1..fed \subseteq Units /\ 1..fed' \subseteq Units
  BY <1>1 DEF Units
<1>3. CASE Dumped
  <2>1. PICK n \in Nat :
          /\ fed' = fed + n /\ Held' = Held \cup ((fed + 1)..(fed + n))
          /\ UNCHANGED <<sent, twice>>
    BY <1>3 DEF Dumped
  <2> DEFINE units == (fed + 1)..(fed + n)
  <2>2. units \cap (1..fed) = {} /\ 1..(fed + n) = (1..fed) \cup units
    BY <1>1
  <2> HIDE DEF units
  <2>3. units \in SUBSET Units
    BY <1>2, <2>1, <2>2
  <2>4. (cache \cup Stored)' \ sent' = ((cache \cup Stored) \ sent) \cup units
    BY <1>1, <2>1, <2>2 DEF Held, units
  <2>5. Promised!Accept(units)
    BY <1>1, <2>1, <2>2, <2>4 DEF Promised!Accept
  <2> QED
    BY <2>3, <2>5 DEF Promised!Next
<1>4. CASE GaveFile
  <2>1. PICK units \in SUBSET Stored :
          /\ Held' = Held /\ fed' = fed
          /\ sent' = sent \cup units /\ twice' = twice \cup (sent \cap units)
    BY <1>4 DEF GaveFile
  <2>2. units \in SUBSET Units
    BY <1>1, <1>2, <2>1 DEF Held
  <2>3. units \subseteq ((cache \cup Stored) \ sent) \cup sent
    BY <2>1
  <2>4. faults \cap Repeating # {} \/ units \cap sent = {}
    BY <1>1, <2>1 DEF OutboxInv, OnceOnly, OnceInv
  <2>5. (cache \cup Stored)' \ sent' = ((cache \cup Stored) \ sent) \ units
    BY <2>1 DEF Held
  <2>6. twice' = twice \cup (units \cap sent)
    BY <2>1
  <2>7. Promised!Give(units)
    BY <1>1, <2>1, <2>3, <2>4, <2>5, <2>6 DEF Promised!Give
  <2> QED
    BY <2>2, <2>7 DEF Promised!Next
<1>5. CASE HeldOn /\ faults \cap Destructive # {}
  <2> DEFINE units == (Held \ sent) \ (Held' \ sent')
  <2>1. units \in SUBSET Units
    BY <1>1, <1>2
  <2>2. (cache \cup Stored)' \ sent' = ((cache \cup Stored) \ sent) \ units
    BY <1>5 DEF HeldOn, Held
  <2> HIDE DEF units
  <2>3. Promised!Forget(units)
    BY <1>1, <1>5, <2>2 DEF HeldOn, Promised!Forget
  <2> QED
    BY <2>1, <2>3 DEF Promised!Next
<1>6. CASE HeldOn /\ faults \cap Destructive = {}
  <2>1. AllStored /\ AllStored'
    BY <1>1, <1>6 DEF OutboxInv, LossInv
  <2>2. Held \ sent = (1..fed) \ sent
    BY <1>1, <2>1 DEF AllStored, Held
  <2>3. Held' \ sent' = (1..fed') \ sent'
    BY <1>1, <2>1 DEF AllStored, Held
  <2>4. (cache \cup Stored)' \ sent' = (cache \cup Stored) \ sent
    BY <1>6, <2>2, <2>3 DEF HeldOn, Held
  <2>5. UNCHANGED Promised!outboxVars
    BY <1>1, <1>6, <2>4 DEF HeldOn, Promised!outboxVars
  <2> QED
    BY <2>5
<1> QED
  BY <1>3, <1>4, <1>5, <1>6, HeldStep DEF OutboxInv

\* The bulk service is an outbox: what dump_cached_data takes waits in the cache or
\* in a file until it is posted, once, through every fault that is neither
\* destructive nor repeating, and the faults that are only forget, or post again
\* (MBT_realtime.c:38, MBT_bulk.c, MBT_core.c:139).
THEOREM OutboxRefinement == Spec => ImplementsOutbox
<1>1. Init => Promised!Init
  <2> SUFFICES ASSUME Init PROVE Promised!Init
    OBVIOUS
  <2>1. 1..fed = {} /\ (cache \cup Stored) \ sent = {}
    BY DEF Init, Stored
  <2> QED
    BY <2>1 DEF Init, Promised!Init
<1>2. Init => OutboxInv
  BY BulkInit, WithinInit, OnceInit, LossInit DEF OutboxInv, OnceOnly
<1>3. OutboxInv /\ [Next]_vars => OutboxInv'
  <2>1. BulkInv /\ OnceOnly /\ [Next]_vars => OnceOnly'
    BY OnceStep, FaultsFixed DEF OnceOnly
  <2>2. BulkInv /\ (faults \cap Destructive = {} => LossInv) /\ [Next]_vars
          => (faults \cap Destructive = {} => LossInv)'
    BY LossStep, FaultsFixed
  <2> QED
    BY <2>1, <2>2, BulkStepInv, WithinStep DEF OutboxInv
<1>4. OutboxInv /\ OutboxInv' /\ [Next]_vars => [Promised!Next]_(Promised!outboxVars)
  BY OutboxStep
<1> QED
  BY <1>1, <1>2, <1>3, <1>4, PTL DEF Spec, ImplementsOutbox, Promised!Spec
=============================================================================
