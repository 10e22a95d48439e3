----------------------------- MODULE BulkStore -----------------------------
(***************************************************************************)
(* The bulk service: telemetry that the message queue could not take is    *)
(* dumped into a memory cache (MBT_realtime.c), the cache is saved to      *)
(* numbered files mbt_<index>.dat (MBT_bulk.c), and the core thread posts  *)
(* the files to the server and renames the posted ones to .dat.bk          *)
(* (check_do_bulk_service in MBT_core.c).  The file indexes are attributes *)
(* kept in the port's database.                                            *)
(*                                                                         *)
(* One thread does all this, so what interleaves with it is the device:    *)
(* files and database outlive a power cycle, the cache and next_index do   *)
(* not.  A step is therefore one durable operation (open, write, rename,   *)
(* save of an attribute) or one request to the outside, with the volatile   *)
(* work around it.  Telemetry is counted in units of equal size; a file's  *)
(* contents are the units written to it.                                   *)
(***************************************************************************)
EXTENDS Integers, FiniteSets

CONSTANTS
    CacheMax,    \* units that fit in cache_buf, BULK_FILE_MAX_BYTES
    UnitMax,     \* bound: units dumped in a behaviour
    IndexMax,    \* bound: file indexes
    FaultSets,   \* what may go wrong together, see FaultClasses
    None         \* no such file, no such attribute

FaultClasses == {
    "open",      \* a file cannot be opened
    "write",     \* a write is cut short
    "rename",    \* a rename fails
    "db",        \* the database does not take a value
    "lost",      \* the server got the file but its answer is lost
    "reject",    \* the server answers with an HTTP error
    "nomem",     \* the HTTP client has no memory for its buffer
    "restart",   \* power cycle while the core loop is between two cycles
    "crash" }    \* power cycle at any point

ASSUME BulkAssumption ==
    /\ CacheMax \in Nat \ {0}
    /\ UnitMax \in Nat
    /\ IndexMax \in Nat
    /\ FaultSets \subseteq SUBSET FaultClasses
    /\ None \notin Int
    /\ \A contents \in SUBSET (1..UnitMax) : None # contents

Units == 1..UnitMax
Index == 0..IndexMax

VARIABLES
    faults,      \* what may go wrong in this behaviour
    db_index,    \* durable: ATTRI_BULK_INDEX
    db_tail,     \* durable: ATTRI_BULK_FILE_TAIL_INDEX
    dat,         \* durable: contents of mbt_<i>.dat
    bk,          \* durable: contents of mbt_<i>.dat.bk
    next_index,  \* mdb_bluk: next_index
    cache,       \* mdb_bluk: the cur_cached_off first bytes of cache_buf
    saved,       \* save_bulk_data's return code is 0
    reason,      \* why check_do_bulk_service was called
    pc,          \* where the core thread is
    fed,         \* units dumped so far
    sent,        \* units the server has
    twice        \* units the server was given more than once

vars == <<faults, db_index, db_tail, dat, bk, next_index, cache, saved, reason, pc,
          fed, sent, twice>>
disk == <<db_index, db_tail, dat, bk>>
outside == <<faults, sent, twice>>

Init == /\ faults \in FaultSets
        /\ db_index = None /\ db_tail = None
        /\ dat = [i \in Index |-> None]
        /\ bk = [i \in Index |-> None]
        /\ next_index = 0
        /\ cache = {}
        /\ saved = FALSE
        /\ reason = "scan"
        /\ pc = "loop"
        /\ fed = 0
        /\ sent = {} /\ twice = {}

Goto(where) == pc' = where
Fault(class) == class \in faults

\* An attribute is saved, or the database refuses it.
Save(attribute, new, old) ==
    \/ attribute = new
    \/ Fault("db") /\ attribute = old

----------------------------------------------------------------------------
(* dump_cached_data and save_bulk_data                                     *)

\* Variant: the limit forgets what the cache holds already.
WholeCache == CacheMax

Room == CacheMax - Cardinality(cache)

\* The queue was full: its front messages, as many as fit, go to the cache,
\* and a cache that is more than half full is saved.
Dump(n) ==
    /\ pc = "loop"
    /\ next_index < IndexMax
    /\ n <= Room
    /\ fed + n <= UnitMax
    /\ fed' = fed + n
    /\ cache' = cache \cup ((fed + 1)..(fed + n))
    /\ Goto(IF n > 0 /\ Cardinality(cache) + n > CacheMax \div 2
            THEN "open" ELSE "head")
    /\ UNCHANGED <<disk, next_index, saved, reason, outside>>

\* O_TRUNC: the file exists and is empty.
SaveOpen ==
    /\ pc = "open"
    /\ dat' = [dat EXCEPT ![next_index] = {}]
    /\ Goto("write")
    /\ UNCHANGED <<db_index, db_tail, bk, next_index, cache, saved, reason,
                   fed, outside>>

SaveOpenFail ==
    /\ pc = "open"
    /\ Fault("open")
    /\ Goto("head")
    /\ UNCHANGED <<disk, next_index, cache, saved, reason, fed, outside>>

\* The index is advanced whether the write was complete or not.
SaveWrite ==
    /\ pc = "write"
    /\ dat' = [dat EXCEPT ![next_index] = cache]
    /\ saved' = TRUE
    /\ Goto("tail")
    /\ UNCHANGED <<db_index, db_tail, bk, next_index, cache, reason, fed,
                   outside>>

SaveWriteFail ==
    /\ pc = "write"
    /\ Fault("write")
    /\ \E last \in cache :
          dat' = [dat EXCEPT ![next_index] = {u \in cache : u < last}]
    /\ saved' = FALSE
    /\ Goto("tail")
    /\ UNCHANGED <<db_index, db_tail, bk, next_index, cache, reason, fed,
                   outside>>

\* Variant: the tail index is set at every save.
AnyFile == TRUE

FirstFile == db_tail = None

\* update_index, part 1: the first file saved is the oldest.
SaveTail ==
    /\ pc = "tail"
    /\ IF FirstFile THEN Save(db_tail', next_index, db_tail)
                    ELSE db_tail' = db_tail
    /\ Goto("index")
    /\ UNCHANGED <<db_index, dat, bk, next_index, cache, saved, reason, fed,
                   outside>>

\* Variant: update_index does not advance the index in memory.
AdvancedOnce == IF saved THEN next_index + 1 ELSE next_index

\* After a complete save dump_cached_data advances the index once more.
Advanced == IF saved THEN next_index + 2 ELSE next_index + 1

\* Variant: the cache is emptied after a short write too.
Emptied == {}

CacheLeft == IF saved THEN {} ELSE cache

\* update_index, part 2, and the return to dump_cached_data.  The database
\* gets the value of the first increment.
SaveIndex ==
    /\ pc = "index"
    /\ Save(db_index', next_index + 1, db_index)
    /\ next_index' = Advanced
    /\ cache' = CacheLeft
    /\ Goto("head")
    /\ UNCHANGED <<db_tail, dat, bk, saved, reason, fed, outside>>

----------------------------------------------------------------------------
(* check_do_bulk_service and check_post_status                             *)

\* CHECK_REASON_CACHE_FULL: post the newest file, if there can be one and the
\* network is up.
HeadPost ==
    /\ pc = "head"
    /\ next_index > 0
    /\ reason' = "full"
    /\ Goto("post")
    /\ UNCHANGED <<disk, next_index, cache, saved, fed, outside>>

HeadSkip ==
    /\ pc = "head"
    /\ Goto("loop")
    /\ UNCHANGED <<disk, next_index, cache, saved, reason, fed, outside>>

\* CHECK_REASON_SCAN_FAIL or CONFIG_ERROR: post the oldest file.
TailPost ==
    /\ pc = "loop"
    /\ db_tail # None
    /\ reason' = "scan"
    /\ Goto("post")
    /\ UNCHANGED <<disk, next_index, cache, saved, fed, outside>>

\* The index of the file at hand: get_tail_cache_file_path,
\* get_head_cache_file_path.
Target == IF reason = "scan" THEN db_tail ELSE next_index - 1

\* Variant: -2 is treated like any other error.
PostedOnly(rc) == rc = 0

\* Variant: the file is done with whatever the post returns.
PostedAnyway(rc) == rc \in {0, -1, -2}

\* check_post_status: is the file done with?  On the tail path -2 says so too.
Done(rc) == rc = 0 \/ (rc = -2 /\ reason = "scan")

Settle(rc) ==
    /\ Goto(IF Done(rc) THEN "rename" ELSE "loop")
    /\ UNCHANGED <<disk, next_index, cache, saved, reason, fed>>

Posting == pc = "post" /\ dat[Target] # None

Deliver == /\ sent' = sent \cup dat[Target]
           /\ twice' = twice \cup (sent \cap dat[Target])
           /\ UNCHANGED faults

\* There is no .dat file: -2 if there is a .dat.bk file, -1 if not.
PostMissing == /\ pc = "post"
               /\ dat[Target] = None
               /\ Settle(IF bk[Target] = None THEN -1 ELSE -2)
               /\ UNCHANGED outside

PostOk == Posting /\ Deliver /\ Settle(0)

PostFail == Posting /\ Settle(-1) /\ UNCHANGED outside

PostLost == Posting /\ Fault("lost") /\ Deliver /\ Settle(-1)

\* The return code does not reflect the HTTP status.
PostReject == Posting /\ Fault("reject") /\ Settle(0) /\ UNCHANGED outside

\* httpclient_post_file returns -2 when it cannot allocate its buffer.
PostNoMem == Posting /\ Fault("nomem") /\ Settle(-2) /\ UNCHANGED outside

AfterRename == Goto(IF reason = "scan" THEN "advance" ELSE "loop")

\* Variant: update_head_index leaves the file where it is.
NotRenamed == dat[Target] = None \/ reason = "full"

NoSuchFile == dat[Target] = None

\* update_tail_index, update_head_index: .dat becomes .dat.bk.
Rename ==
    /\ pc = "rename"
    /\ IF NoSuchFile
       THEN UNCHANGED <<dat, bk>>
       ELSE /\ bk' = [bk EXCEPT ![Target] = dat[Target]]
            /\ dat' = [dat EXCEPT ![Target] = None]
    /\ AfterRename
    /\ UNCHANGED <<db_index, db_tail, next_index, cache, saved, reason, fed,
                   outside>>

\* The result of the rename is not looked at.
RenameFail ==
    /\ pc = "rename"
    /\ Fault("rename")
    /\ AfterRename
    /\ UNCHANGED <<disk, next_index, cache, saved, reason, fed, outside>>

AdvanceTail ==
    /\ pc = "advance"
    /\ Save(db_tail', db_tail + 1, db_tail)
    /\ Goto("loop")
    /\ UNCHANGED <<db_index, dat, bk, next_index, cache, saved, reason, fed,
                   outside>>

----------------------------------------------------------------------------
(* Power cycle: mdb_bulk_service_init reads next_index back.               *)

Restart ==
    /\ Fault("crash") \/ (Fault("restart") /\ pc = "loop")
    /\ next_index' = IF db_index = None THEN 0 ELSE db_index
    /\ cache' = {}
    /\ saved' = FALSE
    /\ reason' = "scan"
    /\ Goto("loop")
    /\ UNCHANGED <<disk, fed, outside>>

CoreStep == \/ SaveOpen \/ SaveOpenFail \/ SaveWrite \/ SaveWriteFail
            \/ SaveTail \/ SaveIndex
            \/ HeadPost \/ HeadSkip
            \/ PostMissing \/ PostOk \/ PostFail \/ PostLost \/ PostReject
            \/ PostNoMem
            \/ Rename \/ RenameFail \/ AdvanceTail

Next == \/ \E n \in 0..CacheMax : Dump(n)
        \/ TailPost
        \/ CoreStep
        \/ Restart

Spec == Init /\ [][Next]_vars

\* The core thread keeps running; the bus keeps failing scans now and then
\* while the network is up, and the server takes a post of the oldest file
\* sooner or later.
Fairness == /\ WF_vars(CoreStep)
            /\ SF_vars(TailPost)
            /\ SF_vars(reason = "scan" /\ PostOk)

FairSpec == Spec /\ Fairness

----------------------------------------------------------------------------
(* Properties                                                              *)

Attribute == Index \cup {None}
File == (SUBSET Units) \cup {None}

\* Types: no index leaves its bound, the cache never overflows.
TypeOK == /\ faults \in FaultSets
          /\ db_index \in Attribute /\ db_tail \in Attribute
          /\ dat \in [Index -> File] /\ bk \in [Index -> File]
          /\ next_index \in 0..(IndexMax + 1)
          /\ cache \subseteq Units /\ Cardinality(cache) <= CacheMax
          /\ saved \in BOOLEAN
          /\ reason \in {"scan", "full"}
          /\ pc \in {"loop", "open", "write", "tail", "index", "head", "post",
                     "rename", "advance"}
          /\ fed \in 0..UnitMax
          /\ sent \subseteq Units /\ twice \subseteq Units

\* The files below Indexed are those the database accounts for.
Indexed == IF db_index = None THEN 0 ELSE db_index

\* Whatever goes wrong, and wherever power is lost: a file whose index has
\* been saved is never truncated or rewritten, only renamed as it is.
IndexedFilesKept ==
    [][\A i \in Index : i < Indexed /\ dat[i] # None =>
          dat'[i] = dat[i] \/ (dat'[i] = None /\ bk'[i] = dat[i])]_vars

\* No unit disappears: what was dumped is in the cache, in a file still to be
\* posted, or at the server.  It may where power is lost, the server's refusal
\* is taken for success or the HTTP client runs out of memory.
Destructive == {"reject", "nomem", "restart", "crash"}
Stored == UNION {dat[i] : i \in {j \in Index : dat[j] # None}}
AllStored == 1..fed \subseteq cache \cup Stored \cup sent
NothingLost == faults \cap Destructive = {} => AllStored

\* "we should rename the file to prevent repeate upload" (MBT_bulk.c:166): no
\* unit reaches the server twice, though two paths post the same files, while
\* files are written and renamed and no answer is lost.
Repeating == {"write", "rename", "lost", "crash"}
NoRepeatUpload == faults \cap Repeating = {} => twice = {}

\* Cache, files and server together are an outbox: a unit that the cache took
\* waits until the server is given it, and is given once, through short writes,
\* retries and restarts; only the faults of Destructive make it forget a unit,
\* only those of Repeating make it give one again.
Promised == INSTANCE Outbox
    WITH Unit <- Units, accepted <- 1..fed, waiting <- (cache \cup Stored) \ sent,
         lossy <- faults \cap Destructive # {},
         repeating <- faults \cap Repeating # {}
ImplementsOutbox == Promised!Spec

\* The tail index never passes a file whose contents the server lacks: such a
\* file is at or after the tail, once save_bulk_data is done with it.  Files
\* and posts may fail, and power be cycled between two cycles.
Orderly == {"open", "write", "rename", "lost", "restart"}
Unsent(i) == dat[i] # None /\ ~(dat[i] \subseteq sent)
BeingSaved(i) == pc \in {"write", "tail"} /\ i = next_index
TailNotPast ==
    \A i \in Index : Unsent(i) /\ ~BeingSaved(i) => db_tail # None /\ db_tail <= i
TailBehindUnsent == faults \subseteq Orderly => TailNotPast

\* The tail leaves an index that has a file, posted or not, while renames
\* succeed and the database takes its values.
TailMoves ==
    \A i \in Index :
        /\ faults \subseteq {"open", "write", "lost", "restart"}
        /\ db_tail = i
        /\ dat[i] # None \/ bk[i] # None
        ~> db_tail # i

\* "try to upload the very old cache data" (MBT_core.c:176): every saved file
\* is posted in the end.
OldFilesPosted == \A i \in Index : dat[i] # None ~> dat[i] = None
=============================================================================
