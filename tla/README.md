# A TLA+ model of the ModbusThings agent

The agent (`src/`) reads Modbus registers on a field bus and sends what it read to
a ThingsBoard server: over MQTT while the server keeps up, in files over HTTP
when it does not. This directory models the parts of it whose correctness
depends on the order in which things happen, checks them with TLC on small
instances and proves the central invariants with TLAPS for every value of the
constants.

Paths below are relative to the repository; its C code is under `src/src/`
when seen from here.

## 1. The system

The Linux build (the only one CMake builds) runs these threads:

| thread | code | does |
| --- | --- | --- |
| core | `mdc_loop`, `core/src/MBT_core.c:242` | scans the bus, pushes telemetry, dumps and posts files |
| MQTT send | `mqtt_send_thread`, `port/src/mqttclient/portMqtt.c:59` | receives from the queue, publishes, frees |
| MQTT client | inside the `mqttclient` library | calls `sub_callback` with attribute updates |
| log write, log open | `asyncOutputLog`, `threadToOpenNewFile`, `utils/src/MBT_log.c` | write the ring buffer to a file, open the next file |

### Components

**Message queue** (`utils/src/MBT_queue.c`). State: a linked list (`head`,
`tail`), its length `itemNum`, its limit, a mutex and a condition variable.
Operations: `MBT_mqSend`, `MBT_mqRecv` (blocking or timed), `MBT_mqDumpLimit`
(hand the front messages to a callback while it accepts them). Called by the
core thread and the MQTT send thread. Hard: the signal after the unlock, the
wait that is not re-tested, the fields updated one by one, the two returns that
keep the mutex. Correct when: FIFO, bounded, no message in the queue while
everybody sleeps, the asserts hold, every call returns.

**MQTT client port** (`port/src/mqttclient/portMqtt.c`, on RT-Thread `mymqtt/portMqtt.c`). State: the queue, the
cache that messages are dumped into, a client handle. Operations: `start`
(connect, subscribe, create queue and thread), `push_data`, `dump`, the
subscription callback. Hard: who frees a message, subscription before the
queue exists, what `do_dump` returns to the queue. Correct when: every
telemetry object has one owner and is freed once; what is dumped can be read
back from the cache.

**Bulk service** (`core/src/MBT_bulk.c`, `core/src/MBT_realtime.c`). State:
`cache_buf` with `cur_cached_off` and `next_index` in memory; the numbered
files `mbt_<i>.dat`, `mbt_<i>.dat.bk` and the attributes
`ATTRI_BULK_INDEX` and `ATTRI_BULK_FILE_TAIL_INDEX` on disk. Operations: dump the queue, save the
cache, post the newest or the oldest file, rename a posted file, advance the
tail, initialise from disk. Hard: a power cycle or an I/O error between two
durable steps, the answer of the server lost, return codes that mean different
things in different layers. Correct when: nothing dumped disappears, nothing
saved is overwritten, the tail never skips unsent data and keeps moving,
nothing is uploaded twice.

**Core loop** (`core/src/MBT_core.c`). State: `config_update`, `ota_update` and
its texts, the parsed configuration, the state of the loop. Operations:
start-up, one cycle (configuration, firmware, scan, merge, push or dump and post),
the attribute and firmware callbacks. Hard: flags set by callbacks on the MQTT
thread, a configuration freed while it is in use, the reason a cycle ended
decides which files are posted.

**Attributes and provisioning** (`core/src/MBT_attributes.c`). State: one text
per attribute in memory, the database below. Operations: load, save,
integer load and save, provisioning at the first start, the check for a newer
configuration at every start. Hard: power lost between a configuration and its
timestamp, a database that refuses a value, a server that provisions a name
once. Correct when: a saved value is what a later load, or the next start,
returns; the timestamp never promises more than the text beside it.

**Simple database** (`core/src/MBT_simpleDb.c`, `port/src/simpledb/portDB.c`).
State: a table of pointers in memory, a text file and its replacement. Hard:
rewrite by rename, power loss, two threads that save, the ownership of the
value pointer. Correct when: after any crash the file holds the old table or
the new one.

**Modbus scan** (`core/src/MBT_scan.c`, `port/src/libmodbus`). State: a list of
register ranges built from the configuration, each with its last values and
the status of its last read. Operations: parse, scan, merge.
Correct when: every configured range is scanned, and a merged result has values
of this pass.

**Log** (`utils/src/MBT_log.c`). State: a ring buffer with two indices, a
lost-line counter, two file names used in turn, a descriptor. Three kinds of
threads: printers, the writer, the opener. Hard: the writer reads the indices
without the mutex, a descriptor is replaced under the writer, the old file is
archived by name after the next rotation was allowed, the buffer is full.
Correct when: what is written is what was printed, in order, except lines
reported lost; one rotation at a time; no descriptor lost; the current file is
neither truncated nor renamed.

**ThingsBoard requests** (`port/src/ThingsBoard`, `port/src/libcurl`). No state of
their own; what matters is which results a request can have.

**RT-Thread ports** (`port/src/mymqtt`, `port/src/easyflash`, `os/RT-Thread`). A
second MQTT port over the kernel's queue, a database in flash. No build file
compiles them, but they implement the same interfaces; the MQTT port is the only one
whose dump fills the bulk cache.

**OS layers, cJSON, example.** Thin wrappers, vendored code, a small program.

### Interactions

    bus --> scan --> core loop --push--> queue --> MQTT send --> server
                         |                 |
                         |  (queue full)   | dump
                         |                 v
                         |              cache --save--> files --post--> server
                         |                                 |
                         +--- indexes <--- database <------+
    server --> MQTT client --callback--> attributes, config_update, ota_update

## 2. Modules

| module | role |
| --- | --- |
| `BoundedFifo` | what the queue promises: a bounded FIFO with `Put`, `Get`, `Drop` |
| `MsgQueue` | the queue's code at the granularity of its mutex, with the threads that use it |
| `Outbox` | what the bulk service promises: a unit that is accepted waits until it is given to the server, and is given once |
| `BulkStore` | cache, files and indexes of the bulk service under I/O errors and power cycles |
| `Uplink` | a message from the core thread through queue, port and dump; who owns its memory; both MQTT ports |
| `LogRing` | the log's ring buffer: printing threads under a mutex, the log thread without one |
| `LogRotate` | the change from one log file to the other, with the process's descriptors |
| `Requests` | the results a request to the server can have |
| `Attributes` | cache and database of the attributes, start-up with provisioning |
| `Scan` | the list of register ranges, a pass over it, the merge |
| `Core` | start-up, core loop and MQTT callbacks of one device, with power losses |
| `SimpleDb` | the database file of the Linux build |
| `MCSimpleDb` | symmetry for `SimpleDb`'s run |
| `MsgQueueProofs`, `BulkStoreProofs`, `LogRingProofs`, `LogRotateProofs`, `CoreProofs`, `UplinkProofs`, `SimpleDbProofs` | the proofs about the module each is named after |
| `RecursionFacts` | lemmas about recursive functions and `FlattenSeq` that `CoreProofs` and `SimpleDbProofs` need |

How they compose: `Core` extends `Attributes` (which extends `Requests`) and `Scan` and
adds the threads and their shared fields; its push is one step. `Uplink`
opens that step up: it uses the queue as the `BoundedFifo` that `MsgQueue` is
proved to implement, with the mutex that a dump keeps. `BulkStore` takes over where `Uplink`
has a file. `Core` relies on the database port of easyflash, whose saves are
atomic; `SimpleDb` looks at the one the Linux build links.

### `MsgQueue`

A step is what one thread does between two points at which another thread can
interfere: taking the mutex, the critical section up to the unlock, the signal
after it. `MBT_mqSend` is `SendLock`, then `SendFull` (line 57) or
`SendEnqueue`, then `SendSignal`; `MBT_mqRecv` is `RecvLock`, `RecvWait`
(line 97, the wait releases the mutex), `RecvRelock`, and `RecvTake` or, when
`head` is NULL, `RecvNull`; `MBT_mqDumpLimit` is `DumpLock`, one `DumpItem` per
accepted message, and `DumpStop` or `DumpEnd`. Around them stand the callers:
`Push` with the second push after a dump (`MBT_core.c:306-316`), and `Publish`.
Senders and receivers are sets, although the program has one of each: the
queue's interface allows more, and that is where its wait is wrong. `qitem_t`s are
numbered in allocation order and messages in production order, so order and
duplication are visible. A mutex nobody released stays owned: the code's
default pthread mutex blocks its own owner.

`DumpItem` is a step of its own though it runs under the mutex. That makes the
intermediate states of the loop visible to the invariants; it adds no
behaviour, because everything else that reads these fields needs the mutex.

What `do_dump` does with a message is abstract here: it accepts or refuses, at
any message. (Both ports refuse only what does not fit in the rest of the cache. They differ
in the number of bytes they report, which the queue does not look at beyond
its sign.)

### `BulkStore`

One thread does all of it, so what interleaves with it is the environment. A step is one
durable operation (open, write, rename, save of an attribute), or one request,
with the volatile work that goes with it. `faults`, chosen once from `FaultSets`,
names what may go wrong in a behaviour; every class is a failure the code's own
branches provide for. A property that some faults break says so (`Destructive`, `Repeating`,
`Orderly`). Telemetry is
counted in equal units, named by the order in which they were dumped, and a
file's contents are the set of its units. The call `check_do_bulk_service` is
split by its reason: `HeadPost` after a full queue, `TailPost` after a failed
scan or a configuration error. `HeadSkip` is the early return when the network is down or no file can exist.

`ImplementsOutbox` maps this state to that of `Outbox`: accepted are the units dumped so
far, waiting those that the cache or some file holds and the server has not. A dump is
`Accept`, a post that the server received is `Give`, and the code has no other way to change
where a unit stands: saves, renames, both indexes and retries are stutters. The outbox
may forget (`lossy`) only in a behaviour with a fault of `Destructive`, and repeat only in one
with a fault of `Repeating`.

The cache is that of a `do_dump` that keeps what it accepts
(`port/src/mymqtt/portMqtt.c:248`); `save_bulk_data` and everything after it
are shared code. The `do_dump` of the mqttclient port reports zero bytes, so there
the cache never grows and nothing is ever saved (see `Uplink`).
Integer attributes are those of `port/src/easyflash/portDB.c`, whose save is
atomic; the simpledb port has its own hazards (see `SimpleDb`).

### `LogRing`

A step is one access to memory that both sides share, because the log thread
takes no mutex. `MBT_printLog` is `PrintLine`; `pushLogBuffer` reads the indexes
under the mutex and decides (`Drop`, or `Accept`); `copyLogBuffer` copies byte by
byte (`CopyByte`) and then moves `buffEnd` (`PublishReport` for "...Lost n lines
here...", `PublishLine` for the line). `Fetch` is the line's own look at
`buffStart` (`MBT_log.c:386`), later than the one the room was checked with, so
that report and line may take different branches of `copyLogBuffer`. One poll of
`doWriteLog` is `PollEmpty`, `PollWait` (less than a tenth of the buffer, and not
for long enough) or `PollWrite`; then one `WriteByte` per byte of the one or
two `m_write` calls, `Advance` (line 219), and `RecheckMore` or `RecheckRest`.
`Rest` is the sleep, and the end of the thread once the log is closed.

A byte is named by its position in the stream of all accepted bytes; a correct
file reads 1, 2, 3, ... Threads see each other's writes in program order. The C
code has no barrier between the copy and the store to `buffEnd`; on the x86 and
with a compiler that does not move a store across `memcpy` that is what the build
gives, on weaker machines it is an assumption.

Abstracted: the length of the report is fixed (`LostLen`; it depends on the number of
digits of the count), time is counted in polls (`writeInterval` varies between 5 and
25 ms, so `LOG_MAX_WAIT_MSEC` is 40 to 200 polls; safety is proved for any
`WaitMax`), `m_write` writes everything, and `fd` is always open.

### `Uplink`

The core thread is `Make` (scan and merge gave a text, `telemetry_t` and text
are allocated), `Push`, and after QUEUE_FULL `DumpClient` or `DumpMy`, `Save` or `SaveFail`, and
`Retry`, the second push. The port's thread is `Connected` (mymqtt only), `Recv`,
`Publish`, `Published`. `Connection` makes the broker come and go. `port` is chosen
once. With mqttclient, `do_dump` returns 0: its texts overwrite each other at `cur_cached_off`
and nothing is saved, and `locked` is what the dump does to the mutex. With mymqtt the
copied length is returned, and the cache is saved when more than half full. `SaveFail` is both
ways `save_bulk_data` can fail: no file, or a short write, which leaves the first messages of the
cache in a file that gets its index, while the cache is kept and saved again later. `files` are
the messages saved whole, `cut` those a short write left; what is in `cut` is filed a second time,
and `OnceInOrder` claims single filing for whole saves only.

`text` and `node` say of each message's two blocks whether they are allocated;
`misused` records a read or a second free of a block that is not. After a failed
second push the core frees the text and not the `telemetry_t`. With mqttclient that is never
reached, because no push returns after a dump that kept the mutex; with mymqtt no
`telemetry_t` is ever freed (its queue holds copies), a leak per message. `NodeOwned` is
therefore about mqttclient only.

### `Requests`, `Attributes`, `Scan`, `Core`

`Requests` holds sets of results, not actions: `NetState`, `Response` (curl's
positive codes included, which no caller takes for an error), `AttriUpdate`,
`DevProvision`. A text is a number, `NULL`, or `Cut`, the beginning of a body whose
transfer broke off.

`Attributes` is `modbus_attributes_init` cut where a power loss makes a difference:
`InitToken` or `InitProvision` and `InitSaveToken`; `InitWait`; `InitCheck`
(`check_config_update`); `InitSaveConfig`, `InitSaveTs`. `Save` is
`mba_save_attribute` with its early return; `DbSave` may refuse. Configurations are numbered in
the order in which the server makes them, a timestamp is the number of the
configuration it was written for, so `db.ts <= db.config` says that it does not
promise too much.

`Scan` represents a configuration by its number, which is also how many ranges it
names. `Link` is the linking of a new node that keeps at most two (`MBT_scan.c:88`), `Linked`
the parser's loop, as a recursive function of the number of ranges linked so far. A
node's `value` says whether its buffer was written in this pass, an older one
or never; `stat` is the code's field.

`Core` adds the fields of `_mc`. `Boot` is a step of the start-up, `Setup` its end (`mdc_start`).
One cycle is `LoopParse` or `LoopNoParse`, `LoopOta`, `OtaTitle` and `OtaGet`
(`_do_ota` reads title and version at different times), `LoopScan`, `LoopMerge` (merge and
push). The MQTT thread runs `AttrMessage` then `AttrSave`, and `OtaMessage`, `OtaSetVersion`,
`OtaSetFlag`, one store to a shared field per step. A firmware message may have a title,
a version, both or neither: without a version it stores the title and sets no flag, and a member that is no
string ends the process. `requested` is the pair `_do_ota` last asked for; whether the
download succeeded is not looked at by the code and not by the model, so `OtaSettles` is a claim about asking:
after a failed download the flag is clear and the version is not asked for again. `ServerConfig` is a configuration made while
nobody listens. `Restart` loses everything but database and server.
`mdc.freed` records that the block `mdc->config` points to was freed by
`AttrSave`; a parse then reads its old text, the new one or rubbish, or dies.
`LoopMerge` gives a NULL text to `strlen`, which ends the process where address 0
cannot be read; both outcomes are in the model.

### `LogRotate`

Printing threads are `PrintLine` (count the line, look at `openInProgress`) and
`PrintAsk` (`openNewLogFile`: look again under `logMutex`, start a thread). That thread is
`OpenerFlip`, `OpenerOpen` or `OpenerFail`, `OpenerSwap` (the point at which the next
rotation may start) or `OpenerNull`, `OpenerClose`, `OpenerKeep`. `MBT_resetLog` is `ResetName` to
`ResetRemove`, `MBT_closeLog` is `CloseLog`. The kernel is part of the state:
`name` maps the two names to files, `desc` descriptors to files, and
`ForeignFd` is the rest of the program, which takes the lowest free number, so that a
second `close` of a number would be seen. `upset` collects what the rotation does not survive:
an open that failed (the flag stays flipped), a rotation that overlaps the
archiving of the one before, `MBT_resetLog` in the middle of a rotation.

### `SimpleDb`

A save is `Put` (the table gets the caller's pointer), `Open` or `OpenFail`, one `Write` per item, and
`Rename`; several threads save at once, and nothing keeps them apart.
A file is the sequence of the pieces of its items; `Open` does not truncate, so
it writes over what a broken save left. A slot that was never put is NULL, and
`strlen` of it ends the process (`dead`). When a save returns, the caller's buffer is
gone: the slot may hold `Junk` from then on. `Load` is `parse_load`, which
shifts items by one slot and finds nothing in a file that `convert_save` wrote.

## 3. What is checked

| run | instance | shows |
| --- | --- | --- |
| `queue` | 2 senders, 2 receivers, 2 slots, 4 messages, timed waits, spurious wakeups; fair | the inductive invariant, list shape and asserts hold, no wakeup is lost, the list implements `BoundedFifo`, and what was queued leaves the queue (`Delivered`) unless the process died or a dump kept the mutex |
| `queue_signal` | 1 sender, 1 receiver, 5 messages | **violated**: a receiver reaches the removal with an empty queue |
| `queue_dump` | 1 sender, 1 receiver, 5 messages | **violated**: the push after a dump never returns |
| `bulk_store` | five sets of faults, all of them at once among these; cache of 3, 4 units, 6 indexes; fair | a file the index accounts for is only ever renamed; no dumped unit disappears; the tail never passes a file whose contents the server lacks, and leaves those it has; no unit reaches the server twice; cache, files and server together implement `Outbox` |
| `bulk_gap` | no faults; fair | **violated**: a saved file is never posted by the tail path |
| `uplink` | both ports, 6 messages, queue of 2, cache of 3; fair | texts and `telemetry_t`s live as long as they are held, messages are sent, cached and filed in order, none both sent and dumped or in two whole saves, a dump of mymqtt is kept although saves fail or fall short, the queue drains |
| `uplink_bulk` | mqttclient | **violated**: a message is neither at the broker nor in a bulk file |
| `core` | 2 configurations of 1 and 2 ranges, 2 firmware messages, 1 power loss; fair | timestamp and configuration fit, the attribute cache is what a restart loads, a merged result has registers of this pass, an announced firmware version is asked for in the end |
| `core_config` | 2 configurations, no power loss | **violated**: a configuration that arrives at run time is not parsed |
| `log_ring` | 2 printers, ring of 20 bytes, lines of 1 and 7 bytes, 5 lines; fair | the file is the accepted stream in order, no copy leaves the buffer, lost lines are reported; accepted bytes are written once printing pauses, unless the log is closed |
| `log_rotate` | 2 printers, 2 openers, files of 1 line, archives kept or not, 4 descriptors, 3 lines; fair | one rotation at a time, no descriptor lost or closed twice, the current file keeps its name and is not truncated, every rotation ends |
| `simple_db` | 2 threads (symmetric), 2 keys, texts of 1 and 2 pieces, 3 saves, 1 power loss | the database file is the old table or the new one, but for the cases the property names |

Bounds. In `MsgQueue`, `ItemMax` is 2 where the program has 50: the list has
an empty, a one-element and a full state, and with `MsgMax` above it items are
allocated after others left. The state graph is finite because messages
are (`MsgMax`). In `BulkStore`, `CacheMax` of 3 lets a save happen with a
partly and a completely filled cache; `UnitMax` and `IndexMax` allow two or three
saves, so that the tail, the newest file and one in between are different.
In `Uplink`, six messages overrun the queue twice, so that a dump meets a cache that is empty,
partly filled, and one that could not be saved. In `Core`, two configurations are an old and a
new one, of one and two nodes; a third range would be dropped by `Link`, which
`Width` can be raised to show. Two firmware messages are what it takes for a title of one to meet
the version of the other. One power loss suffices for `TsCoversConfig` and `CacheDurable`, which
relate the states before and after it. In `LogRing`, 20 bytes make `minBuffSize` 2: a line of
one byte has to wait for the timeout, one of seven is written at once; five lines
fill the ring, drop a line with and without a report in front of the next one, and
wrap line, report and chunk. In `LogRotate`, two openers are a rotation and the
archiving of the one before; the fourth descriptor is the one the rest of the
program takes. In `SimpleDb` a short write loses the last piece of an item; three
saves are two at the same time and one on what they left.
Deadlock is not checked where messages, indexes, lines or saves run out, or the process may end.

Fairness. `MsgQueue!Fairness` is weak fairness of each thread's own steps, the
scheduler's promise; signals, timeouts and new messages are not assumed.
Because a mutex may be kept for ever by a dump, `Delivered` excludes that state explicitly.
`BulkStore!Fairness` is weak fairness of the core thread, strong fairness of
the tail path (the code enters it only when a scan fails, so something has to
fail again and again) and of a successful answer on it (a network that lets a
post through if it is tried often enough). Both are assumptions about the site,
and `TailMoves` is conditional on them; `OldFilesPosted` is violated in
spite of them. `LogRing!FairSpec` is weak fairness of the log thread and of each printer inside
`pushLogBuffer`; nobody has to print: the timeout alone must get a short line
written. `Core!FairSpec` is weak fairness of the core thread's loop and of a callback that has
begun; no message and no network is assumed. `Uplink!FairSpec` is weak fairness of the
port's thread; that the broker can be reached stands in `Drained` itself.
`LogRotate!FairSpec` is weak fairness of each thread that opens a file.

Every checked property also has a mutant: a plausible wrong version of one
definition (in the modules, marked *Variant*) under which the property fails.

### What the runs found

1. `MBT_mqRecv` tests `itemNum` once, `MBT_mqSend` signals after the unlock. The
   program's own two threads suffice: the receiver takes the item between the
   unlock and the signal, publishes, finds the queue empty and waits; the signal wakes
   it, and it takes from an empty queue and dereferences NULL (`MBT_queue.c:97`,
   `:125`). A second receiver, a timeout or a spurious wakeup lead there too.
2. Both returns of `MBT_mqDumpLimit` keep the mutex (`MBT_queue.c:159`, `:178`).
   The core thread's next push blocks on itself. `AssertsHold` and the other
   queue invariants hold in spite of it.
3. `next_index` is advanced twice per complete save (`MBT_bulk.c:70`,
   `MBT_realtime.c:42`), in the database once. Every other index has no file: the head path asks
   for one that does not exist, and the tail path stops for good at the first gap.
4. A configuration received while the device runs is saved but not parsed: the
   loop parses `mdc->config`, which start-up loaded and the save has just freed
   (`MBT_core.c:255`, `:361`).
5. The Linux port frees a message whatever `mqtt_publish` returns, and its
   `do_dump` returns 0, so that nothing is ever saved: without a network a message
   is lost (`mqttclient/portMqtt.c:77`).

### What the modelling met besides

These follow from the code as read. Except for the first, no doc, comment or assertion of the
repository speaks about them; no run is made of them.

* "here we should remove all exist scan node" stands before the call of `clear_all_scan_node`
  (`MBT_scan.c:148`), and that function is empty (`:108`). The range that was linked first stays at the head
  of the list, and is scanned and sent, whatever configuration is parsed later, until the process
  ends; `Parsed` links to the list of before, as the code does. A further range replaces the second (`:92`).
* A firmware message with a title and no version changes `ota_title` and sets no flag (`MBT_core.c:413`): the title is
  asked for with the next version, or, if `_do_ota` is about to read it, with the one announced before. A download that
  fails is not tried again, because the flag was cleared before it (`:227`, `:269`).
* A short write of a bulk file counts as a failed save but advances the index (`MBT_bulk.c:91-101`); its messages are
  in that file and, with the rest of the cache, in the next.
* `-2` from the HTTP client means *no memory*; `check_post_status` reads it as
  *already posted* and renames the file (`portHttpClient.c:129`). The fault `nomem` of `BulkStore`.
* `mds_merge_result` replaces the result only if it is not NULL already, and the
  loop hands it NULL (`MBT_scan.c:333`, `MBT_core.c:302`): `strlen(NULL)` after the first good scan.
* The result of `mds_parse_scan` is not assigned; the test after it looks at the `rc` of the
  cycle before (`MBT_core.c:255`).
* A server that provisions a name once, and whose answer is lost, or whose answer arrives
  just before power goes, refuses the device for ever
  (`MBT_attributes.c:118`). A device that has a token in the database but no configuration
  compares with NULL (`:35`). A device without a token waits for the network with no
  limit (`:55`).
* A value the database refuses stays in the cache, and saving it again is then an early
  return (`:205`).
* Keys and items that `convert_save` writes are not what `parse_load` looks for, an index is
  incremented before its first use (`MBT_simpleDb.c:40`), and `strlen` is applied to a
  slot that was never put (`:67`): the first save of a new database ends the process, and
  no later one loads back. Two threads that save share one `.update` file.
* A log file that cannot be opened leaves the flag flipped (`MBT_log.c:296`); the next rotation
  truncates the file in use. `MBT_closeLog` frees the handle under its users (`:496`). The result of
  `pthread_create` is ignored (`:329`): no thread, and `openInProgress` stays set.
* Once a save failed and the cache is full, every dump returns 0 and the save is not tried again
  (`MBT_realtime.c:31`). The subscription is made before `msg_ops` and the queue
  exist (`mqttclient/portMqtt.c:100`).

## 4. What is proved

`MsgQueueProofs` (TLAPS), for any sets of senders and receivers, any limit and
any number of messages, under `QueueAssumption` alone:

| theorem | states |
| --- | --- |
| `Invariance` | `Spec => []IInv` |
| `TypeCorrect`, `ShapeCorrect`, `AssertsCorrect` | the conjuncts of it that the runs check |
| `NoWakeupLost` | `Spec => []NoLostWakeup` |
| `Refinement` | `Spec => ImplementsFifo`: the linked list implements `BoundedFifo` |

`IInv` is `TypeOK /\ LockOwner /\ Accounted /\ ListShape /\ AssertsHold`.
`ListShape` is not inductive alone: that the loop of a dump and a removal by a
receiver do not overlap is `LockOwner` (whoever is in a critical section owns
the mutex, and an owner is in a critical section or left a dump without
unlocking), and that an item is there to be allocated for each pending message
is `Accounted` (items and pending messages never outnumber the messages
produced). Each action has a lemma that it preserves `IInv`, with one step per
conjunct it can disturb. `NoLostWakeup` needs its own argument: a receiver
begins to wait only with an empty queue, and after that a queue becomes
non-empty only through a sender that is now at its signal, and that sender's signal
wakes one of them. With `IInv` it is inductive (`WakeStep`). `Refinement` maps the buffer to
the bodies of items `head .. head + itemNum - 1`; only `SendEnqueue`,
`DumpItem` and `RecvTake` change it, as `Put`, `Drop` and `Get`, every other step
is a stutter.

`BulkStoreProofs`, for any cache size, any number of units and files, under
`BulkAssumption`:

| theorem | states | faults |
| --- | --- | --- |
| `BulkTypeCorrect` | `Spec => []TypeOK` | any |
| `FilesKept` | `Spec => IndexedFilesKept` | any |
| `NoneLost` | `Spec => []NothingLost` | no power cycle, no HTTP error taken for success, no memory exhaustion |
| `TailBehind` | `Spec => []TailBehindUnsent` | files and answers fail, restarts between cycles |
| `PostedOnce` | `Spec => []NoRepeatUpload` | files are written and renamed, no answer is lost, no power cycle inside a cycle |
| `OutboxRefinement` | `Spec => ImplementsOutbox` | any; the outbox knows which kinds occur |

`BulkInv`, the invariant below all four, adds to the types what the place of
the core thread implies (`Control`: the tail path renames and advances only at
an index that had a file), that files exist only where a save could put them, that the index in
the database never runs ahead of the one in memory (`IndexBehind`, all that
`FilesKept` needs: saves write at `next_index`), and that the cache holds units
already dumped, so that a dump adds as many as it says. `NoneLost` rests on
`LossInv`: nothing lies at or after `next_index` that a save could overwrite
(`Ahead`), a save that counts as complete put the whole cache into its file
(`SavedAll`), and a file is renamed only when the server has it
(`PostedFirst`). `TailBehind` rests on `TailInv`: every file and the tail are
below the saved index, except during a save, and the tail path steps over an
index only if the server has its file. Each fault that `NoneLost` and `TailBehind` exclude breaks
the property; an HTTP error taken for success and exhausted memory break `TailBehindUnsent` when a
rename fails as well. `PostedOnce` rests on `OnceInv`: a unit is in one place
only, the cache, one file still to be posted or the server (`OnePlace`; the file of a save not yet
finished shares its units with the cache, the one just posted with the server), and only units
already dumped are anywhere (`OldEverywhere`).

`OutboxRefinement` puts three of them together: a step dumps new units, gives the server a
file's, or leaves the server alone and adds nothing to what is held (`HeldStep`); what is held or sent was
dumped (`Within`), so that a dump's units are new; without a destructive fault nothing is dropped
(`LossInv`), without a repeating one the server did not have the file (`OnceInv`).

`LogRingProofs`, for any set of printers, any line lengths and any buffer of at
least ten bytes (below that `minBuffSize` is 0 and an empty ring counts as a chunk;
the program's is 10 KB), under `LogAssumption`:

| theorem | states |
| --- | --- |
| `LogInvariance` | `Spec => []IInv` |
| `LogTypeCorrect` | the indexes stay inside the buffer |
| `FileCorrect` | the file is the stream of accepted bytes, in order and complete |
| `CopiesInside` | no copy leaves the buffer |
| `LossesCounted` | dropped lines are reported or still counted |

`FileInOrder` needs to know what the ring holds (`Contents`: the stream between
`buffStart` and `buffEnd`, and its continuation behind `buffEnd` as far as the copy at hand
has come) and that the log thread's chunk is the front of it (`ChunkInFront`). A
copy does not disturb `Contents` because what is held and what is still to come
fit in the ring (`RoomLeft`); that is checked once, under the mutex, and stays
true because only the owner adds to the ring (`OneInside`) and the log thread
only ever takes away: that is why the stale `buffStart` is harmless. `Wrap`
is the modulo for the indexes that occur, below twice the size of the buffer.

`LogRotateProofs`, for any printers and openers, any table of descriptors, under
`RotateAssumption`: `RotateTypeCorrect`, `OneRotation`, `DescriptorsAccounted`,
`CurrentKeepsName`, `TruncatesOnlyOther`, all from `Spec => []RInv`. `OneOpener` counts;
the invariant says instead that a rotating thread and the set flag imply each other
and that two rotating threads are one (`OneAtATime`). `Accounted` is that a
descriptor is open on a log file exactly if somebody has it in hand, and `Hands` at which
places that is; that `open` returns a free descriptor is `LowestFree`. `Calm` is the
heart of the other two: while nothing has upset the rotation, it says for each stage of
rotation and reset which name the file in use has, and that an archiving
thread takes the other one.

`CoreProofs`, for any number of configurations, firmware messages and power losses,
under `CoreAssumption`:

| theorem | states |
| --- | --- |
| `CacheKept` | `Spec => []CacheDurable` |
| `TsCovers` | `Spec => []TsCoversConfig` |
| `ScanFresh` | `Spec => []SomethingRead` |
| `CoreTypeCorrect` | `Spec => []TypeOK`, with the bound of two nodes |

`CacheDurable` is
inductive with the types. `TsCoversConfig` is not: a timestamp is written after its
text, and in between a message could replace the text. It cannot, because no callback
runs before start-up has ended (`BootQuiet`), and the text it leaves later is newer than all that was
fetched (`NewerText`, `TsFromServer`, `TsOfText`). `ScanFresh` follows from what
`ScanResult` returns. `CoreTypeCorrect` rests on `LoopInv`, the types of the threads' fields
beside `StoreInv`, and on `LinkedEnds`: however many ranges are linked, one after the other, to
a list of at most two nodes, the list has at most two.

`UplinkProofs`, for both ports, any queue, cache and number of messages, under
`UplinkAssumption`: `UplinkTypeCorrect`, `TextsOwned`, `NodesOwned`,
`SentOnceInOrder`, `DumpsKept`, all from `Spec => []UInv`. Ownership and order need each other: that
no block is freed twice is that no message is held in two places, and that is the strict order
sender < queue < core (`HeldOrder`). What was sent, and what was filed, is older
than all that can still be (`SentOrder`, `FiledOrder`), and a filed message is not the one
the sender holds, although the sender publishes it while a dump takes the ones after it. That a short
write leaves only messages which are cached or in a whole save is part of `FiledOrder`: a save that does not
succeed keeps the cache, and a whole save takes all of it.

`SimpleDbProofs`, for any threads that save, any number of keys and lengths of texts, under
`DbAssumption`: `DbTypeCorrect` (`Spec => []TypeOK`) and `FileAlwaysWhole` (`Spec => []FileWhole`),
both from `Spec => []DbInv`. `FileWhole` speaks of the file that has the name `simple.db`; a
step of the invariant back, the file that a thread is about to rename must hold all items, so every
file being written holds the first `item` items, each of them whole, and ends where its thread
writes next (`Ordered`). That is true of a thread only while no other has the
file open, which is what `Alone` says: two saves in one file have torn it, and nothing is ever
taken off `torn`. `InFile` keeps the position inside the file and the item below their number.

Recursion. What `FlattenSeq` yields and what `Linked` returns for every input are statements about
recursive functions. `RecursionFacts` proves them without an induction rule: if a
function of the recursive form did not exist, or a statement about its values failed, for
some number, there would be a least one (`LeastElement`, from the library's theorem that `<` is well-founded
on `Nat`), and the number before it refutes that. `FlattenNext` and `FlattenSnoc`
say that `FlattenSeq` of one element more is the old result with that element appended.

Only model-checked: liveness (`Delivered`, `TailMoves`, `AllWritten`,
`RotationEnds`, `OtaSettles`, `Drained`), which is beyond the prover, as are
statements about ENABLED; and the violations. Every other property that a passing run checks
is stated by a theorem.

The proofs about `Core` rest on the easyflash port's promise that a save is
atomic and durable. The Linux build's database does not keep it (`SimpleDb`), so
`CacheKept` and `TsCovers` hold of a device with easyflash.

## 5. Not modelled, and why

* The subscription callback of the Linux MQTT port: it computes its pointer with
  `container_of` from the address of the client instead of that of the field
  (`mqttclient/portMqtt.c:52`), so what it then calls is not defined by the code. `Core` has the
  callbacks of the core, as mymqtt calls them.
* Closing the log: the log thread ends after its current poll and what is still in
  the ring is not written; nothing in the repository promises that it is, so
  `AllWritten` exempts a closed log. The memory of the handle after
  `MBT_closeLog` freed it is left out. So is the compression of archived files, which
  replaces a file that has its final name already.
* The log thread's use of its descriptor while a rotation replaces it: `LogRing` has one
  file that is always open, `LogRotate` has no log thread. A write to a descriptor that was closed, or given to
  somebody else, in the middle of a poll is in neither; nor is a short `m_write` of the log.
* Formatting and parsing of JSON, HTTP and MQTT messages, cJSON, the Modbus
  protocol, the MQTT client library: conversions and libraries; only their outcomes matter to
  the models.
* The registers of a range: one value stands for all of them. `mds_scan` reads a
  range in one call, which succeeds or fails as a whole.
* The other wrappers of one system call or package call: they are part of the actions that
  call them.
* The example program and the build files.

## 6. Plan

What could be added next, in order of use:

| module | adds |
| --- | --- |
| `UplinkProofs` | that the queue of `Uplink` takes the steps of the `BoundedFifo` that `MsgQueue` implements, so that the two results join in one |
| safety halves of the liveness properties | for `Drained`, `AllWritten` and `RotationEnds`, the measure that every helpful step decreases and no other step increases, as action properties |
| `Uplink` with `BulkStore` | one module in which the cache that a dump fills is the one the files are made of; today they meet at `Save` |
