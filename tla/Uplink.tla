------------------------------- MODULE Uplink -------------------------------
(***************************************************************************)
(* The way of a telemetry message: the core thread makes it (MBT_core.c),  *)
(* pushes it to the queue of the MQTT port and, when that is full, has the *)
(* queue dumped into the bulk cache (MBT_realtime.c); the port's thread    *)
(* takes messages from the queue and publishes them.  There are two ports, *)
(* port/src/mqttclient with the queue of module MsgQueue, which is here    *)
(* the BoundedFifo it implements, and port/src/mymqtt with a queue of the  *)
(* RT-Thread kernel.  What becomes of bulk files is module BulkStore.  A   *)
(* message has its text here from the start, as all code behind the merge  *)
(* expects; that mds_merge_result hands over none is in module Core.       *)
(***************************************************************************)
EXTENDS Integers, SequencesExt

CONSTANTS Ports,      \* the ports to look at
          MsgMax,     \* bound: messages made
          QueueMax,   \* REALTIME_OUT_CACHE_MAX, the messages of a queue
          CacheMax    \* BULK_FILE_MAX_BYTES, in messages

ASSUME UplinkAssumption == /\ Ports \subseteq {"mqttclient", "mymqtt"}
                           /\ MsgMax \in Nat /\ QueueMax \in Nat \ {0}
                           /\ CacheMax \in Nat

VARIABLES
    port,       \* the port that was built
    online,     \* the broker can be reached (mymqtt: _connected)
    queue,      \* the messages in mq
    locked,     \* the mutex of mq was left locked
    core,       \* the core thread: where it is, and tt
    sender,     \* the port's thread: where it is, and raw
    text, node, \* the blocks of a message: tt->msg, and tt itself
    cache,      \* cache_buf up to cur_cached_off
    files,      \* the messages in bulk files that were saved whole
    cut,        \* the messages in bulk files that a short write left
    delivered,  \* the messages the broker has
    dumped,     \* the messages do_dump was given
    made,       \* messages made so far
    misused     \* a block was read or freed that is not live

memory == <<text, node, misused>>
bulk == <<cache, files, cut, dumped>>
vars == <<port, online, queue, locked, core, sender, memory, bulk, delivered, made>>

Msgs == 1..MsgMax
None == 0

Idle == [at |-> "scan", tt |-> None]

\* mqttclient waits for a message at once, mymqtt for the connection first.
Listening == [at |-> IF port = "mymqtt" THEN "test" ELSE "recv", tt |-> None]

\* mqtt_client_start: an empty queue and its thread.
Init == /\ port \in Ports /\ online \in BOOLEAN
        /\ queue = <<>> /\ locked = FALSE
        /\ core = Idle /\ sender = Listening
        /\ text = [m \in Msgs |-> "none"] /\ node = text /\ misused = FALSE
        /\ cache = <<>> /\ files = <<>> /\ cut = {} /\ dumped = {}
        /\ delivered = <<>> /\ made = 0

Freed(blocks, set) == [m \in Msgs |-> IF m \in set THEN "freed" ELSE blocks[m]]

\* Variant: the telemetry_t is forgotten.
ReleaseText(set) ==
    /\ text' = Freed(text, set)
    /\ UNCHANGED node
    /\ misused' = (misused \/ \E m \in set : text[m] # "live")

\* The texts of a set of messages are read and freed, and with mqttclient the
\* telemetry_t too.  (The queue of mymqtt holds a copy of the telemetry_t, the
\* block itself is never freed.)
Release(set) ==
    /\ text' = Freed(text, set)
    /\ node' = IF port = "mqttclient" THEN Freed(node, set) ELSE node
    /\ misused' = (misused \/ \E m \in set : text[m] # "live")

----------------------------------------------------------------------------
(* The core thread                                                         *)

Make == /\ core.at = "scan" /\ made < MsgMax
        /\ made' = made + 1
        /\ core' = [at |-> "push", tt |-> made + 1]
        /\ text' = [text EXCEPT ![made + 1] = "live"]
        /\ node' = [node EXCEPT ![made + 1] = "live"]
        /\ UNCHANGED <<port, online, queue, locked, sender, misused, bulk, delivered>>

\* Variant: one message too many.
RoomLate == Len(queue) <= QueueMax

HasRoom == Len(queue) < QueueMax

Enqueue == queue' = Append(queue, core.tt)

\* mqtt_push_data, and QUEUE_FULL if there is no room; any other error of the
\* queue is success for mymqtt.
Push == /\ core.at = "push" /\ ~locked
        /\ IF HasRoom THEN Enqueue /\ core' = Idle
                      ELSE core' = [core EXCEPT !.at = "dump"] /\ UNCHANGED queue
        /\ UNCHANGED <<port, online, locked, sender, memory, bulk, delivered, made>>

Oldest(n) == SubSeq(queue, 1, n)
Newer(n) == SubSeq(queue, n + 1, Len(queue))

\* do_dump of mqttclient returns 0: the next text is copied over it and
\* cur_cached_off stays; -1 for a text longer than the limit.  MBT_mqDumpLimit
\* returns with the mutex locked.
DumpClient ==
    /\ core.at = "dump" /\ port = "mqttclient"
    /\ \E n \in 0..Len(queue) :
          /\ Release(ToSet(Oldest(n)))
          /\ dumped' = dumped \cup ToSet(Oldest(n))
          /\ queue' = Newer(n)
    /\ locked' = TRUE
    /\ core' = [core EXCEPT !.at = "retry"]
    /\ UNCHANGED <<port, online, sender, cache, files, cut, delivered, made>>

\* rt_mq_dump_limit, which is not in the repository: front messages, as many
\* as it takes to fit.  do_dump of mymqtt returns the length it copied.
Room == CacheMax - Len(cache)

DumpMy ==
    /\ core.at = "dump" /\ port = "mymqtt"
    /\ \E n \in 0..Len(queue) :
          /\ n <= Room
          /\ Release(ToSet(Oldest(n)))
          /\ dumped' = dumped \cup ToSet(Oldest(n))
          /\ cache' = cache \o Oldest(n)
          /\ queue' = Newer(n)
          /\ core' = [core EXCEPT !.at = IF n > 0 /\ Len(cache') > CacheMax \div 2
                                           THEN "save" ELSE "retry"]
    /\ UNCHANGED <<port, online, locked, sender, files, cut, delivered, made>>

\* save_bulk_data without success: the file could not be opened, or a short
\* write left the first messages of the cache in a file, which gets its index
\* all the same.
WrittenShort == \E n \in 0..Len(cache) - 1 : cut' = cut \cup ToSet(SubSeq(cache, 1, n))

\* Variant: the cache is emptied whatever save_bulk_data returns.
SaveFailEmpties == /\ core.at = "save"
                   /\ core' = [core EXCEPT !.at = "retry"]
                   /\ WrittenShort
                   /\ cache' = <<>>
                   /\ UNCHANGED <<port, online, queue, locked, sender, memory, files, dumped,
                                  delivered, made>>

\* dump_cached_data: the cache, more than half full, is saved and emptied, or
\* kept if save_bulk_data did not succeed, to be saved again by a later dump.
SaveFail == /\ core.at = "save"
            /\ core' = [core EXCEPT !.at = "retry"]
            /\ WrittenShort
            /\ UNCHANGED <<port, online, queue, locked, sender, memory, cache, files, dumped,
                           delivered, made>>

\* Variant: the offset is not set back.
SaveKeeps == /\ core.at = "save"
             /\ core' = [core EXCEPT !.at = "retry"]
             /\ files' = files \o cache
             /\ UNCHANGED <<port, online, queue, locked, sender, memory, cache, cut,
                            dumped, delivered, made>>

Save == /\ core.at = "save"
        /\ core' = [core EXCEPT !.at = "retry"]
        /\ files' = files \o cache
        /\ cache' = <<>>
        /\ UNCHANGED <<port, online, queue, locked, sender, memory, cut, dumped,
                       delivered, made>>

\* Variant: the text is freed whatever the second push returns.
RetryFrees == /\ core.at = "retry" /\ ~locked
              /\ core' = Idle
              /\ IF HasRoom THEN Enqueue ELSE UNCHANGED queue
              /\ text' = Freed(text, {core.tt})
              /\ UNCHANGED <<port, online, locked, sender, node, misused, bulk, delivered,
                             made>>

\* "try again": if the queue is still full, result is freed, tt is not.  The
\* bulk upload after it is module BulkStore.
Retry == /\ core.at = "retry" /\ ~locked
         /\ core' = Idle
         /\ IF HasRoom THEN Enqueue /\ UNCHANGED text
                       ELSE text' = Freed(text, {core.tt}) /\ UNCHANGED queue
         /\ UNCHANGED <<port, online, locked, sender, node, misused, bulk, delivered,
                        made>>

CoreStep == Make \/ Push \/ DumpClient \/ DumpMy \/ Save \/ SaveFail \/ Retry

----------------------------------------------------------------------------
(* mqtt_send_thread and mqtt_app_thread                                    *)

Connected == /\ sender.at = "test" /\ online
             /\ sender' = [sender EXCEPT !.at = "recv"]
             /\ UNCHANGED <<port, online, queue, locked, core, memory, bulk, delivered,
                            made>>

Recv == /\ sender.at = "recv" /\ ~locked /\ queue # <<>>
        /\ sender' = [at |-> "publish", tt |-> Head(queue)]
        /\ queue' = Tail(queue)
        /\ UNCHANGED <<port, online, locked, core, memory, bulk, delivered, made>>

\* mqtt_publish, paho_mqtt_publish: reads the text; the result is not used.
Publish == /\ sender.at = "publish"
           /\ \/ online /\ delivered' = Append(delivered, sender.tt)
              \/ UNCHANGED delivered
           /\ misused' = (misused \/ text[sender.tt] # "live")
           /\ sender' = [sender EXCEPT !.at = "free"]
           /\ UNCHANGED <<port, online, queue, locked, core, text, node, bulk, made>>

\* Variant: the thread ends when a message could not be published.
PublishedEnds == /\ sender.at = "free"
                 /\ Release({sender.tt})
                 /\ sender' = IF delivered # <<>> /\ Last(delivered) = sender.tt
                                THEN Listening ELSE [Listening EXCEPT !.at = "end"]
                 /\ UNCHANGED <<port, online, queue, locked, core, bulk, delivered, made>>

Published == /\ sender.at = "free"
             /\ Release({sender.tt})
             /\ sender' = Listening
             /\ UNCHANGED <<port, online, queue, locked, core, bulk, delivered, made>>

SenderStep == Connected \/ Recv \/ Publish \/ Published

\* The connection comes and goes.
Connection == /\ online' = ~online
              /\ UNCHANGED <<port, queue, locked, core, sender, memory, bulk, delivered,
                             made>>

----------------------------------------------------------------------------
Next == CoreStep \/ SenderStep \/ Connection

Spec == Init /\ [][Next]_vars

\* The port's thread is scheduled and its calls return; the core thread may
\* take its time.
FairSpec == Spec /\ WF_vars(SenderStep)

----------------------------------------------------------------------------
(* Properties                                                              *)

Blocks == [Msgs -> {"none", "live", "freed"}]
Holder == Msgs \cup {None}

\* The types of the variables; queue and cache stay within their limits.
TypeOK == /\ port \in Ports /\ online \in BOOLEAN /\ locked \in BOOLEAN
          /\ queue \in Seq(Msgs) /\ Len(queue) <= QueueMax
          /\ core \in [at : {"scan", "push", "dump", "save", "retry"}, tt : Holder]
          /\ sender \in [at : {"test", "recv", "publish", "free"}, tt : Holder]
          /\ text \in Blocks /\ node \in Blocks /\ misused \in BOOLEAN
          /\ cache \in Seq(Msgs) /\ Len(cache) <= CacheMax
          /\ files \in Seq(Msgs) /\ delivered \in Seq(Msgs)
          /\ cut \subseteq Msgs /\ dumped \subseteq Msgs /\ made \in 0..MsgMax

\* The messages some thread or the queue still refers to.
Held == ({core.tt, sender.tt} \ {None}) \cup ToSet(queue)

\* A text lives exactly as long as somebody holds it, and nobody reads or
\* frees it after: core thread, queue and port thread pass it on without a
\* lock, and three places free it (mqtt_send_thread, do_dump, mdc_loop).
TextOwned == /\ ~misused
             /\ \A m \in Msgs : text[m] = "live" <=> m \in Held

\* With mqttclient the same is true of the telemetry_t.
NodeOwned == port = "mqttclient" => \A m \in Msgs : node[m] = "live" <=> m \in Held

Increasing(s) == \A i, j \in DOMAIN s : i < j => s[i] < s[j]

\* Publishing and dumping take from the same queue, still the broker gets the
\* messages in the order they were made, the cache and the files saved whole
\* are in that order, and no message is both published and dumped or in two
\* of these places.  What a short write leaves in a file are messages that
\* the cache keeps until a whole save: those are filed more than once.
OnceInOrder == /\ Increasing(delivered)
               /\ Increasing(files \o cache)
               /\ ToSet(delivered) \cap ToSet(files \o cache) = {}
               /\ cut \subseteq ToSet(files \o cache)

\* With mymqtt a message taken by a dump is in the cache or in a file,
\* whether or not the cache could be saved.
DumpKept == port = "mymqtt" => dumped = ToSet(files \o cache)

\* Every queued message leaves the queue, if the broker can be reached from
\* some time on and no dump has left the mutex locked.
Drained == <>[]online => \A m \in Msgs : m \in ToSet(queue) ~> locked \/ m \notin ToSet(queue)

\* "transfer the data to server real-time or in a bulk way when network is not
\* available", README.md:3: a message that is no longer held is at the broker,
\* in the bulk cache or in a bulk file.
NoneDropped ==
    \A m \in 1..made : m \in Held \cup ToSet(delivered) \cup ToSet(cache) \cup ToSet(files)
=============================================================================
