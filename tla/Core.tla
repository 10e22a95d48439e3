------------------------------- MODULE Core --------------------------------
(***************************************************************************)
(* The device as core/src/MBT_core.c runs it: start-up (modbus_core_start, *)
(* with the attributes and the database of module Attributes), then the    *)
(* core thread mdc_loop (parse, OTA, scan, merge, push) and, beside it,    *)
(* the MQTT thread with its two message callbacks.  They share the fields  *)
(* of _mc without a lock.  A step of the core thread touches one of these  *)
(* fields or ends with a call that takes its time.  The device can lose    *)
(* power anywhere.                                                         *)
(***************************************************************************)
EXTENDS Attributes, Scan

CONSTANTS OtaMax,      \* bound: firmware messages
          RestartMax   \* bound: power losses

ASSUME CoreAssumption == /\ ConfigMax \in Nat \ {0}
                         /\ Usable \subseteq 1..ConfigMax
                         /\ OtaMax \in Nat /\ RestartMax \in Nat

VARIABLES
    mdc,           \* token, config, and if the block of config was freed
    configUpdate,  \* mdc->config_update
    otaUpdate,     \* mdc->ota_update
    title, version,\* mdc->ota_title, mdc->ota_version
    nodes,         \* md_scan_service->head
    rc,            \* mdc_loop: rc
    parsed,        \* the text mds_parse_scan got last
    asked,         \* _do_ota: the title already in the uri
    cb,            \* the MQTT thread: where it is, and its message
    requested,     \* the title and version _do_ota asked for last
    announced,     \* what the callback left at its last ota_update = 1
    sent,          \* firmware messages sent so far
    restarts       \* power losses so far

flags == <<configUpdate, otaUpdate>>
ota == <<title, version>>
loopVars == <<nodes, rc, parsed, asked, requested>>
mqttVars == <<cb, announced, sent>>
vars == <<at, attriVars, mdc, flags, ota, loopVars, mqttVars, restarts>>

Idle == [at |-> "idle", text |-> NULL]

NoConfig == [token |-> NULL, config |-> NULL, freed |-> FALSE]

\* The static _mc is zero, and no thread runs yet.
Init == /\ at = "attributes" /\ mdc = NoConfig
        /\ configUpdate = FALSE /\ otaUpdate = FALSE /\ title = 0 /\ version = 0
        /\ nodes = <<>> /\ rc = 0 /\ parsed = NULL /\ asked = 0 /\ cb = Idle
        /\ requested = <<0, 0>> /\ announced = <<0, 0>>
        /\ AttriInit
        /\ sent = 0 /\ restarts = 0

\* Power is lost and comes back: only the database and the server remember.
Restart ==
    /\ restarts < RestartMax
    /\ restarts' = restarts + 1
    /\ at' = "attributes" /\ mdc' = NoConfig
    /\ configUpdate' = FALSE /\ otaUpdate' = FALSE /\ title' = 0 /\ version' = 0
    /\ nodes' = <<>> /\ rc' = 0 /\ parsed' = NULL /\ asked' = 0 /\ cb' = Idle
    /\ requested' = <<0, 0>> /\ announced' = <<0, 0>>
    /\ cache' = [k \in Keys |-> NULL] /\ local' = NULL /\ fetched' = NULL
    /\ UNCHANGED <<db, refused, server, sent>>

\* modbus_core_start: mdc_attribute_update, the last part of which takes
\* token and config out of the cache, the other services, and mdc_start.
Boot == /\ InitStep
        /\ UNCHANGED <<mdc, flags, ota, loopVars, mqttVars, restarts>>

Setup == /\ at = "setup"
         /\ cache' = [k \in Keys |-> Loaded(k)]
         /\ mdc' = [token |-> Loaded("token"), config |-> Loaded("config"),
                    freed |-> FALSE]
         /\ configUpdate' = TRUE
         /\ at' = "top"
         /\ local' = NULL /\ fetched' = NULL
         /\ UNCHANGED <<db, refused, server, otaUpdate, ota, loopVars, mqttVars,
                        restarts>>

----------------------------------------------------------------------------
(* The core thread: mdc_loop                                               *)

\* What is read at mdc->config: its text, or, once that block was freed, what
\* it held, the text now stored there, or nothing that parses.
ConfigText == IF mdc.freed THEN {mdc.config, cache.config, Cut} ELSE {mdc.config}

\* The result of mds_parse_scan is not assigned: rc is the one of the last
\* scan, merge or push.  A negative rc only adds a bulk upload and a sleep.
LoopParse == /\ at = "top"
             /\ configUpdate
             /\ configUpdate' = FALSE
             /\ parsed' \in ConfigText
             /\ \/ nodes' \in Parsed(nodes, parsed') /\ at' = "ota"
                \/ mdc.freed /\ at' = "dead" /\ UNCHANGED nodes
             /\ UNCHANGED <<attriVars, mdc, otaUpdate, ota, rc, asked, requested,
                            mqttVars, restarts>>

LoopNoParse == /\ at = "top"
               /\ ~configUpdate
               /\ at' = "ota"
               /\ UNCHANGED <<attriVars, mdc, flags, ota, loopVars, mqttVars, restarts>>

\* ota_update is cleared before _do_ota reads title and version.
LoopOta == /\ at = "ota"
           /\ otaUpdate' = FALSE
           /\ at' = IF otaUpdate THEN "ota_title" ELSE "scan"
           /\ UNCHANGED <<attriVars, mdc, configUpdate, ota, loopVars, mqttVars,
                          restarts>>

OtaTitle == /\ at = "ota_title"
            /\ asked' = title
            /\ at' = "ota_version"
            /\ UNCHANGED <<attriVars, mdc, flags, ota, nodes, rc, parsed, requested,
                           mqttVars, restarts>>

\* Variant: the flag is cleared once the request is answered.
OtaGetClears == /\ at = "ota_version"
                /\ requested' = <<asked, version>> /\ asked' = 0
                /\ otaUpdate' = FALSE
                /\ at' = "scan"
                /\ UNCHANGED <<attriVars, mdc, configUpdate, ota, nodes, rc, parsed,
                               mqttVars, restarts>>

\* httpclient_get_file: the download succeeds or not, its result decides nothing.
OtaGet == /\ at = "ota_version"
          /\ requested' = <<asked, version>> /\ asked' = 0
          /\ at' = "scan"
          /\ UNCHANGED <<attriVars, mdc, flags, ota, nodes, rc, parsed, mqttVars,
                         restarts>>

\* mds_scan; if it fails, a bulk upload (module BulkStore) and the loop again.
LoopScan == /\ at = "scan"
            /\ \E ok \in SUBSET DOMAIN nodes : nodes' = Scanned(nodes, ok)
            /\ rc' = ScanResult(nodes')
            /\ at' = IF rc' < 0 THEN "top" ELSE "merge"
            /\ UNCHANGED <<attriVars, mdc, flags, ota, parsed, asked, requested, mqttVars,
                           restarts>>

\* mds_merge_result gets a NULL result, so strlen(tt->msg) reads address 0:
\* that ends the process or, where it can be read, the push goes ahead
\* (module Uplink) and leaves its result in rc.
LoopMerge == /\ at = "merge"
             /\ \E merged \in Merged("NULL") :
                   \/ merged.rc < 0 /\ at' = "top" /\ rc' = merged.rc
                   \/ merged.rc = 0 /\ merged.result = "NULL" /\ at' = "dead" /\ rc' = 0
                   \/ merged.rc = 0 /\ at' = "top" /\ rc' \in {-1, 0}
             /\ UNCHANGED <<attriVars, mdc, flags, ota, nodes, parsed, asked, requested,
                            mqttVars, restarts>>

LoopStep == \/ LoopParse \/ LoopNoParse \/ LoopOta \/ OtaTitle \/ OtaGet
            \/ LoopScan \/ LoopMerge

----------------------------------------------------------------------------
(* The MQTT thread: realtime_msg_received, realtime_ota_msg_received       *)

Running == at \in {"top", "ota", "ota_title", "ota_version", "scan", "merge"}
Calling(where) == Running /\ cb.at = where

\* The server makes a new configuration; no message comes while the client
\* is not connected.
ServerConfig == /\ server.config < ConfigMax
                /\ server' = [server EXCEPT !.config = @ + 1]
                /\ UNCHANGED <<at, cache, db, refused, local, fetched, mdc, flags, ota,
                               loopVars, mqttVars, restarts>>

\* A message with mb_config: config_update is set before the text is saved.
\* The valuestring of a mb_config that is no string is NULL.
AttrMessage == /\ Calling("idle")
               /\ server.config < ConfigMax
               /\ server' = [server EXCEPT !.config = @ + 1]
               /\ \E text \in {NULL, server.config + 1} :
                     cb' = [Idle EXCEPT !.at = "save", !.text = text]
               /\ configUpdate' = TRUE
               /\ UNCHANGED <<at, cache, db, refused, local, fetched, mdc, otaUpdate,
                              ota, loopVars, announced, sent, restarts>>

\* mba_save_attribute frees the text mdc->config points to.  With a NULL text
\* strcmp or strdup ends the process.
AttrSave == /\ Calling("save")
            /\ IF cb.text = NULL
                 THEN at' = "dead" /\ UNCHANGED <<cache, db, refused, mdc>>
                 ELSE /\ Save("config", cb.text)
                      /\ mdc' = [mdc EXCEPT !.freed = @ \/ mdc.config # NULL]
                      /\ UNCHANGED at
            /\ cb' = Idle
            /\ UNCHANGED <<local, fetched, server, flags, ota, loopVars, announced,
                           sent, restarts>>

\* A message sets the title if it has a fw_title, and goes on if it has a
\* fw_version.  A valuestring that is NULL, because the member is no string,
\* ends the process in m_strdup.
OtaMessage == /\ Calling("idle")
              /\ sent < OtaMax
              /\ sent' = sent + 1
              /\ \/ /\ title' \in {title, sent + 1}
                    /\ cb' \in {Idle, [Idle EXCEPT !.at = "version"]}
                    /\ UNCHANGED at
                 \/ at' = "dead" /\ UNCHANGED <<title, cb>>
              /\ UNCHANGED <<attriVars, mdc, flags, version, loopVars, announced,
                             restarts>>

OtaSetVersion == /\ Calling("version")
                 /\ \/ /\ version' = sent
                       /\ cb' = [Idle EXCEPT !.at = "flag"]
                       /\ UNCHANGED at
                    \/ at' = "dead" /\ cb' = Idle /\ UNCHANGED version
                 /\ UNCHANGED <<attriVars, mdc, flags, title, loopVars, announced,
                                sent, restarts>>

OtaSetFlag == /\ Calling("flag")
              /\ otaUpdate' = TRUE
              /\ announced' = <<title, version>>
              /\ cb' = Idle
              /\ UNCHANGED <<at, attriVars, mdc, configUpdate, ota, loopVars, sent,
                             restarts>>

Callback == AttrSave \/ OtaSetVersion \/ OtaSetFlag

----------------------------------------------------------------------------
Next == \/ Boot \/ Setup
        \/ LoopStep
        \/ ServerConfig \/ AttrMessage \/ OtaMessage
        \/ Callback
        \/ Restart

Spec == Init /\ [][Next]_vars

\* Both threads are scheduled, and the calls they make return.  Nothing is
\* assumed of the network, of messages or of the power supply.
FairSpec == /\ Spec
            /\ WF_vars(LoopStep)
            /\ WF_vars(Callback)

----------------------------------------------------------------------------
(* Properties                                                              *)

BootStages == {"attributes", "save_token", "wait", "check", "save_config",
               "save_ts", "setup"}
LoopStages == {"top", "ota", "ota_title", "ota_version", "scan", "merge"}
Announcement == (0..OtaMax) \X (0..OtaMax)

\* The types of the variables: at most two nodes are ever linked.
TypeOK == /\ at \in BootStages \cup LoopStages \cup {"dead"}
          /\ AttriType
          /\ mdc \in [token : 0..1, config : Texts, freed : BOOLEAN]
          /\ flags \in BOOLEAN \X BOOLEAN
          /\ ota \in Announcement
          /\ Len(nodes) <= 2 /\ \A i \in DOMAIN nodes : nodes[i] \in NodeType
          /\ rc \in {-1, 0} /\ parsed \in Texts /\ asked \in 0..OtaMax
          /\ cb \in [at : {"idle", "save", "version", "flag"}, text : 0..ConfigMax]
          /\ requested \in Announcement /\ announced \in Announcement
          /\ sent \in 0..OtaMax /\ restarts \in 0..RestartMax

\* A configuration timestamp in the database never stands for a newer
\* configuration than the one stored beside it, whenever the power goes, unless
\* the database refused the text or a transfer broke off: a configuration that
\* mba_attribute_check_expire finds fresh is one.  (check_config_update writes
\* text and timestamp one after the other, a message replaces the text alone.)
TsCoversConfig ==
    "config" \notin refused /\ Cut \notin {db.config, db.ts} => db.ts <= db.config

\* What the attribute cache holds is what a restart will load, unless the
\* database refused it.  (A refused text is never offered again.)
CacheDurable == \A k \in Keys : cache[k] = NULL \/ k \in refused \/ db[k] = cache[k]

\* Every result that goes on to the merge has registers read in this very
\* pass: a node that answered once and fails now does not make a scan good.
\* (The other nodes may add old registers, or a buffer nobody wrote.)
SomethingRead == at = "merge" => \E i \in DOMAIN nodes : nodes[i].value = "new"

\* The two threads exchange title, version and flag without a lock; still no
\* announcement of a version is missed: the core thread always comes back to a
\* state in which what it asked the server for last is as new as what the
\* callback left last, title and version each, unless the process ends.  (The
\* title may be newer: one that comes without a version changes the field and
\* not the flag.  A download that fails is not repeated.)
OtaSettles == []<>(\/ at = "dead"
                   \/ requested[1] >= announced[1] /\ requested[2] >= announced[2])

\* "all attributes update throuth this", MBT_core.c:343: while no message is
\* being handled and no update is announced to the loop, a configuration that
\* the loop parsed last is the one the device holds.
NewestParsed ==
    at \in LoopStages /\ cb.at = "idle" /\ ~configUpdate /\ parsed \in Usable
        => parsed = cache.config
=============================================================================
