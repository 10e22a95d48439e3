---------------------------- MODULE CoreProofs -----------------------------
(***************************************************************************)
(* Proofs about Core: what the attribute cache, the database and the scan  *)
(* list keep to, for any number of configurations and power losses.        *)
(***************************************************************************)
EXTENDS Core, RecursionFacts

\* The message callbacks run only once the core thread does.
BootQuiet == at \in BootStages => cb = Idle

\* No timestamp is newer than what the server has.
TsFromServer == db.ts <= server.config

\* A text on its way to the database is at least as new as the timestamp.
NewerText ==
    /\ cb.at = "save" /\ cb.text # NULL => db.ts <= cb.text
    /\ at = "save_config" => /\ fetched # NULL /\ fetched <= server.config
                             /\ fetched # Cut => db.ts <= fetched

\* The timestamp is written for the text the cache has got.
TsOfText == at = "save_ts" => /\ fetched # NULL /\ fetched <= server.config
                              /\ cache["config"] = fetched

StoreType == /\ AttriType
             /\ cb \in [at : {"idle", "save", "version", "flag"}, text : 0..ConfigMax]

StoreInv == /\ StoreType /\ BootQuiet /\ TsFromServer /\ NewerText /\ TsOfText
            /\ CacheDurable /\ TsCoversConfig

storeVars == <<at, cache, db, refused, fetched, server, cb>>

\* The initial state satisfies the invariant.
LEMMA StoreInit == Init => StoreInv
<1> SUFFICES ASSUME Init PROVE StoreInv
  OBVIOUS
<1> USE CoreAssumption DEF Init, AttriInit, Idle, NULL, Cut, Texts, Keys
<1>1. StoreType
  <2>1. 0 \in Texts /\ 1 \in 1..ConfigMax
    OBVIOUS
  <2>2. cache \in [Keys -> Texts] /\ local \in Texts /\ fetched \in Texts
    BY <2>1
  <2>3. db \in [token : 0..1, config : Texts, ts : Texts]
    BY <2>1
  <2>4. server \in [config : 1..ConfigMax, provisioned : BOOLEAN]
    BY <2>1
  <2>5. cb \in [at : {"idle", "save", "version", "flag"}, text : 0..ConfigMax]
    OBVIOUS
  <2> QED
    BY <2>2, <2>3, <2>4, <2>5 DEF StoreType, AttriType
<1>2. CacheDurable
  BY DEF CacheDurable
<1> QED
  BY <1>1, <1>2 DEF StoreInv, BootQuiet, TsFromServer, NewerText, TsOfText,
                    TsCoversConfig

\* The invariant speaks of these variables alone.
LEMMA StoreStutter ==
    StoreInv /\ UNCHANGED <<storeVars, local>> => StoreInv'
BY DEF StoreInv, StoreType, AttriType, BootQuiet, TsFromServer, NewerText, TsOfText,
       CacheDurable, TsCoversConfig, storeVars

\* What a load finds is a text of the same kind, and what a restart finds.
LEMMA LoadedText ==
    ASSUME StoreInv, NEW k \in Keys
    PROVE  Loaded(k) \in Texts /\ (Loaded(k) = db[k] \/ k \in refused)
BY CoreAssumption DEF StoreInv, StoreType, AttriType, CacheDurable, Loaded, Keys, Texts,
                      NULL, Cut

\* Loading both texts into the cache keeps it durable.
LEMMA LoadDurable ==
    ASSUME StoreInv, UNCHANGED <<db, refused>>, cache' = [k \in Keys |-> Loaded(k)]
    PROVE  CacheDurable' /\ cache' \in [Keys -> Texts]
BY LoadedText DEF CacheDurable

\* A save keeps types and durability, and touches one text at most.
LEMMA SaveKeeps ==
    ASSUME StoreInv, NEW k \in Keys, NEW text \in Texts, Save(k, text),
           text # NULL, k = "token" => text \in 0..1
    PROVE  /\ cache' \in [Keys -> Texts]
           /\ db' \in [token : 0..1, config : Texts, ts : Texts]
           /\ refused' \subseteq Keys
           /\ CacheDurable'
           /\ cache'[k] = text
           /\ db'.ts = db.ts
           /\ k = "token" => db'.config = db.config
                             /\ ("config" \in refused' <=> "config" \in refused)
                             /\ cache'["config"] = cache["config"]
           /\ k = "config" => \/ db'.config = text
                              \/ "config" \in refused'
<1>1. /\ cache \in [Keys -> Texts] /\ refused \subseteq Keys
      /\ db \in [token : 0..1, config : Texts, ts : Texts]
  BY DEF StoreInv, StoreType, AttriType
<1>2. CASE cache[k] = text
  <2>1. UNCHANGED <<cache, db, refused>>
    BY <1>2 DEF Save
  <2> QED
    BY <1>1, <1>2, <2>1 DEF StoreInv, CacheDurable, Keys, NULL
<1>3. CASE cache[k] # text
  <2>1. cache' = [cache EXCEPT ![k] = text] /\ DbSave(k, text)
    BY <1>3 DEF Save
  <2>2. CASE db' = [db EXCEPT ![k] = text] /\ refused' = refused \ {k}
    BY <1>1, <2>1, <2>2 DEF StoreInv, CacheDurable, Keys
  <2>3. CASE db' = db /\ refused' = refused \cup {k}
    BY <1>1, <2>1, <2>3 DEF StoreInv, CacheDurable, Keys
  <2> QED
    BY <2>1, <2>2, <2>3 DEF DbSave
<1> QED
  BY <1>2, <1>3

(***************************************************************************)
(* Start-up                                                                *)
(***************************************************************************)
LEMMA InitTokenKeeps ==
    ASSUME StoreInv, InitToken, UNCHANGED cb PROVE StoreInv'
<1> USE DEF InitToken
<1>1. CacheDurable' /\ cache' \in [Keys -> Texts]
  BY LoadDurable
<1>2. local' \in Texts
  BY LoadedText DEF Keys
<1>3. StoreType'
  BY <1>1, <1>2 DEF StoreInv, StoreType, AttriType
<1>4. BootQuiet'
  BY DEF StoreInv, BootQuiet, BootStages
<1> QED
  BY <1>1, <1>3, <1>4 DEF StoreInv, TsFromServer, NewerText, TsOfText, TsCoversConfig

LEMMA InitProvisionKeeps ==
    ASSUME StoreInv, InitProvision, UNCHANGED cb PROVE StoreInv'
<1>1. PICK reached \in BOOLEAN :
         /\ server' = [server EXCEPT !.provisioned = @ \/ reached]
         /\ at' \in {"setup", "save_token"}
  BY DEF InitProvision
<1>2. server'.config = server.config /\ server' \in [config : 1..ConfigMax, provisioned : BOOLEAN]
  BY <1>1 DEF StoreInv, StoreType, AttriType
<1>3. at \in BootStages /\ UNCHANGED <<cache, db, refused, fetched>> /\ local' = NULL
  BY DEF InitProvision, BootStages
<1>4. NULL \in Texts
  BY CoreAssumption DEF NULL, Cut, Texts
<1>5. StoreType'
  BY <1>2, <1>3, <1>4 DEF StoreInv, StoreType, AttriType
<1> QED
  BY <1>1, <1>2, <1>3, <1>5
     DEF StoreInv, BootQuiet, TsFromServer, NewerText, TsOfText, CacheDurable,
         TsCoversConfig, Idle

LEMMA InitSaveTokenKeeps ==
    ASSUME StoreInv, InitSaveToken, UNCHANGED cb PROVE StoreInv'
<1> USE DEF InitSaveToken
<1>1. Token \in Texts /\ Token \in 0..1 /\ Token # NULL /\ "token" \in Keys
  BY CoreAssumption DEF Token, Texts, Cut, NULL, Keys
<1>2. /\ cache' \in [Keys -> Texts] /\ refused' \subseteq Keys
      /\ db' \in [token : 0..1, config : Texts, ts : Texts]
      /\ CacheDurable' /\ db'.ts = db.ts /\ db'.config = db.config
      /\ "config" \in refused' <=> "config" \in refused
  BY <1>1, SaveKeeps
<1>3. StoreType'
  BY <1>2 DEF StoreInv, StoreType, AttriType
<1>4. BootQuiet'
  BY DEF StoreInv, BootQuiet, BootStages
<1> QED
  BY <1>2, <1>3, <1>4 DEF StoreInv, TsFromServer, NewerText, TsOfText, TsCoversConfig,
                          BootQuiet, BootStages, Idle

LEMMA InitWaitKeeps ==
    ASSUME StoreInv, InitWait, UNCHANGED cb PROVE StoreInv'
BY DEF InitWait, attriVars, StoreInv, StoreType, AttriType, BootQuiet, BootStages,
       TsFromServer, NewerText, TsOfText, CacheDurable, TsCoversConfig

\* The answer of the server is its newest configuration, or broken off.
LEMMA InitCheckKeeps ==
    ASSUME StoreInv, InitCheck, UNCHANGED cb PROVE StoreInv'
<1>1. PICK net \in NetStates, answer \in AttriUpdate(server.config) :
         /\ fetched' = answer.body
         /\ IF net = "ONLINE" /\ answer.rc >= 0
              THEN Differs(answer)
              ELSE at' = "setup"
  BY DEF InitCheck
<1>2. at = "check" /\ UNCHANGED <<cache, db, refused, local, server>>
  BY DEF InitCheck
<1>3. answer.body \in {NULL, Cut, server.config}
  BY DEF AttriUpdate, Response
<1>4. server.config \in 1..ConfigMax /\ db.ts \in Texts /\ db.ts <= server.config
  BY DEF StoreInv, StoreType, AttriType, TsFromServer
<1>5. fetched' \in Texts /\ fetched' <= server.config /\ (fetched' \notin {NULL, Cut} => db.ts <= fetched')
  BY <1>1, <1>3, <1>4, CoreAssumption DEF NULL, Cut, Texts
<1>6. at' \in {"setup", "dead", "save_config"} /\ (at' = "save_config" => fetched' # NULL)
  BY <1>1 DEF Differs
<1>7. StoreType'
  BY <1>2, <1>5 DEF StoreInv, StoreType, AttriType
<1>8. BootQuiet' /\ TsFromServer' /\ TsOfText' /\ CacheDurable' /\ TsCoversConfig'
  BY <1>2, <1>6 DEF StoreInv, BootQuiet, BootStages, TsFromServer, TsOfText,
                    CacheDurable, TsCoversConfig
<1>9. NewerText'
  BY <1>2, <1>5, <1>6 DEF StoreInv, NewerText, BootQuiet, BootStages, Idle
<1> QED
  BY <1>7, <1>8, <1>9 DEF StoreInv

LEMMA InitSaveConfigKeeps ==
    ASSUME StoreInv, InitSaveConfig, UNCHANGED cb PROVE StoreInv'
<1>1. /\ at = "save_config" /\ at' = "save_ts" /\ Save("config", fetched)
      /\ UNCHANGED <<local, fetched, server>>
  BY DEF InitSaveConfig
<1>2. fetched \in Texts /\ fetched # NULL /\ "config" \in Keys /\ fetched <= server.config
  BY <1>1 DEF StoreInv, StoreType, AttriType, NewerText, Keys
<1>3. /\ cache' \in [Keys -> Texts] /\ refused' \subseteq Keys
      /\ db' \in [token : 0..1, config : Texts, ts : Texts]
      /\ CacheDurable' /\ cache'["config"] = fetched /\ db'.ts = db.ts
      /\ db'.config = fetched \/ "config" \in refused'
  BY <1>1, <1>2, SaveKeeps
<1>4. StoreType'
  BY <1>1, <1>3 DEF StoreInv, StoreType, AttriType
<1>5. BootQuiet' /\ TsFromServer' /\ NewerText' /\ TsOfText'
  BY <1>1, <1>2, <1>3 DEF StoreInv, BootQuiet, BootStages, TsFromServer, NewerText,
                          TsOfText, Idle
<1>6. TsCoversConfig'
  BY <1>1, <1>2, <1>3 DEF StoreInv, NewerText, TsCoversConfig
<1> QED
  BY <1>3, <1>4, <1>5, <1>6 DEF StoreInv

\* The cache holds the text the timestamp is for, so the database does.
LEMMA InitSaveTsKeeps ==
    ASSUME StoreInv, InitSaveTs, UNCHANGED cb PROVE StoreInv'
<1>1. /\ at = "save_ts" /\ at' = "setup" /\ db' \in {db, [db EXCEPT !.ts = fetched]}
      /\ UNCHANGED <<cache, refused, local, fetched, server>>
  BY DEF InitSaveTs
<1>2. /\ fetched \in Texts /\ fetched # NULL /\ fetched <= server.config
      /\ cache["config"] = fetched
      /\ db \in [token : 0..1, config : Texts, ts : Texts]
  BY <1>1 DEF StoreInv, StoreType, AttriType, TsOfText
<1>3. /\ db' \in [token : 0..1, config : Texts, ts : Texts]
      /\ \A k \in Keys : db'[k] = db[k]
      /\ db'.config = db.config
      /\ db'.ts \in {db.ts, fetched}
  BY <1>1, <1>2 DEF Keys
<1>4. db.config = fetched \/ "config" \in refused
  BY <1>2 DEF StoreInv, CacheDurable, Keys
<1>5. StoreType'
  BY <1>1, <1>3 DEF StoreInv, StoreType, AttriType
<1>6. BootQuiet' /\ TsFromServer' /\ NewerText' /\ TsOfText' /\ CacheDurable'
  BY <1>1, <1>2, <1>3 DEF StoreInv, BootQuiet, BootStages, TsFromServer, NewerText,
                          TsOfText, CacheDurable, Idle
<1>7. TsCoversConfig'
  <2>1. CASE db'.ts = db.ts
    BY <1>1, <1>3, <2>1 DEF StoreInv, TsCoversConfig
  <2>2. CASE db'.ts = fetched
    BY <1>1, <1>2, <1>3, <1>4, <2>2, CoreAssumption DEF TsCoversConfig, Texts, Cut
  <2> QED
    BY <1>3, <2>1, <2>2
<1> QED
  BY <1>5, <1>6, <1>7 DEF StoreInv

LEMMA SetupKeeps ==
    ASSUME StoreInv, Setup PROVE StoreInv'
<1>1. /\ at = "setup" /\ at' = "top" /\ cache' = [k \in Keys |-> Loaded(k)]
      /\ local' = NULL /\ fetched' = NULL
      /\ UNCHANGED <<db, refused, server, cb>>
  BY DEF Setup, loopVars, mqttVars
<1>2. CacheDurable' /\ cache' \in [Keys -> Texts]
  BY <1>1, LoadDurable
<1>3. NULL \in Texts
  BY CoreAssumption DEF NULL, Cut, Texts
<1>4. StoreType'
  BY <1>1, <1>2, <1>3 DEF StoreInv, StoreType, AttriType
<1> QED
  BY <1>1, <1>2, <1>4 DEF StoreInv, BootQuiet, BootStages, TsFromServer, NewerText,
                          TsOfText, TsCoversConfig, Idle

(***************************************************************************)
(* The core thread, the message callbacks and power losses                 *)
(***************************************************************************)
\* Whatever leaves the store alone and does not go back to start-up.
LEMMA StoreUntouched ==
    ASSUME StoreInv, UNCHANGED <<cache, db, refused, local, fetched, server>>,
           at' \notin BootStages,
           cb' \in [at : {"idle", "save", "version", "flag"}, text : 0..ConfigMax],
           cb' = cb \/ cb'.at # "save"
    PROVE  StoreInv'
BY DEF StoreInv, StoreType, AttriType, BootQuiet, BootStages, TsFromServer, NewerText,
       TsOfText, CacheDurable, TsCoversConfig

LEMMA LoopKeeps ==
    ASSUME StoreInv, LoopStep PROVE StoreInv'
<1>1. UNCHANGED <<cache, db, refused, local, fetched, server, cb>>
  BY DEF LoopStep, LoopParse, LoopNoParse, LoopOta, OtaTitle, OtaGet, LoopScan, LoopMerge,
         attriVars, mqttVars
<1>2. at' \notin BootStages
  <2>1. ASSUME LoopParse \/ LoopNoParse \/ LoopOta \/ OtaTitle \/ OtaGet PROVE at' \notin BootStages
    BY <2>1 DEF LoopParse, LoopNoParse, LoopOta, OtaTitle, OtaGet, BootStages
  <2>2. ASSUME LoopScan PROVE at' \notin BootStages
    BY <2>2 DEF LoopScan, BootStages
  <2>3. ASSUME LoopMerge PROVE at' \notin BootStages
    BY <2>3 DEF LoopMerge, BootStages
  <2> QED
    BY <2>1, <2>2, <2>3 DEF LoopStep
<1>3. cb \in [at : {"idle", "save", "version", "flag"}, text : 0..ConfigMax]
  BY DEF StoreInv, StoreType
<1> QED
  BY <1>1, <1>2, <1>3, StoreUntouched

LEMMA ServerKeeps ==
    ASSUME StoreInv, ServerConfig PROVE StoreInv'
<1>1. /\ server.config < ConfigMax /\ server' = [server EXCEPT !.config = @ + 1]
      /\ UNCHANGED <<at, cache, db, refused, local, fetched, cb>>
  BY DEF ServerConfig, loopVars, mqttVars
<1>2. /\ server'.config = server.config + 1 /\ server.config \in 1..ConfigMax
      /\ server' \in [config : 1..ConfigMax, provisioned : BOOLEAN]
  BY <1>1, CoreAssumption DEF StoreInv, StoreType, AttriType
<1>3. db.ts \in Texts /\ fetched \in Texts
  BY DEF StoreInv, StoreType, AttriType
<1>4. StoreType'
  BY <1>1, <1>2 DEF StoreInv, StoreType, AttriType
<1> QED
  BY <1>1, <1>2, <1>3, <1>4, CoreAssumption
     DEF StoreInv, BootQuiet, TsFromServer, NewerText, TsOfText, CacheDurable,
         TsCoversConfig, Texts, Cut

LEMMA AttrMessageKeeps ==
    ASSUME StoreInv, AttrMessage PROVE StoreInv'
<1>1. /\ server.config < ConfigMax /\ server' = [server EXCEPT !.config = @ + 1]
      /\ \E text \in {NULL, server.config + 1} :
            cb' = [at |-> "save", text |-> text]
      /\ UNCHANGED <<at, cache, db, refused, local, fetched>>
      /\ at \notin BootStages
  BY DEF AttrMessage, Idle, Calling, Running, BootStages
<1>2. /\ server'.config = server.config + 1 /\ server.config \in 1..ConfigMax
      /\ server' \in [config : 1..ConfigMax, provisioned : BOOLEAN]
      /\ cb' \in [at : {"idle", "save", "version", "flag"}, text : 0..ConfigMax]
      /\ cb'.text \in {NULL, server.config + 1}
  BY <1>1, CoreAssumption DEF StoreInv, StoreType, AttriType, NULL
<1>3. db.ts \in Texts /\ db.ts <= server.config
  BY DEF StoreInv, StoreType, AttriType, TsFromServer
<1>4. db.ts <= server.config + 1
  BY <1>2, <1>3, CoreAssumption DEF Texts, Cut
<1>5. StoreType'
  BY <1>1, <1>2 DEF StoreInv, StoreType, AttriType
<1> QED
  BY <1>1, <1>2, <1>4, <1>5
     DEF StoreInv, BootQuiet, BootStages, TsFromServer, NewerText, TsOfText, CacheDurable,
         TsCoversConfig

LEMMA AttrSaveKeeps ==
    ASSUME StoreInv, AttrSave PROVE StoreInv'
<1>1. /\ cb.at = "save" /\ cb' = Idle /\ at \notin BootStages
      /\ UNCHANGED <<local, fetched, server>>
  BY DEF AttrSave, Calling, Running, BootStages
<1>2. cb' \in [at : {"idle", "save", "version", "flag"}, text : 0..ConfigMax]
      /\ cb'.at # "save"
  BY <1>1, CoreAssumption DEF Idle, NULL
<1>3. CASE cb.text = NULL
  <2>1. at' = "dead" /\ UNCHANGED <<cache, db, refused>>
    BY <1>3 DEF AttrSave
  <2> QED
    BY <1>1, <1>2, <2>1, StoreUntouched DEF BootStages
<1>4. CASE cb.text # NULL
  <2>1. Save("config", cb.text) /\ at' = at
    BY <1>4 DEF AttrSave
  <2>2. cb.text \in Texts /\ "config" \in Keys /\ db.ts <= cb.text
    BY <1>1, <1>4, CoreAssumption DEF StoreInv, StoreType, NewerText, Texts, Cut, Keys
  <2>3. /\ cache' \in [Keys -> Texts] /\ refused' \subseteq Keys
        /\ db' \in [token : 0..1, config : Texts, ts : Texts]
        /\ CacheDurable' /\ db'.ts = db.ts
        /\ db'.config = cb.text \/ "config" \in refused'
    BY <1>4, <2>1, <2>2, SaveKeeps
  <2>4. StoreType'
    BY <1>1, <1>2, <2>3 DEF StoreInv, StoreType, AttriType
  <2> QED
    BY <1>1, <1>2, <2>1, <2>2, <2>3, <2>4
       DEF StoreInv, BootQuiet, BootStages, TsFromServer, NewerText, TsOfText,
           TsCoversConfig
<1> QED
  BY <1>3, <1>4

LEMMA OtaCallbackKeeps ==
    ASSUME StoreInv, OtaMessage \/ OtaSetVersion \/ OtaSetFlag PROVE StoreInv'
<1>1. /\ UNCHANGED <<cache, db, refused, local, fetched, server>>
      /\ at' \notin BootStages
      /\ cb' \in {cb, Idle, [Idle EXCEPT !.at = "version"], [Idle EXCEPT !.at = "flag"]}
  BY DEF OtaMessage, OtaSetVersion, OtaSetFlag, Calling, Running, BootStages, attriVars
<1>2. /\ cb' \in [at : {"idle", "save", "version", "flag"}, text : 0..ConfigMax]
      /\ cb' = cb \/ cb'.at # "save"
  BY <1>1, CoreAssumption DEF Idle, NULL, StoreInv, StoreType
<1> QED
  BY <1>1, <1>2, StoreUntouched

LEMMA RestartKeeps ==
    ASSUME StoreInv, Restart PROVE StoreInv'
<1>1. /\ at' = "attributes" /\ cb' = Idle /\ cache' = [k \in Keys |-> NULL]
      /\ local' = NULL /\ fetched' = NULL
      /\ UNCHANGED <<db, refused, server>>
  BY DEF Restart
<1>2. NULL \in Texts /\ Idle \in [at : {"idle", "save", "version", "flag"}, text : 0..ConfigMax]
  BY CoreAssumption DEF NULL, Cut, Texts, Idle
<1>3. StoreType'
  BY <1>1, <1>2 DEF StoreInv, StoreType, AttriType
<1> QED
  BY <1>1, <1>3 DEF StoreInv, BootQuiet, TsFromServer, NewerText, TsOfText, CacheDurable,
                    TsCoversConfig, Idle

(***************************************************************************)
(* The theorems                                                            *)
(***************************************************************************)
\* Every step keeps the invariant of the attribute store.
LEMMA StoreStep == StoreInv /\ [Next]_vars => StoreInv'
<1> SUFFICES ASSUME StoreInv, [Next]_vars PROVE StoreInv'
  OBVIOUS
<1>1. ASSUME Boot PROVE StoreInv'
  <2>1. InitStep /\ UNCHANGED cb
    BY <1>1 DEF Boot, mqttVars
  <2> QED
    BY <2>1, InitTokenKeeps, InitProvisionKeeps, InitSaveTokenKeeps, InitWaitKeeps,
       InitCheckKeeps, InitSaveConfigKeeps, InitSaveTsKeeps DEF InitStep
<1>2. ASSUME UNCHANGED vars PROVE StoreInv'
  BY <1>2, StoreStutter DEF vars, attriVars, mqttVars, storeVars
<1> QED
  BY <1>1, <1>2, SetupKeeps, LoopKeeps, ServerKeeps, AttrMessageKeeps, AttrSaveKeeps,
     OtaCallbackKeeps, RestartKeeps DEF Next, Callback

\* The invariant of cache, database and server holds throughout, whenever the
\* power is lost (MBT_attributes.c, and MBT_core.c:364).
THEOREM StoreInvariance == Spec => []StoreInv
<1> QED
  BY StoreInit, StoreStep, PTL DEF Spec

\* What the attribute cache holds is what a restart will load, unless the
\* database refused it (mba_save_attribute).
THEOREM CacheKept == Spec => []CacheDurable
<1>1. StoreInv => CacheDurable
  BY DEF StoreInv
<1> QED
  BY <1>1, StoreInvariance, PTL

\* The timestamp in the database never stands for a newer configuration than
\* the one beside it (check_config_update, realtime_msg_received).
THEOREM TsCovers == Spec => []TsCoversConfig
<1>1. StoreInv => TsCoversConfig
  BY DEF StoreInv
<1> QED
  BY <1>1, StoreInvariance, PTL

\* A scan that goes on to the merge has read some range in this pass.
LEMMA ScanRead ==
    ASSUME NEW list, NEW ok, ~(ScanResult(Scanned(list, ok)) < 0)
    PROVE  \E i \in DOMAIN Scanned(list, ok) : Scanned(list, ok)[i].value = "new"
<1>1. PICK i \in DOMAIN Scanned(list, ok) : Scanned(list, ok)[i].stat = "ok"
  BY DEF ScanResult
<1>2. Scanned(list, ok)[i].stat = (IF i \in ok THEN "ok" ELSE "fail")
      /\ Scanned(list, ok)[i].value = (IF i \in ok THEN "new" ELSE Aged(list[i].value))
  BY <1>1 DEF Scanned
<1> QED
  BY <1>1, <1>2

\* The first state, and each step, leave a good scan with a range that was read.
LEMMA ScanStep == SomethingRead /\ [Next]_vars => SomethingRead'
<1> SUFFICES ASSUME SomethingRead, [Next]_vars, at' = "merge"
             PROVE  \E i \in DOMAIN nodes' : nodes'[i].value = "new"
  BY DEF SomethingRead
<1>1. ASSUME LoopScan PROVE \E i \in DOMAIN nodes' : nodes'[i].value = "new"
  <2>1. PICK ok \in SUBSET DOMAIN nodes : nodes' = Scanned(nodes, ok)
    BY <1>1 DEF LoopScan
  <2>2. ~(ScanResult(Scanned(nodes, ok)) < 0)
    BY <1>1, <2>1 DEF LoopScan
  <2> QED
    BY <2>1, <2>2, ScanRead
<1>2. ASSUME at = "merge", nodes' = nodes
      PROVE  \E i \in DOMAIN nodes' : nodes'[i].value = "new"
  BY <1>2 DEF SomethingRead
<1>3. ~Boot /\ ~Setup /\ ~Restart
  BY DEF Boot, Setup, Restart, InitStep, InitToken, InitProvision, InitSaveToken, InitWait,
         InitCheck, InitSaveConfig, InitSaveTs, Differs
<1>4. ~LoopParse /\ ~LoopNoParse /\ ~LoopOta /\ ~OtaTitle /\ ~OtaGet /\ ~LoopMerge
  BY DEF LoopParse, LoopNoParse, LoopOta, OtaTitle, OtaGet, LoopMerge
<1>5. ASSUME ServerConfig \/ AttrMessage \/ OtaMessage \/ AttrSave \/ OtaSetVersion \/ OtaSetFlag
      PROVE  at = "merge" /\ nodes' = nodes
  <2>1. nodes' = nodes
    BY <1>5 DEF ServerConfig, AttrMessage, OtaMessage, AttrSave, OtaSetVersion, OtaSetFlag,
                loopVars
  <2>2. at' = at \/ at' = "dead"
    BY <1>5 DEF ServerConfig, AttrMessage, OtaMessage, AttrSave, OtaSetVersion, OtaSetFlag
  <2> QED
    BY <2>1, <2>2
<1>6. ASSUME UNCHANGED vars PROVE at = "merge" /\ nodes' = nodes
  BY <1>6 DEF vars, loopVars
<1> QED
  BY <1>1, <1>2, <1>3, <1>4, <1>5, <1>6 DEF Next, LoopStep, Callback

\* Every result that goes on to the merge has registers read in this very pass
\* (mds_scan, mdc_loop).
THEOREM ScanFresh == Spec => []SomethingRead
<1>1. Init => SomethingRead
  BY DEF Init, SomethingRead
<1> QED
  BY <1>1, ScanStep, PTL DEF Spec

(***************************************************************************)
(* The scan list and the types                                             *)
(***************************************************************************)
\* The list after i new nodes: its first node ever, and the last one.
Ends(list, c, i) ==
    IF i = 0 THEN list
      ELSE IF list # << >> THEN <<list[1], Node(c, i)>>
        ELSE IF i = 1 THEN <<Node(c, 1)>> ELSE <<Node(c, 1), Node(c, i)>>

LEMMA LinkEnds ==
    ASSUME NEW list, NEW c, NEW i \in Nat \ {0}
    PROVE  Link(Ends(list, c, i - 1), Node(c, i)) = Ends(list, c, i)
<1> DEFINE node == Node(c, i)
           first == Node(c, 1)
<1>1. CASE i = 1 /\ list = << >>
  BY <1>1 DEF Ends, Link
<1>2. CASE i = 1 /\ list # << >>
  BY <1>2 DEF Ends, Link
<1>3. CASE i # 1 /\ list # << >>
  <2> HIDE DEF node
  <2>1. /\ Ends(list, c, i - 1) = <<list[1], Node(c, i - 1)>>
        /\ Ends(list, c, i) = <<list[1], node>>
    BY <1>3 DEF Ends, node
  <2> QED
    BY <2>1 DEF Link, node
<1>4. CASE i # 1 /\ list = << >>
  <2> HIDE DEF node, first
  <2>1. /\ Ends(list, c, i) = <<first, node>>
        /\ \/ Ends(list, c, i - 1) = <<first>>
           \/ Ends(list, c, i - 1) = <<first, Node(c, i - 1)>>
    BY <1>4 DEF Ends, node, first
  <2> QED
    BY <2>1 DEF Link, node
<1> QED
  BY <1>1, <1>2, <1>3, <1>4

\* However many ranges a configuration names, and whatever was linked before,
\* the first node the list ever had and the last range are all that stays
\* (MBT_scan.c, parse_input_reg_config).
LEMMA LinkedEnds ==
    ASSUME NEW list, NEW c, NEW n \in Nat
    PROVE  Linked(list, c, n) = Ends(list, c, n)
<1> DEFINE linked[i \in 0..n] ==
             IF i = 0 THEN list ELSE Link(linked[i - 1], Node(c, i))
           g == [i \in 0..n |-> Ends(list, c, i)]
<1>1. \A i \in 0..n : i # 0 => i \in Nat \ {0} /\ i - 1 \in 0..n
  OBVIOUS
<1>2. g = [i \in 0..n |-> IF i = 0 THEN list ELSE Link(g[i - 1], Node(c, i))]
  <2>1. \A i \in 0..n :
          Ends(list, c, i) = IF i = 0 THEN list ELSE Link(g[i - 1], Node(c, i))
    <3> SUFFICES ASSUME NEW i \in 0..n
                 PROVE  Ends(list, c, i)
                          = IF i = 0 THEN list ELSE Link(g[i - 1], Node(c, i))
      OBVIOUS
    <3>1. CASE i = 0
      BY <3>1 DEF Ends
    <3>2. CASE i # 0
      <4>1. g[i - 1] = Ends(list, c, i - 1)
        BY <1>1, <3>2
      <4> QED
        BY <1>1, <3>2, <4>1, LinkEnds
    <3> QED
      BY <3>1, <3>2
  <2> QED
    BY <2>1
<1>3. linked = [i \in 0..n |-> IF i = 0 THEN list ELSE Link(linked[i - 1], Node(c, i))]
  <2>1. \E h : h = [i \in 0..n |-> IF i = 0 THEN list ELSE Link(h[i - 1], Node(c, i))]
    <3> HIDE DEF g
    <3> QED
      BY <1>2
  <2> QED
    BY <2>1
<1>4. Linked(list, c, n) = linked[n]
  BY DEF Linked
<1> HIDE DEF linked
<1>5. linked[n] = Ends(list, c, n)
  <2> DEFINE Bad == {i \in 0..n : linked[i] # Ends(list, c, i)}
  <2>1. CASE Bad = {}
    BY <2>1
  <2>2. CASE Bad # {}
    <3>1. PICK i \in Bad : \A k \in Bad : i <= k
      <4>1. Bad \in SUBSET Nat
        OBVIOUS
      <4> HIDE DEF Bad
      <4> QED
        BY <2>2, <4>1, LeastElement
    <3>2. i \in 0..n /\ linked[i] # Ends(list, c, i)
      OBVIOUS
    <3>3. i # 0
      BY <1>3, <3>2 DEF Ends
    <3>4. linked[i - 1] = Ends(list, c, i - 1)
      <4>1. i - 1 \in 0..n /\ ~ (i <= i - 1)
        BY <1>1, <3>2, <3>3
      <4>2. i - 1 \notin Bad
        <5> HIDE DEF Bad
        <5> QED
          BY <3>1, <4>1
      <4> QED
        BY <4>1, <4>2
    <3>5. linked[i] = Link(linked[i - 1], Node(c, i))
      BY <1>3, <3>2, <3>3
    <3>6. i \in Nat \ {0}
      BY <1>1, <3>2, <3>3
    <3> QED
      BY <3>2, <3>4, <3>5, <3>6, LinkEnds
  <2> QED
    BY <2>1, <2>2
<1> QED
  BY <1>4, <1>5

\* Two nodes at most, each for a range of a usable configuration.
NodeList == nodes \in Seq(NodeType) /\ Len(nodes) <= 2

LEMMA ParsedType ==
    ASSUME NEW list \in Seq(NodeType), Len(list) <= 2, NEW c, NEW new \in Parsed(list, c)
    PROVE  /\ new \in Seq(NodeType) /\ Len(new) <= 2
           /\ list # << >> => new # << >> /\ new[1] = list[1]
<1>1. CASE c \notin Usable
  BY <1>1 DEF Parsed
<1>2. CASE c \in Usable
  <2>1. PICK n \in 0..Width(c) : new = Linked(list, c, n)
    BY <1>2 DEF Parsed
  <2>2. c \in Nat /\ n \in Nat
    BY <1>2, CoreAssumption DEF Width
  <2>3. new = Ends(list, c, n)
    BY <2>1, <2>2, LinkedEnds
  <2>4. \A i \in Nat : Node(c, i) \in NodeType
    BY <1>2 DEF Node, NodeType
  <2>5. Node(c, 1) \in NodeType /\ Node(c, n) \in NodeType
    BY <2>2, <2>4
  <2>6. CASE n = 0
    BY <2>3, <2>6 DEF Ends
  <2>7. CASE n # 0 /\ list # << >>
    <3>1. new = <<list[1], Node(c, n)>>
      BY <2>3, <2>7 DEF Ends
    <3>2. list[1] \in NodeType
      BY <2>7
    <3> HIDE DEF NodeType
    <3> QED
      BY <2>5, <3>1, <3>2
  <2>8. CASE n # 0 /\ list = << >>
    <3>1. new = <<Node(c, 1)>> \/ new = <<Node(c, 1), Node(c, n)>>
      BY <2>3, <2>8 DEF Ends
    <3>2. PICK p \in NodeType, q \in NodeType : new = <<p>> \/ new = <<p, q>>
      BY <2>5, <3>1
    <3> HIDE DEF NodeType
    <3>3. CASE new = <<p>>
      BY <2>8, <3>3
    <3>4. CASE new = <<p, q>>
      BY <2>8, <3>4
    <3> QED
      BY <3>2, <3>3, <3>4
  <2> QED
    BY <2>6, <2>7, <2>8
<1> QED
  BY <1>1, <1>2

LEMMA ScannedType ==
    ASSUME NEW list \in Seq(NodeType), NEW ok
    PROVE  /\ Scanned(list, ok) \in Seq(NodeType) /\ Len(Scanned(list, ok)) = Len(list)
           /\ list # << >> => Scanned(list, ok) # << >>
                              /\ Scanned(list, ok)[1].range = list[1].range
<1>1. Len(list) \in Nat /\ DOMAIN list = 1..Len(list)
  OBVIOUS
<1> DEFINE node(i) == [range |-> list[i].range,
                       stat |-> IF i \in ok THEN "ok" ELSE "fail",
                       value |-> IF i \in ok THEN "new" ELSE Aged(list[i].value)]
<1>2. Scanned(list, ok) = [i \in 1..Len(list) |-> node(i)]
  BY <1>1 DEF Scanned
<1>3. \A i \in 1..Len(list) : node(i) \in NodeType
  <2> SUFFICES ASSUME NEW i \in 1..Len(list) PROVE node(i) \in NodeType
    OBVIOUS
  <2>1. list[i].range \in Usable \X Nat
    <3>1. list[i] \in NodeType
      OBVIOUS
    <3> QED
      BY <3>1 DEF NodeType
  <2>2. /\ (IF i \in ok THEN "new" ELSE Aged(list[i].value)) \in {"unset", "old", "new"}
        /\ (IF i \in ok THEN "ok" ELSE "fail") \in {"ok", "fail"}
    BY DEF Aged
  <2> QED
    BY <2>1, <2>2 DEF NodeType
<1>4. \A i \in 1..Len(list) : node(i).range = list[i].range
  OBVIOUS
<1>5. list # << >> => 1 \in 1..Len(list)
  OBVIOUS
<1> HIDE DEF node
<1> QED
  BY <1>1, <1>2, <1>3, <1>4, <1>5

\* The types of what the attributes do not hold, and of the token they do.
LoopType == /\ at \in BootStages \cup LoopStages \cup {"dead"}
            /\ cache["token"] \in 0..1
            /\ mdc \in [token : 0..1, config : Texts, freed : BOOLEAN]
            /\ configUpdate \in BOOLEAN /\ otaUpdate \in BOOLEAN
            /\ title \in 0..OtaMax /\ version \in 0..OtaMax
            /\ NodeList
            /\ rc \in {-1, 0} /\ parsed \in Texts /\ asked \in 0..OtaMax
            /\ requested \in Announcement /\ announced \in Announcement
            /\ sent \in 0..OtaMax /\ restarts \in 0..RestartMax

LEMMA TextsAre == {NULL, Cut} \subseteq Texts /\ 0 \in 0..OtaMax /\ Token \in 0..1
BY CoreAssumption DEF NULL, Cut, Texts, Token

LEMMA InitLoopType == Init => LoopType
<1> SUFFICES ASSUME Init PROVE LoopType
  OBVIOUS
<1>1. mdc \in [token : 0..1, config : Texts, freed : BOOLEAN] /\ parsed \in Texts
  BY TextsAre DEF Init, NoConfig, NULL
<1>2. NodeList
  BY DEF Init, NodeList
<1>3. cache["token"] \in 0..1
  BY DEF Init, AttriInit, Keys, NULL
<1>4. requested \in Announcement /\ announced \in Announcement
  BY TextsAre DEF Init, Announcement
<1>5. 0 \in 0..OtaMax /\ 0 \in 0..RestartMax
  BY CoreAssumption
<1> QED
  BY <1>1, <1>2, <1>3, <1>4, <1>5 DEF Init, LoopType, BootStages

\* The start-up touches no field of the loop.
LEMMA BootLoopType ==
    ASSUME StoreInv, LoopType, Boot PROVE LoopType'
<1>1. UNCHANGED <<mdc, flags, ota, loopVars, mqttVars, restarts>> /\ InitStep
  BY DEF Boot
<1>2. Loaded("token") \in 0..1
  BY DEF StoreInv, StoreType, AttriType, LoopType, Loaded
<1>3. at' \in BootStages \cup {"dead"}
  BY <1>1 DEF InitStep, InitToken, InitProvision, InitSaveToken, InitWait, InitCheck,
              Differs, InitSaveConfig, InitSaveTs, BootStages
<1>4. cache'["token"] \in 0..1
  <2>1. CASE InitToken
    BY <1>2, <2>1 DEF InitToken, Keys
  <2>2. CASE UNCHANGED cache
    BY <2>2 DEF LoopType
  <2>3. ASSUME NEW k \in Keys, NEW text, Save(k, text), k = "token" => text \in 0..1
        PROVE  cache'["token"] \in 0..1
    BY <2>3 DEF Save, LoopType, StoreInv, StoreType, AttriType, Keys
  <2>4. CASE InitSaveToken
    BY <2>3, <2>4, TextsAre DEF InitSaveToken, Keys
  <2>5. CASE InitSaveConfig
    BY <2>3, <2>5 DEF InitSaveConfig, Keys
  <2>6. CASE InitProvision \/ InitWait \/ InitCheck \/ InitSaveTs
    BY <2>2, <2>6 DEF InitProvision, InitWait, InitCheck, InitSaveTs, attriVars
  <2> QED
    BY <1>1, <2>1, <2>4, <2>5, <2>6 DEF InitStep
<1> QED
  BY <1>1, <1>3, <1>4 DEF LoopType, NodeList, flags, ota, loopVars, mqttVars

LEMMA SetupLoopType ==
    ASSUME StoreInv, LoopType, Setup PROVE LoopType'
<1>1. Loaded("token") \in 0..1 /\ Loaded("config") \in Texts
  <2>1. "config" \in Keys
    BY DEF Keys
  <2> QED
    BY <2>1 DEF StoreInv, StoreType, AttriType, LoopType, Loaded
<1>2. cache'["token"] \in 0..1
  BY <1>1 DEF Setup, Keys
<1>3. mdc' \in [token : 0..1, config : Texts, freed : BOOLEAN]
  BY <1>1 DEF Setup
<1> QED
  BY <1>2, <1>3 DEF Setup, LoopType, LoopStages, NodeList, ota, loopVars, mqttVars

LEMMA LoopStepType ==
    ASSUME StoreInv, LoopType, LoopStep PROVE LoopType'
<1>1. CASE LoopParse
  <2>1. parsed' \in Texts
    <3>1. cache.config \in Texts /\ mdc.config \in Texts
      BY DEF StoreInv, StoreType, AttriType, LoopType, Keys
    <3> QED
      BY <1>1, <3>1, TextsAre DEF LoopParse, ConfigText
  <2>2. NodeList'
    <3>1. nodes' \in Parsed(nodes, parsed') \/ nodes' = nodes
      BY <1>1 DEF LoopParse
    <3> QED
      BY <3>1, ParsedType DEF LoopType, NodeList
  <2>3. at' \in LoopStages \cup {"dead"}
    BY <1>1 DEF LoopParse, LoopStages
  <2> QED
    BY <1>1, <2>1, <2>2, <2>3 DEF LoopParse, LoopType, attriVars, ota, mqttVars
<1>2. CASE LoopScan
  <2>1. NodeList'
    BY <1>2, ScannedType DEF LoopScan, LoopType, NodeList
  <2>2. rc' \in {-1, 0} /\ at' \in LoopStages
    BY <1>2 DEF LoopScan, ScanResult, LoopStages
  <2> QED
    BY <1>2, <2>1, <2>2 DEF LoopScan, LoopType, attriVars, flags, ota, mqttVars
<1>3. CASE LoopMerge
  <2>1. rc' \in {-1, 0} /\ at' \in LoopStages \cup {"dead"}
    BY <1>3 DEF LoopMerge, Merged, LoopStages
  <2> QED
    BY <1>3, <2>1 DEF LoopMerge, LoopType, NodeList, attriVars, flags, ota, mqttVars
<1>4. CASE LoopNoParse \/ LoopOta
  BY <1>4 DEF LoopNoParse, LoopOta, LoopType, NodeList, LoopStages, attriVars, flags, ota,
              loopVars, mqttVars
<1>5. CASE OtaTitle
  BY <1>5 DEF OtaTitle, LoopType, NodeList, LoopStages, attriVars, flags, ota, mqttVars
<1>6. CASE OtaGet
  <2>1. requested' \in Announcement /\ asked' \in 0..OtaMax
    BY <1>6, TextsAre DEF OtaGet, LoopType, Announcement
  <2> QED
    BY <1>6, <2>1 DEF OtaGet, LoopType, NodeList, LoopStages, attriVars, flags, ota,
                      mqttVars
<1> QED
  BY <1>1, <1>2, <1>3, <1>4, <1>5, <1>6 DEF LoopStep

LEMMA MqttLoopType ==
    ASSUME StoreInv, LoopType,
           ServerConfig \/ AttrMessage \/ OtaMessage \/ Callback
    PROVE  LoopType'
<1>1. CASE ServerConfig \/ AttrMessage
  BY <1>1 DEF ServerConfig, AttrMessage, LoopType, NodeList, flags, ota, loopVars, mqttVars
<1>2. CASE AttrSave
  <2>1. cache'["token"] \in 0..1
    BY <1>2 DEF AttrSave, Save, LoopType, StoreInv, StoreType, AttriType, Keys
  <2>2. mdc' \in [token : 0..1, config : Texts, freed : BOOLEAN]
    BY <1>2 DEF AttrSave, LoopType
  <2>3. at' \in BootStages \cup LoopStages \cup {"dead"}
    BY <1>2 DEF AttrSave, LoopType
  <2> QED
    BY <1>2, <2>1, <2>2, <2>3 DEF AttrSave, LoopType, NodeList, flags, ota, loopVars
<1>3. CASE OtaMessage
  <2>1. sent' \in 0..OtaMax /\ title' \in 0..OtaMax
    BY <1>3, CoreAssumption DEF OtaMessage, LoopType
  <2> QED
    BY <1>3, <2>1 DEF OtaMessage, LoopType, NodeList, attriVars, flags, loopVars
<1>4. CASE OtaSetVersion
  BY <1>4 DEF OtaSetVersion, LoopType, NodeList, attriVars, flags, loopVars
<1>5. CASE OtaSetFlag
  BY <1>5 DEF OtaSetFlag, LoopType, NodeList, Announcement, attriVars, ota, loopVars
<1> QED
  BY <1>1, <1>2, <1>3, <1>4, <1>5 DEF Callback

LEMMA RestartLoopType ==
    ASSUME StoreInv, LoopType, Restart PROVE LoopType'
<1>1. mdc' \in [token : 0..1, config : Texts, freed : BOOLEAN] /\ parsed' \in Texts
  BY TextsAre DEF Restart, NoConfig, NULL
<1>2. NodeList'
  BY DEF Restart, NodeList
<1>3. cache'["token"] \in 0..1
  BY DEF Restart, Keys, NULL
<1>4. requested' \in Announcement /\ announced' \in Announcement
  BY TextsAre DEF Restart, Announcement
<1>5. restarts' \in 0..RestartMax
  BY CoreAssumption DEF Restart, LoopType
<1> QED
  BY <1>1, <1>2, <1>3, <1>4, <1>5, TextsAre DEF Restart, LoopType, BootStages

LEMMA StepLoopType == StoreInv /\ LoopType /\ [Next]_vars => LoopType'
<1>1. LoopType /\ UNCHANGED vars => LoopType'
  BY DEF LoopType, NodeList, vars, attriVars, flags, ota, loopVars, mqttVars
<1> QED
  BY <1>1, BootLoopType, SetupLoopType, LoopStepType, MqttLoopType, RestartLoopType DEF Next

LoopInv == StoreInv /\ LoopType

LEMMA LoopInvariance == Spec => []LoopInv
<1>1. Init => LoopInv
  BY StoreInit, InitLoopType DEF LoopInv
<1>2. LoopInv /\ [Next]_vars => LoopInv'
  BY StoreStep, StepLoopType DEF LoopInv
<1> QED
  BY <1>1, <1>2, PTL DEF Spec

\* All variables have their types, and the scan list never holds more than two
\* nodes however many ranges are parsed (parse_input_reg_config).
THEOREM CoreTypeCorrect == Spec => []TypeOK
<1>1. LoopInv => TypeOK
  <2> SUFFICES ASSUME LoopInv PROVE TypeOK
    OBVIOUS
  <2>1. Len(nodes) <= 2 /\ \A i \in DOMAIN nodes : nodes[i] \in NodeType
    BY DEF LoopInv, LoopType, NodeList
  <2> QED
    BY <2>1 DEF LoopInv, LoopType, StoreInv, StoreType, TypeOK, flags, ota, Announcement
<1> QED
  BY <1>1, LoopInvariance, PTL
=============================================================================
