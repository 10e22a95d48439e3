---------------------------- MODULE Attributes -----------------------------
(***************************************************************************)
(* The attributes of core/src/MBT_attributes.c: the cache _as, the durable *)
(* database behind service_db_*, and modbus_attributes_init, the start-up  *)
(* that provisions the device and fetches its configuration.  A step ends  *)
(* where a power loss makes a difference: a request the server acts on, a  *)
(* value written to flash.  Configurations are numbered in the order the   *)
(* server makes them; a timestamp is the configuration it was written for. *)
(***************************************************************************)
EXTENDS Requests

CONSTANTS ConfigMax   \* bound: configurations the server ever has

Token == 1
Keys == {"token", "config"}

VARIABLES
    at,       \* where the start-up, later the core thread, is
    cache,    \* _as.cache: the text by key
    db,       \* the database: the text by key, and ts, DEV_ATTRI_CONFIG_TS
    refused,  \* the keys whose last write the database refused
    local,    \* modbus_attributes_init: config
    fetched,  \* check_config_update: new_config
    server    \* the server: its newest config, and if it provisioned us

attriVars == <<cache, db, refused, local, fetched, server>>

AttriInit == /\ cache = [k \in Keys |-> NULL]
             /\ db = [token |-> NULL, config |-> NULL, ts |-> NULL]
             /\ refused = {}
             /\ local = NULL
             /\ fetched = NULL
             /\ server = [config |-> 1, provisioned |-> FALSE]

\* mba_load_attribute without a default: the cache, or else the database.
Loaded(k) == IF cache[k] # NULL THEN cache[k] ELSE db[k]

\* The database takes a text or refuses it; no caller looks at the answer.
DbSave(k, text) == \/ db' = [db EXCEPT ![k] = text] /\ refused' = refused \ {k}
                   \/ db' = db /\ refused' = refused \cup {k}

\* Variant: the database is written, the cache is not.
SaveUncached(k, text) == /\ UNCHANGED cache
                         /\ DbSave(k, text)

\* mba_save_attribute: nothing if the cache holds this text already, even if
\* the database refused it; else the cache, then the database.
Save(k, text) == IF cache[k] = text
                   THEN UNCHANGED <<cache, db, refused>>
                   ELSE /\ cache' = [cache EXCEPT ![k] = text]
                        /\ DbSave(k, text)

----------------------------------------------------------------------------
(* modbus_attributes_init                                                  *)

\* A token in the database: load it, and the configuration if there is one.
InitToken == /\ at = "attributes"
             /\ Loaded("token") # NULL
             /\ cache' = [k \in Keys |-> Loaded(k)]
             /\ local' = Loaded("config")
             /\ at' = "wait"
             /\ UNCHANGED <<db, refused, fetched, server>>

\* No token: wait until the network is ONLINE, then ask for one.  The server
\* provisions a name once; a refusal, and an answer that does not arrive,
\* end modbus_attributes_init with -1, which mdc_attribute_update ignores.
InitProvision ==
    /\ at = "attributes"
    /\ Loaded("token") = NULL
    /\ \E reached \in BOOLEAN, answer \in DevProvision(Token) :
          /\ answer.rc = 0 => reached /\ ~server.provisioned
          /\ server' = [server EXCEPT !.provisioned = @ \/ reached]
          /\ at' = IF answer.rc < 0 THEN "setup" ELSE "save_token"
    /\ local' = NULL
    /\ UNCHANGED <<cache, db, refused, fetched>>

InitSaveToken == /\ at = "save_token"
                 /\ Save("token", Token)
                 /\ at' = "wait"
                 /\ UNCHANGED <<local, fetched, server>>

\* wait_for_ready returns at once (os/Linux) or when a ping ends
\* (os/RT-Thread); either way the state of the network is read again.
InitWait == /\ at = "wait"
            /\ at' = "check"
            /\ UNCHANGED attriVars

\* check_config_update, up to strcmp(new_config, config): a NULL new_config
\* ends the process, and so does a NULL config unless address 0 is readable.
Differs(answer) ==
    IF NULL \in {answer.body, local}
      THEN \/ at' = "dead"
           \/ answer.body # NULL /\ at' = "save_config"
      ELSE at' = IF answer.body = local THEN "setup" ELSE "save_config"

InitCheck ==
    /\ at = "check"
    /\ \E net \in NetStates, answer \in AttriUpdate(server.config) :
          /\ fetched' = answer.body
          /\ IF net = "ONLINE" /\ answer.rc >= 0
               THEN Differs(answer)
               ELSE at' = "setup"
    /\ UNCHANGED <<cache, db, refused, local, server>>

\* Variant: the timestamp is written before the text.
InitSaveTsFirst ==
    /\ at = "save_config"
    /\ IF db.ts # fetched
         THEN /\ db' = [db EXCEPT !.ts = fetched]
              /\ UNCHANGED <<at, cache, refused>>
         ELSE Save("config", fetched) /\ at' = "setup"
    /\ UNCHANGED <<local, fetched, server>>

InitSaveConfig == /\ at = "save_config"
                  /\ Save("config", fetched)
                  /\ at' = "save_ts"
                  /\ UNCHANGED <<local, fetched, server>>

InitSaveTs == /\ at = "save_ts"
              /\ db' \in {db, [db EXCEPT !.ts = fetched]}
              /\ at' = "setup"
              /\ UNCHANGED <<cache, refused, local, fetched, server>>

InitStep == \/ InitToken \/ InitProvision \/ InitSaveToken \/ InitWait
            \/ InitCheck \/ InitSaveConfig \/ InitSaveTs

----------------------------------------------------------------------------
Texts == Cut..ConfigMax

AttriType == /\ cache \in [Keys -> Texts]
             /\ db \in [token : 0..1, config : Texts, ts : Texts]
             /\ refused \subseteq Keys
             /\ local \in Texts /\ fetched \in Texts
             /\ server \in [config : 1..ConfigMax, provisioned : BOOLEAN]
=============================================================================
