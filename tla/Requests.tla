----------------------------- MODULE Requests ------------------------------
(***************************************************************************)
(* What the core sees of the network: get_net_state of os/Linux,           *)
(* httpclient_request of port/src/libcurl and the requests to the          *)
(* ThingsBoard server of port/src/ThingsBoard.  A text is NULL, Cut (the   *)
(* beginning of a body whose transfer broke off) or a positive number.     *)
(***************************************************************************)
EXTENDS Integers

NULL == 0
Cut == -1

\* get_net_state asks the resolver for the server's address: a positive
\* error code falls through both tests and counts as online.
NetState(rc) == CASE rc = "EAI_AGAIN" -> "OFFLINE"
                  [] rc = "negative"  -> "UNKNOWN"
                  [] OTHER            -> "ONLINE"

NetStates == {NetState(rc) : rc \in {"zero", "positive", "EAI_AGAIN", "negative"}}

\* The results of httpclient_request when the server would answer text: curl
\* cannot start (CURLE_FAILED_INIT is positive and leaves *response alone),
\* no memory, no answer or a status other than 200, the whole text, or a
\* status 200 whose body breaks off (a positive curl code, not replaced).
Response(text) == {[rc |-> 2, body |-> NULL], [rc |-> -2, body |-> NULL],
                   [rc |-> -1, body |-> NULL], [rc |-> 0, body |-> text],
                   [rc |-> 18, body |-> Cut]}

\* service_attri_update hands both on; -1 if the uri does not fit.
AttriUpdate(text) == Response(text) \cup {[rc |-> -1, body |-> NULL]}

\* service_dev_provision: only a negative rc is an error, and parse_token
\* takes a token out of a complete answer of status SUCCESS.  "Content-Length"
\* and "Content-Type" never reach the request: the list that
\* httpclient_request_header_add extends is its own copy of the pointer.
DevProvision(token) ==
    {[rc |-> IF r.rc >= 0 /\ r.body \notin {NULL, Cut} THEN 0 ELSE -1,
      token |-> IF r.rc >= 0 /\ r.body # Cut THEN r.body ELSE NULL] :
        r \in Response(token)}
=============================================================================
