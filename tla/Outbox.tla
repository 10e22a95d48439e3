------------------------------ MODULE Outbox -------------------------------
(***************************************************************************)
(* What the bulk service of MBT_bulk.c and check_do_bulk_service in        *)
(* MBT_core.c promise for dumped telemetry, wherever they keep it: a unit  *)
(* that is accepted waits until the server is given it, and is given to    *)
(* the server once.  Only a lossy outbox forgets units that wait, only a   *)
(* repeating one gives a unit to the server that has it.                   *)
(***************************************************************************)
CONSTANTS Unit          \* the units of telemetry

VARIABLES accepted,     \* the units dumped so far
          waiting,      \* the units held for the server
          sent, twice,  \* the units the server has, and has been given again
          lossy, repeating

outboxVars == <<accepted, waiting, sent, twice, lossy, repeating>>

Init == /\ accepted = {} /\ waiting = {} /\ sent = {} /\ twice = {}
        /\ lossy \in BOOLEAN /\ repeating \in BOOLEAN

Accept(units) == /\ units \cap accepted = {}
                 /\ accepted' = accepted \cup units
                 /\ waiting' = waiting \cup units
                 /\ UNCHANGED <<sent, twice, lossy, repeating>>

Give(units) == /\ units \subseteq waiting \cup sent
               /\ repeating \/ units \cap sent = {}
               /\ waiting' = waiting \ units
               /\ sent' = sent \cup units
               /\ twice' = twice \cup (units \cap sent)
               /\ UNCHANGED <<accepted, lossy, repeating>>

Forget(units) == /\ lossy
                 /\ waiting' = waiting \ units
                 /\ UNCHANGED <<accepted, sent, twice, lossy, repeating>>

Next == \E units \in SUBSET Unit : Accept(units) \/ Give(units) \/ Forget(units)

Spec == Init /\ [][Next]_outboxVars
=============================================================================
