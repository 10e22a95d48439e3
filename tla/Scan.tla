------------------------------- MODULE Scan --------------------------------
(***************************************************************************)
(* The Modbus scan of core/src/MBT_scan.c: operators on the node list      *)
(* mds_scan_t.head.  A configuration is represented by its number; it      *)
(* names Width(c) input register ranges, or is a text that mds_parse_scan  *)
(* cannot use.  A node is one range of one configuration and what its      *)
(* value buffer holds: nothing yet, registers of this pass or of an older  *)
(* one.                                                                    *)
(***************************************************************************)
EXTENDS Integers, Sequences

CONSTANTS Usable   \* the configurations with a mb_config object

Width(c) == c      \* configuration c names c ranges

Node(c, i) == [range |-> <<c, i>>, stat |-> "ok", value |-> "unset"]

\* Variant: a new node goes to the end of the list.
LinkLast(list, node) == Append(list, node)

\* parse_input_reg_config links a new node: first in an empty list, else as
\* the successor of the head, whatever followed the head before.
Link(list, node) == IF list = <<>> THEN <<node>> ELSE <<list[1], node>>

\* The list once the first n ranges of c were linked: all of them, or less
\* when calloc fails.  clear_all_scan_node removes nothing before.
Linked(list, c, n) ==
    LET linked[i \in 0..n] ==
            IF i = 0 THEN list ELSE Link(linked[i - 1], Node(c, i))
    IN linked[n]

\* mds_parse_scan: a text without JSON or mb_config leaves the list alone.
\* The result of the range parser is ignored.
Parsed(list, c) == IF c \in Usable
                     THEN {Linked(list, c, n) : n \in 0..Width(c)}
                     ELSE {list}

\* One pass of mds_scan in which the reads of the nodes ok succeed.  A value
\* that is not read stays what it was, stat always tells of this pass.
Aged(value) == IF value = "unset" THEN "unset" ELSE "old"

\* Variant: a failed read leaves the node's stat alone.
ScannedKeepStat(list, ok) ==
    [i \in DOMAIN list |->
        [range |-> list[i].range,
         stat |-> IF i \in ok THEN "ok" ELSE list[i].stat,
         value |-> IF i \in ok THEN "new" ELSE Aged(list[i].value)]]

Scanned(list, ok) ==
    [i \in DOMAIN list |->
        [range |-> list[i].range,
         stat |-> IF i \in ok THEN "ok" ELSE "fail",
         value |-> IF i \in ok THEN "new" ELSE Aged(list[i].value)]]

\* What mds_scan returns: 0 if a node has MB_SCAN_SUCCESS, else -1.
ScanResult(list) == IF \E i \in DOMAIN list : list[i].stat = "ok" THEN 0 ELSE -1

\* mds_merge_result: -1 if cJSON has no memory; else 0, and the text only
\* replaces a result that is not NULL already.
Merged(result) == {[rc |-> -1, result |-> result],
                   [rc |-> 0, result |-> IF result = "NULL" THEN "NULL" ELSE "text"]}

NodeType == [range : Usable \X Nat, stat : {"ok", "fail"},
             value : {"unset", "old", "new"}]
=============================================================================
