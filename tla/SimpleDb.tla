------------------------------ MODULE SimpleDb ------------------------------
(***************************************************************************)
(* The database of the Linux build, core/src/MBT_simpleDb.c behind         *)
(* port/src/simpledb/portDB.c: a table of text pointers that every Put     *)
(* writes to a file of its own, renamed over the old one when complete.    *)
(* There is no lock between threads that save, the core thread and any     *)
(* callback that stores an attribute, and power can be lost anywhere.  A   *)
(* text is told apart by the Put that brought it and by its length; a file *)
(* is the sequence of the pieces of its items.                             *)
(***************************************************************************)
EXTENDS Integers, SequencesExt

CONSTANTS Threads,     \* the threads that save
          Size,        \* key_num_max
          Lengths,     \* the lengths of texts
          PutMax,      \* bound: texts put
          RestartMax   \* bound: power losses

ASSUME DbAssumption == /\ Size \in Nat \ {0} /\ Lengths \subseteq Nat \ {0}
                       /\ PutMax \in Nat /\ RestartMax \in Nat

VARIABLES array,      \* db->array
          inode,      \* the files ever created: their contents
          db, update, \* the file simple.db names, and simple.db.update
          thread,     \* convert_save of each thread, and its locals
          torn,       \* files begun on a leftover, renamed by another save than
                \* their own, or with a write cut short
          puts, restarts, dead

vars == <<array, inode, db, update, thread, torn, puts, restarts, dead>>

Keys == 0..(Size - 1)
NULL == [put |-> 0, length |-> 0]
Loaded == -1           \* a text that was in the file at the start
Junk == -2             \* what lies where a text was
Text == [put : {Loaded, Junk} \cup 1..PutMax, length : Lengths]

NoFile == 0
Table == <<<<0, Loaded, 0>>>>   \* a file with the keys parse_load looks for
Idle == [at |-> "idle", key |-> 0, put |-> 0, fd |-> NoFile, pos |-> 0, item |-> 0]

\* parse_load: the n-th item goes to slot n + 1, slot 0 stays NULL and the last
\* item goes past the array.  convert_save writes other keys, and each item
\* without its end, so what it wrote does not parse.
Load(content, slots) ==
    IF content = Table
      THEN /\ slots \in [Keys -> {NULL} \cup [put : {Loaded}, length : Lengths]]
           /\ \A k \in Keys : slots[k] = NULL <=> k = 0
      ELSE slots = [k \in Keys |-> NULL]

\* MBT_simpleDbInit: simple.db is created if it is not there.
Init == /\ \E content \in {<<>>, Table} :
              /\ inode = <<content>>
              /\ array \in [Keys -> {NULL} \cup Text] /\ Load(content, array)
        /\ db = 1 /\ update = NoFile
        /\ thread = [t \in Threads |-> Idle]
        /\ torn = {} /\ puts = 0 /\ restarts = 0 /\ dead = FALSE

----------------------------------------------------------------------------
\* Variant: one key too many.
KeyFitsLate(key) == key <= Size

KeyFits(key) == key < Size

\* MBT_simpleDbPut: the table gets the caller's pointer, then it is written.
Put(t, key) ==
    /\ thread[t].at = "idle" /\ puts < PutMax /\ KeyFits(key)
    /\ puts' = puts + 1
    /\ \E n \in Lengths : array' = [array EXCEPT ![key] = [put |-> puts + 1, length |-> n]]
    /\ thread' = [thread EXCEPT ![t] = [Idle EXCEPT !.at = "open", !.key = key,
                                                    !.put = puts + 1]]
    /\ UNCHANGED <<inode, db, update, torn, restarts, dead>>

Opened(t, file) == thread' = [thread EXCEPT ![t].at = "write", ![t].fd = file]

\* Variant: the database file itself is opened.
OpenDb(t) == /\ thread[t].at = "open"
             /\ Opened(t, db)
             /\ UNCHANGED <<array, inode, db, update, torn, puts, restarts, dead>>

\* O_CREAT without O_TRUNC: what an interrupted save left behind, or the file
\* another thread is writing, is written over from its start.
Open(t) ==
    /\ thread[t].at = "open"
    /\ IF update = NoFile
         THEN /\ inode' = Append(inode, <<>>)
              /\ update' = Len(inode) + 1
              /\ UNCHANGED torn
         ELSE /\ torn' = torn \cup {update}
              /\ UNCHANGED <<inode, update>>
    /\ Opened(t, update')
    /\ UNCHANGED <<array, db, puts, restarts, dead>>

\* The caller's buffer is gone when the save returns (a local array, a cJSON
\* tree), so the slot may hold anything from then on.  The result is -1, which
\* nobody looks at.
Return(t) ==
    /\ thread' = [thread EXCEPT ![t] = Idle]
    /\ \/ UNCHANGED array
       \/ LET key == thread[t].key
          IN /\ array[key].put = thread[t].put
             /\ \E n \in Lengths :
                   array' = [array EXCEPT ![key] = [put |-> Junk, length |-> n]]

OpenFail(t) == /\ thread[t].at = "open"
               /\ Return(t)
               /\ UNCHANGED <<inode, db, update, torn, puts, restarts, dead>>

\* The item of a text, as far as snprintf has room for it.
Item(key, text) == [i \in 1..text.length |-> <<key, text.put, i>>]

\* Pieces over the contents of a file, from a position on.
Overwritten(content, pos, pieces) ==
    SubSeq(content, 1, pos) \o pieces
        \o SubSeq(content, pos + Len(pieces) + 1, Len(content))

\* The next item of the table, as it is now.  The results of the writes are not
\* looked at: the end of an item may be missing.  strlen of a NULL slot ends
\* the process.
Write(t) ==
    /\ thread[t].at = "write"
    /\ LET me == thread[t]
           whole == Item(me.item, array[me.item])
       IN IF array[me.item] = NULL
            THEN dead' = TRUE /\ UNCHANGED <<inode, torn, thread>>
            ELSE \E n \in {Len(whole) - 1, Len(whole)} :
                   /\ inode' = [inode EXCEPT ![me.fd] =
                                   Overwritten(@, me.pos, SubSeq(whole, 1, n))]
                   /\ torn' = IF n < Len(whole) THEN torn \cup {me.fd} ELSE torn
                   /\ thread' = [thread EXCEPT
                         ![t].pos = @ + n, ![t].item = @ + 1,
                         ![t].at = IF me.item + 1 = Size THEN "rename" ELSE "write"]
                   /\ UNCHANGED dead
    /\ UNCHANGED <<array, db, update, puts, restarts>>

\* The new file takes the old one's name.  If another save has renamed it, there
\* is none, or it is the one that save is writing now.
Rename(t) ==
    /\ thread[t].at = "rename"
    /\ IF update = NoFile
         THEN UNCHANGED <<db, update, torn>>
         ELSE /\ db' = update /\ update' = NoFile
              /\ torn' = IF update = thread[t].fd THEN torn ELSE torn \cup {update}
    /\ Return(t)
    /\ UNCHANGED <<inode, puts, restarts, dead>>

\* Power is lost, or the process died; it starts again.
Restart == /\ restarts < RestartMax
           /\ restarts' = restarts + 1
           /\ thread' = [t \in Threads |-> Idle]
           /\ array' \in [Keys -> {NULL} \cup Text] /\ Load(inode[db], array')
           /\ dead' = FALSE
           /\ UNCHANGED <<inode, db, update, torn, puts>>

SaveStep(t) == Open(t) \/ OpenFail(t) \/ Write(t) \/ Rename(t)

Next == \/ /\ ~dead
           /\ \E t \in Threads : SaveStep(t) \/ \E key \in 0..Size : Put(t, key)
        \/ Restart

Spec == Init /\ [][Next]_vars

----------------------------------------------------------------------------
(* Properties                                                              *)

TypeOK == /\ array \in [Keys -> {NULL} \cup Text]
          /\ \A i \in DOMAIN inode : \A p \in ToSet(inode[i]) :
                p \in Keys \X ({Loaded, Junk} \cup 1..PutMax) \X Nat
          /\ db \in DOMAIN inode /\ update \in {NoFile} \cup DOMAIN inode
          /\ \A t \in Threads : /\ thread[t].at \in {"idle", "open", "write", "rename"}
                                /\ thread[t].key \in Keys /\ thread[t].item \in 0..Size
                                /\ thread[t].fd \in {NoFile} \cup DOMAIN inode
          /\ torn \subseteq DOMAIN inode
          /\ puts \in 0..PutMax /\ restarts \in 0..RestartMax /\ dead \in BOOLEAN

\* One item for each key, in order and complete, and nothing behind them.
Complete(content) ==
    \E texts \in [Keys -> Text] :
        content = FlattenSeq([k \in 1..Size |-> Item(k - 1, texts[k - 1])])

\* "first create a new file ... then, rename to overwrite the old file"
\* (MBT_simpleDb.c:57, :83): whenever power is lost, and whichever thread dies
\* on a NULL slot meanwhile, simple.db is the file of the start or a complete
\* table.  Not so a file begun on a leftover or by two threads at a time, one
\* that another save renamed before it was complete, or one of whose writes was
\* cut short.
FileWhole == db \in torn \/ inode[db] \in {<<>>, Table} \/ Complete(inode[db])
=============================================================================
