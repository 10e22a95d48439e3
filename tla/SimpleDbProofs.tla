--------------------------- MODULE SimpleDbProofs ---------------------------
(***************************************************************************)
(* What holds of the simple database for every number of keys and threads: *)
(* the types, and that simple.db is whole.  A file that no other save has  *)
(* touched grows by one complete item with every Write of the thread that  *)
(* created it, so it is complete when it is renamed.                       *)
(***************************************************************************)
EXTENDS SimpleDb, RecursionFacts

Pieces == Keys \X ({Loaded, Junk} \cup 1..PutMax) \X Nat

ThreadType == [at : {"idle", "open", "write", "rename"}, key : Keys, put : 0..PutMax,
               fd : Nat, pos : Nat, item : 0..Size]

DbType ==
    /\ array \in [Keys -> {NULL} \cup Text]
    /\ inode \in Seq(Seq(Pieces))
    /\ db \in 1..Len(inode) /\ update \in 0..Len(inode)
    /\ thread \in [Threads -> ThreadType]
    /\ \A t \in Threads : thread[t].fd \in 0..Len(inode)
    /\ torn \subseteq 1..Len(inode)
    /\ puts \in 0..PutMax /\ restarts \in 0..RestartMax /\ dead \in BOOLEAN

Saving(t) == thread[t].at \in {"write", "rename"}

\* A save begins with the first item, and one that writes has a file and has not
\* left its end behind.
InFile == \A t \in Threads :
    /\ thread[t].at = "open" => thread[t].pos = 0 /\ thread[t].item = 0
    /\ Saving(t) => /\ thread[t].fd # NoFile
                    /\ thread[t].pos <= Len(inode[thread[t].fd])
    /\ thread[t].at = "write" => thread[t].item < Size

\* Two saves in one file have torn it.
Alone == /\ update # db
         /\ \A t, u \in Threads :
               Saving(t) /\ Saving(u) /\ t # u /\ thread[t].fd = thread[u].fd
                  => thread[t].fd \in torn

\* The content is the first n items, each of them whole.
Begun(content, n) ==
    \E texts \in [0..(n - 1) -> Text] :
        content = FlattenSeq([k \in 1..n |-> Item(k - 1, texts[k - 1])])

\* What a save wrote to a file of its own is the items before the next one.
Ordered == \A t \in Threads : Saving(t) /\ thread[t].fd \notin torn =>
    /\ thread[t].fd = update
    /\ thread[t].pos = Len(inode[thread[t].fd])
    /\ thread[t].at = "rename" => thread[t].item = Size
    /\ Begun(inode[thread[t].fd], thread[t].item)

DbInv == DbType /\ InFile /\ Alone /\ Ordered /\ FileWhole

----------------------------------------------------------------------------
(* Contents of files                                                       *)

LEMMA KeysAre == /\ Size \in Nat \ {0} /\ Keys = 0..(Size - 1) /\ 0 \in Keys
                 /\ PutMax \in Nat /\ RestartMax \in Nat
BY DbAssumption DEF Keys

LEMMA ItemType ==
    ASSUME NEW key \in Keys, NEW text \in Text
    PROVE  /\ Item(key, text) \in Seq(Pieces)
           /\ Len(Item(key, text)) = text.length /\ text.length \in Nat \ {0}
<1>1. text.length \in Nat \ {0} /\ text.put \in {Loaded, Junk} \cup 1..PutMax
  BY DbAssumption DEF Text
<1>2. \A i \in 1..text.length : <<key, text.put, i>> \in Pieces
  BY <1>1 DEF Pieces
<1> QED
  BY <1>1, <1>2 DEF Item

\* What is written over the contents of a file leaves them as long at least.
LEMMA OverwrittenType ==
    ASSUME NEW content \in Seq(Pieces), NEW pieces \in Seq(Pieces),
           NEW pos \in Nat, pos <= Len(content)
    PROVE  /\ Overwritten(content, pos, pieces) \in Seq(Pieces)
           /\ Len(Overwritten(content, pos, pieces)) >= Len(content)
           /\ Len(Overwritten(content, pos, pieces)) >= pos + Len(pieces)
<1> DEFINE rest == SubSeq(content, pos + Len(pieces) + 1, Len(content))
           front == SubSeq(content, 1, pos)
<1>1. front \in Seq(Pieces) /\ Len(front) = pos
  OBVIOUS
<1>2. /\ rest \in Seq(Pieces)
      /\ Len(rest) = IF pos + Len(pieces) + 1 <= Len(content)
                       THEN Len(content) - (pos + Len(pieces)) ELSE 0
  OBVIOUS
<1>3. Overwritten(content, pos, pieces) = (front \o pieces) \o rest
  BY DEF Overwritten
<1> HIDE DEF front, rest
<1>4. front \o pieces \in Seq(Pieces) /\ Len(front \o pieces) = pos + Len(pieces)
  BY <1>1, ConcatProperties
<1>5. /\ (front \o pieces) \o rest \in Seq(Pieces)
      /\ Len((front \o pieces) \o rest) = Len(front \o pieces) + Len(rest)
  <2>1. \A a, b \in Seq(Pieces) : a \o b \in Seq(Pieces) /\ Len(a \o b) = Len(a) + Len(b)
    BY ConcatProperties
  <2> QED
    BY <1>2, <1>4, <2>1
<1>6. Len(content) \in Nat /\ Len(pieces) \in Nat /\ Len(rest) \in Nat
  BY <1>2
<1>7. /\ pos + Len(pieces) + Len(rest) >= Len(content)
      /\ pos + Len(pieces) + Len(rest) >= pos + Len(pieces)
  <2>1. \A c, p, r \in Nat : r = (IF pos + p + 1 <= c THEN c - (pos + p) ELSE 0)
                              => pos + p + r >= c /\ pos + p + r >= pos + p
    OBVIOUS
  <2> QED
    BY <1>2, <1>6, <2>1
<1> QED
  BY <1>3, <1>4, <1>5, <1>7

\* What is written at the end of a file is appended to it.
LEMMA OverwrittenEnd ==
    ASSUME NEW content \in Seq(Pieces), NEW pieces \in Seq(Pieces)
    PROVE  /\ Overwritten(content, Len(content), pieces) = content \o pieces
           /\ Len(content \o pieces) = Len(content) + Len(pieces)
<1>1. SubSeq(content, 1, Len(content)) = content
  OBVIOUS
<1>2. SubSeq(content, Len(content) + Len(pieces) + 1, Len(content)) = << >>
  OBVIOUS
<1>3. content \o pieces \in Seq(Pieces)
  OBVIOUS
<1>4. (content \o pieces) \o << >> = content \o pieces
  BY <1>3
<1>5. Overwritten(content, Len(content), pieces) = content \o pieces
  BY <1>1, <1>2, <1>4, Zenon DEF Overwritten
<1> QED
  BY <1>5, ConcatProperties

\* A new file holds no items, and is their beginning.
LEMMA BegunNone == Begun(<< >>, 0)
<1> DEFINE texts == [k \in 0..(0 - 1) |-> NULL]
<1>1. texts \in [0..(0 - 1) -> Text]
  OBVIOUS
<1>2. [k \in 1..0 |-> Item(k - 1, texts[k - 1])] = << >>
  OBVIOUS
<1> HIDE DEF texts
<1>3. FlattenSeq([k \in 1..0 |-> Item(k - 1, texts[k - 1])]) = << >>
  BY <1>2, FlattenEmpty
<1> QED
  BY <1>1, <1>3 DEF Begun

\* One whole item more, and it is the beginning still.
LEMMA BegunNext ==
    ASSUME NEW content, NEW n \in 0..(Size - 1), Begun(content, n), NEW text \in Text
    PROVE  Begun(content \o Item(n, text), n + 1)
<1>1. PICK texts \in [0..(n - 1) -> Text] :
        content = FlattenSeq([k \in 1..n |-> Item(k - 1, texts[k - 1])])
  BY DEF Begun
<1> DEFINE more == [k \in 0..((n + 1) - 1) |-> IF k = n THEN text ELSE texts[k]]
           items == [k \in 1..n |-> Item(k - 1, texts[k - 1])]
           new == [k \in 1..(n + 1) |-> Item(k - 1, more[k - 1])]
<1>2. more \in [0..((n + 1) - 1) -> Text]
  OBVIOUS
<1>3. n \in Nat /\ n \in Keys /\ \A k \in 1..n : k - 1 \in Keys /\ k - 1 \in 0..(n - 1)
  BY KeysAre
<1>4. Item(n, text) \in Seq(Pieces)
  BY <1>3, ItemType
<1>5. \A k \in 1..n : Item(k - 1, texts[k - 1]) \in Seq(Pieces)
  BY <1>3, ItemType
<1>6. items \in Seq(Seq(Pieces)) /\ Len(items) = n
  BY <1>3, <1>5
<1>7. new = Append(items, Item(n, text))
  <2>1. \A k \in 1..n : more[k - 1] = texts[k - 1]
    BY <1>3
  <2>2. more[(n + 1) - 1] = text /\ (n + 1) - 1 = n
    BY <1>3
  <2> HIDE DEF more
  <2>3. \A k \in 1..n : new[k] = items[k]
    BY <1>3, <2>1
  <2>4. new[n + 1] = Item(n, text)
    BY <1>3, <2>2
  <2>5. /\ Append(items, Item(n, text)) \in Seq(Seq(Pieces))
        /\ Len(Append(items, Item(n, text))) = n + 1
        /\ \A k \in 1..n : Append(items, Item(n, text))[k] = items[k]
        /\ Append(items, Item(n, text))[n + 1] = Item(n, text)
    <3> HIDE DEF items
    <3> QED
      BY <1>4, <1>6, AppendProperties
  <2>6. Len(new) = n + 1 /\ n + 1 \in Nat
    BY <1>3
  <2>7. new \in Seq(Seq(Pieces))
    <3>1. \A k \in 1..(n + 1) : more[k - 1] \in Text /\ k - 1 \in Keys
      BY <1>2, <1>3, KeysAre
    <3>2. \A k \in 1..(n + 1) : Item(k - 1, more[k - 1]) \in Seq(Pieces)
      BY <3>1, ItemType
    <3> QED
      BY <1>3, <3>2
  <2> HIDE DEF new, items
  <2>8. \A k \in 1..(n + 1) : new[k] = Append(items, Item(n, text))[k]
    <3>1. \A k \in 1..(n + 1) : k \in 1..n \/ k = n + 1
      BY <1>3
    <3> QED
      BY <2>3, <2>4, <2>5, <3>1
  <2> QED
    BY <2>5, <2>6, <2>7, <2>8, SeqEqual
<1> HIDE DEF items, new
<1>8. FlattenSeq(new) = FlattenSeq(items) \o Item(n, text)
  BY <1>4, <1>6, <1>7, FlattenSnoc
<1> HIDE DEF more
<1>9. content \o Item(n, text) = FlattenSeq(new)
  BY <1>1, <1>8 DEF items
<1> QED
  BY <1>2, <1>9 DEF Begun, new

\* The beginning with all items is complete.
LEMMA BegunAll ==
    ASSUME NEW content, Begun(content, Size)
    PROVE  Complete(content)
BY KeysAre DEF Begun, Complete

----------------------------------------------------------------------------
(* The initial states                                                      *)

LEMMA InitDbInv == Init => DbInv
<1> SUFFICES ASSUME Init PROVE DbInv
  OBVIOUS
<1>1. PICK content \in {<< >>, Table} :
        inode = <<content>> /\ array \in [Keys -> {NULL} \cup Text]
  BY DEF Init
<1>2. content \in Seq(Pieces)
  <2>1. <<0, Loaded, 0>> \in Pieces
    BY KeysAre DEF Pieces
  <2> HIDE DEF Pieces
  <2>2. \A p \in Pieces : <<p>> \in Seq(Pieces)
    OBVIOUS
  <2>3. Table \in Seq(Pieces)
    BY <2>1, <2>2 DEF Table
  <2>4. << >> \in Seq(Pieces)
    OBVIOUS
  <2> QED
    BY <1>1, <2>3, <2>4
<1>3. inode \in Seq(Seq(Pieces)) /\ Len(inode) = 1 /\ inode[1] = content
  BY <1>1, <1>2
<1>4. \A t \in Threads : thread[t] = Idle
  BY DEF Init
<1>5. Idle \in ThreadType /\ Idle.fd = 0 /\ Idle.at = "idle"
  BY KeysAre DEF Idle, ThreadType, NoFile
<1>6. DbType
  <2>1. thread \in [Threads -> ThreadType]
    BY <1>5 DEF Init
  <2> QED
    BY <1>1, <1>3, <1>4, <1>5, <2>1, KeysAre DEF Init, DbType, NoFile
<1>7. InFile /\ Ordered /\ Alone
  BY <1>4, <1>5 DEF InFile, Ordered, Alone, Saving, Init, NoFile
<1>8. FileWhole
  BY <1>1, <1>3 DEF Init, FileWhole
<1> QED
  BY <1>6, <1>7, <1>8 DEF DbInv

----------------------------------------------------------------------------
(* Steps                                                                   *)

\* What a thread that leaves a save does to the table and to itself.
LEMMA ReturnType ==
    ASSUME DbType, NEW t \in Threads, Return(t)
    PROVE  /\ array' \in [Keys -> {NULL} \cup Text]
           /\ thread' \in [Threads -> ThreadType]
           /\ thread' = [thread EXCEPT ![t] = Idle]
           /\ Idle.fd = NoFile /\ Idle.at = "idle"
<1>1. Idle \in ThreadType /\ Idle.fd = NoFile /\ Idle.at = "idle"
  BY KeysAre DEF Idle, ThreadType, NoFile
<1>2. array' \in [Keys -> {NULL} \cup Text]
  <2>1. thread[t].key \in Keys
    BY DEF DbType, ThreadType
  <2>2. \A n \in Lengths : [put |-> Junk, length |-> n] \in Text
    BY DEF Text
  <2> HIDE DEF Text
  <2>3. CASE UNCHANGED array
    BY <2>3 DEF DbType
  <2>4. CASE \E n \in Lengths :
               array' = [array EXCEPT ![thread[t].key] = [put |-> Junk, length |-> n]]
    BY <2>1, <2>2, <2>4 DEF DbType
  <2> QED
    BY <2>3, <2>4 DEF Return
<1> QED
  BY <1>1, <1>2 DEF Return, DbType

LEMMA PutDbInv ==
    ASSUME DbInv, NEW t \in Threads, NEW key \in 0..Size, Put(t, key)
    PROVE  DbInv'
<1>1. key \in Keys /\ puts + 1 \in 1..PutMax /\ puts' = puts + 1
  BY KeysAre DEF Put, KeyFits, DbInv, DbType
<1>2. PICK me : /\ me = [Idle EXCEPT !.at = "open", !.key = key, !.put = puts + 1]
                /\ thread' = [thread EXCEPT ![t] = me]
  BY DEF Put
<1>3. /\ me \in ThreadType
      /\ me.at = "open" /\ me.fd = NoFile /\ me.pos = 0 /\ me.item = 0
  <2>1. me = [at |-> "open", key |-> key, put |-> puts + 1, fd |-> NoFile,
              pos |-> 0, item |-> 0]
    BY <1>2 DEF Idle
  <2>2. NoFile \in Nat /\ 0 \in 0..Size /\ puts + 1 \in 0..PutMax
    BY <1>1, KeysAre DEF NoFile
  <2> QED
    BY <1>1, <2>1, <2>2 DEF ThreadType
<1>4. \A u \in Threads : u # t => thread'[u] = thread[u]
  BY <1>2 DEF DbInv, DbType
<1>5. thread'[t] = me /\ thread' \in [Threads -> ThreadType]
  BY <1>2, <1>3 DEF DbInv, DbType
<1>6. UNCHANGED <<inode, db, update, torn, restarts, dead>>
  BY DEF Put
<1>7. array' \in [Keys -> {NULL} \cup Text]
  BY <1>1 DEF Put, Text, DbInv, DbType
<1>8. DbType'
  <2>1. puts' \in 0..PutMax
    BY <1>1, KeysAre
  <2>2. \A u \in Threads : thread'[u].fd \in 0..Len(inode)
    <3>1. Len(inode) \in Nat /\ \A u \in Threads : thread[u].fd \in 0..Len(inode)
      BY DEF DbInv, DbType
    <3> QED
      BY <1>3, <1>4, <1>5, <3>1 DEF NoFile
  <2> QED
    BY <1>5, <1>6, <1>7, <2>1, <2>2 DEF DbInv, DbType
<1>9. ~ Saving(t)' /\ \A u \in Threads : u # t => (Saving(u)' <=> Saving(u))
  BY <1>3, <1>4, <1>5 DEF Saving
<1>10. InFile'
  BY <1>3, <1>4, <1>5, <1>6, <1>9 DEF DbInv, InFile
<1>11. Alone'
  BY <1>4, <1>6, <1>9 DEF DbInv, Alone
<1>12. Ordered'
  BY <1>4, <1>6, <1>9 DEF DbInv, Ordered
<1>13. FileWhole'
  BY <1>6 DEF DbInv, FileWhole
<1> QED
  BY <1>8, <1>10, <1>11, <1>12, <1>13 DEF DbInv

LEMMA OpenDbInv ==
    ASSUME DbInv, NEW t \in Threads, Open(t)
    PROVE  DbInv'
<1> USE DEF NoFile
<1>1. UNCHANGED <<array, db, puts, restarts, dead>>
  BY DEF Open
<1>2. PICK me : /\ me = [thread[t] EXCEPT !.at = "write", !.fd = update']
                /\ thread' = [thread EXCEPT ![t] = me]
  BY DEF Open, Opened
<1>3. \A u \in Threads : u # t => thread'[u] = thread[u]
  BY <1>2 DEF DbInv, DbType
<1>4. thread'[t] = me
  BY <1>2 DEF DbInv, DbType
<1>5. thread[t] \in ThreadType /\ thread[t].at = "open"
  BY DEF DbInv, DbType, Open
<1>6. /\ me.at = "write" /\ me.fd = update' /\ me.pos = 0 /\ me.item = 0
      /\ update' \in Nat => me \in ThreadType
  BY <1>2, <1>5 DEF DbInv, InFile, ThreadType
<1>7. \A u \in Threads : u # t => (Saving(u)' <=> Saving(u))
  BY <1>3 DEF Saving
<1>8. /\ inode \in Seq(Seq(Pieces)) /\ Len(inode) \in Nat
      /\ db \in 1..Len(inode) /\ update \in 0..Len(inode)
      /\ \A u \in Threads : thread[u].fd \in 0..Len(inode)
      /\ torn \subseteq 1..Len(inode)
  BY DEF DbInv, DbType
<1>9. CASE update = NoFile
  <2>1. /\ inode' = Append(inode, << >>) /\ update' = Len(inode) + 1
        /\ torn' = torn
    BY <1>9 DEF Open
  <2>2. /\ inode' \in Seq(Seq(Pieces)) /\ Len(inode') = Len(inode) + 1
        /\ \A i \in 1..Len(inode) : inode'[i] = inode[i]
        /\ inode'[Len(inode) + 1] = << >>
    BY <1>8, <2>1
  <2>3. DbType'
    <3>1. thread' \in [Threads -> ThreadType]
      BY <1>2, <1>6, <1>8, <2>1 DEF DbInv, DbType
    <3>2. \A u \in Threads : thread'[u].fd \in 0..Len(inode')
      BY <1>3, <1>4, <1>6, <1>8, <2>1, <2>2
    <3> QED
      BY <1>1, <1>8, <2>1, <2>2, <3>1, <3>2 DEF DbInv, DbType
  <2>4. InFile'
    <3> SUFFICES ASSUME NEW u \in Threads
                 PROVE  /\ thread'[u].at = "open" => thread'[u].pos = 0 /\ thread'[u].item = 0
                        /\ Saving(u)' => /\ thread'[u].fd # NoFile
                                         /\ thread'[u].pos <= Len(inode'[thread'[u].fd])
                        /\ thread'[u].at = "write" => thread'[u].item < Size
      BY DEF InFile, Saving
    <3>1. CASE u = t
      BY <1>4, <1>6, <2>1, <2>2, <3>1, <1>8, KeysAre
    <3>2. CASE u # t
      <4>1. thread[u].fd # NoFile => inode'[thread[u].fd] = inode[thread[u].fd]
        <5>1. thread[u].fd \in 0..Len(inode) /\ Len(inode) \in Nat
          BY <1>8
        <5>2. thread[u].fd # NoFile => thread[u].fd \in 1..Len(inode)
          BY <5>1
        <5> QED
          BY <2>2, <5>2
      <4> QED
        BY <1>3, <1>7, <3>2, <4>1 DEF DbInv, InFile
    <3> QED
      BY <3>1, <3>2
  <2>5. Alone'
    <3>1. update' # db'
      BY <1>1, <1>8, <2>1
    <3>2. ASSUME NEW u \in Threads, NEW v \in Threads, u # v, Saving(u)', Saving(v)',
                 thread'[u].fd = thread'[v].fd
          PROVE  thread'[u].fd \in torn'
      <4>1. \A w \in Threads : w # t => thread'[w].fd # Len(inode) + 1
        BY <1>3, <1>8
      <4>2. u # t /\ v # t
        BY <1>4, <1>6, <2>1, <3>2, <4>1
      <4> QED
        BY <1>3, <1>7, <2>1, <3>2, <4>2 DEF DbInv, Alone
    <3> QED
      BY <3>1, <3>2 DEF Alone, Saving
  <2>6. Ordered'
    <3> SUFFICES ASSUME NEW u \in Threads, Saving(u)', thread'[u].fd \notin torn'
                 PROVE  /\ thread'[u].fd = update'
                        /\ thread'[u].pos = Len(inode'[thread'[u].fd])
                        /\ thread'[u].at = "rename" => thread'[u].item = Size
                        /\ Begun(inode'[thread'[u].fd], thread'[u].item)
      BY DEF Ordered, Saving
    <3>1. CASE u = t
      BY <1>4, <1>6, <2>1, <2>2, <3>1, BegunNone
    <3>2. u = t
      <4>1. SUFFICES ASSUME u # t PROVE FALSE
        OBVIOUS
      <4>2. Saving(u) /\ thread[u].fd \notin torn
        BY <1>3, <1>7, <2>1, <4>1
      <4>3. thread[u].fd = NoFile
        BY <1>9, <4>2 DEF DbInv, Ordered
      <4> QED
        BY <4>2, <4>3 DEF DbInv, InFile
    <3> QED
      BY <3>1, <3>2
  <2>7. FileWhole'
    BY <1>1, <1>8, <2>1, <2>2 DEF DbInv, FileWhole
  <2> QED
    BY <2>3, <2>4, <2>5, <2>6, <2>7 DEF DbInv
<1>10. CASE update # NoFile
  <2>1. torn' = torn \cup {update} /\ inode' = inode /\ update' = update
    BY <1>10 DEF Open
  <2>2. DbType'
    <3>1. thread' \in [Threads -> ThreadType]
      BY <1>2, <1>6, <1>8, <2>1 DEF DbInv, DbType
    <3>2. \A u \in Threads : thread'[u].fd \in 0..Len(inode)
      BY <1>3, <1>4, <1>6, <1>8, <2>1
    <3>3. torn' \subseteq 1..Len(inode)
      BY <1>8, <1>10, <2>1
    <3> QED
      BY <1>1, <1>8, <2>1, <3>1, <3>2, <3>3 DEF DbInv, DbType
  <2>3. InFile'
    <3>1. 0 <= Len(inode[update])
      BY <1>8, <1>10
    <3> SUFFICES ASSUME NEW u \in Threads
                 PROVE  /\ thread'[u].at = "open" => thread'[u].pos = 0 /\ thread'[u].item = 0
                        /\ Saving(u)' => /\ thread'[u].fd # NoFile
                                         /\ thread'[u].pos <= Len(inode'[thread'[u].fd])
                        /\ thread'[u].at = "write" => thread'[u].item < Size
      BY DEF InFile, Saving
    <3>2. CASE u = t
      BY <1>4, <1>6, <1>10, <2>1, <3>1, <3>2, KeysAre
    <3>3. CASE u # t
      BY <1>3, <1>7, <2>1, <3>3 DEF DbInv, InFile
    <3> QED
      BY <3>2, <3>3
  <2>4. Alone'
    <3>1. update' # db'
      BY <1>1, <2>1 DEF DbInv, Alone
    <3>2. ASSUME NEW u \in Threads, NEW v \in Threads, u # v, Saving(u)', Saving(v)',
                 thread'[u].fd = thread'[v].fd
          PROVE  thread'[u].fd \in torn'
      <4>1. CASE u = t \/ v = t
        BY <1>4, <1>6, <2>1, <3>2, <4>1
      <4>2. CASE u # t /\ v # t
        BY <1>3, <1>7, <2>1, <3>2, <4>2 DEF DbInv, Alone
      <4> QED
        BY <4>1, <4>2
    <3> QED
      BY <3>1, <3>2 DEF Alone, Saving
  <2>5. Ordered'
    <3> SUFFICES ASSUME NEW u \in Threads, Saving(u)', thread'[u].fd \notin torn'
                 PROVE  /\ thread'[u].fd = update'
                        /\ thread'[u].pos = Len(inode'[thread'[u].fd])
                        /\ thread'[u].at = "rename" => thread'[u].item = Size
                        /\ Begun(inode'[thread'[u].fd], thread'[u].item)
      BY DEF Ordered, Saving
    <3>1. u # t
      BY <1>4, <1>6, <2>1
    <3> QED
      BY <1>3, <1>7, <2>1, <3>1 DEF DbInv, Ordered
  <2>6. FileWhole'
    BY <1>1, <2>1 DEF DbInv, FileWhole
  <2> QED
    BY <2>2, <2>3, <2>4, <2>5, <2>6 DEF DbInv
<1> QED
  BY <1>9, <1>10

LEMMA OpenFailDbInv ==
    ASSUME DbInv, NEW t \in Threads, OpenFail(t)
    PROVE  DbInv'
<1>1. UNCHANGED <<inode, db, update, torn, puts, restarts, dead>> /\ Return(t)
  BY DEF OpenFail
<1>2. /\ array' \in [Keys -> {NULL} \cup Text]
      /\ thread' \in [Threads -> ThreadType]
      /\ thread' = [thread EXCEPT ![t] = Idle]
      /\ Idle.fd = NoFile /\ Idle.at = "idle"
  BY <1>1, ReturnType DEF DbInv
<1>3. /\ thread'[t] = Idle
      /\ \A u \in Threads : u # t => thread'[u] = thread[u]
  BY <1>2 DEF DbInv, DbType
<1>4. /\ Len(inode) \in Nat
      /\ \A u \in Threads : thread'[u].fd \in 0..Len(inode)
  BY <1>2, <1>3 DEF DbInv, DbType, NoFile
<1>5. DbType'
  BY <1>1, <1>2, <1>4 DEF DbInv, DbType
<1>6. ~ Saving(t)' /\ \A u \in Threads : u # t => (Saving(u)' <=> Saving(u))
  BY <1>2, <1>3 DEF Saving
<1>7. InFile'
  BY <1>1, <1>2, <1>3, <1>6 DEF DbInv, InFile
<1>8. Alone'
  BY <1>1, <1>3, <1>6 DEF DbInv, Alone
<1>9. Ordered'
  BY <1>1, <1>3, <1>6 DEF DbInv, Ordered
<1>10. FileWhole'
  BY <1>1 DEF DbInv, FileWhole
<1> QED
  BY <1>5, <1>7, <1>8, <1>9, <1>10 DEF DbInv

\* A renamed file is complete, or torn.
LEMMA RenameDbInv ==
    ASSUME DbInv, NEW t \in Threads, Rename(t)
    PROVE  DbInv'
<1>1. UNCHANGED <<inode, puts, restarts, dead>> /\ Return(t) /\ thread[t].at = "rename"
  BY DEF Rename
<1>2. /\ array' \in [Keys -> {NULL} \cup Text]
      /\ thread' \in [Threads -> ThreadType]
      /\ thread' = [thread EXCEPT ![t] = Idle]
      /\ Idle.fd = NoFile /\ Idle.at = "idle"
  BY <1>1, ReturnType DEF DbInv
<1>3. /\ thread'[t] = Idle
      /\ \A u \in Threads : u # t => thread'[u] = thread[u]
  BY <1>2 DEF DbInv, DbType
<1>4. /\ Len(inode) \in Nat /\ NoFile = 0
      /\ \A u \in Threads : thread'[u].fd \in 0..Len(inode)
      /\ db \in 1..Len(inode) /\ update \in 0..Len(inode)
      /\ torn \subseteq 1..Len(inode)
  BY <1>2, <1>3 DEF DbInv, DbType, NoFile
<1>5. ~ Saving(t)' /\ \A u \in Threads : u # t => (Saving(u)' <=> Saving(u))
  BY <1>2, <1>3 DEF Saving
<1>6. torn \subseteq torn' /\ torn' \subseteq 1..Len(inode)
  <2>1. update # NoFile => update \in 1..Len(inode)
    BY <1>4
  <2>2. \/ torn' = torn
        \/ update # NoFile /\ torn' = torn \cup {update}
    BY DEF Rename
  <2> QED
    BY <1>4, <2>1, <2>2
<1>7. DbType'
  <2>1. db' \in 1..Len(inode) /\ update' \in 0..Len(inode)
    BY <1>4 DEF Rename
  <2> QED
    BY <1>1, <1>2, <1>4, <1>6, <2>1 DEF DbInv, DbType
<1>8. InFile'
  BY <1>1, <1>2, <1>3, <1>5 DEF DbInv, InFile
<1>9. Alone'
  <2>1. update' # db'
    BY <1>4 DEF DbInv, Alone, Rename
  <2>2. ASSUME NEW u \in Threads, NEW v \in Threads, u # v, Saving(u)', Saving(v)',
               thread'[u].fd = thread'[v].fd
        PROVE  thread'[u].fd \in torn'
    <3>1. u # t /\ v # t
      BY <1>5, <2>2
    <3> QED
      BY <1>3, <1>5, <1>6, <2>2, <3>1 DEF DbInv, Alone
  <2> QED
    BY <2>1, <2>2 DEF Alone, Saving
\* The others that write have a file that is torn, or the one they wrote was
\* not renamed.
<1>10. Ordered'
  <2> SUFFICES ASSUME NEW u \in Threads, Saving(u)', thread'[u].fd \notin torn'
               PROVE  /\ thread'[u].fd = update'
                      /\ thread'[u].pos = Len(inode'[thread'[u].fd])
                      /\ thread'[u].at = "rename" => thread'[u].item = Size
                      /\ Begun(inode'[thread'[u].fd], thread'[u].item)
    BY DEF Ordered, Saving
  <2>1. u # t /\ Saving(u) /\ thread[u].fd \notin torn /\ thread'[u] = thread[u]
    BY <1>3, <1>5, <1>6
  <2>2. /\ thread[u].fd = update
        /\ thread[u].pos = Len(inode[thread[u].fd])
        /\ thread[u].at = "rename" => thread[u].item = Size
        /\ Begun(inode[thread[u].fd], thread[u].item)
    BY <2>1 DEF DbInv, Ordered
  <2>3. update # NoFile
    BY <2>1, <2>2 DEF DbInv, InFile
  <2>4. update = thread[t].fd
    BY <2>1, <2>2, <2>3 DEF Rename
  <2>5. thread[u].fd \in torn
    BY <1>1, <2>1, <2>2, <2>4 DEF DbInv, Alone, Saving
  <2> QED
    BY <2>1, <2>5
<1>11. FileWhole'
  <2>1. CASE update = NoFile
    BY <1>1, <2>1 DEF DbInv, FileWhole, Rename
  <2>2. CASE update # NoFile /\ update # thread[t].fd
    BY <2>2 DEF FileWhole, Rename
  <2>3. CASE update # NoFile /\ update = thread[t].fd /\ update \in torn
    BY <1>6, <2>3 DEF FileWhole, Rename
  <2>4. CASE update # NoFile /\ update = thread[t].fd /\ update \notin torn
    <3>1. Saving(t)
      BY <1>1 DEF Saving
    <3>2. thread[t].item = Size /\ Begun(inode[update], thread[t].item)
      BY <1>1, <2>4, <3>1 DEF DbInv, Ordered
    <3>3. Complete(inode[update]) /\ db' = update
      BY <2>4, <3>2, BegunAll DEF Rename
    <3> QED
      BY <1>1, <3>3 DEF FileWhole
  <2> QED
    BY <2>1, <2>2, <2>3, <2>4
<1> QED
  BY <1>7, <1>8, <1>9, <1>10, <1>11 DEF DbInv

\* A write that is cut short tears the file, and one that is not appends a whole
\* item to a file of its own.
LEMMA WriteDbInv ==
    ASSUME DbInv, NEW t \in Threads, Write(t)
    PROVE  DbInv'
<1> DEFINE me == thread[t]
           whole == Item(me.item, array[me.item])
           old == inode[me.fd]
<1>1. /\ UNCHANGED <<array, db, update, puts, restarts>>
      /\ me.at = "write" /\ me \in ThreadType
  BY DEF Write, DbInv, DbType
<1>2. CASE array[me.item] = NULL
  <2>1. /\ dead' = TRUE /\ UNCHANGED <<inode, torn, thread>>
    BY <1>2 DEF Write
  <2>2. DbType'
    BY <1>1, <2>1 DEF DbInv, DbType
  <2> QED
    BY <1>1, <2>1, <2>2 DEF DbInv, InFile, Alone, Ordered, FileWhole, Saving
<1>3. CASE array[me.item] # NULL
  <2>1. /\ Saving(t) /\ me.item \in 0..(Size - 1) /\ me.item \in Keys
        /\ me.pos \in Nat /\ me.item + 1 \in 0..Size /\ Size \in Nat
    BY <1>1, KeysAre DEF DbInv, InFile, ThreadType, Saving
  <2>2. /\ Len(inode) \in Nat /\ me.fd \in 1..Len(inode)
        /\ old \in Seq(Pieces) /\ me.pos <= Len(old)
    <3>1. me.fd # NoFile /\ me.fd \in 0..Len(inode) /\ Len(inode) \in Nat
      BY <2>1 DEF DbInv, DbType, InFile
    <3>2. me.fd \in 1..Len(inode)
      BY <3>1 DEF NoFile
    <3>3. old \in Seq(Pieces)
      BY <3>2 DEF DbInv, DbType
    <3> QED
      BY <2>1, <3>1, <3>2, <3>3 DEF DbInv, InFile
  <2>3. array[me.item] \in Text
    BY <1>3, <2>1 DEF DbInv, DbType
  <2>4. /\ whole \in Seq(Pieces) /\ Len(whole) \in Nat \ {0}
    BY <2>1, <2>3, ItemType
  <2>5. PICK n \in {Len(whole) - 1, Len(whole)} :
          /\ inode' = [inode EXCEPT ![me.fd] = Overwritten(@, me.pos, SubSeq(whole, 1, n))]
          /\ torn' = IF n < Len(whole) THEN torn \cup {me.fd} ELSE torn
          /\ thread' = [thread EXCEPT
                ![t].pos = @ + n, ![t].item = @ + 1,
                ![t].at = IF me.item + 1 = Size THEN "rename" ELSE "write"]
          /\ UNCHANGED dead
    BY <1>3 DEF Write
  <2> DEFINE part == SubSeq(whole, 1, n)
             new == Overwritten(old, me.pos, part)
             mine == [me EXCEPT !.pos = @ + n, !.item = @ + 1,
                        !.at = IF me.item + 1 = Size THEN "rename" ELSE "write"]
  <2>6. n \in Nat /\ part \in Seq(Pieces) /\ Len(part) = n
    <3>1. n \in 0..Len(whole)
      BY <2>4
    <3> HIDE DEF whole
    <3> QED
      BY <2>4, <3>1
  <2>7. new \in Seq(Pieces) /\ Len(new) >= Len(old) /\ Len(new) >= me.pos + n
    <3> HIDE DEF part, old, me
    <3> QED
      BY <2>1, <2>2, <2>6, OverwrittenType
  <2>8. /\ inode' = [inode EXCEPT ![me.fd] = new]
        /\ inode' \in Seq(Seq(Pieces)) /\ Len(inode') = Len(inode)
        /\ inode'[me.fd] = new
        /\ \A i \in 1..Len(inode) : i # me.fd => inode'[i] = inode[i]
        /\ \A i \in 1..Len(inode) : Len(inode'[i]) >= Len(inode[i])
    <3>1. inode' = [inode EXCEPT ![me.fd] = new]
      BY <2>5
    <3>2. inode \in Seq(Seq(Pieces))
      BY DEF DbInv, DbType
    <3>3. \A i \in 1..Len(inode) : inode[i] \in Seq(Pieces) /\ Len(inode[i]) \in Nat
      BY <3>2
    <3> HIDE DEF new, me
    <3>4. /\ inode' \in Seq(Seq(Pieces)) /\ Len(inode') = Len(inode)
          /\ \A i \in 1..Len(inode) : inode'[i] = IF i = me.fd THEN new ELSE inode[i]
      BY <2>2, <2>7, <3>1, <3>2, ExceptSeq
    <3> QED
      BY <2>2, <2>7, <3>1, <3>3, <3>4
  <2>9. thread' = [thread EXCEPT ![t] = mine]
    BY <2>5
  <2>10. /\ thread'[t] = mine
         /\ \A u \in Threads : u # t => thread'[u] = thread[u]
    BY <2>9 DEF DbInv, DbType
  <2>11. /\ mine \in ThreadType
         /\ mine.fd = me.fd /\ mine.pos = me.pos + n /\ mine.item = me.item + 1
         /\ mine.at \in {"write", "rename"}
         /\ mine.at = "rename" => mine.item = Size
         /\ mine.at = "write" => mine.item < Size
    <3>1. PICK at \in {"write", "rename"} :
            at = IF me.item + 1 = Size THEN "rename" ELSE "write"
      OBVIOUS
    <3>2. PICK pos \in Nat : pos = me.pos + n
      BY <2>1, <2>6
    <3>3. PICK item \in 0..Size : item = me.item + 1
      BY <2>1
    <3>4. me \in ThreadType /\ mine = [me EXCEPT !.pos = pos, !.item = item, !.at = at]
      BY <1>1, <3>1, <3>2, <3>3
    <3> HIDE DEF me, mine
    <3>5. /\ me.key \in Keys /\ me.put \in 0..PutMax /\ me.fd \in Nat
          /\ me = [at |-> me.at, key |-> me.key, put |-> me.put, fd |-> me.fd,
                   pos |-> me.pos, item |-> me.item]
      BY <3>4 DEF ThreadType
    <3>6. mine = [at |-> at, key |-> me.key, put |-> me.put, fd |-> me.fd,
                  pos |-> pos, item |-> item]
      BY <3>4, <3>5
    <3>7. /\ mine \in ThreadType /\ mine.fd = me.fd
          /\ mine.pos = pos /\ mine.item = item /\ mine.at = at
      BY <3>1, <3>2, <3>3, <3>5, <3>6 DEF ThreadType
    <3>8. me.item + 1 # Size => me.item + 1 < Size
      BY <2>1
    <3> QED
      BY <3>1, <3>2, <3>3, <3>7, <3>8
  <2> HIDE DEF mine, new, part, whole
  <2>12. DbType'
    BY <1>1, <2>2, <2>5, <2>8, <2>9, <2>10, <2>11 DEF DbInv, DbType
  <2>13. \A u \in Threads : (Saving(u)' <=> Saving(u)) /\ thread'[u].fd = thread[u].fd
    BY <2>1, <2>10, <2>11 DEF Saving
  <2>14. torn \subseteq torn'
    BY <2>5
  <2>15. InFile'
    <3> SUFFICES ASSUME NEW u \in Threads
                 PROVE  /\ thread'[u].at = "open" => thread'[u].pos = 0 /\ thread'[u].item = 0
                        /\ Saving(u)' => /\ thread'[u].fd # NoFile
                                         /\ thread'[u].pos <= Len(inode'[thread'[u].fd])
                        /\ thread'[u].at = "write" => thread'[u].item < Size
      BY DEF InFile, Saving
    <3>1. CASE u = t
      <4>1. /\ thread'[u].at \in {"write", "rename"} /\ thread'[u].fd = me.fd
            /\ thread'[u].pos = me.pos + n
            /\ thread'[u].at = "write" => thread'[u].item < Size
        BY <2>10, <2>11, <3>1
      <4>2. me.fd # NoFile
        BY <2>2 DEF NoFile
      <4>3. me.pos + n <= Len(inode'[me.fd])
        BY <2>7, <2>8
      <4> HIDE DEF me, old
      <4> QED
        BY <4>1, <4>2, <4>3
    <3>2. CASE u # t
      <4>1. ASSUME Saving(u) PROVE thread[u].pos <= Len(inode'[thread[u].fd])
        <5>1. /\ thread[u].fd # NoFile /\ thread[u].fd \in 0..Len(inode)
              /\ thread[u].pos <= Len(inode[thread[u].fd]) /\ thread[u].pos \in Nat
          BY <4>1 DEF DbInv, InFile, DbType, ThreadType
        <5>2. thread[u].fd \in 1..Len(inode)
          BY <2>2, <5>1 DEF NoFile
        <5>3. /\ Len(inode[thread[u].fd]) \in Nat /\ Len(inode'[thread[u].fd]) \in Nat
              /\ Len(inode'[thread[u].fd]) >= Len(inode[thread[u].fd])
          BY <2>8, <5>2 DEF DbInv, DbType
        <5> QED
          BY <5>1, <5>3
      <4> QED
        BY <2>10, <2>13, <3>2, <4>1 DEF DbInv, InFile
    <3> QED
      BY <3>1, <3>2
  <2>16. Alone'
    BY <1>1, <2>13, <2>14 DEF DbInv, Alone
  <2>17. Ordered'
    <3> SUFFICES ASSUME NEW u \in Threads, Saving(u)', thread'[u].fd \notin torn'
                 PROVE  /\ thread'[u].fd = update'
                        /\ thread'[u].pos = Len(inode'[thread'[u].fd])
                        /\ thread'[u].at = "rename" => thread'[u].item = Size
                        /\ Begun(inode'[thread'[u].fd], thread'[u].item)
      BY DEF Ordered, Saving
    <3>1. /\ Saving(u) /\ thread[u].fd \notin torn
          /\ thread[u].fd = update
          /\ thread[u].pos = Len(inode[thread[u].fd])
          /\ thread[u].at = "rename" => thread[u].item = Size
          /\ Begun(inode[thread[u].fd], thread[u].item)
      BY <2>13, <2>14 DEF DbInv, Ordered
    <3>2. CASE u = t
      <4>1. n = Len(whole)
        BY <2>4, <2>5, <2>10, <2>11, <3>2
      <4>2. part = whole
        BY <2>4, <4>1, SubSeqFull DEF part
      <4>3. me.pos = Len(old) /\ Begun(old, me.item)
        BY <3>1, <3>2
      <4>4. new = old \o whole /\ Len(old \o whole) = Len(old) + Len(whole)
        BY <2>2, <2>4, <4>2, <4>3, OverwrittenEnd DEF new
      <4>5. Begun(old \o whole, me.item + 1)
        BY <2>1, <2>3, <4>3, BegunNext DEF whole
      <4> QED
        BY <1>1, <2>8, <2>10, <2>11, <3>1, <3>2, <4>1, <4>3, <4>4, <4>5
    <3>3. CASE u # t
      <4>1. thread[u].fd # me.fd
        BY <2>1, <3>1, <3>3 DEF DbInv, Alone
      <4>2. thread[u].fd \in 1..Len(inode)
        BY <2>2, <3>1 DEF DbInv, InFile, DbType, NoFile
      <4>3. inode'[thread[u].fd] = inode[thread[u].fd]
        BY <2>8, <4>1, <4>2
      <4> QED
        BY <1>1, <2>10, <3>1, <3>3, <4>3
    <3> QED
      BY <3>2, <3>3
\* Who writes to simple.db itself has torn it: its update is another file.
  <2>18. FileWhole'
    <3>1. db \in 1..Len(inode) /\ update # db
      BY DEF DbInv, DbType, Alone
    <3>2. CASE db = me.fd
      <4>1. me.fd \in torn
        BY <2>1, <3>1, <3>2 DEF DbInv, Ordered
      <4> QED
        BY <1>1, <2>14, <3>2, <4>1 DEF FileWhole
    <3>3. CASE db # me.fd
      BY <1>1, <2>8, <2>14, <3>1, <3>3 DEF DbInv, FileWhole
    <3> QED
      BY <3>2, <3>3
  <2> QED
    BY <2>12, <2>15, <2>16, <2>17, <2>18 DEF DbInv
<1> QED
  BY <1>2, <1>3

LEMMA RestartDbInv ==
    ASSUME DbInv, Restart
    PROVE  DbInv'
<1>1. /\ UNCHANGED <<inode, db, update, torn, puts>> /\ dead' = FALSE
      /\ restarts' = restarts + 1 /\ restarts < RestartMax
      /\ array' \in [Keys -> {NULL} \cup Text]
      /\ thread' = [u \in Threads |-> Idle]
  BY DEF Restart
<1>2. Idle \in ThreadType /\ Idle.fd = 0 /\ Idle.at = "idle"
  BY KeysAre DEF Idle, ThreadType, NoFile
<1>3. \A u \in Threads : thread'[u] = Idle /\ ~ Saving(u)'
  BY <1>1, <1>2 DEF Saving
<1>4. DbType'
  <2>1. restarts' \in 0..RestartMax
    BY <1>1, KeysAre DEF DbInv, DbType
  <2>2. Len(inode) \in Nat /\ 0 \in 0..Len(inode)
    BY DEF DbInv, DbType
  <2>3. thread' \in [Threads -> ThreadType]
    BY <1>1, <1>2
  <2> QED
    BY <1>1, <1>2, <1>3, <2>1, <2>2, <2>3 DEF DbInv, DbType
<1>5. InFile' /\ Alone' /\ Ordered'
  BY <1>1, <1>2, <1>3 DEF DbInv, InFile, Alone, Ordered
<1>6. FileWhole'
  BY <1>1 DEF DbInv, FileWhole
<1> QED
  BY <1>4, <1>5, <1>6 DEF DbInv

LEMMA StepDbInv ==
    ASSUME DbInv, [Next]_vars
    PROVE  DbInv'
<1>1. CASE UNCHANGED vars
  <2>1. DbType'
    BY <1>1 DEF DbInv, DbType, vars
  <2> QED
    BY <1>1, <2>1 DEF DbInv, InFile, Alone, Ordered, FileWhole, Saving, vars
<1>2. CASE Restart
  BY <1>2, RestartDbInv
<1>3. ASSUME NEW t \in Threads, SaveStep(t) \/ \E key \in 0..Size : Put(t, key)
      PROVE  DbInv'
  BY <1>3, OpenDbInv, OpenFailDbInv, WriteDbInv, RenameDbInv, PutDbInv DEF SaveStep
<1> QED
  BY <1>1, <1>2, <1>3 DEF Next

----------------------------------------------------------------------------
(* Theorems                                                                *)

\* The pieces of every file are pieces of items, the files that the names and
\* the threads refer to were created, and a slot holds NULL or a text.
THEOREM DbTypeCorrect == Spec => []TypeOK
<1>1. DbInv => TypeOK
  <2> SUFFICES ASSUME DbInv PROVE TypeOK
    OBVIOUS
  <2>1. DOMAIN inode = 1..Len(inode) /\ Len(inode) \in Nat
    BY DEF DbInv, DbType
  <2>2. \A k \in 0..Len(inode) : k \in {NoFile} \cup 1..Len(inode)
    BY <2>1 DEF NoFile
  <2>3. \A i \in DOMAIN inode : \A p \in ToSet(inode[i]) : p \in Pieces
    <3> SUFFICES ASSUME NEW i \in DOMAIN inode, NEW p \in ToSet(inode[i])
                 PROVE  p \in Pieces
      OBVIOUS
    <3>1. inode[i] \in Seq(Pieces)
      BY <2>1 DEF DbInv, DbType
    <3>2. PICK j \in DOMAIN inode[i] : p = inode[i][j]
      BY DEF ToSet
    <3> QED
      BY <3>1, <3>2
  <2> QED
    BY <2>1, <2>2, <2>3 DEF DbInv, DbType, TypeOK, ThreadType, Pieces
<1> QED
  BY <1>1, InitDbInv, StepDbInv, PTL DEF Spec

\* simple.db is the file of the start or has every item, in order and complete,
\* whatever threads save at a time and whenever power is lost, unless it was torn
\* (MBT_simpleDb.c:57-89).
THEOREM FileAlwaysWhole == Spec => []FileWhole
<1>1. DbInv => FileWhole
  BY DEF DbInv
<1> QED
  BY <1>1, InitDbInv, StepDbInv, PTL DEF Spec
=============================================================================
