--------------------------- MODULE UplinkProofs ----------------------------
(***************************************************************************)
(* Proofs about Uplink, for any number of messages and any sizes of queue  *)
(* and cache: who owns a message, that none is published or dumped out of  *)
(* order, or both, and what a short write can leave in a file.             *)
(***************************************************************************)
EXTENDS Uplink, SequenceTheorems, TLAPS

(***************************************************************************)
(* Sequences of messages                                                   *)
(***************************************************************************)
\* A later message at the end keeps a sequence increasing.
LEMMA Appended ==
    ASSUME NEW s \in Seq(Msgs), NEW x \in Msgs
    PROVE  /\ Append(s, x) \in Seq(Msgs)
           /\ Len(Append(s, x)) = Len(s) + 1
           /\ ToSet(Append(s, x)) = ToSet(s) \cup {x}
           /\ Increasing(s) /\ (\A e \in ToSet(s) : e < x) => Increasing(Append(s, x))
<1>1. /\ Append(s, x) \in Seq(Msgs) /\ Len(Append(s, x)) = Len(s) + 1
      /\ \A i \in 1..Len(s) : Append(s, x)[i] = s[i]
      /\ Append(s, x)[Len(s) + 1] = x
  BY AppendProperties
<1>2. /\ DOMAIN s = 1..Len(s) /\ Len(s) \in Nat
      /\ DOMAIN Append(s, x) = 1..(Len(s) + 1)
  BY <1>1
<1>3. 1..(Len(s) + 1) = (1..Len(s)) \cup {Len(s) + 1}
  BY <1>2
<1>4. ToSet(Append(s, x)) = ToSet(s) \cup {x}
  BY <1>1, <1>2, <1>3 DEF ToSet
<1>5. ASSUME Increasing(s), \A e \in ToSet(s) : e < x PROVE Increasing(Append(s, x))
  <2> SUFFICES ASSUME NEW i \in 1..(Len(s) + 1), NEW j \in 1..(Len(s) + 1), i < j
               PROVE  Append(s, x)[i] < Append(s, x)[j]
    BY <1>2 DEF Increasing
  <2>1. i \in 1..Len(s) /\ Append(s, x)[i] = s[i]
    BY <1>1, <1>2
  <2>2. CASE j = Len(s) + 1
    BY <1>1, <1>2, <1>5, <2>1, <2>2 DEF ToSet
  <2>3. CASE j \in 1..Len(s)
    BY <1>1, <1>2, <1>5, <2>1, <2>3 DEF Increasing
  <2> QED
    BY <1>3, <2>2, <2>3
<1> QED
  BY <1>1, <1>4, <1>5

\* The first message and the rest.
LEMMA FirstAndRest ==
    ASSUME NEW s \in Seq(Msgs), s # <<>>
    PROVE  /\ Tail(s) \in Seq(Msgs) /\ Head(s) \in Msgs /\ Len(Tail(s)) < Len(s)
           /\ ToSet(s) = {Head(s)} \cup ToSet(Tail(s))
           /\ Increasing(s) => Increasing(Tail(s)) /\ \A e \in ToSet(Tail(s)) : Head(s) < e
<1>1. /\ Tail(s) \in Seq(Msgs) /\ Head(s) = s[1] /\ Len(s) \in Nat \ {0}
      /\ Len(Tail(s)) = Len(s) - 1
      /\ \A i \in 1..(Len(s) - 1) : Tail(s)[i] = s[i + 1]
  OBVIOUS
<1>2. DOMAIN s = 1..Len(s) /\ DOMAIN Tail(s) = 1..(Len(s) - 1) /\ s[1] \in Msgs
  BY <1>1
<1>3. ToSet(s) \subseteq {Head(s)} \cup ToSet(Tail(s))
  <2> SUFFICES ASSUME NEW i \in 1..Len(s) PROVE s[i] \in {Head(s)} \cup ToSet(Tail(s))
    BY <1>2 DEF ToSet
  <2>1. CASE i = 1
    BY <1>1, <2>1
  <2>2. CASE i # 1
    <3>1. i - 1 \in 1..(Len(s) - 1) /\ s[(i - 1) + 1] = s[i]
      BY <1>1, <2>2
    <3> QED
      BY <1>1, <1>2, <3>1 DEF ToSet
  <2> QED
    BY <2>1, <2>2
<1>4. {Head(s)} \cup ToSet(Tail(s)) \subseteq ToSet(s)
  <2>1. \A i \in 1..(Len(s) - 1) : i + 1 \in 1..Len(s)
    BY <1>1
  <2> QED
    BY <1>1, <1>2, <2>1 DEF ToSet
<1>5. ASSUME Increasing(s)
      PROVE  Increasing(Tail(s)) /\ \A e \in ToSet(Tail(s)) : Head(s) < e
  <2>1. \A i \in 1..(Len(s) - 1) : Tail(s)[i] = s[i + 1] /\ i + 1 \in 1..Len(s) /\ 1 < i + 1
    BY <1>1
  <2>2. \A i \in 1..(Len(s) - 1) : Head(s) < Tail(s)[i]
    BY <1>1, <1>2, <1>5, <2>1 DEF Increasing
  <2>3. \A i, j \in 1..(Len(s) - 1) : i < j => Tail(s)[i] < Tail(s)[j]
    BY <1>1, <1>2, <1>5, <2>1 DEF Increasing
  <2> QED
    BY <1>2, <2>2, <2>3 DEF Increasing, ToSet
<1> QED
  BY <1>1, <1>2, <1>3, <1>4, <1>5

\* The first n messages of the queue and the others.
LEMMA Split ==
    ASSUME queue \in Seq(Msgs), NEW n \in 0..Len(queue)
    PROVE  /\ Oldest(n) \in Seq(Msgs) /\ Newer(n) \in Seq(Msgs)
           /\ Len(Oldest(n)) = n /\ Len(Newer(n)) = Len(queue) - n
           /\ ToSet(queue) = ToSet(Oldest(n)) \cup ToSet(Newer(n))
           /\ Increasing(queue) => /\ Increasing(Oldest(n)) /\ Increasing(Newer(n))
                                   /\ \A e \in ToSet(Oldest(n)), u \in ToSet(Newer(n)) : e < u
<1> DEFINE old == Oldest(n) new == Newer(n) len == Len(queue)
<1>1. len \in Nat /\ DOMAIN queue = 1..len /\ n \in Nat /\ n <= len
  OBVIOUS
<1>2. old \in Seq(Msgs) /\ Len(old) = n /\ DOMAIN old = 1..n /\ \A i \in 1..n : old[i] = queue[i]
  BY <1>1 DEF Oldest
<1>3. new \in Seq(Msgs) /\ Len(new) = len - n /\ DOMAIN new = 1..(len - n)
  <2>1. n + 1 \in 1..(len + 1) /\ len \in n..len /\ \A i \in (n + 1)..len : i \in 1..len
    BY <1>1
  <2>2. /\ new \in Seq(Msgs)
        /\ Len(new) = IF n + 1 <= len THEN len - (n + 1) + 1 ELSE 0
    BY <1>1, <2>1, SubSeqProperties DEF Newer
  <2>3. Len(new) = len - n
    <3>1. CASE n + 1 <= len
      <4>1. Len(new) = len - (n + 1) + 1
        BY <2>2, <3>1
      <4> HIDE DEF len, new
      <4> QED
        BY <1>1, <4>1
    <3>2. CASE ~(n + 1 <= len)
      <4>1. Len(new) = 0
        BY <2>2, <3>2, Zenon
      <4> HIDE DEF len, new
      <4> QED
        BY <1>1, <3>2, <4>1
    <3> QED
      BY <3>1, <3>2
  <2> QED
    BY <2>2, <2>3
<1>4. \A i \in 1..(len - n) : new[i] = queue[i + n] /\ i + n \in (n + 1)..len
  BY <1>1 DEF Newer
<1>5. ToSet(queue) \subseteq ToSet(old) \cup ToSet(new)
  <2> SUFFICES ASSUME NEW i \in 1..len PROVE queue[i] \in ToSet(old) \cup ToSet(new)
    BY <1>1 DEF ToSet
  <2>1. CASE i <= n
    <3>1. i \in 1..n
      BY <1>1, <2>1
    <3> QED
      BY <1>2, <3>1 DEF ToSet
  <2>2. CASE n < i
    <3>1. i - n \in 1..(len - n) /\ (i - n) + n = i
      BY <1>1, <2>2
    <3>2. new[i - n] = queue[i]
      BY <1>4, <3>1
    <3> QED
      BY <1>3, <3>1, <3>2 DEF ToSet
  <2> QED
    BY <1>1, <2>1, <2>2
<1>6. ToSet(old) \cup ToSet(new) \subseteq ToSet(queue)
  <2>1. 1..n \subseteq 1..len /\ (n + 1)..len \subseteq 1..len
    BY <1>1
  <2> QED
    BY <1>1, <1>2, <1>3, <1>4, <2>1 DEF ToSet
<1>7. ASSUME Increasing(queue)
      PROVE  /\ Increasing(old) /\ Increasing(new)
             /\ \A e \in ToSet(old), u \in ToSet(new) : e < u
  <2>1. 1..n \subseteq 1..len /\ (n + 1)..len \subseteq 1..len
    BY <1>1
  <2>2. Increasing(old)
    BY <1>1, <1>2, <1>7, <2>1 DEF Increasing
  <2>3. \A i, j \in 1..(len - n) : i < j => i + n < j + n
    BY <1>1
  <2>4. Increasing(new)
    BY <1>1, <1>3, <1>4, <1>7, <2>1, <2>3 DEF Increasing
  <2>5. \A i \in 1..n, j \in 1..(len - n) : i < j + n
    BY <1>1
  <2>6. \A i \in 1..n, j \in 1..(len - n) : old[i] < new[j]
    BY <1>1, <1>2, <1>4, <1>7, <2>1, <2>5 DEF Increasing
  <2> QED
    BY <1>2, <1>3, <2>2, <2>4, <2>6 DEF ToSet
<1> QED
  BY <1>2, <1>3, <1>5, <1>6, <1>7

\* One sequence after another.
LEMMA Joined ==
    ASSUME NEW s \in Seq(Msgs), NEW u \in Seq(Msgs)
    PROVE  /\ s \o u \in Seq(Msgs) /\ Len(s \o u) = Len(s) + Len(u)
           /\ ToSet(s \o u) = ToSet(s) \cup ToSet(u)
           /\ /\ Increasing(s) /\ Increasing(u)
              /\ \A e \in ToSet(s), d \in ToSet(u) : e < d
              => Increasing(s \o u)
<1>1. /\ s \o u \in Seq(Msgs) /\ Len(s \o u) = Len(s) + Len(u)
      /\ Len(s) \in Nat /\ Len(u) \in Nat
      /\ DOMAIN s = 1..Len(s) /\ DOMAIN u = 1..Len(u)
      /\ DOMAIN (s \o u) = 1..(Len(s) + Len(u))
  BY ConcatProperties
<1>2. \A i \in 1..(Len(s) + Len(u)) :
         (s \o u)[i] = IF i <= Len(s) THEN s[i] ELSE u[i - Len(s)]
  BY ConcatProperties
<1>3. \A i \in 1..(Len(s) + Len(u)) : \/ i \in 1..Len(s) /\ (s \o u)[i] = s[i]
                                      \/ /\ i > Len(s) /\ i - Len(s) \in 1..Len(u)
                                         /\ (s \o u)[i] = u[i - Len(s)]
  BY <1>1, <1>2
<1>4. ToSet(s \o u) \subseteq ToSet(s) \cup ToSet(u)
  BY <1>1, <1>3 DEF ToSet
<1>5. ToSet(s) \subseteq ToSet(s \o u)
  <2>1. \A i \in 1..Len(s) : i \in 1..(Len(s) + Len(u)) /\ (s \o u)[i] = s[i]
    BY <1>1, <1>2
  <2> QED
    BY <1>1, <2>1 DEF ToSet
<1>6. ToSet(u) \subseteq ToSet(s \o u)
  <2>1. \A i \in 1..Len(u) : /\ i + Len(s) \in 1..(Len(s) + Len(u))
                             /\ ~(i + Len(s) <= Len(s)) /\ (i + Len(s)) - Len(s) = i
    BY <1>1
  <2>2. \A i \in 1..Len(u) : (s \o u)[i + Len(s)] = u[i]
    BY <1>2, <2>1
  <2> QED
    BY <1>1, <2>1, <2>2 DEF ToSet
<1>7. ASSUME Increasing(s), Increasing(u), \A e \in ToSet(s), d \in ToSet(u) : e < d
      PROVE  Increasing(s \o u)
  <2> SUFFICES ASSUME NEW i \in 1..(Len(s) + Len(u)), NEW j \in 1..(Len(s) + Len(u)), i < j
               PROVE  (s \o u)[i] < (s \o u)[j]
    BY <1>1 DEF Increasing
  <2>1. CASE j \in 1..Len(s) /\ (s \o u)[j] = s[j]
    <3>1. i \in 1..Len(s) /\ (s \o u)[i] = s[i]
      BY <1>1, <1>2, <2>1
    <3> QED
      BY <1>1, <1>7, <2>1, <3>1 DEF Increasing
  <2>2. CASE j > Len(s) /\ j - Len(s) \in 1..Len(u) /\ (s \o u)[j] = u[j - Len(s)]
    <3>1. CASE i \in 1..Len(s) /\ (s \o u)[i] = s[i]
      BY <1>1, <1>7, <2>2, <3>1 DEF ToSet
    <3>2. CASE i > Len(s) /\ i - Len(s) \in 1..Len(u) /\ (s \o u)[i] = u[i - Len(s)]
      <4>1. i - Len(s) < j - Len(s)
        BY <1>1
      <4> QED
        BY <1>1, <1>7, <2>2, <3>2, <4>1 DEF Increasing
    <3> QED
      BY <1>3, <3>1, <3>2
  <2> QED
    BY <1>3, <2>1, <2>2
<1> QED
  BY <1>1, <1>4, <1>5, <1>6, <1>7

(***************************************************************************)
(* The inductive invariant                                                 *)
(***************************************************************************)
Filed == files \o cache

\* A thread has a message exactly at the places where it uses one; with
\* mqttclient nobody gets past a dump.
Places == /\ core.at = "scan" <=> core.tt = None
          /\ sender.at \in {"publish", "free"} <=> sender.tt # None
          /\ core.at = "retry" /\ port = "mqttclient" => locked
          /\ core.at = "save" => port = "mymqtt"

\* Oldest first: the sender's message, those in the queue, the core thread's.
HeldOrder == /\ Increasing(queue)
             /\ \A m \in ToSet(queue) : m <= made /\ sender.tt < m
             /\ core.tt # None => \A m \in ToSet(queue) : m < core.tt
             /\ core.tt # None => sender.tt < core.tt
             /\ core.tt <= made /\ sender.tt <= made

\* What has been sent is older than all that can still be sent.
SentOrder == /\ Increasing(delivered)
             /\ \A d \in ToSet(delivered) :
                   /\ d <= made
                   /\ \A m \in ToSet(queue) : d < m
                   /\ core.tt # None => d < core.tt
                   /\ sender.at = "publish" => d < sender.tt

\* What has been cached or filed is older than all that can still be dumped,
\* and is neither sent nor about to be; nothing else was written short.
FiledOrder == /\ Increasing(Filed)
              /\ \A f \in ToSet(Filed) :
                    /\ f <= made
                    /\ \A m \in ToSet(queue) : f < m
                    /\ core.tt # None => f < core.tt
                    /\ f # sender.tt /\ f \notin ToSet(delivered)
              /\ cut \subseteq ToSet(Filed)

UInv == /\ TypeOK /\ Places /\ HeldOrder /\ SentOrder /\ FiledOrder
        /\ TextOwned /\ NodeOwned /\ DumpKept

USE DEF None, memory, bulk

LEMMA NothingInEmpty == ToSet(<<>>) = {} /\ Increasing(<<>>) /\ <<>> \in Seq(Msgs)
  BY DEF ToSet, Increasing

LEMMA InitUInv == Init => UInv
<1> SUFFICES ASSUME Init PROVE UInv
  OBVIOUS
<1>1. TypeOK
  <2>1. core \in [at : {"scan", "push", "dump", "save", "retry"}, tt : Holder]
    BY DEF Init, Idle, Holder
  <2>2. sender \in [at : {"test", "recv", "publish", "free"}, tt : Holder]
    BY DEF Init, Listening, Holder
  <2>3. text \in Blocks /\ node \in Blocks
    BY DEF Init, Blocks
  <2>4. /\ <<>> \in Seq(Msgs) /\ Len(<<>>) = 0 /\ {} \subseteq Msgs
        /\ 0 \in 0..MsgMax /\ 0 <= QueueMax /\ 0 <= CacheMax
    BY UplinkAssumption
  <2> QED
    BY <2>1, <2>2, <2>3, <2>4 DEF Init, TypeOK
<1>2. Places /\ core.tt = None /\ sender.tt = None
  BY DEF Init, Places, Idle, Listening
<1>3. Filed = <<>>
  BY DEF Init, Filed
<1>4. HeldOrder /\ SentOrder /\ FiledOrder
  BY <1>2, <1>3, NothingInEmpty DEF Init, HeldOrder, SentOrder, FiledOrder
<1>5. Held = {}
  BY <1>2, NothingInEmpty DEF Init, Held
<1>6. TextOwned /\ NodeOwned
  BY <1>5 DEF Init, TextOwned, NodeOwned
<1>7. DumpKept
  BY <1>3, NothingInEmpty DEF Init, DumpKept, Filed
<1> QED
  BY <1>1, <1>2, <1>4, <1>6, <1>7 DEF UInv

\* What the steps of one thread need to know of the other's message.
LEMMA Facts ==
    ASSUME UInv
    PROVE  /\ queue \in Seq(Msgs) /\ ToSet(queue) \subseteq Msgs
           /\ core.tt \in Holder /\ sender.tt \in Holder
           /\ text \in Blocks /\ node \in Blocks /\ made \in 0..MsgMax
           /\ core = [at |-> core.at, tt |-> core.tt]
           /\ sender = [at |-> sender.at, tt |-> sender.tt]
<1>1. queue \in Seq(Msgs)
  BY DEF UInv, TypeOK
<1>2. \A i \in DOMAIN queue : queue[i] \in Msgs
  BY <1>1
<1>3. ToSet(queue) \subseteq Msgs
  BY <1>2 DEF ToSet
<1> QED
  BY <1>1, <1>3 DEF UInv, TypeOK

\* The messages of the sequences are messages.
LEMMA MsgSets ==
    ASSUME UInv
    PROVE  /\ delivered \in Seq(Msgs) /\ ToSet(delivered) \subseteq Msgs
           /\ cache \in Seq(Msgs) /\ files \in Seq(Msgs)
           /\ Filed \in Seq(Msgs) /\ ToSet(Filed) \subseteq Msgs
<1>1. \A s \in Seq(Msgs) : ToSet(s) \subseteq Msgs
  <2> SUFFICES ASSUME NEW s \in Seq(Msgs) PROVE ToSet(s) \subseteq Msgs
    OBVIOUS
  <2>1. \A i \in DOMAIN s : s[i] \in Msgs
    OBVIOUS
  <2> QED
    BY <2>1 DEF ToSet
<1>2. delivered \in Seq(Msgs) /\ cache \in Seq(Msgs) /\ files \in Seq(Msgs)
  BY DEF UInv, TypeOK
<1>3. Filed \in Seq(Msgs)
  BY <1>2, Joined DEF Filed
<1> QED
  BY <1>1, <1>2, <1>3

\* A set of messages that nobody holds any longer is released.
LEMMA Forgotten ==
    ASSUME UInv, NEW set, set \subseteq Held, Held' = Held \ set, port' = port
    PROVE  /\ text' = Freed(text, set) => text' \in Blocks
           /\ node' = Freed(node, set) => node' \in Blocks
           /\ text' = Freed(text, set) =>
                 \A m \in Msgs : text'[m] = "live" <=> m \in Held'
           /\ node' = Freed(node, set) /\ port = "mqttclient" =>
                 \A m \in Msgs : node'[m] = "live" <=> m \in Held'
           /\ ~misused /\ \A m \in set \cap Msgs : text[m] = "live"
<1>1. text \in Blocks /\ node \in Blocks
  BY DEF UInv, TypeOK
<1>2. \A blocks \in Blocks : /\ Freed(blocks, set) \in Blocks
                             /\ \A m \in Msgs : Freed(blocks, set)[m] =
                                                   IF m \in set THEN "freed" ELSE blocks[m]
  BY DEF Freed, Blocks
<1>3. /\ ~misused /\ \A m \in Msgs : text[m] = "live" <=> m \in Held
      /\ port = "mqttclient" => \A m \in Msgs : node[m] = "live" <=> m \in Held
  BY DEF UInv, TextOwned, NodeOwned
<1>4. \A m \in set \cap Msgs : text[m] = "live"
  BY <1>3
<1>5. text' = Freed(text, set) => \A m \in Msgs : text'[m] = "live" <=> m \in Held'
  BY <1>1, <1>2, <1>3
<1>6. node' = Freed(node, set) /\ port = "mqttclient" =>
         \A m \in Msgs : node'[m] = "live" <=> m \in Held'
  BY <1>1, <1>2, <1>3
<1> QED
  BY <1>1, <1>2, <1>3, <1>4, <1>5, <1>6

\* The same for Release, which frees the telemetry_t with mqttclient only.
LEMMA Released ==
    ASSUME UInv, NEW set, set \subseteq Held \cap Msgs, Held' = Held \ set, port' = port,
           Release(set)
    PROVE  text' \in Blocks /\ node' \in Blocks /\ ~misused' /\ TextOwned' /\ NodeOwned'
<1>1. /\ text' = Freed(text, set)
      /\ port = "mqttclient" => node' = Freed(node, set)
      /\ port # "mqttclient" => node' = node
      /\ misused' = (misused \/ \E m \in set : text[m] # "live")
  BY DEF Release
<1>2. text' \in Blocks /\ node' \in Blocks
  BY <1>1, Forgotten, Facts
<1>3. ~misused /\ \A m \in set : text[m] = "live"
  BY Forgotten
<1>4. ~misused'
  BY <1>1, <1>3
<1> QED
  BY <1>1, <1>2, <1>4, Forgotten DEF TextOwned, NodeOwned

(***************************************************************************)
(* The steps of the core thread                                            *)
(***************************************************************************)
LEMMA MakeKeeps == UInv /\ Make => UInv'
<1> SUFFICES ASSUME UInv, Make PROVE UInv'
  OBVIOUS
<1> DEFINE new == made + 1
<1>1. /\ core.at = "scan" /\ core.tt = None /\ core'.at = "push" /\ core'.tt = new
      /\ core' = [at |-> "push", tt |-> new]
      /\ made' = new /\ new \in Msgs /\ made \in Nat /\ made < new /\ new \in 0..MsgMax
  BY UplinkAssumption, Facts DEF Make, UInv, Places, Msgs
<1>2. UNCHANGED <<port, online, queue, locked, sender, misused, files, cut, cache, dumped, delivered>>
  BY DEF Make
<1>3. /\ ToSet(queue) \subseteq 1..made /\ sender.tt <= made
      /\ ToSet(delivered) \subseteq Int /\ \A d \in ToSet(delivered) : d <= made
      /\ ToSet(Filed) \subseteq Int /\ \A f \in ToSet(Filed) : f <= made
  <2>1. ToSet(queue) \subseteq Msgs /\ \A m \in ToSet(queue) : m <= made
    BY Facts DEF UInv, HeldOrder
  <2> QED
    BY <2>1, MsgSets DEF UInv, HeldOrder, SentOrder, FiledOrder, Msgs
<1>4. Held' = Held \cup {new} /\ new \notin Held
  BY <1>1, <1>2, <1>3, Facts DEF Held, Holder
<1>5. TypeOK'
  <2>1. text' \in Blocks /\ node' \in Blocks
    BY <1>1, Facts DEF Make, Blocks
  <2>2. core' \in [at : {"scan", "push", "dump", "save", "retry"}, tt : Holder]
    BY <1>1 DEF Holder
  <2> QED
    BY <1>1, <1>2, <2>1, <2>2 DEF UInv, TypeOK
<1>6. Places'
  BY <1>1, <1>2 DEF UInv, Places, Msgs
<1>7. HeldOrder'
  BY <1>1, <1>2, <1>3, Facts DEF UInv, HeldOrder, Holder, Msgs
<1>8. SentOrder'
  BY <1>1, <1>2, <1>3 DEF UInv, SentOrder
<1>9. FiledOrder'
  BY <1>1, <1>2, <1>3 DEF UInv, FiledOrder, Filed
<1>10. TextOwned' /\ NodeOwned'
  <2>1. \A m \in Msgs : /\ text'[m] = IF m = new THEN "live" ELSE text[m]
                        /\ node'[m] = IF m = new THEN "live" ELSE node[m]
    BY <1>1, Facts DEF Make, Blocks
  <2> QED
    BY <1>2, <1>4, <2>1 DEF UInv, TextOwned, NodeOwned
<1>11. DumpKept'
  BY <1>2 DEF UInv, DumpKept
<1> QED
  BY <1>5, <1>6, <1>7, <1>8, <1>9, <1>10, <1>11 DEF UInv

\* The first push and the second one, when there is room.
LEMMA EnqueueKeeps ==
    ASSUME UInv, core.at \in {"push", "retry"}, HasRoom, Enqueue, core' = Idle,
           UNCHANGED <<port, online, locked, sender, memory, bulk, delivered, made>>
    PROVE  UInv'
<1>1. core.tt \in Msgs /\ core.tt # None /\ core'.at = "scan" /\ core'.tt = None
  BY Facts DEF UInv, Places, Holder, Idle
<1>2. /\ queue' \in Seq(Msgs) /\ Len(queue') = Len(queue) + 1
      /\ ToSet(queue') = ToSet(queue) \cup {core.tt}
      /\ Increasing(queue')
  <2>1. Increasing(queue) /\ \A m \in ToSet(queue) : m < core.tt
    BY <1>1 DEF UInv, HeldOrder
  <2> QED
    BY <1>1, <2>1, Facts, Appended DEF Enqueue
<1>3. Held' = Held
  BY <1>1, <1>2 DEF Held
<1>4. TypeOK'
  <2>1. Len(queue') <= QueueMax
    BY <1>2, Facts, UplinkAssumption DEF HasRoom
  <2>2. core' \in [at : {"scan", "push", "dump", "save", "retry"}, tt : Holder]
    BY DEF Idle, Holder
  <2> QED
    BY <1>2, <2>1, <2>2 DEF UInv, TypeOK
<1>5. Places'
  BY <1>1 DEF UInv, Places
<1>6. HeldOrder'
  BY <1>1, <1>2, Facts DEF UInv, HeldOrder, Holder, Msgs
<1>7. SentOrder'
  BY <1>1, <1>2 DEF UInv, SentOrder
<1>8. FiledOrder'
  BY <1>1, <1>2 DEF UInv, FiledOrder, Filed
<1>9. TextOwned' /\ NodeOwned' /\ DumpKept'
  BY <1>3 DEF UInv, TextOwned, NodeOwned, DumpKept
<1> QED
  BY <1>4, <1>5, <1>6, <1>7, <1>8, <1>9 DEF UInv

LEMMA PushKeeps == UInv /\ Push => UInv'
<1> SUFFICES ASSUME UInv, Push PROVE UInv'
  OBVIOUS
<1>1. CASE HasRoom
  BY <1>1, EnqueueKeeps DEF Push
<1>2. CASE ~HasRoom
  <2>1. core'.at = "dump" /\ core'.tt = core.tt /\ core' = [at |-> "dump", tt |-> core.tt]
    BY <1>2, Facts DEF Push
  <2>2. UNCHANGED <<port, online, queue, locked, sender, memory, bulk, delivered, made>>
    BY <1>2 DEF Push
  <2>3. TypeOK'
    BY <2>1, <2>2, Facts DEF UInv, TypeOK
  <2>4. Held' = Held
    BY <2>1, <2>2 DEF Held
  <2>5. Places'
    BY <2>1, <2>2, Facts DEF UInv, Places, Push
  <2>6. HeldOrder' /\ SentOrder' /\ FiledOrder'
    BY <2>1, <2>2 DEF UInv, HeldOrder, SentOrder, FiledOrder, Filed
  <2>7. TextOwned' /\ NodeOwned' /\ DumpKept'
    BY <2>2, <2>4 DEF UInv, TextOwned, NodeOwned, DumpKept
  <2> QED
    BY <2>3, <2>5, <2>6, <2>7 DEF UInv
<1> QED
  BY <1>1, <1>2

\* What a dump takes from the queue.
LEMMA Dumped ==
    ASSUME UInv, NEW n \in 0..Len(queue), core.at = "dump",
           Release(ToSet(Oldest(n))), queue' = Newer(n), core'.tt = core.tt,
           UNCHANGED <<port, sender, delivered, made>>
    PROVE  /\ queue' \in Seq(Msgs) /\ Len(queue') <= Len(queue)
           /\ Oldest(n) \in Seq(Msgs) /\ ToSet(Oldest(n)) \subseteq Msgs
           /\ Len(Oldest(n)) = n /\ Increasing(Oldest(n))
           /\ ToSet(Oldest(n)) \subseteq ToSet(queue)
           /\ ToSet(queue') \subseteq ToSet(queue)
           /\ \A e \in ToSet(Oldest(n)), u \in ToSet(queue') : e < u
           /\ text' \in Blocks /\ node' \in Blocks
           /\ HeldOrder' /\ SentOrder' /\ TextOwned' /\ NodeOwned'
<1> DEFINE old == Oldest(n)
<1>1. /\ queue' \in Seq(Msgs) /\ old \in Seq(Msgs)
      /\ Len(old) = n /\ Len(queue') = Len(queue) - n
      /\ ToSet(queue) = ToSet(old) \cup ToSet(queue')
      /\ Increasing(old) /\ Increasing(queue')
      /\ \A e \in ToSet(old), u \in ToSet(queue') : e < u
  BY Split, Facts DEF UInv, HeldOrder
<1>2. Len(queue') <= Len(queue)
  <2>1. Len(queue) \in Nat /\ n \in Nat
    BY Facts
  <2> QED
    BY <1>1, <2>1
<1>3. /\ core.tt # None /\ core.tt \notin ToSet(old) /\ sender.tt \notin ToSet(old)
      /\ \A m \in ToSet(queue') : m \notin ToSet(old)
  BY <1>1, Facts DEF UInv, Places, HeldOrder, Holder, Msgs
<1>4. Held' = Held \ ToSet(old) /\ ToSet(old) \subseteq Held
  BY <1>1, <1>3 DEF Held
<1>5. ToSet(old) \subseteq Msgs
  BY <1>1, Facts
<1>6. /\ text' \in Blocks /\ node' \in Blocks /\ TextOwned' /\ NodeOwned'
  BY <1>4, <1>5, Released
<1>7. HeldOrder' /\ SentOrder'
  BY <1>1 DEF UInv, HeldOrder, SentOrder
<1> QED
  BY <1>1, <1>2, <1>5, <1>6, <1>7

LEMMA DumpClientKeeps == UInv /\ DumpClient => UInv'
<1> SUFFICES ASSUME UInv, DumpClient PROVE UInv'
  OBVIOUS
<1>1. PICK n \in 0..Len(queue) : /\ Release(ToSet(Oldest(n)))
                                 /\ dumped' = dumped \cup ToSet(Oldest(n))
                                 /\ queue' = Newer(n)
  BY DEF DumpClient
<1>2. /\ core.at = "dump" /\ port = "mqttclient" /\ locked' = TRUE
      /\ core'.at = "retry" /\ core'.tt = core.tt
      /\ core' = [at |-> "retry", tt |-> core.tt]
  BY Facts DEF DumpClient
<1>3. UNCHANGED <<port, online, sender, cache, files, cut, delivered, made>>
  BY DEF DumpClient
<1>4. /\ queue' \in Seq(Msgs) /\ Len(queue') <= Len(queue)
      /\ ToSet(queue') \subseteq ToSet(queue) /\ ToSet(Oldest(n)) \subseteq Msgs
      /\ text' \in Blocks /\ node' \in Blocks
      /\ HeldOrder' /\ SentOrder' /\ TextOwned' /\ NodeOwned'
  BY <1>1, <1>2, <1>3, Dumped
<1>5. TypeOK'
  <2>1. Len(queue') <= QueueMax
    BY <1>4, Facts, UplinkAssumption DEF UInv, TypeOK
  <2>2. misused' \in BOOLEAN /\ dumped' \subseteq Msgs
    BY <1>1, <1>4 DEF UInv, TypeOK, Release
  <2>3. core' \in [at : {"scan", "push", "dump", "save", "retry"}, tt : Holder]
    BY <1>2, Facts
  <2> QED
    BY <1>2, <1>3, <1>4, <2>1, <2>2, <2>3 DEF UInv, TypeOK
<1>6. Places'
  BY <1>2, <1>3 DEF UInv, Places
<1>7. FiledOrder'
  BY <1>2, <1>3, <1>4 DEF UInv, FiledOrder, Filed
<1>8. DumpKept'
  BY <1>2, <1>3 DEF DumpKept
<1> QED
  BY <1>4, <1>5, <1>6, <1>7, <1>8 DEF UInv

LEMMA DumpMyKeeps == UInv /\ DumpMy => UInv'
<1> SUFFICES ASSUME UInv, DumpMy PROVE UInv'
  OBVIOUS
<1>1. PICK n \in 0..Len(queue) :
         /\ n <= Room /\ Release(ToSet(Oldest(n)))
         /\ dumped' = dumped \cup ToSet(Oldest(n))
         /\ cache' = cache \o Oldest(n)
         /\ queue' = Newer(n)
         /\ core' = [core EXCEPT !.at = IF n > 0 /\ Len(cache') > CacheMax \div 2
                                          THEN "save" ELSE "retry"]
  BY DEF DumpMy
<1>2. /\ core.at = "dump" /\ port = "mymqtt"
      /\ core'.at \in {"save", "retry"} /\ core'.tt = core.tt
      /\ core' = [at |-> core'.at, tt |-> core.tt]
  BY <1>1, Facts DEF DumpMy
<1>3. UNCHANGED <<port, online, locked, sender, files, cut, delivered, made>>
  BY DEF DumpMy
<1>4. /\ queue' \in Seq(Msgs) /\ Len(queue') <= Len(queue)
      /\ Oldest(n) \in Seq(Msgs) /\ ToSet(Oldest(n)) \subseteq Msgs
      /\ Len(Oldest(n)) = n /\ Increasing(Oldest(n))
      /\ ToSet(Oldest(n)) \subseteq ToSet(queue)
      /\ ToSet(queue') \subseteq ToSet(queue)
      /\ \A e \in ToSet(Oldest(n)), u \in ToSet(queue') : e < u
      /\ text' \in Blocks /\ node' \in Blocks
      /\ HeldOrder' /\ SentOrder' /\ TextOwned' /\ NodeOwned'
  BY <1>1, <1>2, <1>3, Dumped
<1>5. /\ cache' \in Seq(Msgs) /\ Len(cache') = Len(cache) + n
      /\ Filed' = Filed \o Oldest(n)
  <2>1. cache \in Seq(Msgs) /\ files \in Seq(Msgs)
    BY MsgSets
  <2>2. (files \o cache) \o Oldest(n) = files \o (cache \o Oldest(n))
    BY <1>4, <2>1, ConcatAssociative
  <2>3. cache' \in Seq(Msgs) /\ Len(cache') = Len(cache) + n
    BY <1>1, <1>4, <2>1, Joined
  <2>4. Filed' = Filed \o Oldest(n)
    BY <1>1, <1>3, <2>2, Zenon DEF Filed
  <2> QED
    BY <2>3, <2>4
<1>6. /\ ToSet(Filed') = ToSet(Filed) \cup ToSet(Oldest(n))
      /\ Increasing(Filed')
  <2>1. \A e \in ToSet(Filed), d \in ToSet(Oldest(n)) : e < d
    BY <1>4 DEF UInv, FiledOrder
  <2>2. Increasing(Filed)
    BY DEF UInv, FiledOrder
  <2> QED
    BY <1>4, <1>5, <2>1, <2>2, MsgSets, Joined
<1>7. TypeOK'
  <2>1. Len(queue') <= QueueMax
    BY <1>4, Facts, UplinkAssumption DEF UInv, TypeOK
  <2>2. misused' \in BOOLEAN /\ dumped' \subseteq Msgs
    BY <1>1, <1>4 DEF UInv, TypeOK, Release
  <2>3. core' \in [at : {"scan", "push", "dump", "save", "retry"}, tt : Holder]
    BY <1>2, Facts
  <2>4. Len(cache') <= CacheMax
    <3>1. Len(cache) \in Nat /\ n \in Nat
      BY MsgSets, Facts
    <3> QED
      BY <1>1, <1>5, <3>1, UplinkAssumption DEF Room
  <2> QED
    BY <1>3, <1>4, <1>5, <2>1, <2>2, <2>3, <2>4 DEF UInv, TypeOK
<1>8. Places'
  BY <1>2, <1>3 DEF UInv, Places
<1>9. FiledOrder'
  <2>1. \A f \in ToSet(Oldest(n)) :
           /\ f <= made /\ f \in Int /\ \A m \in ToSet(queue') : f < m
           /\ core.tt # None => f < core.tt
           /\ f # sender.tt /\ f \notin ToSet(delivered)
    BY <1>4, Facts, MsgSets DEF UInv, HeldOrder, SentOrder, Holder, Msgs
  <2>2. \A f \in ToSet(Filed) :
           /\ f <= made /\ \A m \in ToSet(queue') : f < m
           /\ core.tt # None => f < core.tt
           /\ f # sender.tt /\ f \notin ToSet(delivered)
    BY <1>4 DEF UInv, FiledOrder
  <2>3. cut' \subseteq ToSet(Filed')
    BY <1>3, <1>6 DEF UInv, FiledOrder
  <2> QED
    BY <1>2, <1>3, <1>6, <2>1, <2>2, <2>3 DEF FiledOrder
<1>10. DumpKept'
  <2>1. dumped = ToSet(Filed)
    BY <1>2 DEF UInv, DumpKept, Filed
  <2>2. dumped' = ToSet(Filed')
    BY <1>1, <1>6, <2>1
  <2> QED
    BY <2>2 DEF DumpKept, Filed
<1> QED
  BY <1>4, <1>7, <1>8, <1>9, <1>10 DEF UInv

LEMMA SaveKeepsUInv == UInv /\ Save => UInv'
<1> SUFFICES ASSUME UInv, Save PROVE UInv'
  OBVIOUS
<1>1. /\ core.at = "save" /\ port = "mymqtt" /\ core'.at = "retry" /\ core'.tt = core.tt
      /\ core' = [at |-> "retry", tt |-> core.tt] /\ core.tt \in Holder
  BY Facts DEF Save, UInv, Places
<1>2. UNCHANGED <<port, online, queue, locked, sender, memory, cut, dumped, delivered, made>>
  BY DEF Save
<1>3. /\ files' = Filed /\ cache' = <<>> /\ Filed' = Filed
      /\ files' \in Seq(Msgs) /\ cache' \in Seq(Msgs) /\ Len(cache') = 0
  BY MsgSets, ConcatEmptySeq DEF Save, Filed
<1>4. TypeOK'
  <2>1. core' \in [at : {"scan", "push", "dump", "save", "retry"}, tt : Holder]
    BY <1>1
  <2>2. Len(cache') <= CacheMax
    BY <1>3, UplinkAssumption
  <2> QED
    BY <1>2, <1>3, <2>1, <2>2 DEF UInv, TypeOK
<1>5. Places'
  BY <1>1, <1>2 DEF UInv, Places
<1>6. Held' = Held
  BY <1>1, <1>2 DEF Held
<1>7. HeldOrder' /\ SentOrder' /\ FiledOrder'
  BY <1>1, <1>2, <1>3 DEF UInv, HeldOrder, SentOrder, FiledOrder
<1>8. TextOwned' /\ NodeOwned'
  BY <1>2, <1>6 DEF UInv, TextOwned, NodeOwned
<1>9. DumpKept'
  BY <1>2, <1>3 DEF UInv, DumpKept, Filed
<1> QED
  BY <1>4, <1>5, <1>7, <1>8, <1>9 DEF UInv

LEMMA SaveFailKeeps == UInv /\ SaveFail => UInv'
<1> SUFFICES ASSUME UInv, SaveFail PROVE UInv'
  OBVIOUS
<1>1. /\ core.at = "save" /\ port = "mymqtt" /\ core'.at = "retry" /\ core'.tt = core.tt
      /\ core' = [at |-> "retry", tt |-> core.tt] /\ core.tt \in Holder
  BY Facts DEF SaveFail, UInv, Places
<1>2. UNCHANGED <<port, online, queue, locked, sender, memory, cache, files, dumped,
                  delivered, made>>
  BY DEF SaveFail
<1>3. cut' \subseteq ToSet(Filed) /\ cut' \subseteq Msgs
  <2>1. PICK n \in 0..Len(cache) - 1 : cut' = cut \cup ToSet(SubSeq(cache, 1, n))
    BY DEF SaveFail, WrittenShort
  <2>2. cache \in Seq(Msgs) /\ files \in Seq(Msgs) /\ ToSet(Filed) \subseteq Msgs
    BY MsgSets
  <2>3. ToSet(SubSeq(cache, 1, n)) \subseteq ToSet(cache)
    <3>1. n \in Int /\ 0 <= n /\ n <= Len(cache) /\ Len(cache) \in Nat
      BY <2>1, <2>2
    <3>2. /\ DOMAIN SubSeq(cache, 1, n) = 1..n
          /\ \A i \in 1..n : SubSeq(cache, 1, n)[i] = cache[i] /\ i \in DOMAIN cache
      BY <2>2, <3>1
    <3> QED
      BY <3>2 DEF ToSet
  <2>4. ToSet(cache) \subseteq ToSet(Filed)
    BY <2>2, Joined DEF Filed
  <2>5. cut \subseteq ToSet(Filed)
    BY DEF UInv, FiledOrder
  <2> QED
    BY <2>1, <2>2, <2>3, <2>4, <2>5
<1>4. TypeOK'
  <2>1. core' \in [at : {"scan", "push", "dump", "save", "retry"}, tt : Holder]
    BY <1>1
  <2> QED
    BY <1>2, <1>3, <2>1 DEF UInv, TypeOK
<1>5. Places'
  BY <1>1, <1>2 DEF UInv, Places
<1>6. Held' = Held
  BY <1>1, <1>2 DEF Held
<1>7. HeldOrder' /\ SentOrder'
  BY <1>1, <1>2 DEF UInv, HeldOrder, SentOrder
<1>8. FiledOrder'
  BY <1>1, <1>2, <1>3 DEF UInv, FiledOrder, Filed
<1>9. TextOwned' /\ NodeOwned' /\ DumpKept'
  BY <1>2, <1>6 DEF UInv, TextOwned, NodeOwned, DumpKept
<1> QED
  BY <1>4, <1>5, <1>7, <1>8, <1>9 DEF UInv

LEMMA RetryKeeps == UInv /\ Retry => UInv'
<1> SUFFICES ASSUME UInv, Retry PROVE UInv'
  OBVIOUS
<1>1. CASE HasRoom
  BY <1>1, EnqueueKeeps DEF Retry
<1>2. CASE ~HasRoom
  <2>1. /\ core.tt \in Msgs /\ core.tt # None /\ port # "mqttclient"
        /\ core'.at = "scan" /\ core'.tt = None /\ core' = [at |-> "scan", tt |-> None]
    BY Facts DEF Retry, UInv, Places, Holder, Idle
  <2>2. /\ text' = Freed(text, {core.tt})
        /\ UNCHANGED <<port, online, queue, locked, sender, node, misused, bulk, delivered, made>>
    BY <1>2 DEF Retry
  <2>3. Held' = Held \ {core.tt} /\ core.tt \in Held
    BY <2>1, <2>2, Facts DEF Held, UInv, HeldOrder, Holder, Msgs
  <2>4. /\ text' \in Blocks /\ ~misused
        /\ \A m \in Msgs : text'[m] = "live" <=> m \in Held'
    <3>1. {core.tt} \subseteq Held
      BY <2>3
    <3> QED
      BY <2>2, <2>3, <3>1, Forgotten
  <2>5. TextOwned' /\ NodeOwned'
    BY <2>1, <2>2, <2>4 DEF TextOwned, NodeOwned
  <2>6. TypeOK'
    <3>1. core' \in [at : {"scan", "push", "dump", "save", "retry"}, tt : Holder]
      BY <2>1 DEF Holder
    <3> QED
      BY <2>2, <2>4, <3>1 DEF UInv, TypeOK
  <2>7. Places'
    BY <2>1, <2>2 DEF UInv, Places
  <2>8. made \in Nat /\ 0 <= made
    BY Facts, UplinkAssumption
  <2>9. HeldOrder' /\ SentOrder' /\ FiledOrder'
    BY <2>1, <2>2, <2>8 DEF UInv, HeldOrder, SentOrder, FiledOrder, Filed
  <2>10. DumpKept'
    BY <2>2 DEF UInv, DumpKept
  <2> QED
    BY <2>5, <2>6, <2>7, <2>9, <2>10 DEF UInv
<1> QED
  BY <1>1, <1>2

(***************************************************************************)
(* The steps of the port's thread                                          *)
(***************************************************************************)
LEMMA ConnectedKeeps == UInv /\ Connected => UInv'
<1> SUFFICES ASSUME UInv, Connected PROVE UInv'
  OBVIOUS
<1>1. /\ sender.at = "test" /\ sender.tt = None /\ sender'.at = "recv" /\ sender'.tt = None
      /\ sender' = [at |-> "recv", tt |-> None]
  BY Facts DEF Connected, UInv, Places
<1>2. UNCHANGED <<port, online, queue, locked, core, memory, bulk, delivered, made>>
  BY DEF Connected
<1>3. TypeOK'
  <2>1. sender' \in [at : {"test", "recv", "publish", "free"}, tt : Holder]
    BY <1>1 DEF Holder
  <2> QED
    BY <1>2, <2>1 DEF UInv, TypeOK
<1>4. Places'
  BY <1>1, <1>2 DEF UInv, Places
<1>5. Held' = Held
  BY <1>1, <1>2 DEF Held
<1>6. HeldOrder' /\ SentOrder' /\ FiledOrder'
  BY <1>1, <1>2 DEF UInv, HeldOrder, SentOrder, FiledOrder, Filed
<1>7. TextOwned' /\ NodeOwned' /\ DumpKept'
  BY <1>2, <1>5 DEF UInv, TextOwned, NodeOwned, DumpKept
<1> QED
  BY <1>3, <1>4, <1>6, <1>7 DEF UInv

LEMMA RecvKeeps == UInv /\ Recv => UInv'
<1> SUFFICES ASSUME UInv, Recv PROVE UInv'
  OBVIOUS
<1> DEFINE first == Head(queue)
<1>1. /\ queue' \in Seq(Msgs) /\ first \in Msgs /\ Len(queue') < Len(queue)
      /\ ToSet(queue) = {first} \cup ToSet(queue')
      /\ Increasing(queue') /\ \A e \in ToSet(queue') : first < e
  BY Facts, FirstAndRest DEF Recv, UInv, HeldOrder
<1>2. /\ sender.at = "recv" /\ sender.tt = None
      /\ sender'.at = "publish" /\ sender'.tt = first
      /\ sender' = [at |-> "publish", tt |-> first] /\ first # None
  BY <1>1 DEF Recv, UInv, Places, Msgs
<1>3. UNCHANGED <<port, online, locked, core, memory, bulk, delivered, made>>
  BY DEF Recv
<1> HIDE DEF first
<1>4. TypeOK'
  <2>1. sender' \in [at : {"test", "recv", "publish", "free"}, tt : Holder]
    BY <1>1, <1>2 DEF Holder
  <2>2. Len(queue') <= QueueMax
    BY <1>1, Facts, UplinkAssumption DEF UInv, TypeOK
  <2> QED
    BY <1>1, <1>3, <2>1, <2>2 DEF UInv, TypeOK
<1>5. Places'
  BY <1>2, <1>3 DEF UInv, Places
<1>6. Held' = Held
  BY <1>1, <1>2, <1>3 DEF Held
<1>7. HeldOrder' /\ SentOrder'
  BY <1>1, <1>2, <1>3 DEF UInv, HeldOrder, SentOrder
<1>8. FiledOrder'
  <2>1. \A f \in ToSet(Filed) : f # first
    <3> SUFFICES ASSUME NEW f \in ToSet(Filed) PROVE f # first
      OBVIOUS
    <3>1. f < first
      BY <1>1 DEF UInv, FiledOrder
    <3>2. first \in Int
      BY <1>1 DEF Msgs
    <3> QED
      BY <3>1, <3>2
  <2> QED
    BY <1>1, <1>2, <1>3, <2>1 DEF UInv, FiledOrder, Filed
<1>9. TextOwned' /\ NodeOwned' /\ DumpKept'
  BY <1>3, <1>6 DEF UInv, TextOwned, NodeOwned, DumpKept
<1> QED
  BY <1>4, <1>5, <1>7, <1>8, <1>9 DEF UInv

LEMMA PublishKeeps == UInv /\ Publish => UInv'
<1> SUFFICES ASSUME UInv, Publish PROVE UInv'
  OBVIOUS
<1>1. /\ sender.at = "publish" /\ sender.tt \in Msgs /\ sender.tt # None
      /\ sender'.at = "free" /\ sender'.tt = sender.tt
      /\ sender' = [at |-> "free", tt |-> sender.tt]
  BY Facts DEF Publish, UInv, Places, Holder
<1>2. UNCHANGED <<port, online, queue, locked, core, text, node, bulk, made>>
  BY DEF Publish
<1>3. \/ delivered' = delivered
      \/ /\ delivered' \in Seq(Msgs) /\ Increasing(delivered')
         /\ ToSet(delivered') = ToSet(delivered) \cup {sender.tt}
  <2>1. Increasing(delivered) /\ \A d \in ToSet(delivered) : d < sender.tt
    BY <1>1 DEF UInv, SentOrder
  <2>2. Append(delivered, sender.tt) \in Seq(Msgs)
        /\ Increasing(Append(delivered, sender.tt))
        /\ ToSet(Append(delivered, sender.tt)) = ToSet(delivered) \cup {sender.tt}
    BY <1>1, <2>1, MsgSets, Appended
  <2> QED
    BY <2>2 DEF Publish
<1>4. Held' = Held /\ sender.tt \in Held
  BY <1>1, <1>2 DEF Held
<1>5. ~misused'
  BY <1>1, <1>4 DEF Publish, UInv, TextOwned
<1>6. TypeOK'
  <2>1. sender' \in [at : {"test", "recv", "publish", "free"}, tt : Holder]
    BY <1>1 DEF Holder
  <2>2. delivered' \in Seq(Msgs)
    BY <1>3, MsgSets
  <2>3. misused' \in BOOLEAN
    BY DEF Publish, UInv, TypeOK
  <2> QED
    BY <1>2, <1>5, <2>1, <2>3, <2>2 DEF UInv, TypeOK
<1>7. Places'
  BY <1>1, <1>2 DEF UInv, Places
<1>8. HeldOrder'
  BY <1>1, <1>2 DEF UInv, HeldOrder
<1>9. SentOrder'
  BY <1>1, <1>2, <1>3 DEF UInv, HeldOrder, SentOrder
<1>10. FiledOrder'
  BY <1>1, <1>2, <1>3 DEF UInv, FiledOrder, Filed
<1>11. TextOwned' /\ NodeOwned' /\ DumpKept'
  BY <1>2, <1>4, <1>5 DEF UInv, TextOwned, NodeOwned, DumpKept
<1> QED
  BY <1>6, <1>7, <1>8, <1>9, <1>10, <1>11 DEF UInv

LEMMA PublishedKeeps == UInv /\ Published => UInv'
<1> SUFFICES ASSUME UInv, Published PROVE UInv'
  OBVIOUS
<1>1. /\ sender.at = "free" /\ sender.tt \in Msgs /\ sender.tt # None
      /\ sender'.at \in {"test", "recv"} /\ sender'.tt = None
      /\ sender' = [at |-> sender'.at, tt |-> None]
  BY Facts DEF Published, UInv, Places, Holder, Listening
<1>2. UNCHANGED <<port, online, queue, locked, core, bulk, delivered, made>>
  BY DEF Published
<1>3. Held' = Held \ {sender.tt} /\ {sender.tt} \subseteq Held \cap Msgs
  BY <1>1, <1>2, Facts DEF Held, UInv, HeldOrder, Holder, Msgs
<1>4. text' \in Blocks /\ node' \in Blocks /\ ~misused' /\ TextOwned' /\ NodeOwned'
  BY <1>2, <1>3, Released DEF Published
<1>5. TypeOK'
  <2>1. sender' \in [at : {"test", "recv", "publish", "free"}, tt : Holder]
    BY <1>1 DEF Holder
  <2>3. misused' \in BOOLEAN
    BY DEF Published, Release, UInv, TypeOK
  <2> QED
    BY <1>2, <1>4, <2>1, <2>3 DEF UInv, TypeOK
<1>6. Places'
  BY <1>1, <1>2 DEF UInv, Places
<1>7. HeldOrder'
  BY <1>1, <1>2, Facts DEF UInv, HeldOrder, Holder, Msgs
<1>8. SentOrder'
  BY <1>1, <1>2 DEF UInv, SentOrder
<1>9. FiledOrder'
  BY <1>1, <1>2, MsgSets DEF UInv, FiledOrder, Filed, Msgs
<1>10. DumpKept'
  BY <1>2 DEF UInv, DumpKept
<1> QED
  BY <1>4, <1>5, <1>6, <1>7, <1>8, <1>9, <1>10 DEF UInv

(***************************************************************************)
(* The theorems                                                            *)
(***************************************************************************)
LEMMA StepUInv == UInv /\ [Next]_vars => UInv'
<1> SUFFICES ASSUME UInv, [Next]_vars PROVE UInv'
  OBVIOUS
<1>1. CASE CoreStep
  BY <1>1, MakeKeeps, PushKeeps, DumpClientKeeps, DumpMyKeeps, SaveKeepsUInv,
     SaveFailKeeps, RetryKeeps DEF CoreStep
<1>2. CASE SenderStep
  BY <1>2, ConnectedKeeps, RecvKeeps, PublishKeeps, PublishedKeeps DEF SenderStep
<1>3. CASE Connection
  <2>1. /\ online' \in BOOLEAN
        /\ UNCHANGED <<port, queue, locked, core, sender, memory, bulk, delivered, made>>
    BY <1>3 DEF Connection, UInv, TypeOK
  <2> QED
    BY <2>1 DEF UInv, TypeOK, Places, HeldOrder, SentOrder, FiledOrder, Filed,
                TextOwned, NodeOwned, Held, DumpKept
<1>4. CASE UNCHANGED vars
  BY <1>4 DEF vars, UInv, TypeOK, Places, HeldOrder, SentOrder, FiledOrder, Filed,
              TextOwned, NodeOwned, Held, DumpKept
<1> QED
  BY <1>1, <1>2, <1>3, <1>4 DEF Next

\* Every reachable state has the types, and queue and cache stay within their
\* limits (REALTIME_OUT_CACHE_MAX, BULK_FILE_MAX_BYTES); with it the rest of
\* the inductive invariant.
THEOREM UplinkInvariance == Spec => []UInv
  BY InitUInv, StepUInv, PTL DEF Spec

THEOREM UplinkTypeCorrect == Spec => []TypeOK
<1>1. UInv => TypeOK
  BY DEF UInv
<1> QED
  BY <1>1, UplinkInvariance, PTL

\* A message's text lives exactly as long as the core thread, the queue or the
\* port's thread holds it: mqtt_send_thread, do_dump and mdc_loop never free it
\* twice, and mqtt_publish never reads a freed one.
THEOREM TextsOwned == Spec => []TextOwned
<1>1. UInv => TextOwned
  BY DEF UInv
<1> QED
  BY <1>1, UplinkInvariance, PTL

\* With mqttclient the same is true of the telemetry_t, whatever the number of
\* messages.
THEOREM NodesOwned == Spec => []NodeOwned
<1>1. UInv => NodeOwned
  BY DEF UInv
<1> QED
  BY <1>1, UplinkInvariance, PTL

\* Messages are published, and cached and filed, in the order mds_loop made
\* them, though publishing and dumping take from the same queue; none is both
\* published and dumped, none is twice among the cached and those of the files
\* that were saved whole, and a short write leaves in a file only such as the
\* cache keeps, or has kept, until a whole save.
THEOREM SentOnceInOrder == Spec => []OnceInOrder
<1>1. UInv => OnceInOrder
  BY DEF UInv, SentOrder, FiledOrder, OnceInOrder, Filed
<1> QED
  BY <1>1, UplinkInvariance, PTL

\* What do_dump of mymqtt copied is in the cache or in a bulk file.
THEOREM DumpsKept == Spec => []DumpKept
<1>1. UInv => DumpKept
  BY DEF UInv
<1> QED
  BY <1>1, UplinkInvariance, PTL
=============================================================================
